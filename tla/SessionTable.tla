---------------------------- MODULE SessionTable ----------------------------
(***************************************************************************)
(* How an event finds its session (correlation.py and                      *)
(* Store._select_or_create_session).  A table maps the id of each session  *)
(* to its row.  An event carries an identity (source, sensor, service,     *)
(* protocol, port), a timestamp and perhaps an explicit session token.     *)
(***************************************************************************)
EXTENDS Integers

CONSTANTS
  SessionGap,   \* SESSION_GAP: the longest pause inside a temporal session
  NoToken       \* the event names no sensor session and no flow

ASSUME GapAssumption == SessionGap \in Nat

(* SHA-256 over identity and token, or over identity and start time: distinct
   inputs give distinct ids. *)
SessionIdExplicit(event) ==
  [ident |-> event.ident, token |-> event.token, start |-> 0]
SessionIdTemporal(event) ==
  [ident |-> event.ident, token |-> NoToken, start |-> event.ts]

ShouldJoin(lastSeen, ts) == 0 <= ts - lastSeen /\ ts - lastSeen <= SessionGap

(* ORDER BY last_seen DESC LIMIT 1 over the rows of the same identity, rows
   opened by an explicit token included; a tie is broken either way. *)
Latest(tbl, event) ==
  LET same == {s \in DOMAIN tbl : s.ident = event.ident}
  IN {s \in same : \A r \in same : tbl[r].last <= tbl[s].last}

NewSession(event) == [started |-> event.ts, last |-> event.ts, count |-> 1]

Opened(tbl, id, event) ==
  [x \in DOMAIN tbl \cup {id} |-> IF x = id THEN NewSession(event) ELSE tbl[x]]

(* The session an event joins or opens: a set, for the tie above. *)
SelectedSession(tbl, event) ==
  LET joinable == {s \in Latest(tbl, event) : ShouldJoin(tbl[s].last, event.ts)}
  IN IF event.token # NoToken THEN {SessionIdExplicit(event)}
     ELSE IF joinable = {} THEN {SessionIdTemporal(event)}
     ELSE joinable

Joins(tbl, event, id) ==
  IF event.token # NoToken THEN id \in DOMAIN tbl
  ELSE id \in Latest(tbl, event) /\ ShouldJoin(tbl[id].last, event.ts)

(* A new temporal session whose id is already taken: the primary key refuses
   the INSERT and the transaction fails. *)
SessionRefused(tbl, event, id) == ~Joins(tbl, event, id) /\ id \in DOMAIN tbl

(* The table after the event joined or opened session id. *)
WithEvent(tbl, event, id) ==
  IF ~Joins(tbl, event, id) THEN Opened(tbl, id, event)
  ELSE [tbl EXCEPT ![id] =
          [started |-> IF event.token # NoToken /\ event.ts < @.started
                       THEN event.ts ELSE @.started,
           last    |-> IF event.ts > @.last THEN event.ts ELSE @.last,
           count   |-> @.count + 1]]
=============================================================================
