-------------------------- MODULE DetectionPipeline --------------------------
(***************************************************************************)
(* From a stored event to an alert: record_detection_findings (app.py),    *)
(* DetectionSuppressionStore (detection_suppression.py) and AlertStore     *)
(* (alerts.py) over one database.                                          *)
(*                                                                         *)
(* The request that stored an event reads the rules' context, and then     *)
(* takes the findings one by one: a SELECT for a suppression, a SELECT for *)
(* an open alert, and the transaction that writes the alert.  Each is a    *)
(* connection of its own, so other requests come between any two of them.  *)
(* How an event is stored is EventStore; here it is in the log or not.     *)
(***************************************************************************)
EXTENDS DetectionRules

CONSTANTS
  Threads,     \* requests that ingest
  Operators,   \* requests that delete suppressions
  Workloads,   \* bound: what sensors and operators do in one behaviour
  MaxTerm      \* MAX_SUPPRESSION_SECONDS, in ticks

(* offered: events that arrive, with times and ids that can be compared;     *)
(* rules, scopes: what operators suppress; the rest bounds their requests,   *)
(* the requests cut off and the clock.                                       *)
ASSUME PipelineAssumption ==
  /\ \A w \in Workloads :
       /\ \A event \in w.offered : event.ts \in Int /\ event.id \in Int
       /\ w.rules \subseteq Rules
       /\ {w.triages, w.suppressions, w.cuts, w.ticks} \subseteq Nat
  /\ MaxTerm \in Nat

VARIABLES
  workload,
  log,       \* committed events, in commit order
  req,       \* req[t]: the request thread t serves
  alerts,    \* rows of alerts, in order of creation
  supps,     \* rows of detection_suppressions
  trail,     \* rows of detection_suppression_audit
  deletion,  \* deletion[o]: the suppression operator o's request found, or None
  clock,
  triages,   \* number of status changes so far
  handled,   \* history: findings answered by a suppression or an alert
  cut,       \* history: events whose request ended before its last finding
  forked     \* history: keys looked up by one request while another was
             \* about to insert, or reopened by an operator

vars == <<workload, log, req, alerts, supps, trail, deletion, clock, triages,
          handled, cut, forked>>

Idle == [pc |-> "idle"]

Init ==
  /\ workload \in Workloads
  /\ log = <<>> /\ alerts = <<>> /\ supps = {} /\ trail = <<>>
  /\ req = [t \in Threads |-> Idle]
  /\ deletion = [o \in Operators |-> None]
  /\ clock = 0 /\ triages = 0
  /\ handled = {} /\ cut = {} /\ forked = {}

Stored == {log[i] : i \in DOMAIN log}

(* Open alerts of one key are one alert; rule_version is fixed by the rule. *)
Key(finding, event) == <<finding.rule, event.source, event.session>>

HeadFinding(t) == Head(req[t].todo)
CurrentKey(t) == Key(HeadFinding(t), req[t].event)

-----------------------------------------------------------------------------
(* The commit of Store.ingest, seen from here. *)
Ingest(t) ==
  /\ req[t].pc = "idle"
  /\ \E event \in workload.offered \ Stored :
       /\ log' = Append(log, event)
       /\ req' = [req EXCEPT ![t] = [pc |-> "stored", event |-> event]]
  /\ UNCHANGED <<workload, alerts, supps, trail, deletion, clock, triages,
                 handled, cut, forked>>

(* The loop goes on with these findings, or the request is answered. *)
Continue(t, findings) ==
  req' = [req EXCEPT ![t] =
            IF findings = <<>> THEN Idle
            ELSE [pc |-> "match", event |-> req[t].event, todo |-> findings]]

(* detection_context runs its two SELECTs, of the source and of the secret, in *)
(* two snapshots; here both see one.  An event that is committed in between is *)
(* found by the second alone, and by both in its own request's evaluation.     *)
Evaluate(t) ==
  /\ req[t].pc = "stored"
  /\ Continue(t, Findings(Stored, req[t].event))
  /\ UNCHANGED <<workload, log, alerts, supps, trail, deletion, clock, triages,
                 handled, cut, forked>>

(* The query of DetectionSuppressionStore.match. *)
Covers(s, rule, source, now) ==
  /\ s.rule = rule /\ s.expires > now
  /\ s.source \in {None, source}

(* What became of a finding: alert 0 is none.  now and told are the clock and *)
(* the length of the suppression trail when suppressions were looked up.      *)
Outcome(t, alert, now, told) ==
  [event |-> req[t].event, rule |-> HeadFinding(t).rule, alert |-> alert,
   at |-> now, told |-> told]

Match(t) ==
  /\ req[t].pc = "match"
  /\ IF \E s \in supps : Covers(s, HeadFinding(t).rule, req[t].event.source, clock)
     THEN /\ handled' = handled \cup {Outcome(t, 0, clock, Len(trail))}
          /\ Continue(t, Tail(req[t].todo))
     ELSE /\ req' = [req EXCEPT ![t] =
                       [pc |-> "lookup", event |-> req[t].event, todo |-> req[t].todo,
                        at |-> clock, told |-> Len(trail)]]
          /\ UNCHANGED handled
  /\ UNCHANGED <<workload, log, alerts, supps, trail, deletion, clock, triages,
                 cut, forked>>

OpenAlerts(key) == {a \in DOMAIN alerts : alerts[a].key = key /\ alerts[a].status # "closed"}

(* ORDER BY last_seen DESC LIMIT 1; 0 is no row. *)
Latest(A) ==
  IF A = {} THEN {0} ELSE {a \in A : \A b \in A : alerts[a].last >= alerts[b].last}

LookupAmong(t, A) ==
  /\ req[t].pc = "lookup"
  /\ \E a \in Latest(A) :
       req' = [req EXCEPT ![t] =
                 [pc |-> "write", event |-> req[t].event, todo |-> req[t].todo,
                  at |-> req[t].at, told |-> req[t].told, found |-> a]]
  /\ UNCHANGED <<workload, log, alerts, supps, trail, deletion, clock, triages,
                 handled, cut, forked>>

(* Variants with a suffix hold a plausible defect each; no definition uses them. *)
Lookup_AnySession(t) ==   \* the session is left out of the comparison
  LookupAmong(t, {a \in DOMAIN alerts :
                    /\ alerts[a].key[1] = CurrentKey(t)[1]
                    /\ alerts[a].key[2] = CurrentKey(t)[2]
                    /\ alerts[a].status # "closed"})

Lookup_NullDiffers(t) ==   \* source_ip=? without COALESCE: NULL equals nothing
  LookupAmong(t, IF req[t].event.source = None THEN {} ELSE OpenAlerts(CurrentKey(t)))

Lookup(t) == LookupAmong(t, OpenAlerts(CurrentKey(t)))

NewAlert(t) ==
  [key |-> CurrentKey(t), status |-> "new", first |-> req[t].event.ts,
   last |-> req[t].event.ts, count |-> 1, evidence |-> HeadFinding(t).evidence]

(* The UPDATE is by id alone: the alert may have been closed since the look-up. *)
AnotherOccurrence(alert, t) ==
  [alert EXCEPT !.last = req[t].event.ts, !.count = @ + 1,
                !.evidence = @ \cup HeadFinding(t).evidence]

(* Some other request also found no alert of this key and will insert one. *)
Crossed(t) ==
  \E u \in Threads \ {t} :
    req[u].pc = "write" /\ req[u].found = 0 /\ CurrentKey(u) = CurrentKey(t)

WriteAlert(t) ==
  /\ req[t].pc = "write"
  /\ LET a == IF req[t].found = 0 THEN Len(alerts) + 1 ELSE req[t].found
     IN /\ alerts' = IF req[t].found = 0 THEN Append(alerts, NewAlert(t))
                     ELSE [alerts EXCEPT ![a] = AnotherOccurrence(@, t)]
        /\ handled' = handled \cup {Outcome(t, a, req[t].at, req[t].told)}
  /\ forked' = IF req[t].found = 0 /\ Crossed(t) THEN forked \cup {CurrentKey(t)} ELSE forked
  /\ Continue(t, Tail(req[t].todo))
  /\ UNCHANGED <<workload, log, supps, trail, deletion, clock, triages, cut>>

(* An exception or the end of the worker: the event stays stored, and a       *)
(* repeated request is a duplicate, so its findings are never looked at again.*)
CutOff(t) ==
  /\ req[t].pc # "idle"
  /\ Cardinality(cut) < workload.cuts
  /\ cut' = cut \cup {req[t].event}
  /\ req' = [req EXCEPT ![t] = Idle]
  /\ UNCHANGED <<workload, log, alerts, supps, trail, deletion, clock, triages,
                 handled, forked>>

-----------------------------------------------------------------------------
(* AlertStore.update: any status from any status. *)
Triage(a) ==
  /\ a \in DOMAIN alerts
  /\ triages < workload.triages
  /\ \E status \in {"new", "acknowledged", "closed"} \ {alerts[a].status} :
       /\ alerts' = [alerts EXCEPT ![a].status = status]
       /\ forked' = IF alerts[a].status = "closed" THEN forked \cup {alerts[a].key} ELSE forked
  /\ triages' = triages + 1
  /\ UNCHANGED <<workload, log, req, supps, trail, deletion, clock, handled, cut>>

Told(action, s) == [action |-> action, supp |-> s]

Created == {i \in DOMAIN trail : trail[i].action = "created"}

CreateSuppression ==
  /\ Cardinality(Created) < workload.suppressions
  /\ \E rule \in workload.rules, source \in workload.scopes :
       \E expires \in (clock + 1)..(clock + MaxTerm) :
         LET s == [id |-> Len(trail) + 1, rule |-> rule, source |-> source,
                   expires |-> expires]
         IN /\ supps' = supps \cup {s}
            /\ trail' = Append(trail, Told("created", s))
  /\ UNCHANGED <<workload, log, req, alerts, deletion, clock, triages,
                 handled, cut, forked>>

(* delete looks the row up before its transaction. *)
AskUnsuppress(o) ==
  /\ deletion[o] = None
  /\ \E s \in supps : deletion' = [deletion EXCEPT ![o] = s]
  /\ UNCHANGED <<workload, log, req, alerts, supps, trail, clock, triages,
                 handled, cut, forked>>

Unsuppress_KeepsRow(o) ==
  /\ deletion[o] # None
  /\ trail' = Append(trail, Told("deleted", deletion[o]))
  /\ deletion' = [deletion EXCEPT ![o] = None]
  /\ UNCHANGED <<workload, log, req, alerts, supps, clock, triages,
                 handled, cut, forked>>

Unsuppress(o) ==
  /\ deletion[o] # None
  /\ supps' = supps \ {deletion[o]}
  /\ trail' = Append(trail, Told("deleted", deletion[o]))
  /\ deletion' = [deletion EXCEPT ![o] = None]
  /\ UNCHANGED <<workload, log, req, alerts, clock, triages, handled, cut, forked>>

Tick ==
  /\ clock < workload.ticks
  /\ clock' = clock + 1
  /\ UNCHANGED <<workload, log, req, alerts, supps, trail, deletion, triages,
                 handled, cut, forked>>

Next ==
  \/ \E t \in Threads : \/ Ingest(t) \/ Evaluate(t) \/ Match(t) \/ Lookup(t)
                        \/ WriteAlert(t) \/ CutOff(t)
  \/ \E a \in DOMAIN alerts : Triage(a)
  \/ CreateSuppression
  \/ \E o \in Operators : AskUnsuppress(o) \/ Unsuppress(o)
  \/ Tick

Spec == Init /\ [][Next]_vars

-----------------------------------------------------------------------------
(* What docs/DETECTIONS.md calls each rule, said of a set of events and not of *)
(* a window: S shows the behaviour when it fits the window and is enough, the  *)
(* event being one of S.                                                       *)
OneSource(S) == \E e \in S : e.source # None /\ \A f \in S : f.source = e.source

Within(rule, S) == \A e, f \in S : e.ts - f.ts <= Window[rule]

AllCredentials(S) == \A e \in S : e.kind = "credential"

AtLeast(rule, name, field, S) ==
  \E T \in SUBSET S :
    /\ Cardinality(T) >= Threshold[rule][name]
    /\ \A e, f \in T : e[field] # None /\ (e # f => e[field] # f[field])

Many(rule, name, S) == Cardinality(S) >= Threshold[rule][name]

Burst(rule, S, event) ==
  \/ /\ rule \in SingleRules
     /\ S = {event} /\ rule \in event.shows
  \/ /\ rule \in TemporalRules \ {"credential_reuse"}
     /\ OneSource(S) /\ Within(rule, S)
     /\ \/ rule = "multiple_auth_failures" /\ AllCredentials(S) /\ Many(rule, "attempts", S)
        \/ /\ rule = "credential_bruteforce" /\ AllCredentials(S)
           /\ Many(rule, "attempts", S) /\ AtLeast(rule, "usernames", "user", S)
        \/ /\ rule = "web_scanning" /\ \A e \in S : IsWeb(e)
           /\ AtLeast(rule, "paths", "path", S)
        \/ /\ rule = "path_traversal_sequence" /\ \A e \in S : "traversal" \in e.shows
           /\ Many(rule, "events", S)
        \/ rule = "rapid_port_sequence" /\ AtLeast(rule, "ports", "port", S)
        \/ /\ rule = "recon_burst" /\ Many(rule, "events", S)
           /\ \/ AtLeast(rule, "services", "service", S)
              \/ AtLeast(rule, "ports", "port", S)
  \/ /\ rule = "credential_reuse"
     /\ event.kind = "credential" /\ event.source # None /\ event.secret # None
     /\ \A e \in S : e.secret = event.secret
     /\ Within(rule, S) /\ Many(rule, "events", S) /\ AtLeast(rule, "sources", "source", S)

(* The events that are not later than the event, neither in time nor in the log. *)
UpTo(event) ==
  {e \in Stored : /\ e.ts <= event.ts
                  /\ \E i \in DOMAIN log : log[i] = event /\ \E j \in 1..i : log[j] = e}

(* The context's limits do not cut S off. *)
InReach(rule, S, event) ==
  LET Near(field) == {e \in Stored : /\ e[field] = event[field] /\ e.ts <= event.ts
                                     /\ \E f \in S : f.ts <= e.ts}
  IN IF rule = "credential_reuse" THEN Cardinality(Near("secret")) <= CredentialLimit
     ELSE Cardinality(Near("source")) <= SourceLimit

Finished == {e \in Stored \ cut : \A t \in Threads : req[t] = Idle \/ req[t].event # e}

Overlooked(event, rule) == \A h \in handled : h.event # event \/ h.rule # rule

(* No burst is missed: whatever order events arrive in, when the event that   *)
(* completes a burst is the latest of it and its request came to its end, the *)
(* rule's finding was handled; bursts the context's limits cut are excepted.  *)
FoundBursts ==
  \A event \in Finished, rule \in Enabled :
    Overlooked(event, rule) =>
      \A S \in SUBSET UpTo(event) :
        event \in S /\ Burst(rule, S, event) => ~InReach(rule, S, event)

(* The references of a finding leave no event out that its window could hold. *)
AllReferred(rule, event) ==
  \/ rule \in SingleRules
  \/ Cardinality({e \in Stored : /\ SameSource(rule, e, event)
                                 /\ e.ts <= event.ts /\ event.ts - e.ts <= Window[rule]})
       <= EvidenceLimit

(* No alert without a burst: among the events an alert refers to there is,    *)
(* for every occurrence it counts, a burst that ends with the occurrence.     *)
BackedAlerts ==
  \A h \in handled :
    h.alert # 0 /\ AllReferred(h.rule, h.event) =>
      \E S \in SUBSET {e \in Stored : /\ e.id \in alerts[h.alert].evidence
                                      /\ e.ts <= h.event.ts} :
        h.event \in S /\ Burst(h.rule, S, h.event)

(* A burst comes to a finding and a finding to a burst (detection.py).         *)
BurstsAreAlerts == FoundBursts /\ BackedAlerts

(* An alert counts each finding of its own rule, source and session that was  *)
(* recorded, and nothing else, however requests and operators cross.          *)
CountsAddUp ==
  \A a \in DOMAIN alerts :
    LET counted == {h \in handled : h.alert = a}
    IN /\ alerts[a].count = Cardinality(counted)
       /\ \A h \in counted : alerts[a].key = <<h.rule, h.event.source, h.event.session>>

(* One open alert per rule, source and session, unless two requests looked it *)
(* up before either wrote, or an operator reopened one.                       *)
OneOpenAlert ==
  \A a, b \in DOMAIN alerts :
    (/\ a # b /\ alerts[a].key = alerts[b].key
     /\ alerts[a].status # "closed" /\ alerts[b].status # "closed")
    => alerts[a].key \in forked

(* In force according to the first n rows of the audit trail. *)
InForce(s, n) ==
  /\ \E i \in 1..n : trail[i] = Told("created", s)
  /\ \A i \in 1..n : trail[i] # Told("deleted", s)

(* The audit trail alone explains which findings were withheld: exactly those *)
(* that a suppression created, not deleted and not expired then applied to.   *)
WithheldAsTold ==
  \A h \in handled :
    h.alert = 0 <=> \E i \in 1..h.told :
                      /\ InForce(trail[i].supp, h.told)
                      /\ trail[i].supp.rule = h.rule
                      /\ trail[i].supp.source \in {None, h.event.source}
                      /\ h.at < trail[i].supp.expires

=============================================================================
