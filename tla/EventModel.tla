----------------------------- MODULE EventModel -----------------------------
(***************************************************************************)
(* Normalisation of what a sensor sent (model.py): values are cut to       *)
(* limits, and every cut is recorded so that the event says whether it is  *)
(* complete.  A value is a tree of texts, numbers, lists and objects.      *)
(***************************************************************************)
EXTENDS Integers, Sequences, FiniteSets

CONSTANTS MaxString, MaxItems, MaxDepth, MaxArtifacts

ASSUME LimitsAssumption == {MaxString, MaxItems, MaxDepth, MaxArtifacts} \subseteq Nat

(* A tree maps the path of each of its nodes to the node.  A path is the     *)
(* places that lead from the whole value, at <<>>, to a member of a member,  *)
(* each counted from 1; a text counts by its length, a number by whether it  *)
(* is finite, a member of an object by whether its key is safe.              *)
Nodes ==
  [kind : {"text", "number", "list", "object"}, length : Nat, finite : BOOLEAN, safe : BOOLEAN]

Above(p, k) == SubSeq(p, 1, k)

IsTree(t) ==
  /\ t \in [DOMAIN t -> Nodes]
  /\ \A p \in DOMAIN t : p \in Seq(Nat) /\ \A k \in 0..Len(p) : Above(p, k) \in DOMAIN t

Smaller(a, b) == IF a < b THEN a ELSE b
FirstItems(p, k) == p[k] <= MaxItems
IsSafe(t, p) == t[p].safe

(* The nodes _bounded gets to: on the way there no place is past the limit,  *)
(* and no key is dropped.                                                    *)
Reached(t, p) == \A k \in 1..Len(p) : FirstItems(p, k) /\ IsSafe(t, Above(p, k))
Visited(t) == {p \in DOMAIN t : Reached(t, p)}

(* What is held by the lists and objects it gets to.                         *)
Members(t) == {p \in DOMAIN t : Len(p) > 0 /\ Reached(t, Above(p, Len(p) - 1))}

(* Variants with a suffix hold a plausible defect each; no definition uses them. *)
CutItems_Silent(t) == {}    \* a collection is cut without a record

CutItems(t) ==
  IF \E p \in Members(t) : ~FirstItems(p, Len(p)) THEN {"truncated_collections"} ELSE {}

DroppedKeys(t) ==
  IF \E p \in Members(t) : FirstItems(p, Len(p)) /\ ~IsSafe(t, p) THEN {"dropped_keys"} ELSE {}

CutText(node) == node.kind = "text" /\ node.length > MaxString

CutTexts(t) == IF \E p \in Visited(t) : CutText(t[p]) THEN {"truncated_strings"} ELSE {}

(* _bounded: what it keeps, which kinds of loss it records, and when it      *)
(* refuses the event: too deep, or a number that is not finite.              *)
Bounded(t) == [p \in Visited(t) |-> IF CutText(t[p]) THEN [t[p] EXCEPT !.length = MaxString] ELSE t[p]]
Lost(t) == CutItems(t) \cup DroppedKeys(t) \cup CutTexts(t)
Refused(t) ==
  \E p \in Visited(t) : Len(p) > MaxDepth \/ (t[p].kind = "number" /\ ~t[p].finite)

(* _sensor_credential_truncation: a notice counts if it fits what arrived.   *)
Noticed(secret, notice) ==
  notice.given /\ notice.original >= secret /\ notice.captured = secret

(* _redact_credentials: length, fingerprint and completeness are taken of    *)
(* the secret as it arrived, before the limits apply and it is hidden.       *)
Redacted(secret, notice) ==
  [length |-> secret, complete |-> ~Noticed(secret, notice),
   original |-> IF Noticed(secret, notice) THEN notice.original ELSE secret]

(* derive_observed_artifacts: what command and payload spell out, each once,  *)
(* joins what the sensor listed; the limit is looked at after one was added. *)
Novel(own, found) == SelectSeq(found, LAMBDA a : \A i \in DOMAIN own : own[i] # a)

WithArtifacts(own, found) ==
  LET room == IF Len(own) < MaxArtifacts THEN MaxArtifacts - Len(own) ELSE 1
  IN own \o SubSeq(Novel(own, found), 1, Smaller(Len(Novel(own, found)), room))

(* normalize_event: the four parts are bounded, then the event is accepted   *)
(* with a summary of what was lost.                                          *)
Normalized(payload) ==
  LET parts == payload.parts
  IN [accepted |-> payload.valid /\ \A p \in DOMAIN parts : ~Refused(parts[p]),
      parts |-> [p \in DOMAIN parts |-> Bounded(parts[p])],
      credential |-> Redacted(payload.secret, payload.notice),
      lossy |-> \E p \in DOMAIN parts : Lost(parts[p]) # {}]
=============================================================================
