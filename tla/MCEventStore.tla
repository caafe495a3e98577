---------------------------- MODULE MCEventStore ----------------------------
(***************************************************************************)
(* Small instances of EventStore: worker processes, their threads and the  *)
(* events that sensors offer.                                              *)
(***************************************************************************)
EXTENDS EventStore, TLC

CONSTANTS t1, t2, t3, p1, p2

OneProcess == [t \in Threads |-> p1]
TwoProcesses == [t \in Threads |-> IF t = t2 THEN p2 ELSE p1]

Plain(id, ts) ==
  [id |-> id, ts |-> ts, ident |-> 1, token |-> NoToken, stream |-> 1, number |-> 0]

(* Two identities, a pause, an explicit session whose events come out of
   order, and numbered events of two streams, one number used twice. *)
SixEvents ==
  {[Plain(1, 1) EXCEPT !.number = 1], [Plain(2, 3) EXCEPT !.number = 2],
   [Plain(3, 2) EXCEPT !.number = 1, !.stream = 2],
   [Plain(4, 1) EXCEPT !.ident = 2, !.number = 1],
   [Plain(5, 2) EXCEPT !.token = 7], [Plain(6, 1) EXCEPT !.token = 7]}

(* Threads of one process are alike. *)
Symmetric == Permutations({t1, t3})

(* Four events that a late arrival or a long pause keeps apart. *)
Scattered == {Plain(1, 1), Plain(2, 2), Plain(3, 4), Plain(4, 1)}

-----------------------------------------------------------------------------
(***************************************************************************)
(* One run explores four scenarios: their product is out of reach.  The    *)
(* cfg names Scenarios as CONSTRAINT: a behaviour is followed as long as   *)
(* it fits one of them.                                                    *)
(***************************************************************************)
Arrivals == {<<log[i].id, log[i].received>> : i \in 1..Len(log)}
              \cup {<<req[t].event.id, req[t].at>> : t \in {u \in Threads : req[u].pc # "idle"}}
Seen == {a[1] : a \in Arrivals}

(* Only these are offered, one after the other; they may be committed in any
   order. *)
CarriesInOrder(ids) ==
  /\ Seen \subseteq ids /\ \A i \in Seen : \A j \in ids : j < i => j \in Seen
  /\ \A a, b \in Arrivals : a[1] < b[1] => a[2] < b[2]

(* Who is left out has started and stays idle. *)
OneWorker == upkeep[p2].step = "none" /\ req[t2].pc = "idle" /\ since[p2] = 0
OneThread == \E t \in {t1, t3} : req[t].pc = "idle"

(* One thread did everything, as far as the store can tell. *)
Alone == OneWorker /\ OneThread /\ missed = 0 /\ CommittedAsStamped

(* Two workers ingest and maintain the shared tables; one may restart, or one
   maintenance run may raise. *)
TwoWorkers ==
  /\ CarriesInOrder({1, 3, 5}) /\ OneThread
  /\ edits = 0 /\ runs = 0 /\ clock <= 3 /\ restarts + faults <= 1 /\ rejected = {}

(* Two threads of one worker share its counter while four events are stored;
   one maintenance run may raise. *)
SharedCounter ==
  /\ CarriesInOrder({1, 3, 4, 5}) /\ OneWorker
  /\ edits = 0 /\ runs = 0 /\ restarts = 0 /\ clock = Cardinality(Seen) /\ rejected = {}

(* One worker prunes while rows change out of band and the verifier runs. *)
Tampering ==
  /\ CarriesInOrder({1, 2, 3}) /\ Alone
  /\ restarts = 0 /\ faults = 0 /\ rejected = {}

(* One worker serves temporal, explicit and numbered events in any order. *)
SessionOrders ==
  /\ Alone
  /\ edits = 0 /\ runs = 0 /\ restarts = 0 /\ faults = 0

Scenarios == TwoWorkers \/ SharedCounter \/ Tampering \/ SessionOrders
=============================================================================
