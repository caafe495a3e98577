-------------------------- MODULE DeliveryAccount ---------------------------
(***************************************************************************)
(* What the sequence accounting promises (OPERATIONS.md, telemetry gaps):  *)
(* for each stream it holds, the set of distinct numbers received, the     *)
(* highest one reported by an event or a heartbeat, and the count of       *)
(* duplicates, independent of the order in which requests arrive.  Storage *)
(* is bounded: a stream is forgotten only to make room for another, and a  *)
(* number is counted without being kept only when it would open one more   *)
(* run of numbers than the table may hold.                                 *)
(***************************************************************************)
EXTENDS Naturals, FiniteSets

CONSTANTS
  Streams,
  Numbers,      \* sequence numbers, 0 for a heartbeat that reports none
  MaxStreams,   \* streams held at a time
  MaxRanges     \* runs of consecutive numbers held for a stream

VARIABLE account   \* the streams held, each with what is known of it

Empty == [got |-> {}, received |-> 0, high |-> 0, duplicates |-> 0]

Init == account = [s \in {} |-> Empty]

Known(s) == IF s \in DOMAIN account THEN account[s] ELSE Empty

(* The streams that stay once s is written: all, or as many as there is room for. *)
Keeps(kept, s) ==
  LET held == DOMAIN account \cup {s}
  IN /\ kept \subseteq held
     /\ \/ kept = held /\ Cardinality(held) <= MaxStreams
        \/ Cardinality(kept) = MaxStreams /\ Cardinality(held) > MaxStreams

Becomes(kept, s, row) ==
  account' = [x \in kept |-> IF x = s THEN row ELSE account[x]]

Highest(s, n) == IF n > Known(s).high THEN n ELSE Known(s).high

Counted(s, n, got) ==
  [got |-> got, received |-> Known(s).received + 1, high |-> Highest(s, n),
   duplicates |-> Known(s).duplicates]

(* Kept numbers fill the runs a stream may have, and n belongs to none of them. *)
Runs(got) == Cardinality({n \in got : n - 1 \notin got})
Untracked(s, n) ==
  Runs(Known(s).got) >= MaxRanges /\ {n - 1, n + 1} \cap Known(s).got = {}

Deliver(s, n, kept) ==
  /\ s \in kept /\ n \notin Known(s).got /\ ~Untracked(s, n)
  /\ Becomes(kept, s, Counted(s, n, Known(s).got \cup {n}))

CountOnly(s, n, kept) ==
  /\ s \in kept /\ n \notin Known(s).got /\ Untracked(s, n)
  /\ Becomes(kept, s, Counted(s, n, Known(s).got))

Duplicate(s, n, kept) ==
  /\ s \in kept /\ n \in Known(s).got
  /\ Becomes(kept, s, [Known(s) EXCEPT !.duplicates = @ + 1])

Report(s, n, kept) == Becomes(kept, s, [Known(s) EXCEPT !.high = Highest(s, n)])

Next ==
  \E s \in Streams, n \in Numbers : \E kept \in SUBSET (DOMAIN account \cup {s}) :
    /\ Keeps(kept, s)
    /\ \/ Deliver(s, n, kept) \/ CountOnly(s, n, kept)
       \/ Duplicate(s, n, kept) \/ Report(s, n, kept)

Spec == Init /\ [][Next]_account
=============================================================================
