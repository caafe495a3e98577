--------------------------- MODULE SequenceLedger ---------------------------
(***************************************************************************)
(* The delivery-sequence tables of one sensor (sensor_sequence.py): pure   *)
(* operators on a table  tbl  that maps each known stream to its row, the  *)
(* rows of sensor_sequence_ranges folded into it as  row.ranges.           *)
(***************************************************************************)
EXTENDS Integers, FiniteSets

CONSTANTS
  MaxStreams,   \* MAX_STREAMS_PER_SENSOR
  MaxRanges,    \* MAX_RANGES_PER_STREAM
  MaxGaps       \* MAX_REPORTED_GAPS

ASSUME LedgerLimits ==
  /\ MaxStreams \in Nat \ {0}
  /\ MaxRanges \in Nat \ {0}
  /\ MaxGaps \in Nat \ {0}

SequenceRange == [lo : Nat, hi : Nat]

Larger(a, b) == IF a > b THEN a ELSE b

(* Variants with a suffix hold a plausible defect each; no definition uses them. *)
NewStream_Bug(now) ==
  [last |-> now, received |-> 0, duplicates |-> 0, maxReceived |-> -1,
   maxReported |-> -1, truncated |-> FALSE, ranges |-> {}]

(* A row as _ensure_stream inserts it; first_seen_at is display data only. *)
NewStream(now) ==
  [last |-> now, received |-> 0, duplicates |-> 0, maxReceived |-> 0,
   maxReported |-> 0, truncated |-> FALSE, ranges |-> {}]

(* ORDER BY last_seen_at DESC, stream_id DESC: a comes before b. *)
Newer(tbl, a, b) ==
  \/ tbl[a].last > tbl[b].last
  \/ tbl[a].last = tbl[b].last /\ a > b

EnsureStream_Bug(tbl, s, now) ==   \* no eviction
  [x \in DOMAIN tbl \cup {s} |->
     IF x # s THEN tbl[x]
     ELSE IF s \in DOMAIN tbl THEN [tbl[s] EXCEPT !.last = now]
     ELSE NewStream(now)]

(***************************************************************************)
(* Upsert the row (its last_seen_at is overwritten, not maximised), then   *)
(* keep the MaxStreams newest rows; the row just written may be evicted.   *)
(***************************************************************************)
EnsureStream(tbl, s, now) ==
  LET upserted == [x \in DOMAIN tbl \cup {s} |->
                     IF x # s THEN tbl[x]
                     ELSE IF s \in DOMAIN tbl THEN [tbl[s] EXCEPT !.last = now]
                     ELSE NewStream(now)]
      kept == {x \in DOMAIN upserted :
                 Cardinality({y \in DOMAIN upserted : Newer(upserted, y, x)})
                   < MaxStreams}
  IN [x \in kept |-> upserted[x]]

Covers(ranges, n) == \E r \in ranges : r.lo <= n /\ n <= r.hi

(* The ranges that end just before n, and those that start just after it. *)
LeftOf(ranges, n)  == {r \in ranges : r.hi = n - 1}
RightOf(ranges, n) == {r \in ranges : r.lo = n + 1}

Isolated(ranges, n) == LeftOf(ranges, n) = {} /\ RightOf(ranges, n) = {}

LowEnd(ranges, n) ==
  IF LeftOf(ranges, n) = {} THEN n
  ELSE (CHOOSE r \in LeftOf(ranges, n) : TRUE).lo

HighEnd(ranges, n) ==
  IF RightOf(ranges, n) = {} THEN n
  ELSE (CHOOSE r \in RightOf(ranges, n) : TRUE).hi

AddToRanges_KeepRight(ranges, n) ==   \* the right range is not deleted
  (ranges \ LeftOf(ranges, n))
    \cup {[lo |-> LowEnd(ranges, n), hi |-> HighEnd(ranges, n)]}

(* The four cases of the left/right merge: join, extend, extend, insert. *)
AddToRanges(ranges, n) ==
  (ranges \ (LeftOf(ranges, n) \cup RightOf(ranges, n)))
    \cup {[lo |-> LowEnd(ranges, n), hi |-> HighEnd(ranges, n)]}

(* No room for one more isolated number. *)
DetailFull(ranges, n) ==
  Isolated(ranges, n) /\ Cardinality(ranges) >= MaxRanges

CountEvent_LastIsMax(row, n) ==   \* the last number, not the greatest
  IF Covers(row.ranges, n)
  THEN [row EXCEPT !.duplicates = @ + 1]
  ELSE [row EXCEPT !.received = @ + 1, !.maxReceived = n,
                   !.ranges = AddToRanges(@, n)]

(* The row after one event number, once its stream row exists. *)
CountEvent(row, n) ==
  IF Covers(row.ranges, n)
  THEN [row EXCEPT !.duplicates = @ + 1]
  ELSE [row EXCEPT
          !.received    = @ + 1,
          !.maxReceived = Larger(@, n),
          !.truncated   = @ \/ DetailFull(row.ranges, n),
          !.ranges      = IF DetailFull(@, n) THEN @ ELSE AddToRanges(@, n)]

(***************************************************************************)
(* record_event_sequence inserts a range row for a stream row that its own *)
(* _ensure_stream evicted: the foreign key refuses it and the caller's     *)
(* transaction fails.                                                      *)
(***************************************************************************)
SequenceRefused(tbl, s, now) == s \notin DOMAIN EnsureStream(tbl, s, now)

RecordEventSequence(tbl, s, n, now) ==
  [EnsureStream(tbl, s, now) EXCEPT ![s] = CountEvent(@, n)]

(* An UPDATE of the row, which touches nothing when the row was evicted. *)
RecordHeartbeatSequence(tbl, s, high, now) ==
  LET ensured == EnsureStream(tbl, s, now)
  IN IF s \in DOMAIN ensured
     THEN [ensured EXCEPT ![s].maxReported = Larger(@, high)]
     ELSE ensured

-----------------------------------------------------------------------------
(* What the operations view reports of a stream. *)

Highest(row) == Larger(row.maxReceived, row.maxReported)

Missing(row) == Larger(0, Highest(row) - row.received)

(* The number the scan of _gaps expects when it reaches the ranges from x on. *)
Expected(ranges, x) ==
  LET before == {r.hi + 1 : r \in {q \in ranges : q.lo < x}} \cup {1}
  IN CHOOSE e \in before : \A d \in before : d <= e

(* The holes before each range, and the one after the last up to the top. *)
AllGaps(row) ==
  LET starts == {r.lo : r \in row.ranges}
      beyond == Expected(row.ranges, Highest(row) + 1)
  IN {[lo |-> Expected(row.ranges, x), hi |-> x - 1] :
        x \in {y \in starts : y > Expected(row.ranges, y)}}
     \cup (IF beyond <= Highest(row) THEN {[lo |-> beyond, hi |-> Highest(row)]}
           ELSE {})

(* _gaps: the MaxGaps lowest of them. *)
Gaps(row) ==
  {g \in AllGaps(row) : Cardinality({h \in AllGaps(row) : h.lo < g.lo}) < MaxGaps}

-----------------------------------------------------------------------------
(* The numbers a set of ranges stands for. *)
Members(ranges) == UNION {r.lo..r.hi : r \in ranges}

(* Ranges are non-empty, start at 1 or later, and no two touch or overlap. *)
Compact(ranges) ==
  /\ \A r \in ranges : 1 <= r.lo /\ r.lo <= r.hi
  /\ \A r, q \in ranges : r # q => r.hi + 1 < q.lo \/ q.hi + 1 < r.lo

Row == [last : Nat, received : Nat, duplicates : Nat, maxReceived : Nat,
        maxReported : Nat, truncated : BOOLEAN, ranges : SUBSET SequenceRange]
=============================================================================
