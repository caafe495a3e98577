---------------------------- MODULE SequenceProofs ----------------------------
(***************************************************************************)
(* Proofs about SensorSequence, for any number of streams, events and      *)
(* requests, and any limits.                                               *)
(***************************************************************************)
EXTENDS SensorSequence, FiniteSetTheorems, WellFoundedInduction, TLAPS

-----------------------------------------------------------------------------
(* Ranges.                                                                   *)

(* A set of ranges as the table holds it. *)
Tidy(ranges) ==
  /\ ranges \in SUBSET SequenceRange
  /\ IsFiniteSet(ranges)
  /\ Compact(ranges)

LEMMA LimitsAreNumbers ==
  /\ MaxStreams \in Nat /\ MaxStreams >= 1
  /\ MaxRanges \in Nat /\ MaxRanges >= 1
  /\ MaxGaps \in Nat /\ MaxGaps >= 1
  /\ MaxStream \in Nat /\ MaxSent \in Nat
BY LedgerLimits, SequenceBounds

LEMMA MembersAre ==
  ASSUME NEW ranges \in SUBSET SequenceRange, NEW x
  PROVE  x \in Members(ranges) <=> \E r \in ranges : x \in Nat /\ r.lo <= x /\ x <= r.hi
<1>1. \A r \in ranges : r.lo \in Nat /\ r.hi \in Nat
  BY DEF SequenceRange
<1>2. \A r \in ranges : x \in r.lo..r.hi <=> x \in Nat /\ r.lo <= x /\ x <= r.hi
  BY <1>1
<1> QED
  BY <1>2 DEF Members

(* The end a new number is joined to, on its left: its own, or the start of  *)
(* the one range that ends just before it.                                   *)
LEMMA LowEndIs ==
  ASSUME NEW ranges, Tidy(ranges), NEW n \in Nat, n >= 1
  PROVE  \/ LeftOf(ranges, n) = {} /\ LowEnd(ranges, n) = n
         \/ \E l \in ranges : /\ LeftOf(ranges, n) = {l} /\ l.hi = n - 1
                              /\ LowEnd(ranges, n) = l.lo
<1>1. CASE LeftOf(ranges, n) = {}
  BY <1>1 DEF LowEnd
<1>2. CASE LeftOf(ranges, n) # {}
  <2>1. PICK l \in ranges : l.hi = n - 1
    BY <1>2 DEF LeftOf
  <2>2. \A r \in ranges : r.lo \in Nat /\ r.hi \in Nat
    BY DEF Tidy, SequenceRange
  <2>3. \A r \in ranges : r.hi = n - 1 => r = l
    BY <2>1, <2>2 DEF Tidy, Compact
  <2>4. LeftOf(ranges, n) = {l}
    BY <2>1, <2>3 DEF LeftOf
  <2>5. (CHOOSE r \in LeftOf(ranges, n) : TRUE) = l
    BY <2>4
  <2> QED
    BY <2>1, <2>4, <2>5 DEF LowEnd
<1> QED
  BY <1>1, <1>2

(* And on its right. *)
LEMMA HighEndIs ==
  ASSUME NEW ranges, Tidy(ranges), NEW n \in Nat, n >= 1
  PROVE  \/ RightOf(ranges, n) = {} /\ HighEnd(ranges, n) = n
         \/ \E h \in ranges : /\ RightOf(ranges, n) = {h} /\ h.lo = n + 1
                              /\ HighEnd(ranges, n) = h.hi
<1>1. CASE RightOf(ranges, n) = {}
  BY <1>1 DEF HighEnd
<1>2. CASE RightOf(ranges, n) # {}
  <2>1. PICK h \in ranges : h.lo = n + 1
    BY <1>2 DEF RightOf
  <2>2. \A r \in ranges : r.lo \in Nat /\ r.hi \in Nat
    BY DEF Tidy, SequenceRange
  <2>3. \A r \in ranges : r.lo = n + 1 => r = h
    BY <2>1, <2>2 DEF Tidy, Compact
  <2>4. RightOf(ranges, n) = {h}
    BY <2>1, <2>3 DEF RightOf
  <2>5. (CHOOSE r \in RightOf(ranges, n) : TRUE) = h
    BY <2>4
  <2> QED
    BY <2>1, <2>4, <2>5 DEF HighEnd
<1> QED
  BY <1>1, <1>2

(* One more number: the ranges stay disjoint and apart, stand for it as well *)
(* and for nothing else, and only an isolated number needs a range more.     *)
LEMMA AddToRangesKeeps ==
  ASSUME NEW ranges, Tidy(ranges), NEW n \in Nat, n >= 1, ~Covers(ranges, n)
  PROVE  /\ Tidy(AddToRanges(ranges, n))
         /\ Members(AddToRanges(ranges, n)) = Members(ranges) \cup {n}
         /\ Cardinality(AddToRanges(ranges, n)) <= Cardinality(ranges) + 1
         /\ ~Isolated(ranges, n) => Cardinality(AddToRanges(ranges, n)) <= Cardinality(ranges)
<1> DEFINE L == LeftOf(ranges, n)
           R == RightOf(ranges, n)
           lo == LowEnd(ranges, n)
           hi == HighEnd(ranges, n)
           new == [lo |-> lo, hi |-> hi]
           added == AddToRanges(ranges, n)
<1>1. \A r \in ranges : r.lo \in Nat /\ r.hi \in Nat /\ 1 <= r.lo /\ r.lo <= r.hi
  BY DEF Tidy, SequenceRange, Compact
<1>2. \A r \in ranges : r.hi < n \/ n < r.lo
  BY <1>1 DEF Covers
<1>3. \/ L = {} /\ lo = n
      \/ \E l \in ranges : L = {l} /\ l.hi = n - 1 /\ lo = l.lo
  BY LowEndIs
<1>4. \/ R = {} /\ hi = n
      \/ \E h \in ranges : R = {h} /\ h.lo = n + 1 /\ hi = h.hi
  BY HighEndIs
<1>5. lo \in Nat /\ hi \in Nat /\ 1 <= lo /\ lo <= n /\ n <= hi
  BY <1>1, <1>3, <1>4
<1>6. added = (ranges \ (L \cup R)) \cup {new}
  BY DEF AddToRanges
<1>7. new \in SequenceRange /\ new.lo = lo /\ new.hi = hi
  BY <1>5 DEF SequenceRange
<1>8. \A r \in ranges \ (L \cup R) : r.hi + 1 < lo \/ hi + 1 < r.lo
  <2> SUFFICES ASSUME NEW r \in ranges \ (L \cup R)
               PROVE  r.hi + 1 < lo \/ hi + 1 < r.lo
    OBVIOUS
  <2>1. r.hi + 1 < n \/ n + 1 < r.lo
    BY <1>1, <1>2 DEF LeftOf, RightOf
  <2>2. \A l \in ranges : L = {l} => r.hi + 1 < l.lo \/ l.hi + 1 < r.lo
    BY DEF Tidy, Compact
  <2>3. \A h \in ranges : R = {h} => r.hi + 1 < h.lo \/ h.hi + 1 < r.lo
    BY DEF Tidy, Compact
  <2> QED
    BY <1>1, <1>3, <1>4, <2>1, <2>2, <2>3
<1> HIDE DEF L, R, lo, hi, new, added
<1>9. Tidy(added)
  <2>1. added \in SUBSET SequenceRange
    BY <1>6, <1>7 DEF Tidy
  <2>2. IsFiniteSet(ranges \ (L \cup R))
    BY FS_Subset DEF Tidy
  <2>3. IsFiniteSet(added)
    BY <1>6, <2>2, FS_AddElement
  <2>4. \A r \in added : 1 <= r.lo /\ r.lo <= r.hi
    BY <1>1, <1>5, <1>6, <1>7
  <2>5. \A r, q \in added : r # q => r.hi + 1 < q.lo \/ q.hi + 1 < r.lo
    BY <1>6, <1>7, <1>8 DEF Tidy, Compact
  <2> QED
    BY <2>1, <2>3, <2>4, <2>5 DEF Tidy, Compact
<1>10. Members(added) = Members(ranges) \cup {n}
  <2>1. \A x : x \in Members(added) <=> \E r \in added : x \in Nat /\ r.lo <= x /\ x <= r.hi
    BY <1>9, MembersAre DEF Tidy
  <2>2. \A x : x \in Members(ranges) <=> \E r \in ranges : x \in Nat /\ r.lo <= x /\ x <= r.hi
    BY MembersAre DEF Tidy
  <2>3. ASSUME NEW x \in Members(added) PROVE x \in Members(ranges) \cup {n}
    <3>1. PICK r \in added : x \in Nat /\ r.lo <= x /\ x <= r.hi
      BY <2>1
    <3>2. CASE r \in ranges
      BY <2>2, <3>1, <3>2
    <3>3. CASE r = new
      <4>1. x \in Nat /\ lo <= x /\ x <= hi
        BY <1>7, <3>1, <3>3
      <4>2. CASE x < n
        <5>1. PICK l \in ranges : l.hi = n - 1 /\ lo = l.lo
          BY <1>3, <4>1, <4>2
        <5>2. l.lo <= x /\ x <= l.hi
          BY <4>1, <4>2, <5>1
        <5> QED
          BY <2>2, <4>1, <5>2
      <4>3. CASE n < x
        <5>1. PICK h \in ranges : h.lo = n + 1 /\ hi = h.hi
          BY <1>4, <4>1, <4>3
        <5>2. h.lo <= x /\ x <= h.hi
          BY <4>1, <4>3, <5>1
        <5> QED
          BY <2>2, <4>1, <5>2
      <4> QED
        BY <4>1, <4>2, <4>3
    <3> QED
      BY <1>6, <3>1, <3>2, <3>3
  <2>4. ASSUME NEW x \in Members(ranges) \cup {n} PROVE x \in Members(added)
    <3>1. CASE x = n
      BY <1>5, <1>6, <1>7, <2>1, <3>1
    <3>2. CASE x \in Members(ranges)
      <4>1. PICK r \in ranges : x \in Nat /\ r.lo <= x /\ x <= r.hi
        BY <2>2, <3>2
      <4>2. CASE r \notin L \cup R
        BY <1>6, <2>1, <4>1, <4>2
      <4>3. CASE r \in L
        <5>1. r.hi = n - 1 /\ lo = r.lo
          BY <1>3, <4>3
        <5>2. lo <= x /\ x <= hi
          BY <1>1, <1>5, <4>1, <5>1
        <5> QED
          BY <1>6, <1>7, <2>1, <4>1, <5>2
      <4>4. CASE r \in R
        <5>1. r.lo = n + 1 /\ hi = r.hi
          BY <1>4, <4>4
        <5>2. lo <= x /\ x <= hi
          BY <1>1, <1>5, <4>1, <5>1
        <5> QED
          BY <1>6, <1>7, <2>1, <4>1, <5>2
      <4> QED
        BY <4>2, <4>3, <4>4
    <3> QED
      BY <3>1, <3>2
  <2> QED
    BY <2>3, <2>4
<1>11. Cardinality(ranges) \in Nat /\ IsFiniteSet(ranges)
  BY FS_CardinalityType DEF Tidy
<1>12. Cardinality(added) <= Cardinality(ranges) + 1
  <2>1. /\ IsFiniteSet(ranges \cup {new})
        /\ \/ Cardinality(ranges \cup {new}) = Cardinality(ranges)
           \/ Cardinality(ranges \cup {new}) = Cardinality(ranges) + 1
    BY <1>11, FS_AddElement
  <2>2. added \subseteq ranges \cup {new}
    BY <1>6
  <2>3. Cardinality(added) <= Cardinality(ranges \cup {new}) /\ IsFiniteSet(added)
    BY <2>1, <2>2, FS_Subset
  <2>4. Cardinality(added) \in Nat
    BY <2>3, FS_CardinalityType
  <2> QED
    BY <1>11, <2>1, <2>3, <2>4
<1>13. ASSUME ~Isolated(ranges, n) PROVE Cardinality(added) <= Cardinality(ranges)
  <2>1. PICK l \in ranges : l \in L \cup R
    BY <1>13 DEF Isolated, L, R, LeftOf, RightOf
  <2>2. /\ IsFiniteSet(ranges \ {l})
        /\ Cardinality(ranges \ {l}) = Cardinality(ranges) - 1
    BY <1>11, FS_RemoveElement
  <2>3. /\ IsFiniteSet((ranges \ {l}) \cup {new})
        /\ \/ Cardinality((ranges \ {l}) \cup {new}) = Cardinality(ranges \ {l})
           \/ Cardinality((ranges \ {l}) \cup {new}) = Cardinality(ranges \ {l}) + 1
    BY <2>2, FS_AddElement
  <2>4. added \subseteq (ranges \ {l}) \cup {new}
    BY <1>6, <2>1
  <2>5. Cardinality(added) <= Cardinality((ranges \ {l}) \cup {new}) /\ IsFiniteSet(added)
    BY <2>3, <2>4, FS_Subset
  <2>6. Cardinality(added) \in Nat
    BY <2>5, FS_CardinalityType
  <2> QED
    BY <1>11, <2>2, <2>3, <2>5, <2>6
<1> QED
  BY <1>9, <1>10, <1>12, <1>13 DEF added
-----------------------------------------------------------------------------
(* Rows.                                                                     *)

(* A row tells of the numbers  got  whose events were stored.  While the     *)
(* stream was never evicted (whole) it counts all of them; while its detail  *)
(* is not truncated either, it knows them exactly.                           *)
RowTold(row, got, whole) ==
  /\ row \in Row
  /\ Tidy(row.ranges)
  /\ Cardinality(row.ranges) <= MaxRanges
  /\ Members(row.ranges) \subseteq got
  /\ Members(row.ranges) \subseteq 1..row.maxReceived
  /\ whole => /\ got \subseteq 1..row.maxReceived
              /\ Cardinality(got) <= row.received
  /\ whole /\ ~row.truncated => /\ Members(row.ranges) = got
                                /\ Cardinality(got) = row.received

LEMMA CoversIsMember ==
  ASSUME NEW ranges \in SUBSET SequenceRange, NEW n \in Nat
  PROVE  Covers(ranges, n) <=> n \in Members(ranges)
BY MembersAre DEF Covers

LEMMA CountEventTells ==
  ASSUME NEW row, NEW got, NEW whole \in BOOLEAN, IsFiniteSet(got),
         RowTold(row, got, whole), NEW n \in Nat, n >= 1
  PROVE  RowTold(CountEvent(row, n), got \cup {n}, whole)
<1> DEFINE new == CountEvent(row, n)
<1>1. /\ row \in Row /\ Tidy(row.ranges) /\ row.ranges \in SUBSET SequenceRange
      /\ row.received \in Nat /\ row.maxReceived \in Nat /\ row.duplicates \in Nat
      /\ row.truncated \in BOOLEAN
  BY DEF RowTold, Row
<1>2. /\ Cardinality(got) \in Nat
      /\ \/ n \in got /\ Cardinality(got \cup {n}) = Cardinality(got)
         \/ n \notin got /\ Cardinality(got \cup {n}) = Cardinality(got) + 1
  BY FS_CardinalityType, FS_AddElement
<1>3. /\ Cardinality(row.ranges) \in Nat /\ MaxRanges \in Nat
      /\ Cardinality(row.ranges) <= MaxRanges
  BY <1>1, FS_CardinalityType, LimitsAreNumbers DEF RowTold, Tidy
<1>4. CASE Covers(row.ranges, n)
  <2>1. new = [row EXCEPT !.duplicates = @ + 1]
    BY <1>4 DEF CountEvent
  <2>2. got \cup {n} = got
    BY <1>1, <1>4, CoversIsMember DEF RowTold
  <2>3. /\ new \in Row /\ new.ranges = row.ranges /\ new.maxReceived = row.maxReceived
        /\ new.received = row.received /\ new.truncated = row.truncated
    BY <1>1, <2>1 DEF Row
  <2> QED
    BY <2>2, <2>3 DEF RowTold
<1>5. CASE ~Covers(row.ranges, n)
  <2> DEFINE top == Larger(row.maxReceived, n)
             full == DetailFull(row.ranges, n)
             cut == row.truncated \/ full
             ranges == IF full THEN row.ranges ELSE AddToRanges(row.ranges, n)
  <2>1. new = [row EXCEPT !.received = @ + 1, !.maxReceived = top,
                          !.truncated = cut, !.ranges = ranges]
    BY <1>5 DEF CountEvent
  <2>2. top \in Nat /\ row.maxReceived <= top /\ n <= top
    BY <1>1 DEF Larger
  <2>3. /\ Tidy(AddToRanges(row.ranges, n))
        /\ Members(AddToRanges(row.ranges, n)) = Members(row.ranges) \cup {n}
        /\ Cardinality(AddToRanges(row.ranges, n)) <= Cardinality(row.ranges) + 1
        /\ ~Isolated(row.ranges, n) =>
             Cardinality(AddToRanges(row.ranges, n)) <= Cardinality(row.ranges)
    BY <1>1, <1>5, AddToRangesKeeps
  <2>4. full \in BOOLEAN /\ (~full => ~Isolated(row.ranges, n) \/ Cardinality(row.ranges) < MaxRanges)
    BY <1>3 DEF DetailFull
  <2>5. Tidy(ranges)
    BY <1>1, <2>3
  <2>6. Cardinality(ranges) <= MaxRanges
    <3>1. Cardinality(AddToRanges(row.ranges, n)) \in Nat
      BY <2>3, FS_CardinalityType DEF Tidy
    <3> QED
      BY <1>3, <2>3, <2>4, <3>1
  <2>7. /\ full => Members(ranges) = Members(row.ranges)
        /\ ~full => Members(ranges) = Members(row.ranges) \cup {n}
    BY <2>3
  <2>8. n \notin Members(row.ranges)
    BY <1>1, <1>5, CoversIsMember
  <2>9. cut \in BOOLEAN /\ (~cut => ~row.truncated /\ ~full)
    BY <1>1, <2>4
  <2> HIDE DEF top, full, cut, ranges
  <2>10. /\ new \in Row /\ new.ranges = ranges /\ new.maxReceived = top
        /\ new.received = row.received + 1 /\ new.truncated = cut
    <3>1. ranges \in SUBSET SequenceRange
      BY <2>5 DEF Tidy
    <3>2. row.received + 1 \in Nat
      BY <1>1
    <3>3. new \in Row
      BY <1>1, <2>1, <2>2, <2>9, <3>1, <3>2 DEF Row
    <3>4. /\ new.ranges = ranges /\ new.maxReceived = top
          /\ new.received = row.received + 1
      BY <1>1, <2>1 DEF Row
    <3>5. new.truncated = cut
      BY <1>1, <2>1 DEF Row
    <3> QED
      BY <3>3, <3>4, <3>5
  <2> HIDE DEF new
  <2>11. 1..row.maxReceived \subseteq 1..top /\ n \in 1..top
    BY <1>1, <2>2
  <2>12. /\ Members(ranges) \subseteq got \cup {n}
         /\ Members(ranges) \subseteq 1..top
    BY <2>4, <2>7, <2>11 DEF RowTold
  <2>13. whole => /\ got \cup {n} \subseteq 1..top
                  /\ Cardinality(got \cup {n}) <= row.received + 1
    BY <1>1, <1>2, <2>11 DEF RowTold
  <2>14. whole /\ ~row.truncated /\ ~full =>
           /\ Members(ranges) = got \cup {n}
           /\ Cardinality(got \cup {n}) = row.received + 1
    BY <1>1, <1>2, <2>7, <2>8 DEF RowTold
  <2> QED
    <3>1. new \in Row /\ Tidy(new.ranges) /\ Cardinality(new.ranges) <= MaxRanges
      BY <2>5, <2>6, <2>10
    <3>2. /\ Members(new.ranges) \subseteq got \cup {n}
          /\ Members(new.ranges) \subseteq 1..new.maxReceived
      BY <2>10, <2>12
    <3>3. whole => /\ got \cup {n} \subseteq 1..new.maxReceived
                   /\ Cardinality(got \cup {n}) <= new.received
      BY <2>10, <2>13
    <3>4. whole /\ ~new.truncated => /\ Members(new.ranges) = got \cup {n}
                                    /\ Cardinality(got \cup {n}) = new.received
      BY <2>9, <2>10, <2>14
    <3>5. RowTold(new, got \cup {n}, whole)
      BY <3>1, <3>2, <3>3, <3>4, Zenon DEF RowTold
    <3> QED
      BY <3>5 DEF new
<1> QED
  BY <1>4, <1>5

(* A heartbeat and a new stamp touch nothing the row tells of its events.    *)
LEMMA TouchTells ==
  ASSUME NEW row, NEW got, NEW whole, RowTold(row, got, whole), NEW n \in Nat
  PROVE  /\ RowTold([row EXCEPT !.last = n], got, whole)
         /\ RowTold([row EXCEPT !.maxReported = Larger(@, n)], got, whole)
<1>1. row \in Row /\ Larger(row.maxReported, n) \in Nat
  BY DEF RowTold, Row, Larger
<1> DEFINE a == [row EXCEPT !.last = n]
           b == [row EXCEPT !.maxReported = Larger(@, n)]
<1>2. /\ a \in Row /\ a.ranges = row.ranges /\ a.maxReceived = row.maxReceived
      /\ a.received = row.received /\ a.truncated = row.truncated
  BY <1>1 DEF Row
<1>3. /\ b \in Row /\ b.ranges = row.ranges /\ b.maxReceived = row.maxReceived
      /\ b.received = row.received /\ b.truncated = row.truncated
  BY <1>1 DEF Row
<1> HIDE DEF a, b
<1>4. RowTold(a, got, whole) /\ RowTold(b, got, whole)
  BY <1>2, <1>3 DEF RowTold
<1> QED
  BY <1>4 DEF a, b

LEMMA NewStreamTells ==
  ASSUME NEW got, NEW whole, whole => got = {}, NEW now \in Nat
  PROVE  RowTold(NewStream(now), got, whole)
<1> DEFINE row == NewStream(now)
<1>1. /\ row \in Row /\ row.ranges = {} /\ row.received = 0 /\ row.maxReceived = 0
      /\ row.truncated = FALSE
  BY DEF NewStream, Row
<1> HIDE DEF row
<1>2. IsFiniteSet({}) /\ Cardinality({}) = 0
  BY FS_EmptySet
<1>3. Tidy({}) /\ Members({}) = {}
  BY <1>2 DEF Tidy, Compact, Members
<1>4. Cardinality(row.ranges) <= MaxRanges
  BY <1>1, <1>2, LimitsAreNumbers
<1>5. RowTold(row, got, whole)
  BY <1>1, <1>2, <1>3, <1>4 DEF RowTold
<1> QED
  BY <1>5 DEF row

-----------------------------------------------------------------------------
(* The table of streams.                                                     *)

LEMMA LeastNumber ==
  ASSUME NEW S \in SUBSET Nat, S # {}
  PROVE  \E x \in S : \A y \in S : x <= y
<1>1. PICK x \in S : \A y \in S : ~ (<<y, x>> \in OpToRel(<, Nat))
  BY NatLessThanWellFounded, WFMin, Zenon
<1>2. \A y \in S : ~ (y < x)
  BY <1>1, Zenon DEF OpToRel
<1> QED
  BY <1>2

(* Some stream is older than all others. *)
LEMMA OldestStream ==
  ASSUME NEW tbl, DOMAIN tbl \subseteq Nat, DOMAIN tbl # {},
         \A x \in DOMAIN tbl : tbl[x].last \in Nat
  PROVE  \E x \in DOMAIN tbl : \A y \in DOMAIN tbl : y # x => Newer(tbl, y, x)
<1>1. PICK least \in {tbl[x].last : x \in DOMAIN tbl} :
        \A other \in {tbl[x].last : x \in DOMAIN tbl} : least <= other
  BY LeastNumber
<1>2. PICK x \in {z \in DOMAIN tbl : tbl[z].last = least} :
        \A y \in {z \in DOMAIN tbl : tbl[z].last = least} : x <= y
  BY <1>1, LeastNumber
<1>3. ASSUME NEW y \in DOMAIN tbl, y # x PROVE Newer(tbl, y, x)
  BY <1>1, <1>2, <1>3 DEF Newer
<1> QED
  BY <1>2, <1>3

LEMMA EnsureStreamKeeps ==
  ASSUME NEW tbl, DOMAIN tbl \subseteq Streams, Cardinality(DOMAIN tbl) <= MaxStreams,
         \A x \in DOMAIN tbl : tbl[x].last \in Nat,
         NEW s \in Streams, NEW now \in Nat
  PROVE  LET ensured == EnsureStream(tbl, s, now) IN
         /\ DOMAIN ensured \subseteq DOMAIN tbl \cup {s}
         /\ Cardinality(DOMAIN ensured) <= MaxStreams
         /\ \A x \in DOMAIN ensured :
              ensured[x] = IF x # s THEN tbl[x]
                           ELSE IF s \in DOMAIN tbl THEN [tbl[s] EXCEPT !.last = now]
                           ELSE NewStream(now)
<1> DEFINE upserted == [x \in DOMAIN tbl \cup {s} |->
                          IF x # s THEN tbl[x]
                          ELSE IF s \in DOMAIN tbl THEN [tbl[s] EXCEPT !.last = now]
                          ELSE NewStream(now)]
           newer(x) == {y \in DOMAIN upserted : Newer(upserted, y, x)}
           kept == {x \in DOMAIN upserted : Cardinality(newer(x)) < MaxStreams}
<1>1. EnsureStream(tbl, s, now) = [x \in kept |-> upserted[x]]
  BY DEF EnsureStream
<1>2. /\ DOMAIN upserted = DOMAIN tbl \cup {s}
      /\ DOMAIN upserted \subseteq Nat
      /\ IsFiniteSet(DOMAIN tbl) /\ Cardinality(DOMAIN tbl) \in Nat
  <2>1. IsFiniteSet(Streams) /\ Streams \subseteq Nat
    BY FS_Interval, LimitsAreNumbers DEF Streams
  <2> QED
    BY <2>1, FS_Subset, FS_CardinalityType
<1>3. /\ IsFiniteSet(DOMAIN upserted) /\ Cardinality(DOMAIN upserted) \in Nat
      /\ Cardinality(DOMAIN upserted) <= Cardinality(DOMAIN tbl) + 1
  <2>1. /\ IsFiniteSet(DOMAIN tbl \cup {s})
        /\ \/ Cardinality(DOMAIN tbl \cup {s}) = Cardinality(DOMAIN tbl)
           \/ Cardinality(DOMAIN tbl \cup {s}) = Cardinality(DOMAIN tbl) + 1
    BY <1>2, FS_AddElement
  <2> QED
    BY <1>2, <2>1
<1>4. \A x \in DOMAIN upserted : upserted[x].last \in Nat
  BY DEF NewStream
<1> HIDE DEF upserted
<1>5. kept \subseteq DOMAIN upserted
  OBVIOUS
<1>6. Cardinality(kept) <= MaxStreams
  <2>1. /\ IsFiniteSet(kept) /\ Cardinality(kept) \in Nat
        /\ Cardinality(kept) <= Cardinality(DOMAIN upserted)
    BY <1>3, <1>5, FS_Subset, FS_CardinalityType
  <2>2. CASE Cardinality(DOMAIN upserted) <= MaxStreams
    BY <1>3, <2>1, <2>2, LimitsAreNumbers
  <2>3. CASE Cardinality(DOMAIN upserted) > MaxStreams
    <3>1. PICK x \in DOMAIN upserted :
            \A y \in DOMAIN upserted : y # x => Newer(upserted, y, x)
      <4>1. DOMAIN upserted # {}
        BY <1>2
      <4> QED
        BY <1>2, <1>4, <4>1, OldestStream
    <3>2. DOMAIN upserted \ {x} \subseteq newer(x)
      BY <3>1
    <3>3. /\ IsFiniteSet(DOMAIN upserted \ {x})
          /\ Cardinality(DOMAIN upserted \ {x}) = Cardinality(DOMAIN upserted) - 1
      BY <1>3, FS_RemoveElement
    <3>4. newer(x) \subseteq DOMAIN upserted
      OBVIOUS
    <3>5. /\ IsFiniteSet(newer(x)) /\ Cardinality(newer(x)) \in Nat
          /\ Cardinality(DOMAIN upserted \ {x}) <= Cardinality(newer(x))
      BY <1>3, <3>2, <3>4, FS_Subset, FS_CardinalityType
    <3>6. x \notin kept
      BY <1>3, <2>3, <3>3, <3>5, LimitsAreNumbers
    <3>7. kept \subseteq DOMAIN upserted \ {x}
      BY <1>5, <3>6
    <3>8. Cardinality(kept) <= Cardinality(DOMAIN upserted \ {x})
      BY <3>3, <3>7, FS_Subset
    <3> QED
      BY <1>2, <1>3, <2>1, <3>3, <3>8, LimitsAreNumbers
  <2> QED
    BY <1>3, <2>2, <2>3, LimitsAreNumbers
<1> QED
  BY <1>1, <1>2, <1>5, <1>6 DEF upserted
-----------------------------------------------------------------------------
(* The invariant.                                                            *)

Message(m) ==
  /\ m.kind \in {"event", "heartbeat"} /\ m.stream \in Streams /\ m.number \in 0..MaxSent
  /\ m.kind = "event" => m.number >= 1

(* Requests carry numbers of real streams.                                   *)
RequestsOK ==
  /\ stream \in Streams /\ sent \in [Streams -> 0..MaxSent]
  /\ clock \in Nat /\ beats \in Nat /\ reused \in Nat
  /\ \A m \in net : Message(m)
  /\ \A q \in serving : Message(q.msg) /\ q.at \in Nat

(* A stream without a row that was never evicted has had nothing stored.     *)
LedgerTold ==
  /\ DOMAIN ledger \subseteq Streams
  /\ Cardinality(DOMAIN ledger) <= MaxStreams
  /\ stored \in [Streams -> SUBSET Nat]
  /\ evicted \subseteq Streams
  /\ \A s \in Streams :
       /\ IsFiniteSet(stored[s])
       /\ s \in DOMAIN ledger => RowTold(ledger[s], stored[s], s \notin evicted)
       /\ s \notin DOMAIN ledger /\ s \notin evicted => stored[s] = {}

SequenceInv == RequestsOK /\ LedgerTold

(* The row of a stream once it is ensured, with what it tells.               *)
LEMMA EnsuredTells ==
  ASSUME SequenceInv, NEW s \in Streams, NEW now \in Nat
  PROVE  LET ensured == EnsureStream(ledger, s, now) IN
         /\ DOMAIN ensured \subseteq DOMAIN ledger \cup {s}
         /\ DOMAIN ensured \subseteq Streams
         /\ Cardinality(DOMAIN ensured) <= MaxStreams
         /\ \A x \in DOMAIN ensured : RowTold(ensured[x], stored[x], x \notin evicted)
<1> DEFINE ensured == EnsureStream(ledger, s, now)
<1>1. \A x \in DOMAIN ledger :
        /\ x \in Streams
        /\ ledger[x].last \in Nat
        /\ RowTold(ledger[x], stored[x], x \notin evicted)
  BY DEF SequenceInv, LedgerTold, RowTold, Row
<1>2. /\ DOMAIN ensured \subseteq DOMAIN ledger \cup {s}
      /\ Cardinality(DOMAIN ensured) <= MaxStreams
      /\ \A x \in DOMAIN ensured :
           ensured[x] = IF x # s THEN ledger[x]
                        ELSE IF s \in DOMAIN ledger THEN [ledger[s] EXCEPT !.last = now]
                        ELSE NewStream(now)
  BY <1>1, EnsureStreamKeeps DEF SequenceInv, LedgerTold
<1> HIDE DEF ensured
<1>3. ASSUME NEW x \in DOMAIN ensured
      PROVE  RowTold(ensured[x], stored[x], x \notin evicted)
  <2>1. CASE x # s
    BY <1>1, <1>2, <2>1
  <2>2. CASE x = s /\ s \in DOMAIN ledger
    <3>1. RowTold(ledger[s], stored[s], s \notin evicted)
      BY <1>1, <2>2
    <3>2. RowTold([ledger[s] EXCEPT !.last = now], stored[s], s \notin evicted)
      BY <3>1, TouchTells, Zenon
    <3> QED
      BY <1>2, <2>2, <3>2
  <2>3. CASE x = s /\ s \notin DOMAIN ledger
    <3>1. s \notin evicted => stored[s] = {}
      BY <2>3 DEF SequenceInv, LedgerTold
    <3>2. RowTold(NewStream(now), stored[s], s \notin evicted)
      BY <3>1, NewStreamTells
    <3> QED
      BY <1>2, <2>3, <3>2
  <2> QED
    BY <2>1, <2>2, <2>3
<1>4. DOMAIN ensured \subseteq Streams
  BY <1>1, <1>2
<1> QED
  BY <1>2, <1>3, <1>4 DEF ensured

(* A write of stream s replaces its row at most, by one that still tells of  *)
(* what is stored then.                                                      *)
LEMMA WriteTells ==
  ASSUME SequenceInv, NEW s \in Streams, NEW now \in Nat, NEW new,
         RecordLedger(new),
         DOMAIN new = DOMAIN EnsureStream(ledger, s, now),
         \A x \in DOMAIN new : x # s => new[x] = EnsureStream(ledger, s, now)[x],
         s \in DOMAIN new => RowTold(new[s], stored'[s], s \notin evicted),
         s \notin DOMAIN new => stored'[s] = stored[s],
         stored' \in [Streams -> SUBSET Nat],
         \A x \in Streams : x # s => stored'[x] = stored[x],
         IsFiniteSet(stored'[s])
  PROVE  LedgerTold'
<1> DEFINE ensured == EnsureStream(ledger, s, now)
<1>1. /\ DOMAIN ensured \subseteq DOMAIN ledger \cup {s}
      /\ DOMAIN ensured \subseteq Streams
      /\ Cardinality(DOMAIN ensured) <= MaxStreams
      /\ \A x \in DOMAIN ensured : RowTold(ensured[x], stored[x], x \notin evicted)
  BY EnsuredTells
<1>2. ledger' = new /\ evicted' = evicted \cup (DOMAIN ledger \ DOMAIN new)
  BY DEF RecordLedger
<1> HIDE DEF ensured
<1>3. /\ DOMAIN ledger' = DOMAIN ensured
      /\ \A x \in DOMAIN ledger' : x # s => ledger'[x] = ensured[x]
  BY <1>2 DEF ensured
<1>4. evicted' \subseteq Streams
  BY <1>2 DEF SequenceInv, LedgerTold
<1>5. ASSUME NEW x \in Streams
      PROVE  /\ IsFiniteSet(stored'[x])
             /\ x \in DOMAIN ledger' => RowTold(ledger'[x], stored'[x], x \notin evicted')
             /\ x \notin DOMAIN ledger' /\ x \notin evicted' => stored'[x] = {}
  <2>1. IsFiniteSet(stored'[x])
    BY DEF SequenceInv, LedgerTold
  <2>2. ASSUME x \in DOMAIN ledger' PROVE RowTold(ledger'[x], stored'[x], x \notin evicted')
    <3>1. (x \notin evicted') = (x \notin evicted)
      BY <1>2, <2>2
    <3>2. RowTold(ledger'[x], stored'[x], x \notin evicted)
      <4>1. CASE x = s
        BY <1>2, <2>2, <4>1
      <4>2. CASE x # s
        BY <1>1, <1>3, <2>2, <4>2
      <4> QED
        BY <4>1, <4>2
    <3> QED
      BY <3>1, <3>2
  <2>3. ASSUME x \notin DOMAIN ledger', x \notin evicted' PROVE stored'[x] = {}
    <3>1. x \notin DOMAIN ledger /\ x \notin evicted
      BY <1>2, <2>3
    <3>2. stored[x] = {}
      BY <3>1 DEF SequenceInv, LedgerTold
    <3> QED
      BY <1>2, <2>3, <3>2
  <2> QED
    BY <2>1, <2>2, <2>3
<1> QED
  BY <1>1, <1>3, <1>4, <1>5 DEF LedgerTold

-----------------------------------------------------------------------------
LEMMA CommitEventSafe ==
  ASSUME SequenceInv, NEW q \in serving, CommitEvent(q)
  PROVE  SequenceInv'
<1> DEFINE s == q.msg.stream
           n == q.msg.number
           ensured == EnsureStream(ledger, s, q.at)
           new == RecordEventSequence(ledger, s, n, q.at)
<1>1. /\ s \in Streams /\ n \in Nat /\ n >= 1 /\ q.at \in Nat
      /\ s \in DOMAIN ensured
      /\ RecordLedger(new)
      /\ stored' = [stored EXCEPT ![s] = @ \cup {n}]
      /\ serving' = serving \ {q}
      /\ UNCHANGED <<stream, sent, net, clock, beats, reused>>
  BY DEF CommitEvent, SequenceInv, RequestsOK, Message, SequenceRefused
<1>2. \A x \in DOMAIN ensured : RowTold(ensured[x], stored[x], x \notin evicted)
  BY <1>1, EnsuredTells
<1>3. /\ DOMAIN new = DOMAIN ensured
      /\ \A x \in DOMAIN new : x # s => new[x] = ensured[x]
      /\ new[s] = CountEvent(ensured[s], n)
  BY <1>1 DEF RecordEventSequence
<1>4. /\ stored \in [Streams -> SUBSET Nat] /\ IsFiniteSet(stored[s])
  BY <1>1 DEF SequenceInv, LedgerTold
<1>5. /\ stored' \in [Streams -> SUBSET Nat]
      /\ stored'[s] = stored[s] \cup {n}
      /\ \A x \in Streams : x # s => stored'[x] = stored[x]
  BY <1>1, <1>4
<1>6. IsFiniteSet(stored'[s])
  <2>1. IsFiniteSet(stored[s] \cup {n})
    BY <1>4, FS_AddElement
  <2> QED
    BY <1>5, <2>1
<1>7. (s \notin evicted) \in BOOLEAN
  OBVIOUS
<1> HIDE DEF ensured, new, s, n
<1>8. RowTold(new[s], stored'[s], s \notin evicted)
  <2>1. RowTold(ensured[s], stored[s], s \notin evicted)
    BY <1>1, <1>2
  <2>2. RowTold(CountEvent(ensured[s], n), stored[s] \cup {n}, s \notin evicted)
    BY <1>1, <1>4, <1>7, <2>1, CountEventTells, Zenon
  <2> QED
    BY <1>3, <1>5, <2>2
<1>9. LedgerTold'
  BY <1>1, <1>3, <1>5, <1>6, <1>8, WriteTells DEF ensured
<1>10. RequestsOK'
  BY <1>1 DEF SequenceInv, RequestsOK, Message
<1> QED
  BY <1>9, <1>10 DEF SequenceInv

LEMMA CommitHeartbeatSafe ==
  ASSUME SequenceInv, NEW q \in serving, CommitHeartbeat(q)
  PROVE  SequenceInv'
<1> DEFINE s == q.msg.stream
           n == q.msg.number
           ensured == EnsureStream(ledger, s, q.at)
           new == RecordHeartbeatSequence(ledger, s, n, q.at)
<1>1. /\ s \in Streams /\ n \in Nat /\ q.at \in Nat
      /\ RecordLedger(new)
      /\ serving' = serving \ {q}
      /\ UNCHANGED <<stream, sent, net, clock, beats, reused, stored>>
  BY DEF CommitHeartbeat, SequenceInv, RequestsOK, Message
<1>2. \A x \in DOMAIN ensured : RowTold(ensured[x], stored[x], x \notin evicted)
  BY <1>1, EnsuredTells
<1>3. /\ DOMAIN new = DOMAIN ensured
      /\ \A x \in DOMAIN new : x # s => new[x] = ensured[x]
      /\ s \in DOMAIN ensured =>
           new[s] = [ensured[s] EXCEPT !.maxReported = Larger(@, n)]
  BY DEF RecordHeartbeatSequence
<1>4. /\ stored' \in [Streams -> SUBSET Nat] /\ IsFiniteSet(stored'[s])
      /\ stored' = stored
  BY <1>1 DEF SequenceInv, LedgerTold
<1> HIDE DEF ensured, new, s, n
<1>5. s \in DOMAIN new => RowTold(new[s], stored'[s], s \notin evicted)
  <2> SUFFICES ASSUME s \in DOMAIN new PROVE RowTold(new[s], stored'[s], s \notin evicted)
    OBVIOUS
  <2>1. RowTold(ensured[s], stored[s], s \notin evicted)
    BY <1>2, <1>3
  <2>2. RowTold([ensured[s] EXCEPT !.maxReported = Larger(@, n)], stored[s], s \notin evicted)
    BY <1>1, <2>1, TouchTells, Zenon
  <2> QED
    BY <1>3, <1>4, <2>2
<1>6. LedgerTold'
  BY <1>1, <1>3, <1>4, <1>5, WriteTells DEF ensured
<1>7. RequestsOK'
  BY <1>1 DEF SequenceInv, RequestsOK, Message
<1> QED
  BY <1>6, <1>7 DEF SequenceInv

LEMMA EmitSafe ==
  ASSUME SequenceInv, Emit
  PROVE  SequenceInv'
<1>1. /\ stream \in Streams /\ sent[stream] \in 0..MaxSent /\ sent[stream] < MaxSent
      /\ MaxSent \in Nat
      /\ sent' = [sent EXCEPT ![stream] = sent[stream] + 1]
      /\ net' = net \cup {Event(stream, sent[stream] + 1, 0)}
      /\ UNCHANGED <<stream, serving, clock, ledger, beats, reused, stored, evicted>>
  BY LimitsAreNumbers DEF Emit, SequenceInv, RequestsOK
<1>2. Message(Event(stream, sent[stream] + 1, 0))
  BY <1>1 DEF Message, Event
<1>3. RequestsOK'
  BY <1>1, <1>2 DEF SequenceInv, RequestsOK, Message
<1>4. LedgerTold'
  BY <1>1 DEF SequenceInv, LedgerTold
<1> QED
  BY <1>3, <1>4 DEF SequenceInv

LEMMA ReuseSafe ==
  ASSUME SequenceInv, Reuse
  PROVE  SequenceInv'
<1>1. PICK s \in Streams : \E n \in 1..sent[s] :
        net' = net \cup {Event(s, n, reused + 1)}
  BY DEF Reuse
<1>2. PICK n \in 1..sent[s] : net' = net \cup {Event(s, n, reused + 1)}
  BY <1>1
<1>3. /\ n \in 0..MaxSent /\ n >= 1 /\ reused' = reused + 1
      /\ UNCHANGED <<stream, sent, serving, clock, ledger, beats, stored, evicted>>
  BY LimitsAreNumbers DEF Reuse, SequenceInv, RequestsOK
<1>4. Message(Event(s, n, reused + 1))
  BY <1>3 DEF Message, Event
<1>5. RequestsOK'
  BY <1>2, <1>3, <1>4 DEF SequenceInv, RequestsOK, Message
<1>6. LedgerTold'
  BY <1>3 DEF SequenceInv, LedgerTold
<1> QED
  BY <1>5, <1>6 DEF SequenceInv

LEMMA BeatSafe ==
  ASSUME SequenceInv, Beat
  PROVE  SequenceInv'
<1>1. /\ stream \in Streams /\ sent[stream] \in 0..MaxSent /\ beats' = beats + 1
      /\ net' = net \cup {Heartbeat(stream, sent[stream], beats)}
      /\ UNCHANGED <<stream, sent, serving, clock, ledger, reused, stored, evicted>>
  BY DEF Beat, SequenceInv, RequestsOK
<1>2. Message(Heartbeat(stream, sent[stream], beats))
  BY <1>1 DEF Message, Heartbeat
<1>3. RequestsOK'
  BY <1>1, <1>2 DEF SequenceInv, RequestsOK, Message
<1>4. LedgerTold'
  BY <1>1 DEF SequenceInv, LedgerTold
<1> QED
  BY <1>3, <1>4 DEF SequenceInv

LEMMA RestSafe ==
  ASSUME SequenceInv,
         \/ Restart
         \/ \E m \in net : Lose(m) \/ Stamp(m)
         \/ \E q \in serving : RefuseEvent(q)
         \/ UNCHANGED vars
  PROVE  SequenceInv'
<1>1. UNCHANGED <<ledger, stored, evicted>>
  BY DEF Restart, Lose, Stamp, RefuseEvent, vars
<1>2. LedgerTold'
  BY <1>1 DEF SequenceInv, LedgerTold
<1>3. RequestsOK'
  <2>1. CASE Restart
    BY <2>1, LimitsAreNumbers DEF Restart, Streams, SequenceInv, RequestsOK, Message
  <2>2. ASSUME NEW m \in net, Lose(m) PROVE RequestsOK'
    BY <2>2 DEF Lose, SequenceInv, RequestsOK, Message
  <2>3. ASSUME NEW m \in net, Stamp(m) PROVE RequestsOK'
    BY <2>3 DEF Stamp, SequenceInv, RequestsOK, Message
  <2>4. ASSUME NEW q \in serving, RefuseEvent(q) PROVE RequestsOK'
    BY <2>4 DEF RefuseEvent, SequenceInv, RequestsOK, Message
  <2>5. CASE UNCHANGED vars
    BY <2>5 DEF vars, SequenceInv, RequestsOK, Message
  <2> QED
    BY <2>1, <2>2, <2>3, <2>4, <2>5
<1> QED
  BY <1>2, <1>3 DEF SequenceInv

LEMMA SequenceStart == Init => SequenceInv
<1> SUFFICES ASSUME Init PROVE SequenceInv
  OBVIOUS
<1>1. RequestsOK
  BY LimitsAreNumbers, SequenceBounds DEF Init, RequestsOK, Streams
<1>2. LedgerTold
  <2>1. DOMAIN ledger = {} /\ Cardinality(DOMAIN ledger) = 0
    <3>1. DOMAIN ledger = {}
      BY DEF Init
    <3> QED
      BY <3>1, FS_EmptySet
  <2>2. stored \in [Streams -> SUBSET Nat] /\ \A s \in Streams : stored[s] = {}
    BY DEF Init
  <2>3. \A s \in Streams : IsFiniteSet(stored[s])
    BY <2>2, FS_EmptySet
  <2> QED
    BY <2>1, <2>2, <2>3, LimitsAreNumbers DEF Init, LedgerTold
<1> QED
  BY <1>1, <1>2 DEF SequenceInv

LEMMA SequenceStep == SequenceInv /\ [Next]_vars => SequenceInv'
<1> SUFFICES ASSUME SequenceInv, [Next]_vars PROVE SequenceInv'
  OBVIOUS
<1>1. CASE Emit
  BY <1>1, EmitSafe
<1>2. CASE Reuse
  BY <1>2, ReuseSafe
<1>3. CASE Beat
  BY <1>3, BeatSafe
<1>4. CASE \E q \in serving : CommitEvent(q)
  BY <1>4, CommitEventSafe
<1>5. CASE \E q \in serving : CommitHeartbeat(q)
  BY <1>5, CommitHeartbeatSafe
<1>6. CASE Restart \/ (\E m \in net : Lose(m) \/ Stamp(m))
  BY <1>6, RestSafe
<1>7. CASE (\E q \in serving : RefuseEvent(q)) \/ UNCHANGED vars
  BY <1>7, RestSafe
<1> QED
  BY <1>1, <1>2, <1>3, <1>4, <1>5, <1>6, <1>7 DEF Next

LEMMA SequenceInvariant == Spec => []SequenceInv
<1> QED
  BY SequenceStart, SequenceStep, PTL DEF Spec

-----------------------------------------------------------------------------
(* Streams, numbers, stamps and rows keep their types: a row written by      *)
(* record_event_sequence or record_heartbeat_sequence is a row again.        *)
THEOREM SequenceTyped == Spec => []TypeOK
<1>1. SequenceInv => TypeOK
  BY DEF SequenceInv, RequestsOK, LedgerTold, RowTold, Message, TypeOK
<1> QED
  BY <1>1, SequenceInvariant, PTL

(* For any order of arrival, loss, reuse, restart and eviction the compacted *)
(* ranges stay disjoint and bounded and stand for the stored events.         *)
THEOREM RangesStand == Spec => []RangesKept
<1>1. ASSUME SequenceInv PROVE RangesKept
  <2>1. Cardinality(DOMAIN ledger) <= MaxStreams
    BY <1>1 DEF SequenceInv, LedgerTold
  <2>2. \A s \in DOMAIN ledger : RowTold(ledger[s], stored[s], s \notin evicted)
    BY <1>1 DEF SequenceInv, LedgerTold
  <2> QED
    BY <2>1, <2>2 DEF RangesKept, RowTold, Tidy, Exact
<1> QED
  BY <1>1, SequenceInvariant, PTL
-----------------------------------------------------------------------------
(* What is reported.                                                         *)

LEMMA GreatestNumber ==
  ASSUME NEW S \in SUBSET Nat, S # {}, NEW bound \in Nat, \A x \in S : x <= bound
  PROVE  \E x \in S : \A y \in S : y <= x
<1>1. PICK d \in {bound - x : x \in S} : \A e \in {bound - x : x \in S} : d <= e
  <2>1. {bound - x : x \in S} \in SUBSET Nat
    OBVIOUS
  <2> QED
    BY <2>1, LeastNumber, ZenonT(60)
<1>2. PICK x \in S : d = bound - x
  OBVIOUS
<1>3. \A y \in S : bound - x <= bound - y
  BY <1>1, <1>2
<1>4. \A y \in S : y \in Nat /\ x \in Nat
  OBVIOUS
<1>5. \A y \in S : y <= x
  BY <1>3, <1>4
<1> QED
  BY <1>5

(* A row whose ranges lie below  bound. *)
Below(ranges, bound) == \A r \in ranges : r.hi <= bound

LEMMA TidyBelow ==
  ASSUME NEW row, NEW got, NEW whole, RowTold(row, got, whole)
  PROVE  /\ Tidy(row.ranges) /\ row.maxReceived \in Nat /\ row.maxReported \in Nat
         /\ row.received \in Nat
         /\ Highest(row) \in Nat /\ row.maxReceived <= Highest(row)
         /\ Below(row.ranges, row.maxReceived) /\ Below(row.ranges, Highest(row))
<1>1. /\ Tidy(row.ranges) /\ row.maxReceived \in Nat /\ row.maxReported \in Nat
      /\ row.received \in Nat
  BY DEF RowTold, Row
<1>2. Highest(row) \in Nat /\ row.maxReceived <= Highest(row)
  BY <1>1 DEF Highest, Larger
<1>3. \A r \in row.ranges : r.lo \in Nat /\ r.hi \in Nat /\ r.lo <= r.hi
  BY <1>1 DEF Tidy, SequenceRange, Compact
<1>4. \A r \in row.ranges : r.hi \in Members(row.ranges)
  BY <1>1, <1>3, MembersAre DEF Tidy
<1>5. \A r \in row.ranges : r.hi \in 1..row.maxReceived
  BY <1>4 DEF RowTold
<1>6. Below(row.ranges, row.maxReceived)
  BY <1>1, <1>5 DEF Below
<1>7. Below(row.ranges, Highest(row))
  BY <1>1, <1>2, <1>3, <1>6 DEF Below
<1> QED
  BY <1>1, <1>2, <1>6, <1>7

(* The scan expects, at x, the number after the last range that starts       *)
(* below x.                                                                  *)
LEMMA ExpectedIs ==
  ASSUME NEW ranges, Tidy(ranges), NEW bound \in Nat, Below(ranges, bound), NEW x \in Nat
  PROVE  /\ Expected(ranges, x) \in Nat /\ Expected(ranges, x) >= 1
         /\ \/ Expected(ranges, x) = 1
            \/ \E r \in ranges : r.lo < x /\ Expected(ranges, x) = r.hi + 1
         /\ \A r \in ranges : r.lo < x => r.hi + 1 <= Expected(ranges, x)
<1> DEFINE before == {r.hi + 1 : r \in {q \in ranges : q.lo < x}} \cup {1}
<1>1. \A r \in ranges : r.lo \in Nat /\ r.hi \in Nat /\ 1 <= r.lo /\ r.lo <= r.hi
  BY DEF Tidy, SequenceRange, Compact
<1>2. before \in SUBSET Nat /\ before # {} /\ 1 \in before
  BY <1>1
<1>3. \A e \in before : e <= bound + 1
  BY <1>1 DEF Below
<1>4. \A e \in before : e = 1 \/ \E r \in ranges : r.lo < x /\ e = r.hi + 1
  OBVIOUS
<1>5. \A r \in ranges : r.lo < x => r.hi + 1 \in before
  OBVIOUS
<1>6. Expected(ranges, x) = CHOOSE e \in before : \A d \in before : d <= e
  BY DEF Expected
<1> HIDE DEF before
<1>7. \E e \in before : \A d \in before : d <= e
  <2>1. bound + 1 \in Nat
    OBVIOUS
  <2> QED
    BY <1>2, <1>3, <2>1, GreatestNumber
<1>8. Expected(ranges, x) \in before /\ \A d \in before : d <= Expected(ranges, x)
  BY <1>6, <1>7
<1> QED
  BY <1>2, <1>4, <1>5, <1>8

(* The gaps are the numbers between the ranges and up to the highest known.  *)
LEMMA AllGapsTell ==
  ASSUME NEW row, NEW got, NEW whole, RowTold(row, got, whole)
  PROVE  UNION {g.lo..g.hi : g \in AllGaps(row)} = (1..Highest(row)) \ Members(row.ranges)
<1> DEFINE R == row.ranges
           H == Highest(row)
           E(x) == Expected(R, x)
           inner == {[lo |-> E(x), hi |-> x - 1] : x \in {y \in {r.lo : r \in R} : y > E(y)}}
           outer == IF E(H + 1) <= H THEN {[lo |-> E(H + 1), hi |-> H]} ELSE {}
<1>1. Tidy(R) /\ H \in Nat /\ Below(R, H)
  BY TidyBelow
<1>2. AllGaps(row) = inner \cup outer
  BY DEF AllGaps
<1>3. \A r \in R : r.lo \in Nat /\ r.hi \in Nat /\ 1 <= r.lo /\ r.lo <= r.hi /\ r.hi <= H
  BY <1>1 DEF Tidy, SequenceRange, Compact, Below
<1>4. \A x \in Nat :
        /\ E(x) \in Nat /\ E(x) >= 1
        /\ E(x) = 1 \/ \E r \in R : r.lo < x /\ E(x) = r.hi + 1
        /\ \A r \in R : r.lo < x => r.hi + 1 <= E(x)
  BY <1>1, ExpectedIs
<1>5. \A z : z \in Members(R) <=> \E r \in R : z \in Nat /\ r.lo <= z /\ z <= r.hi
  BY <1>1, MembersAre DEF Tidy
<1> HIDE DEF R, H, E
<1>6. ASSUME NEW x \in Nat, NEW z \in Nat, E(x) <= z, z < x
      PROVE  z >= 1 /\ z \notin Members(R)
  <2>1. z >= 1
    BY <1>4, <1>6
  <2>2. ASSUME NEW r \in R, r.lo <= z, z <= r.hi PROVE FALSE
    <3>1. r.lo < x
      BY <1>3, <1>6, <2>2
    <3>2. r.hi + 1 <= E(x)
      BY <1>4, <3>1
    <3> QED
      BY <1>3, <1>4, <1>6, <2>2, <3>2
  <2> QED
    BY <1>5, <2>1, <2>2
<1>7. ASSUME NEW g \in AllGaps(row), NEW z \in g.lo..g.hi
      PROVE  z \in (1..H) \ Members(R)
  <2>1. CASE g \in inner
    <3>1. PICK r \in R : g = [lo |-> E(r.lo), hi |-> r.lo - 1]
      BY <2>1
    <3>2. g.lo = E(r.lo) /\ g.hi = r.lo - 1
      BY <3>1
    <3>3. z \in Nat /\ E(r.lo) <= z /\ z < r.lo
      BY <1>3, <1>4, <3>2
    <3>4. z >= 1 /\ z \notin Members(R)
      BY <1>3, <1>6, <3>3
    <3> QED
      BY <1>1, <1>3, <3>3, <3>4
  <2>2. CASE g \in outer
    <3>1. g.lo = E(H + 1) /\ g.hi = H
      BY <2>2
    <3>2. z \in Nat /\ E(H + 1) <= z /\ z < H + 1 /\ z <= H
      BY <1>1, <1>4, <3>1
    <3>3. z >= 1 /\ z \notin Members(R)
      BY <1>1, <1>6, <3>2
    <3> QED
      BY <1>1, <3>2, <3>3
  <2> QED
    BY <1>2, <2>1, <2>2
<1>8. ASSUME NEW x \in Nat, NEW z \in Nat, z >= 1, z \notin Members(R),
             \A r \in R : r.lo < x => r.lo <= z
      PROVE  E(x) <= z
  <2>1. CASE E(x) = 1
    BY <1>8, <2>1
  <2>2. ASSUME NEW r \in R, r.lo < x, E(x) = r.hi + 1 PROVE E(x) <= z
    <3>1. r.lo <= z
      BY <1>8, <2>2
    <3>2. ~(z <= r.hi)
      BY <1>5, <1>8, <3>1
    <3> QED
      BY <1>3, <1>8, <2>2, <3>2
  <2> QED
    BY <1>4, <2>1, <2>2
<1>9. ASSUME NEW z \in (1..H) \ Members(R)
      PROVE  \E g \in AllGaps(row) : z \in g.lo..g.hi
  <2>1. z \in Nat /\ z >= 1 /\ z <= H
    BY <1>1
  <2> DEFINE after == {y \in {r.lo : r \in R} : y > z}
  <2>2. CASE after = {}
    <3>1. \A r \in R : r.lo <= z
      BY <1>3, <2>1, <2>2
    <3>2. E(H + 1) <= z
      BY <1>1, <1>8, <2>1, <3>1
    <3>3. E(H + 1) \in Nat /\ E(H + 1) <= H
      BY <1>1, <1>4, <2>1, <3>2
    <3>4. [lo |-> E(H + 1), hi |-> H] \in AllGaps(row)
      BY <1>2, <3>3
    <3>5. z \in [lo |-> E(H + 1), hi |-> H].lo..[lo |-> E(H + 1), hi |-> H].hi
      BY <1>1, <2>1, <3>2, <3>3
    <3> QED
      BY <3>4, <3>5
  <2>3. CASE after # {}
    <3>1. after \in SUBSET Nat
      BY <1>3
    <3>2. PICK y \in after : \A x \in after : y <= x
      BY <2>3, <3>1, LeastNumber
    <3>3. y \in Nat /\ y > z /\ y \in {r.lo : r \in R}
      BY <3>1
    <3>4. \A r \in R : r.lo < y => r.lo <= z
      BY <1>3, <2>1, <3>2, <3>3
    <3>5. E(y) \in Nat /\ E(y) <= z /\ y > E(y)
      BY <1>4, <1>8, <2>1, <3>3, <3>4
    <3>6. [lo |-> E(y), hi |-> y - 1] \in AllGaps(row)
      BY <1>2, <3>3, <3>5
    <3>7. z \in [lo |-> E(y), hi |-> y - 1].lo..[lo |-> E(y), hi |-> y - 1].hi
      BY <2>1, <3>3, <3>5
    <3> QED
      BY <3>6, <3>7
  <2> QED
    BY <2>2, <2>3
<1>10. UNION {g.lo..g.hi : g \in AllGaps(row)} = (1..H) \ Members(R)
  BY <1>7, <1>9
<1> QED
  BY <1>10 DEF R, H

(* At most MaxGaps gaps are all reported. *)
LEMMA FewGapsAreAll ==
  ASSUME NEW row, NEW got, NEW whole, RowTold(row, got, whole),
         Cardinality(AllGaps(row)) <= MaxGaps
  PROVE  Gaps(row) = AllGaps(row)
<1> DEFINE R == row.ranges
           starts == {y \in {r.lo : r \in R} : y > Expected(R, y)}
           gap == [x \in starts |-> [lo |-> Expected(R, x), hi |-> x - 1]]
           inner == {gap[x] : x \in starts}
           last == [lo |-> Expected(R, Highest(row) + 1), hi |-> Highest(row)]
<1>1. IsFiniteSet(starts)
  <2>1. Tidy(R) /\ Below(R, Highest(row)) /\ Highest(row) \in Nat
    BY TidyBelow
  <2>2. \A r \in R : r.lo \in Nat /\ r.lo <= Highest(row)
    BY <2>1 DEF Tidy, SequenceRange, Compact, Below
  <2>3. starts \in SUBSET Nat /\ \A x \in starts : x <= Highest(row)
    BY <2>2
  <2> QED
    BY <2>1, <2>3, FS_BoundedSetOfNaturals
<1>2. IsFiniteSet(inner)
  <2>1. gap \in Surjection(starts, inner)
    BY DEF Surjection
  <2> QED
    BY <1>1, <2>1, FS_Surjection
<1>3. AllGaps(row) \subseteq inner \cup {last}
  BY DEF AllGaps
<1>4. IsFiniteSet(AllGaps(row))
  BY <1>2, <1>3, FS_AddElement, FS_Subset
<1>5. ASSUME NEW g \in AllGaps(row)
      PROVE  Cardinality({h \in AllGaps(row) : h.lo < g.lo}) < MaxGaps
  <2> DEFINE lower == {h \in AllGaps(row) : h.lo < g.lo}
  <2>1. /\ IsFiniteSet(AllGaps(row) \ {g})
        /\ Cardinality(AllGaps(row) \ {g}) = Cardinality(AllGaps(row)) - 1
    BY <1>4, FS_RemoveElement
  <2>2. g.lo \in Nat
    <3>1. Tidy(R) /\ Below(R, Highest(row)) /\ Highest(row) \in Nat
      BY TidyBelow
    <3>2. \A x \in Nat : Expected(R, x) \in Nat
      BY <3>1, ExpectedIs
    <3>3. \A r \in R : r.lo \in Nat
      BY <3>1 DEF Tidy, SequenceRange
    <3>4. CASE g = last
      BY <3>1, <3>2, <3>4
    <3>5. CASE g \in inner
      <4>1. PICK x \in starts : g = gap[x]
        BY <3>5
      <4>2. x \in Nat /\ gap[x].lo = Expected(R, x)
        BY <3>3
      <4> QED
        BY <3>2, <4>1, <4>2
    <3> QED
      BY <1>3, <3>4, <3>5
  <2>3. lower \subseteq AllGaps(row) \ {g}
    BY <2>2
  <2>4. /\ IsFiniteSet(lower) /\ Cardinality(lower) \in Nat
        /\ Cardinality(lower) <= Cardinality(AllGaps(row) \ {g})
    BY <2>1, <2>3, FS_Subset, FS_CardinalityType
  <2>5. Cardinality(AllGaps(row)) \in Nat
    BY <1>4, FS_CardinalityType
  <2> QED
    BY <2>1, <2>4, <2>5, LimitsAreNumbers
<1> QED
  BY <1>5 DEF Gaps

(* The count: missing numbers are those below the highest never stored.      *)
LEMMA MissingTells ==
  ASSUME NEW row, NEW got, NEW whole, IsFiniteSet(got), RowTold(row, got, whole), whole
  PROVE  /\ Missing(row) <= Cardinality((1..Highest(row)) \ got)
         /\ ~row.truncated => Missing(row) = Cardinality((1..Highest(row)) \ got)
<1> DEFINE H == Highest(row)
<1>1. H \in Nat /\ row.maxReceived \in Nat /\ row.maxReceived <= H /\ row.received \in Nat
  BY TidyBelow
<1>2. got \subseteq 1..row.maxReceived
  BY DEF RowTold
<1> HIDE DEF H
<1>3. got \subseteq 1..H
  BY <1>1, <1>2
<1>4. IsFiniteSet(1..H) /\ Cardinality(1..H) = H
  BY <1>1, FS_Interval, SMTT(30)
<1>5. (1..H) \cap got = got
  BY <1>3
<1>6. Cardinality((1..H) \ got) = H - Cardinality(got)
  <2>1. Cardinality((1..H) \ got) = Cardinality(1..H) - Cardinality((1..H) \cap got)
    BY <1>4, FS_Difference
  <2> QED
    BY <1>4, <1>5, <2>1
<1>7. Cardinality(got) \in Nat /\ Cardinality(got) <= H
  BY <1>3, <1>4, FS_Subset, FS_CardinalityType
<1>8. /\ Cardinality(got) <= row.received
      /\ ~row.truncated => Cardinality(got) = row.received
  BY DEF RowTold
<1>9. Missing(row) = IF 0 > H - row.received THEN 0 ELSE H - row.received
  BY DEF Missing, Larger, H
<1>10. /\ Missing(row) <= Cardinality((1..H) \ got)
       /\ ~row.truncated => Missing(row) = Cardinality((1..H) \ got)
  BY <1>1, <1>6, <1>7, <1>8, <1>9
<1> QED
  BY <1>10 DEF H

(* The operator's view of loss is never more than what was lost, and exactly *)
(* that while the stream is held in full (sequence_summary, _gaps).          *)
THEOREM LossIsTold == Spec => []LossTold
<1>1. ASSUME SequenceInv, NEW s \in DOMAIN ledger
      PROVE  /\ s \notin evicted => Missing(ledger[s]) <= Cardinality(Lost(s))
             /\ Exact(s) => Missing(ledger[s]) = Cardinality(Lost(s))
             /\ Exact(s) /\ Cardinality(AllGaps(ledger[s])) <= MaxGaps
                  => UNION {g.lo..g.hi : g \in Gaps(ledger[s])} = Lost(s)
  <2>1. IsFiniteSet(stored[s]) /\ RowTold(ledger[s], stored[s], s \notin evicted)
    BY <1>1 DEF SequenceInv, LedgerTold
  <2>2. s \notin evicted =>
          /\ Missing(ledger[s]) <= Cardinality(Lost(s))
          /\ ~ledger[s].truncated => Missing(ledger[s]) = Cardinality(Lost(s))
    BY <2>1, MissingTells, Zenon DEF Lost
  <2>3. ASSUME Exact(s), Cardinality(AllGaps(ledger[s])) <= MaxGaps
        PROVE  UNION {g.lo..g.hi : g \in Gaps(ledger[s])} = Lost(s)
    <3>1. Members(ledger[s].ranges) = stored[s]
      BY <2>1, <2>3 DEF Exact, RowTold
    <3>2. Gaps(ledger[s]) = AllGaps(ledger[s])
      BY <2>1, <2>3, FewGapsAreAll, Zenon
    <3>3. UNION {g.lo..g.hi : g \in AllGaps(ledger[s])} =
            (1..Highest(ledger[s])) \ Members(ledger[s].ranges)
      BY <2>1, AllGapsTell, Zenon
    <3> QED
      BY <3>1, <3>2, <3>3 DEF Lost
  <2> QED
    BY <2>2, <2>3 DEF Exact
<1>2. SequenceInv => LossTold
  BY <1>1 DEF LossTold
<1> QED
  BY <1>2, SequenceInvariant, PTL
-----------------------------------------------------------------------------
(* The refinement.                                                           *)

(* The abstract account counts as its implementation does. *)
LEMMA SameCardinality == \A S : Account!Cardinality(S) = Cardinality(S)
BY Zenon DEF Account!Cardinality, Cardinality

(* A write keeps every stream there is room for, and as many as there is.    *)
LEMMA EnsureStreamRoom ==
  ASSUME NEW tbl, DOMAIN tbl \subseteq Streams, Cardinality(DOMAIN tbl) <= MaxStreams,
         \A x \in DOMAIN tbl : tbl[x].last \in Nat,
         NEW s \in Streams, NEW now \in Nat
  PROVE  LET kept == DOMAIN EnsureStream(tbl, s, now)
             held == DOMAIN tbl \cup {s}
         IN \/ kept = held /\ Cardinality(held) <= MaxStreams
            \/ Cardinality(kept) = MaxStreams /\ Cardinality(held) > MaxStreams
<1> DEFINE upserted == [x \in DOMAIN tbl \cup {s} |->
                          IF x # s THEN tbl[x]
                          ELSE IF s \in DOMAIN tbl THEN [tbl[s] EXCEPT !.last = now]
                          ELSE NewStream(now)]
           held == DOMAIN tbl \cup {s}
           newer(x) == {y \in DOMAIN upserted : Newer(upserted, y, x)}
           kept == {x \in DOMAIN upserted : Cardinality(newer(x)) < MaxStreams}
<1>1. EnsureStream(tbl, s, now) = [x \in kept |-> upserted[x]]
  BY DEF EnsureStream
<1>2. DOMAIN upserted = held /\ held \subseteq Nat /\ s \in held
  BY DEF Streams
<1>3. /\ IsFiniteSet(held) /\ Cardinality(held) \in Nat
      /\ Cardinality(held) <= MaxStreams + 1
  <2>1. IsFiniteSet(Streams)
    BY FS_Interval, LimitsAreNumbers DEF Streams
  <2>2. IsFiniteSet(DOMAIN tbl) /\ Cardinality(DOMAIN tbl) \in Nat
    BY <2>1, FS_Subset, FS_CardinalityType
  <2>3. /\ IsFiniteSet(held)
        /\ \/ Cardinality(held) = Cardinality(DOMAIN tbl)
           \/ Cardinality(held) = Cardinality(DOMAIN tbl) + 1
    BY <2>2, FS_AddElement
  <2> QED
    BY <2>2, <2>3, LimitsAreNumbers
<1>4. \A x \in held : upserted[x].last \in Nat
  BY DEF NewStream
<1>5. DOMAIN EnsureStream(tbl, s, now) = kept
  BY <1>1
<1> HIDE DEF upserted, held
<1>6. \A x, y \in held : Newer(upserted, y, x) => y # x /\ ~Newer(upserted, x, y)
  BY <1>2, <1>4 DEF Newer
<1>7. CASE Cardinality(held) <= MaxStreams
  <2>1. ASSUME NEW x \in held PROVE x \in kept
    <3>1. newer(x) \subseteq held \ {x}
      BY <1>2, <1>6
    <3>2. IsFiniteSet(held \ {x}) /\ Cardinality(held \ {x}) = Cardinality(held) - 1
      BY <1>3, FS_RemoveElement
    <3>3. /\ IsFiniteSet(newer(x)) /\ Cardinality(newer(x)) \in Nat
          /\ Cardinality(newer(x)) <= Cardinality(held \ {x})
      BY <3>1, <3>2, FS_Subset, FS_CardinalityType
    <3>4. Cardinality(newer(x)) < MaxStreams
      BY <1>3, <1>7, <3>2, <3>3, LimitsAreNumbers
    <3> QED
      BY <1>2, <3>4
  <2>2. kept = held
    BY <1>2, <2>1
  <2> QED
    BY <1>5, <1>7, <2>2 DEF held
<1>8. CASE Cardinality(held) > MaxStreams
  <2>1. Cardinality(held) = MaxStreams + 1
    BY <1>3, <1>8, LimitsAreNumbers
  <2>2. PICK oldest \in held : \A y \in held : y # oldest => Newer(upserted, y, oldest)
    BY <1>2, <1>4, OldestStream
  <2>3. /\ IsFiniteSet(held \ {oldest})
        /\ Cardinality(held \ {oldest}) = MaxStreams
    <3>1. /\ IsFiniteSet(held \ {oldest})
          /\ Cardinality(held \ {oldest}) = Cardinality(held) - 1
      BY <1>3, FS_RemoveElement
    <3> QED
      BY <2>1, <3>1, LimitsAreNumbers
  <2>4. ASSUME NEW x \in held \ {oldest} PROVE x \in kept
    <3>1. newer(x) \subseteq (held \ {oldest}) \ {x}
      BY <1>2, <1>6, <2>2
    <3>2. /\ IsFiniteSet((held \ {oldest}) \ {x})
          /\ Cardinality((held \ {oldest}) \ {x}) = MaxStreams - 1
      BY <2>3, FS_RemoveElement
    <3>3. /\ IsFiniteSet(newer(x)) /\ Cardinality(newer(x)) \in Nat
          /\ Cardinality(newer(x)) <= Cardinality((held \ {oldest}) \ {x})
      BY <3>1, <3>2, FS_Subset, FS_CardinalityType
    <3>4. Cardinality(newer(x)) < MaxStreams
      BY <3>2, <3>3, LimitsAreNumbers
    <3> QED
      BY <1>2, <3>4
  <2>5. oldest \notin kept
    <3>1. held \ {oldest} \subseteq newer(oldest)
      BY <1>2, <2>2
    <3>2. newer(oldest) \subseteq held
      BY <1>2
    <3>3. /\ IsFiniteSet(newer(oldest)) /\ Cardinality(newer(oldest)) \in Nat
          /\ Cardinality(held \ {oldest}) <= Cardinality(newer(oldest))
      BY <1>3, <3>1, <3>2, FS_Subset, FS_CardinalityType
    <3> QED
      BY <2>3, <3>3, LimitsAreNumbers
  <2>6. kept = held \ {oldest}
    BY <1>2, <2>4, <2>5
  <2> QED
    BY <1>5, <1>8, <2>3, <2>6 DEF held
<1> QED
  BY <1>3, <1>7, <1>8, LimitsAreNumbers

(* Ranges are the runs of the numbers they stand for.                        *)
LEMMA RunsAreRanges ==
  ASSUME NEW ranges, Tidy(ranges)
  PROVE  Cardinality({n \in Members(ranges) : n - 1 \notin Members(ranges)})
           = Cardinality(ranges)
<1> DEFINE starts == {n \in Members(ranges) : n - 1 \notin Members(ranges)}
           start == [r \in ranges |-> r.lo]
<1>1. \A r \in ranges : r.lo \in Nat /\ r.hi \in Nat /\ 1 <= r.lo /\ r.lo <= r.hi
  BY DEF Tidy, SequenceRange, Compact
<1>2. \A z : z \in Members(ranges) <=> \E r \in ranges : z \in Nat /\ r.lo <= z /\ z <= r.hi
  BY MembersAre DEF Tidy
<1>3. \A r, q \in ranges : r # q => r.hi + 1 < q.lo \/ q.hi + 1 < r.lo
  BY DEF Tidy, Compact
<1>4. ASSUME NEW r \in ranges PROVE r.lo \in starts
  <2>1. r.lo \in Members(ranges)
    BY <1>1, <1>2
  <2>2. ASSUME NEW q \in ranges, q.lo <= r.lo - 1, r.lo - 1 <= q.hi PROVE FALSE
    BY <1>1, <1>3, <2>2
  <2> QED
    BY <1>2, <2>1, <2>2
<1>5. ASSUME NEW n \in starts PROVE \E r \in ranges : r.lo = n
  <2>1. PICK r \in ranges : n \in Nat /\ r.lo <= n /\ n <= r.hi
    BY <1>2
  <2>2. n - 1 \notin Members(ranges)
    OBVIOUS
  <2>3. ~(r.lo <= n - 1)
    BY <1>1, <1>2, <2>1, <2>2
  <2> QED
    BY <1>1, <2>1, <2>3
<1>6. \A r, q \in ranges : r.lo = q.lo => r = q
  BY <1>1, <1>3
<1> HIDE DEF starts
<1>7. start \in Injection(ranges, starts)
  BY <1>4, <1>6 DEF Injection, IsInjective
<1>8. start \in Surjection(ranges, starts)
  BY <1>4, <1>5 DEF Surjection
<1>9. ExistsBijection(ranges, starts)
  BY <1>7, <1>8 DEF ExistsBijection, Bijection
<1> QED
  BY <1>9, FS_Bijection DEF Tidy, starts

LEMMA IsolatedIs ==
  ASSUME NEW ranges, Tidy(ranges), NEW n \in Nat, n >= 1, ~Covers(ranges, n)
  PROVE  Isolated(ranges, n) <=> {n - 1, n + 1} \cap Members(ranges) = {}
<1>1. \A r \in ranges : r.lo \in Nat /\ r.hi \in Nat /\ 1 <= r.lo /\ r.lo <= r.hi
  BY DEF Tidy, SequenceRange, Compact
<1>2. \A z : z \in Members(ranges) <=> \E r \in ranges : z \in Nat /\ r.lo <= z /\ z <= r.hi
  BY MembersAre DEF Tidy
<1>3. \A r \in ranges : r.hi < n \/ n < r.lo
  BY <1>1 DEF Covers
<1>4. n - 1 \in Members(ranges) <=> \E r \in ranges : r.hi = n - 1
  <2>1. \A r \in ranges : r.lo <= n - 1 /\ n - 1 <= r.hi => r.hi = n - 1
    BY <1>1, <1>3
  <2>2. \A r \in ranges : r.hi = n - 1 => n - 1 \in Nat /\ r.lo <= n - 1 /\ n - 1 <= r.hi
    BY <1>1
  <2> QED
    BY <1>2, <2>1, <2>2
<1>5. n + 1 \in Members(ranges) <=> \E r \in ranges : r.lo = n + 1
  <2>1. \A r \in ranges : r.lo <= n + 1 /\ n + 1 <= r.hi => r.lo = n + 1
    BY <1>1, <1>3
  <2>2. \A r \in ranges : r.lo = n + 1 => n + 1 \in Nat /\ r.lo <= n + 1 /\ n + 1 <= r.hi
    BY <1>1
  <2> QED
    BY <1>2, <2>1, <2>2
<1> QED
  BY <1>4, <1>5 DEF Isolated, LeftOf, RightOf

-----------------------------------------------------------------------------
(* What a write of stream s means for the account.                           *)
LEMMA AccountWritten ==
  ASSUME SequenceInv, NEW s \in Streams, NEW now \in Nat, NEW new, NEW row,
         ledger' = new, DOMAIN new = DOMAIN EnsureStream(ledger, s, now),
         \A x \in DOMAIN new : x # s => new[x] = EnsureStream(ledger, s, now)[x],
         s \in DOMAIN new => AccountOf(new[s]) = row
  PROVE  /\ DOMAIN new \in SUBSET (DOMAIN [x \in DOMAIN ledger |-> AccountOf(ledger[x])] \cup {s})
         /\ Account!Keeps(DOMAIN new, s)
         /\ Account!Becomes(DOMAIN new, s, row)
<1> DEFINE ensured == EnsureStream(ledger, s, now)
           acc == [x \in DOMAIN ledger |-> AccountOf(ledger[x])]
<1>1. /\ DOMAIN ledger \subseteq Streams /\ Cardinality(DOMAIN ledger) <= MaxStreams
      /\ \A x \in DOMAIN ledger : ledger[x].last \in Nat
  BY DEF SequenceInv, LedgerTold, RowTold, Row
<1>2. /\ DOMAIN ensured \subseteq DOMAIN ledger \cup {s}
      /\ \A x \in DOMAIN ensured : x # s => ensured[x] = ledger[x]
  BY <1>1, EnsureStreamKeeps
<1>3. \/ /\ DOMAIN ensured = DOMAIN ledger \cup {s}
         /\ Cardinality(DOMAIN ledger \cup {s}) <= MaxStreams
      \/ /\ Cardinality(DOMAIN ensured) = MaxStreams
         /\ Cardinality(DOMAIN ledger \cup {s}) > MaxStreams
  BY <1>1, EnsureStreamRoom
<1>4. DOMAIN acc = DOMAIN ledger
  OBVIOUS
<1> HIDE DEF ensured
<1>5. Account!Keeps(DOMAIN new, s)
  BY <1>2, <1>3, SameCardinality DEF Account!Keeps, ensured
<1>6. \A x \in DOMAIN new : x # s => x \in DOMAIN ledger /\ new[x] = ledger[x]
  BY <1>2 DEF ensured
<1>7. [x \in DOMAIN new |-> AccountOf(new[x])] =
        [x \in DOMAIN new |-> IF x = s THEN row ELSE acc[x]]
  BY <1>6
<1>8. Account!Becomes(DOMAIN new, s, row)
  BY <1>7 DEF Account!Becomes
<1> QED
  BY <1>2, <1>5, <1>8 DEF ensured

(* The account of an ensured row is what was known of its stream.            *)
LEMMA EnsuredIsKnown ==
  ASSUME SequenceInv, NEW s \in Streams, NEW now \in Nat,
         s \in DOMAIN EnsureStream(ledger, s, now)
  PROVE  AccountOf(EnsureStream(ledger, s, now)[s]) = Account!Known(s)
<1> DEFINE row == EnsureStream(ledger, s, now)[s]
<1>1. \A x \in DOMAIN ledger : ledger[x] \in Row
  BY DEF SequenceInv, LedgerTold, RowTold
<1>2. row = IF s \in DOMAIN ledger THEN [ledger[s] EXCEPT !.last = now] ELSE NewStream(now)
  <2>1. \A x \in DOMAIN ledger : ledger[x].last \in Nat
    BY <1>1 DEF Row
  <2> QED
    BY <2>1, EnsureStreamKeeps DEF SequenceInv, LedgerTold
<1> HIDE DEF row
<1>3. CASE s \in DOMAIN ledger
  <2>1. /\ row.ranges = ledger[s].ranges /\ row.received = ledger[s].received
        /\ row.maxReceived = ledger[s].maxReceived /\ row.maxReported = ledger[s].maxReported
        /\ row.duplicates = ledger[s].duplicates
    BY <1>1, <1>2, <1>3 DEF Row
  <2>2. AccountOf(row) = AccountOf(ledger[s])
    BY <2>1 DEF AccountOf, Highest
  <2> QED
    BY <1>3, <2>2 DEF Account!Known, row
<1>4. CASE s \notin DOMAIN ledger
  <2>1. /\ row.ranges = {} /\ row.received = 0 /\ row.maxReceived = 0 /\ row.maxReported = 0
        /\ row.duplicates = 0
    BY <1>2, <1>4 DEF NewStream
  <2>2. Highest(row) = 0 /\ Members(row.ranges) = {}
    BY <2>1 DEF Highest, Larger, Members
  <2>3. AccountOf(row) = [got |-> {}, received |-> 0, high |-> 0, duplicates |-> 0]
    BY <2>1, <2>2 DEF AccountOf
  <2> QED
    BY <1>4, <2>3 DEF Account!Known, Account!Empty, row
<1> QED
  BY <1>3, <1>4

LEMMA CommitEventAccounted ==
  ASSUME SequenceInv, NEW q \in serving, CommitEvent(q)
  PROVE  Account!Next
<1> DEFINE s == q.msg.stream
           n == q.msg.number
           ensured == EnsureStream(ledger, s, q.at)
           row == ensured[s]
           new == RecordEventSequence(ledger, s, n, q.at)
           known == Account!Known(s)
           acc == [x \in DOMAIN ledger |-> AccountOf(ledger[x])]
<1>1. /\ s \in Streams /\ n \in Nat /\ n \in 0..MaxSent /\ n >= 1 /\ q.at \in Nat
      /\ s \in DOMAIN ensured
      /\ ledger' = new
  BY DEF CommitEvent, RecordLedger, SequenceInv, RequestsOK, Message, SequenceRefused
<1>2. /\ DOMAIN new = DOMAIN ensured
      /\ \A x \in DOMAIN new : x # s => new[x] = ensured[x]
      /\ new[s] = CountEvent(row, n)
  BY <1>1 DEF RecordEventSequence
<1>3. AccountOf(row) = known
  BY <1>1, EnsuredIsKnown
<1>4. RowTold(row, stored[s], s \notin evicted)
  BY <1>1, EnsuredTells
<1>5. /\ row \in Row /\ Tidy(row.ranges) /\ row.ranges \in SUBSET SequenceRange
      /\ Cardinality(row.ranges) \in Nat
  BY <1>4, FS_CardinalityType DEF RowTold, Row, Tidy
<1> HIDE DEF ensured, new, row, s, n, known, acc
<1>6. /\ known.got = Members(row.ranges) /\ known.received = row.received
      /\ known.high = Highest(row) /\ known.duplicates = row.duplicates
      /\ known = [got |-> Members(row.ranges), received |-> row.received,
                  high |-> Highest(row), duplicates |-> row.duplicates]
  BY <1>3 DEF AccountOf
<1>7. Covers(row.ranges, n) <=> n \in known.got
  BY <1>1, <1>5, <1>6, CoversIsMember
<1>8. ASSUME NEW a, AccountOf(new[s]) = a
      PROVE  /\ DOMAIN new \in SUBSET (DOMAIN acc \cup {s})
             /\ Account!Keeps(DOMAIN new, s) /\ Account!Becomes(DOMAIN new, s, a)
  BY <1>1, <1>2, <1>8, AccountWritten DEF ensured, acc
<1>9. s \in DOMAIN new
  BY <1>1, <1>2
<1>10. CASE Covers(row.ranges, n)
  <2>1. new[s] = [row EXCEPT !.duplicates = @ + 1]
    BY <1>2, <1>10 DEF CountEvent
  <2>2. /\ new[s].ranges = row.ranges /\ new[s].received = row.received
        /\ new[s].maxReceived = row.maxReceived /\ new[s].maxReported = row.maxReported
        /\ new[s].duplicates = row.duplicates + 1
    BY <1>5, <2>1 DEF Row
  <2>3. AccountOf(new[s]) = [known EXCEPT !.duplicates = @ + 1]
    BY <1>6, <2>2 DEF AccountOf, Highest
  <2>4. /\ DOMAIN new \in SUBSET (DOMAIN acc \cup {s})
        /\ Account!Keeps(DOMAIN new, s) /\ Account!Duplicate(s, n, DOMAIN new)
    BY <1>7, <1>8, <1>9, <1>10, <2>3 DEF Account!Duplicate, known
  <2> QED
    BY <1>1, <2>4 DEF Account!Next, acc
<1>11. CASE ~Covers(row.ranges, n)
  <2> DEFINE ranges == IF DetailFull(row.ranges, n) THEN row.ranges ELSE AddToRanges(row.ranges, n)
             counted == Account!Counted(s, n, Members(ranges))
  <2>1. /\ new[s].ranges = ranges /\ new[s].received = row.received + 1
        /\ new[s].maxReceived = Larger(row.maxReceived, n)
        /\ new[s].maxReported = row.maxReported /\ new[s].duplicates = row.duplicates
    BY <1>2, <1>5, <1>11 DEF CountEvent, Row
  <2>2. Members(AddToRanges(row.ranges, n)) = Members(row.ranges) \cup {n}
    BY <1>1, <1>5, <1>11, AddToRangesKeeps
  <2>3. Highest(new[s]) = IF n > Highest(row) THEN n ELSE Highest(row)
    BY <1>1, <1>5, <2>1 DEF Highest, Larger, Row
  <2>4. Account!Highest(s, n) = Highest(new[s])
    BY <1>6, <2>3 DEF Account!Highest, known
  <2> HIDE DEF ranges
  <2>5. AccountOf(new[s]) = [got |-> Members(ranges), received |-> known.received + 1,
                             high |-> Account!Highest(s, n), duplicates |-> known.duplicates]
    BY <1>6, <2>1, <2>4 DEF AccountOf
  <2>6. AccountOf(new[s]) = counted
    BY <2>5 DEF Account!Counted, known
  <2>7. /\ DOMAIN new \in SUBSET (DOMAIN acc \cup {s})
        /\ Account!Keeps(DOMAIN new, s) /\ Account!Becomes(DOMAIN new, s, counted)
    BY <1>8, <2>6
  <2>8. Account!Untracked(s, n) <=> DetailFull(row.ranges, n)
    <3>1. Isolated(row.ranges, n) <=> {n - 1, n + 1} \cap known.got = {}
      BY <1>1, <1>5, <1>6, <1>11, IsolatedIs
    <3>2. Account!Runs(known.got) = Cardinality(row.ranges)
      BY <1>5, <1>6, RunsAreRanges, SameCardinality DEF Account!Runs
    <3> QED
      BY <3>1, <3>2 DEF Account!Untracked, DetailFull, known
  <2>9. CASE DetailFull(row.ranges, n)
    <3>1. Members(ranges) = known.got
      BY <1>6, <2>9 DEF ranges
    <3>2. Account!CountOnly(s, n, DOMAIN new)
      BY <1>7, <1>9, <1>11, <2>7, <2>8, <2>9, <3>1 DEF Account!CountOnly, known
    <3> QED
      BY <1>1, <2>7, <3>2 DEF Account!Next, acc
  <2>10. CASE ~DetailFull(row.ranges, n)
    <3>1. Members(ranges) = known.got \cup {n}
      BY <1>6, <2>2, <2>10 DEF ranges
    <3>2. Account!Deliver(s, n, DOMAIN new)
      BY <1>7, <1>9, <1>11, <2>7, <2>8, <2>10, <3>1 DEF Account!Deliver, known
    <3> QED
      BY <1>1, <2>7, <3>2 DEF Account!Next, acc
  <2> QED
    BY <2>9, <2>10
<1> QED
  BY <1>10, <1>11

LEMMA CommitHeartbeatAccounted ==
  ASSUME SequenceInv, NEW q \in serving, CommitHeartbeat(q)
  PROVE  Account!Next
<1> DEFINE s == q.msg.stream
           n == q.msg.number
           ensured == EnsureStream(ledger, s, q.at)
           row == ensured[s]
           new == RecordHeartbeatSequence(ledger, s, n, q.at)
           known == Account!Known(s)
           acc == [x \in DOMAIN ledger |-> AccountOf(ledger[x])]
           told == [known EXCEPT !.high = Account!Highest(s, n)]
<1>1. /\ s \in Streams /\ n \in 0..MaxSent /\ n \in Nat /\ q.at \in Nat
      /\ ledger' = new
  BY DEF CommitHeartbeat, RecordLedger, SequenceInv, RequestsOK, Message
<1>2. /\ DOMAIN new = DOMAIN ensured
      /\ \A x \in DOMAIN new : x # s => new[x] = ensured[x]
      /\ s \in DOMAIN ensured => new[s] = [row EXCEPT !.maxReported = Larger(@, n)]
  BY DEF RecordHeartbeatSequence
<1>3. s \in DOMAIN ensured => AccountOf(row) = known /\ row \in Row
  <2>1. s \in DOMAIN ensured => RowTold(row, stored[s], s \notin evicted)
    BY <1>1, EnsuredTells
  <2> QED
    BY <1>1, <2>1, EnsuredIsKnown DEF RowTold
<1> HIDE DEF ensured, new, row, s, n, known, acc, told
<1>4. ASSUME s \in DOMAIN new PROVE AccountOf(new[s]) = told
  <2>1. s \in DOMAIN ensured /\ row \in Row /\ AccountOf(row) = known
    BY <1>2, <1>3, <1>4
  <2>2. /\ new[s].ranges = row.ranges /\ new[s].received = row.received
        /\ new[s].maxReceived = row.maxReceived
        /\ new[s].maxReported = Larger(row.maxReported, n)
        /\ new[s].duplicates = row.duplicates
    BY <1>2, <2>1 DEF Row
  <2>3. Highest(new[s]) = IF n > Highest(row) THEN n ELSE Highest(row)
    BY <1>1, <2>1, <2>2 DEF Highest, Larger, Row
  <2>4. /\ known.got = Members(row.ranges) /\ known.received = row.received
        /\ known.high = Highest(row) /\ known.duplicates = row.duplicates
        /\ known = [got |-> Members(row.ranges), received |-> row.received,
                    high |-> Highest(row), duplicates |-> row.duplicates]
    BY <2>1 DEF AccountOf
  <2>5. Account!Highest(s, n) = Highest(new[s])
    BY <2>3, <2>4 DEF Account!Highest, known
  <2> QED
    BY <2>2, <2>4, <2>5 DEF AccountOf, told
<1>5. /\ DOMAIN new \in SUBSET (DOMAIN acc \cup {s})
      /\ Account!Keeps(DOMAIN new, s) /\ Account!Becomes(DOMAIN new, s, told)
  BY <1>1, <1>2, <1>4, AccountWritten DEF ensured, acc
<1>6. Account!Report(s, n, DOMAIN new)
  BY <1>5 DEF Account!Report, told, known
<1> QED
  BY <1>1, <1>5, <1>6 DEF Account!Next, acc

(* The tables of ranges, with their evictions and their limits, implement    *)
(* the account of OPERATIONS.md that keeps sets of numbers.                  *)
THEOREM TablesImplementAccount == Spec => ImplementsAccount
<1> DEFINE acc == [s \in DOMAIN ledger |-> AccountOf(ledger[s])]
<1>1. Init => Account!Init
  BY DEF Init, Account!Init
<1>2. SequenceInv /\ [Next]_vars => [Account!Next]_acc
  <2> SUFFICES ASSUME SequenceInv, [Next]_vars PROVE [Account!Next]_acc
    OBVIOUS
  <2>1. CASE \E q \in serving : CommitEvent(q)
    BY <2>1, CommitEventAccounted
  <2>2. CASE \E q \in serving : CommitHeartbeat(q)
    BY <2>2, CommitHeartbeatAccounted
  <2>3. CASE Emit \/ Reuse \/ Beat \/ Restart \/ UNCHANGED vars
    BY <2>3 DEF Emit, Reuse, Beat, Restart, vars
  <2>4. CASE \/ \E m \in net : Lose(m) \/ Stamp(m)
             \/ \E q \in serving : RefuseEvent(q)
    BY <2>4 DEF Lose, Stamp, RefuseEvent
  <2> QED
    BY <2>1, <2>2, <2>3, <2>4 DEF Next
<1> QED
  BY <1>1, <1>2, SequenceInvariant, PTL DEF Spec, ImplementsAccount, Account!Spec
=============================================================================
