-------------------------- MODULE EventStoreProofs --------------------------
(***************************************************************************)
(* Proofs about EventStore, for any number of threads, worker processes,   *)
(* offered events, limits and bounds.                                      *)
(***************************************************************************)
EXTENDS EventStore, TLAPS, WellFoundedInduction, FiniteSetTheorems

Columns == {"id", "ts", "received", "session", "stream", "number", "body",
            "copies", "seq", "prev", "hash"}

(* A non-empty set of natural numbers has a least element. *)
LEMMA LeastNumber ==
  ASSUME NEW S \in SUBSET Nat, S # {}
  PROVE  \E x \in S : \A y \in S : x <= y
<1>1. PICK x \in S : \A y \in S : ~ (<<y, x>> \in OpToRel(<, Nat))
  BY NatLessThanWellFounded, WFMin, Zenon
<1>2. \A y \in S : ~ (y < x)
  BY <1>1, Zenon DEF OpToRel
<1> QED
  BY <1>2

(* A non-empty set of numbers below a bound has a greatest one. *)
LEMMA GreatestNumber ==
  ASSUME NEW n \in Nat, NEW S \in SUBSET (0..n), S # {}
  PROVE  \E x \in S : \A y \in S : y <= x
<1> DEFINE T == {n - x : x \in S}
<1>1. T \in SUBSET Nat /\ T # {}
  <2>1. \A x \in S : n - x \in Nat
    OBVIOUS
  <2>2. PICK x \in S : TRUE
    OBVIOUS
  <2>3. n - x \in T
    OBVIOUS
  <2>4. ASSUME NEW t \in T PROVE t \in Nat
    <3>1. PICK y \in S : t = n - y
      OBVIOUS
    <3> QED
      BY <3>1, <2>1
  <2> HIDE DEF T
  <2> QED
    BY <2>3, <2>4
<1>2. PICK t \in T : \A u \in T : t <= u
  BY <1>1, LeastNumber
<1>3. PICK x \in S : t = n - x
  OBVIOUS
<1>4. ASSUME NEW y \in S PROVE y <= x
  <2>1. n - y \in T
    OBVIOUS
  <2>2. t <= n - y
    BY <1>2, <2>1
  <2> QED
    BY <1>3, <2>2
<1> QED
  BY <1>4

-----------------------------------------------------------------------------
(* The log is a sequence of rows that have all their columns. *)
LogShape ==
  /\ \E Rows : log \in Seq(Rows)
  /\ \A i \in 1..Len(log) : DOMAIN log[i] = Columns

(* Rows of the log, each at most once, altered in body and copies at most. *)
Genuine(rows) ==
  /\ \A r \in rows :
       /\ r = [c \in Columns |-> r[c]]
       /\ r.seq \in 1..Len(log)
       /\ AsCommitted(r) = log[r.seq]
  /\ \A q, r \in rows : q.seq = r.seq => q = r

ChainInv == LogShape /\ LinearLog /\ HeadIsLast /\ Genuine(events)

(* The program begins with an empty chain. *)
LEMMA ChainInit == Init => ChainInv
<1> SUFFICES ASSUME Init PROVE ChainInv
  OBVIOUS
<1>1. log \in Seq({}) /\ Len(log) = 0
  BY DEF Init
<1> QED
  BY <1>1 DEF Init, ChainInv, LogShape, LinearLog, HeadIsLast, Genuine

(* Deleting rows, and leaving the store alone, keep the chain. *)
LEMMA ChainShrinks ==
  ASSUME ChainInv, events' \subseteq events, UNCHANGED <<head, log>>
  PROVE  ChainInv'
BY DEF ChainInv, LogShape, LinearLog, HeadIsLast, Genuine

(* A log that only grows keeps every row it has. *)
LEMMA LogGrows ==
  ASSUME LogShape, NEW row, log' = Append(log, row)
  PROVE  /\ Len(log) \in Nat /\ Len(log') = Len(log) + 1
         /\ log'[Len(log) + 1] = row
         /\ \A i \in 1..Len(log) : i \in 1..Len(log') /\ log'[i] = log[i]
         /\ \E Rows : log' \in Seq(Rows)
<1>1. PICK Rows : log \in Seq(Rows)
  BY DEF LogShape
<1>2. log' \in Seq(Rows \cup {row})
  BY <1>1
<1> QED
  BY <1>1, <1>2

LEMMA GenuineStays ==
  ASSUME LogShape, NEW row, log' = Append(log, row), NEW rows, NEW new,
         Genuine(rows), new = rows
  PROVE  /\ \A r \in new :
              /\ r = [c \in Columns |-> r[c]]
              /\ r.seq \in 1..Len(log')
              /\ AsCommitted(r) = log'[r.seq]
         /\ \A q, r \in new : q.seq = r.seq => q = r
<1>1. \A r \in rows : log'[r.seq] = log[r.seq] /\ r.seq \in 1..Len(log')
  BY LogGrows DEF Genuine
<1> QED
  BY <1>1 DEF Genuine

(* A row that nobody has altered is what was committed.                      *)
LEMMA CommittedIsItself ==
  ASSUME NEW row, row = [c \in Columns |-> row[c]],
         row.body = "original", row.copies = "original"
  PROVE  AsCommitted(row) = row
BY DEF AsCommitted, Columns

(* An ingest transaction appends the row that the head calls for. *)
LEMMA ChainGrows ==
  ASSUME ChainInv, NEW event, NEW received, NEW id, Commit(event, received, id)
  PROVE  ChainInv'
<1> DEFINE row == Chained(head, RowOf(event, received, id))
<1> DEFINE n == Len(log)
<1>1. log' = Append(log, row) /\ events' = events \cup {row}
      /\ head' = HeadAfter(head, RowOf(event, received, id))
  BY DEF Commit
<1>2. LogShape
  BY DEF ChainInv
<1>3. /\ n \in Nat /\ Len(log') = n + 1 /\ log'[n + 1] = row
      /\ \A i \in 1..n : log'[i] = log[i]
      /\ \E Rows : log' \in Seq(Rows)
  BY <1>1, <1>2, LogGrows
<1>4. head.seq = n /\ head.hash = IF n = 0 THEN GenesisHash ELSE log[n].hash
  BY <1>3 DEF ChainInv, HeadIsLast, GenesisHead
<1>5. /\ DOMAIN row = Columns /\ row = [c \in Columns |-> row[c]]
      /\ row.seq = n + 1
      /\ row.body = "original" /\ row.copies = "original"
      /\ row.prev = head.hash
      /\ row.hash = RecordHash(n + 1, row.prev, HashedColumns(row))
  BY <1>4 DEF Chained, RowOf, Columns, HashedColumns
<1>6. head' = [seq |-> n + 1, hash |-> row.hash]
  BY <1>1, <1>4 DEF HeadAfter, Chained
<1> HIDE DEF row
<1>11. AsCommitted(row) = row
  BY <1>5, CommittedIsItself
<1>7. LogShape'
  BY <1>2, <1>3, <1>5 DEF LogShape
<1>8. LinearLog'
  <2> SUFFICES ASSUME NEW i \in 1..Len(log')
               PROVE  /\ log'[i].seq = i
                      /\ log'[i].body = "original" /\ log'[i].copies = "original"
                      /\ log'[i].prev = IF i = 1 THEN GenesisHash ELSE log'[i - 1].hash
                      /\ log'[i].hash = RecordHash(i, log'[i].prev, HashedColumns(log'[i]))
    BY DEF LinearLog
  <2>1. CASE i \in 1..n
    <3>1. i = 1 \/ i - 1 \in 1..n
      BY <2>1, <1>3
    <3> QED
      BY <2>1, <3>1, <1>3 DEF ChainInv, LinearLog
  <2>2. CASE i = n + 1
    <3>1. n = 0 \/ log'[n] = log[n]
      BY <1>3
    <3> QED
      BY <2>2, <3>1, <1>3, <1>4, <1>5
  <2> QED
    BY <2>1, <2>2, <1>3
<1>9. HeadIsLast'
  BY <1>3, <1>6 DEF HeadIsLast
<1>10. Genuine(events)'
  <2>1. \A r \in events : r.seq \in 1..n
    BY DEF ChainInv, Genuine
  <2>2. /\ \A r \in events :
             /\ r = [c \in Columns |-> r[c]]
             /\ r.seq \in 1..Len(log')
             /\ AsCommitted(r) = log'[r.seq]
        /\ \A q, r \in events : q.seq = r.seq => q = r
    BY <1>1, <1>2, GenuineStays DEF ChainInv
  <2>3. /\ row.seq \in 1..Len(log')
        /\ AsCommitted(row) = log'[row.seq]
    BY <1>3, <1>5, <1>11
  <2>4. \A r \in events : r.seq # row.seq
    BY <2>1, <1>3, <1>5
  <2> QED
    BY <1>1, <1>5, <2>2, <2>3, <2>4 DEF Genuine
<1> QED
  BY <1>7, <1>8, <1>9, <1>10 DEF ChainInv

(* A row rewritten out of band, with what stays of it.                       *)
Edited(row, columns) == [row EXCEPT ![columns] = "edited"]

LEMMA EditedRow ==
  ASSUME EditRow
  PROVE  \E row \in events, columns \in {"body", "copies"} :
           events' = (events \ {row}) \cup {Edited(row, columns)}
BY DEF EditRow, Edited

LEMMA EditedKeeps ==
  ASSUME NEW row, row = [c \in Columns |-> row[c]], NEW columns \in {"body", "copies"}
  PROVE  /\ Edited(row, columns) = [c \in Columns |-> Edited(row, columns)[c]]
         /\ AsCommitted(Edited(row, columns)) = AsCommitted(row)
         /\ \A c \in Columns \ {"body", "copies"} : Edited(row, columns)[c] = row[c]
         /\ {row.body, row.copies} \subseteq {"original", "edited"} =>
              {Edited(row, columns).body, Edited(row, columns).copies}
                \subseteq {"original", "edited"}
BY DEF Edited, AsCommitted, Columns

(* Rewriting a row leaves it the row of its number otherwise. *)
LEMMA ChainEdited == ASSUME ChainInv, EditRow PROVE ChainInv'
<1>1. PICK row \in events, columns \in {"body", "copies"} :
        events' = (events \ {row}) \cup {Edited(row, columns)}
  BY EditedRow
<1>2. UNCHANGED <<head, log>>
  BY DEF EditRow
<1> DEFINE edited == Edited(row, columns)
<1>3. /\ row = [c \in Columns |-> row[c]]
      /\ row.seq \in 1..Len(log)
      /\ AsCommitted(row) = log[row.seq]
      /\ \A q \in events : q.seq = row.seq => q = row
  BY DEF ChainInv, Genuine
<1>4. /\ edited = [c \in Columns |-> edited[c]]
      /\ AsCommitted(edited) = AsCommitted(row)
      /\ \A c \in Columns \ {"body", "copies"} : edited[c] = row[c]
  BY <1>3, EditedKeeps
<1>5. edited.seq = row.seq
  BY <1>4 DEF Columns
<1>6. events' = (events \ {row}) \cup {edited}
  BY <1>1
<1> HIDE DEF edited
<1>7. ASSUME NEW r \in events'
      PROVE  /\ r = [c \in Columns |-> r[c]]
             /\ r.seq \in 1..Len(log)
             /\ AsCommitted(r) = log[r.seq]
  <2>1. CASE r = edited
    BY <2>1, <1>3, <1>4, <1>5
  <2>2. CASE r \in events
    BY <2>2 DEF ChainInv, Genuine
  <2> QED
    BY <2>1, <2>2, <1>6
<1>8. \A q, r \in events' : q.seq = r.seq => q = r
  BY <1>3, <1>5, <1>6 DEF ChainInv, Genuine
<1> QED
  BY <1>2, <1>7, <1>8 DEF ChainInv, LogShape, LinearLog, HeadIsLast, Genuine

(* Counting touches the counter of the process, and the thread that counts.  *)
LEMMA CountingKeeps ==
  ASSUME NEW t \in Threads, CountIngest(t)
  PROVE  UNCHANGED <<store, clock, req, verifier, restarts, faults, edits, runs, rejected>>
BY DEF CountIngest, ReadCounter, WriteCounter, CheckCounter, ResetCounter

(* Every other step only deletes rows, or leaves the store alone. *)
LEMMA ChainStep == ASSUME ChainInv, [Next]_vars PROVE ChainInv'
<1>1. ASSUME NEW t \in Threads, Ingest(t) PROVE ChainInv'
  BY <1>1, ChainGrows DEF Ingest
<1>2. CASE EditRow
  BY <1>2, ChainEdited
<1>3. ASSUME NEW rows \in SUBSET events, Keep(rows) PROVE ChainInv'
  BY <1>3, ChainShrinks DEF Keep
<1>4. CASE DeleteRow
  BY <1>4, ChainShrinks DEF DeleteRow
<1>5. CASE UNCHANGED store
  BY <1>5, ChainShrinks DEF store
<1>6. ASSUME NEW t \in Threads, Serve(t) PROVE ChainInv'
  BY <1>6, <1>1, <1>5, CountingKeeps
     DEF Serve, Receive, RejectDuplicate, FailIngest, Finish, FailUpkeep
<1>7. ASSUME NEW a \in Actors, Maintain(a) PROVE ChainInv'
  <2>1. CASE Retention(a)
    BY <2>1, <1>3, <1>5 DEF Retention
  <2>2. CASE CountOverflow(a)
    BY <2>2, <1>5 DEF CountOverflow
  <2>3. CASE DeleteOverflow(a)
    BY <2>3, <1>3 DEF DeleteOverflow
  <2> QED
    BY <1>7, <2>1, <2>2, <2>3 DEF Maintain
<1>8. ASSUME NEW p \in Processes, Restart(p) PROVE ChainInv'
  BY <1>8, <1>5 DEF Restart
<1>9. CASE Tick \/ VerifyWalk \/ VerifyHead
  BY <1>9, <1>5 DEF Tick, VerifyWalk, VerifyHead
<1>10. CASE UNCHANGED vars
  BY <1>10, <1>5 DEF vars, store
<1> QED
  BY <1>2, <1>4, <1>6, <1>7, <1>8, <1>9, <1>10 DEF Next

(***************************************************************************)
(* No interleaving of ingests, maintenance, restarts and out-of-band edits *)
(* forks the chain or leaves a row that was not committed under its number *)
(* (event_chain.py: append_record inside the ingest transaction).          *)
(***************************************************************************)
THEOREM ChainIsLinear == Spec => []LinearChain
<1>1. ChainInv /\ [Next]_vars => ChainInv'
  BY ChainStep
<1>2. ChainInv => LinearChain
  BY DEF ChainInv, LinearChain, RowsFromLog, Genuine
<1> QED
  BY <1>1, <1>2, ChainInit, PTL DEF Spec

-----------------------------------------------------------------------------
(* What a clean walk and a matching head say of any set of rows of the log. *)
LEMMA IntactStretch ==
  ASSUME LogShape, LinearLog, HeadIsLast,
         NEW rows, Genuine(rows), ChainOK(rows, head)
  PROVE  \E k \in 1..(Len(log) + 1) : AsHashedAll(rows) = Stretch(k, Len(log))
<1> DEFINE n == Len(log)
<1>1. n \in Nat /\ head.seq = n
  BY DEF LogShape, HeadIsLast, GenesisHead
<1>2. ASSUME NEW r \in rows PROVE r.seq \in 1..n /\ AsHashed(r) = log[r.seq]
  <2>1. /\ r = [c \in Columns |-> r[c]]
        /\ r.seq \in 1..n
        /\ AsCommitted(r) = log[r.seq]
    BY DEF Genuine
  <2>2. r.hash = RecordHash(r.seq, r.prev, HashedColumns(r))
    BY DEF ChainOK, WalkOK, HashMismatches
  <2>3. /\ log[r.seq].body = "original"
        /\ log[r.seq].hash =
             RecordHash(r.seq, log[r.seq].prev, HashedColumns(log[r.seq]))
    BY <2>1 DEF LinearLog
  <2>4. log[r.seq].hash = r.hash
    BY <2>1 DEF Columns, AsCommitted
  <2>5. HashedColumns(r) = HashedColumns(log[r.seq])
    BY <2>2, <2>3, <2>4 DEF RecordHash
  <2>6. r.body = "original"
    BY <2>3, <2>5 DEF HashedColumns
  <2>7. AsHashed(r) = AsCommitted(r)
    BY <2>1, <2>6 DEF Columns, AsHashed, AsCommitted
  <2> QED
    BY <2>1, <2>7
<1>3. CASE rows = {}
  <2>1. n = 0
    BY <1>1, <1>3 DEF ChainOK, HeadOK
  <2>2. Stretch(1, n) = {} /\ AsHashedAll(rows) = {}
    BY <1>3, <2>1 DEF Stretch, AsHashedAll
  <2> QED
    BY <2>1, <2>2
<1>4. CASE rows # {}
  <2> DEFINE numbers(q) == {r.seq : r \in q}
  <2>1. numbers(rows) # {} /\ numbers(rows) \in SUBSET Nat
        /\ numbers(rows) \in SUBSET (0..n)
    BY <1>1, <1>2, <1>4
  <2>2. PICK k \in numbers(rows) : \A x \in numbers(rows) : k <= x
    BY <2>1, LeastNumber
  <2>3. PICK m \in numbers(rows) : \A x \in numbers(rows) : x <= m
    BY <1>1, <2>1, GreatestNumber
  <2>4. k \in 1..n /\ m \in 1..n
    BY <1>2
  <2>5. PICK newest \in rows : newest.seq = m
    OBVIOUS
  <2>6. newest \in Last(rows)
    BY <2>3, <2>5 DEF Last
  <2>7. m = n
    BY <1>1, <1>4, <2>4, <2>5, <2>6 DEF ChainOK, HeadOK
  <2>8. k..n \subseteq numbers(rows)
    <3> DEFINE Absent == (k..n) \ numbers(rows)
    <3> SUFFICES ASSUME Absent # {} PROVE FALSE
      OBVIOUS
    <3>1. Absent \in SUBSET (0..n)
      BY <2>4
    <3>2. PICK j \in Absent : \A x \in Absent : x <= j
      BY <1>1, <3>1, GreatestNumber
    <3>3. j \in k..n /\ j # n /\ j # k /\ j \notin numbers(rows)
      BY <2>7
    <3>4. j + 1 \in k..n /\ j + 1 \in numbers(rows)
      BY <1>1, <2>4, <3>2, <3>3
    <3>5. PICK after \in rows : after.seq = j + 1
      BY <3>4
    <3> DEFINE below == {q \in rows : q.seq < j + 1}
    <3>6. numbers(below) # {} /\ numbers(below) \in SUBSET (0..n)
      <4>1. PICK oldest \in rows : oldest.seq = k
        OBVIOUS
      <4>2. oldest \in below
        BY <2>4, <3>3, <4>1
      <4>3. \A q \in below : q.seq \in 0..n
        BY <1>2
      <4> QED
        BY <4>2, <4>3
    <3>7. PICK b \in numbers(below) : \A x \in numbers(below) : x <= b
      BY <1>1, <3>6, GreatestNumber
    <3>8. PICK q \in below : q.seq = b
      OBVIOUS
    <3>9. q \in Before(rows, after)
      BY <3>5, <3>7, <3>8 DEF Before, Last
    <3>10. q.seq + 1 = j + 1
      BY <3>5, <3>9 DEF ChainOK, WalkOK, SequenceGaps
    <3>11. q.seq = j
      BY <1>2, <3>3, <3>8, <3>10
    <3> QED
      BY <3>3, <3>8, <3>11
  <2>9. numbers(rows) = k..n
    <3>1. \A x \in numbers(rows) : x \in k..n
      BY <1>1, <2>1, <2>2, <2>3, <2>4, <2>7
    <3> QED
      BY <2>8, <3>1
  <2>10. AsHashedAll(rows) = Stretch(k, n)
    <3>1. \A r \in rows : r.seq \in k..n /\ AsHashed(r) = log[r.seq]
      BY <1>2, <2>9
    <3>2. \A i \in k..n : \E r \in rows : r.seq = i
      BY <2>9
    <3>3. AsHashedAll(rows) \subseteq Stretch(k, n)
      BY <3>1 DEF Stretch, AsHashedAll
    <3>4. ASSUME NEW i \in k..n PROVE log[i] \in AsHashedAll(rows)
      <4>1. PICK r \in rows : r.seq = i
        BY <3>2
      <4>2. AsHashed(r) = log[i]
        BY <3>1, <4>1
      <4> QED
        BY <4>2 DEF AsHashedAll
    <3>5. Stretch(k, n) \subseteq AsHashedAll(rows)
      BY <3>4 DEF Stretch
    <3> QED
      BY <3>3, <3>5
  <2>11. k \in 1..(n + 1)
    BY <1>1, <2>4
  <2> QED
    BY <2>10, <2>11
<1> QED
  BY <1>3, <1>4

(***************************************************************************)
(* Tamper evidence: whenever the stored rows verify, they are a stretch of *)
(* the committed history that ends at its newest record, whatever pruning, *)
(* edits and deletions came before (event_chain.py: verify_chain).         *)
(***************************************************************************)
THEOREM VerifiedIsIntact == Spec => []VerifiedMeansIntact
<1>1. ChainInv /\ [Next]_vars => ChainInv'
  BY ChainStep
<1>2. ChainInv => VerifiedMeansIntact
  BY IntactStretch DEF ChainInv, VerifiedMeansIntact
<1> QED
  BY <1>1, <1>2, ChainInit, PTL DEF Spec

-----------------------------------------------------------------------------
(* The rows of a walk stay rows of the log while ingests go on. *)
VerdictInv ==
  /\ ChainInv
  /\ verifier.pc # "idle" => Genuine(verifier.rows)
  /\ IntactVerdict

LEMMA VerdictStays ==
  ASSUME VerdictInv, ChainInv', UNCHANGED <<verifier, log>>
  PROVE  VerdictInv'
<1>1. verifier.pc # "idle" => Genuine(verifier.rows)'
  BY DEF VerdictInv, Genuine
<1>2. \A k, n : Stretch(k, n)' = Stretch(k, n)
  BY DEF Stretch
<1>3. IntactVerdict'
  <2>1. IntactVerdict
    BY DEF VerdictInv
  <2>2. AsHashedAll(verifier.rows)' = AsHashedAll(verifier.rows)
    BY DEF AsHashedAll
  <2> QED
    BY <1>2, <2>1, <2>2 DEF IntactVerdict
<1> QED
  BY <1>1, <1>3 DEF VerdictInv

LEMMA VerdictGrows ==
  ASSUME VerdictInv, ChainInv', UNCHANGED verifier,
         NEW row, log' = Append(log, row)
  PROVE  VerdictInv'
<1>1. LogShape
  BY DEF VerdictInv, ChainInv
<1>2. verifier.pc # "idle" => Genuine(verifier.rows)'
  BY <1>1, GenuineStays DEF VerdictInv, Genuine
<1>3. IntactVerdict'
  <2> SUFFICES ASSUME verifier.pc = "intact"
               PROVE  \E n \in 0..Len(log') : \E k \in 1..(n + 1) :
                        AsHashedAll(verifier.rows) = Stretch(k, n)'
    BY DEF IntactVerdict
  <2>1. PICK n \in 0..Len(log) : \E k \in 1..(n + 1) : AsHashedAll(verifier.rows) = Stretch(k, n)
    BY DEF VerdictInv, IntactVerdict
  <2>2. PICK k \in 1..(n + 1) : AsHashedAll(verifier.rows) = Stretch(k, n)
    BY <2>1
  <2>3. \A i \in k..n : log'[i] = log[i]
    BY <1>1, LogGrows
  <2>4. Stretch(k, n)' = Stretch(k, n)
    BY <2>3 DEF Stretch
  <2>5. n \in 0..Len(log')
    BY <1>1, LogGrows
  <2> QED
    BY <2>2, <2>4, <2>5
<1> QED
  BY <1>2, <1>3 DEF VerdictInv

LEMMA VerdictStep == ASSUME VerdictInv, [Next]_vars PROVE VerdictInv'
<1>1. ChainInv'
  BY ChainStep DEF VerdictInv
<1>2. ASSUME NEW t \in Threads, Ingest(t) PROVE VerdictInv'
  BY <1>1, <1>2, VerdictGrows DEF Ingest, Commit
<1>3. ASSUME UNCHANGED <<verifier, log>> PROVE VerdictInv'
  BY <1>1, <1>3, VerdictStays
<1>4. ASSUME NEW t \in Threads, Serve(t) PROVE VerdictInv'
  BY <1>2, <1>3, <1>4, CountingKeeps
     DEF Serve, Receive, RejectDuplicate, FailIngest, Finish, FailUpkeep, store
<1>5. ASSUME NEW a \in Actors, Maintain(a) PROVE VerdictInv'
  BY <1>3, <1>5 DEF Maintain, Retention, CountOverflow, DeleteOverflow, Keep, store
<1>6. CASE (\E p \in Processes : Restart(p)) \/ Tick \/ EditRow \/ DeleteRow
  BY <1>3, <1>6 DEF Restart, Tick, EditRow, DeleteRow, store
<1>7. CASE VerifyWalk
  <2>1. verifier' = [pc |-> "walked", rows |-> events] /\ UNCHANGED log
    BY <1>7 DEF VerifyWalk, store
  <2>2. Genuine(verifier.rows)'
    BY <2>1 DEF VerdictInv, ChainInv, Genuine
  <2> QED
    BY <1>1, <2>1, <2>2 DEF VerdictInv, IntactVerdict
<1>8. CASE VerifyHead
  <2>1. /\ verifier.pc = "walked" /\ UNCHANGED log
        /\ verifier'.rows = verifier.rows
        /\ verifier'.pc = "intact" => ChainOK(verifier.rows, head)
    BY <1>8 DEF VerifyHead, store
  <2>2. Genuine(verifier.rows)
    BY <2>1 DEF VerdictInv
  <2>3. ChainOK(verifier.rows, head) =>
          \E k \in 1..(Len(log) + 1) : AsHashedAll(verifier.rows) = Stretch(k, Len(log))
    BY <2>2, IntactStretch DEF VerdictInv, ChainInv
  <2>4. Len(log) \in Nat
    BY DEF VerdictInv, ChainInv, LogShape
  <2>5. IntactVerdict'
    <3> SUFFICES ASSUME verifier'.pc = "intact"
                 PROVE  \E n \in 0..Len(log) : \E k \in 1..(n + 1) :
                          AsHashedAll(verifier.rows) = Stretch(k, n)
      BY <2>1 DEF IntactVerdict, Stretch
    <3>1. Len(log) \in 0..Len(log)
      BY <2>4
    <3> QED
      BY <2>1, <2>3, <3>1
  <2>6. Genuine(verifier.rows)'
    BY <2>1, <2>2 DEF Genuine
  <2> QED
    BY <1>1, <2>5, <2>6 DEF VerdictInv
<1>9. CASE UNCHANGED vars
  BY <1>3, <1>9 DEF vars
<1> QED
  BY <1>4, <1>5, <1>6, <1>7, <1>8, <1>9 DEF Next

(***************************************************************************)
(* The verdict "intact" of a verifier that reads rows and head apart, with *)
(* ingests in between, is about an unaltered stretch of the history too    *)
(* (event_chain.py: verify_chain, scripts/verify_integrity.py).            *)
(***************************************************************************)
THEOREM VerdictIsIntact == Spec => []IntactVerdict
<1>1. Init => VerdictInv
  BY ChainInit DEF Init, Resting, VerdictInv, IntactVerdict
<1>2. VerdictInv /\ [Next]_vars => VerdictInv'
  BY VerdictStep
<1>3. VerdictInv => IntactVerdict
  BY DEF VerdictInv
<1> QED
  BY <1>1, <1>2, <1>3, PTL DEF Spec

-----------------------------------------------------------------------------
(* Counting the overflow needs a finite table; row numbers need the chain. *)
TypeInv == TypeOK /\ ChainInv /\ IsFiniteSet(events)

Session == [started : Nat, last : Nat, count : Nat]

(* The rows of the events table have numbers of the log and its bodies. *)
LEMMA RowTypes ==
  ASSUME ChainInv
  PROVE  /\ \A row \in events : row.seq \in Nat
         /\ head.seq \in Nat
<1>1. Len(log) \in Nat
  BY DEF ChainInv, LogShape
<1>2. head.seq \in Nat
  BY <1>1 DEF ChainInv, HeadIsLast, GenesisHead
<1>3. \A row \in events : row.seq \in 1..Len(log)
  BY Zenon DEF ChainInv, Genuine
<1> QED
  BY <1>1, <1>2, <1>3

(* Joining or opening a session keeps the table's rows well formed. *)
LEMMA SessionTypes ==
  ASSUME NEW tbl, NEW event, event.ts \in Nat, NEW id,
         \A s \in DOMAIN tbl : tbl[s] \in Session
  PROVE  \A s \in DOMAIN WithEvent(tbl, event, id) :
           WithEvent(tbl, event, id)[s] \in Session
<1> DEFINE new == WithEvent(tbl, event, id)
<1>1. CASE ~Joins(tbl, event, id)
  <2>1. new = [x \in DOMAIN tbl \cup {id} |->
                 IF x = id THEN NewSession(event) ELSE tbl[x]]
    BY <1>1 DEF WithEvent, Opened
  <2>2. NewSession(event) \in Session
    BY DEF NewSession, Session
  <2> QED
    BY <2>1, <2>2
<1>2. CASE Joins(tbl, event, id)
  <2> DEFINE joined(s) ==
        [started |-> IF event.token # NoToken /\ event.ts < s.started
                     THEN event.ts ELSE s.started,
         last    |-> IF event.ts > s.last THEN event.ts ELSE s.last,
         count   |-> s.count + 1]
  <2>1. new = [tbl EXCEPT ![id] = joined(tbl[id])]
    BY <1>2 DEF WithEvent
  <2>2. \A s \in Session : joined(s) \in Session
    BY DEF Session
  <2> HIDE DEF joined, new
  <2>3. \A s \in DOMAIN new : s \in DOMAIN tbl /\ new[s] = IF s = id THEN joined(tbl[s]) ELSE tbl[s]
    BY <2>1
  <2> QED
    BY <2>2, <2>3 DEF new
<1> QED
  BY <1>1, <1>2

(* What a request, a maintenance run and the table have for types. *)
RequestOK ==
  req \in [Threads -> {Idle} \cup
             [pc : {"received", "stored"}, event : Offered, at : Nat]]

Upkeep == [step : Steps, seen : Nat, overflow : Nat]

UpkeepOK ==
  /\ since \in [Processes -> Nat] /\ missed \in Nat
  /\ upkeep \in [Actors -> Upkeep]

TableOK ==
  /\ IsFiniteSet(events)
  /\ \A row \in events : {row.body, row.copies} \subseteq {"original", "edited"}
  /\ \A s \in DOMAIN sessions : sessions[s] \in Session

RestOK ==
  /\ verifier.pc \in {"idle", "walked", "intact", "problems"}
  /\ clock \in Nat /\ {restarts, faults, edits, runs} \subseteq Nat

LEMMA TypeParts ==
  ASSUME ChainInv
  PROVE  TypeInv <=> RequestOK /\ UpkeepOK /\ TableOK /\ RestOK
BY RowTypes DEF TypeInv, TypeOK, RequestOK, UpkeepOK, TableOK, RestOK, Session, Upkeep

LEMMA RequestStep ==
  ASSUME RequestOK, UpkeepOK, TableOK, RestOK, [Next]_vars
  PROVE  RequestOK'
<1> USE DEF RequestOK
<1>1. ASSUME NEW t \in Threads, NEW event, NEW code, Answer(t, event, code)
      PROVE  RequestOK'
  BY <1>1 DEF Answer
<1>2. ASSUME NEW t \in Threads, Receive(t) PROVE RequestOK'
  <2>1. PICK event \in Offered :
          \/ Answer(t, event, 422)
          \/ req' = [req EXCEPT ![t] =
                      [pc |-> "received", event |-> event, at |-> clock + 1]]
    BY <1>2 DEF Receive
  <2>2. clock + 1 \in Nat
    BY DEF RestOK
  <2> QED
    BY <1>1, <2>1, <2>2
<1>3. ASSUME NEW t \in Threads, Ingest(t) PROVE RequestOK'
  BY <1>3 DEF Ingest, Idle
<1>4. ASSUME NEW t \in Threads,
             RejectDuplicate(t) \/ FailIngest(t) \/ Finish(t) \/ FailUpkeep(t)
      PROVE  RequestOK'
  BY <1>1, <1>4 DEF RejectDuplicate, FailIngest, Finish, FailUpkeep
<1>5. ASSUME NEW a \in Actors, Maintain(a) PROVE RequestOK'
  BY <1>5 DEF Maintain, Retention, CountOverflow, DeleteOverflow
<1>6. ASSUME NEW p \in Processes, Restart(p) PROVE RequestOK'
  BY <1>6 DEF Restart
<1>7. CASE Tick \/ VerifyWalk \/ VerifyHead \/ EditRow \/ DeleteRow
  BY <1>7 DEF Tick, VerifyWalk, VerifyHead, EditRow, DeleteRow
<1>8. CASE UNCHANGED vars
  BY <1>8 DEF vars
<1>9. ASSUME NEW t \in Threads, CountIngest(t) PROVE RequestOK'
  BY <1>9, CountingKeeps
<1> QED
  BY <1>2, <1>3, <1>4, <1>5, <1>6, <1>7, <1>8, <1>9 DEF Next, Serve

(* Overflows are numbers because the table is finite. *)
LEMMA AtIsUpkeep ==
  ASSUME NEW step \in Steps, NEW seen \in Nat, NEW overflow \in Nat
  PROVE  At(step, seen, overflow) \in Upkeep
BY DEF At, Upkeep

LEMMA UpkeepStep ==
  ASSUME RequestOK, UpkeepOK, TableOK, RestOK, [Next]_vars
  PROVE  UpkeepOK'
<1> USE StoreAssumption DEF UpkeepOK, Actors
<1>1. NoUpkeep \in Upkeep /\ UpkeepDue \in Upkeep
  BY AtIsUpkeep DEF NoUpkeep, UpkeepDue, Steps
<1>2. ASSUME NEW t \in Threads, Ingest(t) PROVE UpkeepOK'
  <2>1. At("read", 0, 0) \in Upkeep
    BY AtIsUpkeep DEF Steps
  <2> QED
    BY <1>2, <2>1 DEF Ingest
<1>11. ASSUME NEW t \in Threads, CountIngest(t) PROVE UpkeepOK'
  <2> DEFINE n == since[ProcessOf[t]]
             seen == upkeep[t].seen
  <2>1. ProcessOf[t] \in Processes /\ n \in Nat
    OBVIOUS
  <2>2. seen \in Nat
    BY DEF Upkeep
  <2>3. /\ At("write", n, 0) \in Upkeep /\ At("retention", n, 0) \in Upkeep
        /\ At("check", 0, 0) \in Upkeep /\ At("reset", 0, 0) \in Upkeep
    BY <2>1, AtIsUpkeep DEF Steps
  <2>4. seen + 1 \in Nat /\ (n > seen => missed + (n - seen) \in Nat)
    BY <2>1, <2>2
  <2>5. CASE ReadCounter(t)
    BY <2>3, <2>5 DEF ReadCounter
  <2>6. CASE WriteCounter(t)
    BY <2>3, <2>4, <2>6 DEF WriteCounter
  <2>7. CASE CheckCounter(t)
    BY <1>1, <2>3, <2>7 DEF CheckCounter
  <2>8. CASE ResetCounter(t)
    BY <2>3, <2>8 DEF ResetCounter
  <2> QED
    BY <1>11, <2>5, <2>6, <2>7, <2>8 DEF CountIngest
<1>3. ASSUME NEW t \in Threads,
             Receive(t) \/ RejectDuplicate(t) \/ FailIngest(t) \/ Finish(t)
      PROVE  UpkeepOK'
  BY <1>3 DEF Receive, RejectDuplicate, FailIngest, Finish
<1>4. ASSUME NEW t \in Threads, FailUpkeep(t) PROVE UpkeepOK'
  <2>1. missed + upkeep[t].seen \in Nat
    BY DEF Upkeep
  <2> QED
    BY <1>1, <1>4, <2>1 DEF FailUpkeep
<1>5. ASSUME NEW a \in Actors, Retention(a) PROVE UpkeepOK'
  <2>1. [upkeep[a] EXCEPT !.step = "count"] \in Upkeep
    BY DEF Upkeep, Steps
  <2> QED
    BY <1>5, <2>1 DEF Retention
<1>6. ASSUME NEW a \in Actors, CountOverflow(a) PROVE UpkeepOK'
  <2> DEFINE over == Cardinality(events) - MaxEvents
  <2>1. Cardinality(events) \in Nat
    BY FS_CardinalityType DEF TableOK
  <2>2. over > 0 => over \in Nat
    BY <2>1
  <2>3. upkeep[a].seen \in Nat /\ "evict" \in Steps
    BY DEF Upkeep, Steps
  <2>4. over > 0 => At("evict", upkeep[a].seen, over) \in Upkeep
    BY <2>2, <2>3, AtIsUpkeep
  <2> QED
    BY <1>1, <1>6, <2>4 DEF CountOverflow
<1>7. ASSUME NEW a \in Actors, DeleteOverflow(a) PROVE UpkeepOK'
  BY <1>1, <1>7 DEF DeleteOverflow
<1>8. ASSUME NEW p \in Processes, Restart(p) PROVE UpkeepOK'
  BY <1>1, <1>8 DEF Restart
<1>9. CASE Tick \/ VerifyWalk \/ VerifyHead \/ EditRow \/ DeleteRow
  BY <1>9 DEF Tick, VerifyWalk, VerifyHead, EditRow, DeleteRow
<1>10. CASE UNCHANGED vars
  BY <1>10 DEF vars
<1> QED
  BY <1>2, <1>3, <1>4, <1>5, <1>6, <1>7, <1>8, <1>9, <1>10, <1>11
     DEF Next, Serve, Maintain

(* Rows are added one at a time; pruning keeps some of rows and sessions. *)
LEMMA TableStep ==
  ASSUME ChainInv, RequestOK, UpkeepOK, TableOK, RestOK, [Next]_vars
  PROVE  TableOK'
<1>1. ASSUME UNCHANGED store PROVE TableOK'
  BY <1>1 DEF TableOK, store
<1>2. ASSUME NEW rows \in SUBSET events, Keep(rows) PROVE TableOK'
  <2>1. events' = rows /\ sessions' = Referenced(rows)
    BY <1>2 DEF Keep
  <2>2. IsFiniteSet(rows)
    BY FS_Subset DEF TableOK
  <2>3. \A s \in DOMAIN Referenced(rows) :
          s \in DOMAIN sessions /\ Referenced(rows)[s] = sessions[s]
    BY DEF Referenced
  <2> QED
    BY <2>1, <2>2, <2>3 DEF TableOK
<1>3. ASSUME NEW t \in Threads, Ingest(t) PROVE TableOK'
  <2>1. req[t] \in [pc : {"received", "stored"}, event : Offered, at : Nat]
    BY <1>3 DEF Ingest, RequestOK, Idle
  <2>2. req[t].event \in Event
    BY <2>1, StoreAssumption
  <2>3. req[t].event.ts \in Nat
    BY <2>2 DEF Event
  <2> DEFINE event == req[t].event
  <2>4. PICK id : Commit(event, req[t].at, id)
    BY <1>3 DEF Ingest
  <2> DEFINE row == Chained(head, RowOf(event, req[t].at, id))
  <2>5. events' = events \cup {row} /\ sessions' = WithEvent(sessions, event, id)
    BY <2>4 DEF Commit
  <2>6. row.body = "original" /\ row.copies = "original"
    BY DEF Chained, RowOf
  <2>7. \A s \in DOMAIN sessions' : sessions'[s] \in Session
    BY <2>3, <2>5, SessionTypes DEF TableOK
  <2>8. IsFiniteSet(events \cup {row})
    BY FS_AddElement DEF TableOK
  <2> HIDE DEF row
  <2> QED
    BY <2>5, <2>6, <2>7, <2>8 DEF TableOK
<1>4. ASSUME NEW t \in Threads,
             Receive(t) \/ RejectDuplicate(t) \/ FailIngest(t) \/ Finish(t) \/ FailUpkeep(t)
      PROVE  TableOK'
  BY <1>1, <1>4 DEF Receive, RejectDuplicate, FailIngest, Finish, FailUpkeep
<1>5. ASSUME NEW a \in Actors, Maintain(a) PROVE TableOK'
  <2>1. CASE Retention(a)
    BY <1>1, <1>2, <2>1 DEF Retention
  <2>2. CASE CountOverflow(a)
    BY <1>1, <2>2 DEF CountOverflow
  <2>3. CASE DeleteOverflow(a)
    BY <1>2, <2>3 DEF DeleteOverflow
  <2> QED
    BY <1>5, <2>1, <2>2, <2>3 DEF Maintain
<1>6. CASE EditRow
  <2>1. PICK row \in events, columns \in {"body", "copies"} :
          events' = (events \ {row}) \cup {Edited(row, columns)}
    BY <1>6, EditedRow
  <2> DEFINE edited == Edited(row, columns)
  <2>2. /\ {row.body, row.copies} \subseteq {"original", "edited"}
        /\ row = [c \in Columns |-> row[c]]
        /\ UNCHANGED sessions
    BY <1>6 DEF EditRow, TableOK, ChainInv, Genuine
  <2>3. {edited.body, edited.copies} \subseteq {"original", "edited"}
    BY <2>2, EditedKeeps
  <2>4. events' = (events \ {row}) \cup {edited} /\ events \ {row} \in SUBSET events
    BY <2>1
  <2>5. IsFiniteSet((events \ {row}) \cup {edited})
    BY <2>4, FS_Subset, FS_AddElement DEF TableOK
  <2> HIDE DEF edited
  <2> QED
    BY <2>2, <2>3, <2>4, <2>5 DEF TableOK
<1>7. CASE DeleteRow
  <2>1. PICK row \in events : events' = events \ {row} /\ UNCHANGED sessions
    BY <1>7 DEF DeleteRow
  <2> QED
    BY <2>1, FS_RemoveElement DEF TableOK
<1>8. CASE (\E p \in Processes : Restart(p)) \/ Tick \/ VerifyWalk \/ VerifyHead
  BY <1>1, <1>8 DEF Restart, Tick, VerifyWalk, VerifyHead
<1>9. CASE UNCHANGED vars
  BY <1>1, <1>9 DEF vars, store
<1>10. ASSUME NEW t \in Threads, CountIngest(t) PROVE TableOK'
  BY <1>1, <1>10, CountingKeeps
<1> QED
  BY <1>3, <1>4, <1>5, <1>6, <1>7, <1>8, <1>9, <1>10 DEF Next, Serve

LEMMA RestStep ==
  ASSUME RequestOK, UpkeepOK, TableOK, RestOK, [Next]_vars
  PROVE  RestOK'
<1> USE DEF RestOK
<1>1. ASSUME NEW t \in Threads, Serve(t) PROVE RestOK'
  BY <1>1, CountingKeeps
     DEF Serve, Receive, Ingest, RejectDuplicate, FailIngest, Finish, FailUpkeep
<1>2. ASSUME NEW a \in Actors, Maintain(a) PROVE RestOK'
  BY <1>2 DEF Maintain, Retention, CountOverflow, DeleteOverflow
<1>3. ASSUME NEW p \in Processes, Restart(p) PROVE RestOK'
  BY <1>3 DEF Restart
<1>4. CASE Tick \/ EditRow \/ DeleteRow
  BY <1>4 DEF Tick, EditRow, DeleteRow
<1>5. CASE VerifyWalk \/ VerifyHead
  BY <1>5 DEF VerifyWalk, VerifyHead
<1>6. CASE UNCHANGED vars
  BY <1>6 DEF vars
<1> QED
  BY <1>1, <1>2, <1>3, <1>4, <1>5, <1>6 DEF Next

LEMMA TypeInvInit == Init => TypeInv
<1> SUFFICES ASSUME Init PROVE TypeInv
  OBVIOUS
<1>1. ChainInv
  BY ChainInit
<1>2. RequestOK
  BY DEF Init, RequestOK
<1>3. UpkeepOK
  <2>1. NoUpkeep \in Upkeep /\ UpkeepDue \in Upkeep
    BY AtIsUpkeep DEF NoUpkeep, UpkeepDue, Steps
  <2> QED
    BY <2>1 DEF Init, UpkeepOK
<1>4. TableOK
  BY FS_EmptySet DEF Init, TableOK
<1>5. RestOK
  BY DEF Init, RestOK, Resting
<1> QED
  BY <1>1, <1>2, <1>3, <1>4, <1>5, TypeParts

LEMMA TypeInvStep == ASSUME TypeInv, [Next]_vars PROVE TypeInv'
<1>1. ChainInv /\ ChainInv'
  BY ChainStep DEF TypeInv
<1>2. RequestOK /\ UpkeepOK /\ TableOK /\ RestOK
  BY <1>1, TypeParts
<1>3. RequestOK' /\ UpkeepOK' /\ TableOK' /\ RestOK'
  BY <1>1, <1>2, RequestStep, UpkeepStep, TableStep, RestStep
<1>4. Len(log') \in Nat /\ head'.seq \in Nat
  BY <1>1 DEF ChainInv, LogShape, HeadIsLast, GenesisHead
<1>5. \A row \in events' : row.seq \in 1..Len(log')
  BY <1>1, Zenon DEF ChainInv, Genuine
<1>6. TypeOK'
  BY <1>3, <1>4, <1>5 DEF TypeOK, RequestOK, UpkeepOK, TableOK, RestOK, Session, Upkeep
<1> QED
  BY <1>1, <1>3, <1>6 DEF TypeInv, TableOK

(***************************************************************************)
(* Every state has the types it should: the maintenance counter of each    *)
(* worker and an overflow to evict are numbers, and requests carry offered *)
(* events with their stamps (store.py, app.py).                            *)
(***************************************************************************)
THEOREM TypeCorrect == Spec => []TypeOK
<1>1. TypeInv /\ [Next]_vars => TypeInv'
  BY TypeInvStep
<1>2. TypeInv => TypeOK
  BY DEF TypeInv
<1> QED
  BY <1>1, <1>2, TypeInvInit, PTL DEF Spec

-----------------------------------------------------------------------------
(* What a step does to the tables: an ingest, one pruning transaction, an    *)
(* out-of-band change, or nothing.                                           *)
Pruning ==
  /\ edits' = edits
  /\ \/ Keep({row \in events : ~Expired(row)})
     \/ \E n \in Nat : Keep(events \ Oldest(n))

(* A request that is stored carries an offered event and its stamp.          *)
Stores(event, at) ==
  /\ event \in Offered /\ event \in Event /\ at \in Nat /\ edits' = edits
  /\ \E id \in SelectedSession(sessions, event) :
       ~Refused(event, at, id) /\ Commit(event, at, id)

LEMMA StoreStep ==
  ASSUME RequestOK, UpkeepOK, [Next]_vars
  PROVE  \/ \E event, at : Stores(event, at)
         \/ Pruning \/ EditRow \/ DeleteRow
         \/ UNCHANGED <<store, edits>>
<1>1. ASSUME NEW t \in Threads, Ingest(t) PROVE \E event, at : Stores(event, at)
  <2>1. req[t] \in [pc : {"received", "stored"}, event : Offered, at : Nat]
    BY <1>1 DEF Ingest, RequestOK, Idle
  <2>2. req[t].event \in Offered /\ req[t].event \in Event /\ req[t].at \in Nat
    BY <2>1, StoreAssumption
  <2>3. Stores(req[t].event, req[t].at)
    BY <1>1, <2>2 DEF Ingest, Stores
  <2> QED
    BY <2>3
<1>2. ASSUME NEW t \in Threads,
             Receive(t) \/ RejectDuplicate(t) \/ FailIngest(t) \/ Finish(t) \/ FailUpkeep(t)
      PROVE  UNCHANGED <<store, edits>>
  BY <1>2 DEF Receive, RejectDuplicate, FailIngest, Finish, FailUpkeep
<1>6. ASSUME NEW t \in Threads, CountIngest(t) PROVE UNCHANGED <<store, edits>>
  BY <1>6, CountingKeeps
<1>3. ASSUME NEW a \in Actors, Maintain(a) PROVE Pruning \/ UNCHANGED <<store, edits>>
  <2>1. CASE Retention(a)
    BY <2>1 DEF Retention, Pruning
  <2>2. CASE CountOverflow(a)
    BY <2>2 DEF CountOverflow
  <2>3. CASE DeleteOverflow(a)
    <3>1. upkeep[a].overflow \in Nat
      BY DEF UpkeepOK, Upkeep
    <3> QED
      BY <2>3, <3>1 DEF DeleteOverflow, Pruning
  <2> QED
    BY <1>3, <2>1, <2>2, <2>3 DEF Maintain
<1>4. CASE (\E p \in Processes : Restart(p)) \/ Tick \/ VerifyWalk \/ VerifyHead
  BY <1>4 DEF Restart, Tick, VerifyWalk, VerifyHead
<1>5. CASE UNCHANGED vars
  BY <1>5 DEF vars, store
<1> QED
  BY <1>1, <1>2, <1>3, <1>4, <1>5, <1>6 DEF Next, Serve

(* Pruning keeps some rows, and the log, and edits only count up.            *)
LEMMA PruningKeeps ==
  ASSUME Pruning
  PROVE  \E rows \in SUBSET events : Keep(rows)
BY DEF Pruning

-----------------------------------------------------------------------------
(* The sessions and the events they hold.                                    *)
Own(s, rows) == {row \in rows : row.session = s}

EventsHaveSessions == \A row \in events : row.session \in DOMAIN sessions

SessionHolds(s) ==
  /\ sessions[s].started <= sessions[s].last
  /\ \A row \in Own(s, events) :
       sessions[s].started <= row.ts /\ row.ts <= sessions[s].last
  /\ Cardinality(Own(s, events)) <= sessions[s].count

(* Rows carry numbers for stamps.                                            *)
Stamped ==
  \A i \in 1..Len(log) :
    log[i].ts \in Nat /\ log[i].received \in Nat /\ log[i].id \in Nat

LEMMA RowStamps ==
  ASSUME ChainInv, Stamped
  PROVE  \A r \in events :
           /\ r.seq \in 1..Len(log)
           /\ r.ts = log[r.seq].ts /\ r.received = log[r.seq].received
           /\ r.session = log[r.seq].session
           /\ r.id = log[r.seq].id
           /\ r.ts \in Nat /\ r.received \in Nat /\ r.id \in Nat
<1> SUFFICES ASSUME NEW r \in events
             PROVE  /\ r.seq \in 1..Len(log)
                    /\ r.ts = log[r.seq].ts /\ r.received = log[r.seq].received
                    /\ r.session = log[r.seq].session
                    /\ r.id = log[r.seq].id
  BY DEF Stamped
<1>1. /\ r = [c \in Columns |-> r[c]] /\ r.seq \in 1..Len(log)
      /\ AsCommitted(r) = log[r.seq]
  BY DEF ChainInv, Genuine
<1> QED
  BY <1>1 DEF Columns, AsCommitted

LEMMA StampsStay ==
  ASSUME ChainInv, Stamped, RequestOK, UpkeepOK, [Next]_vars PROVE Stamped'
<1>1. ASSUME NEW event, NEW at, Stores(event, at) PROVE Stamped'
  <2>1. PICK id : Commit(event, at, id)
    BY <1>1 DEF Stores
  <2> DEFINE row == Chained(head, RowOf(event, at, id))
  <2>2. log' = Append(log, row)
    BY <2>1 DEF Commit
  <2>3. row.ts \in Nat /\ row.received \in Nat /\ row.id \in Nat
    BY <1>1 DEF Chained, RowOf, Stores, Event
  <2> HIDE DEF row
  <2>4. /\ Len(log) \in Nat /\ Len(log') = Len(log) + 1
        /\ log'[Len(log) + 1] = row
        /\ \A i \in 1..Len(log) : log'[i] = log[i]
    BY <2>2, LogGrows DEF ChainInv
  <2> QED
    BY <2>3, <2>4 DEF Stamped
<1>2. ASSUME UNCHANGED log PROVE Stamped'
  BY <1>2 DEF Stamped
<1> QED
  BY <1>1, <1>2, StoreStep DEF Pruning, Keep, EditRow, DeleteRow, store

(* The end of a session is the time of an event that was put in it.          *)
EndIsAnEvent ==
  \A s \in DOMAIN sessions :
    \E j \in 1..Len(log) : log[j].session = s /\ log[j].ts = sessions[s].last

SessionInv ==
  /\ TypeInv /\ Stamped
  /\ SessionsHaveEvents /\ EventsHaveSessions
  /\ \A s \in DOMAIN sessions : SessionHolds(s)
  /\ EndIsAnEvent /\ NoLongPause

LEMMA SessionInvParts ==
  SessionInv => /\ ChainInv /\ Stamped /\ RequestOK /\ UpkeepOK /\ TableOK /\ RestOK
                /\ SessionsHaveEvents /\ EventsHaveSessions
                /\ (\A s \in DOMAIN sessions : SessionHolds(s))
                /\ EndIsAnEvent /\ NoLongPause
BY TypeParts DEF SessionInv, TypeInv

(* What an ingest does to the session it joins or opens.                     *)
JoinedOrOpened(tbl, new, event, id) ==
  /\ DOMAIN new = DOMAIN tbl \cup {id}
  /\ \A s \in DOMAIN tbl : s # id => new[s] = tbl[s]
  /\ new[id] \in Session
  /\ new[id].started <= event.ts /\ event.ts <= new[id].last
  /\ id \in DOMAIN tbl =>
       /\ new[id].started <= tbl[id].started
       /\ tbl[id].last <= new[id].last
       /\ new[id].last \in {event.ts, tbl[id].last}
       /\ new[id].count = tbl[id].count + 1
  /\ id \notin DOMAIN tbl => new[id] = NewSession(event)
  /\ id.token = NoToken /\ event.ts # id.start =>
       /\ id \in DOMAIN tbl
       /\ tbl[id].last <= event.ts
       /\ event.ts - tbl[id].last <= SessionGap

LEMMA SessionJoined ==
  ASSUME NEW tbl, NEW event \in Event, NEW id \in SelectedSession(tbl, event),
         ~SessionRefused(tbl, event, id),
         \A s \in DOMAIN tbl : tbl[s] \in Session /\ tbl[s].started <= tbl[s].last
  PROVE  JoinedOrOpened(tbl, WithEvent(tbl, event, id), event, id)
<1> USE DEF JoinedOrOpened
<1> DEFINE new == WithEvent(tbl, event, id)
<1>0. event.ts \in Nat
  BY DEF Event
<1>1. CASE ~Joins(tbl, event, id)
  <2>1. id \notin DOMAIN tbl
    BY <1>1 DEF SessionRefused
  <2>2. new = [x \in DOMAIN tbl \cup {id} |->
                 IF x = id THEN NewSession(event) ELSE tbl[x]]
    BY <1>1 DEF WithEvent, Opened
  <2>3. NewSession(event) \in Session
        /\ NewSession(event).started = event.ts /\ NewSession(event).last = event.ts
    BY <1>0 DEF NewSession, Session
  <2>4. id.token = NoToken => event.ts = id.start
    <3>1. CASE event.token # NoToken
      BY <3>1 DEF SelectedSession, SessionIdExplicit
    <3>2. CASE event.token = NoToken
      <4>1. id = SessionIdTemporal(event)
        BY <1>1, <3>2 DEF SelectedSession, Joins, ShouldJoin
      <4> QED
        BY <4>1 DEF SessionIdTemporal
    <3> QED
      BY <3>1, <3>2
  <2> QED
    BY <1>0, <2>1, <2>2, <2>3, <2>4
<1>2. CASE Joins(tbl, event, id)
  <2>1. id \in DOMAIN tbl
    BY <1>2 DEF Joins, Latest
  <2> DEFINE old == tbl[id]
  <2> DEFINE joined ==
        [started |-> IF event.token # NoToken /\ event.ts < old.started
                     THEN event.ts ELSE old.started,
         last    |-> IF event.ts > old.last THEN event.ts ELSE old.last,
         count   |-> old.count + 1]
  <2>2. new = [tbl EXCEPT ![id] = joined]
    BY <1>2 DEF WithEvent
  <2>3. old \in Session /\ old.started <= old.last
    BY <2>1
  <2>4. old.started \in Nat /\ old.last \in Nat /\ old.count \in Nat
    BY <2>3 DEF Session
  <2>5. event.token = NoToken =>
          old.last <= event.ts /\ event.ts - old.last <= SessionGap
    BY <1>0, <1>2, <2>4, GapAssumption DEF Joins, ShouldJoin
  <2>6. event.token # NoToken => id.token # NoToken
    BY DEF SelectedSession, SessionIdExplicit
  <2> HIDE DEF old
  <2>7. /\ joined \in Session
        /\ joined.started <= event.ts /\ event.ts <= joined.last
        /\ joined.started <= old.started /\ old.last <= joined.last
        /\ joined.last \in {event.ts, old.last} /\ joined.count = old.count + 1
    BY <1>0, <2>3, <2>4, <2>5 DEF Session
  <2> HIDE DEF joined
  <2>8. /\ DOMAIN new = DOMAIN tbl /\ new[id] = joined
        /\ \A s \in DOMAIN tbl : s # id => new[s] = tbl[s]
    BY <2>1, <2>2
  <2> HIDE DEF new
  <2>9. DOMAIN tbl = DOMAIN tbl \cup {id}
    BY <2>1
  <2> QED
    BY <2>1, <2>5, <2>6, <2>7, <2>8, <2>9 DEF old, new
<1> QED
  BY <1>1, <1>2

LEMMA SessionsAfterIngest ==
  ASSUME SessionInv, NEW event, NEW at, Stores(event, at), TypeInv', Stamped'
  PROVE  SessionInv'
<1>1. PICK id \in SelectedSession(sessions, event) :
        ~Refused(event, at, id) /\ Commit(event, at, id)
  BY DEF Stores
<1> DEFINE row == Chained(head, RowOf(event, at, id))
<1>2. /\ events' = events \cup {row} /\ log' = Append(log, row)
      /\ sessions' = WithEvent(sessions, event, id)
  BY <1>1 DEF Commit
<1>3. row.session = id /\ row.ts = event.ts /\ event.ts \in Nat /\ event \in Event
  BY DEF Chained, RowOf, Stores, Event
<1> HIDE DEF row
<1>4. /\ LogShape /\ TableOK
      /\ SessionsHaveEvents /\ EventsHaveSessions
      /\ \A s \in DOMAIN sessions : SessionHolds(s)
      /\ EndIsAnEvent /\ NoLongPause
  BY SessionInvParts DEF ChainInv
<1> DEFINE n == Len(log)
<1>5. /\ n \in Nat /\ Len(log') = n + 1 /\ log'[n + 1] = row
      /\ \A i \in 1..n : i \in 1..Len(log') /\ log'[i] = log[i]
  BY <1>2, <1>4, LogGrows
<1>6. \A s \in DOMAIN sessions :
        sessions[s] \in Session /\ sessions[s].started <= sessions[s].last
  BY <1>4 DEF TableOK, SessionHolds
<1>7. ~SessionRefused(sessions, event, id)
  BY <1>1 DEF Refused
<1>8. JoinedOrOpened(sessions, sessions', event, id)
  BY <1>1, <1>2, <1>3, <1>6, <1>7, SessionJoined, Zenon
<1>9. SessionsHaveEvents'
  BY <1>2, <1>3, <1>4, <1>8 DEF SessionsHaveEvents, Stores, JoinedOrOpened
<1>10. EventsHaveSessions'
  BY <1>2, <1>3, <1>4, <1>8 DEF EventsHaveSessions, JoinedOrOpened
<1> USE DEF JoinedOrOpened
<1>11. ASSUME NEW s \in DOMAIN sessions' PROVE SessionHolds(s)'
  <2>0. IsFiniteSet(Own(s, events)) /\ IsFiniteSet(Own(id, events))
    <3>1. Own(s, events) \subseteq events /\ Own(id, events) \subseteq events
      BY DEF Own
    <3> QED
      BY <1>4, <3>1, FS_Subset DEF TableOK
  <2>1. CASE s # id
    <3>1. s \in DOMAIN sessions /\ sessions'[s] = sessions[s]
      BY <1>8, <2>1
    <3>2. Own(s, events') = Own(s, events)
      BY <1>2, <1>3, <2>1 DEF Own
    <3>3. SessionHolds(s)
      BY <1>4, <3>1
    <3> QED
      BY <3>1, <3>2, <3>3 DEF SessionHolds
  <2>2. CASE s = id
    <3>1. Own(id, events') = Own(id, events) \cup {row}
      BY <1>2, <1>3 DEF Own
    <3>2. Cardinality(Own(id, events')) <= Cardinality(Own(id, events)) + 1
          /\ Cardinality(Own(id, events)) \in Nat
      <4>1. Cardinality(Own(id, events)) \in Nat
        BY <2>0, FS_CardinalityType
      <4>2. Cardinality(Own(id, events) \cup {row}) =
              IF row \in Own(id, events) THEN Cardinality(Own(id, events))
              ELSE Cardinality(Own(id, events)) + 1
        BY <2>0, FS_AddElement, Zenon
      <4> QED
        BY <3>1, <4>1, <4>2
    <3>3. sessions'[id].started \in Nat /\ sessions'[id].last \in Nat
          /\ sessions'[id].count \in Nat
      BY <1>8 DEF Session
    <3>4. CASE id \in DOMAIN sessions
      <4>1. SessionHolds(id) /\ sessions[id] \in Session
        BY <1>4, <1>6, <3>4
      <4>2. \A r \in Own(id, events) :
              sessions[id].started <= r.ts /\ r.ts <= sessions[id].last
        BY <4>1 DEF SessionHolds
      <4>3. \A r \in events : r.ts \in Int
        BY SessionInvParts, RowStamps
      <4>4. \A r \in Own(id, events') :
              sessions'[id].started <= r.ts /\ r.ts <= sessions'[id].last
        BY <1>3, <1>8, <3>1, <3>3, <3>4, <4>1, <4>2, <4>3 DEF Session, Own
      <4>5. Cardinality(Own(id, events')) <= sessions'[id].count
        <5>1. Cardinality(Own(id, events)) <= sessions[id].count
              /\ sessions[id].count \in Nat
          BY <4>1 DEF SessionHolds, Session
        <5>2. sessions'[id].count = sessions[id].count + 1
          BY <1>8, <3>4
        <5>3. Cardinality(Own(id, events')) \in Nat
          <6>1. IsFiniteSet(Own(id, events) \cup {row})
            BY <2>0, FS_AddElement, Zenon
          <6> QED
            BY <3>1, <6>1, FS_CardinalityType
        <5> QED
          BY <3>2, <5>1, <5>2, <5>3
      <4>6. sessions'[id].started <= sessions'[id].last
        BY <1>3, <1>8, <3>3
      <4> QED
        BY <2>2, <4>4, <4>5, <4>6 DEF SessionHolds
    <3>5. CASE id \notin DOMAIN sessions
      <4>1. Own(id, events) = {}
        BY <1>4, <3>5 DEF Own, EventsHaveSessions
      <4>2. sessions'[id] = NewSession(event) /\ Own(id, events') = {row}
        BY <1>8, <3>1, <3>5, <4>1
      <4>3. Cardinality(Own(id, events')) = 1
        BY <4>2, FS_Singleton
      <4> QED
        BY <1>3, <2>2, <4>2, <4>3 DEF SessionHolds, NewSession
    <3> QED
      BY <3>4, <3>5
  <2> QED
    BY <2>1, <2>2
<1>12. EndIsAnEvent'
  <2> SUFFICES ASSUME NEW s \in DOMAIN sessions'
               PROVE  \E j \in 1..Len(log') :
                        log'[j].session = s /\ log'[j].ts = sessions'[s].last
    BY DEF EndIsAnEvent
  <2>1. s \in DOMAIN sessions =>
          \E j \in 1..n : log[j].session = s /\ log[j].ts = sessions[s].last
    BY <1>4 DEF EndIsAnEvent
  <2>2. CASE s # id \/ (s \in DOMAIN sessions /\ sessions'[s].last = sessions[s].last)
    <3>1. s \in DOMAIN sessions /\ sessions'[s].last = sessions[s].last
      BY <1>8, <2>2
    <3> QED
      BY <1>5, <2>1, <3>1
  <2>3. CASE s = id /\ sessions'[id].last = event.ts
    <3>1. n + 1 \in 1..Len(log')
      BY <1>5
    <3> QED
      BY <1>3, <1>5, <2>3, <3>1
  <2>4. id \notin DOMAIN sessions => sessions'[id].last = event.ts
    BY <1>8 DEF NewSession
  <2> QED
    BY <1>8, <2>2, <2>3, <2>4
<1>13. NoLongPause'
  <2> SUFFICES ASSUME NEW i \in 1..Len(log'),
                      log'[i].session.token = NoToken,
                      log'[i].ts # log'[i].session.start
               PROVE  \E j \in 1..(i - 1) :
                        /\ log'[j].session = log'[i].session
                        /\ log'[j].ts <= log'[i].ts
                        /\ log'[i].ts - log'[j].ts <= SessionGap
    BY DEF NoLongPause
  <2>1. CASE i \in 1..n
    <3>1. log'[i] = log[i]
      BY <1>5, <2>1
    <3>2. PICK j \in 1..(i - 1) :
            /\ log[j].session = log[i].session
            /\ log[j].ts <= log[i].ts /\ log[i].ts - log[j].ts <= SessionGap
      BY <1>4, <2>1, <3>1 DEF NoLongPause
    <3>3. log'[j] = log[j]
      BY <1>5, <2>1
    <3> QED
      BY <3>1, <3>2, <3>3
  <2>2. CASE i = n + 1
    <3>1. log'[i] = row
      BY <1>5, <2>2
    <3>2. /\ id \in DOMAIN sessions
          /\ sessions[id].last <= event.ts
          /\ event.ts - sessions[id].last <= SessionGap
      BY <1>3, <1>8, <3>1
    <3>3. PICK j \in 1..n : log[j].session = id /\ log[j].ts = sessions[id].last
      BY <1>4, <3>2 DEF EndIsAnEvent
    <3>4. j \in 1..(i - 1) /\ log'[j] = log[j]
      BY <1>5, <2>2, <3>3
    <3> QED
      BY <1>3, <3>1, <3>2, <3>3, <3>4
  <2> QED
    BY <1>5, <2>1, <2>2
<1> QED
  BY <1>9, <1>10, <1>11, <1>12, <1>13 DEF SessionInv

(* A table whose rows only go, and whose sessions go with their last row.    *)
LEMMA SessionsAfterPruning ==
  ASSUME SessionInv, NEW rows \in SUBSET events, Keep(rows), edits' = edits,
         TypeInv', Stamped'
  PROVE  SessionInv'
<1>1. /\ events' = rows /\ sessions' = Referenced(rows) /\ log' = log
  BY DEF Keep
<1>2. /\ DOMAIN sessions' = {r.session : r \in rows} \cap DOMAIN sessions
      /\ \A s \in DOMAIN sessions' : s \in DOMAIN sessions /\ sessions'[s] = sessions[s]
  BY <1>1 DEF Referenced
<1>3. /\ TableOK /\ EventsHaveSessions
      /\ \A s \in DOMAIN sessions : SessionHolds(s)
      /\ EndIsAnEvent /\ NoLongPause
  BY SessionInvParts
<1>4. {r.session : r \in rows} \subseteq DOMAIN sessions
  BY <1>3 DEF EventsHaveSessions
<1>5. SessionsHaveEvents' /\ EventsHaveSessions'
  BY <1>1, <1>2, <1>4 DEF SessionsHaveEvents, EventsHaveSessions
<1>6. ASSUME NEW s \in DOMAIN sessions' PROVE SessionHolds(s)'
  <2>1. SessionHolds(s) /\ sessions'[s] = sessions[s]
        /\ sessions[s].count \in Nat
    BY <1>2, <1>3 DEF TableOK, Session
  <2>2. Own(s, events') \subseteq Own(s, events) /\ Own(s, events) \subseteq events
    BY <1>1 DEF Own
  <2>3. IsFiniteSet(Own(s, events))
    BY <1>3, <2>2, FS_Subset DEF TableOK
  <2>4. Cardinality(Own(s, events')) <= Cardinality(Own(s, events))
        /\ IsFiniteSet(Own(s, events'))
    BY <2>2, <2>3, FS_Subset
  <2>5. Cardinality(Own(s, events')) \in Nat /\ Cardinality(Own(s, events)) \in Nat
    BY <2>3, <2>4, FS_CardinalityType
  <2>6. Cardinality(Own(s, events')) <= sessions[s].count
    BY <2>1, <2>4, <2>5 DEF SessionHolds
  <2> QED
    BY <2>1, <2>2, <2>6 DEF SessionHolds
<1>7. EndIsAnEvent' /\ NoLongPause'
  BY <1>1, <1>2, <1>3 DEF EndIsAnEvent, NoLongPause
<1> QED
  BY <1>5, <1>6, <1>7 DEF SessionInv

(* An out-of-band change keeps the sessions, and the times of what is left.  *)
LEMMA SessionsAfterEdit ==
  ASSUME SessionInv, NEW row \in events, NEW rest,
         rest = {} \/ \E columns \in {"body", "copies"} : rest = {Edited(row, columns)},
         events' = (events \ {row}) \cup rest,
         edits' = edits + 1, UNCHANGED <<sessions, log>>, TypeInv', Stamped'
  PROVE  SessionInv'
<1>1. /\ ChainInv /\ TableOK /\ RestOK /\ EventsHaveSessions
      /\ \A s \in DOMAIN sessions : SessionHolds(s)
      /\ EndIsAnEvent /\ NoLongPause
  BY SessionInvParts
<1>2. row = [c \in Columns |-> row[c]]
  BY <1>1 DEF ChainInv, Genuine
<1>3. \A r \in rest : r.session = row.session /\ r.ts = row.ts
  BY <1>2, EditedKeeps DEF Columns
<1>4. rest = {} \/ \E e : rest = {e}
  OBVIOUS
<1>5. SessionsHaveEvents' /\ EventsHaveSessions'
  <2>1. edits' # 0
    BY <1>1 DEF RestOK
  <2> QED
    BY <1>1, <1>3, <2>1 DEF SessionsHaveEvents, EventsHaveSessions
<1>6. ASSUME NEW s \in DOMAIN sessions PROVE SessionHolds(s)'
  <2>1. SessionHolds(s) /\ sessions[s].count \in Nat
    BY <1>1 DEF TableOK, Session
  <2> DEFINE own == Own(s, events)
  <2>2. own \subseteq events
    BY DEF Own
  <2>3. IsFiniteSet(own)
    BY <1>1, <2>2, FS_Subset DEF TableOK
  <2>4. Cardinality(own) \in Nat
    BY <2>3, FS_CardinalityType
  <2>5. IsFiniteSet(Own(s, events')) /\ Cardinality(Own(s, events')) <= Cardinality(own)
    <3>1. CASE row.session # s
      <4>1. Own(s, events') = own
        BY <1>3, <3>1 DEF Own
      <4> QED
        BY <2>3, <2>4, <4>1
    <3>2. CASE row.session = s
      <4>1. row \in own
        BY <3>2 DEF Own
      <4>2. IsFiniteSet(own \ {row}) /\ Cardinality(own \ {row}) = Cardinality(own) - 1
        BY <2>3, <4>1, FS_RemoveElement
      <4>3. Own(s, events') = (own \ {row}) \cup rest
        BY <1>3, <3>2 DEF Own
      <4> HIDE DEF own
      <4>4. CASE rest = {}
        <5>1. Own(s, events') = own \ {row}
          BY <4>3, <4>4
        <5>2. IsFiniteSet(Own(s, events'))
              /\ Cardinality(Own(s, events')) = Cardinality(own) - 1
          BY <4>2, <5>1, Zenon
        <5> QED
          BY <2>4, <5>2
      <4>5. ASSUME NEW e, rest = {e}
            PROVE IsFiniteSet(Own(s, events'))
                  /\ Cardinality(Own(s, events')) <= Cardinality(own)
        <5>1. /\ IsFiniteSet((own \ {row}) \cup {e})
              /\ Cardinality((own \ {row}) \cup {e}) =
                   IF e \in own \ {row} THEN Cardinality(own \ {row})
                   ELSE Cardinality(own \ {row}) + 1
          BY <4>2, FS_AddElement, Zenon
        <5>2. Cardinality(own \ {row}) = Cardinality(own) - 1
          BY <4>2
        <5>3. Cardinality((own \ {row}) \cup {e}) <= Cardinality(own)
          BY <2>4, <5>1, <5>2
        <5> QED
          BY <4>3, <4>5, <5>1, <5>3, Zenon
      <4> QED
        BY <1>4, <4>4, <4>5
    <3> QED
      BY <3>1, <3>2
  <2>6. Cardinality(Own(s, events')) \in Nat
    BY <2>5, FS_CardinalityType
  <2>7. Cardinality(Own(s, events')) <= sessions[s].count
    BY <2>1, <2>4, <2>5, <2>6 DEF SessionHolds
  <2>8. \A r \in Own(s, events') : \E q \in own : q.ts = r.ts
    BY <1>3 DEF Own
  <2>9. \A q \in own : sessions[s].started <= q.ts /\ q.ts <= sessions[s].last
    BY <2>1 DEF SessionHolds
  <2> HIDE DEF own
  <2>10. \A r \in Own(s, events') : sessions[s].started <= r.ts /\ r.ts <= sessions[s].last
    BY <2>8, <2>9
  <2> QED
    BY <2>1, <2>7, <2>10 DEF SessionHolds
<1>7. EndIsAnEvent' /\ NoLongPause'
  BY <1>1 DEF EndIsAnEvent, NoLongPause
<1> QED
  BY <1>5, <1>6, <1>7 DEF SessionInv

LEMMA SessionStep == ASSUME SessionInv, [Next]_vars PROVE SessionInv'
<1>1. TypeInv' /\ Stamped'
  BY SessionInvParts, TypeInvStep, StampsStay DEF SessionInv
<1>2. ASSUME NEW event, NEW at, Stores(event, at) PROVE SessionInv'
  BY <1>1, <1>2, SessionsAfterIngest
<1>3. CASE Pruning
  <2>1. PICK rows \in SUBSET events : Keep(rows)
    BY <1>3, PruningKeeps
  <2> QED
    BY <1>1, <1>3, <2>1, SessionsAfterPruning DEF Pruning
<1>4. CASE EditRow
  <2>1. PICK row \in events, columns \in {"body", "copies"} :
          events' = (events \ {row}) \cup {Edited(row, columns)}
    BY <1>4, EditedRow
  <2>2. edits' = edits + 1 /\ UNCHANGED <<sessions, log>>
    BY <1>4 DEF EditRow
  <2> QED
    BY <1>1, <2>1, <2>2, SessionsAfterEdit
<1>5. CASE DeleteRow
  <2>1. PICK row \in events : events' = events \ {row}
    BY <1>5 DEF DeleteRow
  <2>2. edits' = edits + 1 /\ UNCHANGED <<sessions, log>>
        /\ events' = (events \ {row}) \cup {}
    BY <1>5, <2>1 DEF DeleteRow
  <2> QED
    BY <1>1, <2>2, SessionsAfterEdit
<1>6. CASE UNCHANGED <<store, edits>>
  BY <1>1, <1>6 DEF store, SessionInv, SessionsHaveEvents, EventsHaveSessions,
     SessionHolds, Own, EndIsAnEvent, NoLongPause
<1> QED
  BY <1>2, <1>3, <1>4, <1>5, <1>6, StoreStep, SessionInvParts

(***************************************************************************)
(* Sessions and events stay consistent: whatever is ingested in any order, *)
(* pruned by any worker or altered, every event has its session, which     *)
(* spans it and counts it, and no temporal session bridges a pause longer  *)
(* than the gap (store.py: _select_or_create_session, prune).              *)
(***************************************************************************)
THEOREM SessionsStayConsistent == Spec => []SessionsConsistent
<1>1. Init => SessionInv
  <2> SUFFICES ASSUME Init PROVE SessionInv
    OBVIOUS
  <2>1. TypeInv
    BY TypeInvInit
  <2>2. Len(log) = 0 /\ DOMAIN sessions = {} /\ events = {}
    BY DEF Init
  <2> QED
    BY <2>1, <2>2 DEF SessionInv, SessionsHaveEvents, EventsHaveSessions,
       EndIsAnEvent, NoLongPause, Stamped
<1>2. SessionInv /\ [Next]_vars => SessionInv'
  BY SessionStep
<1>3. SessionInv => SessionsConsistent
  BY DEF SessionInv, SessionsConsistent, SessionSpans, SessionHolds, Own
<1> QED
  BY <1>1, <1>2, <1>3, PTL DEF Spec

-----------------------------------------------------------------------------
(* Rows of a stretch that come with all later rows of it are a stretch.      *)
LEMMA LatestAreStretch ==
  ASSUME LogShape, NEW k \in 1..(Len(log) + 1), NEW rows,
         rows \subseteq Stretch(k, Len(log)),
         \A i, j \in k..Len(log) : i < j /\ log[i] \in rows => log[j] \in rows
  PROVE  \E m \in 1..(Len(log) + 1) : rows = Stretch(m, Len(log))
<1> DEFINE n == Len(log)
<1> DEFINE kept == {i \in k..n : log[i] \in rows}
<1>1. n \in Nat
  BY DEF LogShape
<1>2. rows = {log[i] : i \in kept}
  BY DEF Stretch
<1>3. CASE kept = {}
  <2>1. rows = {}
    BY <1>2, <1>3
  <2>2. Stretch(n + 1, n) = {}
    BY <1>1 DEF Stretch
  <2>3. n + 1 \in 1..(n + 1)
    BY <1>1
  <2> QED
    BY <2>1, <2>2, <2>3
<1>4. CASE kept # {}
  <2>0. kept \in SUBSET Nat
    BY <1>1
  <2>1. PICK m \in kept : \A i \in kept : m <= i
    <3> HIDE DEF kept
    <3> QED
      BY <1>4, <2>0, LeastNumber
  <2>2. m \in k..n /\ log[m] \in rows /\ m \in 1..(n + 1)
    BY <1>1
  <2>3. \A i \in m..n : i \in kept
    <3> SUFFICES ASSUME NEW i \in m..n PROVE i \in k..n /\ log[i] \in rows
      OBVIOUS
    <3>1. i = m \/ m < i
      BY <2>2
    <3>2. i \in k..n
      BY <1>1, <2>2
    <3> QED
      BY <2>2, <3>1, <3>2
  <2>4. \A i \in kept : i \in m..n
    BY <1>1, <2>1, <2>2
  <2>5. kept = m..n
    <3> HIDE DEF kept
    <3> QED
      BY <2>3, <2>4
  <2> QED
    BY <1>2, <2>2, <2>5 DEF Stretch
<1> QED
  BY <1>3, <1>4

(* A stretch that ends with the newest record verifies.                      *)
LEMMA StretchVerifies ==
  ASSUME LogShape, LinearLog, HeadIsLast, NEW k \in 1..Len(log)
  PROVE  ChainOK(Stretch(k, Len(log)), head)
<1> DEFINE n == Len(log)
<1> DEFINE rows == Stretch(k, n)
<1>1. n \in Nat
  BY DEF LogShape
<1>2. ASSUME NEW r \in rows PROVE r.seq \in k..n /\ r = log[r.seq]
  <2>1. PICK i \in k..n : r = log[i]
    BY DEF Stretch
  <2> QED
    BY <1>1, <2>1 DEF LinearLog
<1>3. \A i \in k..n : log[i] \in rows /\ log[i].seq = i
  BY <1>1 DEF Stretch, LinearLog
<1> HIDE DEF rows
<1>4. ASSUME NEW r \in rows, NEW q \in Before(rows, r)
      PROVE  r.seq = q.seq + 1 /\ r.prev = q.hash
  <2>1. q \in rows /\ q.seq < r.seq
        /\ \A p \in rows : p.seq < r.seq => p.seq <= q.seq
    BY <1>4 DEF Before, Last
  <2>2. q.seq \in k..n /\ r.seq \in k..n /\ q = log[q.seq] /\ r = log[r.seq]
    BY <1>2, <1>4, <2>1
  <2>3. r.seq - 1 \in k..n
    BY <1>1, <2>1, <2>2
  <2>4. log[r.seq - 1] \in rows /\ log[r.seq - 1].seq = r.seq - 1
    BY <1>3, <2>3
  <2>5. r.seq = q.seq + 1
    BY <1>1, <2>1, <2>2, <2>4
  <2>6. r.seq \in 1..n /\ r.seq # 1 /\ q = log[r.seq - 1]
    BY <1>1, <2>2, <2>5
  <2>7. log[r.seq].prev = log[r.seq - 1].hash
    BY <2>6 DEF LinearLog
  <2> QED
    BY <2>2, <2>5, <2>6, <2>7
<1>5. ASSUME NEW r \in rows
      PROVE  r.hash = RecordHash(r.seq, r.prev, HashedColumns(r))
  <2>1. r.seq \in 1..n /\ r = log[r.seq]
    BY <1>1, <1>2
  <2> QED
    BY <2>1 DEF LinearLog
<1>6. WalkOK(rows)
  BY <1>4, <1>5 DEF WalkOK, SequenceGaps, BrokenLinks, HashMismatches
<1>7. HeadOK(rows, head)
  <2>1. log[n] \in rows /\ log[n].seq = n /\ n # 0
    BY <1>1, <1>3
  <2>2. ASSUME NEW r \in Last(rows) PROVE r = log[n]
    <3>1. r \in rows /\ n <= r.seq
      BY <2>1, <2>2 DEF Last
    <3>2. r.seq \in k..n /\ r = log[r.seq]
      BY <1>2, <3>1
    <3> QED
      BY <1>1, <3>1, <3>2
  <2>3. head = [seq |-> n, hash |-> log[n].hash]
    BY <2>1 DEF HeadIsLast
  <2> QED
    BY <2>1, <2>2, <2>3 DEF HeadOK
<1> QED
  BY <1>6, <1>7 DEF ChainOK, rows

(* Until a row is changed out of band, rows are what was committed; receipt  *)
(* order being commit order, the table is a stretch of the log that ends     *)
(* with its newest row.                                                      *)
Unaltered == edits = 0 => \A row \in events : row = log[row.seq]

PruneInv ==
  /\ TypeInv /\ Stamped /\ Unaltered /\ CutsAreLateCommits
  /\ CommittedAsStamped /\ edits = 0 =>
       \E k \in 1..(Len(log) + 1) : events = Stretch(k, Len(log))

(* What pruning takes was stamped no later than anything it leaves.          *)
LEMMA KeptAreNewer ==
  ASSUME TypeInv, Stamped, Pruning,
         NEW r \in events, r \notin events', NEW q \in events'
  PROVE  r.received <= q.received
<1>1. ChainInv /\ RestOK /\ IsFiniteSet(events)
  BY TypeParts DEF TypeInv
<1>2. events' \subseteq events
  BY PruningKeeps DEF Keep
<1>3. \A p \in events : p.received \in Nat /\ p.id \in Nat
  BY <1>1, RowStamps
<1>4. CASE Keep({row \in events : ~Expired(row)})
  <2>1. clock \in Nat /\ RetentionDays \in Nat
    BY <1>1, StoreAssumption DEF RestOK
  <2>2. r.received < clock - RetentionDays /\ ~ (q.received < clock - RetentionDays)
    BY <1>4 DEF Keep, Expired
  <2> QED
    BY <1>2, <1>3, <2>1, <2>2
<1>5. ASSUME NEW m \in Nat, Keep(events \ Oldest(m)) PROVE r.received <= q.received
  <2> DEFINE before(p) == {o \in events : Older(o, p)}
  <2>1. r \in Oldest(m) /\ q \in events /\ q \notin Oldest(m)
    BY <1>5 DEF Keep
  <2>2. Cardinality(before(r)) < m /\ ~ (Cardinality(before(q)) < m)
    BY <2>1 DEF Oldest
  <2> SUFFICES ASSUME q.received < r.received PROVE FALSE
    BY <1>3, <2>1
  <2>3. before(q) \subseteq before(r)
    BY <1>3, <2>1 DEF Older
  <2>4. before(q) \subseteq events /\ before(r) \subseteq events
    OBVIOUS
  <2>5. /\ Cardinality(before(q)) <= Cardinality(before(r))
        /\ Cardinality(before(q)) \in Nat /\ Cardinality(before(r)) \in Nat
    BY <1>1, <2>3, <2>4, FS_Subset, FS_CardinalityType
  <2> QED
    BY <2>2, <2>5
<1> QED
  BY <1>4, <1>5 DEF Pruning

LEMMA UnalteredStays ==
  ASSUME ChainInv, Unaltered, RequestOK, UpkeepOK, RestOK, [Next]_vars
  PROVE  Unaltered'
<1>1. ASSUME NEW event, NEW at, Stores(event, at) PROVE Unaltered'
  <2>1. PICK id : Commit(event, at, id)
    BY <1>1 DEF Stores
  <2> DEFINE row == Chained(head, RowOf(event, at, id))
  <2>2. events' = events \cup {row} /\ log' = Append(log, row) /\ edits' = edits
    BY <1>1, <2>1 DEF Commit, Stores
  <2>3. row.seq = Len(log) + 1
    BY DEF Chained, ChainInv, HeadIsLast, GenesisHead, LogShape
  <2> HIDE DEF row
  <2>4. log'[Len(log) + 1] = row /\ \A i \in 1..Len(log) : log'[i] = log[i]
    BY <2>2, LogGrows DEF ChainInv
  <2>5. \A r \in events : r.seq \in 1..Len(log)
    BY DEF ChainInv, Genuine
  <2> QED
    BY <2>2, <2>3, <2>4, <2>5 DEF Unaltered
<1>2. CASE Pruning
  <2>1. events' \subseteq events /\ log' = log /\ edits' = edits
    BY <1>2, PruningKeeps DEF Keep, Pruning
  <2> QED
    BY <2>1 DEF Unaltered
<1>3. CASE EditRow \/ DeleteRow
  <2>1. edits' # 0
    BY <1>3 DEF EditRow, DeleteRow, RestOK
  <2> QED
    BY <2>1 DEF Unaltered
<1>4. CASE UNCHANGED <<store, edits>>
  BY <1>4 DEF store, Unaltered
<1> QED
  BY <1>1, <1>2, <1>3, <1>4, StoreStep

LEMMA CutsStay ==
  ASSUME TypeInv, Stamped, Unaltered, CutsAreLateCommits, [Next]_vars
  PROVE  CutsAreLateCommits'
<1>0. ChainInv /\ RequestOK /\ UpkeepOK /\ RestOK
  BY TypeParts DEF TypeInv
<1>1. ASSUME NEW event, NEW at, Stores(event, at) PROVE CutsAreLateCommits'
  <2>1. PICK id : Commit(event, at, id)
    BY <1>1 DEF Stores
  <2> DEFINE new == Chained(head, RowOf(event, at, id))
  <2>2. events' = events \cup {new} /\ log' = Append(log, new) /\ edits' = edits
    BY <1>1, <2>1 DEF Commit, Stores
  <2>3. new.seq = Len(log) + 1
    BY <1>0 DEF Chained, ChainInv, HeadIsLast, GenesisHead, LogShape
  <2> HIDE DEF new
  <2>4. /\ Len(log) \in Nat /\ Len(log') = Len(log) + 1
        /\ log'[Len(log) + 1] = new /\ \A i \in 1..Len(log) : log'[i] = log[i]
    BY <1>0, <2>2, LogGrows DEF ChainInv
  <2>5. ASSUME NEW i \in 1..Len(log'), log'[i] \notin events',
               NEW row \in events', row.seq < i, edits = 0
        PROVE  log'[i].received <= row.received
    <3>1. i \in 1..Len(log) /\ log'[i] = log[i] /\ row \in events
      BY <2>2, <2>3, <2>4, <2>5
    <3> QED
      BY <2>2, <2>5, <3>1 DEF CutsAreLateCommits
  <2> QED
    BY <2>2, <2>5 DEF CutsAreLateCommits
<1>2. CASE Pruning
  <2>1. events' \subseteq events /\ log' = log /\ edits' = edits
    BY <1>2, PruningKeeps DEF Keep, Pruning
  <2>2. ASSUME NEW i \in 1..Len(log), log[i] \notin events',
               NEW row \in events', row.seq < i, edits = 0
        PROVE  log[i].received <= row.received
    <3>1. CASE log[i] \in events
      BY <1>2, <2>2, <3>1, KeptAreNewer
    <3>2. CASE log[i] \notin events
      BY <2>1, <2>2, <3>2 DEF CutsAreLateCommits
    <3> QED
      BY <3>1, <3>2
  <2> QED
    BY <2>1, <2>2 DEF CutsAreLateCommits
<1>3. CASE EditRow \/ DeleteRow
  <2>1. edits' # 0
    BY <1>0, <1>3 DEF EditRow, DeleteRow, RestOK
  <2> QED
    BY <2>1 DEF CutsAreLateCommits
<1>4. CASE UNCHANGED <<store, edits>>
  BY <1>4 DEF store, CutsAreLateCommits
<1> QED
  BY <1>0, <1>1, <1>2, <1>3, <1>4, StoreStep

LEMMA PruneAfterIngest ==
  ASSUME PruneInv, NEW event, NEW at, Stores(event, at),
         TypeInv', Stamped', Unaltered', CutsAreLateCommits'
  PROVE  PruneInv'
<1>1. PICK id : Commit(event, at, id)
  BY DEF Stores
<1> DEFINE row == Chained(head, RowOf(event, at, id))
<1>2. events' = events \cup {row} /\ log' = Append(log, row) /\ edits' = edits
  BY <1>1 DEF Commit, Stores
<1> HIDE DEF row
<1> DEFINE n == Len(log)
<1>3. /\ n \in Nat /\ Len(log') = n + 1 /\ log'[n + 1] = row
      /\ \A i \in 1..n : log'[i] = log[i]
  BY <1>2, LogGrows DEF PruneInv, TypeInv, ChainInv
<1> SUFFICES ASSUME CommittedAsStamped', edits = 0
             PROVE  \E k \in 1..(Len(log') + 1) : events' = {log'[i] : i \in k..Len(log')}
  <2>1. ASSUME \E k \in 1..(Len(log') + 1) : events' = {log'[i] : i \in k..Len(log')}
        PROVE  (\E k \in 1..(Len(log) + 1) : events = Stretch(k, Len(log)))'
    BY <2>1 DEF Stretch
  <2> QED
    BY <1>2, <2>1, Zenon DEF PruneInv
<1>4. CommittedAsStamped
  <2> SUFFICES ASSUME NEW i \in 1..n, NEW j \in 1..n, i < j
               PROVE  log[i].received < log[j].received
    BY DEF CommittedAsStamped
  <2>1. i \in 1..Len(log') /\ j \in 1..Len(log') /\ log'[i] = log[i] /\ log'[j] = log[j]
    BY <1>3
  <2> QED
    BY <2>1 DEF CommittedAsStamped
<1>5. PICK k \in 1..(n + 1) : events = Stretch(k, n)
  BY <1>4 DEF PruneInv
<1>6. k..(n + 1) = (k..n) \cup {n + 1}
  BY <1>3
<1>7. \A i \in k..n : log'[i] = log[i]
  BY <1>3
<1>8. events' = {log'[i] : i \in k..(n + 1)}
  BY <1>2, <1>3, <1>5, <1>6, <1>7 DEF Stretch
<1>9. k \in 1..(Len(log') + 1)
  BY <1>3
<1> QED
  BY <1>3, <1>8, <1>9

LEMMA PruneAfterPruning ==
  ASSUME PruneInv, Pruning, TypeInv', Stamped', Unaltered', CutsAreLateCommits'
  PROVE  PruneInv'
<1>1. UNCHANGED <<log, edits>> /\ events' \subseteq events
  BY PruningKeeps DEF Pruning, Keep
<1> DEFINE n == Len(log)
<1>2. LogShape /\ n \in Nat
  BY DEF PruneInv, TypeInv, ChainInv, LogShape
<1> SUFFICES ASSUME CommittedAsStamped, edits = 0
             PROVE  \E k \in 1..(n + 1) : events' = Stretch(k, n)
  BY <1>1 DEF PruneInv, Stretch, CommittedAsStamped
<1>3. PICK k \in 1..(n + 1) : events = Stretch(k, n)
  BY DEF PruneInv
<1>4. ASSUME NEW i \in k..n, NEW j \in k..n, i < j, log[i] \in events'
      PROVE  log[j] \in events'
  <2>1. i \in 1..n /\ j \in 1..n /\ log[j] \in events
    BY <1>2, <1>3 DEF Stretch
  <2>2. /\ log[i].received < log[j].received
        /\ log[i].received \in Nat /\ log[j].received \in Nat
    BY <1>4, <2>1 DEF CommittedAsStamped, PruneInv, Stamped
  <2>3. log[j] \notin events' => log[j].received <= log[i].received
    BY <1>4, <2>1, KeptAreNewer DEF PruneInv
  <2> QED
    BY <2>2, <2>3
<1>5. \A i, j \in k..n : i < j /\ log[i] \in events' => log[j] \in events'
  BY <1>4
<1>6. events' \subseteq Stretch(k, n)
  BY <1>1, <1>3
<1> QED
  BY <1>2, <1>5, <1>6, LatestAreStretch

LEMMA PruneStep == ASSUME PruneInv, [Next]_vars PROVE PruneInv'
<1>0. ChainInv /\ RequestOK /\ UpkeepOK /\ RestOK
  BY TypeParts DEF PruneInv, TypeInv
<1>1. TypeInv' /\ Stamped' /\ Unaltered' /\ CutsAreLateCommits'
  BY <1>0, TypeInvStep, StampsStay, UnalteredStays, CutsStay DEF PruneInv
<1>2. ASSUME NEW event, NEW at, Stores(event, at) PROVE PruneInv'
  BY <1>1, <1>2, PruneAfterIngest
<1>3. CASE Pruning
  BY <1>1, <1>3, PruneAfterPruning
<1>4. CASE EditRow \/ DeleteRow
  <2>1. edits' # 0
    BY <1>0, <1>4 DEF EditRow, DeleteRow, RestOK
  <2> QED
    BY <1>1, <2>1 DEF PruneInv
<1>5. CASE UNCHANGED <<store, edits>>
  BY <1>1, <1>5 DEF store, PruneInv, CommittedAsStamped, Stretch
<1> QED
  BY <1>0, <1>2, <1>3, <1>4, <1>5, StoreStep

(***************************************************************************)
(* Where requests commit in the order of their stamps, what retention and  *)
(* eviction of any worker leave is a chain that verifies: both delete the  *)
(* oldest by collector_received_at.  Where they do not, a kept record is   *)
(* missing a later one only if that one was stamped no later than itself:  *)
(* a hole is a late commit's (store.py: prune, maintain; event_chain.py:   *)
(* verify_chain).                                                          *)
(***************************************************************************)
THEOREM OrderedPrunesVerify == Spec => []OrderedPrunesKeepChain
<1>1. Init => PruneInv
  <2> SUFFICES ASSUME Init PROVE PruneInv
    OBVIOUS
  <2>1. Len(log) = 0 /\ events = {}
    BY DEF Init
  <2>2. events = Stretch(1, Len(log)) /\ 1 \in 1..(Len(log) + 1)
    BY <2>1 DEF Stretch
  <2> QED
    BY <2>1, <2>2, TypeInvInit DEF PruneInv, Stamped, Unaltered, CutsAreLateCommits
<1>2. PruneInv /\ [Next]_vars => PruneInv'
  BY PruneStep
<1>3. PruneInv => OrderedPrunesKeepChain
  <2> SUFFICES ASSUME PruneInv, CommittedAsStamped, edits = 0, events # {}
               PROVE  ChainOK(events, head)
    BY DEF OrderedPrunesKeepChain, PruneKeepsChain, PruneInv
  <2>1. PICK k \in 1..(Len(log) + 1) : events = Stretch(k, Len(log))
    BY DEF PruneInv
  <2>2. LogShape /\ LinearLog /\ HeadIsLast /\ Len(log) \in Nat
    BY DEF PruneInv, TypeInv, ChainInv, LogShape
  <2>3. k \in 1..Len(log)
    BY <2>1, <2>2 DEF Stretch
  <2> QED
    BY <2>1, <2>2, <2>3, StretchVerifies
<1> QED
  BY <1>1, <1>2, <1>3, PTL DEF Spec

-----------------------------------------------------------------------------
(* Among subsets of a finite set, some subset is one of the smallest. *)
LEMMA SmallestSubset ==
  ASSUME NEW S, IsFiniteSet(S), NEW Bad \in SUBSET (SUBSET S), Bad # {}
  PROVE  \E u \in Bad : \A w \in Bad : Cardinality(u) <= Cardinality(w)
<1> DEFINE sizes == {Cardinality(u) : u \in Bad}
<1>1. \A u \in Bad : Cardinality(u) \in Nat
  BY FS_Subset, FS_CardinalityType
<1>2. sizes \in SUBSET Nat /\ sizes # {}
  BY <1>1
<1> HIDE DEF sizes
<1>3. PICK n \in sizes : \A m \in sizes : n <= m
  BY <1>2, LeastNumber
<1> QED
  BY <1>3 DEF sizes

(* The element that a fold over s takes first. *)
Pick(s) == CHOOSE x \in s : TRUE

(* g is the sum of f over each set of D. *)
SumsOver(g, f, D) ==
  g = [s \in D |-> IF s = {} THEN 0 ELSE f[Pick(s)] + g[s \ {Pick(s)}]]

LEMMA PickedOff ==
  ASSUME NEW S, IsFiniteSet(S), NEW s \in SUBSET S, s # {}
  PROVE  /\ Pick(s) \in s /\ s \ {Pick(s)} \in SUBSET S
         /\ Cardinality(s) \in Nat
         /\ Cardinality(s \ {Pick(s)}) = Cardinality(s) - 1
<1>1. Pick(s) \in s
  BY DEF Pick
<1>2. IsFiniteSet(s)
  BY FS_Subset
<1> QED
  BY <1>1, <1>2, FS_RemoveElement, FS_CardinalityType

(* The recursive sum over the subsets of a finite set is well defined. *)
LEMMA SumsExist ==
  ASSUME NEW S, IsFiniteSet(S), NEW f
  PROVE  \E g : SumsOver(g, f, SUBSET S)
<1> DEFINE small(n) == {s \in SUBSET S : Cardinality(s) <= n}
<1> DEFINE Bad == {n \in Nat : ~ \E g : SumsOver(g, f, small(n))}
<1>1. Bad = {}
  <2> SUFFICES ASSUME Bad # {} PROVE FALSE
    OBVIOUS
  <2>0. Bad \in SUBSET Nat
    OBVIOUS
  <2>1. PICK n \in Bad : \A m \in Bad : n <= m
    <3> HIDE DEF Bad
    <3> QED
      BY <2>0, LeastNumber
  <2>2. n \in Nat /\ ~ \E g : SumsOver(g, f, small(n))
    OBVIOUS
  <2>3. CASE n = 0
    <3> DEFINE g == [s \in small(0) |-> 0]
    <3>1. ASSUME NEW s \in small(0) PROVE s = {}
      BY PickedOff, FS_Subset, FS_CardinalityType, SMTT(30)
    <3>2. SumsOver(g, f, small(0))
      BY <3>1 DEF SumsOver
    <3> QED
      BY <2>2, <2>3, <3>2
  <2>4. CASE n # 0
    <3>1. n - 1 \in Nat /\ n - 1 \notin Bad
      <4>1. n - 1 \in Nat /\ ~ (n <= n - 1)
        BY <2>2, <2>4
      <4> HIDE DEF Bad
      <4> QED
        BY <2>1, <4>1
    <3>2. PICK g : SumsOver(g, f, small(n - 1))
      BY <3>1
    <3> DEFINE h == [s \in small(n) |->
                       IF s = {} THEN 0 ELSE f[Pick(s)] + g[s \ {Pick(s)}]]
    <3>3. ASSUME NEW s \in small(n - 1) PROVE s \in small(n) /\ h[s] = g[s]
      <4>1. Cardinality(s) \in Nat
        BY FS_Subset, FS_CardinalityType
      <4>2. s \in small(n)
        BY <4>1, <2>2
      <4>3. g[s] = IF s = {} THEN 0 ELSE f[Pick(s)] + g[s \ {Pick(s)}]
        BY <3>2 DEF SumsOver
      <4> QED
        BY <4>2, <4>3
    <3>4. ASSUME NEW s \in small(n), s # {}
          PROVE  h[s \ {Pick(s)}] = g[s \ {Pick(s)}]
      <4>1. s \ {Pick(s)} \in SUBSET S /\ Cardinality(s \ {Pick(s)}) <= n - 1
        BY <3>4, <2>2, PickedOff
      <4>2. s \ {Pick(s)} \in small(n - 1)
        BY <4>1
      <4> HIDE DEF h, small
      <4> QED
        BY <4>2, <3>3
    <3>5. \A s \in small(n) : h[s] = IF s = {} THEN 0 ELSE f[Pick(s)] + h[s \ {Pick(s)}]
      <4> HIDE DEF small
      <4>1. \A s \in small(n) : h[s] = IF s = {} THEN 0 ELSE f[Pick(s)] + g[s \ {Pick(s)}]
        OBVIOUS
      <4> HIDE DEF h
      <4> QED
        BY <3>4, <4>1
    <3>6. SumsOver(h, f, small(n))
      <4>1. h = [s \in small(n) |-> h[s]]
        OBVIOUS
      <4> HIDE DEF h, small
      <4>2. h = [s \in small(n) |-> IF s = {} THEN 0 ELSE f[Pick(s)] + h[s \ {Pick(s)}]]
        BY <3>5, <4>1
      <4> QED
        BY <4>2 DEF SumsOver
    <3> QED
      BY <2>2, <3>6
  <2> QED
    BY <2>3, <2>4
<1>2. Cardinality(S) \in Nat
  BY FS_CardinalityType
<1>3. SUBSET S = small(Cardinality(S))
  BY FS_Subset
<1> QED
  BY <1>1, <1>2, <1>3

(* What a sum over a finite index set is: the fold takes one index after another. *)
LEMMA SumUnfolds ==
  ASSUME NEW S, IsFiniteSet(S), NEW f, DOMAIN f = S
  PROVE  \E g : SumsOver(g, f, SUBSET S) /\ SumFunction(f) = g[S]
<1> DEFINE g == CHOOSE g : SumsOver(g, f, SUBSET S)
<1>1. SumsOver(g, f, SUBSET S)
  BY SumsExist
<1>2. SumFunction(f) = g[S]
  BY Zenon DEF SumFunction, SumFunctionOnSet, FoldFunctionOnSet, MapThenFoldSet,
     SumsOver, Pick
<1> QED
  BY <1>1, <1>2

(* A sum of numbers is a number. *)
LEMMA SumIsNumber ==
  ASSUME NEW S, IsFiniteSet(S), NEW f \in [S -> Nat]
  PROVE  SumFunction(f) \in Nat
<1>1. PICK g : SumsOver(g, f, SUBSET S) /\ SumFunction(f) = g[S]
  BY SumUnfolds
<1> DEFINE Bad == {s \in SUBSET S : g[s] \notin Nat}
<1> SUFFICES ASSUME Bad # {} PROVE FALSE
  BY <1>1
<1>2. PICK u \in Bad : \A w \in Bad : Cardinality(u) <= Cardinality(w)
  BY SmallestSubset
<1>3. g[u] = IF u = {} THEN 0 ELSE f[Pick(u)] + g[u \ {Pick(u)}]
  BY <1>1 DEF SumsOver
<1>4. u # {} /\ u \in SUBSET S
  BY <1>3
<1>5. f[Pick(u)] \in Nat /\ g[u \ {Pick(u)}] \in Nat
  BY <1>2, <1>4, PickedOff
<1> QED
  BY <1>3, <1>4, <1>5

(* Changing one term changes the sum by the difference. *)
LEMMA SumChanges ==
  ASSUME NEW S, IsFiniteSet(S), NEW f \in [S -> Nat], NEW p \in S, NEW v \in Nat
  PROVE  SumFunction([f EXCEPT ![p] = v]) = SumFunction(f) + v - f[p]
<1> DEFINE e == [f EXCEPT ![p] = v]
<1>0. e \in [S -> Nat]
  OBVIOUS
<1>1. PICK g : SumsOver(g, f, SUBSET S) /\ SumFunction(f) = g[S]
  BY SumUnfolds
<1>2. PICK h : SumsOver(h, e, SUBSET S) /\ SumFunction(e) = h[S]
  BY <1>0, SumUnfolds
<1> DEFINE Right(s) == /\ g[s] \in Int
                       /\ h[s] = IF p \in s THEN g[s] + v - f[p] ELSE g[s]
<1> DEFINE Bad == {s \in SUBSET S : ~ Right(s)}
<1>3. Bad = {}
  <2> SUFFICES ASSUME Bad # {} PROVE FALSE
    OBVIOUS
  <2>1. PICK u \in Bad : \A w \in Bad : Cardinality(u) <= Cardinality(w)
    BY SmallestSubset
  <2>2. /\ g[u] = IF u = {} THEN 0 ELSE f[Pick(u)] + g[u \ {Pick(u)}]
        /\ h[u] = IF u = {} THEN 0 ELSE e[Pick(u)] + h[u \ {Pick(u)}]
    BY <1>1, <1>2 DEF SumsOver
  <2>3. u # {} /\ u \in SUBSET S
    BY <2>2
  <2>4. Pick(u) \in u /\ Right(u \ {Pick(u)})
    BY <2>1, <2>3, PickedOff
  <2>5. f[Pick(u)] \in Nat /\ f[p] \in Nat
        /\ e[Pick(u)] = IF Pick(u) = p THEN v ELSE f[Pick(u)]
    BY <2>3, <2>4
  <2> HIDE DEF e
  <2>6. Right(u)
    BY <2>2, <2>3, <2>4, <2>5
  <2> QED
    BY <2>6
<1> QED
  BY <1>1, <1>2, <1>3

(* Smaller terms make a smaller sum. *)
LEMMA SumNoLess ==
  ASSUME NEW S, IsFiniteSet(S), NEW f \in [S -> Nat], NEW e \in [S -> Nat],
         \A x \in S : f[x] <= e[x]
  PROVE  SumFunction(f) <= SumFunction(e)
<1>1. PICK g : SumsOver(g, f, SUBSET S) /\ SumFunction(f) = g[S]
  BY SumUnfolds
<1>2. PICK h : SumsOver(h, e, SUBSET S) /\ SumFunction(e) = h[S]
  BY SumUnfolds
<1> DEFINE Right(s) == g[s] \in Nat /\ h[s] \in Nat /\ g[s] <= h[s]
<1> DEFINE Bad == {s \in SUBSET S : ~ Right(s)}
<1>3. Bad = {}
  <2> SUFFICES ASSUME Bad # {} PROVE FALSE
    OBVIOUS
  <2>1. PICK u \in Bad : \A w \in Bad : Cardinality(u) <= Cardinality(w)
    BY SmallestSubset
  <2>2. /\ g[u] = IF u = {} THEN 0 ELSE f[Pick(u)] + g[u \ {Pick(u)}]
        /\ h[u] = IF u = {} THEN 0 ELSE e[Pick(u)] + h[u \ {Pick(u)}]
    BY <1>1, <1>2 DEF SumsOver
  <2>3. u # {} /\ u \in SUBSET S
    BY <2>2
  <2>4. Pick(u) \in u /\ Right(u \ {Pick(u)})
    BY <2>1, <2>3, PickedOff
  <2>5. f[Pick(u)] \in Nat /\ e[Pick(u)] \in Nat /\ f[Pick(u)] <= e[Pick(u)]
    BY <2>3, <2>4
  <2>6. Right(u)
    BY <2>2, <2>3, <2>4, <2>5
  <2> QED
    BY <2>6
<1> QED
  BY <1>1, <1>2, <1>3

LEMMA SumOfZeros ==
  ASSUME NEW S, IsFiniteSet(S), NEW f \in [S -> Nat], \A x \in S : f[x] = 0
  PROVE  SumFunction(f) = 0
<1>1. PICK g : SumsOver(g, f, SUBSET S) /\ SumFunction(f) = g[S]
  BY SumUnfolds
<1> DEFINE Bad == {s \in SUBSET S : g[s] # 0}
<1> SUFFICES ASSUME Bad # {} PROVE FALSE
  BY <1>1
<1>2. PICK u \in Bad : \A w \in Bad : Cardinality(u) <= Cardinality(w)
  BY SmallestSubset
<1>3. g[u] = IF u = {} THEN 0 ELSE f[Pick(u)] + g[u \ {Pick(u)}]
  BY <1>1 DEF SumsOver
<1>4. u # {} /\ u \in SUBSET S
  BY <1>3
<1>5. f[Pick(u)] = 0 /\ g[u \ {Pick(u)}] = 0
  BY <1>2, <1>4, PickedOff
<1> QED
  BY <1>2, <1>3, <1>4, <1>5

-----------------------------------------------------------------------------
(* Evicting the n oldest rows leaves n rows fewer, or none.                  *)
LEMMA EvictedRows ==
  ASSUME TypeInv, Stamped, NEW n \in Nat
  PROVE  /\ IsFiniteSet(events \ Oldest(n))
         /\ \/ Cardinality(events \ Oldest(n)) = 0
            \/ Cardinality(events \ Oldest(n)) <= Cardinality(events) - n
<1> DEFINE rest == events \ Oldest(n)
<1> DEFINE before(r) == {q \in events : Older(q, r)}
<1>1. IsFiniteSet(events) /\ \A q \in events : q.received \in Nat /\ q.id \in Nat
  BY RowStamps DEF TypeInv
<1>2. IsFiniteSet(rest)
  <2>1. rest \subseteq events
    OBVIOUS
  <2> QED
    BY <1>1, <2>1, FS_Subset
<1>3. \A r \in events : IsFiniteSet(before(r)) /\ Cardinality(before(r)) \in Nat
  <2> SUFFICES ASSUME NEW r \in events
               PROVE  IsFiniteSet(before(r)) /\ Cardinality(before(r)) \in Nat
    OBVIOUS
  <2>1. before(r) \subseteq events
    OBVIOUS
  <2> QED
    BY <1>1, <2>1, FS_Subset, FS_CardinalityType
<1>4. CASE rest = {}
  BY <1>2, <1>4, FS_EmptySet
<1>5. CASE rest # {}
  <2> DEFINE ranks == {Cardinality(before(r)) : r \in rest}
  <2>1. ranks \in SUBSET Nat /\ ranks # {}
    BY <1>3, <1>5
  <2>2. PICK k \in ranks : \A m \in ranks : k <= m
    <3> HIDE DEF ranks
    <3> QED
      BY <2>1, LeastNumber
  <2>3. PICK x \in rest : \A y \in rest : Cardinality(before(x)) <= Cardinality(before(y))
    BY <2>2
  <2>4. ASSUME NEW y \in rest PROVE y \notin before(x)
    <3> SUFFICES ASSUME y \in before(x) PROVE FALSE
      OBVIOUS
    <3>1. before(y) \subseteq before(x) \ {y}
      BY <1>1 DEF Older
    <3>2. /\ IsFiniteSet(before(x) \ {y})
          /\ Cardinality(before(x) \ {y}) = Cardinality(before(x)) - 1
      <4> HIDE DEF before
      <4> QED
        BY <1>3, FS_RemoveElement
    <3>3. Cardinality(before(y)) <= Cardinality(before(x) \ {y})
      <4> HIDE DEF before
      <4> QED
        BY <3>1, <3>2, FS_Subset
    <3>4. Cardinality(before(x)) <= Cardinality(before(y))
      BY <2>3
    <3>5. Cardinality(before(x)) \in Nat /\ Cardinality(before(y)) \in Nat
      BY <1>3
    <3> HIDE DEF before
    <3> QED
      BY <3>2, <3>3, <3>4, <3>5
  <2>5. ~ (Cardinality(before(x)) < n)
    BY DEF Oldest
  <2>6. rest \subseteq events \ before(x) /\ before(x) \subseteq events
    BY <2>4
  <2>7. /\ IsFiniteSet(events \ before(x))
        /\ Cardinality(events \ before(x)) =
             Cardinality(events) - Cardinality(before(x))
    <3>1. events \cap before(x) = before(x)
      BY <2>6
    <3> HIDE DEF before
    <3> QED
      BY <1>1, <3>1, FS_Difference, Zenon
  <2>8. Cardinality(rest) <= Cardinality(events \ before(x))
    <3> HIDE DEF before, rest
    <3> QED
      BY <2>6, <2>7, FS_Subset
  <2>9. Cardinality(events) \in Nat /\ Cardinality(before(x)) \in Nat
        /\ Cardinality(rest) \in Nat
    BY <1>1, <1>2, <1>3, FS_CardinalityType
  <2> HIDE DEF before, rest
  <2>10. Cardinality(rest) <= Cardinality(events) - n
    BY <2>5, <2>7, <2>8, <2>9
  <2> QED
    BY <1>2, <2>10 DEF rest
<1> QED
  BY <1>4, <1>5

-----------------------------------------------------------------------------
(* Maintenance under way that will count the table after moment n, the       *)
(* moments being those at which it has been counted already.                 *)
Pending(act, at, n) ==
  {a \in Actors : \/ act[a].step \in {"retention", "count"}
                  \/ act[a].step = "evict" /\ at[a] > n}

(* The ingests that the actors of P took off the counters.                   *)
Held(act, P) == [a \in Actors |-> IF a \in P THEN act[a].seen ELSE 0]

(* What stays of the table once  over  of its oldest rows are gone: ingests  *)
(* that are counted, about to be counted or missed, and what the pending     *)
(* maintenance is to account for.  A starting process will count the table.  *)
Fits(size, over, credit, act, P) ==
  P \cap Processes = {} =>
    size <= MaxEvents + over + credit + SumFunction(Held(act, P))

(* Each actor that has counted the table leaves it within bounds, whatever   *)
(* becomes of those that counted it before.                                  *)
WithinLimits(size, credit, act, at) ==
  /\ Fits(size, 0, credit, act, Pending(act, at, 0))
  /\ \A a \in Actors :
       act[a].step = "evict" =>
         Fits(size, act[a].overflow, credit, act, Pending(act, at, at[a]))

Credit == SumFunction(since) + Cardinality(Uncounted) + missed

Busy(t) == upkeep[t].step # "none" => req[t].pc = "stored"

CapInv ==
  /\ TypeInv /\ Stamped
  /\ \A t \in Threads : Busy(t)
  /\ \E n \in Nat \ {0} : \E at \in [Actors -> 1..n] :
       WithinLimits(Cardinality(events), Credit, upkeep, at)

LEMMA ActorsAreFinite ==
  /\ IsFiniteSet(Actors) /\ IsFiniteSet(Threads) /\ IsFiniteSet(Processes)
  /\ MaxEvents \in Nat
BY StoreAssumption, FS_Union DEF Actors

LEMMA CountersAreNumbers ==
  ASSUME TypeInv
  PROVE  /\ Cardinality(events) \in Nat /\ Credit \in Nat
         /\ SumFunction(since) \in Nat /\ missed \in Nat
         /\ IsFiniteSet(Uncounted) /\ Cardinality(Uncounted) \in Nat
         /\ upkeep \in [Actors -> Upkeep] /\ since \in [Processes -> Nat]
<1>1. UpkeepOK
  BY TypeParts DEF TypeInv
<1>2. SumFunction(since) \in Nat
  BY <1>1, SumIsNumber, ActorsAreFinite DEF UpkeepOK
<1>3. IsFiniteSet(Uncounted) /\ Cardinality(Uncounted) \in Nat
  <2>1. Uncounted \subseteq Threads
    BY DEF Uncounted
  <2> QED
    BY <2>1, ActorsAreFinite, FS_Subset, FS_CardinalityType
<1>4. Cardinality(events) \in Nat
  BY FS_CardinalityType DEF TypeInv
<1> QED
  BY <1>1, <1>2, <1>3, <1>4 DEF UpkeepOK, Credit

LEMMA HeldIsNumber ==
  ASSUME NEW act \in [Actors -> Upkeep], NEW P
  PROVE  Held(act, P) \in [Actors -> Nat] /\ SumFunction(Held(act, P)) \in Nat
<1>1. \A a \in Actors : act[a].seen \in Nat
  BY DEF Upkeep
<1>2. Held(act, P) \in [Actors -> Nat]
  BY <1>1 DEF Held
<1> QED
  BY <1>2, SumIsNumber, ActorsAreFinite

(* More actors hold no less. *)
LEMMA HeldNoLess ==
  ASSUME NEW act \in [Actors -> Upkeep], NEW new \in [Actors -> Upkeep], NEW P, NEW Q,
         \A a \in Actors : a \in P => a \in Q /\ new[a].seen = act[a].seen
  PROVE  SumFunction(Held(act, P)) <= SumFunction(Held(new, Q))
<1>1. Held(act, P) \in [Actors -> Nat] /\ Held(new, Q) \in [Actors -> Nat]
  BY HeldIsNumber
<1>2. \A a \in Actors : act[a].seen \in Nat /\ new[a].seen \in Nat
  BY DEF Upkeep
<1>3. \A a \in Actors : Held(act, P)[a] <= Held(new, Q)[a]
  BY <1>2 DEF Held
<1> QED
  BY <1>1, <1>3, SumNoLess, ActorsAreFinite

(* An actor that joins, or leaves, brings or takes what it holds. *)
SameButFor(a, act, new, P, Q) ==
  \A b \in Actors \ {a} : new[b] = act[b] /\ (b \in P <=> b \in Q)

LEMMA HeldChanges ==
  ASSUME NEW act \in [Actors -> Upkeep], NEW new \in [Actors -> Upkeep], NEW P, NEW Q,
         NEW a \in Actors, SameButFor(a, act, new, P, Q)
  PROVE  SumFunction(Held(new, Q)) =
           SumFunction(Held(act, P)) + Held(new, Q)[a] - Held(act, P)[a]
<1> DEFINE f == Held(act, P)
<1> DEFINE v == Held(new, Q)[a]
<1>1. f \in [Actors -> Nat] /\ Held(new, Q) \in [Actors -> Nat] /\ v \in Nat
  BY HeldIsNumber
<1>2. \A b \in Actors : Held(new, Q)[b] = [f EXCEPT ![a] = v][b]
  BY DEF Held, SameButFor
<1> HIDE DEF f, v
<1>3. Held(new, Q) = [f EXCEPT ![a] = v]
  BY <1>1, <1>2
<1>4. SumFunction([f EXCEPT ![a] = v]) = SumFunction(f) + v - f[a]
  BY <1>1, SumChanges, ActorsAreFinite, ZenonT(60)
<1> QED
  BY <1>3, <1>4 DEF f, v

(* What keeps the bounds: nothing new counts the table, and what is allowed  *)
(* grows by as much as the table does.                                       *)
Carried(before, after, act, new, P, Q) ==
  /\ P \cap Processes \subseteq Q
  /\ before + SumFunction(Held(act, P)) <= after + SumFunction(Held(new, Q))

CarriedOver(size, credit, next, more, act, new, at) ==
  /\ \A a \in Actors : new[a].step = "evict" =>
       act[a].step = "evict" /\ new[a].overflow = act[a].overflow
  /\ \A n : Carried(next + credit, size + more, act, new,
                    Pending(act, at, n), Pending(new, at, n))

LEMMA LimitsCarried ==
  ASSUME NEW size \in Nat, NEW credit \in Nat, NEW next \in Nat, NEW more \in Nat,
         NEW act \in [Actors -> Upkeep], NEW new \in [Actors -> Upkeep], NEW at,
         CarriedOver(size, credit, next, more, act, new, at),
         WithinLimits(size, credit, act, at)
  PROVE  WithinLimits(next, more, new, at)
<1>1. ASSUME NEW over \in Nat, NEW n, Fits(size, over, credit, act, Pending(act, at, n))
      PROVE  Fits(next, over, more, new, Pending(new, at, n))
  <2> DEFINE P == Pending(act, at, n)
  <2> DEFINE Q == Pending(new, at, n)
  <2> DEFINE before == SumFunction(Held(act, P))
  <2> DEFINE after == SumFunction(Held(new, Q))
  <2>1. P \cap Processes \subseteq Q /\ next + credit + before <= size + more + after
    BY DEF CarriedOver, Carried
  <2>2. before \in Nat /\ after \in Nat
    BY HeldIsNumber
  <2>3. P \cap Processes = {} => size <= MaxEvents + over + credit + before
    BY <1>1 DEF Fits
  <2> HIDE DEF P, Q, before, after
  <2>4. Q \cap Processes = {} => next <= MaxEvents + over + more + after
    BY <2>1, <2>2, <2>3, ActorsAreFinite
  <2> QED
    BY <2>4 DEF Fits, Q, after
<1>2. \A a \in Actors : act[a].overflow \in Nat
  BY DEF Upkeep
<1> QED
  BY <1>1, <1>2 DEF WithinLimits, CarriedOver

(* Commits, counting, retention, an out-of-band change: as many are pending. *)
StillPending(act, new) ==
  \A a \in Actors :
    \/ new[a] = act[a]
    \/ {new[a].step, act[a].step} \subseteq {"retention", "count"} /\ new[a].seen = act[a].seen
    \/ {new[a].step, act[a].step} \cap {"retention", "count", "evict"} = {}

LEMMA LimitsWhilePending ==
  ASSUME NEW size \in Nat, NEW credit \in Nat, NEW next \in Nat, NEW more \in Nat,
         NEW act \in [Actors -> Upkeep], NEW new \in [Actors -> Upkeep], NEW at,
         StillPending(act, new), next + credit <= size + more,
         WithinLimits(size, credit, act, at)
  PROVE  WithinLimits(next, more, new, at)
<1>1. ASSUME NEW n
      PROVE  Carried(next + credit, size + more, act, new,
                     Pending(act, at, n), Pending(new, at, n))
  <2> DEFINE P == Pending(act, at, n)
  <2> DEFINE Q == Pending(new, at, n)
  <2>1. P \subseteq Q /\ \A a \in P : new[a].seen = act[a].seen
    BY DEF Pending, StillPending
  <2> HIDE DEF P, Q
  <2>2. SumFunction(Held(act, P)) <= SumFunction(Held(new, Q))
    BY <2>1, HeldNoLess
  <2>3. SumFunction(Held(act, P)) \in Nat /\ SumFunction(Held(new, Q)) \in Nat
    BY HeldIsNumber
  <2>4. next + credit + SumFunction(Held(act, P)) <= size + more + SumFunction(Held(new, Q))
    BY <2>2, <2>3
  <2> QED
    BY <2>1, <2>4 DEF Carried, P, Q
<1>2. \A a \in Actors : new[a].step = "evict" =>
        act[a].step = "evict" /\ new[a].overflow = act[a].overflow
  BY DEF StillPending
<1>3. CarriedOver(size, credit, next, more, act, new, at)
  BY <1>1, <1>2 DEF CarriedOver
<1> QED
  BY <1>3, LimitsCarried

(* One actor alone moves on. *)
Moves(a, act, new, u) == new[a] = u /\ \A b \in Actors \ {a} : new[b] = act[b]

LEMMA MovesOne ==
  ASSUME NEW act \in [Actors -> Upkeep], NEW a \in Actors, NEW u
  PROVE  Moves(a, act, [act EXCEPT ![a] = u], u)
BY DEF Moves

(* A thread takes what is counted off the counter, and starts maintenance.   *)
LEMMA LimitsAfterReset ==
  ASSUME NEW size \in Nat, NEW credit \in Nat, NEW more \in Nat, NEW v \in Nat,
         credit = more + v,
         NEW act \in [Actors -> Upkeep], NEW new \in [Actors -> Upkeep], NEW at,
         NEW t \in Actors, act[t].step = "reset",
         Moves(t, act, new, At("retention", v, 0)),
         WithinLimits(size, credit, act, at)
  PROVE  WithinLimits(size, more, new, at)
<1>0. /\ new[t].step = "retention" /\ new[t].seen = v
      /\ \A b \in Actors \ {t} : new[b] = act[b]
  BY DEF At, Moves
<1>1. ASSUME NEW n
      PROVE  Carried(size + credit, size + more, act, new,
                     Pending(act, at, n), Pending(new, at, n))
  <2> DEFINE P == Pending(act, at, n)
  <2> DEFINE Q == Pending(new, at, n)
  <2>1. t \notin P /\ t \in Q /\ \A b \in Actors \ {t} : (b \in P <=> b \in Q)
    BY <1>0 DEF Pending
  <2>2. P \cap Processes \subseteq Q
    BY <2>1 DEF Pending
  <2> HIDE DEF P, Q
  <2>3. SumFunction(Held(new, Q)) =
          SumFunction(Held(act, P)) + Held(new, Q)[t] - Held(act, P)[t]
    <3>1. SameButFor(t, act, new, P, Q)
      BY <1>0, <2>1 DEF SameButFor
    <3> QED
      BY <1>0, <3>1, HeldChanges
  <2>4. Held(new, Q)[t] = v /\ Held(act, P)[t] = 0
    BY <1>0, <2>1 DEF Held
  <2>5. SumFunction(Held(act, P)) \in Nat
    BY HeldIsNumber
  <2>6. size + credit + SumFunction(Held(act, P)) <= size + more + SumFunction(Held(new, Q))
    BY <2>3, <2>4, <2>5
  <2> QED
    BY <2>2, <2>6 DEF Carried, P, Q
<1>2. \A a \in Actors : new[a].step = "evict" =>
        act[a].step = "evict" /\ new[a].overflow = act[a].overflow
  BY <1>0
<1>3. CarriedOver(size, credit, size, more, act, new, at)
  BY <1>1, <1>2 DEF CarriedOver
<1> QED
  BY <1>3, LimitsCarried

(* Maintenance fails in a thread: what it held is missed.                    *)
LEMMA LimitsAfterFailure ==
  ASSUME NEW size \in Nat, NEW credit \in Nat, NEW more \in Nat,
         NEW act \in [Actors -> Upkeep], NEW new \in [Actors -> Upkeep], NEW at,
         NEW t \in Threads, Moves(t, act, new, NoUpkeep),
         more = credit + act[t].seen,
         WithinLimits(size, credit, act, at)
  PROVE  WithinLimits(size, more, new, at)
<1>0. /\ t \in Actors /\ t \notin Processes
      /\ new[t].step = "none" /\ \A b \in Actors \ {t} : new[b] = act[b]
      /\ act[t].seen \in Nat
  BY StoreAssumption DEF NoUpkeep, At, Upkeep, Actors, Moves
<1>1. ASSUME NEW n
      PROVE  Carried(size + credit, size + more, act, new,
                     Pending(act, at, n), Pending(new, at, n))
  <2> DEFINE P == Pending(act, at, n)
  <2> DEFINE Q == Pending(new, at, n)
  <2>1. t \notin Q /\ \A b \in Actors \ {t} : (b \in P <=> b \in Q)
    BY <1>0 DEF Pending
  <2>2. P \cap Processes \subseteq Q
    BY <1>0, <2>1 DEF Pending
  <2> HIDE DEF P, Q
  <2>3. SumFunction(Held(new, Q)) =
          SumFunction(Held(act, P)) + Held(new, Q)[t] - Held(act, P)[t]
    <3>1. SameButFor(t, act, new, P, Q)
      BY <1>0, <2>1 DEF SameButFor
    <3> QED
      BY <1>0, <3>1, HeldChanges
  <2>4. Held(new, Q)[t] = 0 /\ Held(act, P)[t] \in {0, act[t].seen}
    BY <1>0, <2>1 DEF Held
  <2>5. SumFunction(Held(act, P)) \in Nat
    BY HeldIsNumber
  <2>6. size + credit + SumFunction(Held(act, P)) <= size + more + SumFunction(Held(new, Q))
    BY <1>0, <2>3, <2>4, <2>5
  <2> QED
    BY <2>2, <2>6 DEF Carried, P, Q
<1>2. \A a \in Actors : new[a].step = "evict" =>
        act[a].step = "evict" /\ new[a].overflow = act[a].overflow
  BY <1>0
<1>3. CarriedOver(size, credit, size, more, act, new, at)
  BY <1>1, <1>2 DEF CarriedOver
<1> QED
  BY <1>3, LimitsCarried

(* A table within its capacity fits whatever is pending.                     *)
LEMMA FitsAnyway ==
  ASSUME NEW size \in Nat, NEW over \in Nat, NEW credit \in Nat,
         NEW act \in [Actors -> Upkeep], NEW P, size <= MaxEvents + over
  PROVE  Fits(size, over, credit, act, P)
<1>1. SumFunction(Held(act, P)) \in Nat
  BY HeldIsNumber
<1> QED
  BY <1>1, ActorsAreFinite DEF Fits

(* The table is counted, and there is nothing to evict.                      *)
LEMMA LimitsWithinCapacity ==
  ASSUME NEW size \in Nat, NEW credit \in Nat,
         size <= MaxEvents, NEW new \in [Actors -> Upkeep], NEW at
  PROVE  WithinLimits(size, credit, new, at)
<1>1. \A over \in Nat : \A P : Fits(size, over, credit, new, P)
  <2> SUFFICES ASSUME NEW over \in Nat, NEW P PROVE Fits(size, over, credit, new, P)
    OBVIOUS
  <2>1. size <= MaxEvents + over
    BY ActorsAreFinite
  <2> QED
    BY <2>1, FitsAnyway
<1>2. \A a \in Actors : new[a].overflow \in Nat
  BY DEF Upkeep
<1> QED
  BY <1>1, <1>2 DEF WithinLimits

(* The table is counted, and what is too much of it is to be evicted.        *)
LEMMA LimitsAfterCount ==
  ASSUME NEW size \in Nat, NEW credit \in Nat,
         NEW act \in [Actors -> Upkeep], NEW new \in [Actors -> Upkeep],
         NEW m \in Nat \ {0}, NEW at \in [Actors -> 1..m], NEW a \in Actors,
         act[a].step = "count",
         new = [act EXCEPT ![a] = At("evict", act[a].seen, size - MaxEvents)],
         WithinLimits(size, credit, act, at)
  PROVE  WithinLimits(size, credit, new, [at EXCEPT ![a] = m + 1])
<1> DEFINE later == [at EXCEPT ![a] = m + 1]
<1>0. /\ later[a] = m + 1 /\ \A b \in Actors : b # a => later[b] = at[b]
      /\ new[a].step = "evict" /\ new[a].seen = act[a].seen
      /\ new[a].overflow = size - MaxEvents
      /\ \A b \in Actors : b # a => new[b] = act[b]
      /\ \A b \in Actors : at[b] \in 1..m
  BY DEF At
<1> HIDE DEF later
<1>1. ASSUME NEW over \in Nat, NEW n \in 0..m,
             Fits(size, over, credit, act, Pending(act, at, n))
      PROVE  Fits(size, over, credit, new, Pending(new, later, n))
  <2> DEFINE P == Pending(act, at, n)
  <2>1. m + 1 > n
    OBVIOUS
  <2>2. Pending(new, later, n) = P
    BY <1>0, <2>1 DEF Pending
  <2>3. \A b \in Actors : new[b].seen = act[b].seen
    BY <1>0
  <2> HIDE DEF P
  <2>4. SumFunction(Held(new, P)) = SumFunction(Held(act, P))
    BY <2>3 DEF Held
  <2> QED
    BY <1>1, <2>2, <2>4 DEF Fits, P
<1>2. \A b \in Actors : act[b].overflow \in Nat
  BY DEF Upkeep
<1>3. Fits(size, 0, credit, new, Pending(new, later, 0))
  <2>1. Fits(size, 0, credit, act, Pending(act, at, 0)) /\ 0 \in Nat /\ 0 \in 0..m
    BY DEF WithinLimits
  <2> QED
    BY <1>1, <2>1, Zenon
<1>4. ASSUME NEW b \in Actors, new[b].step = "evict"
      PROVE  Fits(size, new[b].overflow, credit, new, Pending(new, later, later[b]))
  <2>1. CASE b = a
    <3>1. new[a].overflow = size - MaxEvents /\ new[a].overflow \in Nat
      BY <1>0 DEF Upkeep
    <3>2. size <= MaxEvents + new[a].overflow
      BY <3>1, ActorsAreFinite
    <3> QED
      BY <2>1, <3>1, <3>2, FitsAnyway
  <2>2. CASE b # a
    <3>1. new[b] = act[b] /\ later[b] = at[b] /\ at[b] \in 0..m
      BY <1>0, <2>2
    <3>2. Fits(size, act[b].overflow, credit, act, Pending(act, at, at[b]))
      BY <1>4, <3>1 DEF WithinLimits
    <3> QED
      BY <1>1, <1>2, <3>1, <3>2
  <2> QED
    BY <2>1, <2>2
<1>5. WithinLimits(size, credit, new, later)
  BY <1>3, <1>4 DEF WithinLimits
<1> QED
  BY <1>5 DEF later

(* The rows that were too much are evicted.                                  *)
LEMMA LimitsAfterEviction ==
  ASSUME NEW size \in Nat, NEW credit \in Nat, NEW less \in Nat,
         NEW act \in [Actors -> Upkeep], NEW new \in [Actors -> Upkeep],
         NEW m \in Nat \ {0}, NEW at \in [Actors -> 1..m], NEW a \in Actors,
         act[a].step = "evict", new = [act EXCEPT ![a] = NoUpkeep],
         less <= size, less = 0 \/ less <= size - act[a].overflow,
         WithinLimits(size, credit, act, at)
  PROVE  WithinLimits(less, credit, new, at)
<1>0. /\ new[a].step = "none" /\ \A b \in Actors : b # a => new[b] = act[b]
      /\ \A b \in Actors : at[b] \in Nat /\ act[b].overflow \in Nat
  BY DEF NoUpkeep, At, Upkeep
<1>1. ASSUME NEW over \in Nat, NEW n \in Nat,
             Fits(size, over, credit, act, Pending(act, at, n))
      PROVE  Fits(less, over, credit, new, Pending(new, at, n))
  <2>1. CASE less = 0
    <3>1. less <= MaxEvents + over
      BY <2>1, ActorsAreFinite
    <3> QED
      BY <3>1, FitsAnyway
  (* Whose eviction bounds the table: a's own, or one that counted after n.  *)
  <2>2. ASSUME NEW from \in Nat, NEW o \in Nat, less + o <= size + over,
               Fits(size, o, credit, act, Pending(act, at, from)),
               from >= n, from >= at[a]
        PROVE  Fits(less, over, credit, new, Pending(new, at, n))
    <3> DEFINE P == Pending(act, at, from)
    <3> DEFINE Q == Pending(new, at, n)
    <3>1. a \notin P /\ P \subseteq Q /\ P \subseteq Actors
      BY <1>0, <2>2 DEF Pending
    <3>2. P \cap Processes = {} => size <= MaxEvents + o + credit + SumFunction(Held(act, P))
      BY <2>2 DEF Fits
    <3> HIDE DEF P, Q
    <3>3. \A b \in Actors : b \in P => b \in Q /\ new[b].seen = act[b].seen
      BY <1>0, <3>1
    <3>4. /\ SumFunction(Held(act, P)) <= SumFunction(Held(new, Q))
          /\ SumFunction(Held(act, P)) \in Nat /\ SumFunction(Held(new, Q)) \in Nat
      BY <3>3, HeldNoLess, HeldIsNumber
    <3>5. Q \cap Processes = {} => less <= MaxEvents + over + credit + SumFunction(Held(new, Q))
      BY <2>2, <3>1, <3>2, <3>4, ActorsAreFinite
    <3> QED
      BY <3>5 DEF Fits, Q
  <2>3. CASE at[a] <= n
    <3>1. less + over <= size + over /\ n >= n /\ n >= at[a]
      BY <1>0, <2>3
    <3> QED
      BY <1>1, <2>2, <3>1, ZenonT(60)
  <2>4. CASE less <= size - act[a].overflow /\ n < at[a]
    <3>1. Fits(size, act[a].overflow, credit, act, Pending(act, at, at[a]))
      BY DEF WithinLimits
    <3>2. /\ less + act[a].overflow <= size + over
          /\ at[a] \in Nat /\ act[a].overflow \in Nat
          /\ at[a] >= n /\ at[a] >= at[a]
      BY <1>0, <2>4
    <3> QED
      BY <2>2, <3>1, <3>2, ZenonT(60)
  <2> QED
    BY <1>0, <2>1, <2>3, <2>4
<1> QED
  BY <1>0, <1>1 DEF WithinLimits

(* A worker that starts owes a count of the table before anything is quiet.  *)
LEMMA LimitsAfterRestart ==
  ASSUME NEW size, NEW credit, NEW act, NEW at,
         NEW p \in Processes, act[p] = UpkeepDue
  PROVE  WithinLimits(size, credit, act, at)
<1>1. \A n : p \in Pending(act, at, n)
  BY DEF Pending, UpkeepDue, At, Actors
<1> QED
  BY <1>1 DEF WithinLimits, Fits

(* A thread is in maintenance only between its commit and its answer.        *)
LEMMA BusyStep ==
  ASSUME RequestOK, UpkeepOK, \A t \in Threads : Busy(t), [Next]_vars
  PROVE  \A t \in Threads : Busy(t)'
<1> SUFFICES ASSUME NEW t \in Threads PROVE Busy(t)'
  OBVIOUS
<1> USE StoreAssumption DEF Busy, Idle, NoUpkeep, At
<1>0. /\ Busy(t) /\ t \in Actors /\ t \notin Processes
      /\ DOMAIN req = Threads /\ DOMAIN upkeep = Actors
  BY DEF RequestOK, UpkeepOK, Actors
<1>1. ASSUME NEW u \in Threads, Receive(u) PROVE Busy(t)'
  BY <1>0, <1>1 DEF Receive, Answer
<1>2. ASSUME NEW u \in Threads, Ingest(u) PROVE Busy(t)'
  <2>1. req[u] \in [pc : {"received", "stored"}, event : Offered, at : Nat]
    BY <1>2 DEF Ingest, RequestOK
  <2>2. CASE u = t
    <3>1. req'[t].pc = "stored"
      BY <1>0, <1>2, <2>1, <2>2 DEF Ingest
    <3> QED
      BY <3>1
  <2>3. CASE u # t
    <3>1. req'[t] = req[t] /\ upkeep'[t] = upkeep[t]
      BY <1>0, <1>2, <2>3 DEF Ingest
    <3> QED
      BY <1>0, <3>1
  <2> QED
    BY <2>2, <2>3
<1>3. ASSUME NEW u \in Threads, RejectDuplicate(u) \/ FailIngest(u) \/ Finish(u)
      PROVE  Busy(t)'
  BY <1>0, <1>3 DEF RejectDuplicate, FailIngest, Finish, Answer
<1>4. ASSUME NEW u \in Threads, FailUpkeep(u) PROVE Busy(t)'
  BY <1>0, <1>4 DEF FailUpkeep, Answer
<1>5. ASSUME NEW a \in Actors, Maintain(a) PROVE Busy(t)'
  <2>1. CASE Retention(a)
    BY <1>0, <2>1 DEF Retention
  <2>2. CASE CountOverflow(a)
    <3>1. /\ req' = req /\ upkeep[a].step = "count"
          /\ t # a => upkeep'[t] = upkeep[t]
      BY <1>0, <2>2 DEF CountOverflow
    <3> QED
      BY <1>0, <3>1
  <2>3. CASE DeleteOverflow(a)
    BY <1>0, <2>3 DEF DeleteOverflow
  <2> QED
    BY <1>5, <2>1, <2>2, <2>3 DEF Maintain
<1>6. ASSUME NEW p \in Processes, Restart(p) PROVE Busy(t)'
  BY <1>0, <1>6 DEF Restart
<1>7. CASE Tick \/ VerifyWalk \/ VerifyHead \/ EditRow \/ DeleteRow
  BY <1>0, <1>7 DEF Tick, VerifyWalk, VerifyHead, EditRow, DeleteRow
<1>8. CASE UNCHANGED vars
  BY <1>0, <1>8 DEF vars
<1>9. ASSUME NEW u \in Threads, CountIngest(u) PROVE Busy(t)'
  <2>1. /\ req' = req /\ upkeep[u].step # "none"
        /\ u # t => upkeep'[t] = upkeep[t]
    BY <1>0, <1>9 DEF CountIngest, ReadCounter, WriteCounter, CheckCounter, ResetCounter
  <2> QED
    BY <1>0, <2>1
<1> QED
  BY <1>1, <1>2, <1>3, <1>4, <1>5, <1>6, <1>7, <1>8, <1>9 DEF Next, Serve

(* Fewer rows, or a row altered: the table does not grow.                    *)
LEMMA TableShrinks ==
  ASSUME TypeInv
  PROVE  /\ \A rows \in SUBSET events : Keep(rows) =>
              Cardinality(events') \in Nat /\ Cardinality(events') <= Cardinality(events)
         /\ EditRow \/ DeleteRow =>
              Cardinality(events') \in Nat /\ Cardinality(events') <= Cardinality(events)
<1>1. IsFiniteSet(events) /\ Cardinality(events) \in Nat
  BY FS_CardinalityType DEF TypeInv
<1>2. ASSUME NEW rows \in SUBSET events
      PROVE Cardinality(rows) \in Nat /\ Cardinality(rows) <= Cardinality(events)
            /\ IsFiniteSet(rows)
  BY <1>1, FS_Subset, FS_CardinalityType
<1>3. ASSUME NEW row \in events, NEW e
      PROVE  /\ Cardinality((events \ {row}) \cup {e}) \in Nat
             /\ Cardinality((events \ {row}) \cup {e}) <= Cardinality(events)
  <2>1. IsFiniteSet(events \ {row}) /\ Cardinality(events \ {row}) = Cardinality(events) - 1
    BY <1>1, FS_RemoveElement
  <2>2. /\ IsFiniteSet((events \ {row}) \cup {e})
        /\ Cardinality((events \ {row}) \cup {e}) =
             IF e \in events \ {row} THEN Cardinality(events \ {row})
             ELSE Cardinality(events \ {row}) + 1
    BY <2>1, FS_AddElement, Zenon
  <2>3. Cardinality((events \ {row}) \cup {e}) \in Nat
    BY <2>2, FS_CardinalityType
  <2> QED
    BY <1>1, <2>1, <2>2, <2>3
<1>4. ASSUME NEW rows \in SUBSET events, Keep(rows)
      PROVE  Cardinality(events') \in Nat /\ Cardinality(events') <= Cardinality(events)
  BY <1>2, <1>4 DEF Keep
<1>5. ASSUME EditRow
      PROVE  Cardinality(events') \in Nat /\ Cardinality(events') <= Cardinality(events)
  <2>1. PICK row \in events, columns \in {"body", "copies"} :
          events' = (events \ {row}) \cup {Edited(row, columns)}
    BY <1>5, EditedRow
  <2> QED
    BY <1>3, <2>1
<1>6. ASSUME DeleteRow
      PROVE  Cardinality(events') \in Nat /\ Cardinality(events') <= Cardinality(events)
  <2>1. PICK row \in events : events' = events \ {row}
    BY <1>6 DEF DeleteRow
  <2>2. events \ {row} \in SUBSET events
    OBVIOUS
  <2> QED
    BY <1>2, <2>1, <2>2
<1> QED
  BY <1>4, <1>5, <1>6

(* An ingest adds one row, whose number no row has.                          *)
LEMMA TableGrows ==
  ASSUME TypeInv, NEW event, NEW at, NEW id, Commit(event, at, id)
  PROVE  Cardinality(events') = Cardinality(events) + 1
<1> DEFINE row == Chained(head, RowOf(event, at, id))
<1>1. events' = events \cup {row} /\ row.seq = head.seq + 1
  BY DEF Commit, Chained
<1>2. head.seq = Len(log) /\ Len(log) \in Nat /\ \A r \in events : r.seq \in 1..Len(log)
  <2>1. LogShape /\ HeadIsLast /\ Genuine(events)
    BY DEF TypeInv, ChainInv
  <2>2. Len(log) \in Nat
    BY <2>1 DEF LogShape
  <2>3. head.seq = Len(log)
    BY <2>1, <2>2 DEF HeadIsLast, GenesisHead
  <2>4. \A r \in events : r.seq \in 1..Len(log)
    BY <2>1 DEF Genuine
  <2> QED
    BY <2>2, <2>3, <2>4
<1> HIDE DEF row
<1>3. row \notin events
  BY <1>1, <1>2
<1> QED
  BY <1>1, <1>3, FS_AddElement DEF TypeInv

(* What counting does to the credit: a lost update is missed, and a reset    *)
(* hands what it takes to the maintenance it starts.                         *)
LEMMA CreditOfCounting ==
  ASSUME TypeInv, NEW t \in Threads,
         ReadCounter(t) \/ WriteCounter(t) \/ CheckCounter(t)
  PROVE  Credit' \in Nat /\ Credit <= Credit'
<1> DEFINE p == ProcessOf[t]
<1>0. /\ p \in Processes /\ t \in Actors /\ t \in Threads
      /\ upkeep \in [Actors -> Upkeep] /\ since \in [Processes -> Nat]
      /\ SumFunction(since) \in Nat /\ missed \in Nat /\ since[p] \in Nat
      /\ IsFiniteSet(Uncounted) /\ Cardinality(Uncounted) \in Nat /\ Credit \in Nat
      /\ upkeep[t].seen \in Nat
  BY CountersAreNumbers, StoreAssumption DEF Actors, Upkeep
<1>1. CASE ReadCounter(t)
  <2>1. UNCHANGED <<since, missed>> /\ Uncounted' = Uncounted
    BY <1>0, <1>1 DEF ReadCounter, Uncounted, At
  <2> QED
    BY <1>0, <2>1 DEF Credit
<1>2. CASE CheckCounter(t)
  <2>1. /\ UNCHANGED <<since, missed>> /\ upkeep[t].step = "check"
        /\ upkeep' = [upkeep EXCEPT ![t] = upkeep'[t]]
        /\ upkeep'[t].step \in {"none", "reset"}
    BY <1>0, <1>2 DEF CheckCounter, NoUpkeep, At
  <2>2. \A u \in Threads : upkeep'[u].step \in {"read", "write"} <=>
                           upkeep[u].step \in {"read", "write"}
    BY <1>0, <2>1 DEF Actors
  <2>3. Uncounted' = Uncounted
    BY <2>2 DEF Uncounted
  <2> QED
    BY <1>0, <2>1, <2>3 DEF Credit
<1>3. CASE WriteCounter(t)
  <2> DEFINE seen == upkeep[t].seen
  <2>1. /\ since' = [since EXCEPT ![p] = seen + 1]
        /\ missed' = IF since[p] > seen THEN missed + (since[p] - seen) ELSE missed
        /\ upkeep[t].step = "write" /\ upkeep' = [upkeep EXCEPT ![t] = At("check", 0, 0)]
    BY <1>3 DEF WriteCounter
  <2>2. Uncounted' = Uncounted \ {t} /\ t \in Uncounted
    BY <1>0, <2>1 DEF Uncounted, At, Actors
  <2>3. Cardinality(Uncounted') = Cardinality(Uncounted) - 1
    BY <1>0, <2>2, FS_RemoveElement
  <2>4. SumFunction(since') = SumFunction(since) + (seen + 1) - since[p]
    <3>1. PICK v \in Nat : v = seen + 1
      BY <1>0
    <3>2. SumFunction([since EXCEPT ![p] = v]) = SumFunction(since) + v - since[p]
      BY <1>0, ActorsAreFinite, SumChanges, ZenonT(60)
    <3> QED
      BY <2>1, <3>1, <3>2
  <2>5. Credit' = SumFunction(since') + Cardinality(Uncounted') + missed'
    BY DEF Credit
  <2> HIDE DEF seen
  <2>6. PICK s \in Nat, c \in Nat, b \in Nat, w \in Nat :
          /\ s = SumFunction(since) /\ c = Cardinality(Uncounted)
          /\ b = since[p] /\ w = seen
    BY <1>0 DEF seen
  <2>7. Credit = s + c + missed
    BY <2>6 DEF Credit
  <2>8. Credit' = s + (w + 1) - b + (c - 1) + (IF b > w THEN missed + (b - w) ELSE missed)
    BY <2>1, <2>3, <2>4, <2>5, <2>6
  <2>9. c # 0
    BY <1>0, <2>2, <2>6, FS_EmptySet
  <2>10. Credit' - Credit = IF b > w THEN 0 ELSE w - b
    BY <1>0, <2>6, <2>7, <2>8
  <2> QED
    BY <1>0, <2>6, <2>7, <2>8, <2>10
<1> QED
  BY <1>1, <1>2, <1>3

LEMMA CreditOfReset ==
  ASSUME TypeInv, NEW t \in Threads, ResetCounter(t)
  PROVE  /\ Credit' = Credit - since[ProcessOf[t]]
         /\ since[ProcessOf[t]] \in Nat
<1> DEFINE p == ProcessOf[t]
<1>0. /\ p \in Processes /\ t \in Actors
      /\ upkeep \in [Actors -> Upkeep] /\ since \in [Processes -> Nat]
      /\ SumFunction(since) \in Nat /\ missed \in Nat /\ since[p] \in Nat
      /\ Cardinality(Uncounted) \in Nat
  BY CountersAreNumbers, StoreAssumption DEF Actors
<1>1. /\ since' = [since EXCEPT ![p] = 0] /\ missed' = missed
      /\ upkeep[t].step = "reset"
      /\ upkeep' = [upkeep EXCEPT ![t] = At("retention", since[p], 0)]
  BY DEF ResetCounter
<1>2. Uncounted' = Uncounted
  BY <1>0, <1>1 DEF Uncounted, At, Actors
<1>3. SumFunction(since') = SumFunction(since) + 0 - since[p]
  <2>1. SumFunction([since EXCEPT ![p] = 0]) = SumFunction(since) + 0 - since[p]
    <3>1. PICK v \in Nat : v = 0
      OBVIOUS
    <3>2. SumFunction([since EXCEPT ![p] = v]) = SumFunction(since) + v - since[p]
      BY <1>0, ActorsAreFinite, SumChanges, ZenonT(60)
    <3> QED
      BY <3>1, <3>2
  <2> QED
    BY <1>1, <2>1
<1> QED
  BY <1>0, <1>1, <1>2, <1>3 DEF Credit

(* Every step keeps the bound of each moment at which the table was counted. *)
LEMMA CapStep == ASSUME CapInv, [Next]_vars PROVE CapInv'
<1>1. ChainInv /\ RequestOK /\ UpkeepOK /\ TypeInv /\ Stamped
      /\ \A t \in Threads : Busy(t)
  BY TypeParts DEF CapInv, TypeInv
<1>2. TypeInv' /\ Stamped' /\ \A t \in Threads : Busy(t)'
  BY <1>1, TypeInvStep, StampsStay, BusyStep
<1> DEFINE size == Cardinality(events)
<1> DEFINE credit == Credit
<1>3. /\ size \in Nat /\ credit \in Nat /\ missed \in Nat
      /\ IsFiniteSet(Uncounted) /\ Cardinality(Uncounted) \in Nat
      /\ SumFunction(since) \in Nat
      /\ upkeep \in [Actors -> Upkeep] /\ since \in [Processes -> Nat]
  BY <1>1, CountersAreNumbers
<1>4. /\ Cardinality(events') \in Nat /\ Credit' \in Nat
      /\ upkeep' \in [Actors -> Upkeep]
  <2>1. (/\ Cardinality(events) \in Nat /\ Credit \in Nat
         /\ upkeep \in [Actors -> Upkeep])'
    BY <1>2, CountersAreNumbers, PTL
  <2> QED
    BY <2>1 DEF Actors, Upkeep
<1>5. PICK n \in Nat \ {0} : \E at \in [Actors -> 1..n] :
        WithinLimits(size, credit, upkeep, at)
  BY DEF CapInv
<1>6. PICK at \in [Actors -> 1..n] : WithinLimits(size, credit, upkeep, at)
  BY <1>5
<1>7. ASSUME NEW m \in Nat \ {0}, NEW new \in [Actors -> 1..m],
             WithinLimits(Cardinality(events'), Credit', upkeep', new)
      PROVE  CapInv'
  BY <1>2, <1>7 DEF CapInv
<1>8. ASSUME UNCHANGED <<events, since, missed, upkeep>> PROVE CapInv'
  <2>1. Credit' = Credit
    BY <1>8 DEF Credit, Uncounted
  <2> QED
    BY <1>6, <1>7, <1>8, <2>1
<1> HIDE DEF size, credit
<1>9. ASSUME StillPending(upkeep, upkeep'),
             Cardinality(events') + credit <= size + Credit'
      PROVE  CapInv'
  <2>1. WithinLimits(Cardinality(events'), Credit', upkeep', at)
    BY <1>3, <1>4, <1>6, <1>9, LimitsWhilePending, Zenon
  <2> QED
    BY <1>6, <1>7, <2>1
<1>10. ASSUME NEW t \in Threads, Ingest(t) PROVE CapInv'
  <2>1. t \in Actors
    BY DEF Actors
  <2>2. /\ req[t].pc = "received" /\ UNCHANGED <<since, missed>>
        /\ upkeep' = [upkeep EXCEPT ![t] = At("read", 0, 0)]
    BY <1>10 DEF Ingest
  <2>3. PICK id : Commit(req[t].event, req[t].at, id)
    BY <1>10 DEF Ingest
  <2>4. Cardinality(events') = size + 1
    BY <1>1, <2>3, TableGrows DEF size
  <2>5. upkeep[t].step = "none"
    BY <1>1, <2>2 DEF Busy
  <2>6. Uncounted' = Uncounted \cup {t} /\ t \notin Uncounted
    BY <1>3, <2>1, <2>2, <2>5 DEF Uncounted, At, Actors
  <2>7. Cardinality(Uncounted') = Cardinality(Uncounted) + 1
    BY <1>3, <2>6, FS_AddElement
  <2>8. Credit' = credit + 1
    BY <1>3, <2>2, <2>7 DEF Credit, credit
  <2>9. StillPending(upkeep, upkeep')
    BY <1>3, <2>1, <2>2, <2>5 DEF StillPending, At
  <2>10. Cardinality(events') + credit <= size + Credit'
    BY <1>3, <2>4, <2>8
  <2> QED
    BY <1>9, <2>9, <2>10
<1>11. ASSUME NEW t \in Threads, CountIngest(t) PROVE CapInv'
  <2>1. t \in Actors /\ events' = events
    BY <1>11, CountingKeeps DEF Actors, store
  <2>2. CASE ReadCounter(t) \/ WriteCounter(t) \/ CheckCounter(t)
    <3>1. StillPending(upkeep, upkeep')
      BY <1>3, <2>1, <2>2
         DEF ReadCounter, WriteCounter, CheckCounter, StillPending, At, NoUpkeep
    <3>2. Credit <= Credit'
      BY <1>1, <2>2, CreditOfCounting
    <3>3. Cardinality(events') + credit <= size + Credit'
      BY <1>3, <1>4, <2>1, <3>2 DEF size, credit
    <3> QED
      BY <1>9, <3>1, <3>3
  <2>3. CASE ResetCounter(t)
    <3>1. PICK v \in Nat : v = since[ProcessOf[t]] /\ Credit' = credit - v
      BY <1>1, <2>3, CreditOfReset DEF credit
    <3>2. upkeep[t].step = "reset" /\ upkeep' = [upkeep EXCEPT ![t] = At("retention", v, 0)]
      BY <2>3, <3>1 DEF ResetCounter
    <3>3. credit = Credit' + v
      BY <1>3, <1>4, <3>1
    <3>6. Moves(t, upkeep, upkeep', At("retention", v, 0)) /\ upkeep[t].step = "reset"
      BY <1>3, <2>1, <3>2, MovesOne, Zenon
    <3>7. WithinLimits(size, credit, upkeep, at)
      BY <1>6
    <3>4. PICK more \in Nat : more = Credit' /\ credit = more + v
      BY <1>4, <3>3
    <3>5. WithinLimits(size, more, upkeep', at)
      BY <1>3, <1>4, <2>1, <3>4, <3>6, <3>7, LimitsAfterReset
    <3> QED
      BY <1>6, <1>7, <2>1, <3>4, <3>5 DEF size
  <2> QED
    BY <1>11, <2>2, <2>3 DEF CountIngest
<1>12. ASSUME NEW t \in Threads, FailUpkeep(t) PROVE CapInv'
  <2>1. /\ UNCHANGED <<events, since>> /\ missed' = missed + upkeep[t].seen
        /\ upkeep' = [upkeep EXCEPT ![t] = NoUpkeep] /\ Maintaining(t)
        /\ t \in Actors
    BY <1>12 DEF FailUpkeep, store, Actors
  <2>2. Uncounted' = Uncounted
    BY <1>3, <2>1 DEF Uncounted, NoUpkeep, At, Maintaining, Actors
  <2>3. upkeep[t].seen \in Nat
    BY <1>3, <2>1 DEF Upkeep
  <2>4. Credit' = credit + upkeep[t].seen
    BY <1>3, <2>1, <2>2, <2>3 DEF Credit, credit
  <2>6. Moves(t, upkeep, upkeep', NoUpkeep)
    BY <1>3, <2>1, MovesOne, Zenon
  <2>5. WithinLimits(size, Credit', upkeep', at)
    BY <1>3, <1>4, <1>6, <2>1, <2>4, <2>6, LimitsAfterFailure, ZenonT(60)
  <2> QED
    BY <1>6, <1>7, <2>1, <2>5 DEF size
<1>13. ASSUME NEW t \in Threads, Serve(t) PROVE CapInv'
  <2>1. CASE Ingest(t) \/ FailUpkeep(t) \/ CountIngest(t)
    BY <1>10, <1>11, <1>12, <2>1
  <2>2. CASE Receive(t) \/ RejectDuplicate(t) \/ FailIngest(t) \/ Finish(t)
    BY <1>8, <2>2 DEF Receive, RejectDuplicate, FailIngest, Finish, store
  <2> QED
    BY <1>13, <2>1, <2>2 DEF Serve
<1>14. ASSUME Cardinality(events') <= size, UNCHANGED <<since, missed, upkeep>>
       PROVE  CapInv'
  <2>1. Credit' = credit
    BY <1>14 DEF Credit, Uncounted, credit
  <2>2. StillPending(upkeep, upkeep')
    BY <1>14 DEF StillPending
  <2>3. Cardinality(events') + credit <= size + Credit'
    BY <1>3, <1>4, <1>14, <2>1
  <2> QED
    BY <1>9, <2>2, <2>3
<1>15. ASSUME NEW a \in Actors, Retention(a) PROVE CapInv'
  <2>1. Cardinality(events') <= size
    <3>1. CASE RetentionDays = 0
      BY <1>3, <1>15, <3>1 DEF Retention, store, size
    <3>2. CASE RetentionDays # 0
      <4>1. Keep({row \in events : ~Expired(row)})
        BY <1>15, <3>2 DEF Retention
      <4>2. {row \in events : ~Expired(row)} \in SUBSET events
        OBVIOUS
      <4> QED
        BY <1>1, <4>1, <4>2, TableShrinks DEF size
    <3> QED
      BY <3>1, <3>2
  <2>2. /\ UNCHANGED <<since, missed>> /\ upkeep[a].step = "retention"
        /\ upkeep' = [upkeep EXCEPT ![a].step = "count"]
    BY <1>15 DEF Retention
  <2>3. upkeep'[a].step = "count" /\ upkeep'[a].seen = upkeep[a].seen
    <3>1. upkeep[a] \in Upkeep
      BY <1>3
    <3>2. upkeep'[a] = [upkeep[a] EXCEPT !.step = "count"]
      BY <1>3, <2>2
    <3> QED
      BY <3>1, <3>2 DEF Upkeep
  <2>4. \A b \in Actors \ {a} : upkeep'[b] = upkeep[b]
    BY <1>3, <2>2
  <2>5. StillPending(upkeep, upkeep')
    BY <2>2, <2>3, <2>4 DEF StillPending
  <2>6. Uncounted' = Uncounted
    BY <1>3, <2>2, <2>3, <2>4 DEF Uncounted, Actors
  <2>7. Credit' = credit
    BY <2>2, <2>6 DEF Credit, credit
  <2>8. Cardinality(events') + credit <= size + Credit'
    BY <1>3, <1>4, <2>1, <2>7
  <2> QED
    BY <1>9, <2>5, <2>8
<1>16. ASSUME NEW a \in Actors, upkeep[a].step \in {"count", "evict"},
              UNCHANGED <<since, missed>>, NEW u,
              upkeep' = [upkeep EXCEPT ![a] = u], u.step \in {"none", "evict"}
       PROVE  Credit' = credit
  <2>1. Uncounted' = Uncounted
    BY <1>3, <1>16 DEF Uncounted, Actors
  <2> QED
    BY <1>16, <2>1 DEF Credit, credit
<1>17. ASSUME NEW a \in Actors, CountOverflow(a) PROVE CapInv'
  <2> DEFINE u == IF size - MaxEvents > 0
                  THEN At("evict", upkeep[a].seen, size - MaxEvents) ELSE NoUpkeep
  <2>1. /\ UNCHANGED <<events, since, missed>> /\ upkeep[a].step = "count"
        /\ upkeep' = [upkeep EXCEPT ![a] = u]
    BY <1>17 DEF CountOverflow, store, size
  <2>2. u.step \in {"none", "evict"}
    BY DEF At, NoUpkeep
  <2> HIDE DEF u
  <2>3. Credit' = credit
    BY <1>16, <2>1, <2>2
  <2>4. CASE size - MaxEvents > 0
    <3>1. upkeep' = [upkeep EXCEPT ![a] = At("evict", upkeep[a].seen, size - MaxEvents)]
      BY <2>1, <2>4 DEF u
    <3>2. WithinLimits(size, credit, upkeep', [at EXCEPT ![a] = n + 1])
      BY <1>3, <1>4, <1>6, <2>1, <3>1, LimitsAfterCount, ZenonT(60)
    <3>3. n + 1 \in Nat \ {0} /\ [at EXCEPT ![a] = n + 1] \in [Actors -> 1..(n + 1)]
      OBVIOUS
    <3> QED
      BY <1>7, <2>1, <2>3, <3>2, <3>3 DEF size
  <2>5. CASE ~(size - MaxEvents > 0)
    <3>1. size <= MaxEvents
      BY <1>3, <2>5, StoreAssumption
    <3>2. WithinLimits(size, credit, upkeep', at)
      BY <1>3, <1>4, <3>1, LimitsWithinCapacity, Zenon
    <3> QED
      BY <1>6, <1>7, <2>1, <2>3, <3>2 DEF size
  <2> QED
    BY <2>4, <2>5
<1>18. ASSUME NEW a \in Actors, DeleteOverflow(a) PROVE CapInv'
  <2> DEFINE o == upkeep[a].overflow
  <2>1. /\ UNCHANGED <<since, missed>> /\ upkeep[a].step = "evict"
        /\ upkeep' = [upkeep EXCEPT ![a] = NoUpkeep]
        /\ Keep(events \ Oldest(o))
    BY <1>18 DEF DeleteOverflow
  <2>2. events' = events \ Oldest(o) /\ o \in Nat
    BY <1>3, <2>1 DEF Keep, Upkeep
  <2>3. Cardinality(events') = 0 \/ Cardinality(events') <= size - o
    BY <1>1, <2>2, EvictedRows DEF size
  <2>4. Cardinality(events') <= size
    <3>1. events \ Oldest(o) \in SUBSET events
      OBVIOUS
    <3> QED
      BY <1>1, <2>1, <3>1, TableShrinks DEF size
  <2>5. WithinLimits(Cardinality(events'), credit, upkeep', at)
    BY <1>3, <1>4, <1>6, <2>1, <2>3, <2>4, LimitsAfterEviction, ZenonT(60)
  <2>6. NoUpkeep.step = "none"
    BY DEF NoUpkeep, At
  <2>7. Credit' = credit
    BY <1>16, <2>1, <2>6
  <2> QED
    BY <1>6, <1>7, <2>5, <2>7
<1>19. ASSUME NEW p \in Processes, Restart(p) PROVE CapInv'
  <2>1. p \in Actors /\ upkeep'[p] = UpkeepDue
    BY <1>19, StoreAssumption DEF Restart, Actors
  <2>2. WithinLimits(Cardinality(events'), Credit', upkeep', at)
    BY <2>1, LimitsAfterRestart, Zenon
  <2> QED
    BY <1>6, <1>7, <2>2
<1>20. CASE EditRow \/ DeleteRow
  <2>1. UNCHANGED <<since, missed, upkeep>>
    BY <1>20 DEF EditRow, DeleteRow
  <2>2. Cardinality(events') <= size
    BY <1>1, <1>20, TableShrinks DEF size
  <2> QED
    BY <1>14, <2>1, <2>2
<1>21. CASE Tick \/ VerifyWalk \/ VerifyHead
  BY <1>8, <1>21 DEF Tick, VerifyWalk, VerifyHead, store
<1>22. CASE UNCHANGED vars
  BY <1>8, <1>22 DEF vars
<1> QED
  BY <1>13, <1>15, <1>17, <1>18, <1>19, <1>20, <1>21, <1>22 DEF Next, Maintain

(***************************************************************************)
(* However the threads of the workers interleave in committing, counting   *)
(* on a shared counter, maintaining, failing and restarting, once no       *)
(* maintenance is under way the table exceeds its capacity by no more than *)
(* the ingests counted since, those about to be counted, and those missed: *)
(* overwritten on the counter, or wiped off it by maintenance that failed  *)
(* (store.py: ingest, maintain).                                           *)
(***************************************************************************)
THEOREM CapacityIsBounded == Spec => []CapacityBounded
<1>1. Init => CapInv
  <2> SUFFICES ASSUME Init PROVE CapInv
    OBVIOUS
  <2>1. TypeInv
    BY TypeInvInit
  <2>2. Stamped /\ \A t \in Threads : Busy(t)
    BY StoreAssumption DEF Init, Stamped, Busy, NoUpkeep, UpkeepDue, At, Actors
  <2>3. Cardinality(events) = 0
    BY FS_EmptySet DEF Init
  <2>4. Credit \in Nat /\ upkeep \in [Actors -> Upkeep]
    BY <2>1, CountersAreNumbers
  <2> DEFINE at == [a \in Actors |-> 1]
  <2>5. Cardinality(events) <= MaxEvents /\ Cardinality(events) \in Nat
    BY <2>3, ActorsAreFinite
  <2>6. WithinLimits(Cardinality(events), Credit, upkeep, at)
    BY <2>4, <2>5, LimitsWithinCapacity, Zenon
  <2>7. at \in [Actors -> 1..1] /\ 1 \in Nat \ {0}
    OBVIOUS
  <2> HIDE DEF at
  <2> QED
    BY <2>1, <2>2, <2>6, <2>7 DEF CapInv
<1>2. CapInv /\ [Next]_vars => CapInv'
  BY CapStep
<1>3. CapInv => CapacityBounded
  <2> SUFFICES ASSUME CapInv, \A a \in Actors : ~Maintaining(a)
               PROVE  Cardinality(events) <= MaxEvents + Credit
    <3>1. CapInv => /\ SumFunction(since) \in Nat /\ missed \in Nat
                    /\ Cardinality(Uncounted) \in Nat /\ MaxEvents \in Nat
      BY CountersAreNumbers, ActorsAreFinite DEF CapInv
    <3> QED
      BY <3>1 DEF CapacityBounded, Credit
  <2>1. PICK n \in Nat \ {0} : \E at \in [Actors -> 1..n] :
          WithinLimits(Cardinality(events), Credit, upkeep, at)
    BY DEF CapInv
  <2>2. PICK at : Fits(Cardinality(events), 0, Credit, upkeep, Pending(upkeep, at, 0))
    BY <2>1 DEF WithinLimits
  <2>3. Pending(upkeep, at, 0) = {}
    BY DEF Pending, Maintaining
  <2>4. /\ Cardinality(events) \in Nat /\ Credit \in Nat /\ MaxEvents \in Nat
        /\ upkeep \in [Actors -> Upkeep]
    BY CountersAreNumbers, ActorsAreFinite DEF CapInv
  <2>5. SumFunction(Held(upkeep, {})) = 0
    <3> DEFINE none == Held(upkeep, {})
    <3>1. none \in [Actors -> Nat] /\ \A a \in Actors : none[a] = 0
      BY <2>4, HeldIsNumber DEF Held
    <3> HIDE DEF none
    <3>2. SumFunction(none) = 0
      BY <3>1, ActorsAreFinite, SumOfZeros
    <3> QED
      BY <3>2 DEF none
  <2>6. Cardinality(events) <= MaxEvents + 0 + Credit + SumFunction(Held(upkeep, {}))
    BY <2>2, <2>3 DEF Fits
  <2> QED
    BY <2>4, <2>5, <2>6
<1> QED
  BY <1>1, <1>2, <1>3, PTL DEF Spec
-----------------------------------------------------------------------------
(* The sequence numbers of stored events.  The tables are those of           *)
(* SequenceLedger: what SequenceProofs shows of adding a number to ranges is *)
(* cited from there.  It is about no variable and no bound of                *)
(* SensorSequence, so any values may stand for those.                        *)
Sequence == INSTANCE SequenceProofs WITH
  MaxStream <- 1, MaxSent <- 0, MaxBeats <- 0, MaxReuse <- 0, MaxInFlight <- 0,
  stream <- 1, sent <- <<0>>, net <- {}, serving <- {}, beats <- 0, reused <- 0,
  stored <- <<{}>>, evicted <- {}

(* A set of ranges as the table holds it.                                    *)
Ranged(ranges) ==
  /\ ranges \in SUBSET SequenceRange
  /\ IsFiniteSet(ranges)
  /\ Compact(ranges)

LEMMA RangeAdded ==
  ASSUME NEW ranges, Ranged(ranges), NEW n \in Nat, n >= 1, ~Covers(ranges, n)
  PROVE  /\ Ranged(AddToRanges(ranges, n))
         /\ Members(AddToRanges(ranges, n)) = Members(ranges) \cup {n}
<1>1. Sequence!SequenceRange = SequenceRange
  BY DEF Sequence!SequenceRange, SequenceRange
<1>2. \A r : Sequence!Compact(r) <=> Compact(r)
  BY DEF Sequence!Compact, Compact
<1>3. \A r : Sequence!IsFiniteSet(r) <=> IsFiniteSet(r)
  BY DEF Sequence!IsFiniteSet, IsFiniteSet
<1>4. \A r : Sequence!Tidy(r) <=> Ranged(r)
  BY <1>1, <1>2, <1>3 DEF Sequence!Tidy, Ranged
<1>5. Sequence!AddToRanges(ranges, n) = AddToRanges(ranges, n)
  BY DEF Sequence!AddToRanges, Sequence!LeftOf, Sequence!RightOf, Sequence!LowEnd,
     Sequence!HighEnd, AddToRanges, LeftOf, RightOf, LowEnd, HighEnd
<1>6. \A r : Sequence!Members(r) = Members(r)
  BY DEF Sequence!Members, Members
<1>7. ~Sequence!Covers(ranges, n)
  BY DEF Sequence!Covers, Covers
<1>8. /\ Sequence!Tidy(Sequence!AddToRanges(ranges, n))
      /\ Sequence!Members(Sequence!AddToRanges(ranges, n))
           = Sequence!Members(ranges) \cup {n}
  BY <1>4, <1>7, LedgerLimits, Sequence!AddToRangesKeeps
<1> QED
  BY <1>4, <1>5, <1>6, <1>8

(* What a row tells of the numbers stored for its stream: only those, and    *)
(* all of them while the row is whole.                                       *)
RowCounts(row, numbers, whole) ==
  /\ row \in Row /\ Ranged(row.ranges)
  /\ Members(row.ranges) \subseteq numbers
  /\ ~row.truncated /\ whole => Members(row.ranges) = numbers

LEMMA EventCounts ==
  ASSUME NEW row, NEW numbers, NEW whole \in BOOLEAN, RowCounts(row, numbers, whole),
         NEW n \in Nat, n >= 1
  PROVE  RowCounts(CountEvent(row, n), numbers \cup {n}, whole)
<1> DEFINE new == CountEvent(row, n)
<1> SUFFICES RowCounts(new, numbers \cup {n}, whole)
  OBVIOUS
<1>1. row \in Row /\ Ranged(row.ranges)
  BY DEF RowCounts
<1>2. CASE Covers(row.ranges, n)
  <2>1. n \in Members(row.ranges)
    BY <1>1, <1>2 DEF Covers, Members, Ranged, SequenceRange
  <2>2. new = [row EXCEPT !.duplicates = @ + 1]
    BY <1>2 DEF CountEvent
  <2>3. new \in Row /\ new.ranges = row.ranges /\ new.truncated = row.truncated
    BY <1>1, <2>2 DEF Row
  <2> HIDE DEF new
  <2>4. numbers \cup {n} = numbers
    BY <2>1 DEF RowCounts
  <2> QED
    BY <2>3, <2>4 DEF RowCounts
<1>3. CASE ~Covers(row.ranges, n)
  <2> DEFINE added == AddToRanges(row.ranges, n)
             full == DetailFull(row.ranges, n)
  <2>1. Ranged(added) /\ Members(added) = Members(row.ranges) \cup {n}
    BY <1>1, <1>3, RangeAdded
  <2>2. Larger(row.maxReceived, n) \in Nat
    BY <1>1 DEF Larger, Row
  <2>3. new = [row EXCEPT !.received = @ + 1, !.maxReceived = Larger(@, n),
                          !.truncated = @ \/ full,
                          !.ranges = IF full THEN @ ELSE added]
    BY <1>3 DEF CountEvent
  <2> HIDE DEF added, full
  <2>4. /\ new.ranges = (IF full THEN row.ranges ELSE added)
        /\ new.truncated = (row.truncated \/ full)
    BY <1>1, <2>3 DEF Row
  <2>5. /\ new.ranges \in SUBSET SequenceRange
        /\ new.truncated \in BOOLEAN
    BY <1>1, <2>1, <2>4 DEF Ranged, Row
  <2>6. new \in Row
    <3> DEFINE cut == row.truncated \/ full
               held == IF full THEN row.ranges ELSE added
               top == Larger(row.maxReceived, n)
    <3>1. cut \in BOOLEAN /\ held \in SUBSET SequenceRange /\ top \in Nat
      BY <1>1, <2>1, <2>2 DEF Ranged, Row
    <3>2. new = [row EXCEPT !.received = @ + 1, !.maxReceived = top,
                            !.truncated = cut, !.ranges = held]
      BY <2>3
    <3>3. row.received + 1 \in Nat
      BY <1>1 DEF Row
    <3> HIDE DEF cut, held, top, new
    <3> QED
      BY <1>1, <3>1, <3>2, <3>3 DEF Row
  <2> HIDE DEF new
  <2>7. CASE full
    <3>1. new.ranges = row.ranges /\ new.truncated
      BY <2>4, <2>7
    <3> QED
      BY <1>1, <2>6, <3>1 DEF RowCounts
  <2>8. CASE ~full
    <3>1. new.ranges = added /\ (new.truncated <=> row.truncated)
      BY <1>1, <2>4, <2>8 DEF Row
    <3> QED
      BY <2>1, <2>6, <3>1 DEF RowCounts
  <2> QED
    BY <2>7, <2>8
<1> QED
  BY <1>2, <1>3

LEMMA TouchCounts ==
  ASSUME NEW row, NEW numbers, NEW whole \in BOOLEAN, RowCounts(row, numbers, whole), NEW at \in Nat
  PROVE  RowCounts([row EXCEPT !.last = at], numbers, whole)
<1> DEFINE new == [row EXCEPT !.last = at]
<1> SUFFICES RowCounts(new, numbers, whole)
  OBVIOUS
<1>1. new \in Row /\ new.ranges = row.ranges /\ new.truncated = row.truncated
  BY DEF RowCounts, Row
<1> HIDE DEF new
<1> QED
  BY <1>1 DEF RowCounts

LEMMA NewCounts ==
  ASSUME NEW numbers, NEW whole \in BOOLEAN, whole => numbers = {}, NEW at \in Nat
  PROVE  RowCounts(NewStream(at), numbers, whole)
<1> DEFINE new == NewStream(at)
<1> SUFFICES RowCounts(new, numbers, whole)
  OBVIOUS
<1>1. new \in Row /\ new.ranges = {} /\ new.truncated = FALSE
  BY DEF NewStream, Row
<1> HIDE DEF new
<1>2. Ranged({}) /\ Members({}) = {}
  BY FS_EmptySet DEF Ranged, Compact, Members
<1> QED
  BY <1>1, <1>2 DEF RowCounts

(* Which rows a table keeps when a stream is ensured, and that none is       *)
(* evicted while all streams fit.                                            *)
LEMMA EnsureKeeps ==
  ASSUME NEW tbl, NEW s, NEW at
  PROVE  LET ensured == EnsureStream(tbl, s, at) IN
         /\ DOMAIN ensured \subseteq DOMAIN tbl \cup {s}
         /\ \A x \in DOMAIN ensured :
              ensured[x] = IF x # s THEN tbl[x]
                           ELSE IF s \in DOMAIN tbl THEN [tbl[s] EXCEPT !.last = at]
                           ELSE NewStream(at)
BY DEF EnsureStream

LEMMA EnsureKeepsFew ==
  ASSUME NEW tbl, NEW s \in Nat, NEW at \in Nat, DOMAIN tbl \subseteq Nat,
         \A x \in DOMAIN tbl : tbl[x] \in Row,
         IsFiniteSet(DOMAIN tbl \cup {s}), Cardinality(DOMAIN tbl \cup {s}) <= MaxStreams
  PROVE  DOMAIN EnsureStream(tbl, s, at) = DOMAIN tbl \cup {s}
<1> DEFINE held == DOMAIN tbl \cup {s}
           upserted == [x \in held |-> IF x # s THEN tbl[x]
                                       ELSE IF s \in DOMAIN tbl THEN [tbl[s] EXCEPT !.last = at]
                                       ELSE NewStream(at)]
           newer(x) == {y \in DOMAIN upserted : Newer(upserted, y, x)}
<1>1. DOMAIN upserted = held
  OBVIOUS
<1>2. DOMAIN EnsureStream(tbl, s, at) = {x \in held : Cardinality(newer(x)) < MaxStreams}
  BY DEF EnsureStream
<1>3. \A x \in held : upserted[x].last \in Nat
  BY DEF Row, NewStream
<1>4. held \subseteq Nat
  OBVIOUS
<1> HIDE DEF upserted
<1>5. ASSUME NEW x \in held PROVE Cardinality(newer(x)) < MaxStreams
  <2>1. newer(x) \subseteq held \ {x}
    BY <1>1, <1>3, <1>4 DEF Newer
  <2> HIDE DEF newer, held
  <2>2. /\ IsFiniteSet(held \ {x})
        /\ Cardinality(held \ {x}) = Cardinality(held) - 1
    BY FS_RemoveElement DEF held
  <2>3. /\ Cardinality(newer(x)) <= Cardinality(held \ {x})
        /\ IsFiniteSet(newer(x))
    BY <2>1, <2>2, FS_Subset, Zenon
  <2>4. Cardinality(newer(x)) \in Nat /\ Cardinality(held) \in Nat
    BY <2>3, FS_CardinalityType DEF held
  <2> QED
    BY <2>2, <2>3, <2>4, LedgerLimits DEF held
<1> HIDE DEF newer
<1> QED
  BY <1>2, <1>5

-----------------------------------------------------------------------------
(* The numbered events of the log.                                           *)
Few == Cardinality(StreamsNumbered) <= MaxStreams

LedgerInv ==
  /\ IsFiniteSet(StreamsNumbered) /\ StreamsNumbered \subseteq Nat
  /\ DOMAIN ledger \subseteq StreamsNumbered
  /\ Few => DOMAIN ledger = StreamsNumbered
  /\ \A s \in DOMAIN ledger : RowCounts(ledger[s], NumbersOf(s), Few)

(* What an ingest transaction adds to the numbers of the log.                *)
LEMMA NumbersGrow ==
  ASSUME LogShape, NEW event, NEW at, NEW id, Commit(event, at, id)
  PROVE  /\ StreamsNumbered' =
              StreamsNumbered \cup (IF event.number = 0 THEN {} ELSE {event.stream})
         /\ \A s : NumbersOf(s)' =
              NumbersOf(s) \cup (IF s = event.stream THEN {event.number} \ {0} ELSE {})
<1> DEFINE row == Chained(head, RowOf(event, at, id))
<1> DEFINE n == Len(log)
<1>1. row.stream = event.stream /\ row.number = event.number
  BY DEF Chained, RowOf
<1>2. log' = Append(log, row)
  BY DEF Commit
<1> HIDE DEF row
<1>3. /\ n \in Nat /\ Len(log') = n + 1 /\ log'[n + 1] = row
      /\ \A i \in 1..n : log'[i] = log[i]
  BY <1>2, LogGrows
<1>4. 1..(n + 1) = 1..n \cup {n + 1}
  BY <1>3
<1>5. \A x : x \in StreamsNumbered' <=>
        \/ x \in StreamsNumbered
        \/ event.number # 0 /\ x = event.stream
  BY <1>1, <1>3, <1>4 DEF StreamsNumbered
<1>6. ASSUME NEW s PROVE \A x : x \in NumbersOf(s)' <=>
        \/ x \in NumbersOf(s)
        \/ s = event.stream /\ x = event.number /\ x # 0
  BY <1>1, <1>3, <1>4 DEF NumbersOf
<1> QED
  BY <1>5, <1>6

LEMMA LedgerAfterIngest ==
  ASSUME LogShape, LedgerInv, NEW event, NEW at, Stores(event, at)
  PROVE  LedgerInv'
<1>1. PICK id : ~Refused(event, at, id) /\ Commit(event, at, id)
  BY DEF Stores
<1>2. event.stream \in Nat /\ event.number \in Nat /\ at \in Nat
  BY DEF Stores, Event
<1>3. CASE event.number = 0
  <2>1. ledger' = ledger
    BY <1>1, <1>3 DEF Commit
  <2>2. StreamsNumbered' = StreamsNumbered /\ \A s : NumbersOf(s)' = NumbersOf(s)
    BY <1>1, <1>3, NumbersGrow
  <2> QED
    BY <2>1, <2>2 DEF LedgerInv, Few
<1>4. CASE event.number # 0
  <2> DEFINE s == event.stream
             n == event.number
             ensured == EnsureStream(ledger, s, at)
  <2>1. /\ StreamsNumbered' = StreamsNumbered \cup {s}
        /\ NumbersOf(s)' = NumbersOf(s) \cup {n}
        /\ \A x : x # s => NumbersOf(x)' = NumbersOf(x)
    BY <1>1, <1>4, NumbersGrow
  <2>2. /\ ledger' = [ensured EXCEPT ![s] = CountEvent(@, n)]
        /\ s \in DOMAIN ensured
    BY <1>1, <1>4 DEF Commit, RecordEventSequence, Refused, SequenceRefused
  <2>3. /\ DOMAIN ensured \subseteq DOMAIN ledger \cup {s}
        /\ \A x \in DOMAIN ensured :
             ensured[x] = IF x # s THEN ledger[x]
                          ELSE IF s \in DOMAIN ledger THEN [ledger[s] EXCEPT !.last = at]
                          ELSE NewStream(at)
    BY EnsureKeeps
  <2>4. IsFiniteSet(StreamsNumbered') /\ StreamsNumbered' \subseteq Nat
    BY <1>2, <2>1, FS_AddElement DEF LedgerInv
  <2>5. Few' => Few
    <3>1. Cardinality(StreamsNumbered) <= Cardinality(StreamsNumbered')
      BY <2>1, <2>4, FS_Subset
    <3>2. Cardinality(StreamsNumbered) \in Nat /\ Cardinality(StreamsNumbered') \in Nat
      BY <2>4, FS_CardinalityType DEF LedgerInv
    <3> QED
      BY <3>1, <3>2, LedgerLimits DEF Few
  <2>6. Few' => DOMAIN ensured = StreamsNumbered'
    <3> SUFFICES ASSUME Few' PROVE DOMAIN ensured = StreamsNumbered'
      OBVIOUS
    <3>1. DOMAIN ledger \cup {s} = StreamsNumbered'
      BY <2>1, <2>5 DEF LedgerInv
    <3>2. /\ DOMAIN ledger \subseteq Nat
          /\ \A x \in DOMAIN ledger : ledger[x] \in Row
      BY DEF LedgerInv, RowCounts
    <3> QED
      BY <1>2, <2>4, <3>1, <3>2, EnsureKeepsFew DEF Few
  <2> HIDE DEF ensured
  <2>7. /\ DOMAIN ledger' = DOMAIN ensured
        /\ ledger'[s] = CountEvent(ensured[s], n)
        /\ \A x \in DOMAIN ensured : x # s => ledger'[x] = ledger[x]
    BY <2>2, <2>3
  <2>14. Few \in BOOLEAN /\ n >= 1
    BY <1>2, <1>4 DEF Few
  <2>8. RowCounts(ensured[s], NumbersOf(s), Few)
    <3>1. CASE s \in DOMAIN ledger
      <4>1. ensured[s] = [ledger[s] EXCEPT !.last = at]
        BY <2>2, <2>3, <3>1
      <4> QED
        BY <1>2, <2>14, <3>1, <4>1, TouchCounts DEF LedgerInv
    <3>2. CASE s \notin DOMAIN ledger
      <4>1. ensured[s] = NewStream(at)
        BY <2>2, <2>3, <3>2
      <4>2. s \notin StreamsNumbered => NumbersOf(s) = {}
        BY DEF StreamsNumbered, NumbersOf
      <4>3. Few => NumbersOf(s) = {}
        BY <3>2, <4>2 DEF LedgerInv
      <4> QED
        BY <1>2, <2>14, <4>1, <4>3, NewCounts
    <3> QED
      BY <3>1, <3>2
  <2>9. RowCounts(ledger'[s], NumbersOf(s)', Few)
    BY <1>2, <2>14, <2>1, <2>7, <2>8, EventCounts
  <2>10. ASSUME NEW x \in DOMAIN ledger' PROVE RowCounts(ledger'[x], NumbersOf(x)', Few)
    <3>1. CASE x = s
      BY <2>9, <3>1
    <3>2. CASE x # s
      <4>1. x \in DOMAIN ledger /\ ledger'[x] = ledger[x] /\ NumbersOf(x)' = NumbersOf(x)
        BY <2>1, <2>3, <2>7, <3>2
      <4> QED
        BY <4>1 DEF LedgerInv
    <3> QED
      BY <3>1, <3>2
  <2>11. \A x \in DOMAIN ledger' : RowCounts(ledger'[x], NumbersOf(x)', Few')
    BY <2>5, <2>10 DEF RowCounts
  <2>12. DOMAIN ledger' \subseteq StreamsNumbered'
    BY <2>1, <2>3, <2>7 DEF LedgerInv
  <2>13. Few' => DOMAIN ledger' = StreamsNumbered'
    BY <2>6, <2>7
  <2> QED
    BY <2>4, <2>11, <2>12, <2>13 DEF LedgerInv
<1> QED
  BY <1>3, <1>4

LEMMA LedgerStays ==
  ASSUME LedgerInv, UNCHANGED <<ledger, log>> PROVE LedgerInv'
BY DEF LedgerInv, StreamsNumbered, NumbersOf, Few

(* For any number of threads, sensors, streams and limits, and whatever is   *)
(* refused, pruned or interrupted: the ranges of a stream stand for numbers  *)
(* of its committed events only, and for all of them while the detail is     *)
(* whole and no stream had to make room.                                     *)
THEOREM NumbersAreCounted == Spec => []NumbersCounted
<1>1. Init => TypeInv /\ LedgerInv
  <2> SUFFICES ASSUME Init PROVE TypeInv /\ LedgerInv
    OBVIOUS
  <2>1. Len(log) = 0 /\ DOMAIN ledger = {}
    BY DEF Init
  <2>2. StreamsNumbered = {}
    BY <2>1 DEF StreamsNumbered
  <2> QED
    BY <2>1, <2>2, FS_EmptySet, TypeInvInit DEF LedgerInv
<1>2. TypeInv /\ LedgerInv /\ [Next]_vars => (TypeInv /\ LedgerInv)'
  <2> SUFFICES ASSUME TypeInv, LedgerInv, [Next]_vars PROVE TypeInv' /\ LedgerInv'
    OBVIOUS
  <2>1. TypeInv'
    BY TypeInvStep
  <2>2. LogShape /\ RequestOK /\ UpkeepOK
    BY TypeParts DEF TypeInv, ChainInv
  <2>3. ASSUME NEW event, NEW at, Stores(event, at) PROVE LedgerInv'
    BY <2>2, <2>3, LedgerAfterIngest
  <2>4. ASSUME Pruning \/ EditRow \/ DeleteRow \/ UNCHANGED <<store, edits>>
        PROVE  LedgerInv'
    <3>1. UNCHANGED <<ledger, log>>
      BY <2>4 DEF Pruning, Keep, EditRow, DeleteRow, store
    <3> QED
      BY <3>1, LedgerStays
  <2> QED
    BY <2>1, <2>2, <2>3, <2>4, StoreStep
<1>3. LedgerInv => NumbersCounted
  BY DEF LedgerInv, NumbersCounted, RowCounts, Few
<1> QED
  BY <1>1, <1>2, <1>3, PTL DEF Spec

=============================================================================
