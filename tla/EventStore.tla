----------------------------- MODULE EventStore -----------------------------
(***************************************************************************)
(* The collector's event store: the ingest handlers of app.py, Store.ingest*)
(* and Store.maintain (store.py), and the verifier of the hash chain, over *)
(* one SQLite database shared by several worker processes.                 *)
(*                                                                         *)
(* A request thread stamps collector_received_at when its handler runs,    *)
(* and only then waits for the write lock; the ingest transaction opens    *)
(* with BEGIN IMMEDIATE and is one step.  Maintenance runs after the       *)
(* commit, in the thread that made the process's MaintainEvery-th ingest   *)
(* and in every process that starts; each of its transactions is a step.   *)
(***************************************************************************)
EXTENDS SessionTable, EventChain, SequenceLedger, Sequences, Functions

CONSTANTS
  Threads,        \* request threads, all processes together
  Processes,      \* Gunicorn worker processes
  ProcessOf,      \* ProcessOf[t]: the process thread t belongs to
  Offered,        \* events that sensors send, see Event below
  RetentionDays,  \* in clock ticks; 0 disables retention
  MaxEvents,      \* capacity of the events table
  MaintainEvery,  \* 100 in the code: ingests of a process between maintenance
  MaxSkew,        \* MAX_FUTURE_EVENT_SKEW_SECONDS
  MaxClock,       \* bound: clock ticks
  MaxRestarts,    \* bound: worker restarts
  MaxFaults,      \* bound: maintenance runs that raise
  MaxEdits,       \* bound: out-of-band changes of a stored row
  MaxVerify       \* bound: runs of the verifier

(* number = 0: the event carries no sensor_sequence. *)
Event == [id : Nat, ts : Nat, ident : Nat, token : Nat \cup {NoToken},
          stream : Nat, number : Nat]

ASSUME StoreAssumption ==
  /\ IsFiniteSet(Threads) /\ IsFiniteSet(Processes)
  /\ Threads \cap Processes = {}
  /\ ProcessOf \in [Threads -> Processes]
  /\ Offered \subseteq Event
  /\ {RetentionDays, MaxEvents, MaxSkew, MaxClock, MaxRestarts, MaxFaults,
      MaxEdits, MaxVerify} \subseteq Nat
  /\ MaintainEvery \in Nat \ {0}

VARIABLES
  events,    \* rows of the events table with their chain columns
  head,      \* event_chain_head
  sessions,  \* sessions table, see SessionTable
  ledger,    \* sequence tables of the sensor, see SequenceLedger
  clock,     \* collector clock; two stamps never coincide
  req,       \* req[t]: the request thread t serves
  since,     \* since[p]: _ingest_since_maintenance of process p, shared by its threads
  upkeep,    \* upkeep[a]: where actor a (thread or starting process) is in maintain
  verifier,  \* the verifier's walk and its verdict
  restarts, faults, edits, runs,
  log,       \* history: every row ever committed, in commit order
  missed,    \* history: ingests that no counter and no maintenance accounts for
  rejected   \* history: ids of the events answered with 409 duplicate_event

vars == <<events, head, sessions, ledger, clock, req, since, missed, upkeep, verifier,
          restarts, faults, edits, runs, log, missed, rejected>>

store == <<events, head, sessions, ledger, log>>

Actors == Threads \cup Processes

Idle == [pc |-> "idle"]

(* An actor between two steps of counting or of maintenance; seen is the
   counter as it last read it. *)
At(step, seen, overflow) == [step |-> step, seen |-> seen, overflow |-> overflow]
NoUpkeep == At("none", 0, 0)
UpkeepDue == At("retention", 0, 0)
Maintaining(a) == upkeep[a].step \in {"retention", "count", "evict"}

Resting == [pc |-> "idle", rows |-> {}]

(* Store.__init__ runs maintain(force=True): every process starts with it. *)
Init ==
  /\ events = {} /\ head = GenesisHead /\ log = <<>>
  /\ sessions = [s \in {} |-> 0]
  /\ ledger = [s \in {} |-> NewStream(0)]
  /\ clock = 0
  /\ req = [t \in Threads |-> Idle]
  /\ since = [p \in Processes |-> 0]
  /\ upkeep = [a \in Actors |-> IF a \in Processes THEN UpkeepDue ELSE NoUpkeep]
  /\ verifier = Resting
  /\ restarts = 0 /\ faults = 0 /\ edits = 0 /\ runs = 0
  /\ missed = 0 /\ rejected = {}

Serving(p) == upkeep[p].step = "none"

Answer(t, event, code) ==
  /\ req' = [req EXCEPT ![t] = Idle]
  /\ rejected' = IF code = 409 THEN rejected \cup {event.id} ELSE rejected

-----------------------------------------------------------------------------
(* The handler stamps the request; a timestamp too far ahead is a 422. *)
Receive(t) ==
  /\ req[t].pc = "idle" /\ Serving(ProcessOf[t])
  /\ clock < MaxClock
  /\ clock' = clock + 1
  /\ \E event \in Offered :
       IF event.ts > clock + 1 + MaxSkew
       THEN Answer(t, event, 422)
       ELSE /\ req' = [req EXCEPT ![t] =
                         [pc |-> "received", event |-> event, at |-> clock + 1]]
            /\ UNCHANGED rejected
  /\ UNCHANGED <<store, since, missed, upkeep, verifier, restarts, faults, edits, runs>>

RowOf(event, received, id) ==
  [id |-> event.id, ts |-> event.ts, received |-> received, session |-> id,
   stream |-> event.stream, number |-> event.number, body |-> "original",
   copies |-> "original"]

(* A primary key or a foreign key refuses the transaction. *)
Refused(event, received, id) ==
  \/ \E row \in events : row.id = event.id \/ row.seq = head.seq + 1
  \/ SessionRefused(sessions, event, id)
  \/ event.number # 0 /\ SequenceRefused(ledger, event.stream, received)

(* Store.ingest: one transaction over events, sessions, chain and ledger. *)
Commit(event, received, id) ==
  LET row == RowOf(event, received, id)
  IN /\ events' = events \cup {Chained(head, row)}
     /\ log' = Append(log, Chained(head, row))
     /\ head' = HeadAfter(head, row)
     /\ sessions' = WithEvent(sessions, event, id)
     /\ ledger' = IF event.number = 0 THEN ledger
                  ELSE RecordEventSequence(ledger, event.stream, event.number, received)

Ingest(t) ==
  /\ req[t].pc = "received"
  /\ \E id \in SelectedSession(sessions, req[t].event) :
       /\ ~Refused(req[t].event, req[t].at, id)
       /\ Commit(req[t].event, req[t].at, id)
  /\ upkeep' = [upkeep EXCEPT ![t] = At("read", 0, 0)]
  /\ req' = [req EXCEPT ![t].pc = "stored"]
  /\ UNCHANGED <<clock, since, missed, verifier, restarts, faults, edits, runs, rejected>>

(* Variants with a suffix hold a plausible defect each; no definition uses them. *)
RejectDuplicate_Counts(t) ==   \* the number is recorded outside the transaction
  /\ req[t].pc = "received"
  /\ \E id \in SelectedSession(sessions, req[t].event) :
       Refused(req[t].event, req[t].at, id)
  /\ ledger' = RecordEventSequence(ledger, req[t].event.stream, req[t].event.number, req[t].at)
  /\ Answer(t, req[t].event, 409)
  /\ UNCHANGED <<events, head, sessions, log, clock, since, missed, upkeep, verifier,
                 restarts, faults, edits, runs>>

(* IntegrityError: rolled back and answered as a duplicate. *)
RejectDuplicate(t) ==
  /\ req[t].pc = "received"
  /\ \E id \in SelectedSession(sessions, req[t].event) :
       Refused(req[t].event, req[t].at, id)
  /\ Answer(t, req[t].event, 409)
  /\ UNCHANGED <<store, clock, since, missed, upkeep, verifier, restarts, faults, edits, runs>>

(* The lock is not granted within busy_timeout, or enrichment raises. *)
FailIngest(t) ==
  /\ req[t].pc = "received"
  /\ Answer(t, req[t].event, 500)
  /\ UNCHANGED <<store, clock, since, missed, upkeep, verifier, restarts, faults, edits, runs>>

(* Detection runs after the commit: whatever it raises, the event stays stored. *)
Finish(t) ==
  /\ req[t].pc = "stored" /\ upkeep[t].step = "none"
  /\ \E code \in {201, 409, 500} : Answer(t, req[t].event, code)
  /\ UNCHANGED <<store, clock, since, missed, upkeep, verifier, restarts, faults, edits, runs>>

-----------------------------------------------------------------------------
(* self._ingest_since_maintenance += 1, after the commit and without a lock:
   the threads of a process share the counter, and each reads it, writes it,
   compares it and resets it in steps of its own. *)
ReadCounter(t) ==
  /\ upkeep[t].step = "read"
  /\ upkeep' = [upkeep EXCEPT ![t] = At("write", since[ProcessOf[t]], 0)]
  /\ UNCHANGED <<store, clock, req, since, missed, verifier, restarts, faults, edits, runs,
                 rejected>>

(* What other threads counted since the read is overwritten. *)
WriteCounter(t) ==
  /\ upkeep[t].step = "write"
  /\ LET p == ProcessOf[t]
         seen == upkeep[t].seen
     IN /\ since' = [since EXCEPT ![p] = seen + 1]
        /\ missed' = IF since[p] > seen THEN missed + (since[p] - seen) ELSE missed
  /\ upkeep' = [upkeep EXCEPT ![t] = At("check", 0, 0)]
  /\ UNCHANGED <<store, clock, req, verifier, restarts, faults, edits, runs, rejected>>

CheckCounter(t) ==
  /\ upkeep[t].step = "check"
  /\ upkeep' = [upkeep EXCEPT ![t] = IF since[ProcessOf[t]] < MaintainEvery THEN NoUpkeep
                                     ELSE At("reset", 0, 0)]
  /\ UNCHANGED <<store, clock, req, since, missed, verifier, restarts, faults, edits, runs,
                 rejected>>

(* The reset also wipes what other threads have counted: the maintenance it
   opens is to account for all of it. *)
ResetCounter(t) ==
  /\ upkeep[t].step = "reset"
  /\ since' = [since EXCEPT ![ProcessOf[t]] = 0]
  /\ upkeep' = [upkeep EXCEPT ![t] = At("retention", since[ProcessOf[t]], 0)]
  /\ UNCHANGED <<store, clock, req, missed, verifier, restarts, faults, edits, runs, rejected>>

CountIngest(t) == ReadCounter(t) \/ WriteCounter(t) \/ CheckCounter(t) \/ ResetCounter(t)

-----------------------------------------------------------------------------
Referenced_All(rows) == sessions

(* The sessions that keep at least one event. *)
Referenced(rows) == [s \in {r.session : r \in rows} \cap DOMAIN sessions |-> sessions[s]]

Keep(rows) ==
  /\ events' = rows
  /\ sessions' = Referenced(rows)
  /\ UNCHANGED <<head, ledger, log>>

Expired(row) == row.received < clock - RetentionDays

(* Store.prune, one transaction; Store.prune_cases touches no table here. *)
Retention(a) ==
  /\ upkeep[a].step = "retention"
  /\ IF RetentionDays = 0 THEN UNCHANGED store
     ELSE Keep({row \in events : ~Expired(row)})
  /\ upkeep' = [upkeep EXCEPT ![a].step = "count"]
  /\ UNCHANGED <<clock, req, since, missed, verifier, restarts, faults, edits, runs, rejected>>

CountOverflow_NoMax(a) ==   \* a table with room to spare: max(0, ...) is dropped
  /\ upkeep[a].step = "count"
  /\ LET over == Cardinality(events) - MaxEvents
     IN upkeep' = [upkeep EXCEPT ![a] = IF over # 0 THEN At("evict", upkeep[a].seen, over)
                                        ELSE NoUpkeep]
  /\ UNCHANGED <<store, clock, req, since, missed, verifier, restarts, faults, edits, runs,
                 rejected>>

(* SELECT COUNT runs before the DELETE opens its transaction. *)
CountOverflow(a) ==
  /\ upkeep[a].step = "count"
  /\ LET over == Cardinality(events) - MaxEvents
     IN upkeep' = [upkeep EXCEPT ![a] = IF over > 0 THEN At("evict", upkeep[a].seen, over)
                                        ELSE NoUpkeep]
  /\ UNCHANGED <<store, clock, req, since, missed, verifier, restarts, faults, edits, runs,
                 rejected>>

Older_BySensorTime(q, r) == q.ts < r.ts \/ (q.ts = r.ts /\ q.id < r.id)

(* ORDER BY collector_received_at ASC, id ASC *)
Older(q, r) == q.received < r.received \/ (q.received = r.received /\ q.id < r.id)

Oldest(n) == {r \in events : Cardinality({q \in events : Older(q, r)}) < n}

DeleteOverflow_ResetsLast(a) ==   \* the counter is reset once maintenance is done
  /\ upkeep[a].step = "evict"
  /\ Keep(events \ Oldest(upkeep[a].overflow))
  /\ upkeep' = [upkeep EXCEPT ![a] = NoUpkeep]
  /\ since' = IF a \in Threads THEN [since EXCEPT ![ProcessOf[a]] = 0] ELSE since
  /\ UNCHANGED <<clock, req, missed, verifier, restarts, faults, edits, runs, rejected>>

DeleteOverflow(a) ==
  /\ upkeep[a].step = "evict"
  /\ Keep(events \ Oldest(upkeep[a].overflow))
  /\ upkeep' = [upkeep EXCEPT ![a] = NoUpkeep]
  /\ UNCHANGED <<clock, req, since, missed, verifier, restarts, faults, edits, runs, rejected>>

(* A statement of maintain raises, the lock being busy: what its earlier
   transactions did stays, the answer is a 500, and the ingests its reset
   wiped off the counter are forgotten. *)
FailUpkeep(t) ==
  /\ Maintaining(t)
  /\ faults < MaxFaults
  /\ faults' = faults + 1
  /\ missed' = missed + upkeep[t].seen
  /\ upkeep' = [upkeep EXCEPT ![t] = NoUpkeep]
  /\ Answer(t, req[t].event, 500)
  /\ UNCHANGED <<store, clock, since, verifier, restarts, edits, runs>>

(* A worker ends (crash, timeout or --max-requests) and its successor starts. *)
Restart(p) ==
  /\ restarts < MaxRestarts
  /\ restarts' = restarts + 1
  /\ req' = [t \in Threads |-> IF ProcessOf[t] = p THEN Idle ELSE req[t]]
  /\ since' = [since EXCEPT ![p] = 0]
  /\ upkeep' = [a \in Actors |->
                  IF a = p THEN UpkeepDue
                  ELSE IF a \in Threads /\ ProcessOf[a] = p THEN NoUpkeep
                  ELSE upkeep[a]]
  /\ UNCHANGED <<store, clock, missed, verifier, faults, edits, runs, rejected>>

Tick ==
  /\ clock < MaxClock
  /\ clock' = clock + 1
  /\ UNCHANGED <<store, req, since, missed, upkeep, verifier, restarts, faults, edits, runs, rejected>>

-----------------------------------------------------------------------------
(* verify_chain: the walk is one statement, the read of the head another. *)
VerifyWalk ==
  /\ verifier.pc # "walked" /\ runs < MaxVerify
  /\ runs' = runs + 1
  /\ verifier' = [pc |-> "walked", rows |-> events]
  /\ UNCHANGED <<store, clock, req, since, missed, upkeep, restarts, faults, edits, rejected>>

VerifyHead ==
  /\ verifier.pc = "walked"
  /\ verifier' = [pc |-> IF ChainOK(verifier.rows, head) THEN "intact" ELSE "problems",
                  rows |-> verifier.rows]
  /\ UNCHANGED <<store, clock, req, since, missed, upkeep, restarts, faults, edits, runs, rejected>>

(* A stored row is rewritten or deleted behind the collector's back. *)
EditRow ==
  /\ edits < MaxEdits
  /\ \E row \in events, columns \in {"body", "copies"} :
       /\ row[columns] = "original"
       /\ events' = (events \ {row}) \cup {[row EXCEPT ![columns] = "edited"]}
  /\ edits' = edits + 1
  /\ UNCHANGED <<head, sessions, ledger, log, clock, req, since, missed, upkeep, verifier,
                 restarts, faults, runs, rejected>>

DeleteRow ==
  /\ edits < MaxEdits
  /\ \E row \in events : events' = events \ {row}
  /\ edits' = edits + 1
  /\ UNCHANGED <<head, sessions, ledger, log, clock, req, since, missed, upkeep, verifier,
                 restarts, faults, runs, rejected>>

-----------------------------------------------------------------------------
Serve(t) ==
  Receive(t) \/ Ingest(t) \/ RejectDuplicate(t) \/ FailIngest(t) \/ Finish(t)
    \/ CountIngest(t) \/ FailUpkeep(t)

Maintain(a) == Retention(a) \/ CountOverflow(a) \/ DeleteOverflow(a)

Next ==
  \/ \E t \in Threads : Serve(t)
  \/ \E a \in Actors : Maintain(a)
  \/ \E p \in Processes : Restart(p)
  \/ Tick \/ VerifyWalk \/ VerifyHead \/ EditRow \/ DeleteRow

Spec == Init /\ [][Next]_vars
-----------------------------------------------------------------------------
Steps == {"none", "read", "write", "check", "reset", "retention", "count", "evict"}

(* Rows, requests and counters are well formed whatever workers and threads  *)
(* interleave; an overflow to evict is a number (store.py: maintain).        *)
TypeOK ==
  /\ \A row \in events : row.seq \in Nat /\ {row.body, row.copies} \subseteq {"original", "edited"}
  /\ head.seq \in Nat
  /\ \A s \in DOMAIN sessions :
       sessions[s] \in [started : Nat, last : Nat, count : Nat]
  /\ clock \in Nat
  /\ req \in [Threads -> {Idle} \cup
                 [pc : {"received", "stored"}, event : Offered, at : Nat]]
  /\ since \in [Processes -> Nat]
  /\ upkeep \in [Actors -> [step : Steps, seen : Nat, overflow : Nat]]
  /\ verifier.pc \in {"idle", "walked", "intact", "problems"}
  /\ {restarts, faults, edits, runs, missed} \subseteq Nat

(***************************************************************************)
(* The chain is one line: every committed row follows the row committed    *)
(* before it, the head is the last one, and every surviving row is the row *)
(* committed under its number (OPERATIONS.md: workers cannot fork it).     *)
(***************************************************************************)
AsCommitted(row) == [row EXCEPT !.body = "original", !.copies = "original"]

LinearLog ==
  \A i \in 1..Len(log) :
    /\ log[i].seq = i
    /\ log[i].body = "original" /\ log[i].copies = "original"
    /\ log[i].prev = IF i = 1 THEN GenesisHash ELSE log[i - 1].hash
    /\ log[i].hash = RecordHash(i, log[i].prev, HashedColumns(log[i]))

HeadIsLast ==
  head = IF Len(log) = 0 THEN GenesisHead
         ELSE [seq |-> Len(log), hash |-> log[Len(log)].hash]

RowsFromLog ==
  \A row \in events :
    /\ row.seq \in 1..Len(log)
    /\ AsCommitted(row) = log[row.seq]

(* Concurrent appends never fork the chain (append_record).                  *)
LinearChain == LinearLog /\ HeadIsLast /\ RowsFromLog

(***************************************************************************)
(* Tamper evidence: a chain that verifies is an unbroken stretch of the    *)
(* committed history up to its newest record, whatever was edited, deleted *)
(* or pruned in between (event_chain.py, module comment) - unaltered in    *)
(* every hashed column.  The copies are not hashed: AsHashed is what a row *)
(* is as far as the chain can tell, and a row whose copies alone were      *)
(* rewritten verifies.                                                     *)
(***************************************************************************)
Stretch(k, n) == {log[i] : i \in k..n}

AsHashed(row) == [row EXCEPT !.copies = "original"]

AsHashedAll(rows) == {AsHashed(row) : row \in rows}

(* What verify_chain accepts in one snapshot is such a stretch.              *)
VerifiedMeansIntact ==
  ChainOK(events, head) =>
    \E k \in 1..(Len(log) + 1) : AsHashedAll(events) = Stretch(k, Len(log))

(* The same of the verdict itself, whose walk and head are read apart. *)
IntactVerdict ==
  verifier.pc = "intact" =>
    \E n \in 0..Len(log) : \E k \in 1..(n + 1) :
      AsHashedAll(verifier.rows) = Stretch(k, n)

(***************************************************************************)
(* Pruning removes the oldest records and the rest verifies                *)
(* (OPERATIONS.md, event hash chain).  It needs receipt order to be commit *)
(* order, and a record to be left.                                         *)
(***************************************************************************)
PruneKeepsChain == edits = 0 /\ events # {} => ChainOK(events, head)

CommittedAsStamped ==
  \A i, j \in 1..Len(log) : i < j => log[i].received < log[j].received

(* What is missing above a kept record was stamped no later than it and
   committed after it: pruning cuts the chain nowhere else. *)
CutsAreLateCommits ==
  edits = 0 =>
    \A i \in 1..Len(log) : log[i] \notin events =>
      \A row \in events : row.seq < i => log[i].received <= row.received

(* Whatever maintenance of the workers deletes in between, pruning leaves a  *)
(* chain that verifies where requests commit in the order they were stamped, *)
(* and takes records out of order only where they were committed so          *)
(* (store.py: maintain, prune).                                              *)
OrderedPrunesKeepChain ==
  /\ CommittedAsStamped => PruneKeepsChain
  /\ CutsAreLateCommits

(***************************************************************************)
(* Sessions and events stay consistent through pruning by several workers  *)
(* and events out of order: every event's session exists and spans it, no  *)
(* session is left without an event or counts less than it holds, and no   *)
(* event was put in a temporal session after a pause longer than the       *)
(* session gap (correlation.py: should_join; store.py: prune).             *)
(***************************************************************************)
SessionsHaveEvents ==
  edits = 0 => DOMAIN sessions = {row.session : row \in events}

SessionSpans ==
  \A s \in DOMAIN sessions :
    LET own == {row \in events : row.session = s}
    IN /\ \A row \in own : sessions[s].started <= row.ts /\ row.ts <= sessions[s].last
       /\ Cardinality(own) <= sessions[s].count

NoLongPause ==
  \A i \in 1..Len(log) :
    log[i].session.token = NoToken /\ log[i].ts # log[i].session.start =>
      \E j \in 1..(i - 1) :
        /\ log[j].session = log[i].session
        /\ log[j].ts <= log[i].ts /\ log[i].ts - log[j].ts <= SessionGap

(* All three, of whatever workers ingest and prune side by side.            *)
SessionsConsistent == SessionsHaveEvents /\ SessionSpans /\ NoLongPause

(***************************************************************************)
(* While no maintenance is under way the table exceeds its capacity by at  *)
(* most the ingests that still stand on a counter or are about to, and     *)
(* those that were missed: overwritten on the counter by another thread,   *)
(* or wiped off it for a maintenance run that then failed (PRIVACY.md:     *)
(* capacity ceiling; store.py: ingest, maintain).                          *)
(***************************************************************************)
Uncounted == {t \in Threads : upkeep[t].step \in {"read", "write"}}

CapacityBounded ==
  (\A a \in Actors : ~Maintaining(a)) =>
    Cardinality(events) <=
      MaxEvents + SumFunction(since) + Cardinality(Uncounted) + missed

(* A sequence number counts as received exactly when its event was stored
   (sensor_sequence.py: record_event_sequence in the ingest transaction). *)
NumbersOf(s) ==
  {log[i].number : i \in {j \in 1..Len(log) : log[j].stream = s}} \ {0}

StreamsNumbered == {log[i].stream : i \in {j \in 1..Len(log) : log[j].number # 0}}

(* The ranges of a stream stand for numbers of its committed events only, and
   for all of them while the sensor's streams fit and the detail is whole: a
   row evicted by other streams starts over. *)
NumbersCounted ==
  \A s \in DOMAIN ledger :
    /\ Members(ledger[s].ranges) \subseteq NumbersOf(s)
    /\ ~ledger[s].truncated /\ Cardinality(StreamsNumbered) <= MaxStreams =>
         Members(ledger[s].ranges) = NumbersOf(s)

(* A 409 tells the sensor that its event is already stored (app.py). *)
DuplicateMeansStored ==
  \A id \in rejected : \E i \in 1..Len(log) : log[i].id = id
=============================================================================
