--------------------------- MODULE SensorSequence ---------------------------
(***************************************************************************)
(* One sensor, the network and the collector's sequence accounting.  The   *)
(* sensor process (sensors/client.py) numbers its events under a lock and  *)
(* sends each in a request of its own; requests are lost, refused or       *)
(* served in any order; a restart opens a fresh stream.  The collector     *)
(* stamps a request when its handler starts and records its number later,  *)
(* inside the transaction that stores the event.                           *)
(***************************************************************************)
EXTENDS SequenceLedger, Functions

CONSTANTS
  MaxStream,   \* bound: streams opened (sensor starts)
  MaxSent,     \* bound: events numbered in all
  MaxBeats,    \* bound: heartbeats sent
  MaxReuse,    \* bound: numbers sent again under a new event id
  MaxInFlight  \* bound: requests sent and neither lost nor committed

ASSUME SequenceBounds ==
  /\ MaxStream \in Nat \ {0}
  /\ {MaxSent, MaxBeats, MaxReuse, MaxInFlight} \subseteq Nat

VARIABLES
  stream,    \* stream_id of the running sensor process
  sent,      \* sent[s]: _last_sequence of stream s
  net,       \* requests on their way, each with a tag that makes it distinct
  serving,   \* requests stamped by a handler and not yet committed
  clock,     \* collector clock: one tick per stamp
  ledger,    \* sensor_sequence_streams and sensor_sequence_ranges
  beats, reused,
  stored,    \* history: stored[s], the numbers of stream s whose event was stored
  evicted    \* history: streams whose row was dropped at least once

vars == <<stream, sent, net, serving, clock, ledger, beats, reused, stored, evicted>>

Streams == 1..MaxStream

Event(s, n, tag) == [kind |-> "event", stream |-> s, number |-> n, tag |-> tag]
Heartbeat(s, n, tag) == [kind |-> "heartbeat", stream |-> s, number |-> n, tag |-> tag]

Init ==
  /\ stream = 1
  /\ sent = [s \in Streams |-> 0]
  /\ net = {} /\ serving = {}
  /\ clock = 0
  /\ ledger = [s \in {} |-> NewStream(0)]
  /\ beats = 0 /\ reused = 0
  /\ stored = [s \in Streams |-> {}]
  /\ evicted = {}

HasRoom == Cardinality(net) + Cardinality(serving) < MaxInFlight

(* emit: the number is taken under the lock, before any local drop.  The     *)
(* bound is on all streams together, and so on each.                         *)
Emit ==
  /\ HasRoom
  /\ sent[stream] < MaxSent /\ FoldFunction(+, 0, sent) < MaxSent
  /\ sent' = [sent EXCEPT ![stream] = @ + 1]
  /\ net' = net \cup {Event(stream, sent[stream] + 1, 0)}
  /\ UNCHANGED <<stream, serving, clock, ledger, beats, reused, stored, evicted>>

(* A number already emitted arrives again with a new event id. *)
Reuse ==
  /\ HasRoom
  /\ reused < MaxReuse
  /\ \E s \in Streams : \E n \in 1..sent[s] :
       net' = net \cup {Event(s, n, reused + 1)}
  /\ reused' = reused + 1
  /\ UNCHANGED <<stream, sent, serving, clock, ledger, beats, stored, evicted>>

(* emit_heartbeat: the high-water mark at this instant. *)
Beat ==
  /\ HasRoom
  /\ beats < MaxBeats
  /\ beats' = beats + 1
  /\ net' = net \cup {Heartbeat(stream, sent[stream], beats)}
  /\ UNCHANGED <<stream, sent, serving, clock, ledger, reused, stored, evicted>>

(* The process restarts: a new random stream id and a counter at 0. *)
Restart ==
  /\ stream < MaxStream
  /\ stream' = stream + 1
  /\ UNCHANGED <<sent, net, serving, clock, ledger, beats, reused, stored, evicted>>

(* Dropped by the sensor or the network, or refused before it is stored. *)
Lose(m) ==
  /\ m \in net
  /\ net' = net \ {m}
  /\ UNCHANGED <<stream, sent, serving, clock, ledger, beats, reused, stored, evicted>>

(* The handler takes collector_received_at before it asks for the write lock. *)
Stamp(m) ==
  /\ m \in net
  /\ net' = net \ {m}
  /\ clock' = clock + 1
  /\ serving' = serving \cup {[msg |-> m, at |-> clock + 1]}
  /\ UNCHANGED <<stream, sent, ledger, beats, reused, stored, evicted>>

RecordLedger(new) ==
  /\ ledger' = new
  /\ evicted' = evicted \cup (DOMAIN ledger \ DOMAIN new)

(* The ingest transaction commits the event and its number together. *)
CommitEvent(q) ==
  /\ q \in serving /\ q.msg.kind = "event"
  /\ ~SequenceRefused(ledger, q.msg.stream, q.at)
  /\ RecordLedger(RecordEventSequence(ledger, q.msg.stream, q.msg.number, q.at))
  /\ stored' = [stored EXCEPT ![q.msg.stream] = @ \cup {q.msg.number}]
  /\ serving' = serving \ {q}
  /\ UNCHANGED <<stream, sent, net, clock, beats, reused>>

(* The foreign key refuses the range row: the whole transaction rolls back. *)
RefuseEvent(q) ==
  /\ q \in serving /\ q.msg.kind = "event"
  /\ SequenceRefused(ledger, q.msg.stream, q.at)
  /\ serving' = serving \ {q}
  /\ UNCHANGED <<stream, sent, net, clock, ledger, beats, reused, stored, evicted>>

CommitHeartbeat(q) ==
  /\ q \in serving /\ q.msg.kind = "heartbeat"
  /\ RecordLedger(RecordHeartbeatSequence(ledger, q.msg.stream, q.msg.number, q.at))
  /\ serving' = serving \ {q}
  /\ UNCHANGED <<stream, sent, net, clock, beats, reused, stored>>

Next ==
  \/ Emit \/ Reuse \/ Beat \/ Restart
  \/ \E m \in net : Lose(m) \/ Stamp(m)
  \/ \E q \in serving : CommitEvent(q) \/ RefuseEvent(q) \/ CommitHeartbeat(q)

Spec == Init /\ [][Next]_vars
-----------------------------------------------------------------------------
(* Requests and rows are well formed, whatever commits in whatever order.    *)
TypeOK ==
  /\ stream \in Streams
  /\ sent \in [Streams -> Nat]
  /\ \A m \in net : m.kind \in {"event", "heartbeat"} /\ m.stream \in Streams
  /\ \A q \in serving : q.msg.stream \in Streams /\ q.at \in Nat
  /\ clock \in Nat /\ beats \in Nat /\ reused \in Nat
  /\ DOMAIN ledger \subseteq Streams
  /\ \A s \in DOMAIN ledger : ledger[s] \in Row
  /\ stored \in [Streams -> SUBSET Nat]
  /\ evicted \subseteq Streams

(* Streams whose accounting the collector still holds in full. *)
Exact(s) == s \in DOMAIN ledger /\ s \notin evicted /\ ~ledger[s].truncated

(***************************************************************************)
(* Whatever the order of arrival, the compacted ranges stay disjoint,      *)
(* apart and within MAX_STREAMS_PER_SENSOR and MAX_RANGES_PER_STREAM; they *)
(* stand for exactly the numbers whose events were stored while the detail *)
(* is whole, and for nothing else once it is truncated or the stream was   *)
(* evicted and came back (sensor_sequence.py: record_event_sequence).      *)
(***************************************************************************)
RangesKept ==
  /\ Cardinality(DOMAIN ledger) <= MaxStreams
  /\ \A s \in DOMAIN ledger :
       /\ Compact(ledger[s].ranges)
       /\ Cardinality(ledger[s].ranges) <= MaxRanges
       /\ Members(ledger[s].ranges) \subseteq stored[s]
       /\ Exact(s) => Members(ledger[s].ranges) = stored[s]

(***************************************************************************)
(* sequence_summary: while a stream is held in full, the reported          *)
(* "missing" is exactly the number of sequences at or below the highest    *)
(* one known that were never stored, and the reported gaps are those       *)
(* sequences.  Once the detail is truncated the count is a lower bound: it *)
(* may hide a gap and never invents one (OPERATIONS.md, detail_truncated). *)
(***************************************************************************)
Lost(s) == (1..Highest(ledger[s])) \ stored[s]

(* What sequence_summary and _gaps report of a stream against what was lost. *)
LossTold ==
  \A s \in DOMAIN ledger :
    /\ s \notin evicted => Missing(ledger[s]) <= Cardinality(Lost(s))
    /\ Exact(s) => Missing(ledger[s]) = Cardinality(Lost(s))
    /\ Exact(s) /\ Cardinality(AllGaps(ledger[s])) <= MaxGaps
         => UNION {g.lo..g.hi : g \in Gaps(ledger[s])} = Lost(s)
-----------------------------------------------------------------------------
(***************************************************************************)
(* The tables implement the abstract account of OPERATIONS.md, evictions   *)
(* and truncated detail included: the ranges refine the set of numbers.    *)
(***************************************************************************)
AccountOf(row) ==
  [got |-> Members(row.ranges), received |-> row.received,
   high |-> Highest(row), duplicates |-> row.duplicates]

Account == INSTANCE DeliveryAccount WITH
  Numbers <- 0..MaxSent,
  account <- [s \in DOMAIN ledger |-> AccountOf(ledger[s])]

(* Each commit, eviction and refusal is a step of the account or a stutter.  *)
ImplementsAccount == Account!Spec
=============================================================================
