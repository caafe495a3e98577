----------------------------- MODULE EventChain -----------------------------
(***************************************************************************)
(* The tamper-evident hash chain over stored events (event_chain.py): pure *)
(* operators on a set of event rows and on the single head row.  SHA-256   *)
(* is a constructor: two hashes are equal exactly when sequence number,    *)
(* previous hash and hashed columns are.                                   *)
(***************************************************************************)
EXTENDS Integers, FiniteSets

GenesisHash == <<>>

(* Variants with a suffix hold a plausible defect each; no definition uses them. *)
HashedColumns_NoBody(row) ==
  <<row.id, row.ts, row.received, row.session, row.stream, row.number>>

(* HASHED_COLUMNS.  The body stands for the hashed columns of the event; the
   copies are the columns stored beside them for look-ups and left out of the
   hash: received_at, protocol, service, destination_port, country, asn,
   latitude and longitude (store.py: ingest). *)
HashedColumns(row) ==
  <<row.id, row.ts, row.received, row.session, row.stream, row.number, row.body>>

RecordHash(seq, prev, columns) == <<seq, prev, columns>>

(* event_chain_head before the first event: no row, read as 0 and genesis. *)
GenesisHead == [seq |-> 0, hash |-> GenesisHash]

(* The row with its chain columns, as append_record stores it. *)
Chained(head, row) ==
  [id |-> row.id, ts |-> row.ts, received |-> row.received,
   session |-> row.session, stream |-> row.stream, number |-> row.number,
   body |-> row.body, copies |-> row.copies,
   seq |-> head.seq + 1, prev |-> head.hash,
   hash |-> RecordHash(head.seq + 1, head.hash, HashedColumns(row))]

HeadAfter_StaleHash(head, row) == [seq |-> head.seq + 1, hash |-> head.hash]

HeadAfter(head, row) ==
  [seq |-> head.seq + 1,
   hash |-> RecordHash(head.seq + 1, head.hash, HashedColumns(row))]

-----------------------------------------------------------------------------
(* verify_chain walks the rows in the order of chain_seq. *)

First(rows) == {r \in rows : \A q \in rows : r.seq <= q.seq}
Last(rows)  == {r \in rows : \A q \in rows : q.seq <= r.seq}

(* The row the walk visits just before r. *)
Before(rows, r) == Last({q \in rows : q.seq < r.seq})

SequenceGaps(rows) == {r \in rows : \E q \in Before(rows, r) : r.seq # q.seq + 1}
BrokenLinks(rows)  == {r \in rows : \E q \in Before(rows, r) : r.prev # q.hash}
HashMismatches(rows) ==
  {r \in rows : r.hash # RecordHash(r.seq, r.prev, HashedColumns(r))}

WalkOK_NoRehash(rows) == SequenceGaps(rows) = {} /\ BrokenLinks(rows) = {}

WalkOK(rows) ==
  SequenceGaps(rows) = {} /\ BrokenLinks(rows) = {} /\ HashMismatches(rows) = {}

(* head_missing and head_mismatch; an empty walk expects a head at 0. *)
HeadOK(rows, head) ==
  IF rows = {} THEN head.seq = 0
  ELSE \A r \in Last(rows) : head = [seq |-> r.seq, hash |-> r.hash]

ChainOK(rows, head) == WalkOK(rows) /\ HeadOK(rows, head)
=============================================================================
