--------------------------- MODULE OperatorAudit ----------------------------
(***************************************************************************)
(* The append-only operator audit log (operator_audit.py): pure operators  *)
(* on a table  [rows, next],  next being the AUTOINCREMENT id to come.     *)
(* record is one transaction: insert, prune by age, prune by count, and a  *)
(* row that tells of the pruning.                                          *)
(***************************************************************************)
EXTENDS Integers, FiniteSets

CONSTANTS
  AuditRetention,  \* retention_days, in clock ticks; 0 disables the age bound
  AuditRows        \* max_rows; 0 disables the count bound

ASSUME AuditLimits == {AuditRetention, AuditRows} \subseteq Nat

EmptyAudit == [rows |-> {}, next |-> 1]

PruneAction == "audit.retention_prune"

Appended(tbl, at, action, target) ==
  [rows |-> tbl.rows \cup
              {[id |-> tbl.next, at |-> at, action |-> action, target |-> target]},
   next |-> tbl.next + 1]

AgedOut(rows, now) ==
  {r \in rows : /\ AuditRetention > 0
                /\ r.at < now - AuditRetention
                /\ r.action # PruneAction}

(* ORDER BY id ASC LIMIT n *)
FirstIds(rows, n) == {r \in rows : Cardinality({q \in rows : q.id < r.id}) < n}

Overflow(rows) ==
  IF AuditRows = 0 THEN {} ELSE FirstIds(rows, Cardinality(rows) - AuditRows)

(* Variants with a suffix hold a plausible defect each; no definition uses them. *)
EnforceRetention_AgeSilent(tbl, now) ==   \* only the count bound tells
  LET young == tbl.rows \ AgedOut(tbl.rows, now)
      kept  == young \ Overflow(young)
  IN IF kept = young THEN [tbl EXCEPT !.rows = young]
     ELSE Appended([tbl EXCEPT !.rows = kept], now, PruneAction, "log")

EnforceRetention(tbl, now) ==
  LET young == tbl.rows \ AgedOut(tbl.rows, now)
      kept  == young \ Overflow(young)
  IN IF kept = tbl.rows THEN tbl
     ELSE Appended([tbl EXCEPT !.rows = kept], now, PruneAction, "log")

(* at: the stamp taken before the lock; now: when the transaction runs. *)
Recorded(tbl, at, action, target, now) ==
  EnforceRetention(Appended(tbl, at, action, target), now)
=============================================================================
