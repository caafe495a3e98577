------------------------------ MODULE CaseStore -----------------------------
(***************************************************************************)
(* Investigation cases: the /api/v1/cases handlers of app.py over the case *)
(* operations of store.py, and the audit entry each handler writes last.   *)
(*                                                                         *)
(* A SELECT before the first write of a connection runs in autocommit, so  *)
(* every operation is a read of the case and, as a step of its own, one    *)
(* write transaction; then get_case re-reads the case for the answer, and  *)
(* record_audit stamps and inserts its row.  Requests that read nothing to *)
(* work on are answered 404, 409 or 422 without a change; no step is given *)
(* to them.  Ids are never used twice (uuid4).                             *)
(***************************************************************************)
EXTENDS OperatorAudit, Sequences

CONSTANTS
  Threads,        \* request threads of all workers
  CaseIds,
  Items,          \* telemetry that can be linked: events, sessions, alerts
  MaxCases,       \* AEGIS_MAX_CASES
  MaxEvidence,    \* 1000 in the code
  MaxNotes,       \* 500 in the code
  CaseRetention,  \* AEGIS_CASE_RETENTION_DAYS in ticks; 0 disables it
  MaxRequests,    \* bound: requests that find something to work on
  MaxClock,       \* bound: clock ticks
  MaxCrashes      \* bound: requests cut off half-way

ASSUME CaseAssumption ==
  /\ {MaxCases, MaxEvidence, MaxNotes, CaseRetention, MaxRequests, MaxClock,
      MaxCrashes} \subseteq Nat
  /\ IsFiniteSet(Threads)

(* open, investigating and monitoring are alike to the code. *)
Statuses == {"open", "closed"}
KeepStatus == "keep"   \* an update of title, summary, severity or tags only
Never == 0             \* closed_at is NULL
NoCase == ""           \* a target_id that names no case
NoItem == "none"       \* an entry of a history that is not about a link

ASSUME NamesAssumption == NoCase \notin CaseIds /\ NoItem \notin Items

VARIABLES
  cases,       \* cases[c]: row of case c with its evidence, notes and history
  nextRow,     \* AUTOINCREMENT of case_evidence
  audit,       \* operator_audit_log, see OperatorAudit
  clock,
  req,         \* req[t]: the request thread t serves
  asked, crashes,
  created,     \* history: every id ever drawn
  overlapped   \* history: cases two requests were working on at once

vars == <<cases, nextRow, audit, clock, req, asked, crashes, created, overlapped>>

Idle == [pc |-> "idle"]

Init ==
  /\ cases = [c \in {} |-> 0] /\ nextRow = 1
  /\ audit = EmptyAudit
  /\ clock = 1
  /\ req = [t \in Threads |-> Idle]
  /\ asked = 0 /\ crashes = 0
  /\ created = {} /\ overlapped = {}

Log(case, entry) == [case EXCEPT !.history = Append(@, entry)]

Begin(t, request) ==
  /\ req[t].pc = "idle" /\ asked < MaxRequests
  /\ asked' = asked + 1
  /\ req' = [req EXCEPT ![t] = request]
  /\ overlapped' = IF \E u \in Threads \ {t} :
                        req[u].pc # "idle" /\ req[u].case = request.case
                   THEN overlapped \cup {request.case} ELSE overlapped
  /\ UNCHANGED <<nextRow, audit, clock, crashes>>

(* prune_cases: closed cases whose closed_at is old. *)
Pruned ==
  LET old == {c \in DOMAIN cases : /\ CaseRetention > 0
                                   /\ cases[c].status = "closed"
                                   /\ cases[c].closedAt # Never
                                   /\ cases[c].closedAt < clock - CaseRetention}
  IN [c \in DOMAIN cases \ old |-> cases[c]]

(* Store.maintain calls it after the 100th ingest of a worker. *)
PruneCases ==
  /\ Pruned # cases
  /\ cases' = Pruned
  /\ UNCHANGED <<nextRow, audit, clock, req, asked, crashes, created, overlapped>>

-----------------------------------------------------------------------------
(* The read of each operation: what it saw is in req[t]. *)

(* create_case prunes first, in a transaction of its own. *)
AskCreate(t) ==
  /\ \E c \in CaseIds \ created, status \in Statuses :
       /\ Begin(t, [pc |-> "write", op |-> "create", case |-> c, status |-> status])
       /\ created' = created \cup {c}
  /\ cases' = Pruned

AskUpdate(t) ==
  /\ \E c \in DOMAIN cases, status \in Statuses \cup {KeepStatus} :
       Begin(t, [pc |-> "write", op |-> "update", case |-> c, status |-> status,
                 was |-> cases[c].status])
  /\ UNCHANGED <<cases, created>>

AskDelete(t) ==
  /\ \E c \in DOMAIN cases :
       /\ cases[c].status = "closed"
       /\ Begin(t, [pc |-> "write", op |-> "delete", case |-> c])
  /\ UNCHANGED <<cases, created>>

Linked(c) == {e.item : e \in cases[c].evidence}

(* A link that exists is answered, and audited, like a new one. *)
AskAddEvidence(t) ==
  /\ \E c \in DOMAIN cases, item \in Items :
       \/ /\ item \in Linked(c)
          /\ Begin(t, [pc |-> "answer", op |-> "evidence_add", case |-> c, item |-> item])
       \/ /\ item \notin Linked(c)
          /\ Cardinality(cases[c].evidence) < MaxEvidence
          /\ Begin(t, [pc |-> "write", op |-> "evidence_add", case |-> c, item |-> item])
  /\ UNCHANGED <<cases, created>>

AskRemoveEvidence(t) ==
  /\ \E c \in DOMAIN cases : \E e \in cases[c].evidence :
       Begin(t, [pc |-> "write", op |-> "evidence_remove", case |-> c, link |-> e])
  /\ UNCHANGED <<cases, created>>

(* Variants with a suffix hold a plausible defect each; no definition uses them. *)
AskNote_NoLimit(t) ==
  /\ \E c \in DOMAIN cases :
       Begin(t, [pc |-> "write", op |-> "note_add", case |-> c])
  /\ UNCHANGED <<cases, created>>

AskNote(t) ==
  /\ \E c \in DOMAIN cases :
       /\ cases[c].notes < MaxNotes
       /\ Begin(t, [pc |-> "write", op |-> "note_add", case |-> c])
  /\ UNCHANGED <<cases, created>>

-----------------------------------------------------------------------------
(* The write transaction of each operation. *)

Writing(t, op) == req[t].pc = "write" /\ req[t].op = op

(* The write went through: get_case comes next; a delete has nothing to read. *)
Written(t) ==
  /\ req' = [req EXCEPT ![t].pc = IF req[t].op = "delete" THEN "stamp" ELSE "answer"]
  /\ UNCHANGED <<audit, clock, asked, crashes, created, overlapped>>

NewCase(status) ==
  [status |-> status, closedAt |-> IF status = "closed" THEN clock ELSE Never,
   evidence |-> {}, notes |-> 0,
   history |-> <<[action |-> "create", status |-> status, item |-> NoItem]>>]

(* INSERT ... SELECT ... WHERE COUNT < max: check and insert are one. *)
WriteCreate(t) ==
  /\ Writing(t, "create")
  /\ Cardinality(DOMAIN cases) < MaxCases
  /\ cases' = [c \in DOMAIN cases \cup {req[t].case} |->
                 IF c = req[t].case THEN NewCase(req[t].status) ELSE cases[c]]
  /\ UNCHANGED nextRow
  /\ Written(t)

WriteUpdate_KeepsClosedAt(t) ==   \* reopening leaves closed_at
  /\ Writing(t, "update") /\ req[t].case \in DOMAIN cases
  /\ LET new == req[t].status
         Updated(case) ==
           [case EXCEPT !.status = IF new = KeepStatus THEN @ ELSE new,
                        !.closedAt = IF new = "closed" /\ req[t].was # "closed"
                                     THEN clock ELSE @]
     IN cases' = [cases EXCEPT ![req[t].case] =
                    Log(Updated(@), [action |-> "update", status |-> new, item |-> NoItem])]
  /\ UNCHANGED nextRow
  /\ Written(t)

(* closed_at follows the status the read saw, not the status it replaces. *)
WriteUpdate(t) ==
  /\ Writing(t, "update") /\ req[t].case \in DOMAIN cases
  /\ LET new == req[t].status
         Updated(case) ==
           [case EXCEPT
              !.status = IF new = KeepStatus THEN @ ELSE new,
              !.closedAt = IF new = "closed" /\ req[t].was # "closed" THEN clock
                           ELSE IF new \notin {"closed", KeepStatus}
                                   /\ req[t].was = "closed" THEN Never
                           ELSE @]
     IN cases' = [cases EXCEPT ![req[t].case] =
                    Log(Updated(@), [action |-> "update", status |-> new, item |-> NoItem])]
  /\ UNCHANGED nextRow
  /\ Written(t)

(* DELETE by id alone; the rows of the other tables cascade. *)
WriteDelete(t) ==
  /\ Writing(t, "delete")
  /\ cases' = [c \in DOMAIN cases \ {req[t].case} |-> cases[c]]
  /\ UNCHANGED nextRow
  /\ Written(t)

WriteAddEvidence_SameRow(t) ==   \* a row id taken from the count of links
  /\ Writing(t, "evidence_add") /\ req[t].case \in DOMAIN cases
  /\ LET item == req[t].item
         case == cases[req[t].case]
         link == [row |-> Cardinality(case.evidence) + 1, item |-> item]
     IN IF item \in Linked(req[t].case) THEN UNCHANGED cases
        ELSE cases' = [cases EXCEPT ![req[t].case] =
               Log([case EXCEPT !.evidence = @ \cup {link}],
                   [action |-> "evidence_add", status |-> KeepStatus, item |-> item])]
  /\ UNCHANGED nextRow
  /\ Written(t)

(* INSERT OR IGNORE: another request may have linked the item meanwhile. *)
WriteAddEvidence(t) ==
  /\ Writing(t, "evidence_add") /\ req[t].case \in DOMAIN cases
  /\ LET item == req[t].item
         case == cases[req[t].case]
         link == [row |-> nextRow, item |-> item]
     IN IF item \in Linked(req[t].case) THEN UNCHANGED <<cases, nextRow>>
        ELSE /\ nextRow' = nextRow + 1
             /\ cases' = [cases EXCEPT ![req[t].case] =
                  Log([case EXCEPT !.evidence = @ \cup {link}],
                      [action |-> "evidence_add", status |-> KeepStatus, item |-> item])]
  /\ Written(t)

(* DELETE by row id; the removal is logged even if the row was gone. *)
WriteRemoveEvidence(t) ==
  /\ Writing(t, "evidence_remove") /\ req[t].case \in DOMAIN cases
  /\ LET case == cases[req[t].case]
     IN cases' = [cases EXCEPT ![req[t].case] =
          Log([case EXCEPT !.evidence = {e \in @ : e.row # req[t].link.row}],
              [action |-> "evidence_remove", status |-> KeepStatus,
               item |-> req[t].link.item])]
  /\ UNCHANGED nextRow
  /\ Written(t)

WriteNote(t) ==
  /\ Writing(t, "note_add") /\ req[t].case \in DOMAIN cases
  /\ LET case == cases[req[t].case]
     IN cases' = [cases EXCEPT ![req[t].case] =
          Log([case EXCEPT !.notes = @ + 1],
              [action |-> "note_add", status |-> KeepStatus, item |-> NoItem])]
  /\ UNCHANGED nextRow
  /\ Written(t)

(* No room for the case (409), or a foreign key refuses the rows of a case
   deleted meanwhile (500): the transaction rolls back. *)
WriteRefused(t) ==
  /\ req[t].pc = "write"
  /\ \/ req[t].op = "create" /\ Cardinality(DOMAIN cases) >= MaxCases
     \/ req[t].op \notin {"create", "delete"} /\ req[t].case \notin DOMAIN cases
  /\ req' = [req EXCEPT ![t] = Idle]
  /\ UNCHANGED <<cases, nextRow, audit, clock, asked, crashes, created, overlapped>>

-----------------------------------------------------------------------------
(* get_case for the answer: a case deleted since the write is a 404, and its
   change goes without an audit row; create then audits an empty target. *)
Answer(t) ==
  /\ req[t].pc = "answer"
  /\ req' = [req EXCEPT ![t] =
               IF @.case \in DOMAIN cases THEN [@ EXCEPT !.pc = "stamp"]
               ELSE IF @.op = "create" THEN [@ EXCEPT !.pc = "stamp", !.case = NoCase]
               ELSE Idle]
  /\ UNCHANGED <<cases, nextRow, audit, clock, asked, crashes, created, overlapped>>

(* record_audit takes its time stamp before it asks for the lock. *)
Stamp(t) ==
  /\ req[t].pc = "stamp"
  /\ req' = [req EXCEPT ![t] = [pc |-> "audit", op |-> @.op, case |-> @.case, at |-> clock]]
  /\ UNCHANGED <<cases, nextRow, audit, clock, asked, crashes, created, overlapped>>

Record(t) ==
  /\ req[t].pc = "audit"
  /\ audit' = Recorded(audit, req[t].at, req[t].op, req[t].case, clock)
  /\ req' = [req EXCEPT ![t] = Idle]
  /\ UNCHANGED <<cases, nextRow, clock, asked, crashes, created, overlapped>>

(* The worker dies, or the audit row fails and record_audit swallows it. *)
CutOff(t) ==
  /\ req[t].pc # "idle" /\ crashes < MaxCrashes
  /\ crashes' = crashes + 1
  /\ req' = [req EXCEPT ![t] = Idle]
  /\ UNCHANGED <<cases, nextRow, audit, clock, asked, created, overlapped>>

Tick ==
  /\ clock < MaxClock
  /\ clock' = clock + 1
  /\ UNCHANGED <<cases, nextRow, audit, req, asked, crashes, created, overlapped>>

Ask(t) ==
  AskCreate(t) \/ AskUpdate(t) \/ AskDelete(t) \/ AskAddEvidence(t)
    \/ AskRemoveEvidence(t) \/ AskNote(t)

Write(t) ==
  WriteCreate(t) \/ WriteUpdate(t) \/ WriteDelete(t) \/ WriteAddEvidence(t)
    \/ WriteRemoveEvidence(t) \/ WriteNote(t) \/ WriteRefused(t)

Next ==
  \/ \E t \in Threads : Ask(t) \/ Write(t) \/ Answer(t) \/ Stamp(t) \/ Record(t) \/ CutOff(t)
  \/ PruneCases \/ Tick

Spec == Init /\ [][Next]_vars
-----------------------------------------------------------------------------
(* Cases, requests and audit rows are well formed, whichever requests cross. *)
TypeOK ==
  /\ DOMAIN cases \subseteq created /\ created \subseteq CaseIds
  /\ \A c \in DOMAIN cases :
       /\ cases[c].status \in Statuses /\ cases[c].closedAt \in 0..clock
       /\ cases[c].notes \in Nat /\ Len(cases[c].history) >= 1
       /\ \A e \in cases[c].evidence : e.row < nextRow /\ e.item \in Items
  /\ \A t \in Threads : req[t].pc \in {"idle", "write", "answer", "stamp", "audit"}
  /\ \A r \in audit.rows : r.id < audit.next /\ r.at <= clock

(***************************************************************************)
(* The store never holds more cases than AEGIS_MAX_CASES, whoever creates. *)
(* Evidence and notes are counted before the transaction that adds one:    *)
(* their limits give way by the other threads' requests and by no more.    *)
(***************************************************************************)
LimitsHeld ==
  /\ Cardinality(DOMAIN cases) <= MaxCases
  /\ \A c \in DOMAIN cases :
       /\ Cardinality(cases[c].evidence) <= MaxEvidence + Cardinality(Threads) - 1
       /\ cases[c].notes <= MaxNotes + Cardinality(Threads) - 1

(***************************************************************************)
(* The case's own audit trail tells its present state (CASE_MANAGEMENT.md: *)
(* it records creation, updates, evidence links and removals): the last    *)
(* status logged is the status, and, unless requests overlapped, an item   *)
(* is linked if and only if its last entry says so, and exactly the closed *)
(* cases have a closed_at, by which retention prunes them (store.py:       *)
(* update_case, prune_cases).                                              *)
(***************************************************************************)
LastStatus(h, status) ==
  \E i \in DOMAIN h : /\ h[i].status = status
                      /\ \A j \in DOMAIN h : j > i => h[j].status = KeepStatus

LastAdded(h, item) ==
  \E i \in DOMAIN h : /\ h[i].item = item /\ h[i].action = "evidence_add"
                      /\ \A j \in DOMAIN h : j > i => h[j].item # item

(* The status for every case, links and closed_at where no requests crossed. *)
HistoryTold ==
  \A c \in DOMAIN cases :
    /\ LastStatus(cases[c].history, cases[c].status)
    /\ c \notin overlapped =>
         /\ cases[c].status = "closed" <=> cases[c].closedAt # Never
         /\ \A item \in Items : item \in Linked(c) <=> LastAdded(cases[c].history, item)

(* CASE_MANAGEMENT.md: manual deletion is accepted only for a closed case. *)
DeletedWasClosed ==
  [][\A t \in Threads :
       WriteDelete(t) /\ req[t].case \in DOMAIN cases
         => cases[req[t].case].status = "closed"]_vars

-----------------------------------------------------------------------------
(***************************************************************************)
(* What the audit log says of a case happened to it: entries of a case     *)
(* that exists are matched by its history, entry by entry, and a deletion  *)
(* is told of cases that are gone.  (evidence_add also tells of links that *)
(* were there already.)  AUDIT_LOG.md: evidence loss is explicit, never    *)
(* silent; as long as ids are missing from the log, a row of it tells of a *)
(* pruning, and the row bound holds but for that row.                      *)
(***************************************************************************)
Audited(c, action) == {r \in audit.rows : r.target = c /\ r.action = action}
Logged(c, action) == {i \in DOMAIN cases[c].history : cases[c].history[i].action = action}

(* Entries matched, pruning told of, the row bound held.                     *)
AuditTold ==
  /\ \A c \in DOMAIN cases :
       \A action \in {"create", "update", "evidence_remove", "note_add", "delete"} :
         Cardinality(Audited(c, action)) <= Cardinality(Logged(c, action))
  /\ (\E i \in 1..(audit.next - 1) : \A r \in audit.rows : r.id # i) =>
       \E r \in audit.rows : r.action = PruneAction
  /\ AuditRows > 0 => Cardinality(audit.rows) <= AuditRows + 1
=============================================================================
