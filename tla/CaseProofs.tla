----------------------------- MODULE CaseProofs -----------------------------
(***************************************************************************)
(* Proofs about CaseStore, for any number of request threads, cases, items *)
(* and limits, crashes and bounds included.                                *)
(***************************************************************************)
EXTENDS CaseStore, TLAPS, FiniteSetTheorems, SequenceTheorems, FunctionTheorems

Operations == {"create", "update", "delete", "evidence_add", "evidence_remove", "note_add"}

Links == [row : Nat, item : Items]
Entries == [action : Operations, status : Statuses \cup {KeepStatus},
            item : Items \cup {NoItem}]
CaseRows == [status : Statuses, closedAt : Nat, evidence : SUBSET Links,
             notes : Nat, history : Seq(Entries)]

(* What a thread holds while it serves a request, operation by operation.    *)
Early == {"write", "answer", "stamp"}
Targets == CaseIds \cup {NoCase}
Work ==
  [pc : Early, op : {"create"}, case : Targets, status : Statuses]
    \cup [pc : Early, op : {"update"}, case : Targets,
          status : Statuses \cup {KeepStatus}, was : Statuses]
    \cup [pc : Early, op : {"delete", "note_add"}, case : Targets]
    \cup [pc : Early, op : {"evidence_add"}, case : Targets, item : Items]
    \cup [pc : Early, op : {"evidence_remove"}, case : Targets, link : Links]
    \cup [pc : {"audit"}, op : Operations, case : Targets, at : Nat]

Busy(t) == req[t].pc # "idle"
Serves(t, c) == Busy(t) /\ req[t].case = c

(***************************************************************************)
(* The values of the variables, row by row.                                *)
(***************************************************************************)
ValuesOK ==
  /\ IsFiniteSet(DOMAIN cases) /\ cases \in [DOMAIN cases -> CaseRows]
  /\ DOMAIN cases \subseteq created /\ created \subseteq CaseIds
  /\ nextRow \in Nat /\ clock \in Nat \ {0}
  /\ req \in [Threads -> {Idle} \cup Work]

RowsOK ==
  \A c \in DOMAIN cases :
    /\ cases[c].closedAt <= clock
    /\ Len(cases[c].history) >= 1
    /\ IsFiniteSet(cases[c].evidence)
    /\ \A e \in cases[c].evidence : e.row < nextRow
    /\ \A e, f \in cases[c].evidence : (e.row = f.row \/ e.item = f.item) => e = f

(* An id is drawn before it is worked on; the audit of a case that is gone
   names no case. *)
RequestsOK ==
  \A t \in Threads :
    Busy(t) => /\ req[t].case \in created \cup {NoCase}
               /\ req[t].case = NoCase => req[t].pc \in {"stamp", "audit"}
               /\ req[t].pc = "audit" => req[t].at <= clock

AuditOK ==
  /\ audit = [rows |-> audit.rows, next |-> audit.next]
  /\ audit.next \in Nat /\ IsFiniteSet(audit.rows)
  /\ \A r \in audit.rows :
       /\ r.id \in Nat /\ r.id < audit.next
       /\ r.at \in Nat /\ r.at <= clock
       /\ r.action # PruneAction => r.target \in created \cup {NoCase}
  /\ \A r, q \in audit.rows : r.id = q.id => r = q

(***************************************************************************)
(* A case about to be inserted is its creator's alone, and the audit log   *)
(* has not heard of it.  Two requests meet on a case only where overlapped *)
(* says so; elsewhere what a request has read is still what is there.      *)
(***************************************************************************)
CreatedAlone ==
  \A t \in Threads :
    Writing(t, "create") =>
      /\ req[t].case \notin DOMAIN cases
      /\ \A u \in Threads \ {t} : ~ Serves(u, req[t].case)
      /\ \A r \in audit.rows : r.action # PruneAction => r.target # req[t].case

Overlaps ==
  \A t, u \in Threads :
    t # u /\ Busy(t) /\ Busy(u) /\ req[t].case = req[u].case /\ req[t].case # NoCase
      => req[t].case \in overlapped

ReadsHold ==
  \A t \in Threads : req[t].pc = "write" /\ req[t].case \in DOMAIN cases \ overlapped =>
    /\ req[t].op = "update" => req[t].was = cases[req[t].case].status
    /\ req[t].op = "evidence_remove" => req[t].link \in cases[req[t].case].evidence

(***************************************************************************)
(* A thread that has passed a limit has a place kept for what it adds, and *)
(* each entry still to be audited has its own entry in the history.        *)
(***************************************************************************)
Adding(op, c) == {t \in Threads : Writing(t, op) /\ req[t].case = c}
Telling(c, action) ==
  {t \in Threads : /\ req[t].pc \in {"answer", "stamp", "audit"}
                   /\ req[t].op = action /\ req[t].case = c}

PlacesKept ==
  /\ Cardinality(DOMAIN cases) <= MaxCases
  /\ \A c \in DOMAIN cases :
       /\ Cardinality(cases[c].evidence) + Cardinality(Adding("evidence_add", c))
            <= MaxEvidence + Cardinality(Threads) - 1
       /\ cases[c].notes + Cardinality(Adding("note_add", c))
            <= MaxNotes + Cardinality(Threads) - 1

Told == {"create", "update", "evidence_remove", "note_add", "delete"}

EntriesKept ==
  \A c \in DOMAIN cases : \A action \in Told :
    Cardinality(Audited(c, action)) + Cardinality(Telling(c, action))
      <= Cardinality(Logged(c, action))

LossTold ==
  /\ (\E i \in 1..(audit.next - 1) : \A r \in audit.rows : r.id # i) =>
       \E r \in audit.rows : r.action = PruneAction
  /\ AuditRows > 0 => Cardinality(audit.rows) <= AuditRows + 1

CaseInv ==
  /\ ValuesOK /\ RowsOK /\ RequestsOK /\ AuditOK
  /\ CreatedAlone /\ Overlaps /\ ReadsHold
  /\ PlacesKept /\ HistoryTold /\ EntriesKept /\ LossTold

-----------------------------------------------------------------------------
(* What requests, cases and histories are made of.                           *)

LEMMA WorkFields ==
  ASSUME NEW q \in Work
  PROVE  /\ q.pc \in Early \cup {"audit"} /\ q.op \in Operations /\ q.case \in Targets
         /\ q.pc # "audit" /\ q.op = "update"
              => q.status \in Statuses \cup {KeepStatus} /\ q.was \in Statuses
         /\ q.pc # "audit" /\ q.op = "create" => q.status \in Statuses
         /\ q.pc # "audit" /\ q.op = "evidence_add" => q.item \in Items
         /\ q.pc # "audit" /\ q.op = "evidence_remove" => q.link \in Links
         /\ q.pc = "audit" => q.at \in Nat
         /\ q # Idle
BY DEF Work, Early, Operations, Idle

(* A request goes on to its next step with all it carries.                   *)
LEMMA MovedOn ==
  ASSUME NEW q \in Work, q.pc # "audit", NEW p \in Early
  PROVE  /\ [q EXCEPT !.pc = p] \in Work
         /\ [q EXCEPT !.pc = p].pc = p
         /\ [q EXCEPT !.pc = p].op = q.op
         /\ [q EXCEPT !.pc = p].case = q.case
BY DEF Work, Early

LEMMA RequestSet ==
  ASSUME req \in [Threads -> {Idle} \cup Work], NEW t \in Threads, NEW q
  PROVE  /\ [req EXCEPT ![t] = q][t] = q
         /\ \A u \in Threads : u # t => [req EXCEPT ![t] = q][u] = req[u]
         /\ q \in {Idle} \cup Work => [req EXCEPT ![t] = q] \in [Threads -> {Idle} \cup Work]
OBVIOUS

LEMMA LogFields ==
  ASSUME NEW case \in CaseRows, NEW e \in Entries
  PROVE  /\ Log(case, e) \in CaseRows
         /\ Log(case, e).status = case.status /\ Log(case, e).closedAt = case.closedAt
         /\ Log(case, e).evidence = case.evidence /\ Log(case, e).notes = case.notes
         /\ Log(case, e).history = Append(case.history, e)
<1>1. case.history \in Seq(Entries)
  BY DEF CaseRows
<1>2. Append(case.history, e) \in Seq(Entries)
  BY <1>1, AppendProperties
<1> DEFINE h == Append(case.history, e)
<1>3. [case EXCEPT !.history = h] = Log(case, e)
  BY DEF CaseRows, Log
<1> HIDE DEF h
<1>4. h \in Seq(Entries)
  BY <1>2 DEF h
<1> QED
  BY <1>3, <1>4 DEF CaseRows, h

-----------------------------------------------------------------------------
(***************************************************************************)
(* What each step does, told in the same few terms for all operations: a   *)
(* thread takes a request up, inserts, edits or deletes a case, goes on    *)
(* with its request, or drops it.                                          *)
(***************************************************************************)
Takes(t, q) == q \in {Idle} \cup Work /\ req' = [req EXCEPT ![t] = q]

Meets(t, c) == \E u \in Threads \ {t} : Serves(u, c)

Asked(t, q) ==
  /\ req[t] = Idle /\ Takes(t, q)
  /\ q.pc \in {"write", "answer"} /\ q.case \in CaseIds
  /\ q.pc = "answer" => q.op = "evidence_add"
  /\ overlapped' = IF Meets(t, q.case) THEN overlapped \cup {q.case} ELSE overlapped
  /\ IF q.op = "create"
     THEN q.case \notin created /\ created' = created \cup {q.case} /\ cases' = Pruned
     ELSE q.case \in DOMAIN cases /\ UNCHANGED <<created, cases>>
  /\ q.op = "update" => q.was = cases[q.case].status
  /\ q.op = "evidence_remove" => q.link \in cases[q.case].evidence
  /\ q.op = "evidence_add" /\ q.pc = "write"
       => Cardinality(cases[q.case].evidence) < MaxEvidence
  /\ q.op = "note_add" => cases[q.case].notes < MaxNotes
  /\ UNCHANGED <<nextRow, audit, clock>>

(* Thread t goes on to step p of its request.                                *)
Moves(t, p) == \E q \in Work :
  /\ Takes(t, q)
  /\ q.pc = p /\ q.op = req[t].op /\ q.case = req[t].case
  /\ UNCHANGED <<audit, clock, created, overlapped>>

Inserted(t) ==
  /\ Writing(t, "create") /\ req[t].status \in Statuses
  /\ Cardinality(DOMAIN cases) < MaxCases
  /\ DOMAIN cases' = DOMAIN cases \cup {req[t].case}
  /\ cases' = [c \in DOMAIN cases' |-> cases'[c]]
  /\ cases'[req[t].case] = NewCase(req[t].status)
  /\ \A c \in DOMAIN cases \ {req[t].case} : cases'[c] = cases[c]
  /\ UNCHANGED nextRow
  /\ Moves(t, "answer")

Edited(t, c, e) ==
  /\ req[t].case = c /\ Writing(t, e.action) /\ e.action \notin {"create", "delete"}
  /\ c \in DOMAIN cases /\ DOMAIN cases' = DOMAIN cases
  /\ cases' \in [DOMAIN cases -> CaseRows]
  /\ \A d \in DOMAIN cases \ {c} : cases'[d] = cases[d]
  /\ cases'[c].history = Append(cases[c].history, e)
  /\ IF e.action = "update"
     THEN /\ e.status = req[t].status /\ e.item = NoItem
          /\ cases'[c].status = (IF e.status = KeepStatus THEN cases[c].status ELSE e.status)
          /\ cases'[c].closedAt =
               (IF e.status = "closed" /\ req[t].was # "closed" THEN clock
                ELSE IF e.status \notin {"closed", KeepStatus} /\ req[t].was = "closed"
                THEN Never ELSE cases[c].closedAt)
     ELSE /\ e.status = KeepStatus
          /\ cases'[c].status = cases[c].status /\ cases'[c].closedAt = cases[c].closedAt
  /\ IF e.action = "evidence_add"
     THEN /\ e.item \in Items \ Linked(c) /\ nextRow' = nextRow + 1
          /\ cases'[c].evidence = cases[c].evidence \cup {[row |-> nextRow, item |-> e.item]}
     ELSE UNCHANGED nextRow
  /\ e.action = "evidence_remove" =>
       /\ e.item = req[t].link.item
       /\ cases'[c].evidence = {k \in cases[c].evidence : k.row # req[t].link.row}
  /\ e.action = "note_add" => e.item = NoItem
  /\ e.action \notin {"evidence_add", "evidence_remove"}
       => cases'[c].evidence = cases[c].evidence
  /\ cases'[c].notes = (IF e.action = "note_add" THEN cases[c].notes + 1 ELSE cases[c].notes)
  /\ Moves(t, "answer")

Deleted(t) ==
  /\ Writing(t, "delete")
  /\ cases' = [c \in DOMAIN cases \ {req[t].case} |-> cases[c]]
  /\ UNCHANGED nextRow
  /\ Moves(t, "stamp")

(* The link is there already; or the answer is read, or the time stamp taken. *)
Advanced(t) ==
  /\ UNCHANGED <<cases, nextRow>>
  /\ \/ Writing(t, "evidence_add") /\ Moves(t, "answer")
     \/ req[t].pc = "answer" /\ Moves(t, "stamp")
     \/ /\ req[t].pc = "stamp" /\ Moves(t, "audit")
        /\ req'[t].at = clock

Nameless(t) == \E q \in Work :   \* create's answer: its case is gone
  /\ req[t].pc = "answer" /\ req[t].op = "create"
  /\ Takes(t, q)
  /\ q.pc = "stamp" /\ q.op = "create" /\ q.case = NoCase
  /\ UNCHANGED <<cases, nextRow, audit, clock, created, overlapped>>

Dropped(t) ==
  /\ Busy(t) /\ Takes(t, Idle)
  /\ UNCHANGED <<cases, nextRow, audit, clock, created, overlapped>>

LEMMA WriteWork ==
  ASSUME req \in [Threads -> {Idle} \cup Work], NEW t \in Threads, Busy(t)
  PROVE  /\ req[t] \in Work
         /\ req[t].op \in Operations /\ req[t].case \in Targets
BY WorkFields DEF Busy, Idle

LEMMA WrittenMoves ==
  ASSUME req \in [Threads -> {Idle} \cup Work], NEW t \in Threads,
         req[t].pc = "write", Written(t)
  PROVE  Moves(t, IF req[t].op = "delete" THEN "stamp" ELSE "answer")
<1> DEFINE p == IF req[t].op = "delete" THEN "stamp" ELSE "answer"
<1> DEFINE q == [req[t] EXCEPT !.pc = p]
<1>1. req[t] \in Work /\ p \in Early
  BY WriteWork DEF Busy, Early
<1>2. q \in Work /\ q.pc = p /\ q.op = req[t].op /\ q.case = req[t].case
  BY <1>1, MovedOn, Zenon
<1>3. req' = [req EXCEPT ![t] = q]
  BY DEF Written
<1> HIDE DEF p
<1> HIDE DEF q
<1>4. Moves(t, p)
  BY <1>2, <1>3 DEF Moves, Takes, Written
<1> QED
  BY <1>4 DEF p

LEMMA BeginEffect ==
  ASSUME ValuesOK, NEW t \in Threads, NEW q \in Work, Begin(t, q)
  PROVE  /\ req[t] = Idle /\ Takes(t, q)
         /\ overlapped' = IF Meets(t, q.case) THEN overlapped \cup {q.case} ELSE overlapped
         /\ UNCHANGED <<nextRow, audit, clock>>
<1>1. req[t] = Idle
  BY WorkFields DEF ValuesOK, Begin, Early
<1> QED
  BY <1>1 DEF Begin, Takes, Meets, Serves, Busy

LEMMA AskEffect ==
  ASSUME ValuesOK, NEW t \in Threads, Ask(t)
  PROVE  \E q \in Work : Asked(t, q)
<1>1. DOMAIN cases \subseteq CaseIds /\ \A c \in DOMAIN cases : cases[c] \in CaseRows
  BY DEF ValuesOK
<1>2. ASSUME AskCreate(t) PROVE \E q \in Work : Asked(t, q)
  <2>1. PICK c \in CaseIds \ created, status \in Statuses :
          /\ Begin(t, [pc |-> "write", op |-> "create", case |-> c, status |-> status])
          /\ created' = created \cup {c}
    BY <1>2 DEF AskCreate
  <2> DEFINE q == [pc |-> "write", op |-> "create", case |-> c, status |-> status]
  <2>2. q \in Work
    BY DEF Work, Early, Targets
  <2>3. q.pc = "write" /\ q.op = "create" /\ q.case = c
    OBVIOUS
  <2>4. Begin(t, q) /\ cases' = Pruned
    BY <2>1, <1>2 DEF AskCreate
  <2> HIDE DEF q
  <2>5. Asked(t, q)
    BY <2>1, <2>2, <2>3, <2>4, BeginEffect DEF Asked
  <2> QED
    BY <2>2, <2>5
<1>3. ASSUME AskUpdate(t) PROVE \E q \in Work : Asked(t, q)
  <2>1. PICK c \in DOMAIN cases, status \in Statuses \cup {KeepStatus} :
          Begin(t, [pc |-> "write", op |-> "update", case |-> c, status |-> status,
                    was |-> cases[c].status])
    BY <1>3 DEF AskUpdate
  <2> DEFINE q == [pc |-> "write", op |-> "update", case |-> c, status |-> status,
                   was |-> cases[c].status]
  <2>2. q \in Work
    BY <1>1 DEF Work, Early, Targets, CaseRows
  <2>3. q.pc = "write" /\ q.op = "update" /\ q.case = c /\ q.was = cases[c].status
    OBVIOUS
  <2>4. Begin(t, q) /\ UNCHANGED <<created, cases>>
    BY <2>1, <1>3 DEF AskUpdate
  <2> HIDE DEF q
  <2>5. Asked(t, q)
    BY <1>1, <2>2, <2>3, <2>4, BeginEffect DEF Asked
  <2> QED
    BY <2>2, <2>5
<1>4. ASSUME AskDelete(t) PROVE \E q \in Work : Asked(t, q)
  <2>1. PICK c \in DOMAIN cases : Begin(t, [pc |-> "write", op |-> "delete", case |-> c])
    BY <1>4 DEF AskDelete
  <2> DEFINE q == [pc |-> "write", op |-> "delete", case |-> c]
  <2>2. q \in Work
    BY <1>1 DEF Work, Early, Targets
  <2>3. q.pc = "write" /\ q.op = "delete" /\ q.case = c
    OBVIOUS
  <2>4. Begin(t, q) /\ UNCHANGED <<created, cases>>
    BY <2>1, <1>4 DEF AskDelete
  <2> HIDE DEF q
  <2>5. Asked(t, q)
    BY <1>1, <2>2, <2>3, <2>4, BeginEffect DEF Asked
  <2> QED
    BY <2>2, <2>5
<1>5. ASSUME AskAddEvidence(t) PROVE \E q \in Work : Asked(t, q)
  <2>1. PICK c \in DOMAIN cases, item \in Items, pc \in {"write", "answer"} :
          /\ pc = "write" => Cardinality(cases[c].evidence) < MaxEvidence
          /\ Begin(t, [pc |-> pc, op |-> "evidence_add", case |-> c, item |-> item])
    BY <1>5 DEF AskAddEvidence
  <2> DEFINE q == [pc |-> pc, op |-> "evidence_add", case |-> c, item |-> item]
  <2>2. q \in Work
    BY <1>1 DEF Work, Early, Targets
  <2>3. q.pc = pc /\ q.op = "evidence_add" /\ q.case = c
    OBVIOUS
  <2>4. Begin(t, q) /\ UNCHANGED <<created, cases>>
    BY <2>1, <1>5 DEF AskAddEvidence
  <2> HIDE DEF q
  <2>5. Asked(t, q)
    BY <1>1, <2>1, <2>2, <2>3, <2>4, BeginEffect DEF Asked
  <2> QED
    BY <2>2, <2>5
<1>6. ASSUME AskRemoveEvidence(t) PROVE \E q \in Work : Asked(t, q)
  <2>0. PICK c \in DOMAIN cases :
          \E k \in cases[c].evidence :
            Begin(t, [pc |-> "write", op |-> "evidence_remove", case |-> c, link |-> k])
    BY <1>6 DEF AskRemoveEvidence
  <2>1. PICK k \in cases[c].evidence :
          Begin(t, [pc |-> "write", op |-> "evidence_remove", case |-> c, link |-> k])
    BY <2>0
  <2> DEFINE q == [pc |-> "write", op |-> "evidence_remove", case |-> c, link |-> k]
  <2>2. q \in Work
    BY <1>1 DEF Work, Early, Targets, CaseRows
  <2>3. q.pc = "write" /\ q.op = "evidence_remove" /\ q.case = c /\ q.link = k
    OBVIOUS
  <2>4. Begin(t, q) /\ UNCHANGED <<created, cases>>
    BY <2>1, <1>6 DEF AskRemoveEvidence
  <2> HIDE DEF q
  <2>5. Asked(t, q)
    BY <1>1, <2>1, <2>2, <2>3, <2>4, BeginEffect DEF Asked
  <2> QED
    BY <2>2, <2>5
<1>7. ASSUME AskNote(t) PROVE \E q \in Work : Asked(t, q)
  <2>1. PICK c \in DOMAIN cases :
          /\ cases[c].notes < MaxNotes
          /\ Begin(t, [pc |-> "write", op |-> "note_add", case |-> c])
    BY <1>7 DEF AskNote
  <2> DEFINE q == [pc |-> "write", op |-> "note_add", case |-> c]
  <2>2. q \in Work
    BY <1>1 DEF Work, Early, Targets
  <2>3. q.pc = "write" /\ q.op = "note_add" /\ q.case = c
    OBVIOUS
  <2>4. Begin(t, q) /\ UNCHANGED <<created, cases>>
    BY <2>1, <1>7 DEF AskNote
  <2> HIDE DEF q
  <2>5. Asked(t, q)
    BY <1>1, <2>1, <2>2, <2>3, <2>4, BeginEffect DEF Asked
  <2> QED
    BY <2>2, <2>5
<1> QED
  BY <1>2, <1>3, <1>4, <1>5, <1>6, <1>7 DEF Ask

(* A row of cases is replaced by another.                                    *)
LEMMA RowSet ==
  ASSUME ValuesOK, NEW c \in DOMAIN cases, NEW row \in CaseRows,
         cases' = [cases EXCEPT ![c] = row]
  PROVE  /\ DOMAIN cases' = DOMAIN cases /\ cases' \in [DOMAIN cases -> CaseRows]
         /\ cases'[c] = row
         /\ \A d \in DOMAIN cases \ {c} : cases'[d] = cases[d]
BY DEF ValuesOK

LEMMA EditEffect ==
  ASSUME ValuesOK, NEW c \in DOMAIN cases, NEW edited \in CaseRows, NEW e \in Entries,
         cases' = [cases EXCEPT ![c] = Log(edited, e)]
  PROVE      /\ DOMAIN cases' = DOMAIN cases /\ cases' \in [DOMAIN cases -> CaseRows]
             /\ \A d \in DOMAIN cases \ {c} : cases'[d] = cases[d]
             /\ cases'[c].history = Append(edited.history, e)
             /\ cases'[c].status = edited.status /\ cases'[c].closedAt = edited.closedAt
             /\ cases'[c].evidence = edited.evidence /\ cases'[c].notes = edited.notes
<1> DEFINE row == Log(edited, e)
<1>1. /\ row \in CaseRows
      /\ row.status = edited.status /\ row.closedAt = edited.closedAt
      /\ row.evidence = edited.evidence /\ row.notes = edited.notes
      /\ row.history = Append(edited.history, e)
  BY LogFields
<1>2. cases' = [cases EXCEPT ![c] = row]
  OBVIOUS
<1> HIDE DEF row
<1> QED
  BY <1>1, <1>2, RowSet

(* The write transactions, each by what it leaves in the case.               *)
LEMMA InsertEffect ==
  ASSUME ValuesOK, NEW t \in Threads, WriteCreate(t)
  PROVE  Inserted(t)
<1>1. req[t].pc = "write" /\ req[t].op = "create" /\ Busy(t)
  BY DEF WriteCreate, Writing, Busy
<1>2. req[t].status \in Statuses
  BY <1>1, WriteWork, WorkFields DEF ValuesOK
<1>3. Moves(t, "answer")
  BY <1>1, WrittenMoves DEF WriteCreate, ValuesOK
<1> QED
  BY <1>1, <1>2, <1>3 DEF WriteCreate, Inserted

LEMMA DeleteEffect ==
  ASSUME ValuesOK, NEW t \in Threads, WriteDelete(t)
  PROVE  Deleted(t)
<1>1. req[t].pc = "write" /\ req[t].op = "delete"
  BY DEF WriteDelete, Writing
<1>2. Moves(t, "stamp")
  BY <1>1, WrittenMoves DEF WriteDelete, ValuesOK
<1> QED
  BY <1>1, <1>2 DEF WriteDelete, Deleted

LEMMA UpdateEffect ==
  ASSUME ValuesOK, NEW t \in Threads, WriteUpdate(t)
  PROVE  \E c \in DOMAIN cases, e \in Entries : Edited(t, c, e)
<1> DEFINE c == req[t].case
           new == req[t].status
           e == [action |-> "update", status |-> new, item |-> NoItem]
           status == IF new = KeepStatus THEN cases[c].status ELSE new
           closedAt == IF new = "closed" /\ req[t].was # "closed" THEN clock
                       ELSE IF new \notin {"closed", KeepStatus} /\ req[t].was = "closed"
                            THEN Never ELSE cases[c].closedAt
           edited == [cases[c] EXCEPT !.status = status, !.closedAt = closedAt]
<1>1. req[t].pc = "write" /\ req[t].op = "update" /\ Busy(t) /\ c \in DOMAIN cases
  BY DEF WriteUpdate, Writing, Busy
<1>2. new \in Statuses \cup {KeepStatus} /\ cases[c] \in CaseRows /\ clock \in Nat
  BY <1>1, WriteWork, WorkFields DEF ValuesOK
<1>3. Moves(t, "answer")
  BY <1>1, WrittenMoves DEF WriteUpdate, ValuesOK
<1>4. /\ e \in Entries /\ e.action = "update" /\ e.status = new /\ e.item = NoItem
  BY <1>2 DEF Entries, Operations
<1>5. status \in Statuses /\ closedAt \in Nat
  BY <1>2 DEF CaseRows, Never
<1>6. cases' = [cases EXCEPT ![c] = Log(edited, e)] /\ UNCHANGED nextRow
  BY <1>1, <1>2 DEF WriteUpdate, CaseRows
<1> HIDE DEF e, closedAt, status
<1>7. /\ edited \in CaseRows /\ edited.status = status /\ edited.closedAt = closedAt
      /\ edited.evidence = cases[c].evidence /\ edited.notes = cases[c].notes
      /\ edited.history = cases[c].history
  BY <1>2, <1>5 DEF CaseRows
<1> HIDE DEF edited
<1>8. /\ DOMAIN cases' = DOMAIN cases /\ cases' \in [DOMAIN cases -> CaseRows]
      /\ \A d \in DOMAIN cases \ {c} : cases'[d] = cases[d]
      /\ cases'[c].history = Append(edited.history, e)
      /\ cases'[c].status = edited.status /\ cases'[c].closedAt = edited.closedAt
      /\ cases'[c].evidence = edited.evidence /\ cases'[c].notes = edited.notes
  BY <1>1, <1>4, <1>6, <1>7, EditEffect, Zenon
<1>9. Edited(t, c, e)
  BY <1>1, <1>3, <1>4, <1>6, <1>7, <1>8 DEF Edited, Writing, status, closedAt
<1> QED
  BY <1>1, <1>4, <1>9

LEMMA AddEffect ==
  ASSUME ValuesOK, NEW t \in Threads, WriteAddEvidence(t)
  PROVE  Advanced(t) \/ \E c \in DOMAIN cases, e \in Entries : Edited(t, c, e)
<1> DEFINE c == req[t].case
           item == req[t].item
           e == [action |-> "evidence_add", status |-> KeepStatus, item |-> item]
           evidence == cases[c].evidence \cup {[row |-> nextRow, item |-> item]}
           edited == [cases[c] EXCEPT !.evidence = evidence]
<1>1. req[t].pc = "write" /\ req[t].op = "evidence_add" /\ Busy(t) /\ c \in DOMAIN cases
  BY DEF WriteAddEvidence, Writing, Busy
<1>2. item \in Items /\ cases[c] \in CaseRows /\ nextRow \in Nat
  BY <1>1, WriteWork, WorkFields DEF ValuesOK
<1>3. Moves(t, "answer")
  BY <1>1, WrittenMoves DEF WriteAddEvidence, ValuesOK
<1>4. CASE item \in Linked(c)
  BY <1>1, <1>3, <1>4 DEF WriteAddEvidence, Advanced, Writing
<1>5. CASE item \notin Linked(c)
  <2>1. e \in Entries /\ e.action = "evidence_add" /\ e.status = KeepStatus /\ e.item = item
    BY <1>2 DEF Entries, Operations
  <2>2. evidence \in SUBSET Links
    BY <1>2 DEF CaseRows, Links
  <2>3. cases' = [cases EXCEPT ![c] = Log(edited, e)] /\ nextRow' = nextRow + 1
    BY <1>5 DEF WriteAddEvidence
  <2> HIDE DEF e, evidence
  <2>4. /\ edited \in CaseRows /\ edited.evidence = evidence
        /\ edited.status = cases[c].status /\ edited.closedAt = cases[c].closedAt
        /\ edited.notes = cases[c].notes /\ edited.history = cases[c].history
    BY <1>2, <2>2 DEF CaseRows
  <2> HIDE DEF edited
  <2>5. /\ DOMAIN cases' = DOMAIN cases /\ cases' \in [DOMAIN cases -> CaseRows]
        /\ \A d \in DOMAIN cases \ {c} : cases'[d] = cases[d]
        /\ cases'[c].history = Append(edited.history, e)
        /\ cases'[c].status = edited.status /\ cases'[c].closedAt = edited.closedAt
        /\ cases'[c].evidence = edited.evidence /\ cases'[c].notes = edited.notes
    BY <1>1, <2>1, <2>3, <2>4, EditEffect, Zenon
  <2>6. Edited(t, c, e)
    BY <1>1, <1>2, <1>3, <1>5, <2>1, <2>3, <2>4, <2>5 DEF Edited, Writing, evidence
  <2> QED
    BY <1>1, <2>1, <2>6
<1> QED
  BY <1>4, <1>5

LEMMA RemoveEffect ==
  ASSUME ValuesOK, NEW t \in Threads, WriteRemoveEvidence(t)
  PROVE  \E c \in DOMAIN cases, e \in Entries : Edited(t, c, e)
<1> DEFINE c == req[t].case
           item == req[t].link.item
           e == [action |-> "evidence_remove", status |-> KeepStatus, item |-> item]
           evidence == {k \in cases[c].evidence : k.row # req[t].link.row}
           edited == [cases[c] EXCEPT !.evidence = evidence]
<1>1. req[t].pc = "write" /\ req[t].op = "evidence_remove" /\ Busy(t) /\ c \in DOMAIN cases
  BY DEF WriteRemoveEvidence, Writing, Busy
<1>2. req[t].link \in Links /\ cases[c] \in CaseRows
  BY <1>1, WriteWork, WorkFields DEF ValuesOK
<1>3. Moves(t, "answer")
  BY <1>1, WrittenMoves DEF WriteRemoveEvidence, ValuesOK
<1>4. e \in Entries /\ e.action = "evidence_remove" /\ e.status = KeepStatus /\ e.item = item
  BY <1>2 DEF Entries, Operations, Links
<1>5. evidence \in SUBSET Links
  BY <1>2 DEF CaseRows
<1>6. cases' = [cases EXCEPT ![c] = Log(edited, e)] /\ UNCHANGED nextRow
  BY <1>1, <1>2 DEF WriteRemoveEvidence, CaseRows
<1> HIDE DEF e, evidence
<1>7. /\ edited \in CaseRows /\ edited.evidence = evidence
      /\ edited.status = cases[c].status /\ edited.closedAt = cases[c].closedAt
      /\ edited.notes = cases[c].notes /\ edited.history = cases[c].history
  BY <1>2, <1>5 DEF CaseRows
<1> HIDE DEF edited
<1>8. /\ DOMAIN cases' = DOMAIN cases /\ cases' \in [DOMAIN cases -> CaseRows]
      /\ \A d \in DOMAIN cases \ {c} : cases'[d] = cases[d]
      /\ cases'[c].history = Append(edited.history, e)
      /\ cases'[c].status = edited.status /\ cases'[c].closedAt = edited.closedAt
      /\ cases'[c].evidence = edited.evidence /\ cases'[c].notes = edited.notes
  BY <1>1, <1>4, <1>6, <1>7, EditEffect, Zenon
<1>9. Edited(t, c, e)
  BY <1>1, <1>3, <1>4, <1>6, <1>7, <1>8 DEF Edited, Writing, evidence
<1> QED
  BY <1>1, <1>4, <1>9

LEMMA NoteEffect ==
  ASSUME ValuesOK, NEW t \in Threads, WriteNote(t)
  PROVE  \E c \in DOMAIN cases, e \in Entries : Edited(t, c, e)
<1> DEFINE c == req[t].case
           e == [action |-> "note_add", status |-> KeepStatus, item |-> NoItem]
           notes == cases[c].notes + 1
           edited == [cases[c] EXCEPT !.notes = notes]
<1>1. req[t].pc = "write" /\ req[t].op = "note_add" /\ c \in DOMAIN cases
  BY DEF WriteNote, Writing
<1>2. cases[c] \in CaseRows
  BY <1>1 DEF ValuesOK
<1>3. Moves(t, "answer")
  BY <1>1, WrittenMoves DEF WriteNote, ValuesOK
<1>4. e \in Entries /\ e.action = "note_add" /\ e.status = KeepStatus /\ e.item = NoItem
  BY DEF Entries, Operations
<1>5. notes \in Nat
  BY <1>2 DEF CaseRows
<1>6. cases' = [cases EXCEPT ![c] = Log(edited, e)] /\ UNCHANGED nextRow
  BY <1>1, <1>2 DEF WriteNote, CaseRows
<1> HIDE DEF e, notes
<1>7. /\ edited \in CaseRows /\ edited.notes = notes
      /\ edited.status = cases[c].status /\ edited.closedAt = cases[c].closedAt
      /\ edited.evidence = cases[c].evidence /\ edited.history = cases[c].history
  BY <1>2, <1>5 DEF CaseRows
<1> HIDE DEF edited
<1>8. /\ DOMAIN cases' = DOMAIN cases /\ cases' \in [DOMAIN cases -> CaseRows]
      /\ \A d \in DOMAIN cases \ {c} : cases'[d] = cases[d]
      /\ cases'[c].history = Append(edited.history, e)
      /\ cases'[c].status = edited.status /\ cases'[c].closedAt = edited.closedAt
      /\ cases'[c].evidence = edited.evidence /\ cases'[c].notes = edited.notes
  BY <1>1, <1>4, <1>6, <1>7, EditEffect, Zenon
<1>9. Edited(t, c, e)
  BY <1>1, <1>3, <1>4, <1>6, <1>7, <1>8 DEF Edited, Writing, notes
<1> QED
  BY <1>1, <1>4, <1>9

(* Every step of the system is one of these, for the thread that takes it.   *)
Step ==
  \/ \E t \in Threads : \E q \in Work : Asked(t, q)
  \/ \E t \in Threads : Inserted(t)
  \/ \E t \in Threads : \E c \in DOMAIN cases, e \in Entries : Edited(t, c, e)
  \/ \E t \in Threads : Deleted(t)
  \/ \E t \in Threads : Advanced(t)
  \/ \E t \in Threads : Nameless(t)
  \/ \E t \in Threads : Dropped(t)
  \/ \E t \in Threads : Record(t)
  \/ PruneCases \/ Tick \/ UNCHANGED vars

LEMMA StepEffect ==
  ASSUME ValuesOK, [Next]_vars
  PROVE  Step
<1>1. ASSUME NEW t \in Threads, Ask(t) PROVE Step
  BY <1>1, AskEffect DEF Step
<1>2. ASSUME NEW t \in Threads, WriteRefused(t) PROVE Dropped(t)
  BY <1>2 DEF WriteRefused, Dropped, Takes, Busy
<1>3. ASSUME NEW t \in Threads, Write(t) PROVE Step
  BY <1>2, <1>3, InsertEffect, UpdateEffect, DeleteEffect, AddEffect, RemoveEffect, NoteEffect
     DEF Write, Step
<1>4. ASSUME NEW t \in Threads, Answer(t) PROVE Step
  <2>1. req[t] \in Work /\ req[t].pc = "answer" /\ Busy(t)
    BY <1>4, WriteWork DEF ValuesOK, Answer, Busy
  <2> DEFINE q == [req[t] EXCEPT !.pc = "stamp"]
  <2>2. q \in Work /\ q.pc = "stamp" /\ q.op = req[t].op /\ q.case = req[t].case
    BY <2>1, MovedOn DEF Early
  <2>3. CASE req[t].case \in DOMAIN cases
    <3>1. Takes(t, q)
      BY <1>4, <2>2, <2>3 DEF Answer, Takes
    <3>2. Advanced(t)
      BY <1>4, <2>1, <2>2, <3>1 DEF Answer, Advanced, Moves
    <3> QED
      BY <3>2 DEF Step
  <2>4. CASE req[t].case \notin DOMAIN cases /\ req[t].op = "create"
    <3> DEFINE n == [req[t] EXCEPT !.pc = "stamp", !.case = NoCase]
    <3>1. n \in Work /\ n.pc = "stamp" /\ n.op = "create" /\ n.case = NoCase
      BY <2>1, <2>4 DEF Work, Early, Targets
    <3>2. Takes(t, n)
      BY <1>4, <2>4, <3>1 DEF Answer, Takes
    <3>3. Nameless(t)
      BY <1>4, <2>1, <2>4, <3>1, <3>2 DEF Answer, Nameless
    <3> QED
      BY <3>3 DEF Step
  <2>5. CASE req[t].case \notin DOMAIN cases /\ req[t].op # "create"
    <3>1. Dropped(t)
      BY <1>4, <2>1, <2>5 DEF Answer, Dropped, Takes
    <3> QED
      BY <3>1 DEF Step
  <2> QED
    BY <2>3, <2>4, <2>5
<1>5. ASSUME NEW t \in Threads, Stamp(t) PROVE Step
  <2>1. req[t] \in Work /\ req[t].op \in Operations /\ req[t].case \in Targets
    BY <1>5, WriteWork DEF ValuesOK, Stamp, Busy
  <2> DEFINE q == [pc |-> "audit", op |-> req[t].op, case |-> req[t].case, at |-> clock]
  <2>2. q \in Work
    BY <2>1 DEF Work, ValuesOK
  <2>3. Takes(t, q) /\ req'[t] = q
    BY <1>5, <2>2 DEF Stamp, Takes, ValuesOK
  <2>4. Advanced(t)
    BY <1>5, <2>2, <2>3 DEF Stamp, Advanced, Moves
  <2> QED
    BY <2>4 DEF Step
<1>6. ASSUME NEW t \in Threads, CutOff(t) PROVE Dropped(t)
  BY <1>6 DEF CutOff, Dropped, Takes, Busy
<1> QED
  BY <1>1, <1>3, <1>4, <1>5, <1>6 DEF Next, Step

-----------------------------------------------------------------------------
(* A step that adds nothing to the cases: some go, the others stay as they are. *)
Fewer ==
  /\ DOMAIN cases' \subseteq DOMAIN cases
  /\ cases' = [c \in DOMAIN cases' |-> cases'[c]]
  /\ \A c \in DOMAIN cases' : cases'[c] = cases[c]

LEMMA PrunedFewer ==
  ASSUME cases' = Pruned
  PROVE  Fewer
BY DEF Pruned, Fewer

LEMMA DeletedFewer ==
  ASSUME NEW t \in Threads, Deleted(t)
  PROVE  Fewer /\ req[t].case \notin DOMAIN cases'
BY DEF Deleted, Fewer

LEMMA SameFewer ==
  ASSUME ValuesOK, UNCHANGED cases
  PROVE  Fewer
BY DEF ValuesOK, Fewer

LEMMA AskedFewer ==
  ASSUME ValuesOK, NEW t \in Threads, NEW q \in Work, Asked(t, q)
  PROVE  Fewer
BY PrunedFewer, SameFewer DEF Asked

LEMMA Taken ==
  ASSUME req \in [Threads -> {Idle} \cup Work], NEW t \in Threads, NEW q, Takes(t, q)
  PROVE  /\ req'[t] = q /\ \A u \in Threads \ {t} : req'[u] = req[u]
         /\ req' \in [Threads -> {Idle} \cup Work]
BY DEF Takes

LEMMA Moved ==
  ASSUME req \in [Threads -> {Idle} \cup Work], NEW t \in Threads, NEW p, Moves(t, p)
  PROVE  /\ req'[t] \in Work /\ req'[t].pc = p
         /\ req'[t].op = req[t].op /\ req'[t].case = req[t].case
         /\ \A u \in Threads \ {t} : req'[u] = req[u]
         /\ req' \in [Threads -> {Idle} \cup Work]
         /\ UNCHANGED <<audit, clock, created, overlapped>>
BY Taken DEF Moves

LEMMA FewerValues ==
  ASSUME ValuesOK, Fewer
  PROVE  IsFiniteSet(DOMAIN cases') /\ cases' \in [DOMAIN cases' -> CaseRows]
BY FS_Subset DEF ValuesOK, Fewer

LEMMA InitValues ==
  ASSUME Init
  PROVE  ValuesOK
<1>1. DOMAIN cases = {} /\ cases \in [DOMAIN cases -> CaseRows]
  BY DEF Init
<1>2. IsFiniteSet(DOMAIN cases)
  BY <1>1, FS_EmptySet
<1> QED
  BY <1>1, <1>2 DEF Init, ValuesOK

(* Every step keeps the values.                                              *)
LEMMA ValuesStep ==
  ASSUME ValuesOK, RequestsOK, [Next]_vars
  PROVE  ValuesOK'
<1> USE DEF ValuesOK
<1>1. ASSUME NEW t \in Threads, NEW q \in Work, Asked(t, q) PROVE ValuesOK'
  <2>1. IsFiniteSet(DOMAIN cases') /\ cases' \in [DOMAIN cases' -> CaseRows]
    BY <1>1, AskedFewer, FewerValues
  <2>2. req' \in [Threads -> {Idle} \cup Work]
    BY <1>1, Taken DEF Asked
  <2> QED
    BY <1>1, <2>1, <2>2, AskedFewer DEF Asked, Fewer
<1>2. ASSUME NEW t \in Threads, Inserted(t) PROVE ValuesOK'
  <2>1. req' \in [Threads -> {Idle} \cup Work] /\ UNCHANGED <<clock, created, nextRow>>
    BY <1>2, Moved DEF Inserted
  <2>2. req[t].case \in created
    BY <1>2 DEF RequestsOK, Inserted, Writing, Busy
  <2>3. NewCase(req[t].status) \in CaseRows
    <3> DEFINE e == [action |-> "create", status |-> req[t].status, item |-> NoItem]
    <3>1. e \in Entries
      BY <1>2 DEF Entries, Operations, Inserted
    <3> HIDE DEF e
    <3>2. <<e>> \in Seq(Entries)
      BY <3>1
    <3> QED
      BY <1>2, <3>2 DEF NewCase, CaseRows, Inserted, Never, e
  <2>4. IsFiniteSet(DOMAIN cases')
    BY <1>2, FS_AddElement DEF Inserted
  <2>5. cases' \in [DOMAIN cases' -> CaseRows]
    BY <1>2, <2>3 DEF Inserted
  <2> QED
    BY <1>2, <2>1, <2>2, <2>4, <2>5 DEF Inserted
<1>3. ASSUME NEW t \in Threads, NEW c \in DOMAIN cases, NEW e \in Entries, Edited(t, c, e)
      PROVE  ValuesOK'
  <2>1. req' \in [Threads -> {Idle} \cup Work] /\ UNCHANGED <<clock, created>>
    BY <1>3, Moved DEF Edited
  <2>2. DOMAIN cases' = DOMAIN cases /\ cases' \in [DOMAIN cases -> CaseRows] /\ nextRow' \in Nat
    BY <1>3 DEF Edited
  <2> QED
    BY <2>1, <2>2
<1>4. ASSUME NEW t \in Threads, Deleted(t) PROVE ValuesOK'
  <2>1. IsFiniteSet(DOMAIN cases') /\ cases' \in [DOMAIN cases' -> CaseRows]
    BY <1>4, DeletedFewer, FewerValues
  <2>2. req' \in [Threads -> {Idle} \cup Work] /\ UNCHANGED <<clock, created, nextRow>>
    BY <1>4, Moved DEF Deleted
  <2> QED
    BY <1>4, <2>1, <2>2, DeletedFewer DEF Fewer
<1>5. ASSUME NEW t \in Threads, Advanced(t) PROVE ValuesOK'
  <2>1. req' \in [Threads -> {Idle} \cup Work] /\ UNCHANGED <<clock, created>>
    BY <1>5, Moved DEF Advanced
  <2> QED
    BY <1>5, <2>1 DEF Advanced
<1>6. ASSUME NEW t \in Threads, Nameless(t) \/ Dropped(t) PROVE ValuesOK'
  BY <1>6, Taken DEF Nameless, Dropped
<1>7. ASSUME NEW t \in Threads, Record(t) PROVE ValuesOK'
  BY <1>7, RequestSet DEF Record
<1>8. CASE PruneCases
  BY <1>8, PrunedFewer, FewerValues DEF PruneCases, Fewer
<1>9. CASE Tick
  BY <1>9 DEF Tick
<1>10. CASE UNCHANGED vars
  BY <1>10 DEF vars
<1> QED
  BY <1>1, <1>2, <1>3, <1>4, <1>5, <1>6, <1>7, <1>8, <1>9, <1>10, StepEffect DEF Step

-----------------------------------------------------------------------------
(* Two summaries of a step: what becomes of the cases, and who serves which. *)

LEMMA CasesStep ==
  ASSUME ValuesOK, [Next]_vars
  PROVE  /\ clock' \in {clock, clock + 1}
         /\ \/ Fewer /\ UNCHANGED nextRow
            \/ \E t \in Threads : Inserted(t)
            \/ \E t \in Threads : \E c \in DOMAIN cases, e \in Entries : Edited(t, c, e)
<1> DEFINE Goal == /\ clock' \in {clock, clock + 1}
                   /\ \/ Fewer /\ UNCHANGED nextRow
                      \/ \E t \in Threads : Inserted(t)
                      \/ \E t \in Threads :
                           \E c \in DOMAIN cases, e \in Entries : Edited(t, c, e)
<1>0. req \in [Threads -> {Idle} \cup Work]
  BY DEF ValuesOK
<1>1. ASSUME NEW t \in Threads, NEW q \in Work, Asked(t, q) PROVE Goal
  BY <1>1, AskedFewer DEF Asked
<1>2. ASSUME NEW t \in Threads, Inserted(t) PROVE Goal
  BY <1>0, <1>2, Moved DEF Inserted
<1>3. ASSUME NEW t \in Threads, NEW c \in DOMAIN cases, NEW e \in Entries, Edited(t, c, e)
      PROVE  Goal
  BY <1>0, <1>3, Moved DEF Edited
<1>4. ASSUME NEW t \in Threads, Deleted(t) PROVE Goal
  BY <1>0, <1>4, Moved, DeletedFewer DEF Deleted
<1>5. ASSUME NEW t \in Threads, Advanced(t) PROVE Goal
  BY <1>0, <1>5, Moved, SameFewer DEF Advanced
<1>6. ASSUME NEW t \in Threads, Nameless(t) \/ Dropped(t) PROVE Goal
  BY <1>6, SameFewer DEF Nameless, Dropped
<1>7. ASSUME NEW t \in Threads, Record(t) PROVE Goal
  BY <1>7, SameFewer DEF Record
<1>8. ASSUME PruneCases PROVE Goal
  BY <1>8, PrunedFewer DEF PruneCases
<1>9. ASSUME Tick PROVE Goal
  BY <1>9, SameFewer DEF Tick
<1>10. ASSUME UNCHANGED vars PROVE Goal
  BY <1>10, SameFewer DEF vars
<1>11. Step
  BY StepEffect
<1> HIDE DEF Goal
<1>12. Goal
  BY <1>1, <1>2, <1>3, <1>4, <1>5, <1>6, <1>7, <1>8, <1>9, <1>10, <1>11, Zenon DEF Step
<1> QED
  BY <1>12 DEF Goal

(* No thread turns to another case, and none comes to a write.               *)
ServiceKept ==
  /\ \A u \in Threads :
       /\ req'[u].pc # "idle" => Busy(u) /\ req'[u].case \in {req[u].case, NoCase}
       /\ req'[u].pc = "write" => req'[u] = req[u]
  /\ UNCHANGED <<created, overlapped>>

LEMMA MovesKeep ==
  ASSUME ValuesOK, NEW t \in Threads, NEW p \in {"answer", "stamp", "audit"},
         Busy(t), Moves(t, p)
  PROVE  ServiceKept
BY Moved DEF ServiceKept, ValuesOK, Busy

LEMMA ServiceStep ==
  ASSUME ValuesOK, [Next]_vars
  PROVE  \/ \E t \in Threads : \E q \in Work : Asked(t, q)
         \/ ServiceKept
<1>2. ASSUME NEW t \in Threads, Inserted(t) PROVE ServiceKept
  BY <1>2, MovesKeep DEF Inserted, Writing, Busy
<1>3. ASSUME NEW t \in Threads, NEW c \in DOMAIN cases, NEW e \in Entries, Edited(t, c, e)
      PROVE  ServiceKept
  BY <1>3, MovesKeep DEF Edited, Writing, Busy
<1>4. ASSUME NEW t \in Threads, Deleted(t) PROVE ServiceKept
  BY <1>4, MovesKeep DEF Deleted, Writing, Busy
<1>5. ASSUME NEW t \in Threads, Advanced(t) PROVE ServiceKept
  BY <1>5, MovesKeep DEF Advanced, Writing, Busy
<1>6. ASSUME NEW t \in Threads, Nameless(t) PROVE ServiceKept
  BY <1>6, Taken DEF Nameless, ServiceKept, ValuesOK, Busy
<1>7. ASSUME NEW t \in Threads, Dropped(t) \/ Record(t) PROVE ServiceKept
  <2>1. req' = [req EXCEPT ![t] = Idle] /\ UNCHANGED <<created, overlapped>>
    BY <1>7 DEF Dropped, Takes, Record
  <2>2. Idle.pc = "idle"
    BY DEF Idle
  <2>3. req'[t] = Idle /\ \A u \in Threads \ {t} : req'[u] = req[u]
    BY <2>1 DEF ValuesOK
  <2> QED
    BY <2>1, <2>2, <2>3 DEF ServiceKept, Busy
<1>8. CASE PruneCases \/ Tick \/ UNCHANGED vars
  BY <1>8 DEF PruneCases, Tick, vars, ServiceKept, Busy
<1> QED
  BY <1>2, <1>3, <1>4, <1>5, <1>6, <1>7, <1>8, StepEffect DEF Step

-----------------------------------------------------------------------------
LEMMA RowsStep ==
  ASSUME ValuesOK, RowsOK, [Next]_vars
  PROVE  RowsOK'
<1>0. clock \in Nat /\ nextRow \in Nat /\ clock' \in {clock, clock + 1}
  BY CasesStep DEF ValuesOK
<1>1. CASE Fewer /\ UNCHANGED nextRow
  <2>1. ASSUME NEW c \in DOMAIN cases'
        PROVE  c \in DOMAIN cases /\ cases'[c] = cases[c] /\ cases[c].closedAt \in Nat
    BY <1>1 DEF Fewer, ValuesOK, CaseRows
  <2> QED
    BY <1>0, <1>1, <2>1 DEF RowsOK
<1>2. ASSUME NEW t \in Threads, Inserted(t) PROVE RowsOK'
  <2> DEFINE c == req[t].case
             new == NewCase(req[t].status)
  <2>1. nextRow' = nextRow /\ DOMAIN cases' = DOMAIN cases \cup {c}
    BY <1>2 DEF Inserted
  <2>2. new.evidence = {} /\ Len(new.history) = 1 /\ new.closedAt \in {Never, clock}
    BY DEF NewCase
  <2>3. cases'[c] = new /\ \A d \in DOMAIN cases \ {c} : cases'[d] = cases[d]
    BY <1>2 DEF Inserted
  <2>4. \A d \in DOMAIN cases : cases[d].closedAt \in Nat
    BY DEF ValuesOK, CaseRows
  <2> HIDE DEF c, new
  <2>5. ASSUME NEW d \in DOMAIN cases', d # c
        PROVE  /\ cases'[d].closedAt <= clock'
               /\ Len(cases'[d].history) >= 1
               /\ IsFiniteSet(cases'[d].evidence)
               /\ \A e \in cases'[d].evidence : e.row < nextRow'
               /\ \A e, f \in cases'[d].evidence :
                    (e.row = f.row \/ e.item = f.item) => e = f
    BY <1>0, <2>1, <2>3, <2>4, <2>5 DEF RowsOK
  <2>6. /\ cases'[c].closedAt <= clock'
        /\ Len(cases'[c].history) >= 1
        /\ cases'[c].evidence = {} /\ IsFiniteSet(cases'[c].evidence)
    <3>1. new.closedAt <= clock' /\ Len(new.history) >= 1
      BY <1>0, <2>2 DEF Never
    <3>2. IsFiniteSet(new.evidence)
      BY <2>2, FS_EmptySet
    <3> QED
      BY <2>2, <2>3, <3>1, <3>2
  <2>7. ASSUME NEW d \in DOMAIN cases'
        PROVE  /\ cases'[d].closedAt <= clock'
               /\ Len(cases'[d].history) >= 1
               /\ IsFiniteSet(cases'[d].evidence)
               /\ \A e \in cases'[d].evidence : e.row < nextRow'
               /\ \A e, f \in cases'[d].evidence :
                    (e.row = f.row \/ e.item = f.item) => e = f
    <3>1. CASE d = c
      BY <2>6, <3>1
    <3>2. CASE d # c
      BY <2>5, <3>2
    <3> QED
      BY <3>1, <3>2
  <2> QED
    BY <2>7 DEF RowsOK
<1>3. ASSUME NEW t \in Threads, NEW c \in DOMAIN cases, NEW e \in Entries, Edited(t, c, e)
      PROVE  RowsOK'
  <2>0. cases[c] \in CaseRows /\ DOMAIN cases' = DOMAIN cases /\ nextRow' \in {nextRow, nextRow + 1}
    BY <1>3 DEF ValuesOK, Edited
  <2>1. ASSUME NEW d \in DOMAIN cases, d # c
        PROVE  /\ cases'[d].closedAt <= clock'
               /\ Len(cases'[d].history) >= 1
               /\ IsFiniteSet(cases'[d].evidence)
               /\ \A k \in cases'[d].evidence : k.row < nextRow'
               /\ \A k, f \in cases'[d].evidence :
                    (k.row = f.row \/ k.item = f.item) => k = f
    <3>1. cases'[d] = cases[d] /\ cases[d] \in CaseRows
      BY <1>3, <2>1 DEF Edited, ValuesOK
    <3>2. cases[d].closedAt \in Nat /\ \A k \in cases[d].evidence : k.row \in Nat
      BY <3>1 DEF CaseRows, Links
    <3> QED
      BY <1>0, <2>0, <3>1, <3>2 DEF RowsOK
  <2>2. cases'[c].closedAt <= clock'
    <3>1. cases'[c].closedAt \in {clock, Never, cases[c].closedAt}
      BY <1>3 DEF Edited
    <3>2. cases[c].closedAt \in Nat /\ cases[c].closedAt <= clock
      BY <2>0 DEF CaseRows, RowsOK
    <3> QED
      BY <1>0, <3>1, <3>2 DEF Never
  <2>3. Len(cases'[c].history) >= 1
    <3>1. cases'[c].history = Append(cases[c].history, e) /\ cases[c].history \in Seq(Entries)
      BY <1>3, <2>0 DEF Edited, CaseRows
    <3>2. Len(cases'[c].history) = Len(cases[c].history) + 1 /\ Len(cases[c].history) \in Nat
      BY <3>1, AppendProperties, LenProperties
    <3> QED
      BY <3>2
  <2>4. /\ IsFiniteSet(cases'[c].evidence)
        /\ \A k \in cases'[c].evidence : k.row < nextRow'
        /\ \A k, f \in cases'[c].evidence :
             (k.row = f.row \/ k.item = f.item) => k = f
    <3> DEFINE old == cases[c].evidence
    <3>1. /\ IsFiniteSet(old) /\ old \in SUBSET Links
          /\ \A k \in old : k.row < nextRow /\ k.row \in Nat
          /\ \A k, f \in old : (k.row = f.row \/ k.item = f.item) => k = f
      BY <2>0 DEF RowsOK, CaseRows, Links
    <3>2. CASE e.action = "evidence_add"
      <4> DEFINE new == [row |-> nextRow, item |-> e.item]
      <4>1. /\ cases'[c].evidence = old \cup {new} /\ nextRow' = nextRow + 1
            /\ \A k \in old : k.item # e.item
        BY <1>3, <3>2 DEF Edited, Linked
      <4>2. new.row = nextRow /\ new.item = e.item
        OBVIOUS
      <4>3. IsFiniteSet(old \cup {new})
        BY <3>1, FS_AddElement, ZenonT(60)
      <4> HIDE DEF old, new
      <4> QED
        BY <1>0, <3>1, <4>1, <4>2, <4>3
    <3>3. CASE e.action # "evidence_add"
      <4>1. cases'[c].evidence \in SUBSET old /\ nextRow' = nextRow
        BY <1>3, <3>3 DEF Edited
      <4>2. IsFiniteSet(cases'[c].evidence)
        BY <3>1, <4>1, FS_Subset
      <4> QED
        BY <3>1, <4>1, <4>2
    <3> QED
      BY <3>2, <3>3
  <2> QED
    BY <2>0, <2>1, <2>2, <2>3, <2>4 DEF RowsOK
<1> QED
  BY <1>1, <1>2, <1>3, CasesStep

-----------------------------------------------------------------------------
(* The audit table: what one transaction leaves of it.                       *)

IsTable(tbl) ==
  /\ tbl = [rows |-> tbl.rows, next |-> tbl.next]
  /\ tbl.next \in Nat /\ IsFiniteSet(tbl.rows)
  /\ \A r \in tbl.rows : r.id \in Nat /\ r.id < tbl.next
  /\ \A r, q \in tbl.rows : r.id = q.id => r = q

(* Without the n rows of the lowest ids, at most |rows| - n are left.        *)
LEMMA RestOfRows ==
  ASSUME NEW rows, IsFiniteSet(rows),
         \A r \in rows : r.id \in Nat,
         \A r, q \in rows : r.id = q.id => r = q,
         NEW n \in Nat, n <= Cardinality(rows)
  PROVE  Cardinality(rows \ FirstIds(rows, n)) <= Cardinality(rows) - n
<1> DEFINE Lower(r) == {q \in rows : q.id < r.id}
           rest == rows \ FirstIds(rows, n)
           rank == [r \in rest |-> Cardinality(Lower(r))]
           last == Cardinality(rows) - 1
<1>1. Cardinality(rows) \in Nat
  BY FS_CardinalityType
<1>2. ASSUME NEW r \in rows
      PROVE  /\ IsFiniteSet(Lower(r)) /\ Cardinality(Lower(r)) \in Nat
             /\ Cardinality(Lower(r)) <= last
  <2>1. Lower(r) \in SUBSET (rows \ {r})
    OBVIOUS
  <2>2. IsFiniteSet(rows \ {r}) /\ Cardinality(rows \ {r}) = Cardinality(rows) - 1
    BY FS_RemoveElement
  <2> HIDE DEF Lower
  <2> QED
    BY <2>1, <2>2, FS_Subset, FS_CardinalityType
<1>3. ASSUME NEW r \in rows, NEW q \in rows, r.id < q.id
      PROVE  Cardinality(Lower(r)) < Cardinality(Lower(q))
  <2>1. Lower(r) \cup {r} \in SUBSET Lower(q) /\ r \notin Lower(r)
    BY <1>3
  <2>2. Cardinality(Lower(r) \cup {r}) = Cardinality(Lower(r)) + 1
    BY <1>2, <2>1, FS_AddElement
  <2> HIDE DEF Lower
  <2>3. Cardinality(Lower(r) \cup {r}) <= Cardinality(Lower(q))
    BY <1>2, <2>1, FS_Subset
  <2> QED
    BY <1>2, <2>2, <2>3
<1>4. \A r \in rest : r \in rows /\ Cardinality(Lower(r)) >= n
  <2>1. FirstIds(rows, n) = {r \in rows : Cardinality(Lower(r)) < n}
    BY DEF FirstIds
  <2> HIDE DEF Lower
  <2> QED
    BY <1>2, <2>1
<1> HIDE DEF Lower, rest
<1>5. rank \in [rest -> n..last]
  BY <1>1, <1>2, <1>4
<1>6. ASSUME NEW r \in rest, NEW q \in rest, rank[r] = rank[q]
      PROVE  r = q
  <2>1. r \in rows /\ q \in rows /\ r.id \in Nat /\ q.id \in Nat
    BY <1>4
  <2>2. ~ (r.id < q.id) /\ ~ (q.id < r.id)
    BY <1>2, <1>3, <1>6, <2>1
  <2> QED
    BY <2>1, <2>2
<1>7. rank \in Injection(rest, n..last)
  BY <1>5, <1>6 DEF Injection, IsInjective
<1>8. IsFiniteSet(n..last) /\ Cardinality(n..last) = IF n > last THEN 0 ELSE last - n + 1
  <2>1. last \in Int
    BY <1>1
  <2> HIDE DEF last
  <2> QED
    BY <2>1, FS_Interval
<1>9. Cardinality(rest) <= Cardinality(n..last)
  BY <1>7, <1>8, FS_Injection
<1>10. Cardinality(n..last) = Cardinality(rows) - n
  BY <1>1, <1>8
<1> QED
  BY <1>9, <1>10 DEF rest

(* A retention that loses rows says so in a row of its own.                  *)
LEMMA EnforcedTable ==
  ASSUME NEW tbl, IsTable(tbl), NEW now \in Nat
  PROVE  LET prune == [id |-> tbl.next, at |-> now, action |-> PruneAction, target |-> "log"]
             done == EnforceRetention(tbl, now)
         IN  \E kept \in SUBSET tbl.rows :
               /\ AuditRows > 0 => Cardinality(kept) <= AuditRows
               /\ \/ done = tbl /\ kept = tbl.rows
                  \/ done = [rows |-> kept \cup {prune}, next |-> tbl.next + 1]
<1> DEFINE young == tbl.rows \ AgedOut(tbl.rows, now)
           kept == young \ Overflow(young)
           prune == [id |-> tbl.next, at |-> now, action |-> PruneAction, target |-> "log"]
<1>0. AuditRows \in Nat
  BY AuditLimits
<1>1. kept \in SUBSET tbl.rows /\ young \in SUBSET tbl.rows
  OBVIOUS
<1>2. IsFiniteSet(young) /\ Cardinality(young) \in Nat
  BY <1>1, FS_Subset, FS_CardinalityType DEF IsTable
<1>3. ASSUME AuditRows > 0 PROVE Cardinality(kept) <= AuditRows
  <2> DEFINE n == Cardinality(young) - AuditRows
  <2>1. Overflow(young) = FirstIds(young, n)
    BY <1>3 DEF Overflow
  <2>2. CASE Cardinality(young) >= AuditRows
    <3>1. n \in Nat /\ n <= Cardinality(young)
      BY <1>0, <1>2, <2>2
    <3>2. /\ \A r \in young : r.id \in Nat
          /\ \A r, q \in young : r.id = q.id => r = q
      BY <1>1 DEF IsTable
    <3> HIDE DEF n, young
    <3>3. Cardinality(young \ FirstIds(young, n)) <= Cardinality(young) - n
      BY <1>2, <3>1, <3>2, RestOfRows
    <3>4. Cardinality(young) - n = AuditRows
      BY <1>0, <1>2 DEF n
    <3> QED
      BY <2>1, <3>3, <3>4
  <2>3. CASE Cardinality(young) < AuditRows
    <3>1. Cardinality(kept) <= Cardinality(young) /\ Cardinality(kept) \in Nat
      <4> HIDE DEF young
      <4>1. kept \in SUBSET young
        OBVIOUS
      <4> HIDE DEF kept
      <4> QED
        BY <1>2, <4>1, FS_Subset, FS_CardinalityType
    <3> QED
      BY <1>0, <1>2, <2>3, <3>1
  <2> QED
    BY <1>0, <1>2, <2>2, <2>3
<1>4. EnforceRetention(tbl, now) =
        IF kept = tbl.rows THEN tbl
        ELSE Appended([tbl EXCEPT !.rows = kept], now, PruneAction, "log")
  BY DEF EnforceRetention
<1> HIDE DEF kept, young
<1>5. Appended([tbl EXCEPT !.rows = kept], now, PruneAction, "log")
        = [rows |-> kept \cup {prune}, next |-> tbl.next + 1]
  <2>1. [tbl EXCEPT !.rows = kept] = [rows |-> kept, next |-> tbl.next]
    BY DEF IsTable
  <2> QED
    BY <2>1 DEF Appended
<1> QED
  BY <1>1, <1>3, <1>4, <1>5

Entry(t) == [id |-> audit.next, at |-> req[t].at, action |-> req[t].op, target |-> req[t].case]
PruneEntry == [id |-> audit.next + 1, at |-> clock, action |-> PruneAction, target |-> "log"]

LEMMA RecordEffect ==
  ASSUME ValuesOK, AuditOK, NEW t \in Threads, Record(t)
  PROVE  /\ req[t].pc = "audit" /\ req[t] \in Work /\ Takes(t, Idle)
         /\ \E kept \in SUBSET (audit.rows \cup {Entry(t)}) :
              /\ AuditRows > 0 => Cardinality(kept) <= AuditRows
              /\ \/ /\ kept = audit.rows \cup {Entry(t)}
                    /\ audit' = [rows |-> kept, next |-> audit.next + 1]
                 \/ audit' = [rows |-> kept \cup {PruneEntry}, next |-> audit.next + 2]
<1> DEFINE tbl == Appended(audit, req[t].at, req[t].op, req[t].case)
<1>1. req[t].pc = "audit" /\ req[t] \in Work /\ Takes(t, Idle) /\ clock \in Nat
  BY WriteWork DEF Record, Takes, Busy, ValuesOK
<1>2. tbl = [rows |-> audit.rows \cup {Entry(t)}, next |-> audit.next + 1]
  BY DEF Appended, Entry
<1>3. audit' = EnforceRetention(tbl, clock)
  BY DEF Record, Recorded
<1> HIDE DEF tbl
<1>4. IsFiniteSet(tbl.rows)
  BY <1>2, FS_AddElement DEF AuditOK
<1>5. IsTable(tbl)
  BY <1>2, <1>4 DEF AuditOK, Entry, IsTable
<1> DEFINE prune == [id |-> tbl.next, at |-> clock, action |-> PruneAction, target |-> "log"]
<1>6. PICK kept \in SUBSET tbl.rows :
        /\ AuditRows > 0 => Cardinality(kept) <= AuditRows
        /\ \/ audit' = tbl /\ kept = tbl.rows
           \/ audit' = [rows |-> kept \cup {prune}, next |-> tbl.next + 1]
  BY <1>1, <1>3, <1>5, EnforcedTable
<1>7. prune = PruneEntry
  BY <1>2 DEF PruneEntry
<1>8. audit.next + 1 + 1 = audit.next + 2 /\ tbl.next = audit.next + 1
  BY <1>2 DEF AuditOK
<1> HIDE DEF prune
<1> QED
  BY <1>1, <1>2, <1>6, <1>7, <1>8

(* Every row after a recording is an old one, the entry or the prune row.    *)
LEMMA RecordedRows ==
  ASSUME ValuesOK, AuditOK, NEW t \in Threads, Record(t), NEW r \in audit'.rows
  PROVE  r \in audit.rows \/ r = Entry(t) \/ r = PruneEntry
BY RecordEffect

LEMMA AuditRemains ==
  ASSUME ValuesOK, [Next]_vars
  PROVE  \/ \E t \in Threads : Record(t)
         \/ UNCHANGED audit
<1>0. req \in [Threads -> {Idle} \cup Work]
  BY DEF ValuesOK
<1>1. ASSUME NEW t \in Threads, NEW q \in Work, Asked(t, q) PROVE UNCHANGED audit
  BY <1>1 DEF Asked
<1>2. ASSUME NEW t \in Threads, Inserted(t) PROVE UNCHANGED audit
  BY <1>0, <1>2, Moved DEF Inserted
<1>3. ASSUME NEW t \in Threads, NEW c \in DOMAIN cases, NEW e \in Entries, Edited(t, c, e)
      PROVE  UNCHANGED audit
  BY <1>0, <1>3, Moved DEF Edited
<1>4. ASSUME NEW t \in Threads, Deleted(t) PROVE UNCHANGED audit
  BY <1>0, <1>4, Moved DEF Deleted
<1>5. ASSUME NEW t \in Threads, Advanced(t) PROVE UNCHANGED audit
  BY <1>0, <1>5, Moved DEF Advanced
<1>6. ASSUME NEW t \in Threads, Nameless(t) \/ Dropped(t) PROVE UNCHANGED audit
  BY <1>6 DEF Nameless, Dropped
<1>7. ASSUME PruneCases \/ Tick \/ UNCHANGED vars PROVE UNCHANGED audit
  BY <1>7 DEF PruneCases, Tick, vars
<1> QED
  BY <1>1, <1>2, <1>3, <1>4, <1>5, <1>6, <1>7, StepEffect DEF Step

LEMMA CreatedGrows ==
  ASSUME ValuesOK, [Next]_vars
  PROVE  created \subseteq created'
BY ServiceStep DEF Asked, ServiceKept

LEMMA AuditStep ==
  ASSUME ValuesOK, RequestsOK, AuditOK, [Next]_vars
  PROVE  AuditOK'
<1>0. clock \in Nat /\ clock' \in {clock, clock + 1} /\ created \subseteq created'
  BY CasesStep, CreatedGrows DEF ValuesOK
<1>1. CASE UNCHANGED audit
  BY <1>0, <1>1 DEF AuditOK
<1>2. ASSUME NEW t \in Threads, Record(t) PROVE AuditOK'
  <2>1. /\ req[t].op \in Operations /\ req[t].at \in Nat /\ req[t].at <= clock
        /\ req[t].case \in created \cup {NoCase}
    BY <1>2, RecordEffect, WorkFields DEF RequestsOK, Busy
  <2>2. clock' = clock /\ created' = created
    BY <1>2 DEF Record
  <2>3. PICK kept \in SUBSET (audit.rows \cup {Entry(t)}) :
          \/ audit' = [rows |-> kept, next |-> audit.next + 1]
          \/ audit' = [rows |-> kept \cup {PruneEntry}, next |-> audit.next + 2]
    BY <1>2, RecordEffect
  <2>4. IsFiniteSet(kept) /\ IsFiniteSet(kept \cup {PruneEntry})
    <3>1. IsFiniteSet(audit.rows \cup {Entry(t)})
      BY FS_AddElement DEF AuditOK
    <3>2. IsFiniteSet(kept)
      BY <3>1, FS_Subset
    <3> QED
      BY <3>2, FS_AddElement
  <2>5. /\ Entry(t).id = audit.next /\ Entry(t).at = req[t].at
        /\ Entry(t).target = req[t].case
        /\ PruneEntry.id = audit.next + 1 /\ PruneEntry.at = clock
        /\ PruneEntry.action = PruneAction
    BY DEF Entry, PruneEntry
  <2>6. audit.next \in Nat /\ \A r \in audit.rows : r.id \in Nat /\ r.id < audit.next
    BY DEF AuditOK
  <2>7. /\ audit' = [rows |-> audit'.rows, next |-> audit'.next]
        /\ audit'.next \in Nat /\ IsFiniteSet(audit'.rows)
        /\ audit'.next > audit.next
        /\ PruneEntry \in audit'.rows => audit'.next = audit.next + 2
    <3>1. CASE audit' = [rows |-> kept, next |-> audit.next + 1]
      <4>1. audit'.rows = kept /\ audit'.next = audit.next + 1
        BY <3>1
      <4>2. PruneEntry \notin kept
        BY <2>5, <2>6
      <4> QED
        BY <2>4, <2>6, <3>1, <4>1, <4>2
    <3>2. CASE audit' = [rows |-> kept \cup {PruneEntry}, next |-> audit.next + 2]
      <4>1. audit'.rows = kept \cup {PruneEntry} /\ audit'.next = audit.next + 2
        BY <3>2
      <4> QED
        BY <2>4, <2>6, <3>2, <4>1
    <3> QED
      BY <2>3, <3>1, <3>2
  <2>8. ASSUME NEW r \in audit'.rows
        PROVE  /\ r.id \in Nat /\ r.id < audit'.next
               /\ r.at \in Nat /\ r.at <= clock
               /\ r.action # PruneAction => r.target \in created \cup {NoCase}
    <3>1. CASE r \in audit.rows
      BY <2>6, <2>7, <3>1 DEF AuditOK
    <3>2. CASE r = Entry(t)
      BY <2>1, <2>5, <2>6, <2>7, <3>2
    <3>3. CASE r = PruneEntry
      BY <1>0, <2>5, <2>6, <2>7, <3>3
    <3> QED
      BY <1>2, <3>1, <3>2, <3>3, RecordedRows
  <2>9. ASSUME NEW r \in audit'.rows, NEW q \in audit'.rows, r.id = q.id
        PROVE  r = q
    <3>1. \A s \in {r, q} : s \in audit.rows \/ s = Entry(t) \/ s = PruneEntry
      BY <1>2, RecordedRows
    <3>2. r \in audit.rows /\ q \in audit.rows => r = q
      BY <2>9 DEF AuditOK
    <3> QED
      BY <2>5, <2>6, <2>9, <3>1, <3>2
  <2> QED
    BY <2>2, <2>7, <2>8, <2>9 DEF AuditOK
<1> QED
  BY <1>1, <1>2, AuditRemains

-----------------------------------------------------------------------------
(* Which case a thread may serve, and what it may rely on.                   *)

LEMMA RequestsStep ==
  ASSUME ValuesOK, RequestsOK, [Next]_vars
  PROVE  RequestsOK'
<1> DEFINE Fit(u) == /\ req'[u].case \in created' \cup {NoCase}
                     /\ req'[u].case = NoCase => req'[u].pc \in {"stamp", "audit"}
                     /\ req'[u].pc = "audit" => req'[u].at <= clock'
<1>0. /\ req \in [Threads -> {Idle} \cup Work] /\ clock \in Nat
      /\ clock' \in {clock, clock + 1} /\ created \subseteq created'
  BY CasesStep, CreatedGrows DEF ValuesOK
<1>1. ASSUME NEW u \in Threads, req'[u] = req[u], Busy(u)
      PROVE  Fit(u)
  <2>1. req[u].pc = "audit" => req[u].at \in Nat
    BY <1>0, <1>1, WriteWork, WorkFields
  <2> QED
    BY <1>0, <1>1, <2>1 DEF RequestsOK
<1>2. ASSUME NEW t \in Threads, NEW q \in Work, Asked(t, q)
      PROVE  RequestsOK'
  <2>1. req'[t] = q /\ \A u \in Threads \ {t} : req'[u] = req[u]
    BY <1>0, <1>2, Taken DEF Asked
  <2>2. Fit(t)
    <3>1. q.case \in created' /\ q.case \in CaseIds /\ q.pc # "audit"
      BY <1>2 DEF Asked, ValuesOK
    <3> QED
      BY <2>1, <3>1, NamesAssumption
  <2> QED
    BY <1>1, <2>1, <2>2 DEF RequestsOK, Busy
<1>3. ASSUME NEW t \in Threads, NEW p \in {"answer", "stamp", "audit"}, Moves(t, p),
             Busy(t), p = "answer" => req[t].pc = "write",
             p = "audit" => req'[t].at = clock
      PROVE  RequestsOK'
  <2>1. /\ req'[t].pc = p /\ req'[t].case = req[t].case
        /\ \A u \in Threads \ {t} : req'[u] = req[u]
    BY <1>0, <1>3, Moved
  <2>2. Fit(t)
    BY <1>0, <1>3, <2>1 DEF RequestsOK
  <2> QED
    BY <1>1, <2>1, <2>2 DEF RequestsOK, Busy
<1>4. ASSUME NEW t \in Threads, Inserted(t) PROVE RequestsOK'
  BY <1>3, <1>4 DEF Inserted, Writing, Busy
<1>5. ASSUME NEW t \in Threads, NEW c \in DOMAIN cases, NEW e \in Entries, Edited(t, c, e)
      PROVE  RequestsOK'
  BY <1>3, <1>5 DEF Edited, Writing, Busy
<1>6. ASSUME NEW t \in Threads, Deleted(t) PROVE RequestsOK'
  BY <1>3, <1>6 DEF Deleted, Writing, Busy
<1>7. ASSUME NEW t \in Threads, Advanced(t) PROVE RequestsOK'
  BY <1>3, <1>7 DEF Advanced, Writing, Busy
<1>8. ASSUME NEW t \in Threads, Nameless(t) PROVE RequestsOK'
  <2>1. PICK q \in Work : Takes(t, q) /\ q.pc = "stamp" /\ q.case = NoCase
    BY <1>8 DEF Nameless
  <2>2. req'[t] = q /\ \A u \in Threads \ {t} : req'[u] = req[u]
    BY <1>0, <2>1, Taken
  <2>3. Fit(t)
    BY <2>1, <2>2
  <2> QED
    BY <1>1, <2>2, <2>3 DEF RequestsOK, Busy
<1>9. ASSUME NEW t \in Threads, Dropped(t) \/ Record(t) PROVE RequestsOK'
  <2>1. req'[t] = Idle /\ \A u \in Threads \ {t} : req'[u] = req[u]
    BY <1>0, <1>9 DEF Dropped, Takes, Record
  <2>2. Idle.pc = "idle"
    BY DEF Idle
  <2> QED
    BY <1>1, <2>1, <2>2 DEF RequestsOK, Busy
<1>10. ASSUME PruneCases \/ Tick \/ UNCHANGED vars PROVE RequestsOK'
  <2>1. req' = req
    BY <1>10 DEF PruneCases, Tick, vars
  <2> QED
    BY <1>1, <2>1 DEF RequestsOK, Busy
<1> HIDE DEF Fit
<1> QED
  BY <1>2, <1>4, <1>5, <1>6, <1>7, <1>8, <1>9, <1>10, StepEffect DEF Step

(* A case about to be inserted stays its creator's alone.                    *)
LEMMA CreatedAloneStep ==
  ASSUME ValuesOK, RequestsOK, AuditOK, CreatedAlone, [Next]_vars
  PROVE  CreatedAlone'
<1>0. req \in [Threads -> {Idle} \cup Work] /\ DOMAIN cases \subseteq created
  BY DEF ValuesOK
<1>1. SUFFICES ASSUME NEW t \in Threads, req'[t].pc = "write", req'[t].op = "create"
               PROVE  /\ req'[t].case \notin DOMAIN cases'
                      /\ \A u \in Threads \ {t} : ~ (req'[u].pc # "idle" /\ req'[u].case = req'[t].case)
                      /\ \A r \in audit'.rows :
                           r.action # PruneAction => r.target # req'[t].case
  BY DEF CreatedAlone, Writing, Serves, Busy
<1>2. ASSUME NEW u \in Threads, NEW q \in Work, Asked(u, q)
      PROVE  /\ req'[t].case \notin DOMAIN cases'
             /\ \A v \in Threads \ {t} : ~ (req'[v].pc # "idle" /\ req'[v].case = req'[t].case)
             /\ \A r \in audit'.rows :
                  r.action # PruneAction => r.target # req'[t].case
  <2>1. /\ req'[u] = q /\ \A v \in Threads \ {u} : req'[v] = req[v]
        /\ audit' = audit /\ q.case \in CaseIds /\ q.case # NoCase
    BY <1>0, <1>2, Taken, NamesAssumption DEF Asked
  <2>2. DOMAIN cases' \subseteq DOMAIN cases
    BY <1>2, AskedFewer DEF Fewer
  <2>3. CASE t = u
    <3>1. q.case \notin created
      BY <1>1, <1>2, <2>1, <2>3 DEF Asked
    <3>2. \A v \in Threads \ {t} : req[v].pc # "idle" => req[v].case \in created \cup {NoCase}
      BY DEF RequestsOK, Busy
    <3>3. \A r \in audit.rows : r.action # PruneAction => r.target \in created \cup {NoCase}
      BY DEF AuditOK
    <3> QED
      BY <1>0, <2>1, <2>2, <2>3, <3>1, <3>2, <3>3
  <2>4. CASE t # u
    <3>1. /\ req'[t] = req[t] /\ req[t].case \notin DOMAIN cases
          /\ req[t].case \in created \cup {NoCase} /\ req[t].case # NoCase
          /\ \A v \in Threads \ {t} : ~ Serves(v, req[t].case)
          /\ \A r \in audit.rows : r.action # PruneAction => r.target # req[t].case
      BY <1>1, <2>1, <2>4 DEF CreatedAlone, Writing, RequestsOK, Busy
    <3>2. q.case \notin created \/ q.case \in DOMAIN cases
      BY <1>2 DEF Asked
    <3> QED
      BY <2>1, <2>2, <3>1, <3>2 DEF Serves, Busy
  <2> QED
    BY <2>3, <2>4
<1>3. ASSUME ServiceKept
      PROVE  /\ req'[t].case \notin DOMAIN cases'
             /\ \A u \in Threads \ {t} : ~ (req'[u].pc # "idle" /\ req'[u].case = req'[t].case)
             /\ \A r \in audit'.rows :
                  r.action # PruneAction => r.target # req'[t].case
  <2>1. /\ req'[t] = req[t] /\ req[t].case \notin DOMAIN cases
        /\ req[t].case \in created \cup {NoCase} /\ req[t].case # NoCase
        /\ \A v \in Threads \ {t} : ~ Serves(v, req[t].case)
        /\ \A r \in audit.rows : r.action # PruneAction => r.target # req[t].case
    BY <1>1, <1>3 DEF ServiceKept, CreatedAlone, Writing, RequestsOK, Busy
  <2>2. \A u \in Threads \ {t} : ~ (req'[u].pc # "idle" /\ req'[u].case = req'[t].case)
    BY <1>3, <2>1 DEF ServiceKept, Serves
  <2>3. req[t].case \notin DOMAIN cases'
    <3>1. ASSUME NEW u \in Threads, Inserted(u) PROVE req[t].case \notin DOMAIN cases'
      <4>1. u # t
        BY <1>0, <1>1, <2>1, <3>1, Moved DEF Inserted
      <4>2. DOMAIN cases' = DOMAIN cases \cup {req[u].case} /\ Busy(u)
        BY <3>1 DEF Inserted, Writing, Busy
      <4> QED
        BY <2>1, <4>1, <4>2 DEF Serves
    <3> QED
      BY <2>1, <3>1, CasesStep DEF Fewer, Edited
  <2>4. \A r \in audit'.rows : r.action # PruneAction => r.target # req[t].case
    <3>1. ASSUME NEW u \in Threads, Record(u), NEW r \in audit'.rows, r.action # PruneAction
          PROVE  r.target # req[t].case
      <4>1. u # t /\ Busy(u)
        BY <1>1, <2>1, <3>1, RecordEffect DEF Busy
      <4>2. req[u].case # req[t].case
        BY <2>1, <4>1 DEF Serves
      <4>3. Entry(u).target = req[u].case /\ PruneEntry.action = PruneAction
        BY DEF Entry, PruneEntry
      <4> QED
        BY <2>1, <3>1, <4>2, <4>3, RecordedRows
    <3> QED
      BY <2>1, <3>1, AuditRemains
  <2> QED
    BY <2>1, <2>2, <2>3, <2>4
<1> QED
  BY <1>2, <1>3, ServiceStep

(* Requests meet on a case only where overlapped says so.                    *)
LEMMA OverlapsStep ==
  ASSUME ValuesOK, Overlaps, [Next]_vars
  PROVE  Overlaps'
<1>1. ASSUME NEW t \in Threads, NEW q \in Work, Asked(t, q)
      PROVE  Overlaps'
  <2>1. req'[t] = q /\ \A u \in Threads \ {t} : req'[u] = req[u]
    BY <1>1, Taken DEF Asked, ValuesOK
  <2>2. overlapped' = IF Meets(t, q.case) THEN overlapped \cup {q.case} ELSE overlapped
    BY <1>1 DEF Asked
  <2> QED
    BY <2>1, <2>2 DEF Overlaps, Meets, Serves, Busy
<1>2. CASE ServiceKept
  BY <1>2 DEF ServiceKept, Overlaps, Busy
<1> QED
  BY <1>1, <1>2, ServiceStep

(* What a request has read of a case of its own is still there.              *)
LEMMA ReadsStep ==
  ASSUME ValuesOK, RequestsOK, CreatedAlone, Overlaps, ReadsHold, [Next]_vars
  PROVE  ReadsHold'
<1> DEFINE Holds(q, case) == /\ q.op = "update" => q.was = case.status
                             /\ q.op = "evidence_remove" => q.link \in case.evidence
<1>0. req \in [Threads -> {Idle} \cup Work]
  BY DEF ValuesOK
<1>1. SUFFICES ASSUME NEW t \in Threads, req'[t].pc = "write",
                      req'[t].case \in DOMAIN cases' \ overlapped'
               PROVE  Holds(req'[t], cases'[req'[t].case])
  BY DEF ReadsHold
<1> DEFINE c == req'[t].case
<1>2. ASSUME req'[t] = req[t], c \in DOMAIN cases, c \notin overlapped, cases'[c] = cases[c]
      PROVE  Holds(req'[t], cases'[c])
  BY <1>1, <1>2 DEF ReadsHold
<1>3. ASSUME NEW u \in Threads, NEW q \in Work, Asked(u, q)
      PROVE  Holds(req'[t], cases'[c])
  <2>1. req'[u] = q /\ \A v \in Threads \ {u} : req'[v] = req[v]
    BY <1>0, <1>3, Taken DEF Asked
  <2>2. c \in DOMAIN cases /\ cases'[c] = cases[c] /\ c \notin overlapped
    BY <1>1, <1>3, AskedFewer DEF Fewer, Asked
  <2>3. CASE t = u
    BY <1>3, <2>1, <2>2, <2>3 DEF Asked
  <2>4. CASE t # u
    BY <1>2, <2>1, <2>2, <2>4
  <2> QED
    BY <2>3, <2>4
<1>4. ASSUME ServiceKept
      PROVE  Holds(req'[t], cases'[c])
  <2>1. req'[t] = req[t] /\ c \notin overlapped /\ Busy(t)
    BY <1>1, <1>4 DEF ServiceKept, Busy
  <2>2. CASE Fewer
    BY <1>1, <1>2, <2>1, <2>2 DEF Fewer
  <2>3. ASSUME NEW u \in Threads, Inserted(u)
        PROVE  Holds(req'[t], cases'[c])
    <3>1. u # t
      BY <1>0, <1>1, <2>3, Moved DEF Inserted
    <3>2. c # req[u].case
      BY <2>1, <2>3, <3>1 DEF CreatedAlone, Inserted, Serves
    <3>3. c \in DOMAIN cases /\ cases'[c] = cases[c]
      BY <1>1, <2>3, <3>2 DEF Inserted
    <3> QED
      BY <1>2, <2>1, <3>3
  <2>4. ASSUME NEW u \in Threads, NEW d \in DOMAIN cases, NEW e \in Entries, Edited(u, d, e)
        PROVE  Holds(req'[t], cases'[c])
    <3>1. u # t /\ Busy(u) /\ req[u].case = d
      BY <1>0, <1>1, <2>4, Moved DEF Edited, Writing, Busy
    <3>2. c # NoCase
      BY <1>1, <2>1 DEF RequestsOK
    <3>3. c # d
      BY <2>1, <3>1, <3>2 DEF Overlaps
    <3>4. c \in DOMAIN cases /\ cases'[c] = cases[c]
      BY <1>1, <2>4, <3>3 DEF Edited
    <3> QED
      BY <1>2, <2>1, <3>4
  <2> QED
    BY <2>2, <2>3, <2>4, CasesStep
<1> HIDE DEF Holds, c
<1>5. Holds(req'[t], cases'[c])
  BY <1>3, <1>4, ServiceStep
<1> QED
  BY <1>5 DEF c

-----------------------------------------------------------------------------
(* Limits: a place is kept for what each thread is still to add.             *)

LEMMA OneMore ==
  ASSUME NEW S, IsFiniteSet(S), NEW x
  PROVE  /\ IsFiniteSet(S \cup {x}) /\ Cardinality(S \cup {x}) \in Nat
         /\ Cardinality(S) \in Nat
         /\ Cardinality(S \cup {x}) <= Cardinality(S) + 1
<1>1. Cardinality(S) \in Nat /\ IsFiniteSet(S \cup {x})
  BY FS_AddElement, FS_CardinalityType
<1>2. Cardinality(S \cup {x}) = IF x \in S THEN Cardinality(S) ELSE Cardinality(S) + 1
  BY FS_AddElement
<1> QED
  BY <1>1, <1>2

LEMMA ThreadSets ==
  ASSUME NEW S \in SUBSET Threads
  PROVE  /\ IsFiniteSet(S) /\ Cardinality(S) \in Nat
         /\ Cardinality(Threads) \in Nat /\ Cardinality(S) <= Cardinality(Threads)
         /\ S # {} => Cardinality(Threads) >= 1
<1>1. IsFiniteSet(Threads)
  BY CaseAssumption
<1>2. Cardinality(Threads) \in Nat /\ (Cardinality(Threads) = 0 <=> Threads = {})
  BY <1>1, FS_CardinalityType, FS_EmptySet
<1> QED
  BY <1>1, <1>2, FS_Subset, FS_CardinalityType

LEMMA AddingKept ==
  ASSUME ServiceKept, NEW op, NEW c
  PROVE  /\ Adding(op, c)' \in SUBSET Adding(op, c)
         /\ Cardinality(Adding(op, c)') \in Nat /\ Cardinality(Adding(op, c)) \in Nat
         /\ Cardinality(Adding(op, c)') <= Cardinality(Adding(op, c))
<1>1. Adding(op, c)' \in SUBSET Adding(op, c)
  BY DEF ServiceKept, Adding, Writing
<1>2. Adding(op, c) \in SUBSET Threads
  BY DEF Adding
<1> QED
  BY <1>1, <1>2, ThreadSets, FS_Subset

(* The thread that writes gives its place to what it adds.                   *)
LEMMA AddingDone ==
  ASSUME ServiceKept, NEW op, NEW c, NEW t \in Adding(op, c), req'[t].pc # "write"
  PROVE  Cardinality(Adding(op, c)') + 1 <= Cardinality(Adding(op, c))
<1>1. Adding(op, c)' \in SUBSET (Adding(op, c) \ {t})
  <2>1. t \notin Adding(op, c)'
    BY DEF Adding, Writing
  <2> QED
    BY <2>1, AddingKept
<1>2. IsFiniteSet(Adding(op, c)) /\ Cardinality(Adding(op, c)) \in Nat
  BY ThreadSets DEF Adding
<1>3. /\ IsFiniteSet(Adding(op, c) \ {t})
      /\ Cardinality(Adding(op, c) \ {t}) = Cardinality(Adding(op, c)) - 1
  BY <1>2, FS_RemoveElement
<1>4. Cardinality(Adding(op, c)') <= Cardinality(Adding(op, c) \ {t})
  BY <1>1, <1>3, FS_Subset
<1> QED
  BY <1>2, <1>3, <1>4, AddingKept

(* A thread that asks comes to a write on the case it asks for, or to none.  *)
LEMMA AddingAsked ==
  ASSUME ValuesOK, NEW t \in Threads, NEW q \in Work, Asked(t, q), NEW op, NEW c,
         ~ (q.pc = "write" /\ q.op = op /\ q.case = c)
  PROVE  Adding(op, c)' = Adding(op, c)
<1>1. req'[t] = q /\ \A u \in Threads \ {t} : req'[u] = req[u]
  BY Taken DEF Asked, ValuesOK
<1>2. req[t].pc = "idle"
  BY DEF Asked, Idle
<1> QED
  BY <1>1, <1>2 DEF Adding, Writing

LEMMA PlacesStep ==
  ASSUME ValuesOK, RowsOK, CreatedAlone, PlacesKept, [Next]_vars
  PROVE  PlacesKept'
<1> DEFINE Fits(c) ==
      /\ Cardinality(cases'[c].evidence) + Cardinality(Adding("evidence_add", c)')
           <= MaxEvidence + Cardinality(Threads) - 1
      /\ cases'[c].notes + Cardinality(Adding("note_add", c)')
           <= MaxNotes + Cardinality(Threads) - 1
<1>0. /\ req \in [Threads -> {Idle} \cup Work] /\ IsFiniteSet(DOMAIN cases)
      /\ MaxCases \in Nat /\ MaxEvidence \in Nat /\ MaxNotes \in Nat
      /\ Cardinality(Threads) \in Nat /\ Cardinality(DOMAIN cases) \in Nat
  BY CaseAssumption, ThreadSets, FS_CardinalityType DEF ValuesOK
<1>1. Cardinality(DOMAIN cases') <= MaxCases
  <2>1. ASSUME NEW t \in Threads, Inserted(t) PROVE Cardinality(DOMAIN cases') <= MaxCases
    <3>1. DOMAIN cases' = DOMAIN cases \cup {req[t].case} /\ Cardinality(DOMAIN cases) < MaxCases
      BY <2>1 DEF Inserted
    <3>2. Cardinality(DOMAIN cases') <= Cardinality(DOMAIN cases) + 1
      BY <1>0, <3>1, OneMore
    <3>3. Cardinality(DOMAIN cases') \in Nat
      BY <1>0, <3>1, OneMore
    <3> QED
      BY <1>0, <3>1, <3>2, <3>3
  <2>2. CASE DOMAIN cases' \subseteq DOMAIN cases
    <3>1. Cardinality(DOMAIN cases') <= Cardinality(DOMAIN cases)
      BY <1>0, <2>2, FS_Subset
    <3>2. Cardinality(DOMAIN cases') \in Nat
      BY <1>0, <2>2, FS_Subset, FS_CardinalityType
    <3> QED
      BY <1>0, <3>1, <3>2 DEF PlacesKept
  <2> QED
    BY <2>1, <2>2, CasesStep DEF Fewer, Edited
<1>2. ASSUME NEW c \in DOMAIN cases
      PROVE  /\ Cardinality(cases[c].evidence) \in Nat /\ cases[c].notes \in Nat
             /\ cases[c] \in CaseRows /\ IsFiniteSet(cases[c].evidence)
             /\ Cardinality(cases[c].evidence) + Cardinality(Adding("evidence_add", c))
                  <= MaxEvidence + Cardinality(Threads) - 1
             /\ cases[c].notes + Cardinality(Adding("note_add", c))
                  <= MaxNotes + Cardinality(Threads) - 1
  BY FS_CardinalityType DEF RowsOK, ValuesOK, CaseRows, PlacesKept
<1>3. ASSUME NEW t \in Threads, NEW q \in Work, Asked(t, q), NEW c \in DOMAIN cases'
      PROVE  Fits(c)
  <2>1. c \in DOMAIN cases /\ cases'[c] = cases[c]
    BY <1>3, AskedFewer DEF Fewer
  <2>2. \A op \in {"evidence_add", "note_add"} :
          /\ Cardinality(Adding(op, c)') \in Nat
          /\ Cardinality(Adding(op, c)') <= Cardinality(Threads)
    BY ThreadSets DEF Adding
  <2>3. Cardinality(cases[c].evidence) + Cardinality(Adding("evidence_add", c)')
          <= MaxEvidence + Cardinality(Threads) - 1
    <3>1. CASE q.pc = "write" /\ q.op = "evidence_add" /\ q.case = c
      <4>1. Cardinality(cases[c].evidence) < MaxEvidence
        BY <1>3, <3>1 DEF Asked
      <4> QED
        BY <1>0, <1>2, <2>1, <2>2, <4>1
    <3>2. CASE ~ (q.pc = "write" /\ q.op = "evidence_add" /\ q.case = c)
      BY <1>2, <1>3, <2>1, <3>2, AddingAsked
    <3> QED
      BY <3>1, <3>2
  <2>4. cases[c].notes + Cardinality(Adding("note_add", c)')
          <= MaxNotes + Cardinality(Threads) - 1
    <3>1. CASE q.pc = "write" /\ q.op = "note_add" /\ q.case = c
      <4>1. cases[c].notes < MaxNotes
        BY <1>3, <3>1 DEF Asked
      <4> QED
        BY <1>0, <1>2, <2>1, <2>2, <4>1
    <3>2. CASE ~ (q.pc = "write" /\ q.op = "note_add" /\ q.case = c)
      BY <1>2, <1>3, <2>1, <3>2, AddingAsked
    <3> QED
      BY <3>1, <3>2
  <2> QED
    BY <2>1, <2>3, <2>4
<1>4. ASSUME ServiceKept, NEW c \in DOMAIN cases'
      PROVE  Fits(c)
  <2>0. \A op \in {"evidence_add", "note_add"} :
          /\ Cardinality(Adding(op, c)') \in Nat /\ Cardinality(Adding(op, c)) \in Nat
          /\ Cardinality(Adding(op, c)') <= Cardinality(Adding(op, c))
    BY <1>4, AddingKept
  <2>1. ASSUME c \in DOMAIN cases, cases'[c] = cases[c] PROVE Fits(c)
    BY <1>0, <1>2, <2>0, <2>1
  <2>2. CASE Fewer
    BY <2>1, <2>2 DEF Fewer
  <2>3. ASSUME NEW t \in Threads, Inserted(t) PROVE Fits(c)
    <3>1. CASE c # req[t].case
      BY <2>1, <2>3, <3>1 DEF Inserted
    <3>2. CASE c = req[t].case
      <4>1. \A u \in Threads : u # t => ~ Serves(u, c)
        BY <2>3, <3>2 DEF CreatedAlone, Inserted
      <4>2. req'[t].pc # "write"
        BY <1>0, <2>3, Moved DEF Inserted
      <4>3. \A op : Adding(op, c)' = {}
        BY <1>4, <4>1, <4>2 DEF Adding, Writing, ServiceKept, Serves
      <4>4. cases'[c].evidence = {} /\ cases'[c].notes = 0
        BY <2>3, <3>2 DEF Inserted, NewCase
      <4>5. Cardinality({}) = 0 /\ Cardinality(Threads) >= 1
        BY <1>0, FS_EmptySet, ThreadSets
      <4> QED
        <5>1. /\ Cardinality(cases'[c].evidence) = 0 /\ cases'[c].notes = 0
              /\ Cardinality(Adding("evidence_add", c)') = 0
              /\ Cardinality(Adding("note_add", c)') = 0
          BY <4>3, <4>4, <4>5
        <5> QED
          BY <1>0, <4>5, <5>1
    <3> QED
      BY <3>1, <3>2
  <2>4. ASSUME NEW t \in Threads, NEW d \in DOMAIN cases, NEW e \in Entries, Edited(t, d, e)
        PROVE  Fits(c)
    <3>0. c \in DOMAIN cases
      BY <2>4 DEF Edited
    <3>1. CASE c # d
      BY <2>1, <2>4, <3>0, <3>1 DEF Edited
    <3>2. CASE c = d
      <4>1. /\ req'[t].pc # "write" /\ t \in Adding(e.action, c)
        BY <1>0, <2>4, <3>2, Moved DEF Edited, Adding
      <4>2. Cardinality(Adding(e.action, c)') + 1 <= Cardinality(Adding(e.action, c))
        BY <1>4, <4>1, AddingDone
      <4>3. CASE e.action = "evidence_add"
        <5>1. /\ cases'[c].notes = cases[c].notes
              /\ \E new : cases'[c].evidence = cases[c].evidence \cup {new}
          BY <2>4, <3>2, <4>3 DEF Edited
        <5>2. /\ Cardinality(cases'[c].evidence) <= Cardinality(cases[c].evidence) + 1
              /\ Cardinality(cases'[c].evidence) \in Nat
          <6>1. PICK new : cases'[c].evidence = cases[c].evidence \cup {new}
            BY <5>1
          <6>2. IsFiniteSet(cases[c].evidence)
            BY <1>2, <3>0
          <6> QED
            BY <6>1, <6>2, OneMore
        <5> QED
          BY <1>0, <1>2, <2>0, <3>0, <4>2, <4>3, <5>1, <5>2
      <4>4. CASE e.action # "evidence_add"
        <5>1. cases'[c].evidence \in SUBSET cases[c].evidence
          BY <2>4, <3>2, <4>4 DEF Edited
        <5>2. /\ Cardinality(cases'[c].evidence) <= Cardinality(cases[c].evidence)
              /\ Cardinality(cases'[c].evidence) \in Nat
          BY <1>2, <3>0, <5>1, FS_Subset, FS_CardinalityType
        <5>3. cases'[c].notes = IF e.action = "note_add" THEN cases[c].notes + 1
                                ELSE cases[c].notes
          BY <2>4, <3>2 DEF Edited
        <5> QED
          BY <1>0, <1>2, <2>0, <3>0, <4>2, <5>2, <5>3
      <4> QED
        BY <4>3, <4>4
    <3> QED
      BY <3>1, <3>2
  <2> QED
    BY <2>2, <2>3, <2>4, CasesStep
<1> QED
  BY <1>1, <1>3, <1>4, ServiceStep DEF PlacesKept

-----------------------------------------------------------------------------
(* The history: what one more entry says.                                    *)

LEMMA OneMoreEntry ==
  ASSUME NEW h \in Seq(Entries), NEW e \in Entries
  PROVE  /\ DOMAIN Append(h, e) = 1..(Len(h) + 1) /\ DOMAIN h = 1..Len(h) /\ Len(h) \in Nat
         /\ Append(h, e)[Len(h) + 1] = e
         /\ \A i \in 1..Len(h) : Append(h, e)[i] = h[i]
BY AppendProperties, LenProperties

LEMMA StatusLogged ==
  ASSUME NEW h \in Seq(Entries), NEW e \in Entries, NEW s,
         e.status = s \/ (e.status = KeepStatus /\ LastStatus(h, s))
  PROVE  LastStatus(Append(h, e), s)
<1> DEFINE n == Len(h) + 1
           g == Append(h, e)
<1>1. /\ DOMAIN g = 1..n /\ DOMAIN h = 1..Len(h) /\ Len(h) \in Nat /\ g[n] = e
      /\ \A i \in 1..Len(h) : g[i] = h[i]
  BY OneMoreEntry
<1> HIDE DEF g
<1>2. CASE e.status = s
  <2>1. n \in DOMAIN g /\ \A j \in DOMAIN g : ~ (j > n)
    BY <1>1
  <2> HIDE DEF n
  <2>2. LastStatus(g, s)
    BY <1>1, <1>2, <2>1 DEF LastStatus
  <2> QED
    BY <2>2 DEF g
<1>3. CASE e.status = KeepStatus /\ LastStatus(h, s)
  <2>1. PICK i \in DOMAIN h : h[i].status = s /\ \A j \in DOMAIN h : j > i => h[j].status = KeepStatus
    BY <1>3 DEF LastStatus
  <2>2. i \in DOMAIN g /\ g[i].status = s
    BY <1>1, <2>1
  <2>3. ASSUME NEW j \in DOMAIN g, j > i PROVE g[j].status = KeepStatus
    <3>1. CASE j = n
      BY <1>1, <1>3, <3>1
    <3>2. CASE j # n
      <4>1. j \in DOMAIN h
        BY <1>1, <3>2
      <4> QED
        BY <1>1, <2>1, <2>3, <4>1
    <3> QED
      BY <3>1, <3>2
  <2>4. LastStatus(g, s)
    BY <2>2, <2>3 DEF LastStatus
  <2> QED
    BY <2>4 DEF g
<1> QED
  BY <1>2, <1>3

LEMMA ItemLogged ==
  ASSUME NEW h \in Seq(Entries), NEW e \in Entries, NEW item
  PROVE  LastAdded(Append(h, e), item)
           <=> IF e.item = item THEN e.action = "evidence_add" ELSE LastAdded(h, item)
<1> DEFINE n == Len(h) + 1
           g == Append(h, e)
<1>1. /\ DOMAIN g = 1..n /\ DOMAIN h = 1..Len(h) /\ Len(h) \in Nat /\ g[n] = e
      /\ \A i \in 1..Len(h) : g[i] = h[i]
  BY OneMoreEntry
<1>2. n \in DOMAIN g /\ \A j \in DOMAIN g : ~ (j > n) /\ (j # n => j \in DOMAIN h /\ n > j)
  BY <1>1
<1>3. \A j \in DOMAIN h : j \in DOMAIN g /\ j # n /\ g[j] = h[j]
  BY <1>1
<1> HIDE DEF g, n
<1>4. CASE e.item = item
  <2>1. e.action = "evidence_add" => LastAdded(g, item)
    BY <1>1, <1>2, <1>4 DEF LastAdded
  <2>2. LastAdded(g, item) => e.action = "evidence_add"
    BY <1>1, <1>2, <1>4 DEF LastAdded
  <2> QED
    BY <1>4, <2>1, <2>2 DEF g
<1>5. CASE e.item # item
  <2>1. LastAdded(h, item) => LastAdded(g, item)
    BY <1>1, <1>2, <1>3, <1>5 DEF LastAdded
  <2>2. LastAdded(g, item) => LastAdded(h, item)
    BY <1>1, <1>2, <1>3, <1>5 DEF LastAdded
  <2> QED
    BY <1>5, <2>1, <2>2 DEF g
<1> QED
  BY <1>4, <1>5

LEMMA HistoryStep ==
  ASSUME ValuesOK, RowsOK, RequestsOK, ReadsHold, HistoryTold, [Next]_vars
  PROVE  HistoryTold'
<1> DEFINE Tells(case) == LastStatus(case.history, case.status)
           Agrees(case) ==
             /\ case.status = "closed" <=> case.closedAt # Never
             /\ \A item \in Items : item \in {k.item : k \in case.evidence}
                                      <=> LastAdded(case.history, item)
<1>0. overlapped \subseteq overlapped'
  BY ServiceStep DEF Asked, ServiceKept
<1>1. SUFFICES ASSUME NEW c \in DOMAIN cases'
               PROVE  /\ Tells(cases'[c])
                      /\ c \notin overlapped' => Agrees(cases'[c])
  BY DEF HistoryTold, Linked
<1>2. ASSUME NEW d \in DOMAIN cases
      PROVE  Tells(cases[d]) /\ (d \notin overlapped => Agrees(cases[d]))
  BY DEF HistoryTold, Linked
<1>3. ASSUME c \in DOMAIN cases, cases'[c] = cases[c]
      PROVE  Tells(cases'[c]) /\ (c \notin overlapped' => Agrees(cases'[c]))
  BY <1>0, <1>2, <1>3
<1>4. CASE Fewer
  BY <1>3, <1>4 DEF Fewer
<1>5. ASSUME NEW t \in Threads, Inserted(t)
      PROVE  Tells(cases'[c]) /\ (c \notin overlapped' => Agrees(cases'[c]))
  <2>1. CASE c # req[t].case
    BY <1>3, <1>5, <2>1 DEF Inserted
  <2>2. CASE c = req[t].case
    <3> DEFINE new == NewCase(req[t].status)
               h == new.history
    <3>1. /\ cases'[c] = new /\ new.status = req[t].status /\ new.evidence = {}
          /\ new.closedAt = (IF new.status = "closed" THEN clock ELSE Never)
          /\ DOMAIN h = {1} /\ h[1].status = new.status /\ h[1].item = NoItem
      BY <1>5, <2>2 DEF Inserted, NewCase
    <3> HIDE DEF new
    <3>2. LastStatus(h, new.status)
      BY <3>1 DEF LastStatus
    <3>3. \A item \in Items : ~ LastAdded(h, item)
      BY <3>1, NamesAssumption DEF LastAdded
    <3>4. new.status = "closed" <=> new.closedAt # Never
      BY <3>1 DEF Never, ValuesOK
    <3> QED
      BY <3>1, <3>2, <3>3, <3>4
  <2> QED
    BY <2>1, <2>2
<1>6. ASSUME NEW t \in Threads, NEW d \in DOMAIN cases, NEW e \in Entries, Edited(t, d, e)
      PROVE  Tells(cases'[c]) /\ (c \notin overlapped' => Agrees(cases'[c]))
  <2>0. c \in DOMAIN cases
    BY <1>6 DEF Edited
  <2>1. CASE c # d
    BY <1>3, <1>6, <2>0, <2>1 DEF Edited
  <2>2. CASE c = d
    <3> DEFINE old == cases[c]
               new == cases'[c]
    <3>1. /\ old \in CaseRows /\ old.history \in Seq(Entries) /\ old.status \in Statuses
          /\ new.history = Append(old.history, e)
          /\ e.status \in Statuses \cup {KeepStatus} /\ e.action \in Operations
      BY <1>6, <2>0, <2>2 DEF ValuesOK, CaseRows, Edited, Entries
    <3>2. Tells(old) /\ (c \notin overlapped' => Agrees(old))
      BY <1>0, <1>2, <2>0
    <3>3. \/ e.status = KeepStatus /\ new.status = old.status
          \/ e.status = new.status
      BY <1>6, <2>2 DEF Edited
    <3>4. Tells(new)
      BY <3>1, <3>2, <3>3, StatusLogged
    <3>5. ASSUME c \notin overlapped'
          PROVE  new.status = "closed" <=> new.closedAt # Never
      <4>1. old.status = "closed" <=> old.closedAt # Never
        BY <3>2, <3>5
      <4>2. CASE e.action # "update"
        BY <1>6, <2>2, <4>1, <4>2 DEF Edited
      <4>3. CASE e.action = "update"
        <5>1. req[t].was = old.status
          BY <1>0, <1>6, <2>0, <2>2, <3>5, <4>3 DEF ReadsHold, Edited, Writing
        <5>2. /\ new.status = (IF e.status = KeepStatus THEN old.status ELSE e.status)
              /\ new.closedAt =
                   (IF e.status = "closed" /\ req[t].was # "closed" THEN clock
                    ELSE IF e.status \notin {"closed", KeepStatus} /\ req[t].was = "closed"
                    THEN Never ELSE old.closedAt)
          BY <1>6, <2>2, <4>3 DEF Edited
        <5>3. clock # Never
          BY DEF ValuesOK, Never
        <5> HIDE DEF old, new
        <5> QED
          BY <4>1, <5>1, <5>2, <5>3 DEF KeepStatus
      <4> QED
        BY <4>2, <4>3
    <3>6. ASSUME c \notin overlapped', NEW item \in Items
          PROVE  item \in {k.item : k \in new.evidence} <=> LastAdded(new.history, item)
      <4>0. item \in {k.item : k \in old.evidence} <=> LastAdded(old.history, item)
        BY <3>2, <3>6
      <4>1. LastAdded(new.history, item)
              <=> IF e.item = item THEN e.action = "evidence_add"
                  ELSE LastAdded(old.history, item)
        BY <3>1, ItemLogged
      <4>2. CASE e.action = "evidence_add"
        <5>1. new.evidence = old.evidence \cup {[row |-> nextRow, item |-> e.item]}
          BY <1>6, <2>2, <4>2 DEF Edited
        <5> DEFINE link == [row |-> nextRow, item |-> e.item]
        <5>2. link.item = e.item
          OBVIOUS
        <5> HIDE DEF old, new, link
        <5>3. item \in {k.item : k \in new.evidence}
                <=> item \in {k.item : k \in old.evidence} \/ item = e.item
          <6>1. new.evidence = old.evidence \cup {link}
            BY <5>1 DEF link
          <6> QED
            BY <5>2, <6>1
        <5> QED
          BY <4>0, <4>1, <4>2, <5>3
      <4>3. CASE e.action = "evidence_remove"
        <5> DEFINE link == req[t].link
        <5>1. link \in old.evidence
          BY <1>0, <1>6, <2>0, <2>2, <3>6, <4>3 DEF ReadsHold, Edited, Writing
        <5>2. e.item = link.item /\ new.evidence = {k \in old.evidence : k.row # link.row}
          BY <1>6, <2>2, <4>3 DEF Edited
        <5>3. \A k, f \in old.evidence : (k.row = f.row \/ k.item = f.item) => k = f
          BY <2>0 DEF RowsOK
        <5> HIDE DEF old, new, link
        <5>4. item \in {k.item : k \in new.evidence}
                <=> item \in {k.item : k \in old.evidence} /\ item # e.item
          BY <5>1, <5>2, <5>3
        <5> QED
          BY <4>0, <4>1, <4>3, <5>4
      <4>4. CASE e.action \notin {"evidence_add", "evidence_remove"}
        <5>1. new.evidence = old.evidence
          BY <1>6, <2>2, <4>4 DEF Edited
        <5>2. e.item = NoItem
          BY <1>6, <3>1, <4>4 DEF Edited, Operations, Writing
        <5> HIDE DEF old, new
        <5> QED
          BY <4>0, <4>1, <5>1, <5>2, NamesAssumption
      <4> QED
        BY <4>2, <4>3, <4>4
    <3> QED
      BY <3>4, <3>5, <3>6
  <2> QED
    BY <2>1, <2>2
<1> QED
  BY <1>4, <1>5, <1>6, CasesStep

-----------------------------------------------------------------------------
(* Audit rows: each is owed to an entry of the history.                      *)

LEMMA TellingFinite ==
  ASSUME NEW c, NEW action
  PROVE  IsFiniteSet(Telling(c, action)) /\ Cardinality(Telling(c, action)) \in Nat
BY ThreadSets DEF Telling

LEMMA AuditedFinite ==
  ASSUME AuditOK, NEW c, NEW action
  PROVE  IsFiniteSet(Audited(c, action)) /\ Cardinality(Audited(c, action)) \in Nat
BY FS_Subset, FS_CardinalityType DEF Audited, AuditOK

LEMMA LoggedFinite ==
  ASSUME ValuesOK, NEW c \in DOMAIN cases, NEW action
  PROVE  IsFiniteSet(Logged(c, action)) /\ Cardinality(Logged(c, action)) \in Nat
<1>1. cases[c].history \in Seq(Entries)
  BY DEF ValuesOK, CaseRows
<1>2. IsFiniteSet(DOMAIN cases[c].history)
  <2>1. PICK n \in Nat : DOMAIN cases[c].history = 1..n
    BY <1>1, LenProperties
  <2>2. IsFiniteSet(1..n)
    BY FS_Interval
  <2> QED
    BY <2>1, <2>2
<1> QED
  BY <1>2, FS_Subset, FS_CardinalityType DEF Logged

(* Nothing more is owed for a case the step leaves alone.                    *)
LEMMA TellingSame ==
  ASSUME ValuesOK, AuditOK, EntriesKept,
         NEW c \in DOMAIN cases, NEW action \in Told,
         cases'[c].history = cases[c].history,
         Telling(c, action)' \subseteq Telling(c, action),
         Audited(c, action)' \subseteq Audited(c, action)
  PROVE  Cardinality(Audited(c, action)') + Cardinality(Telling(c, action)')
           <= Cardinality(Logged(c, action)')
<1>1. Logged(c, action)' = Logged(c, action)
  BY DEF Logged
<1>2. /\ IsFiniteSet(Telling(c, action)) /\ Cardinality(Telling(c, action)) \in Nat
      /\ IsFiniteSet(Audited(c, action)) /\ Cardinality(Audited(c, action)) \in Nat
      /\ Cardinality(Logged(c, action)) \in Nat
  BY TellingFinite, AuditedFinite, LoggedFinite
<1>3. /\ Cardinality(Telling(c, action)') <= Cardinality(Telling(c, action))
      /\ Cardinality(Telling(c, action)') \in Nat
  BY <1>2, FS_Subset, FS_CardinalityType
<1>4. /\ Cardinality(Audited(c, action)') <= Cardinality(Audited(c, action))
      /\ Cardinality(Audited(c, action)') \in Nat
  BY <1>2, FS_Subset, FS_CardinalityType
<1> QED
  BY <1>1, <1>2, <1>3, <1>4 DEF EntriesKept

(* A thread that goes on with its request tells of what it told of before;
   it comes to tell of a change only by writing it.                          *)
LEMMA TellingMoved ==
  ASSUME ValuesOK, NEW t \in Threads, NEW p, Moves(t, p), NEW c, NEW action,
         \/ req[t].pc \in {"answer", "stamp", "audit"}
         \/ req[t].op # action
         \/ req[t].case # c
  PROVE  Telling(c, action)' \subseteq Telling(c, action)
BY Moved DEF Telling, ValuesOK

LEMMA EntriesStep ==
  ASSUME ValuesOK, RequestsOK, AuditOK, CreatedAlone, EntriesKept, [Next]_vars
  PROVE  EntriesKept'
<1> DEFINE Owed(c, action) ==
             Cardinality(Audited(c, action)') + Cardinality(Telling(c, action)')
               <= Cardinality(Logged(c, action)')
<1>0. req \in [Threads -> {Idle} \cup Work] /\ Told \subseteq Operations \ {"evidence_add"}
  BY DEF ValuesOK, Told, Operations
<1>1. SUFFICES ASSUME NEW c \in DOMAIN cases', NEW action \in Told
               PROVE  Owed(c, action)
  BY DEF EntriesKept
<1>2. ASSUME c \in DOMAIN cases, cases'[c].history = cases[c].history,
             Telling(c, action)' \subseteq Telling(c, action), UNCHANGED audit
      PROVE  Owed(c, action)
  <2>1. Audited(c, action)' = Audited(c, action)
    BY <1>2 DEF Audited
  <2> QED
    BY <1>2, <2>1, TellingSame
<1>3. ASSUME NEW t \in Threads, NEW q \in Work, Asked(t, q)
      PROVE  Owed(c, action)
  <2>1. c \in DOMAIN cases /\ cases'[c] = cases[c] /\ audit' = audit
    BY <1>3, AskedFewer DEF Fewer, Asked
  <2>2. /\ req'[t] = q /\ \A u \in Threads \ {t} : req'[u] = req[u]
        /\ q.pc = "write" \/ (q.pc = "answer" /\ q.op = "evidence_add")
    BY <1>0, <1>3, Taken DEF Asked
  <2>3. Telling(c, action)' \subseteq Telling(c, action)
    BY <1>0, <2>2 DEF Telling
  <2> QED
    BY <1>2, <2>1, <2>3
<1>4. ASSUME NEW t \in Threads, Inserted(t)
      PROVE  Owed(c, action)
  <2>1. CASE c # req[t].case
    <3>1. c \in DOMAIN cases /\ cases'[c] = cases[c] /\ audit' = audit
      BY <1>0, <1>4, <2>1, Moved DEF Inserted
    <3>2. Telling(c, action)' \subseteq Telling(c, action)
      BY <1>4, <2>1, TellingMoved DEF Inserted
    <3> QED
      BY <1>2, <3>1, <3>2
  <2>2. CASE c = req[t].case
    <3>1. /\ \A u \in Threads \ {t} : ~ Serves(u, c)
          /\ \A r \in audit.rows : r.action # PruneAction => r.target # c
      BY <1>4, <2>2 DEF CreatedAlone, Inserted
    <3>2. /\ audit' = audit /\ req'[t].op = "create"
          /\ \A u \in Threads \ {t} : req'[u] = req[u]
      BY <1>0, <1>4, Moved DEF Inserted, Writing
    <3>3. Audited(c, action)' = {}
      BY <3>1, <3>2 DEF Audited, Told, PruneAction
    <3>4. Telling(c, action)' \subseteq (IF action = "create" THEN {t} ELSE {})
      BY <3>1, <3>2 DEF Telling, Serves, Busy
    <3>5. action = "create" => Logged(c, action)' = {1}
      BY <1>4, <2>2 DEF Logged, Inserted, NewCase
    <3>6. Cardinality({}) = 0 /\ Cardinality({t}) = 1 /\ Cardinality({1}) = 1
      BY FS_EmptySet, FS_Singleton
    <3>7. CASE action = "create"
      <4>1. Telling(c, action)' = {} \/ Telling(c, action)' = {t}
        BY <3>4, <3>7
      <4> QED
        BY <3>3, <3>5, <3>6, <3>7, <4>1
    <3>8. CASE action # "create"
      <4>1. Telling(c, action)' = {}
        BY <3>4, <3>8
      <4>2. cases'[c].history \in Seq(Entries)
        BY <1>4, ValuesStep DEF ValuesOK, CaseRows
      <4>3. Cardinality(Logged(c, action)') \in Nat
        <5>1. IsFiniteSet(DOMAIN cases'[c].history)
          <6>1. /\ DOMAIN cases'[c].history = 1..Len(cases'[c].history)
                /\ Len(cases'[c].history) \in Nat
            BY <4>2, LenProperties
          <6> QED
            BY <6>1, FS_Interval
        <5> QED
          BY <5>1, FS_Subset, FS_CardinalityType DEF Logged
      <4> QED
        BY <3>3, <3>6, <4>1, <4>3
    <3> QED
      BY <3>7, <3>8
  <2> QED
    BY <2>1, <2>2
<1>5. ASSUME NEW t \in Threads, NEW d \in DOMAIN cases, NEW e \in Entries, Edited(t, d, e)
      PROVE  Owed(c, action)
  <2>0. c \in DOMAIN cases /\ audit' = audit /\ req[t].case = d /\ req[t].op = e.action
    BY <1>0, <1>5, Moved DEF Edited, Writing
  <2>1. CASE c # d
    <3>1. cases'[c] = cases[c]
      BY <1>5, <2>0, <2>1 DEF Edited
    <3>2. Telling(c, action)' \subseteq Telling(c, action)
      BY <1>5, <2>0, <2>1, TellingMoved DEF Edited
    <3> QED
      BY <1>2, <2>0, <3>1, <3>2
  <2>2. CASE c = d
    <3> DEFINE h == cases[c].history
               n == Len(h) + 1
    <3>1. h \in Seq(Entries) /\ cases'[c].history = Append(h, e)
      BY <1>5, <2>0, <2>2 DEF ValuesOK, CaseRows, Edited
    <3>2. /\ DOMAIN cases'[c].history = 1..n /\ DOMAIN h = 1..Len(h) /\ Len(h) \in Nat
          /\ cases'[c].history[n] = e
          /\ \A i \in 1..Len(h) : cases'[c].history[i] = h[i]
      BY <3>1, OneMoreEntry
    <3>3. /\ IsFiniteSet(Telling(c, action)) /\ Cardinality(Telling(c, action)) \in Nat
          /\ IsFiniteSet(Logged(c, action)) /\ Cardinality(Logged(c, action)) \in Nat
          /\ Cardinality(Audited(c, action)) \in Nat
      BY <2>0, TellingFinite, LoggedFinite, AuditedFinite
    <3>4. Audited(c, action)' = Audited(c, action)
      BY <2>0 DEF Audited
    <3>5. Cardinality(Audited(c, action)) + Cardinality(Telling(c, action))
            <= Cardinality(Logged(c, action))
      BY <2>0 DEF EntriesKept
    <3>6. CASE e.action = action
      <4>1. Logged(c, action)' = Logged(c, action) \cup {n} /\ n \notin Logged(c, action)
        <5> DEFINE g == cases'[c].history
        <5>1. /\ Logged(c, action) = {i \in 1..Len(h) : h[i].action = action}
              /\ Logged(c, action)' = {i \in 1..n : g[i].action = action}
          BY <3>2 DEF Logged
        <5>2. /\ g[n].action = action /\ \A i \in 1..Len(h) : g[i] = h[i]
              /\ 1..n = 1..Len(h) \cup {n} /\ n \notin 1..Len(h)
          BY <3>2, <3>6
        <5> HIDE DEF g, n, h
        <5> QED
          BY <5>1, <5>2
      <4>2. Cardinality(Logged(c, action)') = Cardinality(Logged(c, action)) + 1
        BY <3>3, <4>1, FS_AddElement
      <4>3. Telling(c, action)' \in SUBSET (Telling(c, action) \cup {t})
        BY <1>0, <1>5, Moved DEF Edited, Telling
      <4>4. /\ IsFiniteSet(Telling(c, action) \cup {t})
            /\ Cardinality(Telling(c, action) \cup {t}) \in Nat
            /\ Cardinality(Telling(c, action) \cup {t}) <= Cardinality(Telling(c, action)) + 1
        BY <3>3, OneMore
      <4>5. /\ Cardinality(Telling(c, action)') <= Cardinality(Telling(c, action) \cup {t})
            /\ Cardinality(Telling(c, action)') \in Nat
        BY <4>3, <4>4, FS_Subset, FS_CardinalityType
      <4> QED
        BY <3>3, <3>4, <3>5, <4>2, <4>4, <4>5
    <3>7. CASE e.action # action
      <4>1. Logged(c, action)' = Logged(c, action)
        BY <3>2, <3>7, SMTT(30) DEF Logged
      <4>2. Telling(c, action)' \in SUBSET Telling(c, action)
        BY <1>5, <2>0, <3>7, TellingMoved DEF Edited
      <4>3. /\ Cardinality(Telling(c, action)') <= Cardinality(Telling(c, action))
            /\ Cardinality(Telling(c, action)') \in Nat
        BY <3>3, <4>2, FS_Subset, FS_CardinalityType
      <4> QED
        BY <3>3, <3>4, <3>5, <4>1, <4>3
    <3> QED
      BY <3>6, <3>7
  <2> QED
    BY <2>1, <2>2
<1>6. ASSUME NEW t \in Threads, Deleted(t)
      PROVE  Owed(c, action)
  <2>1. c \in DOMAIN cases /\ cases'[c] = cases[c] /\ audit' = audit /\ req[t].case # c
    BY <1>0, <1>6, DeletedFewer, Moved DEF Fewer, Deleted
  <2>2. Telling(c, action)' \subseteq Telling(c, action)
    BY <1>6, <2>1, TellingMoved DEF Deleted
  <2> QED
    BY <1>2, <2>1, <2>2
<1>7. ASSUME NEW t \in Threads, Advanced(t)
      PROVE  Owed(c, action)
  <2>1. c \in DOMAIN cases /\ cases'[c] = cases[c] /\ audit' = audit
    BY <1>0, <1>7, Moved DEF Advanced
  <2>2. Telling(c, action)' \subseteq Telling(c, action)
    BY <1>0, <1>7, TellingMoved DEF Advanced, Writing
  <2> QED
    BY <1>2, <2>1, <2>2
<1>8. ASSUME NEW t \in Threads, Nameless(t)
      PROVE  Owed(c, action)
  <2>1. c \in DOMAIN cases /\ cases'[c] = cases[c] /\ audit' = audit
    BY <1>8 DEF Nameless
  <2>2. c # NoCase
    BY <2>1, NamesAssumption DEF ValuesOK
  <2>3. Telling(c, action)' \subseteq Telling(c, action)
    BY <1>0, <1>8, <2>2, Taken DEF Nameless, Telling
  <2> QED
    BY <1>2, <2>1, <2>3
<1>9. ASSUME NEW t \in Threads, Dropped(t)
      PROVE  Owed(c, action)
  <2>1. c \in DOMAIN cases /\ cases'[c] = cases[c] /\ audit' = audit
    BY <1>9 DEF Dropped
  <2>2. req'[t] = Idle /\ \A u \in Threads \ {t} : req'[u] = req[u]
    BY <1>0, <1>9, Taken DEF Dropped
  <2>3. Telling(c, action)' \subseteq Telling(c, action)
    BY <2>2 DEF Telling, Idle
  <2> QED
    BY <1>2, <2>1, <2>3
<1>10. ASSUME NEW t \in Threads, Record(t)
       PROVE  Owed(c, action)
  <2>1. c \in DOMAIN cases /\ cases'[c] = cases[c] /\ req[t].pc = "audit" /\ Takes(t, Idle)
    BY <1>10, RecordEffect DEF Record
  <2>2. req'[t] = Idle /\ \A u \in Threads \ {t} : req'[u] = req[u]
    BY <1>0, <2>1, Taken
  <2>3. Telling(c, action)' = Telling(c, action) \ {t}
    BY <2>2 DEF Telling, Idle
  <2>4. PruneEntry.action \notin Told
    BY DEF PruneEntry, PruneAction, Told
  <2>5. CASE req[t].op = action /\ req[t].case = c
    <3>1. t \in Telling(c, action)
      BY <2>1, <2>5 DEF Telling
    <3>2. Audited(c, action)' \in SUBSET (Audited(c, action) \cup {Entry(t)})
      BY <1>10, <2>4, RecordedRows DEF Audited
    <3>3. /\ IsFiniteSet(Telling(c, action)) /\ Cardinality(Telling(c, action)) \in Nat
          /\ IsFiniteSet(Audited(c, action)) /\ Cardinality(Audited(c, action)) \in Nat
          /\ Cardinality(Logged(c, action)) \in Nat
      BY <2>1, TellingFinite, AuditedFinite, LoggedFinite
    <3>4. Cardinality(Telling(c, action)') = Cardinality(Telling(c, action)) - 1
      BY <2>3, <3>1, <3>3, FS_RemoveElement
    <3>5. /\ IsFiniteSet(Audited(c, action) \cup {Entry(t)})
          /\ Cardinality(Audited(c, action) \cup {Entry(t)}) \in Nat
          /\ Cardinality(Audited(c, action) \cup {Entry(t)}) <= Cardinality(Audited(c, action)) + 1
      BY <3>3, OneMore
    <3>6. /\ Cardinality(Audited(c, action)') <= Cardinality(Audited(c, action) \cup {Entry(t)})
          /\ Cardinality(Audited(c, action)') \in Nat
      BY <3>2, <3>5, FS_Subset, FS_CardinalityType
    <3>7. Logged(c, action)' = Logged(c, action)
      BY <2>1 DEF Logged
    <3>8. Cardinality(Audited(c, action)) + Cardinality(Telling(c, action))
            <= Cardinality(Logged(c, action))
      BY <2>1 DEF EntriesKept
    <3> QED
      BY <3>3, <3>4, <3>5, <3>6, <3>7, <3>8
  <2>6. CASE ~ (req[t].op = action /\ req[t].case = c)
    <3>1. ~ (Entry(t).action = action /\ Entry(t).target = c)
      BY <2>6 DEF Entry
    <3>2. Audited(c, action)' \subseteq Audited(c, action)
      BY <1>10, <2>4, <3>1, RecordedRows DEF Audited
    <3> QED
      BY <2>1, <2>3, <3>2, TellingSame
  <2> QED
    BY <2>5, <2>6
<1>11. ASSUME PruneCases \/ Tick \/ UNCHANGED vars
       PROVE  Owed(c, action)
  <2>1. c \in DOMAIN cases /\ cases'[c] = cases[c] /\ audit' = audit /\ req' = req
    BY <1>11, PrunedFewer DEF Fewer, PruneCases, Tick, vars
  <2>2. Telling(c, action)' = Telling(c, action)
    BY <2>1 DEF Telling
  <2> QED
    BY <1>2, <2>1, <2>2
<1> HIDE DEF Owed
<1> QED
  BY <1>3, <1>4, <1>5, <1>6, <1>7, <1>8, <1>9, <1>10, <1>11, StepEffect DEF Step

(* Lost rows are told of, and the row bound holds but for the telling row.   *)
LEMMA LossStep ==
  ASSUME ValuesOK, AuditOK, LossTold, [Next]_vars
  PROVE  LossTold'
<1>0. audit.next \in Nat /\ AuditRows \in Nat
  BY AuditLimits DEF AuditOK
<1>1. CASE UNCHANGED audit
  BY <1>1 DEF LossTold
<1>2. ASSUME NEW t \in Threads, Record(t)
      PROVE  LossTold'
  <2>1. PICK kept \in SUBSET (audit.rows \cup {Entry(t)}) :
          /\ AuditRows > 0 => Cardinality(kept) <= AuditRows
          /\ \/ /\ kept = audit.rows \cup {Entry(t)}
                /\ audit' = [rows |-> kept, next |-> audit.next + 1]
             \/ audit' = [rows |-> kept \cup {PruneEntry}, next |-> audit.next + 2]
    BY <1>2, RecordEffect
  <2>2. IsFiniteSet(kept)
    <3>1. IsFiniteSet(audit.rows \cup {Entry(t)})
      BY FS_AddElement DEF AuditOK
    <3> QED
      BY <3>1, FS_Subset
  <2>3. CASE /\ kept = audit.rows \cup {Entry(t)}
             /\ audit' = [rows |-> kept, next |-> audit.next + 1]
    <3>1. audit'.rows = kept /\ audit'.next = audit.next + 1 /\ Entry(t).id = audit.next
      BY <2>3 DEF Entry
    <3>2. ASSUME NEW i \in 1..(audit'.next - 1), \A r \in audit'.rows : r.id # i
          PROVE  \E r \in audit'.rows : r.action = PruneAction
      <4>1. i # audit.next
        BY <2>3, <3>1, <3>2
      <4>2. i \in 1..(audit.next - 1)
        BY <1>0, <3>1, <4>1
      <4>3. \A r \in audit.rows : r.id # i
        BY <2>3, <3>1, <3>2
      <4> QED
        BY <2>3, <3>1, <4>2, <4>3 DEF LossTold
    <3>3. AuditRows > 0 => Cardinality(audit'.rows) <= AuditRows + 1
      BY <1>0, <2>1, <2>2, <3>1, FS_CardinalityType
    <3> QED
      BY <3>2, <3>3 DEF LossTold
  <2>4. CASE audit' = [rows |-> kept \cup {PruneEntry}, next |-> audit.next + 2]
    <3>1. audit'.rows = kept \cup {PruneEntry}
      BY <2>4
    <3>2. PruneEntry.action = PruneAction
      BY DEF PruneEntry
    <3>3. AuditRows > 0 => Cardinality(audit'.rows) <= AuditRows + 1
      <4>1. /\ Cardinality(audit'.rows) <= Cardinality(kept) + 1
            /\ Cardinality(audit'.rows) \in Nat /\ Cardinality(kept) \in Nat
        BY <2>2, <3>1, OneMore
      <4> QED
        BY <1>0, <2>1, <4>1
    <3> QED
      BY <3>1, <3>2, <3>3 DEF LossTold
  <2> QED
    BY <2>1, <2>3, <2>4
<1> QED
  BY <1>1, <1>2, AuditRemains

-----------------------------------------------------------------------------
LEMMA CaseInvInit ==
  ASSUME Init
  PROVE  CaseInv
<1>1. /\ DOMAIN cases = {} /\ audit.rows = {} /\ audit.next = 1
      /\ audit = [rows |-> audit.rows, next |-> audit.next]
      /\ \A t \in Threads : req[t].pc = "idle"
  BY DEF Init, EmptyAudit, Idle
<1>2. IsFiniteSet({}) /\ Cardinality({}) = 0
  BY FS_EmptySet
<1>3. ValuesOK
  BY InitValues
<1>4. RowsOK /\ RequestsOK /\ AuditOK
  BY <1>1, <1>2 DEF RowsOK, RequestsOK, AuditOK, Busy
<1>5. CreatedAlone /\ Overlaps /\ ReadsHold
  BY <1>1 DEF CreatedAlone, Overlaps, ReadsHold, Writing, Busy
<1>6. PlacesKept /\ HistoryTold /\ EntriesKept
  BY <1>1, <1>2, CaseAssumption DEF PlacesKept, HistoryTold, EntriesKept
<1>7. LossTold
  BY <1>1, <1>2, AuditLimits DEF LossTold
<1> QED
  BY <1>3, <1>4, <1>5, <1>6, <1>7 DEF CaseInv

LEMMA CaseInvStep ==
  ASSUME CaseInv, [Next]_vars
  PROVE  CaseInv'
<1>1. /\ ValuesOK /\ RowsOK /\ RequestsOK /\ AuditOK /\ CreatedAlone /\ Overlaps
      /\ ReadsHold /\ PlacesKept /\ HistoryTold /\ EntriesKept /\ LossTold
  BY DEF CaseInv
<1>2. ValuesOK' /\ RowsOK' /\ RequestsOK' /\ AuditOK'
  BY <1>1, ValuesStep, RowsStep, RequestsStep, AuditStep
<1>3. CreatedAlone' /\ Overlaps' /\ ReadsHold'
  BY <1>1, CreatedAloneStep, OverlapsStep, ReadsStep
<1>4. PlacesKept' /\ HistoryTold' /\ EntriesKept' /\ LossTold'
  BY <1>1, PlacesStep, HistoryStep, EntriesStep, LossStep
<1> QED
  BY <1>2, <1>3, <1>4 DEF CaseInv

(* The inductive invariant holds in every reachable state.                   *)
THEOREM CaseInvHolds == Spec => []CaseInv
<1>1. Init => CaseInv
  BY CaseInvInit
<1>2. CaseInv /\ [Next]_vars => CaseInv'
  BY CaseInvStep
<1> QED
  BY <1>1, <1>2, PTL DEF Spec

(* Cases, requests and audit rows stay well formed, whichever requests cross
   (the case handlers of app.py, store.py). *)
THEOREM TypesHold == Spec => []TypeOK
<1>1. CaseInv => TypeOK
  <2> SUFFICES ASSUME CaseInv PROVE TypeOK
    OBVIOUS
  <2>1. ASSUME NEW c \in DOMAIN cases
        PROVE  /\ cases[c].status \in Statuses /\ cases[c].closedAt \in 0..clock
               /\ cases[c].notes \in Nat /\ Len(cases[c].history) >= 1
               /\ \A e \in cases[c].evidence : e.row < nextRow /\ e.item \in Items
    <3>1. /\ cases[c] \in CaseRows /\ clock \in Nat /\ cases[c].closedAt <= clock
          /\ Len(cases[c].history) >= 1
          /\ \A e \in cases[c].evidence : e.row < nextRow
      BY DEF CaseInv, ValuesOK, RowsOK
    <3>2. /\ cases[c].status \in Statuses /\ cases[c].closedAt \in Nat /\ cases[c].notes \in Nat
          /\ \A e \in cases[c].evidence : e.item \in Items
      BY <3>1 DEF CaseRows, Links
    <3> QED
      BY <3>1, <3>2
  <2>2. ASSUME NEW t \in Threads
        PROVE  req[t].pc \in {"idle", "write", "answer", "stamp", "audit"}
    <3>1. req[t] \in {Idle} \cup Work /\ Idle.pc = "idle"
      BY DEF CaseInv, ValuesOK, Idle
    <3> QED
      BY <3>1, WorkFields DEF Early
  <2> QED
    BY <2>1, <2>2 DEF TypeOK, CaseInv, ValuesOK, AuditOK
<1> QED
  BY <1>1, CaseInvHolds, PTL

(* Never more cases than AEGIS_MAX_CASES; evidence and notes pass their limits
   by the other threads' requests at most (store.py: create_case,
   add_case_evidence, add_case_note). *)
THEOREM LimitsAreHeld == Spec => []LimitsHeld
<1>1. CaseInv => LimitsHeld
  <2> SUFFICES ASSUME CaseInv PROVE LimitsHeld
    OBVIOUS
  <2>1. Cardinality(DOMAIN cases) <= MaxCases
    BY DEF CaseInv, PlacesKept
  <2>2. ASSUME NEW c \in DOMAIN cases
        PROVE  /\ Cardinality(cases[c].evidence) <= MaxEvidence + Cardinality(Threads) - 1
               /\ cases[c].notes <= MaxNotes + Cardinality(Threads) - 1
    <3>1. /\ Cardinality(cases[c].evidence) \in Nat /\ cases[c].notes \in Nat
          /\ MaxEvidence \in Nat /\ MaxNotes \in Nat /\ Cardinality(Threads) \in Nat
      BY CaseAssumption, FS_CardinalityType DEF CaseInv, RowsOK, ValuesOK, CaseRows
    <3>2. /\ Cardinality(Adding("evidence_add", c)) \in Nat
          /\ Cardinality(Adding("note_add", c)) \in Nat
      BY ThreadSets DEF Adding
    <3>3. /\ Cardinality(cases[c].evidence) + Cardinality(Adding("evidence_add", c))
               <= MaxEvidence + Cardinality(Threads) - 1
          /\ cases[c].notes + Cardinality(Adding("note_add", c))
               <= MaxNotes + Cardinality(Threads) - 1
      BY DEF CaseInv, PlacesKept
    <3> QED
      BY <3>1, <3>2, <3>3
  <2> QED
    BY <2>1, <2>2 DEF LimitsHeld
<1> QED
  BY <1>1, CaseInvHolds, PTL

(* A case's history tells its present status, and, where no requests crossed,
   its links and whether it is closed (store.py: _case_log and its callers). *)
THEOREM HistoryIsTold == Spec => []HistoryTold
<1>1. CaseInv => HistoryTold
  BY DEF CaseInv
<1> QED
  BY <1>1, CaseInvHolds, PTL

(* The audit log tells of nothing that did not happen to a case that exists,
   and of every loss of its own rows (app.py: record_audit;
   operator_audit.py: _enforce_retention). *)
THEOREM AuditIsTold == Spec => []AuditTold
<1>1. CaseInv => AuditTold
  <2> SUFFICES ASSUME CaseInv PROVE AuditTold
    OBVIOUS
  <2>1. ASSUME NEW c \in DOMAIN cases, NEW action \in Told
        PROVE  Cardinality(Audited(c, action)) <= Cardinality(Logged(c, action))
    <3>1. /\ Cardinality(Audited(c, action)) \in Nat /\ Cardinality(Telling(c, action)) \in Nat
          /\ Cardinality(Logged(c, action)) \in Nat
      BY TellingFinite, AuditedFinite, LoggedFinite DEF CaseInv
    <3>2. Cardinality(Audited(c, action)) + Cardinality(Telling(c, action))
            <= Cardinality(Logged(c, action))
      BY DEF CaseInv, EntriesKept
    <3> QED
      BY <3>1, <3>2
  <2> QED
    BY <2>1 DEF AuditTold, CaseInv, LossTold, Told
<1> QED
  BY <1>1, CaseInvHolds, PTL
=============================================================================
