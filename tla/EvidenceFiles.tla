--------------------------- MODULE EvidenceFiles ----------------------------
(***************************************************************************)
(* PCAP evidence (pcap.py): each artifact is a file and a row that refers  *)
(* to it, written in that order and without a transaction over both.  A    *)
(* save ends by pruning what is expired and what exceeds the number of     *)
(* files kept; there the file goes first and the row's deletion is         *)
(* committed at the end.  Deleting a session takes its rows along.         *)
(***************************************************************************)
EXTENDS Threads, Naturals, FiniteSets

CONSTANTS
  Sessions, None,
  MaxFiles,    \* AEGIS_PCAP_MAX_FILES
  Retention,   \* AEGIS_PCAP_RETENTION_DAYS, in days of the clock
  MaxSaves,    \* bound: artifacts offered
  MaxCrashes,  \* bound: crashes of the collector
  MaxDays     \* bound: values of the clock

ASSUME EvidenceAssumption ==
  /\ MaxFiles \in Nat \ {0}
  /\ {Retention, MaxSaves, MaxCrashes, MaxDays} \subseteq Nat
  /\ None \notin Workers

VARIABLES
  today,      \* the day, by the collector's clock
  sessions,   \* ids in the sessions table
  rows,       \* committed rows of pcap_evidence
  files,      \* artifacts whose file is in place
  temps,      \* artifacts whose temporary file exists
  job,        \* job[w]: what worker w is doing
  writer,     \* worker that holds the database's write lock, None if free
  saves, crashes,
  abandoned,  \* history: artifacts whose save a crash cut off
  cascaded,   \* history: artifacts whose row went with its session
  cutOff      \* history: artifacts whose removal was rolled back after their file went

evidenceVars == <<today, sessions, rows, files, temps, job, writer, saves, crashes,
                  abandoned, cascaded, cutOff>>

Artifacts == 1..MaxSaves
Phases == {"idle", "writing", "moving", "moved", "expiring", "trimming"}

(* list: ids this prune has still to remove; gone: ids it has removed and    *)
(* not committed yet.                                                        *)
Idle == [phase |-> "idle", id |-> 0, session |-> None, at |-> 0, list |-> {}, gone |-> {}]

EvidenceInit ==
  /\ today = 0
  /\ sessions = Sessions
  /\ rows = {} /\ files = {} /\ temps = {}
  /\ job = [w \in Workers |-> Idle]
  /\ writer = None
  /\ saves = 0 /\ crashes = 0
  /\ abandoned = {} /\ cascaded = {} /\ cutOff = {}

Ids(rs) == {r.id : r \in rs}

(* save: a valid artifact of a session that exists is stamped and named.     *)
BeginSave(w) ==
  /\ job[w].phase = "idle"
  /\ saves < MaxSaves
  /\ \E s \in sessions :
       job' = [job EXCEPT ![w] = [Idle EXCEPT !.phase = "writing", !.id = saves + 1,
                                             !.session = s, !.at = today]]
  /\ saves' = saves + 1
  /\ UNCHANGED <<today, sessions, rows, files, temps, writer, crashes, abandoned, cascaded, cutOff>>

(* The bytes go to a temporary file; when that fails the file is removed.    *)
WriteTemporary(w) ==
  /\ job[w].phase = "writing"
  /\ \/ /\ temps' = temps \cup {job[w].id}
        /\ job' = [job EXCEPT ![w].phase = "moving"]
     \/ /\ job' = [job EXCEPT ![w] = Idle]
        /\ UNCHANGED temps
  /\ UNCHANGED <<today, sessions, rows, files, writer, saves, crashes, abandoned, cascaded, cutOff>>

(* os.replace                                                                *)
MoveIntoPlace(w) ==
  /\ job[w].phase = "moving"
  /\ temps' = temps \ {job[w].id}
  /\ files' = files \cup {job[w].id}
  /\ job' = [job EXCEPT ![w].phase = "moved"]
  /\ UNCHANGED <<today, sessions, rows, writer, saves, crashes, abandoned, cascaded, cutOff>>

Row(w) == [id |-> job[w].id, session |-> job[w].session, at |-> job[w].at]

Expired(rs) == {r \in rs : r.at + Retention < today}

(* prune reads the expired rows; a prune that finds none goes on to trim.    *)
StartPrune(w, rs) ==
  job' = [job EXCEPT ![w].phase = "expiring", ![w].list = Ids(Expired(rs))]

(* Variants with a suffix hold a plausible defect each; no definition uses them. *)
InsertRow_KeepsFile(w) ==    \* a failed INSERT leaves the file behind
  /\ job[w].phase = "moved"
  /\ \/ /\ writer = None /\ job[w].session \in sessions
        /\ rows' = rows \cup {Row(w)}
        /\ StartPrune(w, rows')
     \/ /\ job' = [job EXCEPT ![w] = Idle]
        /\ UNCHANGED rows
  /\ UNCHANGED <<today, sessions, files, temps, writer, saves, crashes, abandoned, cascaded, cutOff>>

(* The INSERT, in a transaction of its own.  It fails when the session is    *)
(* gone by now (foreign key) or the database stays locked; the file is then  *)
(* removed.                                                                  *)
InsertRow(w) ==
  /\ job[w].phase = "moved"
  /\ \/ /\ writer = None /\ job[w].session \in sessions
        /\ rows' = rows \cup {Row(w)}
        /\ StartPrune(w, rows')
        /\ UNCHANGED files
     \/ /\ writer # None \/ job[w].session \notin sessions
        /\ files' = files \ {job[w].id}
        /\ job' = [job EXCEPT ![w] = Idle]
        /\ UNCHANGED rows
  /\ UNCHANGED <<today, sessions, temps, writer, saves, crashes, abandoned, cascaded, cutOff>>

Pruning == {"expiring", "trimming"}

(* The file is unlinked, then the row deleted; the first deletion takes the  *)
(* write lock, which is held to the end of the prune.                        *)
RemoveOne(w) ==
  /\ job[w].phase \in Pruning
  /\ writer \in {None, w}
  /\ \E id \in job[w].list :
       /\ files' = files \ {id}
       /\ job' = [job EXCEPT ![w].list = @ \ {id}, ![w].gone = @ \cup {id}]
  /\ writer' = w
  /\ UNCHANGED <<today, sessions, rows, temps, saves, crashes, abandoned, cascaded, cutOff>>

(* The database stays locked by another writer: the DELETE raises after the  *)
(* file was unlinked, and the prune ends with the row in place.              *)
RemovalFails(w) ==
  /\ job[w].phase \in Pruning
  /\ writer \notin {None, w}
  /\ \E id \in job[w].list :
       /\ files' = files \ {id}
       /\ cutOff' = cutOff \cup {id}
  /\ job' = [job EXCEPT ![w] = Idle]
  /\ UNCHANGED <<today, sessions, rows, temps, writer, saves, crashes, abandoned, cascaded>>

(* The rows newest by created_at, then by id, MaxFiles of them, are kept.    *)
Newer(r, rs) == {q \in rs : q.at > r.at \/ (q.at = r.at /\ q.id > r.id)}

Surplus_OffByOne(rs) == {r \in rs : Cardinality(Newer(r, rs)) > MaxFiles}

Surplus(rs) == {r \in rs : Cardinality(Newer(r, rs)) >= MaxFiles}

(* The rows this worker sees: the committed ones without those it removed.   *)
Seen(w) == {r \in rows : r.id \notin job[w].gone}

StartTrim(w) ==
  /\ job[w].phase = "expiring" /\ job[w].list = {}
  /\ job' = [job EXCEPT ![w].phase = "trimming", ![w].list = Ids(Surplus(Seen(w)))]
  /\ UNCHANGED <<today, sessions, rows, files, temps, writer, saves, crashes, abandoned, cascaded, cutOff>>

(* The end of prune commits its deletions; save answers with get(id).        *)
EndPrune(w) ==
  /\ job[w].phase = "trimming" /\ job[w].list = {}
  /\ rows' = Seen(w)
  /\ writer' = IF writer = w THEN None ELSE writer
  /\ job' = [job EXCEPT ![w] = Idle]
  /\ UNCHANGED <<today, sessions, files, temps, saves, crashes, abandoned, cascaded, cutOff>>

(* The store deletes a session; its PCAP rows cascade, their files do not.   *)
DeleteSession(s) ==
  /\ writer = None
  /\ s \in sessions
  /\ sessions' = sessions \ {s}
  /\ rows' = {r \in rows : r.session # s}
  /\ cascaded' = cascaded \cup {r.id : r \in rows \ rows'}
  /\ UNCHANGED <<today, files, temps, job, writer, saves, crashes, abandoned, cutOff>>

(* Process p stops: its transactions roll back, files stay as they are.      *)
Crash(p) ==
  /\ crashes < MaxCrashes
  /\ crashes' = crashes + 1
  /\ abandoned' = abandoned \cup {job[w].id : w \in {v \in ThreadsOf(p) : job[v].phase # "idle"}}
  /\ cutOff' = cutOff \cup UNION {job[w].gone : w \in ThreadsOf(p)}
  /\ job' = [w \in Workers |-> IF w \in ThreadsOf(p) THEN Idle ELSE job[w]]
  /\ writer' = IF writer \in ThreadsOf(p) THEN None ELSE writer
  /\ UNCHANGED <<today, sessions, rows, files, temps, saves, cascaded>>

Day ==
  /\ today < MaxDays
  /\ today' = today + 1
  /\ UNCHANGED <<sessions, rows, files, temps, job, writer, saves, crashes, abandoned, cascaded, cutOff>>

Work(w) ==
  \/ WriteTemporary(w) \/ MoveIntoPlace(w) \/ InsertRow(w) \/ RemoveOne(w)
  \/ RemovalFails(w) \/ StartTrim(w) \/ EndPrune(w)

EvidenceNext ==
  \/ \E w \in Workers : BeginSave(w) \/ Work(w)
  \/ \E s \in Sessions : DeleteSession(s)
  \/ \E p \in Processes : Crash(p)
  \/ Day

EvidenceSpec == EvidenceInit /\ [][EvidenceNext]_evidenceVars

-----------------------------------------------------------------------------
(* A row refers to a file that is there, unless a prune unlinked the file:   *)
(* its transaction is still open, or was rolled back by a lock or a crash.   *)
(* A file without a row, and a temporary file, belong to a save under way,   *)
(* or were left by a crash or by the deletion of their session: nothing else *)
(* leaks evidence onto the disk (save, prune).                               *)
SavesIn(phase) == {job[w].id : w \in {v \in Workers : job[v].phase = phase}}

RowsHaveFiles == Ids(rows) \subseteq files \cup cutOff \cup UNION {job[w].gone : w \in Workers}

FilesExplained ==
  /\ files \subseteq Ids(rows) \cup abandoned \cup cascaded \cup SavesIn("moved")
  /\ temps \subseteq abandoned \cup SavesIn("moving")

(* Both directions, at every point a save or a prune may be cut off.         *)
FilesMatchRows == RowsHaveFiles /\ FilesExplained

(* Once no save is under way, the number of rows is back within its limit,   *)
(* whatever saves and prunes ran side by side, unless one was cut off.       *)
CapacityRestored ==
  (cutOff = {} /\ abandoned = {} /\ \A w \in Workers : job[w].phase = "idle")
     => Cardinality(rows) <= MaxFiles
=============================================================================
