------------------------ MODULE SchemaUpgradeProofs -------------------------
(***************************************************************************)
(* Proofs about SchemaUpgrade, for any number of workers, any releases and *)
(* any number of failures, restarts and backups.                           *)
(***************************************************************************)
EXTENDS SchemaUpgrade, TLAPS, FiniteSetTheorems, WellFoundedInduction

WorkerState == [pc : {"check", "wait", "locked", "done", "refused", "dead"},
                next : Nat, seen : Nat, backedUp : BOOLEAN]

(* What the version says of the ledger and of the migrations committed. *)
Migrated ==
  /\ version \in Nat /\ original.version \in Nat /\ original.version <= version
  /\ AppliedInOrder

(* What a worker's place in apply_migrations says of the version. *)
WorkerOK(w) ==
  /\ worker[w].pc = "wait" =>
       worker[w].next \in 1..LatestOf[w] /\ worker[w].next <= version + 1
  /\ worker[w].pc = "locked" =>
       /\ lock = w
       /\ worker[w].next \in 1..LatestOf[w] /\ worker[w].next = version + 1
  /\ worker[w].pc = "done" => version >= LatestOf[w]

UpgradeInv ==
  /\ Migrated
  /\ worker \in [Workers -> WorkerState]
  /\ \A w \in Workers : WorkerOK(w)

LEMMA UpgradeInit == Init => UpgradeInv
<1> SUFFICES ASSUME Init PROVE UpgradeInv
  OBVIOUS
<1>1. version \in Nat /\ original.version = version
  BY UpgradeAssumption DEF Init
<1>2. {[migration |-> v, on |-> v - 1] : v \in (version + 1)..version} = {}
  BY <1>1
<1>3. Migrated
  BY <1>1, <1>2 DEF Init, Migrated, AppliedInOrder
<1> QED
  BY <1>3 DEF Init, UpgradeInv, WorkerOK, WorkerState, Starting

(* A step that leaves the version and every other worker alone. *)
LEMMA WorkerMoves ==
  ASSUME UpgradeInv, NEW w \in Workers, NEW to \in WorkerState,
         worker' = [worker EXCEPT ![w] = to],
         UNCHANGED <<version, ledger, applied, original>>,
         WorkerOK(w)',
         \A u \in Workers \ {w} : worker[u].pc = "locked" => lock' = lock
  PROVE  UpgradeInv'
<1>1. Migrated'
  BY DEF UpgradeInv, Migrated, AppliedInOrder
<1>2. worker' \in [Workers -> WorkerState]
  BY DEF UpgradeInv
<1>3. ASSUME NEW u \in Workers PROVE WorkerOK(u)'
  <2>1. CASE u = w
    BY <2>1
  <2>2. CASE u # w
    <3>1. worker'[u] = worker[u]
      BY <2>2 DEF UpgradeInv
    <3> QED
      BY <2>2, <3>1 DEF UpgradeInv, WorkerOK
  <2> QED
    BY <2>1, <2>2
<1> QED
  BY <1>1, <1>2, <1>3 DEF UpgradeInv

LEMMA CheckStep ==
  ASSUME UpgradeInv, NEW w \in Workers, Check(w) PROVE UpgradeInv'
<1> DEFINE to == [worker[w] EXCEPT
                    !.seen = version, !.next = 1,
                    !.pc = IF version > LatestOf[w] THEN "refused"
                           ELSE IF version = LatestOf[w] THEN "done" ELSE "wait"]
<1>1. worker[w] \in WorkerState /\ version \in Nat /\ LatestOf[w] \in Nat \ {0}
  BY UpgradeAssumption DEF UpgradeInv, Migrated
<1>2. /\ to \in WorkerState /\ to.next = 1
      /\ to.pc = IF version > LatestOf[w] THEN "refused"
                 ELSE IF version = LatestOf[w] THEN "done" ELSE "wait"
  BY <1>1 DEF WorkerState
<1>3. worker' = [worker EXCEPT ![w] = to]
      /\ UNCHANGED <<version, ledger, lock, applied, original>>
  BY DEF Check, Move
<1> HIDE DEF to
<1>4. worker'[w] = to
  BY <1>3 DEF UpgradeInv
<1>5. WorkerOK(w)'
  BY <1>1, <1>2, <1>3, <1>4 DEF WorkerOK
<1> QED
  BY <1>2, <1>3, <1>5, WorkerMoves

(* Going on to the next migration, or finishing after the last. *)
LEMMA AdvancedState ==
  ASSUME NEW w \in Workers, worker[w] \in WorkerState, LatestOf[w] \in Nat
  PROVE  /\ Advanced(w) \in WorkerState
         /\ Advanced(w).next = worker[w].next + 1
         /\ Advanced(w).pc = IF worker[w].next = LatestOf[w] THEN "done" ELSE "wait"
<1> DEFINE p == IF worker[w].next = LatestOf[w] THEN "done" ELSE "wait"
<1> DEFINE later == [worker[w] EXCEPT !.next = @ + 1]
<1>1. /\ later \in WorkerState
      /\ later.next = worker[w].next + 1
  BY DEF WorkerState
<1>2. Advanced(w) = [later EXCEPT !.pc = p]
  BY Zenon DEF Advanced
<1>3. p \in {"done", "wait"}
  OBVIOUS
<1> HIDE DEF later, p
<1>4. /\ [later EXCEPT !.pc = p] \in WorkerState
      /\ [later EXCEPT !.pc = p].next = later.next
      /\ [later EXCEPT !.pc = p].pc = p
  BY <1>1, <1>3 DEF WorkerState
<1> QED
  BY <1>1, <1>2, <1>4 DEF p

LEMMA BeginStep ==
  ASSUME UpgradeInv, NEW w \in Workers, Begin(w) PROVE UpgradeInv'
<1>1. worker[w] \in WorkerState /\ version \in Nat /\ LatestOf[w] \in Nat \ {0}
      /\ WorkerOK(w)
  BY UpgradeAssumption DEF UpgradeInv, Migrated
<1>2. worker[w].pc = "wait" /\ worker[w].next \in 1..LatestOf[w]
      /\ worker[w].next <= version + 1
  BY <1>1 DEF Begin, WorkerOK
<1>3. \A u \in Workers : worker[u].pc # "locked"
  BY UpgradeAssumption DEF Begin, UpgradeInv, WorkerOK
<1>4. UNCHANGED <<version, ledger, applied, original>>
  BY DEF Begin
<1>5. CASE version >= worker[w].next /\ Move(w, Advanced(w))
  <2>1. worker' = [worker EXCEPT ![w] = Advanced(w)] /\ worker'[w] = Advanced(w)
    BY <1>5 DEF Move, UpgradeInv
  <2>2. WorkerOK(w)'
    BY <1>1, <1>2, <1>4, <1>5, <2>1, AdvancedState DEF WorkerOK
  <2> QED
    BY <1>1, <1>3, <1>4, <2>1, <2>2, AdvancedState, WorkerMoves
<1>6. CASE /\ version < worker[w].next
           /\ Move(w, [worker[w] EXCEPT !.pc = "locked"])
           /\ lock' = w
  <2> DEFINE to == [worker[w] EXCEPT !.pc = "locked"]
  <2>1. to \in WorkerState /\ to.pc = "locked" /\ to.next = worker[w].next
    BY <1>1 DEF WorkerState
  <2>2. worker' = [worker EXCEPT ![w] = to]
    BY <1>6 DEF Move
  <2> HIDE DEF to
  <2>3. worker'[w] = to
    BY <2>2 DEF UpgradeInv
  <2>4. WorkerOK(w)'
    BY <1>1, <1>2, <1>4, <1>6, <2>1, <2>3 DEF WorkerOK
  <2> QED
    BY <1>3, <1>4, <2>1, <2>2, <2>4, WorkerMoves
<1> QED
  BY <1>5, <1>6 DEF Begin

LEMMA BackupStep ==
  ASSUME UpgradeInv, NEW w \in Workers, Backup(w) PROVE UpgradeInv'
<1> DEFINE to == [worker[w] EXCEPT !.backedUp = TRUE]
<1>1. to \in WorkerState /\ to.pc = worker[w].pc /\ to.next = worker[w].next
  BY DEF UpgradeInv, WorkerState
<1>2. worker' = [worker EXCEPT ![w] = to]
      /\ UNCHANGED <<version, ledger, lock, applied, original>>
  BY DEF Backup, Move
<1> HIDE DEF to
<1>3. WorkerOK(w)'
  BY <1>1, <1>2 DEF UpgradeInv, WorkerOK
<1> QED
  BY <1>1, <1>2, <1>3, WorkerMoves

(* The holder of the lock takes the version one step up; nobody else holds it. *)
LEMMA ApplyStep ==
  ASSUME UpgradeInv, NEW w \in Workers, Apply(w) PROVE UpgradeInv'
<1>1. worker[w] \in WorkerState /\ version \in Nat /\ LatestOf[w] \in Nat \ {0}
      /\ WorkerOK(w) /\ original.version \in Nat /\ original.version <= version
  BY UpgradeAssumption DEF UpgradeInv, Migrated
<1>2. lock = w /\ worker[w].next \in 1..LatestOf[w] /\ worker[w].next = version + 1
  BY <1>1 DEF Apply, WorkerOK
<1>3. /\ version' = version + 1
      /\ ledger' = ledger \cup {version + 1}
      /\ applied' = applied \cup {[migration |-> version + 1, on |-> version]}
      /\ original' = original
      /\ worker' = [worker EXCEPT ![w] = Advanced(w)]
  BY <1>2 DEF Apply, Move
<1>4. ledger = 1..version
      /\ applied = {[migration |-> v, on |-> v - 1] :
                     v \in (original.version + 1)..version}
  BY DEF UpgradeInv, Migrated, AppliedInOrder
<1>5. ledger' = 1..version'
  BY <1>1, <1>3, <1>4
<1>6. applied' = {[migration |-> v, on |-> v - 1] :
                    v \in (original.version + 1)..(version + 1)}
  <2>1. (original.version + 1)..(version + 1)
          = ((original.version + 1)..version) \cup {version + 1}
    BY <1>1
  <2>2. (version + 1) - 1 = version
    BY <1>1
  <2> QED
    BY <1>3, <1>4, <2>1, <2>2
<1>7. Migrated'
  BY <1>1, <1>3, <1>5, <1>6 DEF Migrated, AppliedInOrder
<1>8. worker' \in [Workers -> WorkerState]
  BY <1>1, <1>3, AdvancedState DEF UpgradeInv
<1>9. ASSUME NEW u \in Workers PROVE WorkerOK(u)'
  <2>1. CASE u = w
    <3>1. worker'[w] = Advanced(w)
      BY <1>3 DEF UpgradeInv
    <3> QED
      BY <1>1, <1>2, <1>3, <2>1, <3>1, AdvancedState DEF WorkerOK
  <2>2. CASE u # w
    <3>1. worker'[u] = worker[u] /\ WorkerOK(u) /\ worker[u] \in WorkerState
      BY <1>3, <2>2 DEF UpgradeInv
    <3>2. worker[u].pc # "locked"
      BY <1>2, <2>2, <3>1 DEF WorkerOK
    <3>3. worker[u].next \in Nat /\ LatestOf[u] \in Nat
      BY <3>1, UpgradeAssumption DEF WorkerState
    <3> QED
      BY <1>1, <1>3, <3>1, <3>2, <3>3 DEF WorkerOK
  <2> QED
    BY <2>1, <2>2
<1> QED
  BY <1>7, <1>8, <1>9 DEF UpgradeInv

LEMMA DieStep ==
  ASSUME UpgradeInv, NEW w \in Workers, Die(w) PROVE UpgradeInv'
<1> DEFINE to == [worker[w] EXCEPT !.pc = "dead"]
<1>1. to \in WorkerState /\ to.pc = "dead"
  BY DEF UpgradeInv, WorkerState
<1>2. worker' = [worker EXCEPT ![w] = to]
      /\ UNCHANGED <<version, ledger, applied, original>>
      /\ lock' = IF lock = w THEN Free ELSE lock
  BY DEF Die, Move
<1> HIDE DEF to
<1>3. WorkerOK(w)'
  BY <1>1, <1>2 DEF UpgradeInv, WorkerOK
<1>4. \A u \in Workers \ {w} : worker[u].pc = "locked" => lock' = lock
  BY <1>2 DEF UpgradeInv, WorkerOK
<1> QED
  BY <1>1, <1>2, <1>3, <1>4, WorkerMoves

LEMMA RespawnStep ==
  ASSUME UpgradeInv, NEW w \in Workers, Respawn(w) PROVE UpgradeInv'
<1>1. Starting \in WorkerState /\ Starting.pc = "check"
  BY DEF Starting, WorkerState
<1>2. worker' = [worker EXCEPT ![w] = Starting]
      /\ UNCHANGED <<version, ledger, lock, applied, original>>
  BY DEF Respawn, Move
<1>3. WorkerOK(w)'
  BY <1>1, <1>2 DEF UpgradeInv, WorkerOK
<1> QED
  BY <1>1, <1>2, <1>3, WorkerMoves

LEMMA UpgradeStep == ASSUME UpgradeInv, [Next]_vars PROVE UpgradeInv'
<1>1. CASE ScheduledBackup \/ UNCHANGED vars
  BY <1>1 DEF ScheduledBackup, vars, UpgradeInv, Migrated, AppliedInOrder, WorkerOK
<1> QED
  BY <1>1, CheckStep, BeginStep, BackupStep, ApplyStep, DieStep, RespawnStep
     DEF Next, Step

(***************************************************************************)
(* However many workers start, fail and start again, the schema goes from  *)
(* its first version to the last one migration at a time, each applied     *)
(* once, on the version before it (migrations.py: apply_migrations).       *)
(***************************************************************************)
THEOREM MigrationsInOrder == Spec => []AppliedInOrder
<1>1. UpgradeInv /\ [Next]_vars => UpgradeInv'
  BY UpgradeStep
<1>2. UpgradeInv => AppliedInOrder
  BY DEF UpgradeInv, Migrated
<1> QED
  BY <1>1, <1>2, UpgradeInit, PTL DEF Spec

(***************************************************************************)
(* A worker that comes through its start finds at least the schema of its  *)
(* release, though it may have applied none of it itself.                  *)
(***************************************************************************)
THEOREM ServesOnCurrentSchema == Spec => []DoneIsCurrent
<1>1. UpgradeInv /\ [Next]_vars => UpgradeInv'
  BY UpgradeStep
<1>2. UpgradeInv => DoneIsCurrent
  BY DEF UpgradeInv, WorkerOK, DoneIsCurrent
<1> QED
  BY <1>1, <1>2, UpgradeInit, PTL DEF Spec
-----------------------------------------------------------------------------
(***************************************************************************)
(* Backups are numbered as they are made, and none has its number twice.   *)
(* A worker that has made its backup, like a database that was migrated,   *)
(* implies a copy at the first version, as long as rotation has dropped    *)
(* nothing.                                                                *)
(***************************************************************************)
FilesOK ==
  /\ made \in Nat /\ IsFiniteSet(files)
  /\ \A f \in files : f.made \in 1..made /\ f.named = f.version
  /\ \A f, g \in files : f.made = g.made => f = g
  /\ Cardinality(files) <= made /\ Cardinality(files) <= Keep

FirstCopy(f) == f.kind = "migration" /\ f.version = original.version

CopyKept ==
  original.schema /\ made <= Keep =>
    ((version > original.version \/ \E w \in Workers : worker[w].backedUp) =>
      \E f \in files : FirstCopy(f))

CopyInv ==
  /\ UpgradeInv /\ FilesOK
  /\ original.schema => schema
  /\ CopyKept

(* A non-empty set of natural numbers has a least element. *)
LEMMA LeastNumber ==
  ASSUME NEW S \in SUBSET Nat, S # {}
  PROVE  \E x \in S : \A y \in S : x <= y
<1>1. PICK x \in S : \A y \in S : ~ (<<y, x>> \in OpToRel(<, Nat))
  BY NatLessThanWellFounded, WFMin, Zenon
<1>2. \A y \in S : ~ (y < x)
  BY <1>1, Zenon DEF OpToRel
<1> QED
  BY <1>2

(* Rotation keeps the newest files, and no more than it should. *)
LEMMA RotationKeeps ==
  ASSUME NEW all, IsFiniteSet(all), NEW n \in Nat,
         \A f \in all : f.made \in 1..n,
         \A f, g \in all : f.made = g.made => f = g
  PROVE  /\ Rotated(all) \subseteq all /\ IsFiniteSet(Rotated(all))
         /\ Cardinality(Rotated(all)) <= Keep
         /\ Cardinality(Rotated(all)) <= Cardinality(all)
         /\ Cardinality(all) <= Keep => Rotated(all) = all
         /\ \A f \in all : f.made = n => f \in Rotated(all)
<1> DEFINE newer(f) == {g \in all : g.made > f.made}
<1> DEFINE kept == Rotated(all)
<1>0. Keep \in Nat \ {0}
  BY UpgradeAssumption
<1>1. kept \subseteq all /\ IsFiniteSet(kept) /\ Cardinality(kept) <= Cardinality(all)
      /\ Cardinality(kept) \in Nat /\ Cardinality(all) \in Nat
  <2>1. kept \subseteq all
    BY DEF Rotated
  <2> HIDE DEF kept
  <2> QED
    BY <2>1, FS_Subset, FS_CardinalityType
<1>2. \A f \in all : newer(f) \subseteq all \ {f} /\ IsFiniteSet(newer(f))
                     /\ Cardinality(newer(f)) \in Nat
  <2> SUFFICES ASSUME NEW f \in all
               PROVE  newer(f) \subseteq all \ {f} /\ IsFiniteSet(newer(f))
                      /\ Cardinality(newer(f)) \in Nat
    OBVIOUS
  <2>1. newer(f) \subseteq all \ {f}
    OBVIOUS
  <2>2. newer(f) \subseteq all
    OBVIOUS
  <2> HIDE DEF newer
  <2> QED
    BY <2>1, <2>2, FS_Subset, FS_CardinalityType
<1>3. \A f \in all : f \in kept <=> Cardinality(newer(f)) < Keep
  BY DEF Rotated
<1>4. Cardinality(kept) <= Keep
  <2>1. CASE kept = {}
    BY <1>0, <2>1, FS_EmptySet
  <2>2. CASE kept # {}
    <3> DEFINE numbers == {f.made : f \in kept}
    <3>1. numbers \in SUBSET Nat /\ numbers # {}
      BY <1>1, <2>2
    <3>2. PICK k \in numbers : \A m \in numbers : k <= m
      <4> HIDE DEF numbers
      <4> QED
        BY <3>1, LeastNumber
    <3>3. PICK x \in kept : \A f \in kept : x.made <= f.made
      BY <3>2
    <3>4. kept \ {x} \subseteq newer(x)
      BY <1>1, <3>3
    <3>5. Cardinality(newer(x)) < Keep /\ IsFiniteSet(newer(x))
          /\ Cardinality(newer(x)) \in Nat
      BY <1>1, <1>2, <1>3
    <3> HIDE DEF newer, kept
    <3>6. Cardinality(kept \ {x}) = Cardinality(kept) - 1
      BY <1>1, FS_RemoveElement
    <3>7. Cardinality(kept \ {x}) <= Cardinality(newer(x))
      BY <3>4, <3>5, FS_Subset
    <3> QED
      BY <1>0, <1>1, <3>5, <3>6, <3>7
  <2> QED
    BY <2>1, <2>2
<1>5. ASSUME Cardinality(all) <= Keep PROVE kept = all
  <2>1. ASSUME NEW f \in all PROVE f \in kept
    <3>1. newer(f) \subseteq all \ {f} /\ Cardinality(newer(f)) \in Nat
      BY <1>2
    <3> HIDE DEF newer, kept
    <3>2. IsFiniteSet(all \ {f}) /\ Cardinality(all \ {f}) = Cardinality(all) - 1
      BY FS_RemoveElement
    <3>3. Cardinality(newer(f)) <= Cardinality(all \ {f})
      BY <3>1, <3>2, FS_Subset
    <3>4. Cardinality(newer(f)) < Keep
      BY <1>0, <1>1, <1>5, <3>1, <3>2, <3>3
    <3> QED
      BY <1>3, <3>4
  <2> HIDE DEF kept
  <2> QED
    BY <1>1, <2>1
<1>6. ASSUME NEW f \in all, f.made = n PROVE f \in kept
  <2>1. newer(f) = {}
    BY <1>6
  <2>2. Cardinality(newer(f)) = 0
    BY <2>1, FS_EmptySet
  <2> QED
    BY <1>0, <1>3, <2>2
<1> QED
  BY <1>1, <1>4, <1>5, <1>6

(* A file is completed, and the oldest may go. *)
LEMMA SavedFiles ==
  ASSUME FilesOK, NEW kind, SaveFile(kind, version)
  PROVE  /\ FilesOK' /\ made' = made + 1 /\ made \in Nat
         /\ made' <= Keep => files \subseteq files'
         /\ \E f \in files' : f.kind = kind /\ f.version = version
<1> DEFINE f == File(kind, version)
<1> DEFINE all == files \cup {f}
<1>0. made \in Nat /\ IsFiniteSet(files) /\ Keep \in Nat
      /\ Cardinality(files) <= made /\ Cardinality(files) \in Nat
  BY UpgradeAssumption, FS_CardinalityType DEF FilesOK
<1>1. made' = made + 1 /\ files' = Rotated(all)
  BY DEF SaveFile
<1>2. f.made = made + 1 /\ f.kind = kind /\ f.version = version /\ f.named = version
  BY DEF File
<1> HIDE DEF f
<1>3. /\ \A g \in all : g.made \in 1..(made + 1) /\ g.named = g.version
      /\ \A g, h \in all : g.made = h.made => g = h
  BY <1>0, <1>2 DEF FilesOK
<1>4. IsFiniteSet(all) /\ Cardinality(all) <= made + 1 /\ Cardinality(all) \in Nat
  <2>1. /\ IsFiniteSet(files \cup {f})
        /\ Cardinality(files \cup {f}) =
             IF f \in files THEN Cardinality(files) ELSE Cardinality(files) + 1
    BY <1>0, FS_AddElement, Zenon
  <2> QED
    BY <1>0, <2>1
<1>5. f \in all /\ files \subseteq all
  OBVIOUS
<1> HIDE DEF all
<1>6. /\ files' \subseteq all /\ IsFiniteSet(files')
      /\ Cardinality(files') <= Keep /\ Cardinality(files') <= Cardinality(all)
      /\ Cardinality(all) <= Keep => files' = all
      /\ f \in files'
  <2>1. made + 1 \in Nat
    BY <1>0
  <2> QED
    BY <1>1, <1>2, <1>3, <1>4, <1>5, <2>1, RotationKeeps
<1>7. Cardinality(files') \in Nat
  BY <1>6, FS_CardinalityType
<1>8. FilesOK'
  BY <1>0, <1>1, <1>3, <1>4, <1>6, <1>7 DEF FilesOK
<1>9. made' <= Keep => files \subseteq files'
  BY <1>0, <1>1, <1>4, <1>5, <1>6
<1> QED
  BY <1>0, <1>1, <1>2, <1>6, <1>8, <1>9

LEMMA CopyStep == ASSUME CopyInv, [Next]_vars PROVE CopyInv'
<1>1. UpgradeInv'
  BY UpgradeStep DEF CopyInv
<1>2. /\ FilesOK /\ (original.schema => schema) /\ CopyKept
      /\ version \in Nat /\ original.version \in Nat /\ original.version <= version
      /\ worker \in [Workers -> WorkerState]
  BY DEF CopyInv, UpgradeInv, Migrated
<1>3. ASSUME UNCHANGED <<files, made, schema, version, original>>,
             NEW w \in Workers, NEW to, to.backedUp => worker[w].backedUp,
             worker' = [worker EXCEPT ![w] = to]
      PROVE  CopyInv'
  <2>1. \A u \in Workers : worker'[u].backedUp => \E v \in Workers : worker[v].backedUp
    BY <1>2, <1>3
  <2>2. CopyKept'
    BY <1>2, <1>3, <2>1 DEF CopyKept, FirstCopy
  <2> QED
    BY <1>1, <1>2, <1>3, <2>2 DEF CopyInv, FilesOK
<1>4. ASSUME NEW w \in Workers, Check(w) PROVE CopyInv'
  <2> DEFINE to == [worker[w] EXCEPT
                      !.seen = version, !.next = 1,
                      !.pc = IF version > LatestOf[w] THEN "refused"
                             ELSE IF version = LatestOf[w] THEN "done" ELSE "wait"]
  <2>1. to.backedUp = worker[w].backedUp
    BY <1>2 DEF WorkerState
  <2>2. worker' = [worker EXCEPT ![w] = to]
        /\ UNCHANGED <<files, made, schema, version, original>>
    BY <1>4 DEF Check, Move
  <2> HIDE DEF to
  <2> QED
    BY <1>3, <2>1, <2>2
<1>5. ASSUME NEW w \in Workers PROVE Advanced(w).backedUp = worker[w].backedUp
  BY <1>2 DEF Advanced, WorkerState
<1>6. ASSUME NEW w \in Workers, Begin(w) PROVE CopyInv'
  <2>0. UNCHANGED <<files, made, schema, version, original>>
    BY <1>6 DEF Begin
  <2>1. CASE Move(w, Advanced(w))
    BY <1>3, <1>5, <2>0, <2>1 DEF Move
  <2>2. CASE Move(w, [worker[w] EXCEPT !.pc = "locked"])
    <3>1. [worker[w] EXCEPT !.pc = "locked"].backedUp = worker[w].backedUp
      BY <1>2 DEF WorkerState
    <3> QED
      BY <1>3, <2>0, <2>2, <3>1 DEF Move
  <2> QED
    BY <1>6, <2>1, <2>2 DEF Begin
<1>7. ASSUME NEW w \in Workers, Backup(w) PROVE CopyInv'
  <2>1. UNCHANGED <<schema, version, original>>
    BY <1>7 DEF Backup
  <2>2. CASE ~schema
    <3>1. ~original.schema /\ UNCHANGED <<files, made>>
      BY <1>2, <1>7, <2>2 DEF Backup
    <3> QED
      BY <1>1, <1>2, <2>1, <3>1 DEF CopyInv, CopyKept, FilesOK
  <2>3. CASE schema
    <3>1. SaveFile("migration", version)
      BY <1>7, <2>3 DEF Backup
    <3>2. /\ FilesOK' /\ made' = made + 1 /\ made \in Nat
          /\ made' <= Keep => files \subseteq files'
          /\ \E f \in files' : f.kind = "migration" /\ f.version = version
      BY <1>2, <3>1, SavedFiles
    <3>3. CopyKept'
      <4> SUFFICES ASSUME original.schema, made' <= Keep
                   PROVE  \E f \in files' : FirstCopy(f)
        BY <2>1 DEF CopyKept, FirstCopy
      <4>1. CASE version = original.version
        BY <3>2, <4>1 DEF FirstCopy
      <4>2. CASE version # original.version
        <5>1. version > original.version
          BY <1>2, <4>2
        <5>2. made <= Keep
          BY <3>2, UpgradeAssumption
        <5>3. \E f \in files : FirstCopy(f)
          BY <1>2, <5>1, <5>2 DEF CopyKept
        <5> QED
          BY <3>2, <5>3
      <4> QED
        BY <4>1, <4>2
    <3> QED
      BY <1>1, <1>2, <2>1, <3>2, <3>3 DEF CopyInv
  <2> QED
    BY <2>2, <2>3
<1>8. ASSUME NEW w \in Workers, Apply(w) PROVE CopyInv'
  <2>1. /\ UNCHANGED <<files, made, original>> /\ schema' = TRUE
        /\ worker[w].backedUp
    BY <1>8 DEF Apply
  <2>2. CopyKept'
    BY <1>2, <2>1 DEF CopyKept, FirstCopy
  <2> QED
    BY <1>1, <1>2, <2>1, <2>2 DEF CopyInv, FilesOK
<1>9. ASSUME NEW w \in Workers, Die(w) PROVE CopyInv'
  <2>1. [worker[w] EXCEPT !.pc = "dead"].backedUp = worker[w].backedUp
    BY <1>2 DEF WorkerState
  <2> QED
    BY <1>3, <1>9, <2>1 DEF Die, Move
<1>10. ASSUME NEW w \in Workers, Respawn(w) PROVE CopyInv'
  <2>1. ~Starting.backedUp
    BY DEF Starting
  <2> QED
    BY <1>3, <1>10, <2>1 DEF Respawn, Move
<1>11. CASE ScheduledBackup
  <2>1. SaveFile("scheduled", version) /\ UNCHANGED <<version, schema, worker, original>>
    BY <1>11 DEF ScheduledBackup
  <2>2. /\ FilesOK' /\ made' = made + 1 /\ made \in Nat
        /\ made' <= Keep => files \subseteq files'
    BY <1>2, <2>1, SavedFiles
  <2>3. made' <= Keep => made <= Keep
    BY <2>2, UpgradeAssumption
  <2>4. CopyKept'
    BY <1>2, <2>1, <2>2, <2>3 DEF CopyKept, FirstCopy
  <2> QED
    BY <1>1, <1>2, <2>1, <2>2, <2>4 DEF CopyInv
<1>12. CASE UNCHANGED vars
  BY <1>1, <1>2, <1>12 DEF vars, CopyInv, FilesOK, CopyKept, FirstCopy
<1> QED
  BY <1>4, <1>6, <1>7, <1>8, <1>9, <1>10, <1>11, <1>12 DEF Next, Step

(***************************************************************************)
(* A copy at the first version is on file before the first migration that  *)
(* touches a database with tables commits, however many workers start, die *)
(* and save at the same time; every copy holds the version it is named     *)
(* after, and rotation keeps the number of files (migrations.py:           *)
(* apply_migrations; backup.py: create_backup).                            *)
(***************************************************************************)
THEOREM FilesTellTheTruth == Spec => []FilesAreWhatTheySay
<1>1. Init => CopyInv
  <2> SUFFICES ASSUME Init PROVE CopyInv
    OBVIOUS
  <2>1. UpgradeInv
    BY UpgradeInit
  <2>2. FilesOK
    BY FS_EmptySet, UpgradeAssumption DEF Init, FilesOK
  <2>3. original.schema => schema
    BY DEF Init
  <2>4. CopyKept
    BY UpgradeAssumption DEF Init, CopyKept, Starting
  <2> QED
    BY <2>1, <2>2, <2>3, <2>4 DEF CopyInv
<1>2. CopyInv /\ [Next]_vars => CopyInv'
  BY CopyStep
<1>3. CopyInv => FilesAreWhatTheySay
  BY DEF CopyInv, FilesOK, CopyKept, FirstCopy, FilesAreWhatTheySay
<1> QED
  BY <1>1, <1>2, <1>3, PTL DEF Spec
=============================================================================
