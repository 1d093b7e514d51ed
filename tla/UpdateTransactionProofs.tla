---------------------- MODULE UpdateTransactionProofs ----------------------
(***************************************************************************)
(* Proofs about UpdateTransaction, for every set of paths and contents and *)
(* every bound: its safety properties, and that it implements AtomicUpdate.*)
(* They rest on one inductive invariant, IInv.                             *)
(***************************************************************************)
EXTENDS UpdateTransaction, TLAPS

(* What a touched path holds once the plan is committed. *)
Result(p) == IF p \in plan.changed THEN goal[p] ELSE NoFile

PlanIsSound == plan.changed \subseteq Listed(goal)

(* The stages in which a record is on the disk, and those in which none is.*)
RecordStages ==
    /\ pc \in {"commit", "verify", "finish", "rollback"} => record # NoRecord
    /\ pc \in {"prepare", "stage", "backup", "record", "cleanup"} => record = NoRecord

(* Every blob that a later stage will rename is the one the plan asks for. *)
StagedIsChecked ==
    /\ pc = "stage" => todo \subseteq plan.changed
    /\ pc \in {"stage", "backup", "record", "commit"} =>
           \A p \in plan.changed :
              (pc = "stage" /\ p \notin todo) \/ pc \in {"backup", "record"}
                  \/ (pc = "commit" /\ p \in todo)
              => staged[p] = goal[p]

(* The backup loop has an exact copy of each path it has visited. *)
BackupIsExact ==
    /\ pc \in {"backup", "record"} =>
        /\ originals \subseteq Touched(plan)
        /\ \A p \in Touched(plan) :
              (pc = "backup" /\ p \in todo)
              \/ (backup[p] = live[p] /\ (p \in originals <=> live[p] # NoFile))
    /\ pc = "backup" => todo \subseteq Touched(plan) /\ todo \cap originals = {}

(* The record on the disk is that of the running apply. *)
RecordIsCurrent ==
    pc \in {"commit", "verify", "finish"} =>
        record.changed = plan.changed /\ record.removed = plan.removed

CommittedSoFar ==
    /\ pc = "commit" => todo \subseteq Touched(plan)
    /\ pc \in {"commit", "verify", "finish"} =>
        \A p \in Touched(plan) : (pc = "commit" /\ p \in todo) \/ live[p] = Result(p)

RestoredSoFar ==
    pc = "rollback" =>
        /\ todo \subseteq Touched(record)
        /\ \A p \in Touched(record) : p \in todo \/ live[p] = Recovered[p]

FinishIsVerified ==
    /\ pc = "finish" => Verified
    /\ outcome = "verified" =>
          /\ VerifyInstall(live, goal)
          /\ pc = "idle" \/ (pc = "cleanup" /\ after = "idle")

IInv ==
    /\ TypeOK
    /\ PlanIsSound
    /\ RecordStages
    /\ StagedIsChecked
    /\ BackupIsExact
    /\ BackupsComplete
    /\ RecordIsCurrent
    /\ CommittedSoFar
    /\ RestoredSoFar
    /\ FinishIsVerified

-----------------------------------------------------------------------------
(* The plans of the callers write only files that the target lists, and    *)
(* remove none of them.                                                    *)
LEMMA PlansAreSound ==
  ASSUME TypeOK, NEW target \in Manifests, NEW how \in {"checked", "unchecked"},
         NEW p \in Plans(target, how)
  PROVE  /\ p \in [changed : SUBSET Paths, removed : SUBSET Paths]
         /\ p.changed \subseteq Listed(target)
         /\ p.removed \cap Listed(target) = {}
<1>1. PICK known \in Manifests :
        p = DiffVerified(known, target, live) \/ p = Diff(known, target)
  BY DEF Plans
<1>2. CASE p = Diff(known, target)
  BY <1>2 DEF Diff, Listed
<1>3. CASE p = DiffVerified(known, target, live)
  BY <1>3 DEF DiffVerified, Diff, Listed
<1>. QED
  BY <1>1, <1>2, <1>3

(* A plan of diff_verified is complete: carried out on the directory it    *)
(* was made for, whatever the local manifest said, it leaves every file of *)
(* the target in place, so the verification of an apply can only fail when *)
(* the directory has changed since the plan was made.                      *)
THEOREM DiffVerifiedIsComplete ==
  ASSUME NEW local \in Manifests, NEW remote \in Manifests, NEW files \in Manifests
  PROVE  LET plan_ == DiffVerified(local, remote, files)
         IN  VerifyInstall(Carried(files, remote, plan_.changed, plan_.removed), remote)
BY DEF DiffVerified, Diff, VerifyInstall, Carried, Listed

-----------------------------------------------------------------------------
(* The inductive invariant.                                                *)

LEMMA InitIInv == Init => IInv
<1> SUFFICES ASSUME Init PROVE IInv
  OBVIOUS
<1> USE DEF Init, NoPlan, Manifests, File, EmptyManifest, Listed, Touched
<1>1. TypeOK
  BY NoFileIsNoContent DEF TypeOK, Stages
<1>2. PlanIsSound /\ RecordStages /\ StagedIsChecked /\ BackupIsExact
  BY DEF PlanIsSound, RecordStages, StagedIsChecked, BackupIsExact
<1>3. BackupsComplete /\ RecordIsCurrent /\ CommittedSoFar /\ RestoredSoFar
      /\ FinishIsVerified
  BY DEF BackupsComplete, RecordIsCurrent, CommittedSoFar, RestoredSoFar, FinishIsVerified
<1>. QED
  BY <1>1, <1>2, <1>3 DEF IInv

LEMMA NextIInv == IInv /\ [Next]_vars => IInv'
<1> SUFFICES ASSUME IInv, [Next]_vars PROVE IInv'
  OBVIOUS
<1> USE NoFileIsNoContent, NoRecordIsNoRecord
    DEF Record, Manifests, File, EmptyManifest, Listed, Touched, Stages, Forget, NoPlan, disk, job, bounds
<1>1. CASE BeginApply
  <2>1. PICK target \in Manifests, how \in {"checked", "unchecked"} :
          \E p \in Plans(target, how) : \E extra \in SUBSET Paths :
             /\ plan' = [changed |-> p.changed,
                         removed |-> (p.removed \cup extra) \ p.changed]
             /\ goal' = target /\ checked' = how
    BY <1>1 DEF BeginApply
  <2>. PICK p \in Plans(target, how), extra \in SUBSET Paths :
             /\ plan' = [changed |-> p.changed,
                         removed |-> (p.removed \cup extra) \ p.changed]
             /\ goal' = target /\ checked' = how
    BY <2>1
  <2>2. /\ p \in [changed : SUBSET Paths, removed : SUBSET Paths]
        /\ p.changed \subseteq Listed(target)
    BY <2>1, PlansAreSound DEF IInv
  <2>3. TypeOK'
    <3>1. /\ plan' \in [changed : SUBSET Paths, removed : SUBSET Paths]
          /\ goal' \in Manifests /\ checked' \in {"checked", "unchecked"}
      BY <2>2
    <3>. QED
      BY <1>1, <3>1 DEF IInv, TypeOK, BeginApply
  <2>4. PlanIsSound'
    BY <2>1, <2>2 DEF PlanIsSound
  <2>5. RecordStages' /\ StagedIsChecked' /\ BackupIsExact' /\ BackupsComplete'
    BY <1>1 DEF IInv, RecordStages, StagedIsChecked, BackupIsExact, BackupsComplete,
                BeginApply
  <2>6. RecordIsCurrent' /\ CommittedSoFar' /\ RestoredSoFar' /\ FinishIsVerified'
    BY <1>1 DEF RecordIsCurrent, CommittedSoFar, RestoredSoFar, FinishIsVerified,
                BeginApply
  <2>. QED
    BY <2>3, <2>4, <2>5, <2>6 DEF IInv
<1>2. CASE BeginRecovery
  BY <1>2 DEF IInv, TypeOK, PlanIsSound, RecordStages, StagedIsChecked, BackupIsExact,
         BackupsComplete, RecordIsCurrent, CommittedSoFar, RestoredSoFar, FinishIsVerified,
         Verified, VerifyInstall, Recovered, Result,
         BeginRecovery
<1>3. ASSUME NEW p \in Paths, DeleteScratch(p) PROVE IInv'
  BY <1>3 DEF IInv, TypeOK, PlanIsSound, RecordStages, StagedIsChecked, BackupIsExact,
         BackupsComplete, RecordIsCurrent, CommittedSoFar, RestoredSoFar, FinishIsVerified,
         Verified, VerifyInstall, Recovered, Result,
         DeleteScratch, MayDelete, DeletingStages
<1>4. ASSUME NEW p \in Paths, RestoreOriginal(p) PROVE IInv'
  <2>1. TypeOK'
    BY <1>4 DEF IInv, TypeOK, RestoreOriginal
  <2>2. BackupsComplete' /\ RestoredSoFar'
    BY <1>4 DEF IInv, TypeOK, BackupsComplete, RestoredSoFar, Recovered, RestoreOriginal
  <2>3. FinishIsVerified'
    BY <1>4 DEF IInv, FinishIsVerified, RestoreOriginal
  <2>4. PlanIsSound' /\ RecordStages' /\ StagedIsChecked' /\ BackupIsExact'
        /\ RecordIsCurrent' /\ CommittedSoFar'
    BY <1>4 DEF IInv, PlanIsSound, RecordStages, StagedIsChecked, BackupIsExact,
                RecordIsCurrent, CommittedSoFar, RestoreOriginal
  <2>. QED
    BY <2>1, <2>2, <2>3, <2>4 DEF IInv
<1>5. ASSUME NEW p \in Paths, RemoveAdded(p) PROVE IInv'
  BY <1>5 DEF IInv, TypeOK, PlanIsSound, RecordStages, StagedIsChecked, BackupIsExact,
         BackupsComplete, RecordIsCurrent, CommittedSoFar, RestoredSoFar, FinishIsVerified,
         Verified, VerifyInstall, Recovered, Result,
         RemoveAdded
<1>6. ASSUME NEW p \in Paths, BackUp(p) PROVE IInv'
  <2>1. TypeOK'
    BY <1>6 DEF IInv, TypeOK, BackUp
  <2>2. BackupIsExact'
    <3>1. /\ originals' \subseteq Touched(plan)
          /\ todo' \subseteq Touched(plan) /\ todo' \cap originals' = {}
      BY <1>6 DEF IInv, BackupIsExact, BackUp
    <3>2. ASSUME NEW q \in Touched(plan), q \notin todo'
          PROVE  backup'[q] = live[q] /\ (q \in originals' <=> live[q] # NoFile)
      <4>1. CASE q = p
        BY <1>6, <4>1 DEF IInv, TypeOK, BackupIsExact, BackUp
      <4>2. CASE q # p
        BY <1>6, <3>2, <4>2 DEF IInv, TypeOK, BackupIsExact, BackUp
      <4>. QED
        BY <4>1, <4>2
    <3>. QED
      BY <1>6, <3>1, <3>2 DEF BackupIsExact, BackUp
  <2>3. PlanIsSound' /\ RecordStages' /\ StagedIsChecked' /\ BackupsComplete'
        /\ RecordIsCurrent' /\ CommittedSoFar' /\ RestoredSoFar' /\ FinishIsVerified'
    BY <1>6 DEF IInv, PlanIsSound, RecordStages, StagedIsChecked, BackupsComplete,
                RecordIsCurrent, CommittedSoFar, RestoredSoFar, FinishIsVerified, BackUp
  <2>. QED
    BY <2>1, <2>2, <2>3 DEF IInv
<1>7. ASSUME NEW p \in Paths, CommitChanged(p) PROVE IInv'
  BY <1>7 DEF IInv, TypeOK, PlanIsSound, RecordStages, StagedIsChecked, BackupIsExact,
         BackupsComplete, RecordIsCurrent, CommittedSoFar, RestoredSoFar, FinishIsVerified,
         Verified, VerifyInstall, Recovered, Result,
         CommitChanged
<1>8. ASSUME NEW p \in Paths, CommitRemoved(p) PROVE IInv'
  BY <1>8 DEF IInv, TypeOK, PlanIsSound, RecordStages, StagedIsChecked, BackupIsExact,
         BackupsComplete, RecordIsCurrent, CommittedSoFar, RestoredSoFar, FinishIsVerified,
         Verified, VerifyInstall, Recovered, Result,
         CommitRemoved
<1>9. ASSUME NEW p \in Paths, NEW content \in Contents, StageBlob(p, content) PROVE IInv'
  BY <1>9 DEF IInv, TypeOK, PlanIsSound, RecordStages, StagedIsChecked, BackupIsExact,
         BackupsComplete, RecordIsCurrent, CommittedSoFar, RestoredSoFar, FinishIsVerified,
         Verified, VerifyInstall, Recovered, Result,
         StageBlob, Accepts
<1>10. CASE RecoverWithoutRecord
  BY <1>10 DEF IInv, TypeOK, PlanIsSound, RecordStages, StagedIsChecked, BackupIsExact,
         BackupsComplete, RecordIsCurrent, CommittedSoFar, RestoredSoFar, FinishIsVerified,
         Verified, VerifyInstall, Recovered, Result,
         RecoverWithoutRecord
<1>11. CASE RecoverFromRecord
  BY <1>11 DEF IInv, TypeOK, PlanIsSound, RecordStages, StagedIsChecked, BackupIsExact,
         BackupsComplete, RecordIsCurrent, CommittedSoFar, RestoredSoFar, FinishIsVerified,
         Verified, VerifyInstall, Recovered, Result,
         RecoverFromRecord
<1>12. CASE FinishRollback
  BY <1>12 DEF IInv, TypeOK, PlanIsSound, RecordStages, StagedIsChecked, BackupIsExact,
         BackupsComplete, RecordIsCurrent, CommittedSoFar, RestoredSoFar, FinishIsVerified,
         Verified, VerifyInstall, Recovered, Result,
         FinishRollback
<1>13. CASE Cleanup
  BY <1>13 DEF IInv, TypeOK, PlanIsSound, RecordStages, StagedIsChecked, BackupIsExact,
         BackupsComplete, RecordIsCurrent, CommittedSoFar, RestoredSoFar, FinishIsVerified,
         Verified, VerifyInstall, Recovered, Result,
         Cleanup
<1>14. CASE ApplyNothing
  BY <1>14 DEF IInv, TypeOK, PlanIsSound, RecordStages, StagedIsChecked, BackupIsExact,
         BackupsComplete, RecordIsCurrent, CommittedSoFar, RestoredSoFar, FinishIsVerified,
         Verified, VerifyInstall, Recovered, Result,
         ApplyNothing, PlanIsEmpty, Success
<1>15. CASE PrepareStaging
  BY <1>15 DEF IInv, TypeOK, PlanIsSound, RecordStages, StagedIsChecked, BackupIsExact,
         BackupsComplete, RecordIsCurrent, CommittedSoFar, RestoredSoFar, FinishIsVerified,
         Verified, VerifyInstall, Recovered, Result,
         PrepareStaging, NoScratch
<1>16. CASE StartBackup
  BY <1>16 DEF IInv, TypeOK, PlanIsSound, RecordStages, StagedIsChecked, BackupIsExact,
         BackupsComplete, RecordIsCurrent, CommittedSoFar, RestoredSoFar, FinishIsVerified,
         Verified, VerifyInstall, Recovered, Result,
         StartBackup
<1>17. CASE StartRecord
  BY <1>17 DEF IInv, TypeOK, PlanIsSound, RecordStages, StagedIsChecked, BackupIsExact,
         BackupsComplete, RecordIsCurrent, CommittedSoFar, RestoredSoFar, FinishIsVerified,
         Verified, VerifyInstall, Recovered, Result,
         StartRecord
<1>18. CASE WriteRecord
  BY <1>18 DEF IInv, TypeOK, PlanIsSound, RecordStages, StagedIsChecked, BackupIsExact,
         BackupsComplete, RecordIsCurrent, CommittedSoFar, RestoredSoFar, FinishIsVerified,
         Verified, VerifyInstall, Recovered, Result,
         WriteRecord
<1>19. CASE FinishCommit
  BY <1>19 DEF IInv, TypeOK, PlanIsSound, RecordStages, StagedIsChecked, BackupIsExact,
         BackupsComplete, RecordIsCurrent, CommittedSoFar, RestoredSoFar, FinishIsVerified,
         Verified, VerifyInstall, Recovered, Result,
         FinishCommit
<1>20. CASE VerifySucceeds
  BY <1>20 DEF IInv, TypeOK, PlanIsSound, RecordStages, StagedIsChecked, BackupIsExact,
         BackupsComplete, RecordIsCurrent, CommittedSoFar, RestoredSoFar, FinishIsVerified,
         Verified, VerifyInstall, Recovered, Result,
         VerifySucceeds
<1>21. CASE VerifyFails
  BY <1>21 DEF IInv, TypeOK, PlanIsSound, RecordStages, StagedIsChecked, BackupIsExact,
         BackupsComplete, RecordIsCurrent, CommittedSoFar, RestoredSoFar, FinishIsVerified,
         Verified, VerifyInstall, Recovered, Result,
         VerifyFails, StartRollback
<1>22. CASE FinishApply
  BY <1>22 DEF IInv, TypeOK, PlanIsSound, RecordStages, StagedIsChecked, BackupIsExact,
         BackupsComplete, RecordIsCurrent, CommittedSoFar, RestoredSoFar, FinishIsVerified,
         Verified, VerifyInstall, Recovered, Result,
         FinishApply, Success
<1>23. CASE Fault
  BY <1>23 DEF IInv, TypeOK, PlanIsSound, RecordStages, StagedIsChecked, BackupIsExact,
         BackupsComplete, RecordIsCurrent, CommittedSoFar, RestoredSoFar, FinishIsVerified,
         Verified, VerifyInstall, Recovered, Result,
         Fault, StartRollback
<1>24. CASE Crash
  BY <1>24 DEF IInv, TypeOK, PlanIsSound, RecordStages, StagedIsChecked, BackupIsExact,
         BackupsComplete, RecordIsCurrent, CommittedSoFar, RestoredSoFar, FinishIsVerified,
         Verified, VerifyInstall, Recovered, Result,
         Crash
<1>25. CASE UNCHANGED vars
  BY <1>25 DEF IInv, TypeOK, PlanIsSound, RecordStages, StagedIsChecked, BackupIsExact,
         BackupsComplete, RecordIsCurrent, CommittedSoFar, RestoredSoFar, FinishIsVerified,
         Verified, VerifyInstall, Recovered, Result,
         vars
<1>. QED
  BY <1>1, <1>2, <1>3, <1>4, <1>5, <1>6, <1>7, <1>8, <1>9, <1>10, <1>11, <1>12,
     <1>13, <1>14, <1>15, <1>16, <1>17, <1>18, <1>19, <1>20, <1>21, <1>22, <1>23, <1>24, <1>25
     DEF Next, Step

-----------------------------------------------------------------------------
(* IInv holds in every state of every behaviour. *)
LEMMA SpecIInv == Spec => []IInv
BY InitIInv, NextIInv, PTL DEF Spec

(* Every variable keeps its type. *)
THEOREM TypeCorrect == Spec => []TypeOK
<1>1. IInv => TypeOK
  BY DEF IInv
<1>. QED
  BY <1>1, SpecIInv, PTL

(* A record on the disk can always be rolled back: no original it lists is *)
(* without its backup, whatever was interrupted.                           *)
THEOREM RecordsAreRecoverable == Spec => []BackupsComplete
<1>1. IInv => BackupsComplete
  BY DEF IInv
<1>. QED
  BY <1>1, SpecIInv, PTL

(* The success of a verified apply means that its manifest is in place. *)
THEOREM SuccessMeansVerified == Spec => []SuccessIsVerified
<1>1. IInv => SuccessIsVerified
  BY DEF IInv, FinishIsVerified, SuccessIsVerified
<1>. QED
  BY <1>1, SpecIInv, PTL

-----------------------------------------------------------------------------
(* What a step may change.                                                 *)

LEMMA RecoveredIsManifest == IInv => Recovered \in Manifests
BY DEF IInv, TypeOK, Recovered, Manifests, File

(* Recovered at one path. *)
LEMMA RecoveredAt ==
  ASSUME IInv, NEW q \in Paths
  PROVE  /\ record = NoRecord \/ q \notin Touched(record) => Recovered[q] = live[q]
         /\ record # NoRecord /\ q \in Touched(record) =>
               Recovered[q] = IF q \in record.originals THEN backup[q] ELSE NoFile
BY DEF IInv, TypeOK, Recovered, Manifests, File

(* The steps of the engine that change a live file do it under a record of *)
(* that file.                                                              *)
LEMMA ChangesAreLogged ==
  ASSUME IInv, [Next]_vars, live' # live, NEW q \in Paths, live'[q] # live[q]
  PROVE  record # NoRecord /\ q \in Touched(record)
<1>1. PICK p \in Paths : RestoreOriginal(p) \/ RemoveAdded(p)
                         \/ CommitChanged(p) \/ CommitRemoved(p)
  BY DEF Next, Step, vars, disk, BeginApply, BeginRecovery, DeleteScratch, BackUp,
       StageBlob, RecoverWithoutRecord, RecoverFromRecord, FinishRollback, Cleanup,
       ApplyNothing, PrepareStaging, StartBackup, StartRecord, WriteRecord, FinishCommit,
       VerifySucceeds, VerifyFails, StartRollback, FinishApply, Fault, Crash, Forget
<1>2. q = p
  BY <1>1 DEF IInv, TypeOK, Manifests, RestoreOriginal, RemoveAdded, CommitChanged,
       CommitRemoved
<1>. QED
  BY <1>1, <1>2 DEF IInv, RecordStages, RecordIsCurrent, CommittedSoFar,
       RestoredSoFar, Touched, RestoreOriginal, RemoveAdded, CommitChanged, CommitRemoved

(* No step but a rollback's or an apply's last one touches the backups     *)
(* while there is a record.                                                *)
LEMMA BackupsOutliveRecord ==
  ASSUME IInv, [Next]_vars, record # NoRecord, record' # NoRecord
  PROVE  backup' = backup
BY DEF IInv, RecordStages, Next, Step, vars, disk, BeginApply, BeginRecovery,
       DeleteScratch, MayDelete, RestoreOriginal, RemoveAdded, CommitChanged,
       CommitRemoved, BackUp, StageBlob, RecoverWithoutRecord, RecoverFromRecord,
       FinishRollback, Cleanup, ApplyNothing, PrepareStaging, StartBackup, StartRecord,
       WriteRecord, FinishCommit, VerifySucceeds, VerifyFails, StartRollback, FinishApply,
       Fault, Crash, Forget

(* The log is written ahead of the changes it undoes, and kept until they  *)
(* are done or undone.                                                     *)
THEOREM LogIsWrittenAhead == Spec => WriteAheadLog
<1>1. ASSUME IInv, [Next]_vars
      PROVE  /\ \A p \in Paths : live'[p] # live[p] => record # NoRecord /\ p \in Touched(record)
             /\ record # NoRecord /\ record' # NoRecord => backup' = backup
  BY <1>1, ChangesAreLogged, BackupsOutliveRecord
<1>. QED
  BY <1>1, SpecIInv, PTL DEF Spec, WriteAheadLog

-----------------------------------------------------------------------------
(* The refinement.  Recovered does not change in any step but FinishApply: *)
(* each lemma below is about one reason why it does not.                   *)

(* The live files and the backups a record covers are not disturbed. *)
LEMMA SameDisk ==
  ASSUME live' = live, record' = record, backup' = backup
  PROVE  Recovered' = Recovered
BY DEF Recovered

(* Without a record, only the live files matter. *)
LEMMA SameLive ==
  ASSUME live' = live, record = NoRecord, record' = NoRecord
  PROVE  Recovered' = Recovered
BY DEF Recovered

(* Under a record, what a covered file holds does not matter. *)
LEMMA CoveredFile ==
  ASSUME IInv, NEW p \in Paths, record # NoRecord, p \in Touched(record),
         NEW content \in File, live' = [live EXCEPT ![p] = content],
         record' = record, backup' = backup
  PROVE  Recovered' = Recovered
<1>1. \A q \in Paths : q \notin Touched(record) => live'[q] = live[q]
  BY DEF IInv, TypeOK, Manifests
<1>. QED
  BY <1>1 DEF Recovered

(* The record is written when the backups are exact ... *)
LEMMA RecordWritten == IInv /\ WriteRecord => Recovered' = Recovered
<1> SUFFICES ASSUME IInv, WriteRecord PROVE Recovered' = Recovered
  OBVIOUS
<1>1. /\ record = NoRecord /\ record' # NoRecord
      /\ live' = live /\ backup' = backup
      /\ Touched(record') = Touched(plan) /\ record'.originals = originals
  BY NoRecordIsNoRecord DEF IInv, TypeOK, RecordStages, WriteRecord, Record, Touched
<1>2. Recovered = live /\ live = [p \in Paths |-> live[p]]
  BY <1>1 DEF Recovered, IInv, TypeOK, Manifests
<1>3. \A p \in Touched(plan) : backup[p] = live[p] /\ (p \in originals <=> live[p] # NoFile)
  BY DEF IInv, BackupIsExact, WriteRecord
<1>4. Recovered' = [p \in Paths |-> IF p \notin Touched(plan) THEN live[p]
                                    ELSE IF p \in originals THEN backup[p]
                                    ELSE NoFile]
  BY <1>1 DEF Recovered
<1>. QED
  BY <1>2, <1>3, <1>4

(* ... and leaves a rollback when every covered file is restored. *)
LEMMA RecordRolledBack == IInv /\ FinishRollback => Recovered' = Recovered
<1> SUFFICES ASSUME IInv, FinishRollback PROVE Recovered' = Recovered
  OBVIOUS
<1>1. record # NoRecord /\ record' = NoRecord /\ live' = live /\ todo = {}
  BY DEF IInv, RecordStages, FinishRollback
<1>2. \A q \in Paths : live[q] = Recovered[q]
  BY <1>1, RecoveredAt DEF IInv, RestoredSoFar, FinishRollback
<1>3. Recovered' = live /\ live \in Manifests
  BY <1>1 DEF Recovered, IInv, TypeOK
<1>. QED
  BY <1>2, <1>3, RecoveredIsManifest DEF Manifests

(* The step that removes the record of a committed apply carries out its   *)
(* plan on the recovered files.                                            *)
LEMMA RecordCommitted ==
  ASSUME IInv, FinishApply
  PROVE  /\ Recovered' = Carried(Recovered, goal, plan.changed, plan.removed)
         /\ Recovered' = live
<1>1. record # NoRecord /\ record' = NoRecord /\ live' = live
  BY DEF IInv, RecordStages, FinishApply
<1>2. Recovered' = live /\ live \in Manifests
  BY <1>1 DEF Recovered, IInv, TypeOK
<1>3. Touched(record) = Touched(plan)
  BY DEF IInv, RecordIsCurrent, FinishApply, Touched
<1>4. ASSUME NEW q \in Paths
      PROVE  live[q] = Carried(Recovered, goal, plan.changed, plan.removed)[q]
  <2>1. CASE q \in Touched(plan)
    BY <2>1 DEF IInv, CommittedSoFar, FinishApply, Result, Carried, Touched
  <2>2. CASE q \notin Touched(plan)
    BY <1>1, <1>3, <2>2, RecoveredAt DEF Carried, Touched
  <2>. QED
    BY <2>1, <2>2
<1>. QED
  BY <1>2, <1>4 DEF Carried, Manifests

(* What is asked for is known from the variables of the call, and nothing  *)
(* is asked for where no caller waits.                                     *)
LEMMA SameRequest == UNCHANGED job /\ Waits' = Waits => Request' = Request
BY DEF Request, job

LEMMA NobodyWaits == ~Waits => Request = Abstract!NoRequest
BY DEF Request, Abstract!NoRequest, EmptyManifest, Abstract!EmptyManifest

LEMMA CallIsRequest ==
  ASSUME Waits
  PROVE  /\ Request.target = goal /\ Request.how = checked
         /\ Request.changed = plan.changed /\ Request.removed = plan.removed
BY DEF Request

(* While a caller waits the request is one, which the abstract one is not. *)
LEMMA WaitingIsAsking == IInv /\ Waits => Request # Abstract!NoRequest
<1> SUFFICES ASSUME IInv, Waits PROVE Request # Abstract!NoRequest
  OBVIOUS
<1>1. Request.how # "none"
  BY CallIsRequest DEF IInv, TypeOK
<1>. QED
  BY <1>1 DEF Abstract!NoRequest

LEMMA InitImplements == Init => Abstract!Init
<1> SUFFICES ASSUME Init PROVE Abstract!Init
  OBVIOUS
<1>1. Request = Abstract!NoRequest
  BY NobodyWaits DEF Init, Waits
<1>. QED
  BY <1>1 DEF Init, Recovered, Abstract!Init, Manifests, Abstract!Manifests, File, Abstract!File

(* The call of an apply asks for the plan of its caller. *)
LEMMA CallAsks == IInv /\ BeginApply => Abstract!Ask
<1> SUFFICES ASSUME IInv, BeginApply PROVE Abstract!Ask
  OBVIOUS
<1>1. PICK target \in Manifests, how \in {"checked", "unchecked"} :
        \E p \in Plans(target, how) : \E extra \in SUBSET Paths :
           /\ plan' = [changed |-> p.changed,
                       removed |-> (p.removed \cup extra) \ p.changed]
           /\ goal' = target /\ checked' = how
  BY DEF BeginApply
<1>. PICK p \in Plans(target, how), extra \in SUBSET Paths :
           /\ plan' = [changed |-> p.changed,
                       removed |-> (p.removed \cup extra) \ p.changed]
           /\ goal' = target /\ checked' = how
  BY <1>1
<1>2. /\ p \in [changed : SUBSET Paths, removed : SUBSET Paths]
      /\ p.changed \subseteq Listed(target)
  BY PlansAreSound DEF IInv
<1>3. ~Waits /\ Waits'
  BY DEF BeginApply, Waits
<1>4. Request = Abstract!NoRequest
  BY <1>3, NobodyWaits
<1>5. Request' = [target |-> target, changed |-> p.changed,
                  removed |-> (p.removed \cup extra) \ p.changed, how |-> how]
  BY <1>1, <1>3 DEF Request
<1>6. Request' \in Abstract!Requests /\ Request'.changed \subseteq Abstract!Listed(Request'.target)
  <2>1. target \in Abstract!Manifests
    BY DEF Manifests, Abstract!Manifests, File, Abstract!File
  <2>2. Request' \in [target : Abstract!Manifests, changed : SUBSET Paths,
                      removed : SUBSET Paths, how : {"checked", "unchecked"}]
    BY <1>2, <1>5, <2>1
  <2>. QED
    BY <1>2, <1>5, <2>2 DEF Abstract!Requests, Abstract!Listed, Listed
<1>7. Recovered' = Recovered /\ outcome' = "none"
  BY SameDisk DEF BeginApply, disk
<1>. QED
  BY <1>4, <1>6, <1>7 DEF Abstract!Ask

(* The answer of success, which is given where the plan has been carried   *)
(* out: in one step the files change and the request is answered.          *)
LEMMA SuccessPublishes ==
  ASSUME IInv, Waits, ~Waits', UNCHANGED job,
         Recovered' = Carried(Recovered, goal, plan.changed, plan.removed),
         Recovered' = live, Verified, outcome' = Success
  PROVE  Abstract!Publish
<1>1. Request # Abstract!NoRequest /\ Request' = Abstract!NoRequest
  <2>1. Request # Abstract!NoRequest
    BY WaitingIsAsking
  <2>2. Request' = Abstract!NoRequest
    BY DEF Request, Abstract!NoRequest, EmptyManifest, Abstract!EmptyManifest
  <2>. QED
    BY <2>1, <2>2
<1>2. Recovered' = Abstract!Carried(Recovered, Request.target, Request.changed, Request.removed)
  BY CallIsRequest DEF Carried, Abstract!Carried
<1>3. IF Request.how = "checked"
      THEN outcome' = "verified" /\ Abstract!VerifyInstall(Recovered', Request.target)
      ELSE outcome' = "ok"
  BY CallIsRequest DEF Success, Verified, VerifyInstall, Abstract!VerifyInstall, Listed,
     Abstract!Listed
<1>. QED
  BY <1>1, <1>2, <1>3 DEF Abstract!Publish

LEMMA StepImplements == IInv /\ [Next]_vars => [Abstract!Next]_(Abstract!avars)
<1> SUFFICES ASSUME IInv, [Next]_vars PROVE [Abstract!Next]_(Abstract!avars)
  OBVIOUS
<1> USE DEF Abstract!Next, Abstract!avars
<1>1. ASSUME Recovered' = Recovered, outcome' \in {"none", "error"}, ~Waits'
      PROVE  [Abstract!Next]_(Abstract!avars)
  <2>1. Request' = Abstract!NoRequest
    BY <1>1 DEF Request, Abstract!NoRequest, EmptyManifest, Abstract!EmptyManifest
  <2>. QED
    BY <1>1, <2>1 DEF Abstract!Fail, Abstract!Forget
<1>2. ASSUME Recovered' = Recovered, outcome' = outcome, UNCHANGED job, Waits' = Waits
      PROVE  [Abstract!Next]_(Abstract!avars)
  BY <1>2, SameRequest
<1>3. CASE BeginApply
  BY <1>3, CallAsks
<1>4. CASE BeginRecovery \/ Crash
  BY <1>1, <1>4, SameDisk DEF BeginRecovery, Crash, disk, Waits
<1>5. CASE Fault
  <2>1. Recovered' = Recovered
    BY <1>5, SameDisk DEF Fault, StartRollback, disk
  <2>2. CASE pc \in {"commit", "verify"} /\ StartRollback
    BY <1>1, <2>1, <2>2 DEF StartRollback, Waits
  <2>3. CASE pc' = "idle" /\ outcome' = "error"
    BY <1>1, <2>1, <2>3 DEF Waits
  <2>4. CASE pc = "cleanup" /\ pc' = after /\ UNCHANGED <<after, job, outcome>>
    <3>1. Waits' = Waits
      BY <2>4 DEF Waits, IInv, TypeOK
    <3>. QED
      BY <1>2, <2>1, <2>4, <3>1
  <2>. QED
    BY <1>5, <2>2, <2>3, <2>4 DEF Fault
<1>6. ASSUME NEW p \in Paths, RestoreOriginal(p) \/ RemoveAdded(p)
      PROVE  [Abstract!Next]_(Abstract!avars)
  <2>1. record # NoRecord /\ p \in Touched(record) /\ NoFile \in File /\ backup[p] \in File
    BY <1>6 DEF IInv, TypeOK, RecordStages, RestoredSoFar, RestoreOriginal, RemoveAdded,
                Manifests, File
  <2>2. Recovered' = Recovered
    BY <1>6, <2>1, CoveredFile DEF RestoreOriginal, RemoveAdded
  <2>. QED
    BY <1>2, <1>6, <2>2 DEF RestoreOriginal, RemoveAdded, Waits
<1>7. ASSUME NEW p \in Paths, CommitChanged(p) \/ CommitRemoved(p)
      PROVE  [Abstract!Next]_(Abstract!avars)
  <2>1. record # NoRecord /\ p \in Touched(record) /\ NoFile \in File /\ staged[p] \in File
    BY <1>7 DEF IInv, TypeOK, RecordStages, RecordIsCurrent, CommittedSoFar, CommitChanged,
                CommitRemoved, Manifests, File, Touched
  <2>2. Recovered' = Recovered
    BY <1>7, <2>1, CoveredFile DEF CommitChanged, CommitRemoved
  <2>. QED
    BY <1>2, <1>7, <2>2 DEF CommitChanged, CommitRemoved, Waits
<1>8. ASSUME NEW p \in Paths, DeleteScratch(p) \/ BackUp(p)
      PROVE  [Abstract!Next]_(Abstract!avars)
  <2>1. Recovered' = Recovered
    BY <1>8, SameLive DEF IInv, RecordStages, DeleteScratch, MayDelete, BackUp
  <2>. QED
    BY <1>2, <1>8, <2>1 DEF DeleteScratch, BackUp, Waits
<1>9. ASSUME NEW p \in Paths, NEW content \in Contents, StageBlob(p, content)
      PROVE  [Abstract!Next]_(Abstract!avars)
  <2>1. Recovered' = Recovered
    BY <1>9, SameDisk DEF StageBlob
  <2>. QED
    BY <1>1, <1>2, <1>9, <2>1 DEF StageBlob, Waits
<1>10. CASE RecoverWithoutRecord \/ RecoverFromRecord \/ Cleanup
  <2>1. Recovered' = Recovered /\ UNCHANGED <<job, outcome, after>>
    BY <1>10, SameDisk DEF RecoverWithoutRecord, RecoverFromRecord, Cleanup, disk
  <2>2. Waits' = Waits
    BY <1>10, <2>1 DEF RecoverWithoutRecord, RecoverFromRecord, Cleanup, Waits, IInv, TypeOK
  <2>. QED
    BY <1>2, <2>1, <2>2
<1>11. CASE PrepareStaging \/ StartBackup \/ StartRecord \/ FinishCommit \/ VerifySucceeds
  BY <1>2, <1>11, SameDisk DEF PrepareStaging, StartBackup, StartRecord, FinishCommit,
     VerifySucceeds, disk, Waits
<1>12. CASE VerifyFails
  BY <1>1, <1>12, SameDisk DEF VerifyFails, StartRollback, disk, Waits
<1>13. CASE FinishRollback
  BY <1>2, <1>13, RecordRolledBack DEF FinishRollback, Waits
<1>14. CASE WriteRecord
  BY <1>2, <1>14, RecordWritten DEF WriteRecord, Waits
<1>15. CASE ApplyNothing
  <2>1. Recovered' = Recovered /\ Recovered = live /\ UNCHANGED job /\ Waits /\ ~Waits'
    BY <1>15, SameDisk DEF ApplyNothing, disk, IInv, RecordStages, Recovered, Waits
  <2>2. CASE Verified
    <3>1. Recovered' = Carried(Recovered, goal, plan.changed, plan.removed)
      BY <1>15, <2>1 DEF ApplyNothing, PlanIsEmpty, IInv, TypeOK, Manifests, Carried
    <3>2. outcome' = Success
      BY <1>15, <2>2 DEF ApplyNothing
    <3>. QED
      BY <2>1, <2>2, <3>1, <3>2, SuccessPublishes
  <2>3. CASE ~Verified
    BY <1>1, <1>15, <2>1, <2>3 DEF ApplyNothing
  <2>. QED
    BY <2>2, <2>3
<1>16. CASE FinishApply
  <2>1. Waits /\ ~Waits' /\ UNCHANGED job /\ outcome' = Success
    BY <1>16 DEF FinishApply, Waits
  <2>2. Verified
    BY <1>16 DEF FinishApply, IInv, FinishIsVerified
  <2>. QED
    BY <1>16, <2>1, <2>2, RecordCommitted, SuccessPublishes
<1>17. CASE UNCHANGED vars
  BY <1>2, <1>17, SameDisk DEF vars, disk, Waits
<1>. QED
  BY <1>3, <1>4, <1>5, <1>6, <1>7, <1>8, <1>9, <1>10, <1>11, <1>12, <1>13, <1>14, <1>15,
     <1>16, <1>17
     DEF Next, Step

(* The engine implements the atomic update: an installation seen through   *)
(* recovery only ever changes by the whole plan that its caller asked for, *)
(* in the step in which the apply answers success.                         *)
THEOREM Implementation == Spec => ImplementsAtomicUpdate
BY InitImplements, StepImplements, SpecIInv, PTL
   DEF Spec, ImplementsAtomicUpdate, Abstract!Spec
=============================================================================
