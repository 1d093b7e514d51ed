------------------------- MODULE UpdateTransaction -------------------------
(***************************************************************************)
(* The transactional apply engine of launcher/update-core/src/lib.rs on    *)
(* one installation directory: apply_checked, commit_transaction,          *)
(* rollback_transaction and recover_interrupted_apply, one action for each *)
(* effect on the disk, so that the process may be killed (Crash) or an     *)
(* operation of the file system may fail (Fault) between any two of them.  *)
(* The caller holds the installation lock, so one process acts at a time.  *)
(***************************************************************************)
EXTENDS ManifestPlan, Naturals

CONSTANTS NoRecord,    \* the transaction record when there is no file
          MaxApplies,  \* bound on the applies of a behaviour
          MaxFaults,   \* bound on its failed file operations
          MaxCrashes   \* bound on its killed processes

Record == [changed : SUBSET Paths, removed : SUBSET Paths, originals : SUBSET Paths]

ASSUME NoRecordIsNoRecord == NoRecord \notin Record
ASSUME BoundsAreNaturals == MaxApplies \in Nat /\ MaxFaults \in Nat /\ MaxCrashes \in Nat

VARIABLES live,     \* disk: the managed files of install_dir
          staged,   \* disk: the transaction directory's staged/
          backup,   \* disk: the transaction directory's backup/
          record,   \* disk: its transaction record
          pc,       \* where the process is ("down": there is none)
          after,    \* where it goes when a recovery or a rollback is over
          todo,     \* the paths the current loop has still to visit
          goal,     \* the manifest the running apply installs
          plan,     \* its plan: changed and effective_removed
          checked,  \* whether it is apply_verified
          originals,\* original_files, as the backup loop collects them
          outcome,  \* the answer of the last call
          applies, faults, crashes

disk == <<live, staged, backup, record>>
job == <<goal, plan, checked>>
bounds == <<applies, faults, crashes>>
vars == <<disk, pc, after, todo, job, originals, outcome, bounds>>

Stages == {"down", "idle", "recover", "prepare", "stage", "backup", "record",
           "commit", "verify", "finish", "rollback", "cleanup"}

TypeOK ==
    /\ live \in Manifests /\ staged \in Manifests /\ backup \in Manifests
    /\ record \in Record \cup {NoRecord}
    /\ pc \in Stages
    /\ after \in {"idle", "prepare"}
    /\ todo \in SUBSET Paths
    /\ goal \in Manifests
    /\ plan \in [changed : SUBSET Paths, removed : SUBSET Paths]
    /\ checked \in {"checked", "unchecked"}
    /\ originals \in SUBSET Paths
    /\ outcome \in {"none", "ok", "verified", "error"}
    /\ applies \in Nat /\ faults \in Nat /\ crashes \in Nat

Touched(r) == r.changed \cup r.removed

NoPlan == [changed |-> {}, removed |-> {}]

Init ==
    /\ live \in Manifests
    /\ staged = EmptyManifest /\ backup = EmptyManifest
    /\ record = NoRecord
    /\ pc = "idle" /\ after = "idle" /\ todo = {}
    /\ goal = EmptyManifest /\ checked = "unchecked" /\ plan = NoPlan /\ originals = {}
    /\ outcome = "none"
    /\ applies = 0 /\ faults = 0 /\ crashes = 0

-----------------------------------------------------------------------------
(* Calls of the engine.                                                    *)

(* The variables of a call end with it, or with its process.               *)
Forget ==
    /\ goal' = EmptyManifest /\ checked' = "unchecked"
    /\ plan' = NoPlan /\ originals' = {}

(* The plans the callers build.  A verified apply has one made by          *)
(* diff_verified, or by diff against a snapshot of the directory, which is *)
(* the same plan; the others may have one made by diff against a manifest  *)
(* that no longer describes the directory.                                 *)
Plans(target, how) ==
    {DiffVerified(known, target, live) : known \in Manifests}
    \cup (IF how = "checked" THEN {}
          ELSE {Diff(known, target) : known \in Manifests})

(* A call of apply_checked.  The launcher's own updates add files they     *)
(* supersede to the removals, also some that the plan writes: the engine   *)
(* keeps effective_removed only.                                           *)
BeginApply ==
    /\ pc = "idle"
    /\ applies < MaxApplies
    /\ \E target \in Manifests, how \in {"checked", "unchecked"} :
        \E p \in Plans(target, how) :
        \E extra \in SUBSET (Paths \ (Listed(target) \ p.changed)) :
            /\ plan' = [changed |-> p.changed,
                        removed |-> (p.removed \cup extra) \ p.changed]
            /\ goal' = target /\ checked' = how
    /\ applies' = applies + 1
    /\ outcome' = "none"
    /\ pc' = "recover" /\ after' = "prepare"
    /\ UNCHANGED <<disk, todo, originals, faults, crashes>>

(* The launcher is started, or a flow of a running launcher begins with    *)
(* recover_interrupted_updates.                                            *)
BeginRecovery ==
    /\ pc \in {"down", "idle"}
    /\ pc' = "recover" /\ after' = "idle"
    /\ outcome' = "none"
    /\ todo' = {} /\ Forget
    /\ UNCHANGED <<disk, bounds>>

-----------------------------------------------------------------------------
(* remove_dir_all on the transaction directory, file by file.  Recovery    *)
(* does it only when it finds no record.                                   *)

PlanIsEmpty == plan.changed = {} /\ plan.removed = {}

NoScratch == staged = EmptyManifest /\ backup = EmptyManifest

DeletingStages == {"recover", "prepare", "cleanup"}

(* Faulty variant: the directory is removed whether or not it has a record. *)
MayDeleteRecorded == pc \in DeletingStages

MayDelete ==
    /\ pc \in DeletingStages /\ record = NoRecord
    /\ pc = "prepare" => ~PlanIsEmpty

DeleteScratch(p) ==
    /\ MayDelete
    /\ staged[p] # NoFile \/ backup[p] # NoFile
    /\ staged' = [staged EXCEPT ![p] = NoFile]
    /\ backup' = [backup EXCEPT ![p] = NoFile]
    /\ UNCHANGED <<live, record, pc, after, todo, job, originals, outcome, bounds>>

RecoverWithoutRecord ==
    /\ pc = "recover" /\ record = NoRecord /\ NoScratch
    /\ pc' = after
    /\ UNCHANGED <<disk, after, todo, job, originals, outcome, bounds>>

RecoverFromRecord ==
    /\ pc = "recover" /\ record # NoRecord
    /\ pc' = "rollback" /\ todo' = Touched(record)
    /\ UNCHANGED <<disk, after, job, originals, outcome, bounds>>

-----------------------------------------------------------------------------
(* rollback_transaction.                                                   *)

(* Faulty variant: the backup is moved, not copied, so that a rollback     *)
(* cannot be repeated.                                                     *)
MoveOriginal(p) ==
    /\ pc = "rollback" /\ p \in todo
    /\ p \in record.originals /\ backup[p] # NoFile
    /\ live' = [live EXCEPT ![p] = backup[p]]
    /\ backup' = [backup EXCEPT ![p] = NoFile]
    /\ todo' = todo \ {p}
    /\ UNCHANGED <<staged, record, pc, after, job, originals, outcome, bounds>>

(* The backup is copied aside and renamed over the live file: one effect.  *)
RestoreOriginal(p) ==
    /\ pc = "rollback" /\ p \in todo
    /\ p \in record.originals /\ backup[p] # NoFile
    /\ live' = [live EXCEPT ![p] = backup[p]]
    /\ todo' = todo \ {p}
    /\ UNCHANGED <<staged, backup, record, pc, after, job, originals, outcome, bounds>>

RemoveAdded(p) ==
    /\ pc = "rollback" /\ p \in todo
    /\ p \notin record.originals
    /\ live' = [live EXCEPT ![p] = NoFile]
    /\ todo' = todo \ {p}
    /\ UNCHANGED <<staged, backup, record, pc, after, job, originals, outcome, bounds>>

(* Faulty variant: the record outlives the rollback. *)
FinishRollbackKeepingRecord ==
    /\ pc = "rollback" /\ todo = {}
    /\ pc' = "recover"
    /\ UNCHANGED <<disk, after, todo, job, originals, outcome, bounds>>

FinishRollback ==
    /\ pc = "rollback" /\ todo = {}
    /\ record' = NoRecord
    /\ pc' = "cleanup"
    /\ UNCHANGED <<live, staged, backup, after, todo, job, originals, outcome, bounds>>

Cleanup ==
    /\ pc = "cleanup" /\ NoScratch
    /\ pc' = after
    /\ UNCHANGED <<disk, after, todo, job, originals, outcome, bounds>>

-----------------------------------------------------------------------------
(* apply_checked.                                                          *)

Success == IF checked = "checked" THEN "verified" ELSE "ok"

Verified == checked = "checked" => VerifyInstall(live, goal)

(* An empty plan is only verified. *)
ApplyNothing ==
    /\ pc = "prepare" /\ PlanIsEmpty
    /\ pc' = "idle"
    /\ outcome' = IF Verified THEN Success ELSE "error"
    /\ UNCHANGED <<disk, after, todo, job, originals, bounds>>

PrepareStaging ==
    /\ pc = "prepare" /\ ~PlanIsEmpty /\ NoScratch
    /\ pc' = "stage" /\ todo' = plan.changed
    /\ UNCHANGED <<disk, after, job, originals, outcome, bounds>>

(* The size and hash checks after a fetch. *)
Accepts(p, content) == content = goal[p]

(* One blob is fetched into staged/ and checked; the source may deliver    *)
(* any bytes.                                                              *)
StageBlob(p, content) ==
    /\ pc = "stage" /\ p \in todo
    /\ staged' = [staged EXCEPT ![p] = content]
    /\ IF Accepts(p, content)
       THEN todo' = todo \ {p} /\ UNCHANGED <<pc, outcome, job, originals>>
       ELSE pc' = "idle" /\ outcome' = "error" /\ todo' = {} /\ Forget
    /\ UNCHANGED <<live, backup, record, after, bounds>>

StartBackup ==
    /\ pc = "stage" /\ todo = {}
    /\ pc' = "backup"
    /\ todo' = plan.changed \cup plan.removed
    /\ originals' = {}
    /\ UNCHANGED <<disk, after, job, outcome, bounds>>

(* Copies one touched file that exists to backup/. *)
BackUp(p) ==
    /\ pc = "backup" /\ p \in todo
    /\ backup' = [backup EXCEPT ![p] = live[p]]
    /\ originals' = IF live[p] = NoFile THEN originals ELSE originals \cup {p}
    /\ todo' = todo \ {p}
    /\ UNCHANGED <<live, staged, record, pc, after, job, outcome, bounds>>

(* Faulty variant: the record is written before every backup is made.      *)
StartRecordEarly ==
    /\ pc = "backup"
    /\ pc' = "record"
    /\ UNCHANGED <<disk, after, todo, job, originals, outcome, bounds>>

StartRecord ==
    /\ pc = "backup" /\ todo = {}
    /\ pc' = "record"
    /\ UNCHANGED <<disk, after, todo, job, originals, outcome, bounds>>

(* Faulty variant: the commit starts without a record. *)
SkipRecord ==
    /\ pc = "record"
    /\ pc' = "commit" /\ todo' = Touched(plan)
    /\ UNCHANGED <<disk, after, job, originals, outcome, bounds>>

(* write_transaction_record: written aside, then renamed into place.       *)
WriteRecord ==
    /\ pc = "record"
    /\ record' = [changed |-> plan.changed, removed |-> plan.removed,
                  originals |-> originals]
    /\ pc' = "commit" /\ todo' = Touched(plan)
    /\ UNCHANGED <<live, staged, backup, after, job, originals, outcome, bounds>>

(* commit_transaction renames the staged files into place, and then        *)
(* removes the files that go.                                              *)
CommitChanged(p) ==
    /\ pc = "commit" /\ p \in todo \cap plan.changed
    /\ live' = [live EXCEPT ![p] = staged[p]]
    /\ staged' = [staged EXCEPT ![p] = NoFile]
    /\ todo' = todo \ {p}
    /\ UNCHANGED <<backup, record, pc, after, job, originals, outcome, bounds>>

CommitRemoved(p) ==
    /\ pc = "commit" /\ p \in todo /\ todo \cap plan.changed = {}
    /\ live' = [live EXCEPT ![p] = NoFile]
    /\ todo' = todo \ {p}
    /\ UNCHANGED <<staged, backup, record, pc, after, job, originals, outcome, bounds>>

(* Faulty variant: the commit is over when the files are written. *)
FinishCommitOfChanged ==
    /\ pc = "commit" /\ todo \cap plan.changed = {}
    /\ pc' = "verify" /\ todo' = {}
    /\ UNCHANGED <<disk, after, job, originals, outcome, bounds>>

FinishCommit ==
    /\ pc = "commit" /\ todo = {}
    /\ pc' = "verify"
    /\ UNCHANGED <<disk, after, todo, job, originals, outcome, bounds>>

(* Faulty variant: verify_install is not called after the commit. *)
VerifyWithoutLooking ==
    /\ pc = "verify"
    /\ pc' = "finish"
    /\ UNCHANGED <<disk, after, todo, job, originals, outcome, bounds>>

VerifySucceeds ==
    /\ pc = "verify" /\ Verified
    /\ pc' = "finish"
    /\ UNCHANGED <<disk, after, todo, job, originals, outcome, bounds>>

(* Faulty variant: the failed stage is resumed after the rollback. *)
StartRollbackAndResume ==
    /\ pc' = "rollback" /\ after' = pc
    /\ todo' = Touched(record)
    /\ outcome' = "error"
    /\ UNCHANGED <<disk, job, originals>>

(* The error path of commit and verification: rollback_transaction with    *)
(* the record in memory, then the error is returned.                       *)
StartRollback ==
    /\ pc' = "rollback" /\ after' = "idle"
    /\ todo' = Touched(record)
    /\ outcome' = "error"
    /\ Forget
    /\ UNCHANGED disk

VerifyFails ==
    /\ pc = "verify" /\ ~Verified
    /\ StartRollback
    /\ UNCHANGED bounds

(* The record's removal is what makes the update definitive. *)
FinishApply ==
    /\ pc = "finish"
    /\ record' = NoRecord
    /\ outcome' = Success
    /\ pc' = "cleanup" /\ after' = "idle"
    /\ UNCHANGED <<live, staged, backup, todo, job, originals, bounds>>

-----------------------------------------------------------------------------
(* Failures.                                                               *)

(* An operation of the file system, or the fetch of a blob, fails.  The    *)
(* error is returned, except by commit and verification, which roll back,  *)
(* and by the cleanup after a record's removal, whose result is ignored.   *)
(* No error path removes anything.                                         *)
Fault ==
    /\ faults < MaxFaults
    /\ faults' = faults + 1
    /\ UNCHANGED <<applies, crashes>>
    /\ \/ /\ pc \in {"commit", "verify"}
          /\ StartRollback
       \/ /\ pc \in {"recover", "prepare", "stage", "backup", "record", "finish", "rollback"}
          /\ pc' = "idle" /\ outcome' = "error" /\ todo' = {} /\ Forget
          /\ UNCHANGED <<disk, after>>
       \/ /\ pc = "cleanup"
          /\ pc' = after
          /\ UNCHANGED <<disk, after, todo, job, originals, outcome>>

(* The process is killed; what is on the disk stays. *)
Crash ==
    /\ pc # "down"
    /\ crashes < MaxCrashes
    /\ crashes' = crashes + 1
    /\ pc' = "down" /\ after' = "idle" /\ todo' = {} /\ Forget
    /\ outcome' = "none"
    /\ UNCHANGED <<disk, applies, faults>>

-----------------------------------------------------------------------------
(* One step of a call that is under way.                                   *)
Step ==
    \/ \E p \in Paths :
          \/ DeleteScratch(p)
          \/ RestoreOriginal(p) \/ RemoveAdded(p)
          \/ BackUp(p)
          \/ CommitChanged(p) \/ CommitRemoved(p)
          \/ \E content \in Contents : StageBlob(p, content)
    \/ RecoverWithoutRecord \/ RecoverFromRecord
    \/ FinishRollback \/ Cleanup
    \/ ApplyNothing \/ PrepareStaging \/ StartBackup \/ StartRecord \/ WriteRecord
    \/ FinishCommit \/ VerifySucceeds \/ VerifyFails \/ FinishApply

Next == BeginApply \/ BeginRecovery \/ Step \/ Fault \/ Crash

Spec == Init /\ [][Next]_vars

(* A running call goes on, and an interrupted transaction is met by a      *)
(* later recovery: the launcher is started again after a crash, and each   *)
(* of its flows begins with one.                                           *)
Fairness ==
    /\ WF_vars(Step)
    /\ WF_vars(record # NoRecord /\ BeginRecovery)

FairSpec == Spec /\ Fairness

-----------------------------------------------------------------------------
(* Properties.                                                             *)

(* The installation as a recovery would leave it: what the next launch, or *)
(* the next apply, starts from.                                            *)
Recovered ==
    IF record = NoRecord THEN live
    ELSE [p \in Paths |-> IF p \notin Touched(record) THEN live[p]
                          ELSE IF p \in record.originals THEN backup[p]
                          ELSE NoFile]

(* Whatever the record says can be restored: each original it lists is a   *)
(* path of its plan and has its backup (rollback_transaction fails, and    *)
(* the installation stays torn, when one is missing).                      *)
BackupsComplete ==
    record # NoRecord =>
        /\ record.originals \subseteq Touched(record)
        /\ \A p \in record.originals : backup[p] # NoFile

(* Write-ahead: a file of the installation changes only while a record     *)
(* that covers it is on the disk, so no fetch, size, hash or backup error  *)
(* can have touched it; and the backups the record relies on stay as they  *)
(* are until it is gone, also while an interrupted rollback is repeated.   *)
WriteAheadLog ==
    [][ /\ \A p \in Paths : live'[p] # live[p] => record # NoRecord /\ p \in Touched(record)
        /\ record # NoRecord /\ record' # NoRecord => backup' = backup ]_<<live, backup, record>>

(* A verified apply that answered success left every file of its manifest  *)
(* in place, its metadata entries included.                                *)
SuccessIsVerified ==
    outcome = "verified" => VerifyInstall(live, goal)

(* The apply a caller waits for, with what it asked for; the answer of one *)
(* that failed is certain before its rollback is over.                     *)
Waits ==
    \/ pc \in {"prepare", "stage", "backup", "record", "commit", "verify", "finish"}
    \/ pc \in {"recover", "rollback", "cleanup"} /\ after = "prepare"

Request ==
    [target |-> IF Waits THEN goal ELSE EmptyManifest,
     changed |-> IF Waits THEN plan.changed ELSE {},
     removed |-> IF Waits THEN plan.removed ELSE {},
     how |-> IF Waits THEN checked ELSE "none"]

(* With Recovered as its state, the engine implements the atomic update:   *)
(* the plan an apply was called with takes effect as a whole, no more and  *)
(* no less, in the step that removes the record and answers success; and   *)
(* crashes, faults, rollbacks and recoveries are invisible.                *)
Abstract == INSTANCE AtomicUpdate WITH installed <- Recovered, request <- Request
ImplementsAtomicUpdate == Abstract!Spec

(* No call of the engine runs for ever, and an interrupted transaction is  *)
(* eventually settled, even if the recovery is itself interrupted or fails.*)
EngineSettles ==
    record # NoRecord \/ pc \notin {"idle", "down"} ~> record = NoRecord /\ pc \in {"idle", "down"}
=============================================================================
