-------------------------- MODULE LauncherHandoff --------------------------
(***************************************************************************)
(* How the launcher replaces itself: the launcher processes of             *)
(* src-tauri/src/main.rs (start-up recovery, hand-off, launcher-only       *)
(* update), the update helper of self-update/src/main.rs, and the setup    *)
(* program that runs the helper with --recover-installation.  They share   *)
(* one installation directory and its lock, and each may be killed between *)
(* any two of its effects on the disk.  The launcher-only update is        *)
(* committed by the engine that UpdateTransaction models in full; here its *)
(* commit and its rollback are file by file, its staging is left out.      *)
(***************************************************************************)
EXTENDS Integers, FiniteSets

CONSTANTS Procs,       \* slots for the processes alive at a time
          NoProc,      \* the owner of a free lock
          NoRecord,    \* the transaction record when there is no file
          MaxRelease,  \* the releases are 1 .. MaxRelease
          MaxCrashes, MaxFaults, MaxSetups \* bounds of a behaviour

ASSUME NoProcIsNoProcess == NoProc \notin Procs
ASSUME LimitsAreNaturals ==
    /\ MaxRelease \in Nat \ {0}
    /\ MaxCrashes \in Nat /\ MaxFaults \in Nat /\ MaxSetups \in Nat

Releases == 1 .. MaxRelease
Absent == 0

(* The bytes of an executable: those published for a release, or the same  *)
(* with the signature codesign wrote into them.                            *)
Resigned(release) == MaxRelease + release
ReleaseOf(bytes) == IF bytes > MaxRelease THEN bytes - MaxRelease ELSE bytes

(* The files of one launcher-only update, in the order of its commit.      *)
Parts == {"helper", "staged", "pendingManifest", "pendingVersion"}
CommitRank == [helper |-> 1, staged |-> 2, pendingManifest |-> 3, pendingVersion |-> 4]

Files == Parts \cup {"launcher", "backup", "manifest", "version", "resume"}

(* The absence of a record is none of the records. *)
ASSUME NoRecordIsNoRecord == NoRecord \notin [Parts -> 0 .. MaxRelease]

VARIABLES disk,    \* the release each file is of, or Absent
          record,  \* the transaction record: what the update's files were
          lock,    \* the process that owns the installation lock
          pc,      \* where each process is; "gone" is a free slot
          caller,  \* the process a helper waits for
          target,  \* the release the running launcher is installing
          astray,  \* history: whether a helper has promoted a staged launcher
                   \* that a start-up would have refused, or setup has copied
                   \* its baseline over an update that was not settled
          signs,   \* whether replacing the launcher re-signs it (macOS)
          crashes, faults, setups

bounds == <<crashes, faults, setups, signs>>
vars == <<disk, record, lock, pc, caller, target, astray, bounds>>

LauncherStages ==
    {"start", "recover", "handoff", "adopt", "clear staged", "clear manifest",
     "clear version", "hand over", "resume", "scan", "run", "prepare", "commit",
     "undo", "restart", "reopen", "exit"}
HelperStages ==
    {"validate", "wait", "lock", "replace", "unlink", "sign", "promote", "relaunch"}
SetupStages == {"setup", "setup recover", "setup clear", "setup gap", "setup copy"}

TypeOK ==
    /\ disk \in [Files -> 0 .. 2 * MaxRelease]
    /\ \A f \in Files \ {"launcher", "backup"} : disk[f] <= MaxRelease
    /\ record \in [Parts -> 0 .. MaxRelease] \cup {NoRecord}
    /\ lock \in Procs \cup {NoProc}
    /\ pc \in [Procs -> LauncherStages \cup HelperStages \cup SetupStages \cup {"gone"}]
    /\ caller \in [Procs -> Procs \cup {NoProc}]
    /\ target \in 0 .. MaxRelease
    /\ astray \in BOOLEAN
    /\ signs \in BOOLEAN
    /\ crashes \in Nat /\ faults \in Nat /\ setups \in Nat

Init ==
    /\ disk = [f \in Files |->
                 IF f \in {"launcher", "helper", "manifest", "version"} THEN 1 ELSE Absent]
    /\ record = NoRecord
    /\ lock = NoProc
    /\ pc = [p \in Procs |-> "gone"]
    /\ caller = [p \in Procs |-> NoProc]
    /\ target = Absent
    /\ astray = FALSE
    /\ signs \in BOOLEAN
    /\ crashes = 0 /\ faults = 0 /\ setups = 0

-----------------------------------------------------------------------------
(* Processes and the lock.                                                 *)

Free(p) ==
    /\ pc[p] = "gone"
    /\ \A h \in Procs : pc[h] \in {"validate", "wait"} => caller[h] # p

(* The user opens a program only while a slot is left for its helper.      *)
RoomForTwo == Cardinality({p \in Procs : Free(p)}) >= 2

GoTo(p, stage) == pc' = [pc EXCEPT ![p] = stage]

Write(file, content) == disk' = [disk EXCEPT ![file] = content]

(* The process ends; the system releases its lock. *)
Leave(p) ==
    /\ GoTo(p, "gone")
    /\ lock' = IF lock = p THEN NoProc ELSE lock
    /\ caller' = [caller EXCEPT ![p] = NoProc]

OpenLauncher(p) ==
    /\ Free(p) /\ RoomForTwo
    /\ GoTo(p, "start")
    /\ UNCHANGED <<disk, record, lock, caller, target, astray, bounds>>

OpenSetup(p) ==
    /\ Free(p) /\ RoomForTwo
    /\ setups < MaxSetups /\ setups' = setups + 1
    /\ GoTo(p, "setup")
    /\ UNCHANGED <<disk, record, lock, caller, target, astray, crashes, faults, signs>>

(* InstallationLock::try_acquire: whoever finds it taken gives up. *)
TryLock(p, stage, next) ==
    /\ pc[p] = stage
    /\ UNCHANGED <<disk, record, target, astray, bounds>>
    /\ IF lock = NoProc
       THEN lock' = p /\ GoTo(p, next) /\ UNCHANGED caller
       ELSE Leave(p)

StartLauncher(p) == TryLock(p, "start", "recover")
StartSetup(p) == TryLock(p, "setup", "setup recover")
RelockSetup(p) == TryLock(p, "setup gap", "setup copy")

-----------------------------------------------------------------------------
(* recover_interrupted_apply, at start-up, by the scan, by the next apply, *)
(* by setup, and rollback_transaction in the failed apply itself.          *)

AfterRecovery ==
    [s \in {"recover", "scan", "undo", "setup recover"} |->
        CASE s = "recover" -> "handoff"
          [] s = "setup recover" -> "setup clear"
          [] OTHER -> "run"]

Recovers(p) == pc[p] \in {"prepare"} \cup DOMAIN AfterRecovery

RestorePart(p, f) ==
    /\ Recovers(p) /\ record # NoRecord
    /\ disk[f] # record[f]
    /\ Write(f, record[f])
    /\ UNCHANGED <<record, lock, pc, caller, target, astray, bounds>>

DropRecord(p) ==
    /\ Recovers(p) /\ record # NoRecord
    /\ \A f \in Parts : disk[f] = record[f]
    /\ record' = NoRecord
    /\ UNCHANGED <<disk, lock, pc, caller, target, astray, bounds>>

Recovered(p) ==
    /\ pc[p] \in DOMAIN AfterRecovery /\ record = NoRecord
    /\ GoTo(p, AfterRecovery[pc[p]])
    /\ UNCHANGED <<disk, record, lock, caller, target, astray, bounds>>

-----------------------------------------------------------------------------
(* The hand-off at start-up.                                               *)

(* installed_launcher_supersedes_staged *)
InstalledSupersedes ==
    /\ disk.version # Absent
    /\ disk.pendingVersion <= disk.version
    /\ \A f \in {"manifest", "launcher", "helper"} : disk[f] = disk.version

(* staged_launcher_update_state *)
StagedState ==
    IF \/ \E f \in Parts : disk[f] = Absent
       \/ disk.pendingManifest # disk.pendingVersion
    THEN "invalid"
    ELSE IF InstalledSupersedes THEN "superseded"
    ELSE IF disk.staged = disk.pendingManifest /\ disk.helper = disk.pendingManifest
         THEN "ready" ELSE "invalid"

(* The start-up recovers first, and hands over only what is ready. *)
ReadyToPromote == record = NoRecord /\ StagedState = "ready"

PendingOrInstalled(pending, installed) ==
    IF disk[pending] # Absent THEN disk[pending] ELSE disk[installed]

(* Faulty variant: the installed launcher is not compared. *)
MetadataIsPromoted ==
    PendingOrInstalled("pendingManifest", "manifest")
        = PendingOrInstalled("pendingVersion", "version")

(* recover_launcher_metadata's checks *)
LauncherIsPromoted ==
    LET manifest == PendingOrInstalled("pendingManifest", "manifest")
        version == PendingOrInstalled("pendingVersion", "version")
    IN /\ manifest # Absent /\ version = manifest
       /\ disk.launcher = manifest /\ disk.helper = manifest

NoPending == disk.pendingManifest = Absent /\ disk.pendingVersion = Absent

(* Faulty variant: pending metadata without a staged launcher is ignored.  *)
DecideOnStagedOnly(p) ==
    /\ pc[p] = "handoff"
    /\ GoTo(p, IF disk.staged = Absent THEN "resume"
               ELSE IF StagedState = "ready" THEN "hand over" ELSE "clear staged")
    /\ UNCHANGED <<disk, record, lock, caller, target, astray, bounds>>

(* Faulty variant: pending metadata without a staged launcher is discarded. *)
DecideWithoutAdopting(p) ==
    /\ pc[p] = "handoff"
    /\ GoTo(p, IF disk.staged = Absent /\ NoPending THEN "resume"
               ELSE IF StagedState = "ready" THEN "hand over" ELSE "clear staged")
    /\ UNCHANGED <<disk, record, lock, caller, target, astray, bounds>>

(* hand_off_pending_launcher_update decides. *)
Decide(p) ==
    /\ pc[p] = "handoff"
    /\ GoTo(p, IF disk.staged # Absent
               THEN IF StagedState = "ready" THEN "hand over" ELSE "clear staged"
               ELSE IF NoPending THEN "resume"
               ELSE IF LauncherIsPromoted THEN "adopt" ELSE "clear staged")
    /\ UNCHANGED <<disk, record, lock, caller, target, astray, bounds>>

(* clear_incomplete_launcher_update removes the three files in this order; *)
(* a removal that fails is logged and the next one tried (Failed).         *)
ClearStages == [s \in {"clear staged", "clear manifest", "clear version"} |->
    CASE s = "clear staged" -> [file |-> "staged", next |-> "clear manifest"]
      [] s = "clear manifest" -> [file |-> "pendingManifest", next |-> "clear version"]
      [] OTHER -> [file |-> "pendingVersion", next |-> "resume"]]

(* Faulty variant: only the metadata is removed. *)
ClearMetadata(p) ==
    /\ pc[p] \in DOMAIN ClearStages
    /\ IF pc[p] = "clear staged" THEN UNCHANGED disk
       ELSE Write(ClearStages[pc[p]].file, Absent)
    /\ GoTo(p, ClearStages[pc[p]].next)
    /\ UNCHANGED <<record, lock, caller, target, astray, bounds>>

Clear(p) ==
    /\ pc[p] \in DOMAIN ClearStages
    /\ Write(ClearStages[pc[p]].file, Absent)
    /\ GoTo(p, ClearStages[pc[p]].next)
    /\ UNCHANGED <<record, lock, caller, target, astray, bounds>>

(* start_update_helper: from the hand-off, or to reopen after an update.   *)
SpawnHelper(p) ==
    /\ pc[p] \in {"hand over", "reopen"}
    /\ \E h \in Procs :
          /\ Free(h)
          /\ pc' = [pc EXCEPT ![p] = "exit", ![h] = "validate"]
          /\ caller' = [caller EXCEPT ![h] = p]
    /\ UNCHANGED <<disk, record, lock, target, astray, bounds>>

Exit(p) ==
    /\ pc[p] = "exit"
    /\ Leave(p)
    /\ UNCHANGED <<disk, record, target, astray, bounds>>

(* read_launcher_resume, and its removal by the set-up of the window. *)
Resume(p) ==
    /\ pc[p] = "resume"
    /\ disk' = [disk EXCEPT !.resume = IF @ = disk.version THEN Absent ELSE @]
    /\ GoTo(p, "scan")
    /\ UNCHANGED <<record, lock, caller, target, astray, bounds>>

-----------------------------------------------------------------------------
(* A launcher-only update.                                                 *)

(* Faulty variant: an update to the installed release is accepted. *)
BeginSameUpdate(p, release) ==
    /\ pc[p] = "run"
    /\ release >= disk.version /\ release >= target
    /\ target' = release
    /\ GoTo(p, "prepare")
    /\ UNCHANGED <<disk, record, lock, caller, astray, bounds>>

(* Faulty variant: any other release is accepted as an update. *)
BeginOtherUpdate(p, release) ==
    /\ pc[p] = "run"
    /\ release # disk.version
    /\ target' = release
    /\ GoTo(p, "prepare")
    /\ UNCHANGED <<disk, record, lock, caller, astray, bounds>>

(* check_launcher_update offers a release newer than the version file says *)
(* and the user accepts it; the channel's releases only grow.              *)
BeginUpdate(p, release) ==
    /\ pc[p] = "run"
    /\ release > disk.version /\ release >= target
    /\ target' = release
    /\ GoTo(p, "prepare")
    /\ UNCHANGED <<disk, record, lock, caller, astray, bounds>>

(* Faulty variant: the record forgets the files the update adds. *)
BeginCommitOfExisting(p) ==
    /\ pc[p] = "prepare" /\ record = NoRecord
    /\ record' = [f \in {g \in Parts : disk[g] # Absent} |-> disk[f]]
    /\ GoTo(p, "commit")
    /\ UNCHANGED <<disk, lock, caller, target, astray, bounds>>

(* The transaction record is written once everything is staged. *)
BeginCommit(p) ==
    /\ pc[p] = "prepare" /\ record = NoRecord
    /\ record' = [f \in Parts |-> disk[f]]
    /\ GoTo(p, "commit")
    /\ UNCHANGED <<disk, lock, caller, target, astray, bounds>>

CommitPart(p, f) ==
    /\ pc[p] = "commit"
    /\ disk[f] # target
    /\ \A g \in Parts : CommitRank[g] < CommitRank[f] => disk[g] = target
    /\ Write(f, target)
    /\ UNCHANGED <<record, lock, pc, caller, target, astray, bounds>>

Committed == \A f \in Parts : disk[f] = target

FinishUpdate(p) ==
    /\ pc[p] = "commit" /\ Committed
    /\ record' = NoRecord
    /\ GoTo(p, "restart")
    /\ UNCHANGED <<disk, lock, caller, target, astray, bounds>>

(* restart_updated_launcher: it refuses what is not ready, records the     *)
(* continuation, and starts the helper (SpawnHelper).                      *)
WriteResume(p) ==
    /\ pc[p] = "restart" /\ StagedState = "ready"
    /\ Write("resume", disk.pendingVersion)
    /\ GoTo(p, "reopen")
    /\ UNCHANGED <<record, lock, caller, target, astray, bounds>>

Quit(p) ==
    /\ pc[p] \in {"scan", "run", "restart"}
    /\ GoTo(p, "exit")
    /\ UNCHANGED <<disk, record, lock, caller, target, astray, bounds>>

-----------------------------------------------------------------------------
(* The update helper: complete_update.                                     *)

PathsAreFiles == disk.launcher # Absent /\ disk.staged # Absent

Validate(h) ==
    /\ pc[h] = "validate"
    /\ IF PathsAreFiles
       THEN GoTo(h, "wait") /\ UNCHANGED <<lock, caller>>
       ELSE Leave(h)
    /\ UNCHANGED <<disk, record, target, astray, bounds>>

WaitForCaller(h) ==
    /\ pc[h] = "wait" /\ pc[caller[h]] = "gone"
    /\ GoTo(h, "lock")
    /\ caller' = [caller EXCEPT ![h] = NoProc]
    /\ UNCHANGED <<disk, record, lock, target, astray, bounds>>

(* InstallationLock::acquire waits. *)
Acquire(h) ==
    /\ pc[h] = "lock" /\ lock = NoProc
    /\ lock' = h
    /\ GoTo(h, "replace")
    /\ UNCHANGED <<disk, record, caller, target, astray, bounds>>

AfterReplace == IF signs THEN "sign" ELSE "promote"

(* replace_launcher, after validate_paths again.  The staged file is       *)
(* renamed over the launcher; where a rename fails (another file system)   *)
(* a copy is renamed, and the staged file removed next (RemoveStaged).     *)
Replace(h) ==
    /\ pc[h] = "replace"
    /\ UNCHANGED <<record, target, bounds>>
    /\ \/ /\ ~PathsAreFiles
          /\ Leave(h)
          /\ UNCHANGED <<disk, astray>>
       \/ /\ PathsAreFiles
          /\ astray' = (astray \/ ~ReadyToPromote)
          /\ \E renamed \in BOOLEAN :
                /\ disk' = [disk EXCEPT
                      !.launcher = disk.staged,
                      !.staged = IF renamed THEN Absent ELSE @,
                      !.backup = IF signs THEN disk.launcher ELSE @]
                /\ GoTo(h, IF renamed THEN AfterReplace ELSE "unlink")
          /\ UNCHANGED <<lock, caller>>

RemoveStaged(h) ==
    /\ pc[h] = "unlink"
    /\ Write("staged", Absent)
    /\ GoTo(h, AfterReplace)
    /\ UNCHANGED <<record, lock, caller, target, astray, bounds>>

(* resign_macos_bundle, which rewrites the signature unless it comes out   *)
(* the same; the backup goes.                                              *)
Sign(h) ==
    /\ pc[h] = "sign"
    /\ \E signed \in {disk.launcher, Resigned(disk.launcher)} :
          disk' = [disk EXCEPT !.launcher = signed, !.backup = Absent]
    /\ GoTo(h, "promote")
    /\ UNCHANGED <<record, lock, caller, target, astray, bounds>>

(* promote_pending_file by the helper and promote_pending_metadata by a    *)
(* launcher that adopts an interrupted hand-off: manifest, then version.   *)
Promotes(p) == pc[p] \in {"promote", "adopt"}

PromoteManifest(p) ==
    /\ Promotes(p) /\ disk.pendingManifest # Absent
    /\ disk' = [disk EXCEPT !.manifest = disk.pendingManifest, !.pendingManifest = Absent]
    /\ UNCHANGED <<record, lock, pc, caller, target, astray, bounds>>

PromoteVersion(p) ==
    /\ Promotes(p) /\ disk.pendingManifest = Absent /\ disk.pendingVersion # Absent
    /\ disk' = [disk EXCEPT !.version = disk.pendingVersion, !.pendingVersion = Absent]
    /\ UNCHANGED <<record, lock, pc, caller, target, astray, bounds>>

Adopted(p) ==
    /\ pc[p] = "adopt" /\ NoPending
    /\ GoTo(p, "resume")
    /\ UNCHANGED <<disk, record, lock, caller, target, astray, bounds>>

(* The helper releases the lock, and then opens the launcher. *)
Release(h) ==
    /\ pc[h] = "promote" /\ NoPending
    /\ lock' = NoProc
    /\ GoTo(h, "relaunch")
    /\ UNCHANGED <<disk, record, caller, target, astray, bounds>>

Relaunch(h) ==
    /\ pc[h] = "relaunch"
    /\ GoTo(h, "start")
    /\ UNCHANGED <<disk, record, lock, caller, target, astray, bounds>>

-----------------------------------------------------------------------------
(* Setup: prepare_installation in the helper, the gap between its lock and *)
(* setup's own, and the copy of a baseline, of which setup itself (not     *)
(* modelled further) sees to the completion.                               *)

SetupRemovals == {"pendingManifest", "pendingVersion", "staged", "resume"}

RemovePending(p, f) ==
    /\ pc[p] = "setup clear" /\ disk[f] # Absent
    /\ Write(f, Absent)
    /\ UNCHANGED <<record, lock, pc, caller, target, astray, bounds>>

Prepared == record = NoRecord /\ \A f \in SetupRemovals : disk[f] = Absent

FinishPreparation(p) ==
    /\ pc[p] = "setup clear" /\ Prepared
    /\ lock' = NoProc
    /\ GoTo(p, "setup gap")
    /\ UNCHANGED <<disk, record, caller, target, astray, bounds>>

CopyBaseline(p, release) ==
    /\ pc[p] = "setup copy"
    /\ disk' = [f \in Files |-> IF f \in {"launcher", "helper", "manifest", "version"}
                                THEN release ELSE disk[f]]
    /\ astray' = (astray \/ ~Prepared)
    /\ Leave(p)
    /\ UNCHANGED <<record, target, bounds>>

-----------------------------------------------------------------------------
(* Failures.                                                               *)

(* A file operation or the start of a helper fails.  The launcher logs the *)
(* error and goes on; the helper and setup stop.                           *)
AfterFailure ==
    [recover |-> "resume", handoff |-> "resume", adopt |-> "resume",
     resume |-> "scan", prepare |-> "run", commit |-> "undo", undo |-> "run",
     restart |-> "run", reopen |-> "restart"]

Failed(p) ==
    \/ /\ pc[p] \in DOMAIN AfterFailure
       /\ GoTo(p, AfterFailure[pc[p]])
       /\ UNCHANGED <<disk, lock, caller>>
    \/ /\ pc[p] = "commit" /\ Committed \* the record stays
       /\ GoTo(p, "run")
       /\ UNCHANGED <<disk, lock, caller>>
    \/ /\ pc[p] = "hand over"
       /\ GoTo(p, "resume")
       /\ UNCHANGED <<disk, lock, caller>>
    \/ /\ pc[p] \in DOMAIN ClearStages
       /\ GoTo(p, ClearStages[pc[p]].next)
       /\ UNCHANGED <<disk, lock, caller>>
    \/ /\ pc[p] = "sign" \* the previous launcher is put back
       /\ disk' = [disk EXCEPT !.launcher = disk.backup, !.backup = Absent]
       /\ Leave(p)
    \/ /\ pc[p] \in (HelperStages \cup SetupStages) \ {"sign"}
       /\ UNCHANGED disk
       /\ Leave(p)

Fail(p) ==
    /\ faults < MaxFaults /\ faults' = faults + 1
    /\ Failed(p)
    /\ UNCHANGED <<record, target, astray, crashes, setups, signs>>

(* A process is killed; what is on the disk stays. *)
Crash(p) ==
    /\ pc[p] # "gone"
    /\ crashes < MaxCrashes /\ crashes' = crashes + 1
    /\ Leave(p)
    /\ UNCHANGED <<disk, record, target, astray, faults, setups, signs>>

-----------------------------------------------------------------------------
Run(p) ==
    \/ StartLauncher(p) \/ StartSetup(p) \/ RelockSetup(p)
    \/ \E f \in Parts : RestorePart(p, f) \/ CommitPart(p, f)
    \/ DropRecord(p) \/ Recovered(p)
    \/ Decide(p) \/ Clear(p) \/ SpawnHelper(p) \/ Exit(p) \/ Resume(p)
    \/ BeginCommit(p) \/ FinishUpdate(p) \/ WriteResume(p)
    \/ Validate(p) \/ WaitForCaller(p) \/ Acquire(p)
    \/ Replace(p) \/ RemoveStaged(p) \/ Sign(p)
    \/ PromoteManifest(p) \/ PromoteVersion(p) \/ Adopted(p)
    \/ Release(p) \/ Relaunch(p)
    \/ \E f \in SetupRemovals : RemovePending(p, f)
    \/ FinishPreparation(p) \/ \E release \in Releases : CopyBaseline(p, release)

Next ==
    \E p \in Procs :
        \/ Run(p)
        \/ OpenLauncher(p) \/ OpenSetup(p)
        \/ \E release \in Releases : BeginUpdate(p, release)
        \/ Quit(p)
        \/ Fail(p) \/ Crash(p)

Spec == Init /\ [][Next]_vars

(* A process that can go on does; the user ends up closing an open window  *)
(* and opens the launcher again, but need not accept an update.            *)
Fairness ==
    /\ \A p \in Procs : WF_vars(Run(p)) /\ WF_vars(Quit(p))
    /\ WF_vars(\E p \in Procs : OpenLauncher(p))

FairSpec == Spec /\ Fairness

-----------------------------------------------------------------------------
(* Properties.                                                             *)

(* The installed metadata never claims a release newer than the executable *)
(* (check_launcher_update would hide the update that is still needed).     *)
(* And once an update is over, however it went and whoever was killed, it  *)
(* is that of the installed launcher: an interrupted promotion is finished *)
(* by the next start, not thrown away.  Setup's recovery throws it away,   *)
(* because setup copies a baseline next, and so does a start that finds an *)
(* executable with another signature.                                      *)
MetadataFits ==
    ~astray =>
        /\ disk.version <= ReleaseOf(disk.launcher)
        /\ disk.manifest <= ReleaseOf(disk.launcher)
        /\ ~signs /\ setups = 0
           /\ lock = NoProc /\ record = NoRecord /\ disk.staged = Absent /\ NoPending
           => /\ disk.manifest = ReleaseOf(disk.launcher)
              /\ disk.version = disk.manifest

(* No hand-off puts an older launcher in the place of a newer one; only    *)
(* setup's own copy and the restored backup of a failed signature may.     *)
NoDowngrade ==
    [][ReleaseOf(disk'.launcher) < ReleaseOf(disk.launcher) =>
          astray' \/ \E p \in Procs : pc[p] \in {"setup copy", "sign"}]_vars

(* A launcher that committed an update finds it ready for its restart      *)
(* (otherwise the user is left with a restart that can only be retried).   *)
RestartIsReady ==
    \A p \in Procs : pc[p] \in {"restart", "reopen"} => ReadyToPromote

(* A staged launcher is eventually promoted or discarded, and the metadata *)
(* that waits for it with it.                                              *)
HandoffSettles ==
    disk.staged # Absent \/ ~NoPending ~> disk.staged = Absent /\ NoPending
=============================================================================
