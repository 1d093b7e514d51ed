----------------------- MODULE LauncherHandoffProofs -----------------------
(***************************************************************************)
(* The hand-off between launcher, helper and setup is safe for any number  *)
(* of processes, releases, kills, failures and runs of setup.              *)
(*                                                                         *)
(* The argument rests on the lock.  Everybody who relies on the disk holds *)
(* it, so a step of one process cannot disturb what another one relies on; *)
(* what is left is sequential: each stage hands its assertion (StageFits)  *)
(* to the next.  What holds between two holders (GlobalFits) is said of    *)
(* the disk as a recovery would leave it, so that a half done commit and a *)
(* half done rollback need no case of their own.                           *)
(***************************************************************************)
EXTENDS LauncherHandoff, TLAPS

(* Where a process can be, and where it holds the installation lock: between
   InstallationLock::try_acquire (or acquire) and the end of the process, or the
   release before the relaunch and after setup's preparation. *)
Stages == LauncherStages \cup HelperStages \cup SetupStages \cup {"gone"}
Holding ==
    (LauncherStages \ {"start"}) \cup {"replace", "unlink", "sign", "promote"}
        \cup {"setup recover", "setup clear", "setup copy"}

(* The types, split so that each step cites the part it needs. Only the launcher
   and its backup may carry a signature of their own. *)
DiskFits ==
    /\ disk \in [Files -> 0 .. 2 * MaxRelease]
    /\ \A f \in Files \ {"launcher", "backup"} : disk[f] \in 0 .. MaxRelease
RecordFits == record \in [Parts -> 0 .. MaxRelease] \cup {NoRecord}
ProcsFit ==
    /\ lock \in Procs \cup {NoProc}
    /\ pc \in [Procs -> Stages]
    /\ caller \in [Procs -> Procs \cup {NoProc}]
RestFits ==
    /\ target \in 0 .. MaxRelease
    /\ astray \in BOOLEAN /\ signs \in BOOLEAN
    /\ crashes \in Nat /\ faults \in Nat /\ setups \in Nat

(* The lock belongs to the one process that is past its acquisition. *)
LockHeld == \A p \in Procs : pc[p] \in Holding <=> lock = p

(* The release of the installed executable, what each of the update's files is
   once a recovery has restored it, and a release that somebody has promised:
   the version file has named it, or the last accepted update asked for it. *)
Installed == ReleaseOf(disk.launcher)
Restored(f) == IF record = NoRecord THEN disk[f] ELSE record[f]
Known(release) == release <= disk.version \/ release <= target

(* A staged launcher may replace the installed one: it is not older, and somebody
   has promised it. *)
MayFollow(release) == release # Absent => Installed <= release /\ Known(release)

(* What relates the metadata, the installed and the staged launcher while nothing
   has gone astray: the installed launcher is as new as its metadata, and what is
   staged, or would be again after a recovery, is as new as the installed one. *)
ReleasesFit ==
    /\ disk.version <= Installed /\ disk.manifest <= Installed
    /\ Known(Installed)
    /\ MayFollow(disk.staged)
    /\ MayFollow(Restored("staged"))

(* The phases of a hand-off as a recovery would show them. Without a staged
   launcher the promotion is over or half done: metadata waits, if it does, for
   the launcher that is already installed, the version after the manifest. With
   one, all four files are of its release, and newer than the version file says. *)
NothingStaged ==
    /\ Restored("helper") = disk.launcher
    /\ IF Restored("pendingVersion") = Absent
       THEN disk.version = disk.launcher /\ Restored("pendingManifest") = Absent
       ELSE Restored("pendingVersion") = disk.launcher
    /\ IF Restored("pendingManifest") = Absent
       THEN disk.manifest = disk.launcher
       ELSE Restored("pendingManifest") = disk.launcher
AllStaged ==
    /\ \A f \in Parts : Restored(f) = Restored("staged")
    /\ disk.version < Restored("staged")

(* The phases hold where nothing re-signs the launcher and setup has not run: a
   new signature makes the launcher differ from its manifest, and setup throws a
   half done promotion away. *)
Undisturbed == ~signs /\ setups = 0
PhaseFits ==
    /\ disk.launcher \in Releases
    /\ Restored("staged") = Absent => NothingStaged
    /\ Restored("staged") # Absent => AllStaged

(* Both, while nothing has gone astray. *)
GlobalFits == ~astray => ReleasesFit /\ (Undisturbed => PhaseFits)

(* What the process at stage s may rely on while nothing has gone astray. From the
   replacement on, the pending metadata is that of the installed launcher; while a
   signature may fail, so is the installed metadata no newer than the backup; and
   an update is only cleared where setup or a signature disturbed it. *)
HandoffFits(s) ==
    /\ s \in {"unlink", "sign", "promote", "adopt"} =>
          /\ record = NoRecord
          /\ s # "unlink" => disk.staged = Absent
          /\ disk.pendingManifest \in {Absent, Installed}
          /\ disk.pendingVersion \in {Absent, Installed}
    /\ s = "unlink" =>
          /\ disk.pendingManifest # Absent /\ disk.pendingVersion # Absent
          /\ disk.helper = Installed
    /\ s \in {"unlink", "sign"} /\ signs =>
          /\ disk.version <= ReleaseOf(disk.backup)
          /\ disk.manifest <= ReleaseOf(disk.backup)
          /\ Known(ReleaseOf(disk.backup))
    /\ s \in {"clear staged", "clear manifest", "clear version"} => ~Undisturbed

(* What it may rely on in any case: an accepted update stays newer than the
   version file, a commit has its record, and a restart finds its four files. *)
StageFits(s) ==
    /\ s \in SetupStages => setups > 0
    /\ s \in {"prepare", "commit", "restart", "reopen"} => target > disk.version
    /\ s = "commit" => record # NoRecord
    /\ s \in {"handoff", "adopt", "restart", "reopen"} => record = NoRecord
    /\ s \in {"restart", "reopen"} => \A f \in Parts : disk[f] = target
    /\ s \in {"unlink", "sign"} => disk.launcher \in Releases
    /\ s = "sign" => signs
    /\ ~astray => HandoffFits(s)

(* Every process can rely on that. *)
AllFit == \A p \in Procs : StageFits(pc[p])

(* The inductive invariant. *)
IInv ==
    /\ DiskFits /\ RecordFits /\ ProcsFit /\ RestFits
    /\ LockHeld /\ AllFit /\ GlobalFits

-----------------------------------------------------------------------------

(* The files, and that the update's parts are neither the launcher nor its backup. *)
LEMMA FilesAre ==
  /\ Files = {"helper", "staged", "pendingManifest", "pendingVersion",
              "launcher", "backup", "manifest", "version", "resume"}
  /\ \A f \in Parts : f \in Files /\ f # "launcher" /\ f # "backup"
BY DEF Files, Parts

(* The stages that hold the lock are stages; a process that is gone holds nothing. *)
LEMMA StagesAre ==
  /\ Holding \subseteq Stages
  /\ "gone" \notin Holding /\ "gone" \in Stages
BY DEF Holding, Stages, LauncherStages, HelperStages, SetupStages

(* The parts by name. *)
LEMMA PartsAre ==
  /\ "staged" \in Parts /\ "helper" \in Parts
  /\ "pendingManifest" \in Parts /\ "pendingVersion" \in Parts
BY DEF Parts

(* No two processes hold the lock. *)
LEMMA LockIsExclusive ==
  ASSUME LockHeld, NEW p \in Procs, NEW q \in Procs, pc[p] \in Holding, pc[q] \in Holding
  PROVE  p = q
BY DEF LockHeld

(* Writing a release to a file that may hold it keeps the type of the disk, and
   changes no other file. *)
LEMMA WriteFits ==
  ASSUME DiskFits, NEW file \in Files, NEW content \in 0 .. 2 * MaxRelease,
         file \notin {"launcher", "backup"} => content \in 0 .. MaxRelease,
         Write(file, content)
  PROVE  /\ DiskFits' /\ disk'[file] = content
         /\ \A g \in Files \ {file} : disk'[g] = disk[g]
BY DEF DiskFits, Write

(* A published release is one of the bytes a file may have. *)
LEMMA SmallIsLarge == \A x \in 0 .. MaxRelease : x \in 0 .. 2 * MaxRelease
BY LimitsAreNaturals

(* So is the absence of the file. *)
LEMMA AbsentFits == Absent \in 0 .. MaxRelease
BY LimitsAreNaturals DEF Absent

(* GoTo moves one process. *)
LEMMA GoToIs ==
  ASSUME ProcsFit, NEW p \in Procs, NEW stage \in Stages, GoTo(p, stage)
  PROVE  /\ pc' \in [Procs -> Stages] /\ pc'[p] = stage
         /\ \A q \in Procs \ {p} : pc'[q] = pc[q]
BY DEF ProcsFit, GoTo

(* A process that ends releases the lock if it had it. *)
LEMMA LeaveIs ==
  ASSUME ProcsFit, LockHeld, NEW p \in Procs, Leave(p)
  PROVE  /\ ProcsFit' /\ LockHeld' /\ pc'[p] = "gone"
         /\ \A q \in Procs \ {p} : pc'[q] = pc[q]
<1>1. /\ pc' \in [Procs -> Stages] /\ pc'[p] = "gone"
      /\ \A q \in Procs \ {p} : pc'[q] = pc[q]
  BY StagesAre, GoToIs DEF Leave
<1>2. lock' \in Procs \cup {NoProc} /\ caller' \in [Procs -> Procs \cup {NoProc}]
  BY DEF Leave, ProcsFit
<1>3. LockHeld'
  BY <1>1, StagesAre, NoProcIsNoProcess DEF Leave, LockHeld, ProcsFit
<1> QED
  BY <1>1, <1>2, <1>3 DEF ProcsFit

(* A step that neither takes nor drops the lock keeps the lock with its holder;
   so does one that takes a free lock, and one that drops its own. *)
LEMMA MoveIs ==
  ASSUME ProcsFit, LockHeld, NEW p \in Procs, NEW stage \in Stages, GoTo(p, stage),
         pc[p] \in Holding <=> stage \in Holding, lock' = lock,
         caller' \in [Procs -> Procs \cup {NoProc}]
  PROVE  /\ ProcsFit' /\ LockHeld' /\ pc'[p] = stage
         /\ \A q \in Procs \ {p} : pc'[q] = pc[q]
<1>1. /\ pc' \in [Procs -> Stages] /\ pc'[p] = stage
      /\ \A q \in Procs \ {p} : pc'[q] = pc[q]
  BY GoToIs
<1> QED
  BY <1>1 DEF LockHeld, ProcsFit

(* Taking a free lock. *)
LEMMA TakeIs ==
  ASSUME ProcsFit, LockHeld, NEW p \in Procs, NEW stage \in Stages, GoTo(p, stage),
         stage \in Holding, lock = NoProc, lock' = p, UNCHANGED caller
  PROVE  /\ ProcsFit' /\ LockHeld' /\ pc'[p] = stage
         /\ \A q \in Procs \ {p} : pc'[q] = pc[q]
<1>1. /\ pc' \in [Procs -> Stages] /\ pc'[p] = stage
      /\ \A q \in Procs \ {p} : pc'[q] = pc[q]
  BY GoToIs
<1> QED
  BY <1>1, NoProcIsNoProcess DEF LockHeld, ProcsFit

(* Dropping the lock. *)
LEMMA DropIs ==
  ASSUME ProcsFit, LockHeld, NEW p \in Procs, NEW stage \in Stages, GoTo(p, stage),
         pc[p] \in Holding, stage \notin Holding, lock' = NoProc, UNCHANGED caller
  PROVE  /\ ProcsFit' /\ LockHeld' /\ pc'[p] = stage
         /\ \A q \in Procs \ {p} : pc'[q] = pc[q]
<1>1. /\ pc' \in [Procs -> Stages] /\ pc'[p] = stage
      /\ \A q \in Procs \ {p} : pc'[q] = pc[q]
  BY GoToIs
<1> QED
  BY <1>1, NoProcIsNoProcess DEF LockHeld, ProcsFit

(* A step that leaves the disk, the record and the target alone keeps what every
   stage relies on; the setups that have run only grow. *)
LEMMA DataKept ==
  ASSUME RestFits, GlobalFits, UNCHANGED <<disk, record, target, astray, signs>>,
         setups' \in Nat, setups' >= setups
  PROVE  /\ GlobalFits'
         /\ \A s \in Stages : StageFits(s) => StageFits(s)'
<1>1. Undisturbed' => Undisturbed
  BY DEF Undisturbed, RestFits
<1>2. GlobalFits'
  BY <1>1 DEF GlobalFits, ReleasesFit, MayFollow, PhaseFits, NothingStaged, AllStaged,
              Restored, Known, Installed
<1>3. ASSUME NEW s \in Stages, HandoffFits(s)
      PROVE  HandoffFits(s)'
  BY <1>1, <1>3 DEF HandoffFits, Known, Installed
<1>4. ASSUME NEW s \in Stages, StageFits(s)
      PROVE  StageFits(s)'
  BY <1>3, <1>4 DEF StageFits, RestFits
<1> QED
  BY <1>2, <1>4

(* The step of a process that holds the lock: nobody else is at a stage that relies
   on the disk, so only its own next stage is left to show. *)
LEMMA HolderSteps ==
  ASSUME IInv, NEW p \in Procs, pc[p] \in Holding, ProcsFit', LockHeld',
         \A q \in Procs \ {p} : pc'[q] = pc[q],
         DiskFits', RecordFits', RestFits', GlobalFits', setups' = setups,
         StageFits(pc[p])'
  PROVE  IInv'
<1>1. ASSUME NEW q \in Procs, q # p
      PROVE  StageFits(pc[q])'
  <2>1. pc'[q] = pc[q] /\ pc[q] \in Stages /\ pc[q] \notin Holding
    BY <1>1, LockIsExclusive DEF IInv, ProcsFit
  <2>2. pc[q] \in SetupStages => setups' > 0
    BY DEF IInv, AllFit, StageFits
  <2> QED
    BY <2>1, <2>2 DEF StageFits, HandoffFits, Stages, Holding, LauncherStages, HelperStages,
                      SetupStages
<1>2. AllFit'
  BY <1>1 DEF AllFit
<1> QED
  BY <1>2 DEF IInv

(* The step of any process that leaves the disk alone: again only its own next
   stage is left to show. *)
LEMMA DataKeptSteps ==
  ASSUME IInv, NEW p \in Procs, ProcsFit', LockHeld',
         \A q \in Procs \ {p} : pc'[q] = pc[q],
         UNCHANGED <<disk, record, target, astray, signs>>,
         RestFits', setups' >= setups, StageFits(pc[p])'
  PROVE  IInv'
<1>1. /\ GlobalFits'
      /\ \A s \in Stages : StageFits(s) => StageFits(s)'
  BY DataKept DEF IInv, RestFits
<1>2. ASSUME NEW q \in Procs, q # p
      PROVE  StageFits(pc[q])'
  <2>1. pc'[q] = pc[q] /\ pc[q] \in Stages /\ StageFits(pc[q])
    BY <1>2 DEF IInv, ProcsFit, AllFit
  <2> QED
    BY <2>1, <1>1
<1>3. AllFit'
  BY <1>2 DEF AllFit
<1>4. DiskFits' /\ RecordFits'
  BY DEF IInv, DiskFits, RecordFits
<1> QED
  BY <1>1, <1>3, <1>4 DEF IInv

(* A step that leaves the disk, the record, the target and the history alone. *)
Still ==
    /\ UNCHANGED <<disk, record, target, astray, signs>>
    /\ setups' >= setups /\ RestFits'

(* Such a step may move a process, take the lock, drop it, or end the process. *)
LEMMA StillMoves ==
  ASSUME IInv, NEW p \in Procs, NEW stage \in Stages, GoTo(p, stage),
         pc[p] \in Holding <=> stage \in Holding, lock' = lock,
         caller' \in [Procs -> Procs \cup {NoProc}], Still, StageFits(stage)
  PROVE  IInv'
<1>1. /\ ProcsFit' /\ LockHeld' /\ pc'[p] = stage
      /\ \A q \in Procs \ {p} : pc'[q] = pc[q]
  BY MoveIs DEF IInv
<1>2. StageFits(stage)'
  BY DataKept DEF IInv, Still, RestFits
<1>3. StageFits(pc[p])'
  BY <1>1, <1>2
<1> QED
  BY <1>1, <1>3, DataKeptSteps DEF Still

(* The same with the lock taken. *)
LEMMA StillTakes ==
  ASSUME IInv, NEW p \in Procs, NEW stage \in Stages, GoTo(p, stage), stage \in Holding,
         lock = NoProc, lock' = p, UNCHANGED caller, Still, StageFits(stage)
  PROVE  IInv'
<1>1. /\ ProcsFit' /\ LockHeld' /\ pc'[p] = stage
      /\ \A q \in Procs \ {p} : pc'[q] = pc[q]
  BY TakeIs DEF IInv
<1>2. StageFits(stage)'
  BY DataKept DEF IInv, Still, RestFits
<1>3. StageFits(pc[p])'
  BY <1>1, <1>2
<1> QED
  BY <1>1, <1>3, DataKeptSteps DEF Still

(* The same with the lock dropped. *)
LEMMA StillDrops ==
  ASSUME IInv, NEW p \in Procs, NEW stage \in Stages, GoTo(p, stage), pc[p] \in Holding,
         stage \notin Holding, lock' = NoProc, UNCHANGED caller, Still, StageFits(stage)
  PROVE  IInv'
<1>1. /\ ProcsFit' /\ LockHeld' /\ pc'[p] = stage
      /\ \A q \in Procs \ {p} : pc'[q] = pc[q]
  BY DropIs DEF IInv
<1>2. StageFits(stage)'
  BY DataKept DEF IInv, Still, RestFits
<1>3. StageFits(pc[p])'
  BY <1>1, <1>2
<1> QED
  BY <1>1, <1>3, DataKeptSteps DEF Still

(* A process that is gone relies on nothing. *)
LEMMA GoneFits == StageFits("gone") /\ StageFits("gone")'
BY DEF StageFits, HandoffFits, SetupStages

(* A process may end at any stage. *)
LEMMA StillLeaves ==
  ASSUME IInv, NEW p \in Procs, Leave(p), Still
  PROVE  IInv'
<1>1. /\ ProcsFit' /\ LockHeld' /\ pc'[p] = "gone"
      /\ \A q \in Procs \ {p} : pc'[q] = pc[q]
  BY LeaveIs DEF IInv
<1>2. StageFits(pc[p])'
  BY <1>1, GoneFits
<1> QED
  BY <1>1, <1>2, DataKeptSteps DEF Still

(* A holder writes and goes to a stage that also holds the lock, stays where it is,
   or ends. *)
LEMMA HolderMoves ==
  ASSUME IInv, NEW p \in Procs, NEW stage \in Stages, GoTo(p, stage),
         pc[p] \in Holding, stage \in Holding, UNCHANGED <<lock, caller>>,
         DiskFits', RecordFits', RestFits', GlobalFits', setups' = setups, StageFits(stage)'
  PROVE  IInv'
<1>1. caller' \in [Procs -> Procs \cup {NoProc}]
  BY DEF IInv, ProcsFit
<1>2. /\ ProcsFit' /\ LockHeld' /\ pc'[p] = stage
      /\ \A q \in Procs \ {p} : pc'[q] = pc[q]
  BY MoveIs, <1>1 DEF IInv
<1>3. StageFits(pc[p])'
  BY <1>2
<1> QED
  BY <1>2, <1>3, HolderSteps

(* The same without a move. *)
LEMMA HolderStays ==
  ASSUME IInv, NEW p \in Procs, pc[p] \in Holding, UNCHANGED <<pc, lock, caller>>,
         DiskFits', RecordFits', RestFits', GlobalFits', setups' = setups,
         \A s \in Stages : s = pc[p] => StageFits(s)'
  PROVE  IInv'
<1>1. ProcsFit' /\ LockHeld'
  BY DEF IInv, ProcsFit, LockHeld
<1>2. pc[p] \in Stages /\ pc' = pc
  BY DEF IInv, ProcsFit
<1>3. StageFits(pc[p])'
  BY <1>2
<1> QED
  BY <1>1, <1>2, <1>3, HolderSteps

(* The same with the end of the process. *)
LEMMA HolderLeaves ==
  ASSUME IInv, NEW p \in Procs, Leave(p), pc[p] \in Holding,
         DiskFits', RecordFits', RestFits', GlobalFits', setups' = setups
  PROVE  IInv'
<1>1. /\ ProcsFit' /\ LockHeld' /\ pc'[p] = "gone"
      /\ \A q \in Procs \ {p} : pc'[q] = pc[q]
  BY LeaveIs DEF IInv
<1>2. StageFits(pc[p])'
  BY <1>1, GoneFits
<1> QED
  BY <1>1, <1>2, HolderSteps

(* An action that leaves all of those variables alone is such a step. *)
LEMMA NothingChanges ==
  ASSUME IInv, UNCHANGED <<disk, record, target, astray, bounds>>
  PROVE  Still
BY DEF IInv, RestFits, Still, bounds

(* try_acquire: whoever finds the lock free goes on, the others end. *)
LEMMA TryLockKeeps ==
  ASSUME IInv, NEW p \in Procs, NEW stage \in Stages, NEW next \in Holding,
         TryLock(p, stage, next), StageFits(next)
  PROVE  IInv'
<1>1. Still
  BY NothingChanges DEF TryLock
<1>2. CASE lock = NoProc
  BY <1>1, <1>2, StagesAre, StillTakes DEF TryLock
<1>3. CASE lock # NoProc
  BY <1>1, <1>3, StillLeaves DEF TryLock
<1> QED
  BY <1>2, <1>3

(* The three uses of try_acquire. *)
LEMMA LocksKeep ==
  ASSUME IInv, NEW p \in Procs, StartLauncher(p) \/ StartSetup(p) \/ RelockSetup(p)
  PROVE  IInv'
<1>1. /\ "recover" \in Holding /\ "setup recover" \in Holding /\ "setup copy" \in Holding
      /\ "start" \in Stages /\ "setup" \in Stages /\ "setup gap" \in Stages
  BY DEF Holding, Stages, LauncherStages, HelperStages, SetupStages
<1>2. StageFits(pc[p])
  BY DEF IInv, AllFit
<1>3. CASE StartLauncher(p)
  <2>1. StageFits("recover")
    BY DEF StageFits, HandoffFits, SetupStages
  <2> QED
    BY <1>1, <1>3, <2>1, TryLockKeeps DEF StartLauncher
<1>4. CASE StartSetup(p)
  <2>1. pc[p] = "setup"
    BY <1>4 DEF StartSetup, TryLock
  <2>2. StageFits("setup recover")
    BY <1>2, <2>1 DEF StageFits, HandoffFits, SetupStages
  <2> QED
    BY <1>1, <1>4, <2>2, TryLockKeeps DEF StartSetup
<1>5. CASE RelockSetup(p)
  <2>1. pc[p] = "setup gap"
    BY <1>5 DEF RelockSetup, TryLock
  <2>2. StageFits("setup copy")
    BY <1>2, <2>1 DEF StageFits, HandoffFits, SetupStages
  <2> QED
    BY <1>1, <1>5, <2>2, TryLockKeeps DEF RelockSetup
<1> QED
  BY <1>3, <1>4, <1>5

(* Opening the launcher, or setup. *)
LEMMA OpeningKeeps ==
  ASSUME IInv, NEW p \in Procs, OpenLauncher(p) \/ OpenSetup(p)
  PROVE  IInv'
<1>1. /\ "start" \in Stages /\ "setup" \in Stages
      /\ "start" \notin Holding /\ "setup" \notin Holding /\ "gone" \notin Holding
  BY DEF Holding, Stages, LauncherStages, HelperStages, SetupStages
<1>2. caller' \in [Procs -> Procs \cup {NoProc}]
  BY DEF IInv, ProcsFit, OpenLauncher, OpenSetup
<1>3. CASE OpenLauncher(p)
  <2>1. GoTo(p, "start") /\ pc[p] = "gone" /\ lock' = lock /\ Still
    BY <1>3, NothingChanges DEF OpenLauncher, Free
  <2>2. StageFits("start")
    BY DEF StageFits, HandoffFits, SetupStages
  <2> QED
    BY <1>1, <1>2, <2>1, <2>2, StillMoves
<1>4. CASE OpenSetup(p)
  <2>1. GoTo(p, "setup") /\ pc[p] = "gone" /\ lock' = lock /\ setups' = setups + 1
    BY <1>4 DEF OpenSetup, Free
  <2>2. UNCHANGED <<disk, record, target, astray, signs>> /\ RestFits' /\ setups' >= setups
    BY <1>4 DEF OpenSetup, IInv, RestFits
  <2>3. /\ ProcsFit' /\ LockHeld' /\ pc'[p] = "setup"
        /\ \A q \in Procs \ {p} : pc'[q] = pc[q]
    BY <1>1, <1>2, <2>1, MoveIs DEF IInv
  <2>4. StageFits(pc[p])'
    <3>1. setups' > 0
      BY <2>1 DEF IInv, RestFits
    <3> QED
      BY <2>3, <3>1 DEF StageFits, HandoffFits, SetupStages
  <2> QED
    BY <2>2, <2>3, <2>4, DataKeptSteps
<1> QED
  BY <1>3, <1>4

(* The end of a recovery. *)
LEMMA RecoveredKeeps ==
  ASSUME IInv, NEW p \in Procs, Recovered(p)
  PROVE  IInv'
<1> DEFINE next == AfterRecovery[pc[p]]
<1>1. /\ Still /\ GoTo(p, next) /\ lock' = lock /\ caller' = caller
      /\ pc[p] \in {"recover", "scan", "undo", "setup recover"} /\ record = NoRecord
  BY NothingChanges DEF Recovered, AfterRecovery
<1>2. /\ next \in Stages /\ next \in Holding /\ pc[p] \in Holding
      /\ next \in {"handoff", "setup clear", "run"}
      /\ next = "setup clear" => pc[p] = "setup recover"
  BY <1>1 DEF AfterRecovery, Holding, Stages, LauncherStages, HelperStages, SetupStages
<1>3. StageFits(next)
  <2>1. next = "setup clear" => setups > 0
    BY <1>2 DEF IInv, AllFit, StageFits, SetupStages
  <2> HIDE DEF next
  <2> QED
    BY <1>1, <1>2, <2>1 DEF StageFits, HandoffFits, SetupStages
<1> HIDE DEF next
<1> QED
  BY <1>1, <1>2, <1>3, StillMoves DEF IInv, ProcsFit

(* The bytes published for a release are of that release, and so are the re-signed
   ones. *)
LEMMA SmallRelease ==
  /\ \A bytes \in 0 .. MaxRelease : ReleaseOf(bytes) = bytes
  /\ \A bytes \in 0 .. 2 * MaxRelease : ReleaseOf(bytes) \in 0 .. MaxRelease
  /\ \A bytes \in Releases : ReleaseOf(Resigned(bytes)) = bytes
  /\ \A bytes \in Releases : Resigned(bytes) \in 0 .. 2 * MaxRelease
BY LimitsAreNaturals DEF ReleaseOf, Releases, Resigned

(* The types of the files one by one. *)
LEMMA FilesFit ==
  ASSUME DiskFits
  PROVE  /\ disk.launcher \in 0 .. 2 * MaxRelease /\ disk.backup \in 0 .. 2 * MaxRelease
         /\ disk.helper \in 0 .. MaxRelease /\ disk.staged \in 0 .. MaxRelease
         /\ disk.pendingManifest \in 0 .. MaxRelease /\ disk.pendingVersion \in 0 .. MaxRelease
         /\ disk.manifest \in 0 .. MaxRelease /\ disk.version \in 0 .. MaxRelease
         /\ disk.resume \in 0 .. MaxRelease
         /\ Installed \in 0 .. MaxRelease
BY FilesAre, SmallRelease DEF DiskFits, Installed

(* Four files of one release that is newer than the version file are ready. *)
LEMMA AllAtOneIsReady ==
  ASSUME DiskFits, NEW release \in 0 .. MaxRelease, \A f \in Parts : disk[f] = release,
         disk.version < release
  PROVE  StagedState = "ready"
<1>1. /\ disk.helper = release /\ disk.staged = release
      /\ disk.pendingManifest = release /\ disk.pendingVersion = release
  BY DEF Parts
<1>2. release # Absent /\ ~(release <= disk.version)
  BY FilesFit, LimitsAreNaturals DEF Absent
<1>3. ~ \E f \in Parts : disk[f] = Absent
  BY <1>2
<1>4. ~InstalledSupersedes
  BY <1>1, <1>2 DEF InstalledSupersedes
<1> QED
  BY <1>1, <1>3, <1>4 DEF StagedState

(* hand_off_pending_launcher_update: what it adopts is the metadata of the installed
   launcher, and undisturbed it never clears an update. *)
LEMMA DecideKeeps ==
  ASSUME IInv, NEW p \in Procs, Decide(p)
  PROVE  IInv'
<1> DEFINE next == IF disk.staged # Absent
               THEN IF StagedState = "ready" THEN "hand over" ELSE "clear staged"
               ELSE IF NoPending THEN "resume"
               ELSE IF LauncherIsPromoted THEN "adopt" ELSE "clear staged"
<1>1. /\ Still /\ GoTo(p, next) /\ lock' = lock /\ caller' = caller
      /\ pc[p] = "handoff"
  BY NothingChanges DEF Decide
<1>2. /\ next \in Stages /\ next \in Holding /\ pc[p] \in Holding
      /\ next \in {"hand over", "clear staged", "resume", "adopt"}
  BY <1>1 DEF Holding, Stages, LauncherStages, HelperStages, SetupStages
<1>3. record = NoRecord /\ \A f \in Parts : Restored(f) = disk[f]
  BY <1>1 DEF IInv, AllFit, StageFits, Restored
<1>4. /\ "staged" \in Parts /\ "helper" \in Parts
      /\ "pendingManifest" \in Parts /\ "pendingVersion" \in Parts
  BY DEF Parts
<1>5. DiskFits
  BY DEF IInv
<1>6. ASSUME next = "adopt", ~astray
      PROVE  HandoffFits("adopt")
  <2>1. disk.staged = Absent /\ LauncherIsPromoted
    BY <1>6
  <2>2. disk.launcher = PendingOrInstalled("pendingManifest", "manifest")
        /\ PendingOrInstalled("pendingVersion", "version") = disk.launcher
    BY <2>1 DEF LauncherIsPromoted
  <2>3. disk.launcher \in 0 .. MaxRelease
    BY <2>2, <1>5, FilesFit DEF PendingOrInstalled
  <2>4. Installed = disk.launcher
    BY <2>3, SmallRelease DEF Installed
  <2>5. /\ disk.pendingManifest \in {Absent, Installed}
        /\ disk.pendingVersion \in {Absent, Installed}
    BY <2>2, <2>4 DEF PendingOrInstalled
  <2> QED
    BY <1>3, <2>1, <2>5 DEF HandoffFits
<1>7. ASSUME next = "clear staged", ~astray, Undisturbed
      PROVE  FALSE
  <2>1. PhaseFits
    BY <1>7 DEF IInv, GlobalFits
  <2>2. CASE disk.staged # Absent
    <3>1. StagedState # "ready"
      BY <1>7, <2>2
    <3>2. AllStaged
      BY <1>3, <1>4, <2>1, <2>2 DEF PhaseFits
    <3>3. (\A f \in Parts : disk[f] = disk.staged) /\ disk.version < disk.staged
      BY <1>3, <1>4, <3>2 DEF AllStaged
    <3> QED
      BY <1>5, <3>1, <3>3, AllAtOneIsReady, FilesFit
  <2>3. CASE disk.staged = Absent
    <3>1. ~LauncherIsPromoted
      BY <1>7, <2>3
    <3>2. NothingStaged /\ disk.launcher \in Releases
      BY <1>3, <1>4, <2>1, <2>3 DEF PhaseFits
    <3>3. disk.launcher # Absent
      BY <3>2, LimitsAreNaturals DEF Releases, Absent
    <3>4. /\ PendingOrInstalled("pendingManifest", "manifest") = disk.launcher
          /\ PendingOrInstalled("pendingVersion", "version") = disk.launcher
          /\ disk.helper = disk.launcher
      BY <1>3, <1>4, <3>2, <3>3 DEF NothingStaged, PendingOrInstalled
    <3> QED
      BY <3>1, <3>3, <3>4 DEF LauncherIsPromoted
  <2> QED
    BY <2>2, <2>3
<1> HIDE DEF next
<1>8. StageFits(next)
  <2>1. CASE next = "adopt"
    BY <1>3, <1>6, <2>1 DEF StageFits, SetupStages
  <2>2. CASE next = "clear staged"
    BY <1>7, <2>2 DEF StageFits, HandoffFits, SetupStages
  <2>3. CASE next \in {"hand over", "resume"}
    BY <2>3 DEF StageFits, HandoffFits, SetupStages
  <2> QED
    BY <1>2, <2>1, <2>2, <2>3
<1> QED
  BY <1>1, <1>2, <1>8, StillMoves DEF IInv, ProcsFit

(* start_update_helper: the launcher leaves, the helper starts. *)
LEMMA SpawnHelperKeeps ==
  ASSUME IInv, NEW p \in Procs, SpawnHelper(p)
  PROVE  IInv'
<1>1. PICK h \in Procs :
          /\ Free(h)
          /\ pc' = [pc EXCEPT ![p] = "exit", ![h] = "validate"]
          /\ caller' = [caller EXCEPT ![h] = p]
  BY DEF SpawnHelper
<1>2. /\ pc[p] \in {"hand over", "reopen"} /\ pc[h] = "gone" /\ h # p
      /\ Still /\ lock' = lock
  BY <1>1, NothingChanges DEF SpawnHelper, Free
<1>3. /\ "exit" \in Stages /\ "validate" \in Stages /\ "exit" \in Holding /\ pc[p] \in Holding
      /\ "validate" \notin Holding /\ "gone" \notin Holding
  BY <1>2 DEF Holding, Stages, LauncherStages, HelperStages, SetupStages
<1>4. /\ pc' \in [Procs -> Stages] /\ pc'[p] = "exit" /\ pc'[h] = "validate"
      /\ \A q \in Procs \ {p, h} : pc'[q] = pc[q]
  BY <1>1, <1>2, <1>3 DEF IInv, ProcsFit
<1>5. ProcsFit'
  BY <1>1, <1>2, <1>4 DEF IInv, ProcsFit
<1>6. LockHeld'
  BY <1>2, <1>3, <1>4 DEF IInv, LockHeld
<1>7. /\ GlobalFits'
      /\ \A s \in Stages : StageFits(s) => StageFits(s)'
  BY <1>2, DataKept DEF IInv, Still, RestFits
<1>8. StageFits("exit") /\ StageFits("validate")
  BY DEF StageFits, HandoffFits, SetupStages
<1>9. ASSUME NEW q \in Procs
      PROVE  StageFits(pc[q])'
  <2>1. pc'[q] \in Stages /\ StageFits(pc'[q])
    BY <1>3, <1>4, <1>8 DEF IInv, AllFit
  <2> QED
    BY <1>7, <2>1
<1>10. DiskFits' /\ RecordFits' /\ RestFits'
  BY <1>2 DEF IInv, DiskFits, RecordFits, Still
<1> QED
  BY <1>5, <1>6, <1>7, <1>9, <1>10 DEF IInv, AllFit

(* The actions that only move a process on. *)
LEMMA GoingKeeps ==
  ASSUME IInv, NEW p \in Procs,
         Quit(p) \/ WaitForCaller(p) \/ Acquire(p) \/ Adopted(p) \/ Release(p)
           \/ Relaunch(p) \/ FinishPreparation(p)
  PROVE  IInv'
<1>1. Still
  BY NothingChanges DEF Quit, WaitForCaller, Acquire, Adopted, Release, Relaunch,
                        FinishPreparation
<1>2. /\ {"exit", "lock", "replace", "resume", "relaunch", "start", "setup gap",
          "wait"} \subseteq Stages
      /\ {"scan", "run", "restart", "exit", "replace", "adopt", "resume", "promote",
          "setup clear"} \subseteq Holding
      /\ "wait" \notin Holding /\ "lock" \notin Holding /\ "relaunch" \notin Holding
      /\ "start" \notin Holding /\ "setup gap" \notin Holding
  BY DEF Holding, Stages, LauncherStages, HelperStages, SetupStages
<1>3. /\ StageFits("exit") /\ StageFits("lock") /\ StageFits("replace")
      /\ StageFits("resume") /\ StageFits("relaunch") /\ StageFits("start")
  BY DEF StageFits, HandoffFits, SetupStages
<1>4. caller \in [Procs -> Procs \cup {NoProc}]
  BY DEF IInv, ProcsFit
<1>5. CASE Quit(p)
  BY <1>1, <1>2, <1>3, <1>4, <1>5, StillMoves DEF Quit
<1>6. CASE WaitForCaller(p)
  <2>1. caller' \in [Procs -> Procs \cup {NoProc}]
    BY <1>4, <1>6 DEF WaitForCaller
  <2> QED
    BY <1>1, <1>2, <1>3, <1>6, <2>1, StillMoves DEF WaitForCaller
<1>7. CASE Acquire(p)
  BY <1>1, <1>2, <1>3, <1>7, StillTakes DEF Acquire
<1>8. CASE Adopted(p)
  BY <1>1, <1>2, <1>3, <1>4, <1>8, StillMoves DEF Adopted
<1>9. CASE Release(p)
  BY <1>1, <1>2, <1>3, <1>9, StillDrops DEF Release
<1>10. CASE Relaunch(p)
  BY <1>1, <1>2, <1>3, <1>4, <1>10, StillMoves DEF Relaunch
<1>11. CASE FinishPreparation(p)
  <2>1. pc[p] = "setup clear" /\ StageFits("setup clear")
    BY <1>11 DEF FinishPreparation, IInv, AllFit
  <2>2. StageFits("setup gap")
    BY <2>1 DEF StageFits, HandoffFits, SetupStages
  <2> QED
    BY <1>1, <1>2, <1>11, <2>2, StillDrops DEF FinishPreparation
<1> QED
  BY <1>5, <1>6, <1>7, <1>8, <1>9, <1>10, <1>11

(* The end of a launcher, and a kill at any point. *)
LEMMA LeavingKeeps ==
  ASSUME IInv, NEW p \in Procs, Exit(p) \/ Crash(p)
  PROVE  IInv'
<1>1. Leave(p)
  BY DEF Exit, Crash
<1>2. Still
  BY DEF Still, IInv, RestFits, Exit, Crash, bounds
<1> QED
  BY <1>1, <1>2, StillLeaves

(* validate_paths by the helper. *)
LEMMA ValidateKeeps ==
  ASSUME IInv, NEW p \in Procs, Validate(p)
  PROVE  IInv'
<1>1. Still /\ pc[p] = "validate"
  BY NothingChanges DEF Validate
<1>2. CASE PathsAreFiles
  <2>1. GoTo(p, "wait") /\ lock' = lock /\ caller' = caller
    BY <1>2 DEF Validate
  <2>2. "wait" \in Stages /\ "wait" \notin Holding /\ "validate" \notin Holding
    BY DEF Holding, Stages, LauncherStages, HelperStages, SetupStages
  <2>3. StageFits("wait")
    BY DEF StageFits, HandoffFits, SetupStages
  <2> QED
    BY <1>1, <2>1, <2>2, <2>3, StillMoves DEF IInv, ProcsFit
<1>3. CASE ~PathsAreFiles
  BY <1>1, <1>3, StillLeaves DEF Validate
<1> QED
  BY <1>2, <1>3

(* The user accepts an update: what was promised before stays promised. *)
LEMMA BeginUpdateKeeps ==
  ASSUME IInv, NEW p \in Procs, NEW release \in Releases, BeginUpdate(p, release)
  PROVE  IInv'
<1>1. /\ pc[p] = "run" /\ GoTo(p, "prepare") /\ UNCHANGED <<lock, caller>>
      /\ target' = release /\ release > disk.version /\ release >= target
      /\ UNCHANGED <<disk, record, astray, bounds>>
  BY DEF BeginUpdate
<1>2. /\ "prepare" \in Stages /\ "prepare" \in Holding /\ "run" \in Holding
  BY DEF Holding, Stages, LauncherStages, HelperStages, SetupStages
<1>3. release \in 0 .. MaxRelease
  BY LimitsAreNaturals DEF Releases
<1>4. DiskFits' /\ RecordFits' /\ RestFits' /\ setups' = setups
  BY <1>1, <1>3 DEF IInv, DiskFits, RecordFits, RestFits, bounds
<1>5. ASSUME NEW r \in 0 .. MaxRelease, Known(r)
      PROVE  Known(r)'
  <2>1. disk.version \in 0 .. MaxRelease /\ target \in 0 .. MaxRelease
    BY FilesFit DEF IInv, RestFits
  <2> QED
    BY <1>1, <1>3, <1>5, <2>1 DEF Known
<1>6. GlobalFits'
  <2>1. Installed' = Installed /\ Installed \in 0 .. MaxRelease
    BY <1>1, FilesFit DEF Installed, IInv
  <2>2. ReleasesFit => ReleasesFit'
    <3>1. Known(Installed) => Known(Installed)'
      BY <1>5, <2>1 DEF Known
    <3>2. disk.staged \in 0 .. MaxRelease /\ Restored("staged") \in 0 .. MaxRelease
      <4>1. disk.staged \in 0 .. MaxRelease
        BY FilesFit DEF IInv
      <4>2. ASSUME record # NoRecord
            PROVE  record["staged"] \in 0 .. MaxRelease
        BY <4>2, PartsAre DEF IInv, RecordFits
      <4> QED
        BY <4>1, <4>2 DEF Restored
    <3>3. Restored("staged")' = Restored("staged") /\ disk'.staged = disk.staged
      BY <1>1 DEF Restored
    <3>4. /\ MayFollow(disk.staged) => MayFollow(disk.staged)'
          /\ MayFollow(Restored("staged")) => MayFollow(Restored("staged"))'
      BY <1>5, <2>1, <3>2, <3>3 DEF MayFollow, Known
    <3> QED
      BY <1>1, <2>1, <3>1, <3>4 DEF ReleasesFit
  <2>3. PhaseFits => PhaseFits'
    BY <1>1 DEF PhaseFits, NothingStaged, AllStaged, Restored
  <2> QED
    BY <1>1, <2>2, <2>3 DEF IInv, GlobalFits, Undisturbed, bounds
<1>7. StageFits("prepare")'
  BY <1>1 DEF StageFits, HandoffFits, SetupStages
<1> QED
  BY <1>1, <1>2, <1>4, <1>6, <1>7, HolderMoves

(* A step that keeps the installed files, and what a recovery would restore, keeps
   the relations as soon as a new staged launcher may follow the installed one. *)
LEMMA PartsKept ==
  ASSUME GlobalFits, UNCHANGED <<target, astray, signs, setups>>,
         UNCHANGED <<disk.launcher, disk.version, disk.manifest>>,
         \A f \in Parts : Restored(f)' = Restored(f),
         ~astray /\ ReleasesFit => MayFollow(disk.staged)'
  PROVE  GlobalFits'
<1>1. Installed' = Installed /\ Known(Installed)' = Known(Installed)
  BY DEF Installed, Known
<1>2. MayFollow(Restored("staged"))' = MayFollow(Restored("staged"))
  BY <1>1, PartsAre DEF MayFollow, Known
<1>3. ~astray /\ ReleasesFit => ReleasesFit'
  BY <1>1, <1>2, PartsAre DEF ReleasesFit
<1>4. PhaseFits => PhaseFits'
  BY PartsAre DEF PhaseFits, NothingStaged, AllStaged
<1> QED
  BY <1>3, <1>4 DEF GlobalFits, Undisturbed

(* A recovery restores a file. *)
LEMMA RestorePartKeeps ==
  ASSUME IInv, NEW p \in Procs, NEW f \in Parts, RestorePart(p, f)
  PROVE  IInv'
<1>1. /\ pc[p] \in {"prepare", "recover", "scan", "undo", "setup recover"}
      /\ record # NoRecord /\ Write(f, record[f])
      /\ UNCHANGED <<record, lock, pc, caller, target, astray, bounds>>
  BY DEF RestorePart, Recovers, AfterRecovery
<1>2. pc[p] \in Holding
  BY <1>1 DEF Holding, LauncherStages
<1>3. record[f] \in 0 .. MaxRelease
  BY <1>1 DEF IInv, RecordFits
<1>4. DiskFits' /\ disk'[f] = record[f] /\ \A g \in Files \ {f} : disk'[g] = disk[g]
  BY <1>1, <1>3, FilesAre, SmallIsLarge, WriteFits DEF IInv
<1>5. RecordFits' /\ RestFits' /\ setups' = setups
  BY <1>1 DEF IInv, RecordFits, RestFits, bounds
<1>6. UNCHANGED <<disk.launcher, disk.version, disk.manifest>>
  BY <1>4, FilesAre DEF Parts
<1>7. \A g \in Parts : Restored(g)' = Restored(g)
  BY <1>1 DEF Restored
<1>8. ReleasesFit => MayFollow(disk.staged)'
  <2>1. disk'.staged \in {disk.staged, Restored("staged")}
    BY <1>1, <1>4, FilesAre, PartsAre DEF Restored
  <2>2. Installed' = Installed /\ \A r : Known(r)' <=> Known(r)
    BY <1>1, <1>6 DEF Installed, Known
  <2> QED
    BY <2>1, <2>2 DEF ReleasesFit, MayFollow, Known
<1>9. GlobalFits'
  BY <1>1, <1>6, <1>7, <1>8, PartsKept DEF IInv, bounds
<1>10. \A s \in Stages : s = pc[p] => StageFits(s)'
  <2>1. StageFits(pc[p])
    BY DEF IInv, AllFit
  <2> QED
    BY <1>1, <1>5, <1>6, <2>1 DEF StageFits, HandoffFits, SetupStages
<1> QED
  BY <1>1, <1>2, <1>4, <1>5, <1>9, <1>10, HolderStays

(* A recovery removes the record. *)
LEMMA DropRecordKeeps ==
  ASSUME IInv, NEW p \in Procs, DropRecord(p)
  PROVE  IInv'
<1>1. /\ pc[p] \in {"prepare", "recover", "scan", "undo", "setup recover"}
      /\ record # NoRecord /\ record' = NoRecord /\ \A f \in Parts : disk[f] = record[f]
      /\ UNCHANGED <<disk, lock, pc, caller, target, astray, bounds>>
  BY DEF DropRecord, Recovers, AfterRecovery
<1>2. pc[p] \in Holding
  BY <1>1 DEF Holding, LauncherStages
<1>3. DiskFits' /\ RecordFits' /\ RestFits' /\ setups' = setups
  BY <1>1 DEF IInv, DiskFits, RecordFits, RestFits, bounds
<1>4. \A g \in Parts : Restored(g)' = Restored(g)
  BY <1>1 DEF Restored
<1>5. GlobalFits'
  BY <1>1, <1>4, PartsKept DEF IInv, bounds, ReleasesFit, MayFollow, Installed, Known
<1>6. \A s \in Stages : s = pc[p] => StageFits(s)'
  <2>1. StageFits(pc[p])
    BY DEF IInv, AllFit
  <2> QED
    BY <1>1, <1>3, <2>1 DEF StageFits, HandoffFits, SetupStages
<1> QED
  BY <1>1, <1>2, <1>3, <1>5, <1>6, HolderStays

(* Nothing relies on the file of the continuation. *)
LEMMA ResumeFileKeeps ==
  ASSUME IInv, UNCHANGED <<record, target, astray, bounds>>, DiskFits',
         \A g \in Files \ {"resume"} : disk'[g] = disk[g]
  PROVE  /\ RecordFits' /\ RestFits' /\ GlobalFits' /\ setups' = setups
         /\ \A s \in Stages : StageFits(s) => StageFits(s)'
<1>1. /\ RecordFits' /\ RestFits'
      /\ UNCHANGED <<record, target, astray, signs, setups>>
  BY DEF IInv, RecordFits, RestFits, bounds
<1>2. /\ UNCHANGED <<disk.launcher, disk.version, disk.manifest, disk.backup>>
      /\ UNCHANGED <<disk.staged, disk.helper, disk.pendingManifest, disk.pendingVersion>>
      /\ \A f \in Parts : disk'[f] = disk[f]
  BY FilesAre DEF Parts
<1>3. \A g \in Parts : Restored(g)' = Restored(g)
  BY <1>1, <1>2 DEF Restored
<1>4. GlobalFits'
  BY <1>1, <1>2, <1>3, PartsKept DEF IInv, ReleasesFit, MayFollow, Installed, Known
<1>5. Installed' = Installed /\ \A r : Known(r)' <=> Known(r)
  BY <1>1, <1>2 DEF Installed, Known
<1>6. Undisturbed' = Undisturbed
  BY <1>1 DEF Undisturbed
<1>7. \A r : Known(r)' <=> Known(r)
  BY <1>1, <1>2 DEF Known
<1>8. ASSUME NEW s \in Stages, HandoffFits(s)
      PROVE  HandoffFits(s)'
  BY <1>1, <1>2, <1>5, <1>6, <1>8, Zenon DEF HandoffFits, Known
<1>9. ASSUME NEW s \in Stages, StageFits(s)
      PROVE  StageFits(s)'
  BY <1>1, <1>2, <1>8, <1>9 DEF StageFits
<1> QED
  BY <1>1, <1>4, <1>9

(* The continuation is read and removed, or recorded. *)
LEMMA ResumeKeeps ==
  ASSUME IInv, NEW p \in Procs, Resume(p) \/ WriteResume(p)
  PROVE  IInv'
<1>1. disk.version \in 0 .. MaxRelease /\ disk.pendingVersion \in 0 .. MaxRelease
      /\ disk.resume \in 0 .. MaxRelease
  BY FilesFit DEF IInv
<1>2. /\ {"scan", "reopen"} \subseteq Stages
      /\ {"scan", "reopen", "resume", "restart"} \subseteq Holding
      /\ "resume" \in Files
  BY FilesAre DEF Holding, Stages, LauncherStages, HelperStages, SetupStages
<1>3. ASSUME NEW content \in 0 .. MaxRelease, Write("resume", content)
      PROVE  DiskFits' /\ \A g \in Files \ {"resume"} : disk'[g] = disk[g]
  BY <1>2, <1>3, WriteFits, SmallIsLarge DEF IInv
<1>4. CASE Resume(p)
  <2> DEFINE content == IF disk.resume = disk.version THEN Absent ELSE disk.resume
  <2>1. /\ Write("resume", content) /\ pc[p] = "resume" /\ GoTo(p, "scan")
        /\ UNCHANGED <<record, lock, caller, target, astray, bounds>>
    BY <1>2, <1>4 DEF Resume, Write, IInv, DiskFits
  <2>2. content \in 0 .. MaxRelease
    BY <1>1, AbsentFits
  <2> HIDE DEF content
  <2>3. /\ DiskFits' /\ RecordFits' /\ RestFits' /\ GlobalFits' /\ setups' = setups
        /\ StageFits("scan") => StageFits("scan")'
    BY <1>2, <1>3, <2>1, <2>2, ResumeFileKeeps
  <2>4. StageFits("scan")
    BY DEF StageFits, HandoffFits, SetupStages
  <2> QED
    BY <1>2, <2>1, <2>3, <2>4, HolderMoves
<1>5. CASE WriteResume(p)
  <2>1. /\ Write("resume", disk.pendingVersion) /\ pc[p] = "restart" /\ GoTo(p, "reopen")
        /\ UNCHANGED <<record, lock, caller, target, astray, bounds>>
    BY <1>5 DEF WriteResume
  <2>2. /\ DiskFits' /\ RecordFits' /\ RestFits' /\ GlobalFits' /\ setups' = setups
        /\ StageFits("reopen") => StageFits("reopen")'
    BY <1>1, <1>2, <1>3, <2>1, ResumeFileKeeps
  <2>3. StageFits("restart")
    BY <2>1 DEF IInv, AllFit
  <2>4. StageFits("reopen")
    BY <2>3 DEF StageFits, HandoffFits, SetupStages
  <2> QED
    BY <1>2, <2>1, <2>2, <2>4, HolderMoves
<1> QED
  BY <1>4, <1>5

(* Removing a staged file, pending metadata or the continuation keeps the relations
   between the releases. *)
LEMMA RemovalIs ==
  ASSUME IInv, NEW file \in {"staged", "pendingManifest", "pendingVersion", "resume"},
         Write(file, Absent), UNCHANGED <<record, target, astray, bounds>>
  PROVE  /\ DiskFits' /\ RecordFits' /\ RestFits' /\ setups' = setups
         /\ UNCHANGED <<record, target, astray, signs>>
         /\ UNCHANGED <<disk.launcher, disk.version, disk.manifest, disk.helper, disk.backup>>
         /\ disk'[file] = Absent
         /\ \A g \in Files \ {file} : disk'[g] = disk[g]
         /\ ReleasesFit => ReleasesFit'
<1>1. /\ DiskFits' /\ disk'[file] = Absent
      /\ \A g \in Files \ {file} : disk'[g] = disk[g]
  BY FilesAre, AbsentFits, SmallIsLarge, WriteFits DEF IInv
<1>2. RecordFits' /\ RestFits' /\ setups' = setups /\ UNCHANGED <<record, target, astray, signs>>
  BY DEF IInv, RecordFits, RestFits, bounds
<1>3. UNCHANGED <<disk.launcher, disk.version, disk.manifest, disk.helper, disk.backup>>
  BY <1>1, FilesAre
<1>4. disk'.staged \in {disk.staged, Absent}
      /\ Restored("staged")' \in {Restored("staged"), Absent}
  BY <1>1, <1>2, FilesAre, PartsAre DEF Restored
<1>5. Installed' = Installed /\ Known(Installed)' = Known(Installed)
  BY <1>2, <1>3 DEF Installed, Known
<1>6. ReleasesFit => ReleasesFit'
  BY <1>2, <1>3, <1>4, <1>5 DEF ReleasesFit, MayFollow, Known
<1> QED
  BY <1>1, <1>2, <1>3, <1>6

(* clear_incomplete_launcher_update, which runs only on what was disturbed. *)
LEMMA ClearKeeps ==
  ASSUME IInv, NEW p \in Procs, Clear(p)
  PROVE  IInv'
<1>1. PICK file, next :
      /\ file = ClearStages[pc[p]].file /\ next = ClearStages[pc[p]].next
      /\ pc[p] \in {"clear staged", "clear manifest", "clear version"}
      /\ Write(file, Absent) /\ GoTo(p, next)
      /\ UNCHANGED <<record, lock, caller, target, astray, bounds>>
  BY DEF Clear, ClearStages
<1>2. /\ file \in {"staged", "pendingManifest", "pendingVersion"}
      /\ next \in {"clear manifest", "clear version", "resume"}
      /\ next \in Stages /\ next \in Holding /\ pc[p] \in Holding
  BY <1>1 DEF ClearStages, Holding, Stages, LauncherStages, HelperStages, SetupStages
<1>3. /\ DiskFits' /\ RecordFits' /\ RestFits' /\ setups' = setups
      /\ UNCHANGED <<record, target, astray, signs>>
      /\ ReleasesFit => ReleasesFit'
  BY <1>1, <1>2, RemovalIs
<1>4. ~astray => ~Undisturbed
  BY <1>1 DEF IInv, AllFit, StageFits, HandoffFits
<1>5. Undisturbed' = Undisturbed
  BY <1>3 DEF Undisturbed
<1>6. GlobalFits'
  BY <1>3, <1>4, <1>5 DEF GlobalFits, IInv
<1>7. StageFits(next)'
  BY <1>2, <1>3, <1>4, <1>5 DEF StageFits, HandoffFits, SetupStages
<1> QED
  BY <1>1, <1>2, <1>3, <1>6, <1>7, HolderMoves

(* The removals of setup's preparation. *)
LEMMA RemovePendingKeeps ==
  ASSUME IInv, NEW p \in Procs, NEW f \in SetupRemovals, RemovePending(p, f)
  PROVE  IInv'
<1>1. /\ pc[p] = "setup clear" /\ Write(f, Absent)
      /\ f \in {"staged", "pendingManifest", "pendingVersion", "resume"}
      /\ UNCHANGED <<record, lock, pc, caller, target, astray, bounds>>
  BY DEF RemovePending, SetupRemovals
<1>2. /\ DiskFits' /\ RecordFits' /\ RestFits' /\ setups' = setups
      /\ UNCHANGED <<record, target, astray, signs>>
      /\ ReleasesFit => ReleasesFit'
  BY <1>1, RemovalIs
<1>3. pc[p] \in Holding /\ setups > 0
  BY <1>1 DEF IInv, AllFit, StageFits, SetupStages, Holding
<1>4. ~Undisturbed /\ ~Undisturbed'
  BY <1>2, <1>3 DEF Undisturbed
<1>5. GlobalFits'
  BY <1>2, <1>4 DEF GlobalFits, IInv
<1>6. \A s \in Stages : s = pc[p] => StageFits(s)'
  BY <1>1, <1>2, <1>3 DEF StageFits, HandoffFits, SetupStages
<1> QED
  BY <1>1, <1>2, <1>3, <1>5, <1>6, HolderStays

(* The staged file is removed after a copy: the promotion is then half done. *)
LEMMA RemoveStagedKeeps ==
  ASSUME IInv, NEW p \in Procs, RemoveStaged(p)
  PROVE  IInv'
<1>1. PICK next :
      /\ next = AfterReplace
      /\ pc[p] = "unlink" /\ Write("staged", Absent) /\ GoTo(p, next)
      /\ UNCHANGED <<record, lock, caller, target, astray, bounds>>
  BY DEF RemoveStaged
<1>2. /\ next \in {"sign", "promote"}
      /\ next = "sign" <=> signs
      /\ next \in Stages /\ next \in Holding /\ pc[p] \in Holding
  BY <1>1, Zenon DEF AfterReplace, Holding, Stages, LauncherStages, HelperStages, SetupStages
<1>3. /\ DiskFits' /\ RecordFits' /\ RestFits' /\ setups' = setups
      /\ UNCHANGED <<record, target, astray, signs>>
      /\ UNCHANGED <<disk.launcher, disk.version, disk.manifest, disk.helper, disk.backup>>
      /\ disk'.staged = Absent
      /\ \A g \in Files \ {"staged"} : disk'[g] = disk[g]
      /\ ReleasesFit => ReleasesFit'
  BY <1>1, RemovalIs
<1>4. disk'.pendingManifest = disk.pendingManifest /\ disk'.pendingVersion = disk.pendingVersion
  BY <1>3, FilesAre
<1>5. /\ disk.launcher \in Releases
      /\ ~astray => HandoffFits("unlink")
  BY <1>1 DEF IInv, AllFit, StageFits
<1>6. Installed = disk.launcher /\ Installed' = Installed
  BY <1>3, <1>5, SmallRelease, LimitsAreNaturals DEF Installed, Releases
<1>7. ASSUME ~astray, Undisturbed
      PROVE  PhaseFits'
  <2>1. /\ record = NoRecord /\ disk.helper = Installed
        /\ disk.pendingManifest = Installed /\ disk.pendingVersion = Installed
        /\ Installed # Absent
    BY <1>5, <1>6, <1>7, LimitsAreNaturals DEF HandoffFits, Releases, Absent
  <2>2. /\ Restored("staged")' = Absent
        /\ Restored("helper")' = disk.launcher
        /\ Restored("pendingManifest")' = disk.launcher
        /\ Restored("pendingVersion")' = disk.launcher
    BY <1>3, <1>4, <1>6, <2>1 DEF Restored
  <2> QED
    BY <1>3, <1>5, <1>6, <2>1, <2>2 DEF PhaseFits, NothingStaged
<1>8. GlobalFits'
  BY <1>3, <1>7 DEF GlobalFits, IInv, Undisturbed
<1>9. StageFits(next)'
  <2>1. \A r : Known(r)' <=> Known(r)
    BY <1>3 DEF Known
  <2>2. ~astray => HandoffFits(next)'
    BY <1>2, <1>3, <1>4, <1>5, <1>6, <2>1 DEF HandoffFits, Known
  <2> QED
    BY <1>2, <1>3, <1>5, <2>2 DEF StageFits, SetupStages
<1> QED
  BY <1>1, <1>2, <1>3, <1>8, <1>9, HolderMoves

(* The record is written: a recovery would restore what is there. *)
LEMMA BeginCommitKeeps ==
  ASSUME IInv, NEW p \in Procs, BeginCommit(p)
  PROVE  IInv'
<1>1. /\ pc[p] = "prepare" /\ record = NoRecord /\ record' = [f \in Parts |-> disk[f]]
      /\ GoTo(p, "commit")
      /\ UNCHANGED <<disk, lock, caller, target, astray, bounds>>
  BY DEF BeginCommit
<1>2. "commit" \in Stages /\ "commit" \in Holding /\ "prepare" \in Holding
  BY DEF Holding, Stages, LauncherStages, HelperStages, SetupStages
<1>3. record' \in [Parts -> 0 .. MaxRelease]
  BY <1>1, FilesAre DEF IInv, DiskFits
<1>4. record' # NoRecord
  BY <1>3, NoRecordIsNoRecord
<1>5. DiskFits' /\ RecordFits' /\ RestFits' /\ setups' = setups
  BY <1>1, <1>3 DEF IInv, DiskFits, RecordFits, RestFits, bounds
<1>6. \A g \in Parts : Restored(g)' = Restored(g)
  BY <1>1, <1>4 DEF Restored
<1>7. GlobalFits'
  BY <1>1, <1>6, PartsKept DEF IInv, bounds, ReleasesFit, MayFollow, Installed, Known
<1>8. StageFits("commit")'
  <2>1. target > disk.version
    BY <1>1 DEF IInv, AllFit, StageFits
  <2> QED
    BY <1>1, <1>4, <2>1 DEF StageFits, HandoffFits, SetupStages
<1> QED
  BY <1>1, <1>2, <1>5, <1>7, <1>8, HolderMoves

(* The commit writes a file of the update. *)
LEMMA CommitPartKeeps ==
  ASSUME IInv, NEW p \in Procs, NEW f \in Parts, CommitPart(p, f)
  PROVE  IInv'
<1>1. /\ pc[p] = "commit" /\ Write(f, target)
      /\ UNCHANGED <<record, lock, pc, caller, target, astray, bounds>>
  BY DEF CommitPart
<1>2. /\ record # NoRecord /\ target > disk.version /\ target \in 0 .. MaxRelease
      /\ pc[p] \in Holding
  BY <1>1 DEF IInv, AllFit, StageFits, RestFits, Holding, LauncherStages
<1>3. DiskFits' /\ disk'[f] = target /\ \A g \in Files \ {f} : disk'[g] = disk[g]
  BY <1>1, <1>2, FilesAre, SmallIsLarge, WriteFits DEF IInv
<1>4. RecordFits' /\ RestFits' /\ setups' = setups
  BY <1>1 DEF IInv, RecordFits, RestFits, bounds
<1>5. UNCHANGED <<disk.launcher, disk.version, disk.manifest>>
  BY <1>3, FilesAre DEF Parts
<1>6. \A g \in Parts : Restored(g)' = Restored(g)
  BY <1>1, <1>2 DEF Restored
<1>7. ReleasesFit => MayFollow(disk.staged)'
  <2>1. Installed \in 0 .. MaxRelease /\ disk.version \in 0 .. MaxRelease
    BY FilesFit DEF IInv
  <2>2. ReleasesFit => Installed <= target /\ Known(target)
    BY <1>2, <2>1 DEF ReleasesFit, Known
  <2>3. disk'.staged \in {disk.staged, target}
    BY <1>3, FilesAre, PartsAre
  <2>4. Installed' = Installed /\ \A r : Known(r)' <=> Known(r)
    BY <1>1, <1>5 DEF Installed, Known
  <2> QED
    BY <2>2, <2>3, <2>4 DEF ReleasesFit, MayFollow, Known
<1>8. GlobalFits'
  BY <1>1, <1>5, <1>6, <1>7, PartsKept DEF IInv, bounds
<1>9. \A s \in Stages : s = pc[p] => StageFits(s)'
  BY <1>1, <1>2, <1>5 DEF StageFits, HandoffFits, SetupStages
<1> QED
  BY <1>1, <1>2, <1>3, <1>4, <1>8, <1>9, HolderStays

(* The commit drops its record: from here a start-up finds the update. *)
LEMMA FinishUpdateKeeps ==
  ASSUME IInv, NEW p \in Procs, FinishUpdate(p)
  PROVE  IInv'
<1>1. /\ pc[p] = "commit" /\ (\A f \in Parts : disk[f] = target) /\ record' = NoRecord
      /\ GoTo(p, "restart")
      /\ UNCHANGED <<disk, lock, caller, target, astray, bounds>>
  BY DEF FinishUpdate, Committed
<1>2. "restart" \in Stages /\ "restart" \in Holding /\ "commit" \in Holding
  BY DEF Holding, Stages, LauncherStages, HelperStages, SetupStages
<1>3. DiskFits' /\ RecordFits' /\ RestFits' /\ setups' = setups
  BY <1>1 DEF IInv, DiskFits, RecordFits, RestFits, bounds
<1>4. target > disk.version /\ target \in 0 .. MaxRelease /\ disk.version \in 0 .. MaxRelease
  BY <1>1, FilesFit DEF IInv, AllFit, StageFits, RestFits
<1>5. \A g \in Parts : Restored(g)' = target
  BY <1>1 DEF Restored
<1>6. Installed' = Installed /\ Known(Installed)' = Known(Installed)
      /\ Installed \in 0 .. MaxRelease
  BY <1>1, FilesFit DEF Installed, Known, IInv
<1>7. ReleasesFit => ReleasesFit'
  <2>1. ReleasesFit => Installed <= target /\ Known(target)
    BY <1>4, <1>6 DEF ReleasesFit, Known
  <2>2. disk.staged = target
    BY <1>1, PartsAre
  <2> QED
    BY <1>1, <1>5, <1>6, <2>1, <2>2, PartsAre DEF ReleasesFit, MayFollow, Known
<1>8. PhaseFits => PhaseFits'
  <2>1. target # Absent
    BY <1>4, LimitsAreNaturals DEF Absent
  <2> QED
    BY <1>1, <1>4, <1>5, <2>1, PartsAre DEF PhaseFits, AllStaged
<1>9. GlobalFits'
  BY <1>1, <1>7, <1>8 DEF IInv, GlobalFits, Undisturbed, bounds
<1>10. StageFits("restart")'
  BY <1>1, <1>4 DEF StageFits, HandoffFits, SetupStages
<1> QED
  BY <1>1, <1>2, <1>3, <1>9, <1>10, HolderMoves

(* Setup copies its baseline: unless an update was left unsettled, nothing is
   staged and the metadata is that of the copied launcher. *)
LEMMA CopyBaselineKeeps ==
  ASSUME IInv, NEW p \in Procs, NEW release \in Releases, CopyBaseline(p, release)
  PROVE  IInv'
<1>1. /\ pc[p] = "setup copy"
      /\ disk' = [f \in Files |-> IF f \in {"launcher", "helper", "manifest", "version"}
                                  THEN release ELSE disk[f]]
      /\ astray' = (astray \/ ~Prepared) /\ Leave(p) /\ UNCHANGED <<record, target, bounds>>
  BY DEF CopyBaseline
<1>2. pc[p] \in Holding /\ setups > 0
  BY <1>1 DEF IInv, AllFit, StageFits, SetupStages, Holding
<1>3. release \in 0 .. MaxRelease /\ release \in 0 .. 2 * MaxRelease
  BY LimitsAreNaturals DEF Releases
<1>4. DiskFits'
  <2>1. \A f \in Files : disk[f] \in 0 .. 2 * MaxRelease
    BY DEF IInv, DiskFits
  <2>2. \A f \in Files \ {"launcher", "backup"} : disk[f] \in 0 .. MaxRelease
    BY DEF IInv, DiskFits
  <2> QED
    BY <1>1, <1>3, <2>1, <2>2 DEF DiskFits
<1>5. RecordFits' /\ RestFits' /\ setups' = setups
  BY <1>1 DEF IInv, RecordFits, RestFits, bounds
<1>6. ASSUME ~astray'
      PROVE  ReleasesFit'
  <2>1. record = NoRecord /\ disk.staged = Absent
    BY <1>1, <1>6 DEF Prepared, SetupRemovals
  <2>2. /\ disk'.launcher = release /\ disk'.version = release /\ disk'.manifest = release
        /\ disk'.staged = Absent
    BY <1>1, <2>1, FilesAre
  <2>3. Installed' = release
    BY <1>3, <2>2, SmallRelease DEF Installed
  <2>4. Restored("staged")' = Absent
    BY <1>1, <2>1, <2>2 DEF Restored
  <2>5. release <= release
    BY <1>3, LimitsAreNaturals
  <2>6. Known(Installed)'
    BY <2>2, <2>3, <2>5 DEF Known
  <2> QED
    BY <2>2, <2>3, <2>4, <2>5, <2>6 DEF ReleasesFit, MayFollow
<1>7. GlobalFits'
  BY <1>2, <1>5, <1>6 DEF GlobalFits, Undisturbed
<1> QED
  BY <1>1, <1>2, <1>4, <1>5, <1>7, HolderLeaves

(* What is ready to be promoted: one release in all four files. *)
LEMMA ReadyIs ==
  ASSUME DiskFits, ReadyToPromote
  PROVE  /\ record = NoRecord
         /\ disk.staged # Absent
         /\ disk.helper = disk.staged
         /\ disk.pendingManifest = disk.staged /\ disk.pendingVersion = disk.staged
<1>1. record = NoRecord /\ StagedState = "ready"
  BY DEF ReadyToPromote
<1>2. ~(\E f \in Parts : disk[f] = Absent) /\ disk.pendingManifest = disk.pendingVersion
      /\ disk.staged = disk.pendingManifest /\ disk.helper = disk.pendingManifest
  BY <1>1 DEF StagedState
<1> QED
  BY <1>1, <1>2, PartsAre

(* replace_launcher: unless it goes astray here, the staged launcher was ready, so
   its metadata waits, and what it replaces was not newer. *)
LEMMA ReplaceKeeps ==
  ASSUME IInv, NEW p \in Procs, Replace(p)
  PROVE  IInv'
<1>1. pc[p] = "replace" /\ UNCHANGED <<record, target, bounds>>
  BY DEF Replace
<1>2. CASE ~PathsAreFiles
  <2>1. Leave(p) /\ UNCHANGED <<disk, record, target, astray, bounds>>
    BY <1>2 DEF Replace
  <2> QED
    BY <2>1, NothingChanges, StillLeaves
<1>3. CASE PathsAreFiles
  <2>1. PICK renamed \in BOOLEAN :
              /\ disk' = [disk EXCEPT
                    !.launcher = disk.staged,
                    !.staged = IF renamed THEN Absent ELSE @,
                    !.backup = IF signs THEN disk.launcher ELSE @]
              /\ GoTo(p, IF renamed THEN AfterReplace ELSE "unlink")
    BY <1>3 DEF Replace
  <2>2. astray' = (astray \/ ~ReadyToPromote) /\ UNCHANGED <<lock, caller>>
    BY <1>3 DEF Replace
  <2>3. PICK next : next = IF renamed THEN AfterReplace ELSE "unlink"
    OBVIOUS
  <2>4. /\ GoTo(p, next)
        /\ next \in {"sign", "promote", "unlink"}
        /\ next = "sign" => signs
        /\ next # "unlink" => renamed
        /\ next \in Stages /\ next \in Holding /\ pc[p] \in Holding
    BY <1>1, <2>1, <2>3, Zenon
       DEF AfterReplace, Holding, Stages, LauncherStages, HelperStages, SetupStages
  <2>5. disk \in [Files -> 0 .. 2 * MaxRelease]
    BY DEF IInv, DiskFits
  <2>6. /\ DOMAIN disk' = Files
        /\ disk'.launcher = disk.staged
        /\ disk'.staged = IF renamed THEN Absent ELSE disk.staged
        /\ disk'.backup = IF signs THEN disk.launcher ELSE disk.backup
        /\ \A g \in Files \ {"launcher", "staged", "backup"} : disk'[g] = disk[g]
    BY <2>1, <2>5, FilesAre
  <2>7. /\ disk.launcher \in 0 .. 2 * MaxRelease /\ disk.backup \in 0 .. 2 * MaxRelease
        /\ disk.staged \in 0 .. MaxRelease /\ disk.staged \in 0 .. 2 * MaxRelease
        /\ Installed \in 0 .. MaxRelease
        /\ disk.version \in 0 .. MaxRelease /\ disk.manifest \in 0 .. MaxRelease
    BY FilesFit, SmallIsLarge DEF IInv
  <2>8. /\ disk'.helper = disk.helper /\ disk'.version = disk.version
        /\ disk'.manifest = disk.manifest
        /\ disk'.pendingManifest = disk.pendingManifest
        /\ disk'.pendingVersion = disk.pendingVersion
    BY <2>6, FilesAre
  <2>9. DiskFits'
    <3>1. ASSUME NEW g \in Files
          PROVE  /\ disk'[g] \in 0 .. 2 * MaxRelease
                 /\ g \notin {"launcher", "backup"} => disk'[g] \in 0 .. MaxRelease
      <4>1. CASE g \in {"launcher", "backup"}
        BY <2>6, <2>7, <4>1
      <4>2. CASE g = "staged"
        BY <2>6, <2>7, <4>2, AbsentFits, SmallIsLarge
      <4>3. CASE g \notin {"launcher", "staged", "backup"}
        BY <2>6, <4>3 DEF IInv, DiskFits
      <4> QED
        BY <4>1, <4>2, <4>3
    <3>2. disk' = [g \in Files |-> disk'[g]]
      BY <2>1, <2>5
    <3> QED
      BY <3>1, <3>2 DEF DiskFits
  <2>10. RecordFits' /\ RestFits' /\ setups' = setups /\ signs' = signs
    BY <1>1, <2>2 DEF IInv, RecordFits, RestFits, bounds
  <2>11. disk.staged \in Releases /\ disk.staged # Absent
    BY <1>3, <2>7, LimitsAreNaturals DEF PathsAreFiles, Releases, Absent
  <2>12. Installed' = disk.staged
    BY <2>6, <2>7, SmallRelease DEF Installed
  <2>13. ASSUME ~astray'
         PROVE  /\ ~astray /\ ReleasesFit
                /\ record = NoRecord /\ record' = NoRecord
                /\ disk.helper = disk.staged
                /\ disk.pendingManifest = disk.staged /\ disk.pendingVersion = disk.staged
                /\ Installed <= disk.staged /\ Known(disk.staged)
    <3>1. ReadyToPromote /\ ~astray
      BY <2>2, <2>13
    <3>2. ReleasesFit
      BY <3>1 DEF IInv, GlobalFits
    <3>3. Installed <= disk.staged /\ Known(disk.staged)
      BY <2>11, <3>2 DEF ReleasesFit, MayFollow
    <3> QED
      BY <1>1, <3>1, <3>2, <3>3, ReadyIs DEF IInv
  <2>14. \A r : Known(r)' <=> Known(r)
    BY <1>1, <2>8 DEF Known
  <2>15. ASSUME ~astray'
         PROVE  ReleasesFit'
    <3>1. disk.version <= disk.staged /\ disk.manifest <= disk.staged
      BY <2>7, <2>13, <2>15 DEF ReleasesFit
    <3>2. disk'.staged \in {Absent, disk.staged} /\ Restored("staged")' = disk'.staged
      BY <2>6, <2>13, <2>15 DEF Restored
    <3>3. disk.staged <= disk.staged
      BY <2>7
    <3>4. disk.staged <= disk'.version \/ disk.staged <= target'
      BY <1>1, <2>8, <2>13, <2>15 DEF Known
    <3>5. MayFollow(disk.staged)' /\ MayFollow(Restored("staged"))'
      BY <2>12, <3>2, <3>3, <3>4 DEF MayFollow, Known
    <3> QED
      BY <2>8, <2>12, <3>1, <3>4, <3>5 DEF ReleasesFit, Known
  <2>16. ASSUME ~astray', Undisturbed
         PROVE  PhaseFits'
    <3>1. disk.version < disk.staged
      <4>1. PhaseFits
        BY <2>13, <2>16 DEF IInv, GlobalFits
      <4>2. Restored("staged") = disk.staged
        BY <2>13, <2>16 DEF Restored
      <4> QED
        BY <2>11, <4>1, <4>2 DEF PhaseFits, AllStaged
    <3>2. \A f \in Parts \ {"staged"} : Restored(f)' = disk.staged
      BY <2>8, <2>13, <2>16 DEF Restored, Parts
    <3>3. Restored("staged")' = disk'.staged
      BY <2>13, <2>16 DEF Restored
    <3>4. CASE renamed
      <4>1. Restored("staged")' = Absent
        BY <2>6, <3>3, <3>4
      <4> QED
        BY <2>6, <2>11, <3>2, <4>1, PartsAre DEF PhaseFits, NothingStaged
    <3>5. CASE ~renamed
      <4>1. Restored("staged")' = disk.staged
        BY <2>6, <3>3, <3>5
      <4> QED
        BY <2>6, <2>8, <2>11, <3>1, <3>2, <4>1 DEF PhaseFits, AllStaged
    <3> QED
      BY <3>4, <3>5
  <2>17. GlobalFits'
    BY <2>10, <2>15, <2>16 DEF GlobalFits, Undisturbed
  <2>18. ~astray' => HandoffFits(next)'
    <3>1. ASSUME ~astray', signs
          PROVE  /\ disk.version <= ReleaseOf(disk'.backup)
                 /\ disk.manifest <= ReleaseOf(disk'.backup)
                 /\ Known(ReleaseOf(disk'.backup))
      <4>1. ReleaseOf(disk'.backup) = Installed
        BY <2>6, <3>1 DEF Installed
      <4> QED
        BY <2>13, <3>1, <4>1 DEF ReleasesFit
    <3>2. ASSUME ~astray', signs
          PROVE  Known(ReleaseOf(disk.backup))'
      BY <2>14, <3>1, <3>2 DEF Known
    <3> QED
      BY <2>4, <2>6, <2>8, <2>10, <2>11, <2>12, <2>13, <3>1, <3>2 DEF HandoffFits
  <2>19. StageFits(next)'
    BY <2>4, <2>6, <2>10, <2>11, <2>18 DEF StageFits, SetupStages
  <2> QED
    BY <2>2, <2>4, <2>9, <2>10, <2>17, <2>19, HolderMoves
<1> QED
  BY <1>2, <1>3

(* A write of the launcher that drops the backup. *)
LEMMA LauncherWritten ==
  ASSUME DiskFits, NEW content \in 0 .. 2 * MaxRelease,
         disk' = [disk EXCEPT !.launcher = content, !.backup = Absent]
  PROVE  /\ DiskFits' /\ disk'.launcher = content
         /\ \A g \in Files \ {"launcher", "backup"} : disk'[g] = disk[g]
         /\ \A g \in Parts \cup {"manifest", "version"} : disk'[g] = disk[g]
<1>1. disk \in [Files -> 0 .. 2 * MaxRelease] /\ Absent \in 0 .. 2 * MaxRelease
  BY AbsentFits, SmallIsLarge DEF DiskFits
<1>2. /\ disk' \in [Files -> 0 .. 2 * MaxRelease] /\ disk'.launcher = content
      /\ \A g \in Files \ {"launcher", "backup"} : disk'[g] = disk[g]
  BY <1>1, FilesAre
<1>3. \A g \in Files \ {"launcher", "backup"} : disk'[g] \in 0 .. MaxRelease
  BY <1>2 DEF DiskFits
<1> QED
  BY <1>2, <1>3, FilesAre DEF DiskFits

(* The launcher is re-signed: the bytes change, the release does not. *)
LEMMA SignKeeps ==
  ASSUME IInv, NEW p \in Procs, Sign(p)
  PROVE  IInv'
<1>1. PICK signed \in {disk.launcher, Resigned(disk.launcher)} :
          disk' = [disk EXCEPT !.launcher = signed, !.backup = Absent]
  BY DEF Sign
<1>2. /\ pc[p] = "sign" /\ GoTo(p, "promote")
      /\ UNCHANGED <<record, lock, caller, target, astray, bounds>>
  BY DEF Sign
<1>3. "promote" \in Stages /\ "promote" \in Holding /\ "sign" \in Holding
  BY DEF Holding, Stages, LauncherStages, HelperStages, SetupStages
<1>4. disk.launcher \in Releases /\ signs /\ (~astray => HandoffFits("sign"))
  BY <1>2 DEF IInv, AllFit, StageFits
<1>5. /\ signed \in 0 .. 2 * MaxRelease /\ ReleaseOf(signed) = disk.launcher
      /\ Installed = disk.launcher
  BY <1>4, SmallRelease, SmallIsLarge, LimitsAreNaturals DEF Releases, Installed
<1>6. /\ DiskFits' /\ disk'.launcher = signed
      /\ \A g \in Parts \cup {"manifest", "version"} : disk'[g] = disk[g]
  BY <1>1, <1>5, LauncherWritten DEF IInv
<1>7. RecordFits' /\ RestFits' /\ setups' = setups /\ signs' = signs
  BY <1>2 DEF IInv, RecordFits, RestFits, bounds
<1>8. Installed' = Installed
  BY <1>5, <1>6 DEF Installed
<1>9. \A r : Known(r)' <=> Known(r)
  BY <1>2, <1>6 DEF Known
<1>10. ReleasesFit => ReleasesFit'
  <2>1. Restored("staged")' = Restored("staged") /\ disk'.staged = disk.staged
    BY <1>2, <1>6, PartsAre DEF Restored
  <2>2. /\ MayFollow(disk.staged) => MayFollow(disk.staged)'
        /\ MayFollow(Restored("staged")) => MayFollow(Restored("staged"))'
    BY <1>8, <1>9, <2>1 DEF MayFollow, Known
  <2>3. Known(Installed) => Known(Installed)'
    BY <1>8, <1>9 DEF Known
  <2> QED
    BY <1>6, <1>8, <2>2, <2>3 DEF ReleasesFit
<1>11. GlobalFits'
  BY <1>2, <1>4, <1>7, <1>10 DEF GlobalFits, IInv, Undisturbed
<1>12. StageFits("promote")'
  <2>1. ~astray => HandoffFits("promote")'
    BY <1>2, <1>4, <1>6, <1>8, PartsAre DEF HandoffFits
  <2> QED
    BY <1>2, <2>1 DEF StageFits, SetupStages
<1> QED
  BY <1>2, <1>3, <1>6, <1>7, <1>11, <1>12, HolderMoves

(* The signature fails, the backup comes back: it is still as new as the metadata. *)
LEMMA SignFailureKeeps ==
  ASSUME IInv, NEW p \in Procs, pc[p] = "sign", Leave(p),
         disk' = [disk EXCEPT !.launcher = disk.backup, !.backup = Absent],
         UNCHANGED <<record, target, astray, crashes, setups, signs>>, faults' \in Nat
  PROVE  IInv'
<1>1. pc[p] \in Holding
  BY DEF Holding
<1>2. signs /\ (~astray => HandoffFits("sign"))
  BY DEF IInv, AllFit, StageFits
<1>3. /\ DiskFits' /\ disk'.launcher = disk.backup
      /\ \A g \in Parts \cup {"manifest", "version"} : disk'[g] = disk[g]
  BY FilesFit, LauncherWritten DEF IInv
<1>4. RecordFits' /\ RestFits'
  BY DEF IInv, RecordFits, RestFits
<1>5. Installed' = ReleaseOf(disk.backup)
  BY <1>3 DEF Installed
<1>6. \A r : Known(r)' <=> Known(r)
  BY <1>3 DEF Known
<1>7. ASSUME ~astray
      PROVE  ReleasesFit'
  <2>1. /\ record = NoRecord /\ disk.staged = Absent
        /\ disk.version <= ReleaseOf(disk.backup) /\ disk.manifest <= ReleaseOf(disk.backup)
        /\ Known(ReleaseOf(disk.backup))
    BY <1>2, <1>7 DEF HandoffFits
  <2>2. disk'.staged = Absent /\ Restored("staged")' = Absent
    BY <1>3, <2>1, PartsAre DEF Restored
  <2>3. Known(Installed)'
    BY <1>5, <1>6, <2>1 DEF Known
  <2> QED
    BY <1>3, <1>5, <2>1, <2>2, <2>3 DEF ReleasesFit, MayFollow
<1>8. GlobalFits'
  BY <1>2, <1>7 DEF GlobalFits, Undisturbed
<1> QED
  BY <1>1, <1>3, <1>4, <1>8, HolderLeaves

(* A pending file takes the place of an installed one. *)
LEMMA MetadataWritten ==
  ASSUME DiskFits, NEW pending \in {"pendingManifest", "pendingVersion"},
         NEW installed \in {"manifest", "version"},
         disk' = [disk EXCEPT ![installed] = disk[pending], ![pending] = Absent]
  PROVE  /\ DiskFits' /\ disk'[installed] = disk[pending] /\ disk'[pending] = Absent
         /\ \A g \in Files \ {installed, pending} : disk'[g] = disk[g]
<1>1. /\ disk \in [Files -> 0 .. 2 * MaxRelease] /\ Absent \in 0 .. 2 * MaxRelease
      /\ disk[pending] \in 0 .. MaxRelease /\ disk[pending] \in 0 .. 2 * MaxRelease
      /\ Absent \in 0 .. MaxRelease
  BY AbsentFits, SmallIsLarge, FilesAre DEF DiskFits
<1>2. /\ disk' \in [Files -> 0 .. 2 * MaxRelease]
      /\ disk'[installed] = disk[pending] /\ disk'[pending] = Absent
      /\ \A g \in Files \ {installed, pending} : disk'[g] = disk[g]
  BY <1>1, FilesAre
<1>3. \A g \in Files \ {"launcher", "backup"} : disk'[g] \in 0 .. MaxRelease
  BY <1>1, <1>2 DEF DiskFits
<1> QED
  BY <1>2, <1>3 DEF DiskFits

(* The promotion of the manifest and then of the version. *)
LEMMA PromotingKeeps ==
  ASSUME IInv, NEW p \in Procs, PromoteManifest(p) \/ PromoteVersion(p)
  PROVE  IInv'
<1>1. /\ pc[p] \in {"promote", "adopt"}
      /\ UNCHANGED <<record, lock, pc, caller, target, astray, bounds>>
  BY DEF PromoteManifest, PromoteVersion, Promotes
<1>2. /\ pc[p] \in Holding
      /\ pc[p] = "adopt" => record = NoRecord
      /\ ~astray => HandoffFits(pc[p])
  BY <1>1 DEF IInv, AllFit, StageFits, Holding, LauncherStages
<1>3. ASSUME ~astray
      PROVE  /\ record = NoRecord /\ disk.staged = Absent
             /\ disk.pendingManifest \in {Absent, Installed}
             /\ disk.pendingVersion \in {Absent, Installed}
             /\ ReleasesFit
  BY <1>1, <1>2, <1>3 DEF HandoffFits, IInv, GlobalFits
<1>4. /\ Installed \in 0 .. MaxRelease
      /\ disk.launcher \in Releases => Installed = disk.launcher /\ Installed # Absent
  BY FilesFit, SmallRelease, LimitsAreNaturals DEF Installed, Releases, Absent, IInv
<1>5. RecordFits' /\ RestFits' /\ setups' = setups /\ signs' = signs
  BY <1>1 DEF IInv, RecordFits, RestFits, bounds
<1>6. CASE PromoteManifest(p)
  <2>1. /\ disk.pendingManifest # Absent
        /\ disk' = [disk EXCEPT !.manifest = disk.pendingManifest, !.pendingManifest = Absent]
    BY <1>6 DEF PromoteManifest
  <2>2. /\ DiskFits' /\ disk'.manifest = disk.pendingManifest
        /\ disk'.pendingManifest = Absent
        /\ \A g \in Files \ {"manifest", "pendingManifest"} : disk'[g] = disk[g]
    BY <2>1, MetadataWritten DEF IInv
  <2>3. /\ disk'.launcher = disk.launcher /\ disk'.version = disk.version
        /\ disk'.staged = disk.staged /\ disk'.helper = disk.helper
        /\ disk'.pendingVersion = disk.pendingVersion
    BY <2>2, FilesAre
  <2>4. Installed' = Installed /\ Known(Installed)' = Known(Installed)
    BY <1>1, <2>3 DEF Installed, Known
  <2>5. ASSUME ~astray
        PROVE  ReleasesFit'
    <3>1. disk'.manifest = Installed /\ disk'.staged = Absent /\ Restored("staged")' = Absent
      BY <1>1, <1>3, <2>1, <2>2, <2>3, <2>5 DEF Restored
    <3> QED
      BY <1>3, <1>4, <2>3, <2>4, <2>5, <3>1 DEF ReleasesFit, MayFollow
  <2>6. ASSUME ~astray, PhaseFits
        PROVE  PhaseFits'
    <3>1. NothingStaged /\ disk.launcher \in Releases
      BY <1>3, <2>6 DEF PhaseFits, Restored
    <3>2. /\ disk.helper = disk.launcher /\ disk.pendingVersion = disk.launcher
          /\ disk.pendingManifest = disk.launcher /\ disk.launcher # Absent
      BY <1>3, <1>4, <2>1, <2>6, <3>1 DEF NothingStaged, Restored
    <3> QED
      BY <1>1, <1>3, <2>2, <2>3, <2>6, <3>1, <3>2 DEF PhaseFits, NothingStaged, Restored
  <2>7. GlobalFits'
    BY <1>1, <1>5, <2>5, <2>6 DEF IInv, GlobalFits, Undisturbed
  <2>8. \A s \in Stages : s = pc[p] => StageFits(s)'
    <3>1. \A s \in {"promote", "adopt"} : ~astray => HandoffFits(s)'
      BY <1>1, <1>3, <2>2, <2>3, <2>4 DEF HandoffFits
    <3> QED
      BY <1>1, <1>2, <3>1 DEF StageFits, SetupStages
  <2> QED
    BY <1>1, <1>2, <1>5, <2>2, <2>7, <2>8, HolderStays
<1>7. CASE PromoteVersion(p)
  <2>1. /\ disk.pendingManifest = Absent /\ disk.pendingVersion # Absent
        /\ disk' = [disk EXCEPT !.version = disk.pendingVersion, !.pendingVersion = Absent]
    BY <1>7 DEF PromoteVersion
  <2>2. /\ DiskFits' /\ disk'.version = disk.pendingVersion
        /\ disk'.pendingVersion = Absent
        /\ \A g \in Files \ {"version", "pendingVersion"} : disk'[g] = disk[g]
    BY <2>1, MetadataWritten DEF IInv
  <2>3. /\ disk'.launcher = disk.launcher /\ disk'.manifest = disk.manifest
        /\ disk'.staged = disk.staged /\ disk'.helper = disk.helper
        /\ disk'.pendingManifest = disk.pendingManifest
    BY <2>2, FilesAre
  <2>4. Installed' = Installed
    BY <2>3 DEF Installed
  <2>5. ASSUME ~astray
        PROVE  ReleasesFit'
    <3>1. disk'.version = Installed /\ disk'.staged = Absent /\ Restored("staged")' = Absent
      BY <1>1, <1>3, <2>1, <2>2, <2>3, <2>5 DEF Restored
    <3>2. Installed <= Installed
      BY <1>4
    <3>3. Known(Installed)'
      BY <2>4, <3>1, <3>2 DEF Known
    <3> QED
      BY <1>3, <2>3, <2>4, <2>5, <3>1, <3>2, <3>3 DEF ReleasesFit, MayFollow
  <2>6. ASSUME ~astray, PhaseFits
        PROVE  PhaseFits'
    <3>1. NothingStaged /\ disk.launcher \in Releases
      BY <1>3, <2>6 DEF PhaseFits, Restored
    <3>2. /\ disk.helper = disk.launcher /\ disk.pendingVersion = disk.launcher
          /\ disk.manifest = disk.launcher
      BY <1>3, <2>1, <2>6, <3>1 DEF NothingStaged, Restored
    <3> QED
      BY <1>1, <1>3, <2>1, <2>2, <2>3, <2>6, <3>1, <3>2
         DEF PhaseFits, NothingStaged, Restored
  <2>7. GlobalFits'
    BY <1>1, <1>5, <2>5, <2>6 DEF IInv, GlobalFits, Undisturbed
  <2>8. \A s \in Stages : s = pc[p] => StageFits(s)'
    <3>1. \A s \in {"promote", "adopt"} : ~astray => HandoffFits(s)'
      BY <1>1, <1>3, <2>1, <2>2, <2>3, <2>4 DEF HandoffFits
    <3> QED
      BY <1>1, <1>2, <3>1 DEF StageFits, SetupStages
  <2> QED
    BY <1>1, <1>2, <1>5, <2>2, <2>7, <2>8, HolderStays
<1> QED
  BY <1>6, <1>7

(* A failure, wherever the process is. *)
LEMMA FailKeeps ==
  ASSUME IInv, NEW p \in Procs, Fail(p)
  PROVE  IInv'
<1>1. /\ Failed(p) /\ faults' = faults + 1
      /\ UNCHANGED <<record, target, astray, crashes, setups, signs>>
  BY DEF Fail
<1>2. faults' \in Nat /\ RestFits'
  BY <1>1 DEF IInv, RestFits
<1>3. caller \in [Procs -> Procs \cup {NoProc}] /\ StageFits(pc[p])
  BY DEF IInv, ProcsFit, AllFit
<1>4. ASSUME UNCHANGED disk
      PROVE  Still
  BY <1>1, <1>2, <1>4 DEF Still, IInv, RestFits
<1>5. ASSUME NEW next, GoTo(p, next), UNCHANGED <<disk, lock, caller>>,
             pc[p] \in Holding, next \in Holding, StageFits(next)
      PROVE  IInv'
  BY <1>3, <1>4, <1>5, StagesAre, StillMoves
<1>6. CASE pc[p] \in DOMAIN AfterFailure
  <2>1. PICK next : next = AfterFailure[pc[p]]
    OBVIOUS
  <2>2. /\ pc[p] \in {"recover", "handoff", "adopt", "resume", "prepare", "commit", "undo",
                      "restart", "reopen"}
        /\ next \in {"resume", "scan", "run", "undo", "restart"}
        /\ next = "restart" => pc[p] = "reopen"
    BY <1>6, <2>1 DEF AfterFailure
  <2>3. pc[p] \in Holding /\ next \in Holding
    BY <2>2 DEF Holding, LauncherStages
  <2>4. StageFits(next)
    BY <1>3, <2>2 DEF StageFits, HandoffFits, SetupStages
  <2>5. StageFits("run")
    BY DEF StageFits, HandoffFits, SetupStages
  <2>6. "run" \in Holding
    BY DEF Holding, LauncherStages
  <2>7. /\ GoTo(p, next) \/ GoTo(p, "run")
        /\ UNCHANGED <<disk, lock, caller>>
    BY <1>1, <2>1, <2>2 DEF Failed, ClearStages, HelperStages, SetupStages
  <2> QED
    BY <1>5, <2>3, <2>4, <2>5, <2>6, <2>7
<1>7. CASE pc[p] = "hand over"
  <2>1. GoTo(p, "resume") /\ UNCHANGED <<disk, lock, caller>>
    BY <1>1, <1>7 DEF Failed, AfterFailure, ClearStages, HelperStages, SetupStages
  <2>2. StageFits("resume")
    BY DEF StageFits, HandoffFits, SetupStages
  <2>3. "hand over" \in Holding /\ "resume" \in Holding
    BY DEF Holding, LauncherStages
  <2> QED
    BY <1>5, <1>7, <2>1, <2>2, <2>3
<1>8. CASE pc[p] \in DOMAIN ClearStages
  <2>1. PICK next : next = ClearStages[pc[p]].next
    OBVIOUS
  <2>2. /\ pc[p] \in {"clear staged", "clear manifest", "clear version"}
        /\ next \in {"clear manifest", "clear version", "resume"}
    BY <1>8, <2>1 DEF ClearStages
  <2>3. pc[p] \in Holding /\ next \in Holding
    BY <2>2 DEF Holding, LauncherStages
  <2>4. StageFits(next)
    BY <1>3, <2>2 DEF StageFits, HandoffFits, SetupStages
  <2>5. GoTo(p, next) /\ UNCHANGED <<disk, lock, caller>>
    BY <1>1, <2>1, <2>2 DEF Failed, AfterFailure, HelperStages, SetupStages
  <2> QED
    BY <1>5, <2>3, <2>4, <2>5
<1>9. CASE pc[p] = "sign"
  <2>1. /\ disk' = [disk EXCEPT !.launcher = disk.backup, !.backup = Absent]
        /\ Leave(p)
    BY <1>1, <1>9 DEF Failed, AfterFailure, ClearStages, HelperStages, SetupStages
  <2> QED
    BY <1>1, <1>2, <1>9, <2>1, SignFailureKeeps
<1>10. CASE pc[p] \in (HelperStages \cup SetupStages) \ {"sign"}
  <2>1. UNCHANGED disk /\ Leave(p)
    BY <1>1, <1>10 DEF Failed, AfterFailure, ClearStages, HelperStages, SetupStages
  <2> QED
    BY <1>4, <2>1, StillLeaves
<1> QED
  BY <1>1, <1>6, <1>7, <1>8, <1>9, <1>10, Zenon DEF Failed, AfterFailure

(* The invariant is inductive: one case per action. *)
LEMMA NextKeeps ==
  ASSUME IInv, [Next]_vars
  PROVE  IInv'
<1>1. ASSUME NEW p \in Procs, Run(p)
      PROVE  IInv'
  <2>1. CASE StartLauncher(p) \/ StartSetup(p) \/ RelockSetup(p)
    BY <2>1, LocksKeep
  <2>2. CASE \E f \in Parts : RestorePart(p, f) \/ CommitPart(p, f)
    BY <2>2, RestorePartKeeps, CommitPartKeeps
  <2>3. CASE DropRecord(p) \/ Recovered(p)
    BY <2>3, DropRecordKeeps, RecoveredKeeps
  <2>4. CASE Decide(p) \/ Clear(p) \/ SpawnHelper(p) \/ Exit(p) \/ Resume(p)
    BY <2>4, DecideKeeps, ClearKeeps, SpawnHelperKeeps, LeavingKeeps, ResumeKeeps
  <2>5. CASE BeginCommit(p) \/ FinishUpdate(p) \/ WriteResume(p)
    BY <2>5, BeginCommitKeeps, FinishUpdateKeeps, ResumeKeeps
  <2>6. CASE Validate(p) \/ WaitForCaller(p) \/ Acquire(p)
    BY <2>6, ValidateKeeps, GoingKeeps
  <2>7. CASE Replace(p) \/ RemoveStaged(p) \/ Sign(p)
    BY <2>7, ReplaceKeeps, RemoveStagedKeeps, SignKeeps
  <2>8. CASE PromoteManifest(p) \/ PromoteVersion(p) \/ Adopted(p)
    BY <2>8, PromotingKeeps, GoingKeeps
  <2>9. CASE Release(p) \/ Relaunch(p) \/ FinishPreparation(p)
    BY <2>9, GoingKeeps
  <2>10. CASE \E f \in SetupRemovals : RemovePending(p, f)
    BY <2>10, RemovePendingKeeps
  <2>11. CASE \E release \in Releases : CopyBaseline(p, release)
    BY <2>11, CopyBaselineKeeps
  <2> QED
    BY <1>1, <2>1, <2>2, <2>3, <2>4, <2>5, <2>6, <2>7, <2>8, <2>9, <2>10, <2>11, Zenon DEF Run
<1>2. ASSUME NEW p \in Procs, OpenLauncher(p) \/ OpenSetup(p)
      PROVE  IInv'
  BY <1>2, OpeningKeeps
<1>3. ASSUME NEW p \in Procs, \E release \in Releases : BeginUpdate(p, release)
      PROVE  IInv'
  BY <1>3, BeginUpdateKeeps
<1>4. ASSUME NEW p \in Procs, Quit(p) \/ Fail(p) \/ Crash(p)
      PROVE  IInv'
  BY <1>4, GoingKeeps, FailKeeps, LeavingKeeps
<1>5. CASE UNCHANGED vars
  <2>1. UNCHANGED <<disk, record, lock, pc, caller, target, astray>> /\ UNCHANGED bounds
    BY <1>5 DEF vars
  <2>2. Still
    BY <2>1, NothingChanges
  <2>3. GlobalFits' /\ \A s \in Stages : StageFits(s) => StageFits(s)'
    BY <2>2, DataKept DEF IInv, Still, RestFits
  <2>4. DiskFits' /\ RecordFits' /\ ProcsFit' /\ RestFits' /\ LockHeld'
    BY <2>1, <2>2 DEF IInv, DiskFits, RecordFits, ProcsFit, LockHeld, Still
  <2>5. AllFit'
    BY <2>1, <2>3 DEF IInv, AllFit, ProcsFit
  <2> QED
    BY <2>3, <2>4, <2>5 DEF IInv
<1> QED
  BY <1>1, <1>2, <1>3, <1>4, <1>5, Zenon DEF Next

(* It holds at the start. *)
LEMMA InitFits == Init => IInv
<1> SUFFICES ASSUME Init PROVE IInv
  OBVIOUS
<1>1. /\ disk = [f \in Files |->
                 IF f \in {"launcher", "helper", "manifest", "version"} THEN 1 ELSE Absent]
      /\ record = NoRecord /\ lock = NoProc
      /\ pc = [p \in Procs |-> "gone"] /\ caller = [p \in Procs |-> NoProc]
      /\ target = Absent /\ astray = FALSE /\ signs \in BOOLEAN
      /\ crashes = 0 /\ faults = 0 /\ setups = 0
  BY DEF Init
<1>2. 1 \in 0 .. MaxRelease /\ 1 \in 0 .. 2 * MaxRelease /\ 1 \in Releases
      /\ 0 \in 0 .. MaxRelease /\ 0 \in 0 .. 2 * MaxRelease
  BY LimitsAreNaturals DEF Releases
<1>3. DiskFits
  BY <1>1, <1>2 DEF DiskFits, Absent
<1>4. RecordFits /\ ProcsFit /\ RestFits
  BY <1>1, <1>2, StagesAre DEF RecordFits, ProcsFit, RestFits, Absent
<1>5. LockHeld
  BY <1>1, StagesAre, NoProcIsNoProcess DEF LockHeld
<1>6. AllFit
  BY <1>1, GoneFits DEF AllFit
<1>7. /\ disk.launcher = 1 /\ disk.helper = 1 /\ disk.manifest = 1 /\ disk.version = 1
      /\ disk.staged = 0 /\ disk.pendingManifest = 0 /\ disk.pendingVersion = 0
      /\ Installed = 1
  BY <1>1, <1>2, FilesAre, SmallRelease DEF Absent, Installed
<1>8. ReleasesFit
  BY <1>1, <1>7 DEF ReleasesFit, MayFollow, Known, Restored, Absent
<1>9. PhaseFits
  BY <1>1, <1>2, <1>7 DEF PhaseFits, NothingStaged, Restored, Absent
<1>10. GlobalFits
  BY <1>8, <1>9 DEF GlobalFits
<1> QED
  BY <1>3, <1>4, <1>5, <1>6, <1>10 DEF IInv

(* So it always holds. *)
LEMMA AlwaysFits == Spec => []IInv
<1>1. IInv /\ [Next]_vars => IInv'
  BY NextKeeps
<1> QED
  BY InitFits, <1>1, PTL DEF Spec

(* The variables keep their types, for any number of processes, releases, kills,
   failures and runs of setup. *)
THEOREM TypeCorrect == Spec => []TypeOK
<1>1. IInv => TypeOK
  <2> SUFFICES ASSUME IInv PROVE TypeOK
    OBVIOUS
  <2>1. \A f \in Files \ {"launcher", "backup"} : disk[f] <= MaxRelease
    BY LimitsAreNaturals DEF IInv, DiskFits
  <2> QED
    BY <2>1 DEF IInv, DiskFits, RecordFits, ProcsFit, RestFits, Stages, TypeOK
<1> QED
  BY AlwaysFits, <1>1, PTL

(* Launchers, helpers and setup exclude each other: at most one process is past the
   acquisition of the installation lock, and it holds that lock, whatever ends the
   others. *)
THEOREM OneHolder ==
  Spec => [](\A p, q \in Procs : pc[p] \in Holding /\ pc[q] \in Holding => lock = p /\ p = q)
<1>1. IInv => \A p, q \in Procs : pc[p] \in Holding /\ pc[q] \in Holding => lock = p /\ p = q
  BY LockIsExclusive DEF IInv, LockHeld
<1> QED
  BY AlwaysFits, <1>1, PTL

(* A launcher that committed an update finds it ready for its restart: nobody else
   can touch the four files while it holds the lock, and none of its own failures
   leads to the restart with one of them missing. *)
THEOREM RestartFindsItsUpdate == Spec => []RestartIsReady
<1>1. IInv => RestartIsReady
  <2> SUFFICES ASSUME IInv, NEW p \in Procs, pc[p] \in {"restart", "reopen"}
               PROVE  ReadyToPromote
    BY DEF RestartIsReady
  <2>1. /\ record = NoRecord /\ target > disk.version /\ \A f \in Parts : disk[f] = target
    BY DEF IInv, AllFit, StageFits
  <2>2. target \in 0 .. MaxRelease /\ disk.version \in 0 .. MaxRelease
    BY FilesFit DEF IInv, RestFits
  <2>3. StagedState = "ready"
    BY <2>1, <2>2, AllAtOneIsReady DEF IInv
  <2> QED
    BY <2>1, <2>3 DEF ReadyToPromote
<1> QED
  BY AlwaysFits, <1>1, PTL

(* The installed metadata never claims more than the executable is, and once no
   update is left on the disk it is that of the executable. *)
THEOREM MetadataFollowsTheLauncher == Spec => []MetadataFits
<1>1. IInv => MetadataFits
  <2> SUFFICES ASSUME IInv, ~astray PROVE
        /\ disk.version <= ReleaseOf(disk.launcher)
        /\ disk.manifest <= ReleaseOf(disk.launcher)
        /\ ~signs /\ setups = 0 /\ record = NoRecord /\ disk.staged = Absent /\ NoPending
           => /\ disk.manifest = ReleaseOf(disk.launcher)
              /\ disk.version = disk.manifest
    BY DEF MetadataFits
  <2>1. ReleasesFit /\ (Undisturbed => PhaseFits)
    BY DEF IInv, GlobalFits
  <2>2. disk.version <= ReleaseOf(disk.launcher) /\ disk.manifest <= ReleaseOf(disk.launcher)
    BY <2>1 DEF ReleasesFit, Installed
  <2>3. ASSUME ~signs, setups = 0, record = NoRecord, disk.staged = Absent, NoPending
        PROVE  disk.manifest = ReleaseOf(disk.launcher) /\ disk.version = disk.manifest
    <3>1. NothingStaged /\ disk.launcher \in Releases
      BY <2>1, <2>3 DEF Undisturbed, PhaseFits, Restored
    <3>2. ReleaseOf(disk.launcher) = disk.launcher
      BY <3>1, SmallRelease, LimitsAreNaturals DEF Releases
    <3> QED
      BY <2>3, <3>1, <3>2 DEF NothingStaged, Restored, NoPending
  <2> QED
    BY <2>2, <2>3
<1> QED
  BY AlwaysFits, <1>1, PTL

(* Writing another file leaves the launcher alone. *)
LEMMA OtherFileWritten ==
  ASSUME DiskFits, NEW file, NEW content, file # "launcher", Write(file, content)
  PROVE  disk'.launcher = disk.launcher
BY FilesAre DEF DiskFits, Write

(* Only a replacement, a signature and setup's copy write the launcher. *)
LEMMA LauncherKept ==
  ASSUME IInv, NEW p \in Procs, Run(p), ~Replace(p), pc[p] \notin {"sign", "setup copy"}
  PROVE  disk'.launcher = disk.launcher
<1>1. DiskFits
  BY DEF IInv
<1>2. ASSUME NEW f \in Parts, RestorePart(p, f) \/ CommitPart(p, f)
      PROVE  disk'.launcher = disk.launcher
  BY <1>1, <1>2, FilesAre, OtherFileWritten DEF RestorePart, CommitPart
<1>3. ASSUME NEW f \in SetupRemovals, RemovePending(p, f)
      PROVE  disk'.launcher = disk.launcher
  BY <1>1, <1>3, OtherFileWritten DEF RemovePending, SetupRemovals
<1>4. ASSUME Clear(p)
      PROVE  disk'.launcher = disk.launcher
  <2>1. ClearStages[pc[p]].file # "launcher" /\ Write(ClearStages[pc[p]].file, Absent)
    BY <1>4 DEF Clear, ClearStages
  <2> QED
    BY <1>1, <2>1, OtherFileWritten
<1>5. ASSUME RemoveStaged(p) \/ WriteResume(p)
      PROVE  disk'.launcher = disk.launcher
  BY <1>1, <1>5, OtherFileWritten DEF RemoveStaged, WriteResume
<1>6. ASSUME Resume(p) \/ PromoteManifest(p) \/ PromoteVersion(p)
      PROVE  disk'.launcher = disk.launcher
  BY <1>1, <1>6, FilesAre DEF Resume, PromoteManifest, PromoteVersion, DiskFits
<1>7. ASSUME \/ StartLauncher(p) \/ StartSetup(p) \/ RelockSetup(p)
             \/ DropRecord(p) \/ Recovered(p) \/ Decide(p) \/ SpawnHelper(p) \/ Exit(p)
             \/ BeginCommit(p) \/ FinishUpdate(p)
             \/ Validate(p) \/ WaitForCaller(p) \/ Acquire(p)
             \/ Adopted(p) \/ Release(p) \/ Relaunch(p) \/ FinishPreparation(p)
      PROVE  disk'.launcher = disk.launcher
  BY <1>7 DEF StartLauncher, StartSetup, RelockSetup, TryLock, DropRecord, Recovered, Decide,
              SpawnHelper, Exit, BeginCommit, FinishUpdate, Validate, WaitForCaller, Acquire,
              Adopted, Release, Relaunch, FinishPreparation
<1>8. ~Sign(p) /\ ~ \E release \in Releases : CopyBaseline(p, release)
  BY DEF Sign, CopyBaseline
<1> QED
  BY <1>2, <1>3, <1>4, <1>5, <1>6, <1>7, <1>8, Zenon DEF Run

(* No hand-off puts an older launcher in the place of a newer one. *)
THEOREM NoOlderLauncher == Spec => NoDowngrade
<1> DEFINE Downgrade == ReleaseOf(disk'.launcher) < ReleaseOf(disk.launcher)
           Excused == astray' \/ \E p \in Procs : pc[p] \in {"setup copy", "sign"}
<1>1. ASSUME IInv, Next, Downgrade
      PROVE  Excused
  <2>1. PICK p \in Procs :
          \/ Run(p)
          \/ OpenLauncher(p) \/ OpenSetup(p)
          \/ \E release \in Releases : BeginUpdate(p, release)
          \/ Quit(p)
          \/ Fail(p) \/ Crash(p)
    BY <1>1 DEF Next
  <2>2. Installed \in 0 .. MaxRelease /\ disk.staged \in 0 .. MaxRelease
    BY <1>1, FilesFit DEF IInv
  <2>3. disk'.launcher # disk.launcher
    BY <1>1, <2>2 DEF Installed
  <2>4. CASE pc[p] \in {"setup copy", "sign"}
    BY <2>4
  <2>5. CASE Run(p) /\ pc[p] \notin {"setup copy", "sign"}
    <3>1. Replace(p)
      BY <1>1, <2>3, <2>5, LauncherKept
    <3>2. PathsAreFiles /\ astray' = (astray \/ ~ReadyToPromote)
          /\ disk'.launcher = disk.staged
      <4>1. PathsAreFiles
        BY <2>3, <3>1 DEF Replace
      <4>2. PICK renamed \in BOOLEAN : disk' = [disk EXCEPT
                      !.launcher = disk.staged,
                      !.staged = IF renamed THEN Absent ELSE @,
                      !.backup = IF signs THEN disk.launcher ELSE @]
        BY <3>1, <4>1 DEF Replace
      <4>3. disk'.launcher = disk.staged
        BY <1>1, <4>2, FilesAre DEF IInv, DiskFits
      <4> QED
        BY <3>1, <4>1, <4>3 DEF Replace
    <3>3. ASSUME ~astray'
          PROVE  FALSE
      <4>1. ReleasesFit /\ disk.staged # Absent
        BY <1>1, <3>2, <3>3 DEF IInv, GlobalFits, PathsAreFiles
      <4>2. Installed <= disk.staged
        BY <4>1 DEF ReleasesFit, MayFollow
      <4>3. ReleaseOf(disk'.launcher) = disk.staged
        BY <2>2, <3>2, SmallRelease
      <4> QED
        BY <1>1, <2>2, <4>2, <4>3 DEF Installed
    <3> QED
      BY <3>3
  <2>6. CASE OpenLauncher(p) \/ OpenSetup(p)
             \/ (\E release \in Releases : BeginUpdate(p, release)) \/ Quit(p) \/ Crash(p)
    BY <2>3, <2>6 DEF OpenLauncher, OpenSetup, BeginUpdate, Quit, Crash
  <2>7. CASE Fail(p) /\ pc[p] \notin {"setup copy", "sign"}
    <3>1. UNCHANGED disk
      BY <2>7 DEF Fail, Failed
    <3> QED
      BY <2>3, <3>1
  <2> QED
    BY <2>1, <2>4, <2>5, <2>6, <2>7
<1>2. IInv /\ [Next]_vars => [Downgrade => Excused]_vars
  BY <1>1
<1>3. Spec => [][Downgrade => Excused]_vars
  <2> HIDE DEF Downgrade, Excused
  <2> QED
    BY <1>2, AlwaysFits, PTL DEF Spec
<1> QED
  BY <1>3 DEF NoDowngrade
=============================================================================
