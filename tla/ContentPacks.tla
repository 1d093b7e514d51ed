---------------------------- MODULE ContentPacks ----------------------------
(***************************************************************************)
(* Optional content packs: the catalog, the manager screen, the check      *)
(* before the game is launched, and installing, updating and removing a    *)
(* pack (main.rs, show_up_to_date to remove_content_pack; content_packs.rs).*)
(*                                                                         *)
(* A release is a number, a requirement the set of versions that pass it   *)
(* (Versions has the order of versions), and a file what it contains: the  *)
(* release that brought it.  An apply is a transaction that is opened,     *)
(* commits files, then records, and is closed; UpdateTransaction has the   *)
(* rest of it.  The game and its own content are one version that changes  *)
(* from outside.                                                           *)
(***************************************************************************)
EXTENDS Versions

CONSTANTS Packs,      \* the ids of the packs
          Game,       \* GAME_DEPENDENCY_ID
          BuiltIn,    \* the pack that comes with the game
          Releases,   \* the releases of each pack, in the order of their versions
          Files,      \* the names of a pack's files
          Definition, \* pack.xml
          Threads,    \* how many of the launcher's threads run at once
          LastGame,   \* bound on the versions of the game
          MaxFaults,  \* bound on failures and kills of a behaviour
          MaxChanges  \* bound on what others change: channel, game, files

Numbers(p) == 1 .. Len(Releases[p])
Last == LET most == CHOOSE p \in Packs : \A q \in Packs : Len(Releases[q]) <= Len(Releases[p])
        IN  Len(Releases[most])
Directories == UNION {{Releases[p][n].directory : n \in Numbers(p)} : p \in Packs}

NoVersion == 0

(* validate_release, for what is left of a release here.  No requirement   *)
(* is met where there is no version.                                       *)
ValidRelease(p, n) ==
    /\ Releases[p][n].minimum \in 0 .. n
    /\ Game \in DOMAIN Releases[p][n].depends
    /\ DOMAIN Releases[p][n].depends \subseteq {Game, BuiltIn} \cup (Packs \ {p})
    /\ \A id \in DOMAIN Releases[p][n].depends : NoVersion \notin Releases[p][n].depends[id]

(* validate_pack_manifest: pack.xml is a file of the release it names.  A   *)
(* release need not have every file (0: not listed).                       *)
ValidPackManifest(p, n) ==
    /\ Releases[p][n].files \in [Files -> 0 .. n]
    /\ Definition \in Files /\ Releases[p][n].files[Definition] = n

ASSUME IdsAreApart == Game \notin Packs /\ BuiltIn \notin Packs /\ Game # BuiltIn
ASSUME ReleasesAreValid ==
    \A p \in Packs : \A n \in Numbers(p) : ValidRelease(p, n) /\ ValidPackManifest(p, n)

(* Catalogs list each directory once (validate_catalog); here no two packs  *)
(* ever have the same.                                                     *)
ASSUME DirectoriesAreApart ==
    \A p, q \in Packs : p # q =>
        \A n \in Numbers(p), m \in Numbers(q) : Releases[p][n].directory # Releases[q][m].directory
ASSUME PacksHaveReleases ==
    /\ \A p \in Packs : Len(Releases[p]) \in Nat \ {0}
    /\ \E p \in Packs : \A q \in Packs : Len(Releases[q]) <= Len(Releases[p])
ASSUME BoundsAreNatural == LastGame \in Nat \ {0} /\ MaxFaults \in Nat /\ MaxChanges \in Nat

VARIABLES published,   \* the catalog of the channel: the release of each pack (0: not listed)
          game,        \* the version of the installed game
          disk,        \* the packs' files, install records and pending-install records
          own,         \* per directory: the user's own file in it
          transaction, \* the open transaction at the installation's root
          catalog,     \* CONTENT_PACK_CATALOG (nothing listed while there is none)
          guard,       \* INSTALL_OPERATION_IN_PROGRESS
          job,         \* what each thread does
          screen,      \* the choices of the screen the window shows
          phase,       \* whether the launcher runs, or has started the game and gone
          rewound,     \* history: an operation has undone an open transaction
          blind,       \* history: a pack was removed with a catalog that hid a dependent
          faults, changes

store == <<disk, own, transaction>>
memory == <<catalog, guard, job, screen, phase>>
past == <<rewound, blind>>
bounds == <<faults, changes>>
vars == <<published, game, store, memory, past, bounds>>

NoFile == 0
Damaged == -1
Contents == Damaged .. Last
Listing == [Packs -> 0 .. Last]
NoCatalog == [p \in Packs |-> 0]

Disk == [files : [Directories -> [Files -> Contents]], record : Listing, pending : Listing]
NoFiles == [f \in Files |-> NoFile]

DirectoryOf(p, n) == Releases[p][n].directory
Target(p, n) == Releases[p][n].files
Listed(p, n) == {f \in Files : Target(p, n)[f] # NoFile}

Choices == [do : {"play", "content-packs", "back-to-ready", "retry"}, pack : Packs]
              \cup [do : {"install", "remove"}, pack : Packs]
AnyPack == CHOOSE p \in Packs : TRUE
Choice(does) == [do |-> does, pack |-> AnyPack]

Busy == {}
Ready == {Choice("play"), Choice("content-packs")}
Checking == {Choice("back-to-ready")}
PackError == {Choice("content-packs"), Choice("back-to-ready")}
LaunchFailed == {Choice("play")}
RecoveryFailed == {Choice("retry")}
Required(p) == {[do |-> "install", pack |-> p], Choice("content-packs")}

Tasks == {"none", "scan", "list", "install", "fresh", "update", "remove", "report"}
Steps == {"start", "fetch", "show", "fresh", "clear", "promote", "prepare", "begin",
          "files", "record", "finish", "tidy", "verify"}
Job == [task : Tasks, at : Steps, pack : Packs, release : 0 .. Last, installed : 0 .. Last,
        plan : SUBSET Files, had : BOOLEAN, answer : Listing, succeeded : BOOLEAN]
Idle == [task |-> "none", at |-> "start", pack |-> AnyPack, release |-> 0, installed |-> 0,
         plan |-> {},
         had |-> FALSE, answer |-> NoCatalog, succeeded |-> FALSE]
Operation(task, p, n) == [Idle EXCEPT !.task = task, !.pack = p, !.release = n]
Report(succeeded) == [Idle EXCEPT !.task = "report", !.succeeded = succeeded]

(* The transaction of a pack: the files it replaces or removes, and the    *)
(* disk before.                                                            *)
Transaction == [open : BOOLEAN, pack : Packs, directory : Directories, plan : SUBSET Files,
                before : Disk]
NoDisk == [files |-> [d \in Directories |-> NoFiles],
           record |-> NoCatalog, pending |-> NoCatalog]
Closed == [open |-> FALSE, pack |-> AnyPack, directory |-> DirectoryOf(AnyPack, 1),
           plan |-> {}, before |-> NoDisk]

(* Faulty: records are stored, not part of what is undone. *)
RestoredFiles ==
    IF ~transaction.open THEN disk
    ELSE LET d == transaction.directory
         IN  [disk EXCEPT !.files[d] = [f \in Files |->
                 IF f \in transaction.plan THEN transaction.before.files[d][f] ELSE @[f]]]

(* rollback_transaction: each path of the plan is as it was. *)
Restored ==
    IF ~transaction.open THEN disk
    ELSE LET p == transaction.pack
             d == transaction.directory
             before == transaction.before
         IN  [files |-> [disk.files EXCEPT ![d] = [f \in Files |->
                            IF f \in transaction.plan THEN before.files[d][f] ELSE @[f]]],
              record |-> [disk.record EXCEPT ![p] = before.record[p]],
              pending |-> [disk.pending EXCEPT ![p] = before.pending[p]]]

TypeOK ==
    /\ published \in Listing /\ catalog \in Listing
    /\ game \in 1 .. LastGame
    /\ disk \in Disk
    /\ own \in [Directories -> {"none", "kept", "claimed"}]
    /\ transaction \in Transaction
    /\ guard \in BOOLEAN /\ rewound \in BOOLEAN /\ blind \in BOOLEAN
    /\ phase \in {"closed", "open", "launched"}
    /\ job \in [Threads -> Job]
    /\ screen \in SUBSET Choices
    /\ faults \in 0 .. MaxFaults /\ changes \in 0 .. MaxChanges

NoMemory ==
    /\ catalog = NoCatalog /\ guard = FALSE /\ screen = Busy
    /\ job = [t \in Threads |-> Idle]

Forget ==
    /\ catalog' = NoCatalog /\ guard' = FALSE /\ screen' = Busy
    /\ job' = [t \in Threads |-> Idle]

Init ==
    /\ published \in {l \in Listing : \A p \in Packs : l[p] <= 1}
    /\ game = 1
    /\ disk = NoDisk
    /\ own = [d \in Directories |-> "none"]
    /\ transaction = Closed
    /\ NoMemory /\ phase = "closed"
    /\ rewound = FALSE /\ blind = FALSE
    /\ faults = 0 /\ changes = 0

-----------------------------------------------------------------------------
(* What the launcher reads.                                                *)

IsInstalled(p) == disk.record[p] # 0

(* installed_content_pack_version, or the game's. *)
InstalledVersion(id) ==
    IF id \in {Game, BuiltIn} THEN game
    ELSE IF ~IsInstalled(id) THEN NoVersion
    ELSE LET version == disk.files[DirectoryOf(id, disk.record[id])][Definition]
         IN  IF version = Damaged THEN NoVersion ELSE version

(* supports_dependency_version *)
Supports(p, n, id) ==
    id \in DOMAIN Releases[p][n].depends /\ InstalledVersion(id) \in Releases[p][n].depends[id]

Compatible(p, n) == \A id \in DOMAIN Releases[p][n].depends : Supports(p, n, id)

(* pending_installed_content_pack_update: the packs that have to be updated *)
(* before a launch.                                                        *)
MustUpdate(known) ==
    {p \in Packs : /\ known[p] # 0 /\ IsInstalled(p)
                   /\ Releases[p][known[p]].minimum > disk.record[p]
                   /\ Supports(p, known[p], Game)}

(* show_up_to_date, without and with show_required_content_pack_update. *)
ShowReady(known, next) ==
    IF MustUpdate(known) = {} THEN next = Ready
    ELSE \E p \in MustUpdate(known) : next = Required(p)

(* content_pack_manager_screen_for *)
Manager(known) ==
    {Choice("back-to-ready")}
      \cup {[do |-> "install", pack |-> p] : p \in {q \in Packs :
                known[q] # 0 /\ Compatible(q, known[q]) /\ disk.record[q] # known[q]}}
      \cup {[do |-> "remove", pack |-> p] : p \in {q \in Packs : known[q] # 0 /\ IsInstalled(q)}}

(* directory_has_entries *)
HasFiles(d) == disk.files[d] # NoFiles \/ own[d] # "none"

(* verify_install *)
Verifies(p, n) == \A f \in Listed(p, n) : disk.files[DirectoryOf(p, n)][f] = Target(p, n)[f]

(* Faulty: what the release no longer has stays. *)
OutdatedListed(p, n) ==
    {f \in Listed(p, n) : disk.files[DirectoryOf(p, n)][f] # Target(p, n)[f]}

(* diff_verified against the manifest of the installed release. *)
Outdated(p, n) ==
    LET recorded == Target(p, disk.record[p])
    IN  {f \in Files : \/ recorded[f] # Target(p, n)[f]
                      \/ /\ f \in Listed(p, n)
                         /\ disk.files[DirectoryOf(p, n)][f] # Target(p, n)[f]}

-----------------------------------------------------------------------------
(* Starting, ending, and what the screens offer.                           *)

Fault == faults < MaxFaults /\ faults' = faults + 1
NoFault == UNCHANGED faults

(* recover_interrupted_apply: undoes an open transaction, and may fail. *)
Recover == disk' = Restored /\ transaction' = Closed /\ NoFault
RecoveryFails == transaction.open /\ Fault /\ UNCHANGED <<disk, transaction>>

Start(t, task) == job[t] = Idle /\ job' = [job EXCEPT ![t] = [Idle EXCEPT !.task = task]]

(* run: the recovery before anything else may fail and the start goes on. *)
Open ==
    /\ phase # "open"
    /\ phase' = "open" /\ screen' = Busy
    /\ Recover \/ RecoveryFails
    /\ \E t \in Threads : Start(t, "scan")
    /\ UNCHANGED <<published, game, own, catalog, guard, past, changes>>

(* The window is closed, or the process is killed: a fault if it operates. *)
Exit ==
    /\ phase = "open"
    /\ phase' = "closed"
    /\ Forget
    /\ IF guard THEN Fault ELSE NoFault
    /\ UNCHANGED <<published, game, store, past, changes>>

(* Faulty: that no operation is under way is left to the screen. *)
ChosenOnScreen(choice) == phase = "open" /\ choice \in screen

(* on_choice: nothing is done while an installation operation is. *)
Chosen(choice) == phase = "open" /\ ~guard /\ choice \in screen

(* "play": the check before the launch, then launch_player. *)
Play ==
    /\ Chosen(Choice("play"))
    /\ UNCHANGED <<published, game, own, past, changes>>
    /\ \/ /\ \E p \in MustUpdate(catalog) : screen' = Required(p)
          /\ UNCHANGED <<disk, transaction, catalog, guard, job, phase, faults>>
       \/ /\ MustUpdate(catalog) = {}
          /\ Recover
          /\ phase' = "launched" /\ Forget
       \/ /\ MustUpdate(catalog) = {}
          /\ RecoveryFails
          /\ screen' = LaunchFailed
          /\ UNCHANGED <<catalog, guard, job, phase>>

Manage(t) ==
    /\ Chosen(Choice("content-packs"))
    /\ Start(t, "list") /\ screen' = Checking
    /\ UNCHANGED <<published, game, store, catalog, guard, phase, past, bounds>>

BackToReady ==
    /\ Chosen(Choice("back-to-ready"))
    /\ ShowReady(catalog, screen')
    /\ UNCHANGED <<published, game, store, catalog, guard, job, phase, past, bounds>>

RetryScan(t) ==
    /\ Chosen(Choice("retry"))
    /\ Start(t, "scan") /\ screen' = Busy
    /\ UNCHANGED <<published, game, store, catalog, guard, phase, past, bounds>>

(* start_content_pack_install: the release is the one of the catalog in    *)
(* memory, whatever the screen was made from.                              *)
StartInstall(t, p) ==
    /\ Chosen([do |-> "install", pack |-> p])
    /\ IF catalog[p] = 0
       THEN screen' = PackError /\ UNCHANGED <<guard, job>>
       ELSE /\ job[t] = Idle
            /\ guard' = TRUE /\ screen' = Busy
            /\ job' = [job EXCEPT ![t] = Operation("install", p, catalog[p])]
    /\ UNCHANGED <<published, game, store, catalog, phase, past, bounds>>

StartRemove(t, p) ==
    /\ Chosen([do |-> "remove", pack |-> p])
    /\ job[t] = Idle
    /\ guard' = TRUE /\ screen' = Busy
    /\ job' = [job EXCEPT ![t] = Operation("remove", p, 0)]
    /\ UNCHANGED <<published, game, store, catalog, phase, past, bounds>>

-----------------------------------------------------------------------------
(* The scan and the list: threads without the guard.                       *)

At(t, tasks, step) == job[t].task \in tasks /\ job[t].at = step
Advance(t, step) == job' = [job EXCEPT ![t].at = step]
Ends(t) == job' = [job EXCEPT ![t] = Idle]

ScanRecovers(t) ==
    /\ At(t, {"scan"}, "start")
    /\ \/ Recover /\ Advance(t, "fetch") /\ UNCHANGED screen
       \/ RecoveryFails /\ Ends(t) /\ screen' = RecoveryFailed
    /\ UNCHANGED <<published, game, own, catalog, guard, phase, past, changes>>

(* The answer is as old as its request. *)
Fetch(t) ==
    /\ At(t, {"scan"}, "fetch") \/ At(t, {"list"}, "start")
    /\ job' = [job EXCEPT ![t].at = "show", ![t].answer = published]
    /\ UNCHANGED <<published, game, store, catalog, guard, screen, phase, past, bounds>>

(* Faulty: the screen is left as it is. *)
FetchFailsSilently(t) ==
    /\ Fault /\ Ends(t)
    /\ At(t, {"scan"}, "fetch") \/ At(t, {"list"}, "start")
    /\ UNCHANGED <<published, game, store, catalog, guard, screen, phase, past, changes>>

(* refresh_content_pack_catalog_and_show_ready: a failed check keeps the    *)
(* catalog there is, and the game can be launched.                         *)
FetchFails(t) ==
    /\ Fault /\ Ends(t)
    /\ \/ At(t, {"scan"}, "fetch") /\ ShowReady(catalog, screen')
       \/ At(t, {"list"}, "start") /\ screen' = PackError
    /\ UNCHANGED <<published, game, store, catalog, guard, phase, past, changes>>

Show(t) ==
    /\ job[t].at = "show" /\ Ends(t)
    /\ catalog' = job[t].answer
    /\ \/ job[t].task = "scan" /\ ShowReady(catalog', screen')
       \/ job[t].task = "list" /\ screen' = Manager(catalog')
    /\ UNCHANGED <<published, game, store, guard, phase, past, bounds>>

-----------------------------------------------------------------------------
(* Installing, updating and removing, under the guard.                     *)

Operating(t) == job[t].task \in {"install", "fresh", "update", "remove"}
PackOf(t) == job[t].pack
ReleaseOf(t) == job[t].release
DirectoryFor(t) ==
    DirectoryOf(PackOf(t), IF job[t].task = "remove" THEN job[t].installed ELSE ReleaseOf(t))

(* The end of an operation: the guard is dropped, then the outcome shown. *)
End(t, succeeded) == job' = [job EXCEPT ![t] = Report(succeeded)] /\ guard' = FALSE

Elsewhere == UNCHANGED <<published, game, catalog, screen, phase, changes>>
DiskOnly == Elsewhere /\ UNCHANGED <<own, transaction, guard, past, faults>>
JobOnly == Elsewhere /\ UNCHANGED <<store, guard, past, faults>>
EndOnly == Elsewhere /\ UNCHANGED <<store, past, faults>>

(* Faulty: the dependencies are those the manager screen was made with. *)
ResolvesGameOnly(p, n) ==
    /\ Supports(p, n, Game)
    /\ IsInstalled(p) => DirectoryOf(p, disk.record[p]) = DirectoryOf(p, n)

(* install_content_pack, until the release is resolved to a plan. *)
Resolves(p, n) ==
    /\ Compatible(p, n)
    /\ IsInstalled(p) => DirectoryOf(p, disk.record[p]) = DirectoryOf(p, n)

Resolve(t) ==
    LET p == PackOf(t)
        n == ReleaseOf(t)
    IN  /\ At(t, {"install"}, "start")
        /\ \/ ~Resolves(p, n) /\ End(t, FALSE) /\ EndOnly
           \/ /\ Resolves(p, n)
              /\ job' = [job EXCEPT ![t] =
                     IF IsInstalled(p)
                     THEN [@ EXCEPT !.task = "update", !.at = "prepare", !.plan = Outdated(p, n)]
                     ELSE [@ EXCEPT !.task = "fresh", !.at = "fresh"]]
              /\ JobOnly

(* install_fresh: a directory with files in it is used when an unfinished  *)
(* install of this pack claims it.                                         *)
Claims(p, d) == disk.pending[p] # 0 /\ DirectoryOf(p, disk.pending[p]) = d

(* Faulty: what the install is about to do is not recorded. *)
FreshUnrecorded(t) ==
    LET d == DirectoryFor(t)
    IN  /\ At(t, {"fresh"}, "fresh")
        /\ IF HasFiles(d) /\ ~Claims(PackOf(t), d) THEN End(t, FALSE) /\ EndOnly
           ELSE /\ job' = [job EXCEPT ![t].at = "clear", ![t].had = HasFiles(d)]
                /\ JobOnly

Fresh(t) ==
    LET p == PackOf(t)
        n == ReleaseOf(t)
        d == DirectoryOf(p, n)
        complete == HasFiles(d) /\ disk.pending[p] = n /\ Verifies(p, n)
    IN  /\ At(t, {"fresh"}, "fresh")
        /\ \/ HasFiles(d) /\ ~Claims(p, d) /\ End(t, FALSE) /\ EndOnly
           \/ /\ HasFiles(d) => Claims(p, d)
              /\ complete
              /\ Advance(t, "prepare") /\ JobOnly
           \/ /\ HasFiles(d) => Claims(p, d)
              /\ ~complete
              /\ disk' = [disk EXCEPT !.pending[p] =
                             IF @ = 0 \/ (~HasFiles(d) /\ @ # n) THEN n ELSE @]
              /\ job' = [job EXCEPT ![t].at = "clear", ![t].had = HasFiles(d)]
              /\ DiskOnly

(* Staged and verified; then remove_dir_all, or remove_dir when nothing was *)
(* there before the download.                                              *)
Clear(t) ==
    LET d == DirectoryFor(t)
    IN  /\ At(t, {"fresh"}, "clear")
        /\ IF ~job[t].had /\ HasFiles(d)
           THEN End(t, FALSE) /\ EndOnly
           ELSE /\ disk' = [disk EXCEPT !.files[d] = NoFiles]
                /\ own' = [own EXCEPT ![d] = "none"]
                /\ Advance(t, "promote")
                /\ Elsewhere /\ UNCHANGED <<transaction, guard, past, faults>>

(* The staged directory is renamed. *)
Promote(t) ==
    LET d == DirectoryFor(t)
    IN  /\ At(t, {"fresh"}, "promote")
        /\ IF HasFiles(d) THEN End(t, FALSE) /\ EndOnly
           ELSE /\ disk' = [disk EXCEPT !.files[d] = Target(PackOf(t), ReleaseOf(t))]
                /\ Advance(t, "prepare") /\ DiskOnly

(* Faulty: only the release that is installed is asked about. *)
NoDependents(p) == {}

(* remove_content_pack, until the removal is planned. *)
Dependents(p) ==
    {q \in Packs : /\ catalog[q] # 0 /\ IsInstalled(q)
                   /\ p \in DOMAIN Releases[q][catalog[q]].depends}

Hidden(p) ==
    {q \in Packs : /\ IsInstalled(q) /\ p \in DOMAIN Releases[q][disk.record[q]].depends
                   /\ catalog[q] = 0 \/ p \notin DOMAIN Releases[q][catalog[q]].depends}

CheckRemove(t) ==
    LET p == PackOf(t)
    IN  /\ At(t, {"remove"}, "start")
        /\ IF Dependents(p) # {} \/ ~IsInstalled(p)
           THEN End(t, FALSE) /\ EndOnly
           ELSE /\ job' = [job EXCEPT ![t].at = "prepare", ![t].installed = disk.record[p],
                                     ![t].plan = Listed(p, disk.record[p])]
                /\ blind' = (blind \/ Hidden(p) # {})
                /\ Elsewhere /\ UNCHANGED <<store, guard, rewound, faults>>

(* apply, from the recovery it starts with to the removal of its record.   *)
(* After a fresh install it has only records to store.                     *)
Changing == {"fresh", "update", "remove"}

Prepare(t) ==
    /\ At(t, Changing, "prepare")
    /\ Recover
    /\ rewound' = (rewound \/ transaction.open)
    /\ Advance(t, "begin")
    /\ Elsewhere /\ UNCHANGED <<own, guard, blind>>

(* A removal takes its paths from the record it was planned from, though    *)
(* the recovery may have undone that record.                               *)
Begin(t) ==
    /\ At(t, Changing, "begin")
    /\ transaction' = [open |-> TRUE, pack |-> PackOf(t), directory |-> DirectoryFor(t),
                       plan |-> job[t].plan, before |-> disk]
    /\ Advance(t, "files")
    /\ Elsewhere /\ UNCHANGED <<disk, own, guard, past, faults>>

CommitFiles(t) ==
    LET d == DirectoryFor(t)
        target == IF job[t].task = "remove" THEN NoFiles ELSE Target(PackOf(t), ReleaseOf(t))
    IN  /\ At(t, Changing, "files")
        /\ disk' = [disk EXCEPT !.files[d] =
                       [f \in Files |-> IF f \in job[t].plan THEN target[f] ELSE @[f]]]
        /\ Advance(t, "record") /\ DiskOnly

(* Faulty: a removal leaves the record of an unfinished install. *)
CommitRecordOnly(t) ==
    /\ At(t, Changing, "record")
    /\ disk' = [disk EXCEPT !.record[PackOf(t)] = ReleaseOf(t)]
    /\ Advance(t, "finish") /\ DiskOnly

(* Faulty: the version is the one pack.xml has now. *)
CommitRecordFromDefinition(t) ==
    /\ At(t, Changing, "record")
    /\ disk' = [disk EXCEPT !.record[PackOf(t)] =
                   IF job[t].task = "remove" THEN 0 ELSE disk.files[DirectoryFor(t)][Definition]]
    /\ Advance(t, "finish") /\ DiskOnly

(* The release of an operation that removes is 0. *)
CommitRecord(t) ==
    LET p == PackOf(t)
    IN  /\ At(t, Changing, "record")
        /\ disk' = [disk EXCEPT !.record[p] = ReleaseOf(t),
                                !.pending[p] = IF job[t].task = "remove" THEN 0 ELSE @]
        /\ Advance(t, "finish") /\ DiskOnly

(* The last step of an apply that removes; remove_install_metadata has      *)
(* nothing left to remove that is modelled.                                *)
Finish(t) ==
    /\ At(t, Changing, "finish")
    /\ transaction' = Closed
    /\ IF job[t].task = "remove" THEN End(t, TRUE) ELSE Advance(t, "tidy") /\ UNCHANGED guard
    /\ Elsewhere /\ UNCHANGED <<disk, own, past, faults>>

(* clear_pending_install is best effort; an update is verified after it. *)
Tidy(t) ==
    LET p == PackOf(t)
    IN  /\ At(t, Changing, "tidy")
        /\ \/ disk' = [disk EXCEPT !.pending[p] = 0] /\ NoFault
           \/ disk.pending[p] # 0 /\ Fault /\ UNCHANGED disk
        /\ IF job[t].task = "update" THEN Advance(t, "verify") /\ UNCHANGED guard ELSE End(t, TRUE)
        /\ Elsewhere /\ UNCHANGED <<own, transaction, past>>

Verify(t) ==
    /\ At(t, {"update"}, "verify")
    /\ End(t, Verifies(PackOf(t), ReleaseOf(t))) /\ EndOnly

(* Faulty: the error is shown and the guard kept. *)
FailHoldingGuard(t) ==
    /\ Operating(t)
    /\ Fault
    /\ job' = [job EXCEPT ![t] = Report(FALSE)]
    /\ UNCHANGED <<disk, transaction, guard>>
    /\ Elsewhere /\ UNCHANGED <<own, past>>

(* A step fails.  An apply that is committing rolls back, and that may fail *)
(* too; one that could not remove its record leaves it.                    *)
Fail(t) ==
    /\ Operating(t)
    /\ Fault
    /\ End(t, FALSE)
    /\ \/ UNCHANGED <<disk, transaction>>
       \/ /\ At(t, Changing, "files") \/ At(t, Changing, "record")
          /\ disk' = Restored /\ transaction' = Closed
    /\ Elsewhere /\ UNCHANGED <<own, past>>

(* The outcome: the manager again, which is another list, or an error. *)
ShowOutcome(t) ==
    /\ job[t].task = "report"
    /\ IF job[t].succeeded
       THEN screen' = Checking /\ job' = [job EXCEPT ![t] = [Idle EXCEPT !.task = "list"]]
       ELSE screen' = PackError /\ Ends(t)
    /\ UNCHANGED <<published, game, store, catalog, guard, phase, past, bounds>>

-----------------------------------------------------------------------------
(* What others do.                                                         *)

Change == changes < MaxChanges /\ changes' = changes + 1

(* The channel lists the next release of a pack, or no longer lists it. *)
Publish(p) ==
    /\ Change
    /\ \/ published[p] < Len(Releases[p]) /\ published' = [published EXCEPT ![p] = @ + 1]
       \/ published[p] # 0 /\ published' = [published EXCEPT ![p] = 0]
    /\ UNCHANGED <<game, store, memory, past, faults>>

(* An update of the game: an operation of InstallFlow, under the guard and  *)
(* after a recovery.                                                       *)
UpdateGame ==
    /\ Change
    /\ ~guard /\ ~transaction.open
    /\ game < LastGame /\ game' = game + 1
    /\ UNCHANGED <<published, store, memory, past, faults>>

(* The user puts a file of their own beside a pack's.  Where an install has *)
(* not finished it is in what the launcher has claimed.                    *)
Customize(d) ==
    /\ Change
    /\ own[d] = "none"
    /\ own' = [own EXCEPT ![d] =
           IF \E p \in Packs, now \in {disk, Restored} :
                  /\ now.record[p] = 0 /\ now.pending[p] # 0
                  /\ DirectoryOf(p, now.pending[p]) = d
           THEN "claimed" ELSE "kept"]
    /\ UNCHANGED <<published, game, disk, transaction, memory, past, faults>>

(* The user changes a pack's file, or the disk does. *)
Damage(d, f) ==
    /\ Change
    /\ disk.files[d][f] \notin {NoFile, Damaged}
    /\ disk' = [disk EXCEPT !.files[d][f] = Damaged]
    /\ UNCHANGED <<published, game, own, transaction, memory, past, faults>>

-----------------------------------------------------------------------------
Scan(t) == ScanRecovers(t) \/ Fetch(t) \/ FetchFails(t) \/ Show(t)

Operate(t) ==
    \/ Resolve(t) \/ Fresh(t) \/ Clear(t) \/ Promote(t)
    \/ CheckRemove(t)
    \/ Prepare(t) \/ Begin(t) \/ CommitFiles(t) \/ CommitRecord(t) \/ Finish(t) \/ Tidy(t)
    \/ Verify(t) \/ Fail(t) \/ ShowOutcome(t)

Next ==
    \/ Open \/ Exit \/ Play \/ BackToReady
    \/ \E t \in Threads :
           \/ Scan(t) \/ Operate(t)
           \/ Manage(t) \/ RetryScan(t)
           \/ \E p \in Packs : StartInstall(t, p) \/ StartRemove(t, p)
    \/ UpdateGame
    \/ \E p \in Packs : Publish(p)
    \/ \E d \in Directories : Customize(d) \/ \E f \in Files : Damage(d, f)

Spec == Init /\ [][Next]_vars

-----------------------------------------------------------------------------
(* Properties.                                                             *)

(* What a pack's record says is on the disk, once an interrupted change has *)
(* been undone: each file it lists is of the recorded release, or was      *)
(* changed by others; and before an update or a removal closes its         *)
(* transaction, the files that the new release no longer has are gone.     *)
(* Not after an operation undid an open transaction: its plan was made     *)
(* from the files before that (main.rs, install_content_pack).  And an     *)
(* install can always be finished by trying again: where a file that every *)
(* release of a pack has is in its directory, there is the record, or the  *)
(* pending record that lets the next attempt replace it.  There a pack     *)
(* whose releases are in more than one directory is excepted: its pending  *)
(* record follows the newer.                                               *)
Stays(p) == \A n \in Numbers(p) : DirectoryOf(p, n) = DirectoryOf(p, 1)

InEvery(p) == {f \in Files : \A n \in Numbers(p) : f \in Listed(p, n)}

InPlace(p) ==
    Stays(p) /\ \E f \in InEvery(p) : disk.files[DirectoryOf(p, 1)][f] # NoFile

Dropped(p, n, m) == Listed(p, n) \ (IF m = 0 THEN {} ELSE Listed(p, m))

FilesAreRecorded ==
    /\ \A p \in Packs :
          LET n == Restored.record[p]
          IN  /\ ~rewound /\ n # 0 =>
                     \A f \in Listed(p, n) :
                         Restored.files[DirectoryOf(p, n)][f] \in {Damaged, Target(p, n)[f]}
              /\ InPlace(p) => IsInstalled(p) \/ disk.pending[p] # 0
    /\ \A t \in Threads :
          LET n == transaction.before.record[PackOf(t)]
          IN  ~rewound /\ At(t, Changing, "finish") /\ n # 0 =>
                  \A f \in Dropped(PackOf(t), n, ReleaseOf(t)) :
                      disk.files[transaction.directory][f] = NoFile

(* No operation deletes a file the user put where no unfinished install    *)
(* was: install_fresh only clears what a pending record claims, and an     *)
(* update or removal only touches the files of the manifests.              *)
OwnFilesKept == [][\A d \in Directories : own[d] = "kept" => own'[d] = "kept"]_vars

(* A pack is recorded as installed only where the versions installed then  *)
(* satisfy it: they are checked several steps before.                      *)
Satisfied(p, n) ==
    \A id \in DOMAIN Releases[p][n].depends :
        (IF id \in Packs THEN disk.record[id] ELSE game) \in Releases[p][n].depends[id]

RequirementsMet ==
    [][\A p \in Packs :
          /\ transaction.open /\ transaction'.open
          /\ disk'.record[p] \notin {0, disk.record[p]}
          /\ ~rewound
          => Satisfied(p, disk'.record[p])]_vars

(* No installed pack misses a pack it depends on, when the catalog in      *)
(* memory named the dependency each time a pack was removed.               *)
DependenciesPresent ==
    ~rewound /\ ~blind =>
        \A p \in Packs : Restored.record[p] # 0 =>
            \A q \in Packs \cap DOMAIN Releases[p][Restored.record[p]].depends :
                Restored.record[q] # 0

(* The launcher never refuses the user for good: the operation guard is    *)
(* held by exactly one operation from the choice to its end, on every      *)
(* path, and a screen without choices is one that a thread is about to     *)
(* replace.                                                                *)
NeverStuck ==
    /\ guard <=> \E t \in Threads : Operating(t)
    /\ \A t, u \in Threads : Operating(t) /\ Operating(u) => t = u
    /\ phase = "open" /\ screen = Busy => \E t \in Threads : job[t] # Idle

(* Once there are versions to compare, because a catalog is known, what is *)
(* decided with them agrees with semantic versioning (versions.rs).        *)
VersionsAgree == catalog # NoCatalog => OrderIsSemantic /\ RangeIsExact

(* With the records as a recovery leaves them for the packs installed, the *)
(* changes of the packs are those of PackStore: an install, update or      *)
(* removal takes effect in the step that closes its transaction, and not   *)
(* before or after it, whatever fails and wherever the launcher is killed. *)
RequestOf(j) ==
    IF j.task \in {"install", "fresh", "update", "remove"}
    THEN [state |-> IF j.at \in {"tidy", "verify"} THEN "made" ELSE "asked",
          pack |-> j.pack, release |-> j.release]
    ELSE [state |-> IF j.task # "report" THEN "none"
                    ELSE IF j.succeeded THEN "success" ELSE "failure"]

Installed == Restored.record
Kept == {d \in Directories : own[d] = "kept"}
Requests == [t \in Threads |-> RequestOf(job[t])]

Store == INSTANCE PackStore
             WITH installed <- Installed, kept <- Kept, request <- Requests
ImplementsPackStore == Store!Spec
=============================================================================
