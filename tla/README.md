# The Rebellion 2 launcher in TLA+

This directory specifies the launcher of this repository: the program that
installs and updates the game, its Content and itself, together with the update
helper that replaces the launcher's executable and the engine both are built on.
The modules are checked with TLC on small instances and, where the table of
theorems below says so, proved with TLAPS for every value of their constants.

    tlc -workers 2 -config MCUpdateTransaction.cfg MCUpdateTransaction
    tlapm UpdateTransactionProofs.tla

## 1. The system

Four programs share one installation directory: the **launcher** (possibly opened
twice), the **update helper** it starts to replace its own executable, **setup**
(Inno Setup on Windows), and the **game**. Nothing but the file system connects
them: files that say what is installed (`.launcher-manifest.json`,
`.launcher-version`, their `.pending` twins, `.content-version`, ...), files that
say what was under way (`.update-transaction/record.json`,
`.approved-content-update`, `.launcher-resume.json`, `*.part`) and one lock file.
The operating system releases that lock when its owner ends, however it ends.
Everything hard about the launcher follows: it may be killed between any two
effects on the disk, a file operation may fail, and another process may act as
soon as the lock is free.

| component | state it keeps | operations | what is hard | what makes it correct |
|---|---|---|---|---|
| update engine (`update-core/src/lib.rs`, `metadata.rs`) | the managed files, `staged/`, `backup/` and the record of a transaction | `diff`, `diff_verified`, `apply`, `apply_verified`, `recover_interrupted_apply`, `verify_install` | kills and failed file operations between any two effects; rollbacks that are themselves interrupted; plans made before a recovery changed the directory | each apply happens as a whole or not at all; success means verified |
| installation lock (`update-core/src/installation.rs`) | the advisory lock | `try_acquire`, `acquire`, release with the process | a helper waits, the others give up | one process acts at a time |
| update helper (`self-update/src/main.rs`) | launcher executable, its backup (macOS), pending and installed metadata | `complete_update`, `prepare_installation` | killed between its renames; acts after a wait on a directory that has changed | an interrupted promotion is finished or undone, never left half done |
| start-up, hand-off and launcher-only update (`src-tauri/src/main.rs`) | staged launcher, pending metadata, the record, the continuation | `prepare_startup`, `hand_off_pending_launcher_update`, `staged_launcher_update_state`, `recover_launcher_metadata`, `update_launcher`, `restart_updated_launcher` | two launchers, helpers that outlive them, reinstallation over a staged update | the metadata tells the truth about the executable; no downgrade; every staged update is eventually promoted or discarded |
| resumable downloads (`downloads.rs`) | the partial file, its entity tag and total size, the destination | `download_to_path` | the server's file replaced during a download, kills anywhere, retries | what is delivered is one whole file; a call ends; nothing left on the disk makes it fail for ever |
| game and Content update flow (`main.rs`) | statics of the process: operation guard, what is pending, offered or waits for an authorization; the approved Content update and the session on disk | scan, install, update, launch | worker threads of one launcher against the scan thread; game updated but Content not | one operation at a time; game and Content belong together at launch; an approval is finished later |
| browser sign-in and ownership gate (`browser_signin.rs`, `main.rs`) | the active attempt, its local server, what waits for its answer | start, open browser, finish, cancel, time out | callbacks of an attempt that is no longer the current one | only the current attempt's answer is used; the pending update survives it |
| content packs (`content_packs.rs`, `main.rs`) | a directory, an install record and a pending record for each pack; the catalog in memory | check the catalog, install, update, remove, and the check before a launch | files are renamed into place in one step and recorded in another; plans made before a recovery; a catalog that is stale or absent at removal | what a record says is on the disk, dependencies are installed, the user's own files stay, an install can be finished |
| macOS game bundle swap (`main.rs`) | the bundle, its replacement, its backup, the outer signature, the stored versions | extract, swap, sign, store, recover | killed between two renames or before the metadata; an undo that fails itself | a whole game is always found, not older than its record; where it is not signed, its update is on offer |
| legacy combined update (`main.rs`, `self-update/src/main.rs`) | player, helper, launcher and Content with the pending metadata of the release they belong to | offer, commit, Content, hand-off, adoption, discard | two transactions, one hand-off and two kinds of update that know little of each other | the launcher knows which player it has; a release is recorded when all of it is there |
| version comparison (`versions.rs`, `content_packs.rs`) | none | `compare_versions`, requirements | numeric and prerelease order, texts that are no versions | the order of semantic versioning |
| manifest signatures and schema (`manifests.rs`) | none | fetch, verify, validate | none that a state machine shows | only valid manifests pass |
| screens, release notes (`presentation.rs`, `release_notes.rs`, `ui/`) | none of their own | render | none | text |
| packaging (`packaging/`) | setup's use of the lock and the helper | install over an installation | the gap between the helper's lock and setup's | as the hand-off |
| release pipeline (`scripts/`, `.github/`) | none of the program's | build, sign, publish | none of the program's | build scripts |

Interactions. The launcher calls the engine in its own process, holding the
lock; the engine calls back for every blob, and that callback is a resumable
download. A launcher-only update leaves a staged executable and pending metadata
behind; the launcher starts the helper and exits, the helper waits for its exit
and for the lock, promotes, releases the lock and opens the launcher again. Setup
runs the helper with `--recover-installation` before it copies its baseline. In
the launcher, threads that scan and threads that operate, and the callbacks of the
window on the main thread, share statics: mutexes and flags that are each read and
written by themselves, and the operation guard.

## 2. The modules

| module | models | checked by | proved in |
|---|---|---|---|
| `ManifestPlan` | manifests, `diff`, `diff_verified`, `verify_install` | (used below) | `UpdateTransactionProofs` |
| `AtomicUpdate` | what the engine promises, without its mechanism | (refined below) | `UpdateTransactionProofs` |
| `UpdateTransaction` | the engine, one action per effect on the disk | `MCUpdateTransaction` | `UpdateTransactionProofs` |
| `LauncherHandoff` | launchers, helpers and setup on one installation | `MCLauncherHandoff` | `LauncherHandoffProofs` |
| `ResumableDownload` | `download_to_path` against a changing server | `MCResumableDownload` | `ResumableDownloadProofs` |
| `BrowserSignIn` | sign-in through the system browser, and the window around it | `MCBrowserSignIn` | `BrowserSignInProofs` |
| `InstallFlow` | scans, operations, approvals, authorizations and launches of one launcher | `MCInstallFlow` | `InstallFlowProofs` |
| `ContentPacks` | the catalog, the pack screens, and installing, updating and removing packs | `MCContentPacks` | `ContentPacksProofs` |
| `PackStore` | what packs promise: a change is made whole, once, or not at all | `MCContentPacks` | `ContentPacksProofs` |
| `Versions` | the order of versions and the requirements stated with it | `MCContentPacks` | `ContentPacksProofs` |
| `MacGameSwap` | the replacement of the game bundle on macOS, its undo and its recovery | `MCMacGameSwap` | `MacGameSwapProofs` |
| `ApplicationUpdate` | the combined update of old Windows installations, around the launcher-only one | `MCApplicationUpdate` | `ApplicationUpdateProofs` |

The definitions whose comment calls them faulty, or names them by what they leave out
(`BeginAnyway`, `ReleasePublished`, ...), are bugs the code might plausibly
have had. No specification uses them; substituted for the definition they follow,
each makes a property fail, which shows that the property speaks about the code.

### UpdateTransaction

The disk is four variables: `live` (the managed files), `staged`, `backup` (the
two halves of the transaction directory) and `record`. A manifest and a directory
are functions from paths to contents, and a content stands for one (SHA-256,
size) pair, which is how the code compares files. Paths stand for what
`manifest_path_key` makes of them.

`pc` follows the code: `recover` (`recover_interrupted_apply`), `prepare`,
`stage`, `backup`, `record` and `commit` (`apply_checked` and
`commit_transaction`), `verify`, `finish` (the removal of the record), `rollback`
(`rollback_transaction`) and `cleanup` (the removal of the transaction
directory). A loop over files is an action per file in any order: the code's
order is the manifest's, and nothing may depend on it. The one exception is kept:
changed files are committed before files are removed.

`Fault` is an operation of the file system, or a fetch, that fails at the current
step; `Crash` kills the process. Path checks (`validate_safe_path`, symbolic
links) end a call like a failed operation and are covered by `Fault`. The
directories that hold the files are left out.

What a call keeps in its variables is forgotten when it fails and when a recovery
begins, as the code's locals are. A crash is the end of the process. What it has written
stays in the order it was written: the engine does not call `fsync`, so a loss of power
may do worse than the model.

`AtomicUpdate` is what the engine promises: its state is the installation, the apply that
is under way with the plan and the manifest it was called with (`request`), and the last
answer. `Ask` is a call; `Publish` carries out exactly the plan asked for and answers
success, after a verified apply only with every file of the manifest in place; `Fail`
and `Forget` change nothing. The engine's `Request` is what the running call was given, up
to the moment at which its failure is certain: a rollback belongs to no request any more.

### LauncherHandoff

`disk` says of which release each file is: the launcher, the helper, the staged
launcher, the macOS backup, installed and pending manifest and version, and the
continuation. `Procs` are slots for processes that are alive, each with its own
`pc`; `lock` is the installation lock. A launcher goes through `start` (try the
lock), `recover`, `handoff` (`Decide` is `hand_off_pending_launcher_update`),
possibly `clear ...` or `adopt`, `resume`, `scan`, `run`, and a launcher-only
update through `prepare`, `commit`, `restart`, `reopen`. A helper goes through
`validate`, `wait`, `lock`, `replace`, `sign`, `promote`, `relaunch`. Each removal,
rename and write is an action.

Abstractions: the update's commit is the engine's, file by file in its order,
and its rollback likewise, but staging and the backups are left to
`UpdateTransaction`. Releases are numbers and the channel only grows. On macOS
`codesign` rewrites the executable, so its bytes are "of release r" or "of
release r, signed again". Setup's copy of its baseline is one step and setup
itself is external. The files of the combined update of old Windows installations
are `ApplicationUpdate`'s. `signs` says whether the installation is one of macOS; it
never changes, and one run has both kinds.

`astray` is a history variable, read by properties only: it becomes true when a
helper promotes a staged launcher that a start-up would have refused (section 3),
or when setup copies over an update that a process of the gap between its two locks
has left unsettled. The safety properties that do not hold in these cases say so.

### ResumableDownload

A byte is represented by the version of the server's file it belongs to, so a
file that mixes two versions is visible. `expected` separates signed downloads
(size and hash known: the engine's blobs) from unsigned ones (the Content
archive). `pc` follows an attempt from the check for a complete file through the
request, the headers, the two metadata files, the body and its validation.
`Discard` and `Forget` are what the callers do with a delivered file.

`Kill` inside `fs::write` of a metadata file leaves it empty, which reads as
absent (`TearSize`, `TearEtag`); the history variable `torn` counts these.

The server is external and assumed to honour `If-Range`, to give every version
its own entity tag, and to end a body of unknown length visibly (chunked). It
either always or never tells the total length (`tells`). Mixed answers are
left out: a length remembered from one answer and a later body without a length
that breaks off at exactly that point are accepted by `downloads.rs:327-331`.
Content is compared with its manifest after extraction, so this ends in a failed
verification. Waiting times between attempts are left out.

### BrowserSignIn

The code keeps one active attempt (`BROWSER_SIGN_IN`) and gives every attempt an
id, a listener on a local port and a cancellation. Handlers of the window and
closures given to `run_on_main_thread` run one after another on the main thread,
so each is one action: `Start`, `ShowChoices`, `Back`, `SignInAtGate`,
`GateCompletes`, `FailOpening`, `Finish`. What runs beside them has actions of its
own: the listener (`Receive`, `Decide`, `Close`), the threads of
`open_steam_browser`, which look at the cancellation before they open the browser
(`SeeCancellation`, `OpenBrowser`, `BrowserFails`), the threads that navigate the
window (`NavigateReturn`, `NavigateShow`) and its page loads (`PageLoaded`).

A screen is shown in two steps that are far apart in the code: a handler stores it
(`LOCAL_SCREEN_PENDING`, or a flag), a thread navigates to the launcher's own page,
and `on_page_load` shows what is pending then. `page` is what the user sees and may
click; it stays until the load has finished. A navigation while the page is already
loading joins that load. `left` and `applied` are history variables, read by
properties only.

Abstractions: the gate's pages in the window (GOG and developers, also GOG's
callback) are one page that may complete. Secrets, origins and the form of a
result are left out: a result that reaches `Receive` has passed those checks, and
ids are distinct. What a success resumes (`resume_after_gate`) and a scan are the
page `busy` until they end with another screen; the operation guard and the pending
update belong to `InstallFlow`. The debug preview is left out.

### InstallFlow

The two layers are records: what is there now (a version, and files that are whole,
whole without a verification record, damaged, of two releases, or absent), what the
transaction directory holds (nothing, staged files, a record) and the backup.
`Stage`, `Commit`, `Complete`, `Finish` and `ApplyFails` are the effects of one
apply that another thread or a later process can see; `UpdateTransaction` shows that
there are no others. `Commit` may have replaced the version file or not.

`job` says what each thread does. A scan goes through `start` (the unguarded
recovery), `channel` (`check_game_update`), `read` (what `scan_content_and_prompt`
reads before it asks the channel), `decide`, `verify` and `prompt`; it may become an
operation (`continue_approved_update`, which spawns one and ends). An operation goes
through `start` (the recovery of `run_update`), `fetch` and the apply to `settle`; a
game update becomes the update of its Content under the same guard. After the guard
is dropped a `report` writes the screen, so the guard may be taken again before. A
launch is a job too, of the main thread after a click or of the thread that has
installed: it recovers, then compares and starts the game, without the guard.

Events of the window (`Choose`, `GateAnswers`, `PageLoads`) are handled one at a time
by the main thread. `screen` is what was written last and `shown` what the user sees
and may click. A click may belong to a screen that has been replaced already, which is
how two scans, or a scan and an operation, come to run at once. `Exit` is the end of
the process; `Open` is its start. `Publish` moves the channel and `Damage` deletes or
damages the Content. `unrestored` is a history variable, read by properties only: it
becomes true when a rollback or a recovery fails.

Abstractions: the Windows and Linux flow (`MacGameSwap` has the swap of the bundle on
macOS), without content packs (`ContentPacks`) and the legacy channel, which only
answers when the game channel does not (`ApplicationUpdate`). Of the launcher's own
update only this is left: that one may be staged, which takes a button away
(`LauncherStaged`). The editor is left out. The gate and the choice of a provider
are one page that answers or fails. A game channel that cannot be read is a fault.
Definitions of a layer that an apply is replacing may compare equal or not.

### ContentPacks

`disk` has, for each directory, its files, and for each pack the release in its
install record and in its pending record; a file is the release that brought it.
`transaction` is the one at the installation's root: the plan of a pack and the disk
before it. `own` is a file of the user's in a pack's directory. A job goes through
the code's steps: an operation resolves the pack (`Resolve`), and either installs it
afresh (`Fresh`: the directory is empty or claimed; `Clear`, then `Promote` renames the
extracted directory into place) or updates it (`Prepare`); `Begin`, `CommitFiles`,
`CommitRecord` and `Finish` are the transaction; `Verify` follows the removal of the
pending record (`Tidy`). A scan recovers, asks for the catalog (`Fetch`), and shows the
required packs or Ready; the manager does the same for its own screen.

Others change things between the steps: the catalog is published anew, the game and
with it the version of the built-in pack changes, a file of a pack is damaged, the
user puts a file into a directory. An operation may `Fail`, or the process be killed
(`Exit`), at any step.

A release lists some of the pack's files, and the next one may list fewer: an update takes
away what it no longer has. A removal keeps the record it was planned from, and removes
those files even when the recovery inside its apply has undone that record.

Abstractions: a requirement is the set of versions that satisfy it. No two packs ever
have the same directory, of which a catalog lists each once. Downloads and the
verification of archives are one step that may fail. The installation of the game
stays as it is, apart from its version.

The properties have three exceptions, each a behaviour of the code. `rewound`: an
operation resolves its pack and plans from the files before the recovery that its own apply begins with, and the check of the required
packs comes before the launch's recovery, so after an open transaction was undone
there, what was checked is not what is there. `blind`: a removal looks for dependents in
the catalog in memory alone; with none, or one that no longer lists the dependent, it
removes a pack another one needs. `Stays`: a pack whose releases name different
directories keeps one pending record, which then claims the newer one only. And
`FilesAreRecorded` asks for a record only beside a file that every release of the pack has
(pack.xml is one): a removal whose transaction stays open, a new installation of another
release over it and the recovery that follows can leave a file that only some list.

`PackStore` is the abstract specification: no catalog, screen, file or transaction, only
which release of each pack is installed and the request of each thread. `Store` maps to it:
`installed` is the record as a recovery would leave it (`Restored`), a request is `asked`
while its job has not closed its transaction, `made` in the steps after (`Tidy`,
`Verify`), and its answer in the report. The click that starts an operation is `Ask`;
`Finish`, which closes the transaction, is `Make`; every other end of an operation is
`Fail` or `Succeed`, the latter after `Tidy` or `Verify`; the screen that follows is `Show`;
the end of the process, and the start of the game, is `Stop`. A step that undoes what another
operation left open, or removes a pack although the catalog hid a dependent, is `Mislead`.
All other steps stutter, `Begin`, `CommitFiles` and every rollback and recovery among
them. `ImplementsPackStore` is this refinement.

### Versions

A pure module: the text is taken apart at `+`, `-` and `.` already, an identifier is
its bytes, and the comparison and the requirements follow the code on bytes. The
reference order beside it (`VersionPrecedes`) is stated by the rules of the semantic
versioning document: numbers by their value (`ValueOf`), lists by their first
difference. The constant `Texts` is the set of texts that are compared; that of the
MC module has the document's example in it. `ContentPacks` extends the module for its
property `VersionsAgree`; its own versions are numbers.

### MacGameSwap

`game`, `backup`, `staged` say which release a bundle is, whole or in part; `sealed` is
the bundle that the outer signature covers; `record` and `content` are the stored
versions, and `undo` what an open transaction over the record would put back. `at` is
the step of `install_macos_game_archive` (`clean`, `extract`, `moveOut`, `moveIn`, `seal`,
`tidy`), then `store` (the metadata) and `content` (the update that follows). A failure
of a step is an action with its own undo; each undo may fail too. `Open` is the start
with its recovery, which moves a backup back when there is no game.

`unrestored` and `unrecorded` are history variables. When an undo, or a recovery, has
failed (`unrestored`), the next attempt begins by deleting the backup (`main.rs:1844`), which
may have been the only whole game: `GameKept` excludes it. When the update is cut off
between the swap and its record (`unrecorded`), the stored version is that of the older
game, and the update is offered again; a launch before that compares the old version
with the old Content and starts the new bundle (section 3), and nothing but
that update signs it again. `SealCovers` and `LaunchedNotBehind` speak about these states
too: they are the only ones in which a game is unsigned, or is launched with the Content of
another release; the update is then always on offer, and the game is the newer of
the two or what a failed undo has left.

### ApplicationUpdate

`disk` says of which release each layer is (player, helper, launcher, Content), what the
installed and the pending metadata name, and which release the approval and the
continuation name. `at` is what the one running process does: a launcher from `start`
through the scan, `open` with its choices, and the operations, or the helper with its
four steps. A start does what `hand_off_pending_launcher_update` does: it hands off,
goes on because Content is missing, adopts what the helper had finished, discards the
rest, or gives up on an error. One apply is one step, which takes effect or does not.

Abstractions: the lock and several processes (`LauncherHandoff`), several threads
(`InstallFlow`), the file-by-file commit (`UpdateTransaction`). The game channel cannot be
read, which is why the combined channel is asked. `Losable` names pending files that may
disappear (a virus scanner, a user); the pending version is never one of them, because
nothing else says which player there is.

`discarded` is a history variable: a launcher-only update, or a start, has removed the
pending version of a player that is on the disk. While only the manifest of a release
has been promoted, after a failure in `recover_completed_launcher_handoff`, the
launcher takes the game for the older version as well, until the next start;
`GameIsKnown` says so.

## 3. The runs

| run | instance | shows |
|---|---|---|
| `transaction` | 2 paths, 2 contents, 2 applies, 1 fault, 1 crash | `BackupsComplete`, `WriteAheadLog`: whatever a record says can be undone, and nothing changes without one; `SuccessIsVerified`; `ImplementsAtomicUpdate`: with the installation seen as a recovery would leave it, every apply carries out exactly its plan in one step, or nothing; `EngineSettles` |
| `handoff` | 3 processes, 2 releases, 2 crashes, 1 fault, 1 setup, on every platform | `RestartIsReady`; `MetadataFits`: the metadata never claims more than the executable, and once nobody acts and nothing is pending they are of one release; `NoDowngrade`; `HandoffSettles` |
| `download` | versions of lengths 2, 2 and 3; 4 attempts, 2 kills, 2 faults, 2 changes | `SignedIsGenuine`, `UnsignedIsWhole`, `Delivers` |
| `sign_in` | 2 attempts, 1 failure, 1 thread of a kind by clicks | `LeftIsIgnored`, `OneIsHeard` |
| `sign_in_live` | 1 attempt, 1 failure, nothing installed | `WaitingEnds` |
| `flow` | 1 thread, 2 releases, 2 faults (also of restorations) or kills | `ContentFollowsGame`, `ApprovalKept`, `Answered`, `Converges` |
| `flow_overlap` | 2 threads, 2 releases, 1 fault or kill, a staged launcher | `OneOperation`, `LaunchCoherent` |
| `flow_guard` | 2 threads, 2 releases | finds `ExclusiveAccess` violated |
| `packs` | 2 packs of 2 releases, one depending on the other; 2 threads, 3 faults or kills, 1 change from outside | `FilesAreRecorded`, `DependenciesPresent`, `OwnFilesKept`, `NeverStuck`; `ImplementsPackStore`: every change is atomic, and made where its requirements are met; `VersionsAgree` over 19 versions and 5 texts that are none |
| `mac_swap` | 3 releases, 4 faults or kills | `GameKept`; `SealCovers`, `LaunchedNotBehind`: a game that is unsigned, or launched with the Content of another release, is one whose update was cut off or badly undone, and is on offer |
| `application` | 3 releases, 3 faults, kills or losses of the staged launcher | `GameIsKnown`, `RecordedWhole` |
| `application_pair` | 2 releases, 1 fault | finds `LaunchedPair` violated |

`TypeOK` is an invariant of the first run of each module in this table.

Why these bounds. Two paths are the least for which an installation can be torn,
two contents (and absence) the least for which it is seen; with two applies the
second meets the leftovers of the first. Three process slots hold a launcher, the
helper of an earlier one and a second launcher or setup. Versions of the same and
of different length tell a comparison of sizes from one of hashes. `MaxAttempts`
is `MAX_ATTEMPTS`. Attempts and threads are interchangeable and are
symmetry sets of the runs without liveness properties; the others use no symmetry.
Two attempts are the least of which one can be late for the
other, and a listener, a browser thread and a queued closure of each may be under
way together; one more thread per click repeats what one does. Two releases are the least for which a
scan and an installation can have seen different ones; two threads beside the main
thread are an operation and a scan, a scan and a scan, or an installation's launch
and an operation. Two packs are a dependent and what it depends on; their second
releases drop a file, drop the dependency, move to another directory and need a newer
game, and three faults are a failed operation, its failed recovery and one more. Three releases
of `mac_swap` and `application` are one that is installed, one that is being installed
and one that is published meanwhile. No
specification stops for good, so every run checks for deadlock.

`MetadataFits` has two exceptions beside `astray`. On macOS a promotion that was
interrupted after signing cannot be adopted, because the executable's hash is no
longer the published one: the pending metadata is discarded and the update is
offered again, while the older metadata stays next to the newer executable. That
is what the code intends. And the recovery that setup has the helper make
throws an interrupted promotion away, since setup copies its baseline next, and setup
may be closed before it does. In both cases the metadata still never claims more than
the executable.

`UnsignedIsWhole` is conditional on `torn < 2`: two kills, each in the middle of
writing one of the metadata files, lose both the tag and the size, and the next
resume of an unsigned download then has nothing to compare. One is made good by
the other.

`ContentFollowsGame`, `LaunchCoherent` and `Converges` say nothing of a
behaviour once a rollback or a recovery has failed (`unrestored`): the launcher goes on with
a layer that holds two releases. Continue after a game update whose rollback failed scans
the Content without a recovery (`main.rs:1141`), sees the version of the half-committed
game, and installs the Content of it, although that update's own recovery takes the
game back to the older release first. `Converges` fails then because of a recovery at the start of the
launcher (`main.rs:448`): the launcher asks the gate for the archive of a game version
that the next recovery takes back, and `install_content` refuses that archive, or another
one, on every Retry until the user signs in again. `ApprovalKept`, `Answered` and
`OneOperation` hold all the same.

`ContentFollowsGame` and `ApprovalKept` are checked with one thread beside
the main thread, and proved for that one (section 5). With two they fail, because a scan
that is not under the guard may read the version of a half-committed game beside an
operation: see the finding about the guard.

`ApprovalKept` names the two steps that forget the approval of an update that is not
finished. A launch clears it on purpose (`main.rs:1081`). And a scan does while a first
install is pending (`main.rs:3195-3196`): the process was killed after the game update, a
sign-in that `--repair` asked for made the whole archive pending, its installation failed
for want of an authorization, and the user went back. Content is behind the game, and the
approval of its update goes; the scan offers the archive of the installed game instead
(once a restoration has failed it may be that of another release), which is no longer
installed without a click. No comment or document says that an approval outlives this.

`LaunchCoherent` only speaks about launches that find the guard free when the game is
started. The click looks at the guard, the launch does not take it: a scan that continues
an approved update in between lets the game start while its Content is being replaced.

Two more behaviours that the models reach and no property is about. A helper that
waited for the lock only looks whether its paths are files (`self-update/src/main.rs:195`):
if a launcher opened meanwhile was killed in the commit of a newer update, the helper
promotes a launcher that is half of that update, and the next start rolls the rest back
(`astray`). And the sign-in: starting an attempt begins a load of the launcher's page;
if the gate refuses before that load has finished, the error becomes the pending screen
and a second navigation is started to show it; the first load takes it
(`main.rs:815-816`), the second finds nothing pending, and the user is left on the page
as it was loaded, which has no button.

**Finding** (`flow_guard`). `begin_install_operation` is documented (`main.rs:231`) to
acquire "exclusive access to all on-disk installation and update state". The recovery
that begins every scan (`main.rs:3074`) does not acquire it. Two scans run at once, the
offer of the first is accepted, and the second one then takes the transaction away from
the operation that holds the guard. In the model a recovery is one step and the operation
fails; a recovery that is interleaved file by file with a running commit may do worse. A
scan beside an operation also reads what the operation has half committed: it may offer
Content of the new game's version, the game update may then fail and be rolled back, and
the offer is accepted. With two threads that takes Content ahead of the game
although every rollback succeeds (`ContentFollowsGame` with `Threads = {t1, t2}`).

`LaunchedNotBehind` states what is left of a promise: `launch_player` is documented
(`main.rs:5460`) to validate "the installed player/content pair", but TLC refutes
`[][Launches => IsPaired']_vars` with two releases and one failure. `install_macos_game_archive`
swaps the bundle first, and the version of the game is stored after it (`main.rs:1820-1829`). An error while
the backup is removed (`main.rs:1885`), or a kill between, leaves the new bundle with the
version of the old one. Continue on the error screen scans Content, which is of that
version; Launch compares the same two versions and starts the new player with the old
Content. The offered update heals the pair once it is taken. The next finding is the
same promise broken in another way.

**Finding** (`application_pair`). `launch_player` is documented (`main.rs:5460`) to
validate "the installed player/content pair". On an old Windows installation, a combined
update commits the player of release 2, and its Content update fails or loses its
authorization. If the user now takes an offered launcher update, `do_launcher_update`
removes the pending metadata of the combined one (`main.rs:1528-1529`), the only file that says
which player there is. The launcher falls back to release 1, which is that of the
Content, and Launch starts the player of release 2 with the Content of release 1. The
combined update is offered again at the same time; it heals the pair once it is taken.

## 4. Fairness

`UpdateTransaction`: a running call goes on (`WF(Step)`), and an unsettled record
is eventually met by a recovery, because every start of the launcher and every
flow of it begins with one. Applies are not fair: nobody has to update. With
bounded faults and crashes, a rollback must eventually run to its end.

`LauncherHandoff`: each process that can go on does, because it is a program
running to its end; an open window is eventually closed and the launcher opened
again. Updates, setup, faults and kills are not fair.

`ResumableDownload`: the call goes on, and the user (or the next start) retries a
failed one. `Delivers` says that calls end and deliver in the end; it excepts a signed
file that the server no longer has.

`BrowserSignIn`: threads, the tasks of the runtime and the main thread's queue run
on, and a page load ends. The time-out is a choice `Decide` always has, because
`select!` includes the sleep. Users, browsers and failures are not fair: nobody
has to answer.

`InstallFlow`: threads run on, pages load, the gate answers and the window shows what was
written; the user opens the launcher, closes a window that leads nowhere, and does not leave
the button that leads on (`First`) unused for ever. That is an assumption about the user, not
about the code: whatever else such a user clicks, something to click always follows
(`Answered`), and one who clicks nothing else any more gets the published game
(`Converges`). A retry that cannot succeed, and two screens that lead to each other for
ever, violate them. Kills, failures and publications are not fair.

`ContentPacks`, `MacGameSwap` and `ApplicationUpdate` state safety only, and no fairness:
each of their operations is a fixed number of steps, and what has to be repeated is
repeated by the user.

## 5. What is proved

All theorems hold for every set of paths, contents, versions and attempts, for every
number of releases and for every bound; they assume the named `ASSUME`s of their
module only (the null values are not ordinary values, no release has the number that
stands for none, every pack has a release, bounds are natural numbers, the game has a
version, sizes are positive, the pending version is not among the files that get lost, the
texts that are compared consist of bytes).
Two theorems assume more and say so: `ContentFollows` and `ApprovalStays` are about one
thread beside the main one.

`UpdateTransactionProofs` rests on one inductive invariant, `IInv`, the
conjunction of named facts each of which says what a stage has achieved so far:

* `RecordStages`: in which stages a record is on the disk, and in which not;
* `StagedIsChecked`: every blob the commit will still rename is the one wanted;
* `BackupIsExact`: the backup loop's copies equal the live files it has visited;
* `RecordIsCurrent`, `CommittedSoFar`: during the commit the record is the running
  plan's, and each path not in `todo` has its final content;
* `RestoredSoFar`: the same for the rollback, against the backups;
* `FinishIsVerified`: a call that reaches `finish` has passed its verification.

None of the safety properties is inductive alone: that backups are complete when
the record is written needs the backup loop's invariant, and that the removal of
the record after a rollback is invisible needs to know that the rollback has
restored everything. `Implementation` maps every state to `AtomicUpdate` by
`Recovered`, the installation as a recovery would leave it, and to the `Request` of the
running call: `BeginApply` is the abstract `Ask`, `FinishApply` is `Publish`, failures are
`Fail`, kills and the start of a recovery are `Forget`, and every other step stutters. In
particular a commit changes nothing abstractly until the record goes, and the
record's creation is a stutter because the backups are exact at that moment. That
`Publish` is of the plan asked for, no more and no less, needs `CommittedSoFar` up to the
end: no path of the plan is left undone, and no other has changed. An engine that is done
when the files are written and the removals are not (`FinishCommitOfChanged`) does
not refine it.

`DiffVerifiedIsComplete` is a lemma about the plan: carried out on the directory
it was computed for, it leaves every listed file in place, whatever manifest was
compared.

`LauncherHandoffProofs` proves the type invariant, `RestartIsReady`, `MetadataFits` and
`NoDowngrade` for any number of processes, kills and runs of setup, and `OneHolder`: at
most one of them is in the stages that change the installation. The argument rests on
the lock. Who relies on the disk holds it (`LockHeld`), so no other process disturbs it, and
what is left is sequential: each stage has an assertion (`StageFits`) that its
predecessor establishes. What is true between two holders (`GlobalFits`: no metadata newer
than the launcher, nothing staged that is older or that nobody promised, and either
nothing staged or all four files of one release) is said of the disk as a recovery
would leave it, so a commit or a rollback that is cut off needs no case of its own.
`MetadataFits` alone says nothing of the staged files, from which the next
promotion makes it true or false.

`ResumableDownloadProofs` proves type correctness, and with it that no call makes
more than `MaxAttempts` attempts, and that signed and unsigned downloads are what they
claim. The invariant adds `HasResponse`: the stages that look at a response have one. For
unsigned downloads (`UnsignedIsWhole`) it adds that the metadata beside a partial file, as
far as it is there, is that of every byte in it; that the loss of one of the two metadata
files leaves the other to notice a change; and that a body whose length nobody tells
was received from its start. All of it is conditional on `torn < 2`, as the
property is.

`BrowserSignInProofs` proves the type invariant and the three safety invariants of
sign-in. They need each other and two facts more: whatever has ended or was left
has been cancelled (`EndedIsCancelled`), and only an attempt that has begun can be
(`CancelledHasBegun`). A step preserves `Ownership` in one of five ways, each a
lemma: it does not touch the attempts, it leaves the active one, it ends it, it
moves a listener, or it starts the next attempt.

`WriteAheadLog` is the theorem `LogIsWrittenAhead`, and `OneIsHeard` is
`NoListenerForgotten`: the second and the third of those three invariants together.

`MacGameSwapProofs` proves the type invariant, `GameKept`, `SealCovers` and
`LaunchedNotBehind` from one invariant that says, step by step of the swap, where the whole
game is (`GameInv`), what the stored version is behind (`RecordInv`), which bundle the outer
signature covers (`SealInv`), and when the record is that of the bundle (`PairInv`). Each
property looks at the states in which the user can act; it is the steps between,
and the failed undo of each, that need the stronger statement. Two more parts are about
an update that was cut off: the bundle it leaves is not older than what is stored
(`NewerInv`), and as long as the installed bundle is not the stored one, or is not signed,
a newer release than the stored one is published (`OfferInv`). Neither excludes a kill or
a failed undo.

`ApplicationUpdateProofs` proves the type invariant, `GameIsKnown` and `RecordedWhole`.
`GameInv` is `GameIsKnown` without its exception for a half-promoted manifest, as a fact about the
pending version and the player; `HelperInv` says what the helper has done when it gets to
each of its steps, which is why its last rename may record the release without looking
at anything; `WorkInv` says that each operation knows the release it is to install. A start
that adopts what the helper left needs none of this: it compares every file itself.
The proof is independent of the number of releases and failures, and of which staged
files get lost.

`InstallFlowProofs` proves the type invariant, `OneOperation` and `LaunchCoherent` for any
number of threads, and `ContentFollowsGame` and `ApprovalKept` for one.

* The type invariant needs to know that what is pending, compared, asked for or restored is a
  release that exists.
* `OneOperation` follows from the four ways in which a step may move the guard (`GuardMoves`):
  with no operation that starts or ends, taken by one that starts, dropped by one that ends, or
  gone with the process.
* `LaunchCoherent` needs `LayersFit`: definitions of two releases have a record beside
  them, and while the launcher runs an open record belongs to an operation in the middle of
  its apply, unless a restoration has failed. So a free guard means that there is none.
* `ContentFollowsGame` needs `FlowFits`, which speaks about the release *behind* each layer, the
  one a recovery would leave: Content is not ahead of the game there either, and what is
  pending, offered, asked of the gate, compared by a scan or being installed is of that
  release or of one to come. A scan only sees the layers as they are; with one thread no
  operation runs beside it, so what it sees is what is behind them. This is the step
  that fails with two threads.
* `ApprovalKept` holds of every step but a launch and the one scan that it names, whether or
  not a restoration has failed. It needs `ApprovalFits`, which unlike `FlowFits` also holds after a failed
  restoration: an update that may forget the approval is of the release behind the game and
  finds a Content that needs no approval, or both the approval and the offer are of another
  release (`Apart`). A scan decides with what it has read, and only Damage or a launch
  changes that meanwhile (`DecideWaits`); only the scan that follows a skipped offer makes no
  recovery first, and then there is no offer to be behind.

`ContentPacksProofs` proves the type invariant, the other properties of its run, and from the
same invariant `RequirementsMet`: what `Make` of `PackStore` says of the step that closes
a transaction is true already when the record is written. The guard lets one operation at a time change the disk (`NeverStuck` is part of the
invariant), so each step of it hands an assertion to the next (`OperationFits`: which files
already agree with the release, whose transaction is open, that the requirements are still
met). Between operations, and across a kill at any step, the disk is judged as a recovery
would leave it (`Restored`), on which an open transaction has no effect until it is closed.
`FilesAreRecorded` needs besides that a removal whose record is gone has all the files of
that record in its transaction (`RemovalFits`); `OwnFilesKept`, that a pending record never claims
a directory with the user's files, and that a recovery will not bring one back
(`OwnIsApart`). The exceptions are those of the properties, `rewound` and `blind`.

`ChangesAreAtomic` is the refinement of `PackStore`, action by action: `InstalledIs` says
when a step leaves `Restored` as it is, and of the operations only the step that closes a
transaction does not (`OwnMoves` for the directories). `Succeed` is allowed only where the
pack is at the release asked for, which needs `ApplyFits` in the steps after the
transaction: nobody else can have moved it since. `AtomicChangesKeepDependencies` is
about `PackStore` alone: its steps suffice for no installed pack to lack one it needs.

The last part is about `Versions`, and has no state. A comparison of lists is the first
one that is not Equal (`FirstUnequalIs`, which needs that a set of numbers has a least
one); with a comparison of the elements that is Equal only for equal elements, the lists
are ordered by their first difference (`ListsEqual`, `ListsLess`, `ListsGreater`). This is
used for bytes, cores and prereleases. That numerals are ordered by their values
(`CompareNumericIs`) rests on two facts about digits: without leading zeros a longer
numeral is larger (`LongerIsLarger`), and one that is larger in its first different digit
stays larger (`FirstDigitDecides`). `ValueOf` is a recursive function; that it exists, and
what it is, is proved by the least place at which it would fail (`LeastOutside`), because the
library's induction theorem itself cannot be applied. `VersionsAreSemantic` is then
`VersionsAgree` for texts of any length, and `VersionsAreOrdered` adds that the order is
transitive, so that versions may be numbers in every other module.

Only model-checked:

* everything under fairness (`EngineSettles`, `HandoffSettles`, `Delivers`, `WaitingEnds`,
  `Answered`, `Converges`): liveness is beyond the prover;
* the refuted `ExclusiveAccess`, and `LaunchedPair` of the combined update, which the code
  does not keep.

## 6. Not modelled

* Rendering, release notes and build scripts: no state of the program.
* Signature and schema checks: pure validation of fetched documents. A manifest that
  reaches the engine is taken to be valid.
* The macOS migration of old installations: the Tauri updater does it, outside this
  code. The list of native plugins of a combined release, and setup's recovery of one.
* The body of the editor, waiting times between attempts, and the directories above files.
* A loss of power: every model keeps what was written in the order it was written. The
  engine does not call `fsync`; `downloads.rs:316` does (`sync_all`) for a partial file,
  before it is looked at and renamed, in which order the model has these steps anyway.

What would come next: `BrowserSignIn` composed with `InstallFlow` through the pending
update and the authorizations that wait, which the two meet in `GateAnswers` now; and an
abstract specification of what the installed pair of game and Content promises, which
`InstallFlow` could be shown to implement as `UpdateTransaction` implements `AtomicUpdate`.
