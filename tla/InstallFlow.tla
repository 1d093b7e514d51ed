---------------------------- MODULE InstallFlow ----------------------------
(***************************************************************************)
(* One launcher and the two layers it keeps coherent: the game player and  *)
(* its protected Content, of the same version.  Threads scan the release   *)
(* channels and carry out the operations the operation guard serializes:   *)
(* main.rs from scan_and_prompt and on_choice to run_game_update,          *)
(* run_update and start_install, with the approval that survives the       *)
(* process, the authorization an update waits for, and the launch.         *)
(*                                                                         *)
(* An apply is cut where its effect on the layer can be seen: staged, being*)
(* committed under its record, complete, finished; UpdateTransaction has   *)
(* the rest.  Sign-in is one screen and one answer; BrowserSignIn has the  *)
(* rest.  The launcher's own update and content packs are not here, and    *)
(* the game channel has a coherent answer or none.                         *)
(***************************************************************************)
EXTENDS Naturals

CONSTANTS Threads,        \* how many of the launcher's threads run at once
          Main,           \* its main thread, which handles the window's events
          LastRelease,    \* bound on the releases published
          LauncherStaged, \* whether an update of the launcher waits for its next start
          MaxFaults       \* bound on failures and kills of a behaviour

ASSUME MainIsApart == Main \notin Threads
ASSUME ReleasesArePositive == LastRelease \in Nat \ {0}
ASSUME StagedIsBoolean == LauncherStaged \in BOOLEAN
ASSUME BoundIsNatural == MaxFaults \in Nat

VARIABLES published, \* the release in dist/game.json
          disk,      \* the two layers, with the transaction of each
          approved,  \* disk: .approved-content-update (0: there is none)
          session,   \* whether there is a session token, in memory and on the disk
          guard,     \* INSTALL_OPERATION_IN_PROGRESS
          offer,     \* PENDING_GAME_UPDATE (0: none)
          pending,   \* PENDING
          waiting,   \* GAME_UPDATE_AUTH_PENDING
          dismissed, \* GAME_UPDATE_DISMISSED
          returning,   \* GATE_RETURN_PENDING
          scanPending, \* INITIAL_SCAN_PENDING
          loading,   \* whether the bundled page is being loaded
          asked,     \* the version whose archive the ownership gate was asked for
          job,       \* what each thread does
          screen,    \* the last screen written
          shown,     \* the screen the window shows: writing is asynchronous
          player,    \* the version of the game launched last (0: none since Open)
          unrestored, \* history: whether a rollback or a recovery has failed
          faults

page == <<returning, scanPending, loading, asked>>
store == <<disk, approved, session>>
memory == <<guard, offer, pending, waiting, dismissed, page>>
view == <<screen, shown>>
past == <<player, unrestored>>
vars == <<published, store, memory, job, view, past, faults>>

Releases == 1..LastRelease
Versions == 0..LastRelease
Layers == {"game", "content"}

(* The files of a layer: whole and recorded as verified, whole without     *)
(* that record, with definitions that differ, of two releases, or absent.  *)
State == [version : Versions, files : {"whole", "unverified", "damaged", "mixed", "none"}]
Absent == [version |-> 0, files |-> "none"]
Layer == [now : State, scratch : {"none", "staged", "record"}, backup : State]
Settled(state) == [now |-> state, scratch |-> "none", backup |-> Absent]

Pending == [kind : {"none", "install", "update"}, version : Versions, finishes : BOOLEAN]
NoPending == [kind |-> "none", version |-> 0, finishes |-> FALSE]
Update(version, finishes) == [kind |-> "update", version |-> version, finishes |-> finishes]
FirstInstall(version) == [kind |-> "install", version |-> version, finishes |-> FALSE]

(* The buttons of each screen that change anything here. *)
Buttons ==
    [closed |-> {}, busy |-> {}, gate |-> {}, retired |-> {},
     choices |-> {"provider", "back"},
     signIn |-> {"signin"},
     gameOffer |-> {"game-update"} \cup (IF LauncherStaged THEN {"play"} ELSE {"skip-game-update"}),
     gameFailed |-> {"game-update", "skip-game-update"},
     updateOffer |-> {"update", "play"},
     updateFailed |-> {"update"},
     updateSignIn |-> {"signin", "play"},
     requiredSignIn |-> {"signin", "quit"},
     readyToInstall |-> {"install"},
     installFailed |-> {"install"},
     upToDate |-> {"play"},
     launchFailed |-> {"play"},
     checkFailed |-> {"retry-update-check"},
     checkFailedPlayable |-> {"retry-update-check", "play"}]

Screens == DOMAIN Buttons

(* A thread that scans has the approval and the version of Content it read *)
(* (approved, version); one that operates, the release it installs         *)
(* (version); one that reports, the screen it will write (next).           *)
Tasks == {"none", "scan", "game", "update", "install", "report", "launch"}
Steps == {"start", "channel", "read", "decide", "verify", "prompt",
          "fetch", "stage", "commit", "complete", "finish", "settle"}
Job == [task : Tasks, at : Steps, version : Versions, approved : Versions,
        finishes : BOOLEAN, next : Screens]
Idle == [task |-> "none", at |-> "start", version |-> 0, approved |-> 0,
         finishes |-> FALSE, next |-> "closed"]
Scan == [Idle EXCEPT !.task = "scan"]
Operation(task, version, finishes) ==
    [Idle EXCEPT !.task = task, !.at = IF task = "update" THEN "start" ELSE "fetch",
                 !.version = version, !.finishes = finishes]
Report(next) == [Idle EXCEPT !.task = "report", !.next = next]

Operating(t) == job[t].task \in {"game", "update", "install"}
At(t, task, step) == job[t].task = task /\ job[t].at = step
MainIsFree == job[Main] = Idle
LayerOf(t) == IF job[t].task = "game" THEN "game" ELSE "content"

Game == disk["game"].now.version
Content == disk["content"].now.version
ContentPresent == disk["content"].now.files # "none"

DiskOK ==
    /\ published \in Releases
    /\ disk \in [Layers -> Layer]
    /\ approved \in Versions /\ asked \in Versions
    /\ offer \in Versions /\ player \in Versions
    /\ pending \in Pending
ThreadsOK ==
    /\ job \in [Threads \cup {Main} -> Job]
    /\ \A t \in Threads : Operating(t) => job[t].version \in Releases
ViewOK == screen \in Screens /\ shown \in Screens
FlagsOK == /\ session \in BOOLEAN /\ guard \in BOOLEAN
           /\ waiting \in BOOLEAN /\ dismissed \in BOOLEAN
           /\ unrestored \in BOOLEAN
           /\ returning \in BOOLEAN /\ scanPending \in BOOLEAN /\ loading \in BOOLEAN

TypeOK == DiskOK /\ ThreadsOK /\ ViewOK /\ FlagsOK /\ faults \in Nat

NoMemory ==
    /\ guard = FALSE /\ offer = 0 /\ pending = NoPending /\ waiting = FALSE
    /\ dismissed = FALSE /\ asked = 0
    /\ returning = FALSE /\ scanPending = FALSE /\ loading = FALSE
    /\ job = [t \in Threads \cup {Main} |-> Idle]
    /\ screen = "closed" /\ shown = "closed"

Init ==
    /\ published = 1
    /\ \E content \in {Absent, [version |-> 1, files |-> "unverified"]} :
           disk = [game |-> Settled([version |-> 1, files |-> "whole"]),
                   content |-> Settled(content)]
    /\ approved = 0 /\ session = FALSE
    /\ NoMemory
    /\ player = 0 /\ unrestored = FALSE /\ faults = 0

-----------------------------------------------------------------------------
(* What the actions are made of.                                           *)

Fault == faults < MaxFaults /\ faults' = faults + 1

Write(next) == screen' = next

(* show_sign_in_choices: whatever page was to be loaded is not any more.   *)
ShowChoices ==
    /\ Write("choices")
    /\ returning' = FALSE /\ scanPending' = FALSE /\ loading' = FALSE
    /\ UNCHANGED asked

Become(t, next) == job' = [job EXCEPT ![t] = next]
Go(t, step) == Become(t, [job[t] EXCEPT !.at = step])
End(t) == Become(t, Idle)

(* thread::spawn.  Threads bounds the threads that run at once.             *)
Spawn(next) == \E t \in Threads : job[t] = Idle /\ Become(t, next)

(* The process ends, and takes its threads and its memory with it. *)
Exit ==
    /\ guard' = FALSE /\ offer' = 0 /\ pending' = NoPending /\ waiting' = FALSE
    /\ dismissed' = FALSE /\ asked' = 0
    /\ returning' = FALSE /\ scanPending' = FALSE /\ loading' = FALSE
    /\ job' = [t \in Threads \cup {Main} |-> Idle]
    /\ screen' = "closed" /\ shown' = "closed"

(* recover_interrupted_apply on one layer: a transaction with a record is  *)
(* rolled back, any other is deleted.                                      *)
Recovered(layer) == Settled(IF layer.scratch = "record" THEN layer.backup ELSE layer.now)
AllRecovered == [l \in Layers |-> Recovered(disk[l])]

(* recover_interrupted_updates fails, before or after the game layer. *)
RecoveryFails ==
    /\ Fault /\ unrestored' = TRUE
    /\ \/ UNCHANGED disk
       \/ disk' = [disk EXCEPT !["game"] = Recovered(@)]

(* launch_player compares the versions, and the definitions of Content     *)
(* with the manifest beside them, which pass for either version in files   *)
(* an apply is replacing.  Unchecked: the versions are not compared.       *)
DefinitionsPass == disk["content"].now.files \in {"whole", "unverified", "mixed"}
LaunchableUnchecked == DefinitionsPass
Launchable == Game = Content /\ DefinitionsPass

-----------------------------------------------------------------------------
(* Operations start: each holds the guard (begin_install_operation), or    *)
(* does not start.  Anyway: it starts.                                     *)

BeginAnyway(next) == guard' = TRUE /\ Spawn(next) /\ Write("busy")
Begin(next) ==
    IF guard THEN UNCHANGED <<guard, job, screen>>
    ELSE guard' = TRUE /\ Spawn(next) /\ Write("busy")

StartScan(step) ==
    /\ Spawn([Scan EXCEPT !.at = step]) /\ Write("busy")
    /\ UNCHANGED guard

StartUpdate == Begin(Operation("update", pending.version, pending.finishes))
StartInstall == Begin(Operation("install", pending.version, FALSE))

(* start_game_update.  An offer without a session waits for the gate;      *)
(* otherwise waits is what is left of an earlier wait.                     *)
StartGameUpdate(waits) ==
    \/ offer = 0 /\ StartScan("start") /\ waiting' = waits
    \/ /\ offer # 0 /\ ~session
       /\ waiting' = TRUE /\ Write("updateSignIn")
       /\ UNCHANGED <<guard, job>>
    \/ offer # 0 /\ session /\ Begin(Operation("game", offer, TRUE)) /\ waiting' = waits

-----------------------------------------------------------------------------
(* A scan in thread t.  Nothing below holds the guard.                     *)

ScanRecovers(t) ==
    /\ At(t, "scan", "start")
    /\ \/ disk' = AllRecovered /\ Go(t, "channel") /\ UNCHANGED <<screen, unrestored, faults>>
       \/ RecoveryFails /\ Write("checkFailed") /\ End(t)
    /\ UNCHANGED <<published, approved, session, memory, shown, player>>

(* check_game_update: a newer release is offered, unless the user has      *)
(* dismissed it or the channel has no answer.                              *)
ScanChecksGame(t) ==
    /\ At(t, "scan", "channel")
    /\ \/ /\ ~dismissed /\ published > Game
          /\ offer' = published /\ Write("gameOffer") /\ End(t)
          /\ UNCHANGED faults
       \/ /\ dismissed \/ published <= Game
          /\ Go(t, "read") /\ UNCHANGED <<offer, screen, faults>>
       \/ Fault /\ Go(t, "read") /\ UNCHANGED <<offer, screen>>
    /\ UNCHANGED <<published, store, guard, pending, waiting, dismissed, page,
                   shown, past>>

(* scan_content_and_prompt reads the disk before it asks the channel. *)
ScanReads(t) ==
    /\ At(t, "scan", "read")
    /\ Become(t, [job[t] EXCEPT !.at = "decide", !.version = Content, !.approved = approved])
    /\ UNCHANGED <<published, store, memory, view, past, faults>>

(* content_release_for_application: the release of Content a known game    *)
(* version needs, whatever is published.                                   *)
ReleasePublished == published
ReleaseForGame == Game

(* should_continue_approved_update. *)
ContinuesApproved(t) ==
    job[t].approved = ReleaseForGame /\ job[t].version # ReleaseForGame

(* continue_approved_update: no click is needed for what was approved.     *)
ContinueApproved(t) ==
    /\ pending' = Update(ReleaseForGame, TRUE)
    /\ UNCHANGED approved
    /\ \/ ~session /\ Write("requiredSignIn") /\ End(t) /\ UNCHANGED guard
       \/ session /\ guard /\ End(t) /\ UNCHANGED <<screen, guard>>
       \/ /\ session /\ ~guard /\ guard' = TRUE
          /\ Become(t, Operation("update", ReleaseForGame, TRUE)) /\ Write("busy")

(* What scan_content_and_prompt does with the answer of the channel. *)
ScanDecides(t) ==
    /\ At(t, "scan", "decide")
    /\ IF pending.kind = "install"
       THEN /\ approved' = 0 /\ Write("readyToInstall") /\ End(t)
            /\ UNCHANGED <<pending, guard>>
       ELSE IF job[t].version = 0
       THEN /\ approved' = 0 /\ Write("signIn") /\ End(t)
            /\ UNCHANGED <<pending, guard>>
       ELSE IF job[t].version = ReleaseForGame
       THEN approved' = 0 /\ Go(t, "verify") /\ UNCHANGED <<pending, guard, screen>>
       ELSE IF ContinuesApproved(t) THEN ContinueApproved(t)
       ELSE /\ approved' = IF job[t].approved = 0 THEN approved ELSE 0
            /\ Become(t, [job[t] EXCEPT !.at = "prompt", !.version = ReleaseForGame])
            /\ UNCHANGED <<pending, guard, screen>>
    /\ UNCHANGED <<published, disk, session, offer, waiting, dismissed, page,
                   shown, past, faults>>

(* The channel, or the verification, has no answer. *)
ScanFails(t) ==
    /\ At(t, "scan", "decide") \/ At(t, "scan", "verify")
    /\ Fault
    /\ Write(IF job[t].version = Game THEN "checkFailedPlayable" ELSE "checkFailed")
    /\ End(t)
    /\ UNCHANGED <<published, store, memory, shown, past>>

(* installed_content_matches_release.  Content with a verification record  *)
(* only has its definitions compared; Content without is compared with a   *)
(* manifest that needs a session, and the record is stored, by a           *)
(* transaction of its own.                                                 *)
ScanVerifies(t) ==
    /\ At(t, "scan", "verify")
    /\ \/ /\ disk["content"].now.files = "whole"
          /\ Write("upToDate") /\ End(t) /\ UNCHANGED <<disk, session, faults>>
       \/ /\ disk["content"].now.files = "unverified" /\ session
          /\ disk' = [disk EXCEPT !["content"] = Settled([Recovered(@).now EXCEPT !.files = "whole"])]
          /\ Write("upToDate") /\ End(t) /\ UNCHANGED <<session, faults>>
       \/ /\ disk["content"].now.files = "unverified"
          /\ IF session THEN Fault ELSE UNCHANGED faults
          /\ session' = FALSE
          /\ Go(t, "prompt") /\ UNCHANGED <<disk, screen>>
       \/ /\ disk["content"].now.files \in {"damaged", "mixed", "none"}
          /\ Go(t, "prompt") /\ UNCHANGED <<disk, screen, session, faults>>
    /\ UNCHANGED <<published, approved, memory, shown, past>>

(* prompt_update: what the update finishes is read again.  Scanning: it    *)
(* does not ask for a missing authorization, but scans again.              *)
SignInScreen(finishes) == IF finishes THEN "requiredSignIn" ELSE "updateSignIn"
ScanPromptsScanning(t) ==
    /\ At(t, "scan", "prompt")
    /\ pending' = Update(job[t].version, Game # Content)
    /\ \/ session /\ Write("updateOffer") /\ End(t)
       \/ ~session /\ Become(t, Scan) /\ UNCHANGED screen
    /\ UNCHANGED <<published, store, guard, offer, waiting, dismissed, page,
                   shown, past, faults>>

ScanPrompts(t) ==
    /\ At(t, "scan", "prompt")
    /\ pending' = Update(job[t].version, Game # Content)
    /\ \/ session /\ Write("updateOffer") /\ UNCHANGED <<session, faults>>
       \/ /\ IF session THEN Fault ELSE UNCHANGED faults
          /\ session' = FALSE /\ Write(SignInScreen(Game # Content))
    /\ End(t)
    /\ UNCHANGED <<published, disk, approved, guard, offer, waiting, dismissed, page,
                   shown, past>>

Scans(t) ==
    \/ ScanRecovers(t) \/ ScanChecksGame(t) \/ ScanReads(t) \/ ScanDecides(t)
    \/ ScanFails(t) \/ ScanVerifies(t) \/ ScanPrompts(t)

-----------------------------------------------------------------------------
(* An operation in thread t, under the guard.                              *)

(* The guard is dropped, then the thread has a screen to write. *)
Release(t, next) == guard' = FALSE /\ Become(t, Report(next))

(* run_update forgets an approval that did not finish an update, after any *)
(* failure that is not a missing authorization.  Forgets: any approval.    *)
FailureScreen(t) ==
    CASE job[t].task = "game" -> "gameFailed"
      [] job[t].task = "update" -> "updateFailed"
      [] OTHER -> "installFailed"
OperationForgets(t) ==
    /\ Release(t, FailureScreen(t))
    /\ approved' = IF job[t].task = "update" THEN 0 ELSE approved
OperationFails(t) ==
    /\ Release(t, FailureScreen(t))
    /\ approved' = IF job[t].task = "update" /\ ~job[t].finishes THEN 0 ELSE approved

(* do_game_update: the approval is on the disk before the game changes.    *)
GameFetched(t) ==
    /\ At(t, "game", "fetch")
    /\ approved' = job[t].version /\ Go(t, "stage")
    /\ UNCHANGED <<published, disk, session, memory, view, past, faults>>

(* run_update restores the layers first.  Without Content there is nothing *)
(* to update, and the whole archive is asked for (request_content_archive).*)
(* Unchecked: the update goes on.                                          *)
UpdateRecoversUnchecked(t) ==
    /\ At(t, "update", "start")
    /\ disk' = AllRecovered /\ Go(t, "fetch")
    /\ UNCHANGED <<published, approved, session, memory, view, past, faults>>

UpdateRecovers(t) ==
    /\ At(t, "update", "start")
    /\ \/ /\ RecoveryFails /\ Release(t, "updateFailed")
          /\ UNCHANGED pending
       \/ /\ disk' = AllRecovered /\ UNCHANGED <<unrestored, faults>>
          /\ IF ~ContentPresent'
             THEN Release(t, "choices") /\ pending' = NoPending
             ELSE Go(t, "fetch") /\ UNCHANGED <<guard, pending>>
    /\ UNCHANGED <<published, approved, session, offer, waiting, dismissed, page,
                   view, player>>

(* do_update and install_content fetch the manifest with the session's     *)
(* token; the archive has to be the one of the installed game.             *)
ContentFetched(t) ==
    /\ At(t, "update", "fetch") \/ At(t, "install", "fetch")
    /\ session
    /\ IF job[t].task = "update" THEN ContentPresent ELSE job[t].version = Game
    /\ Go(t, "stage")
    /\ UNCHANGED <<published, store, memory, view, past, faults>>

(* What they fetched cannot be installed. *)
ContentRefused(t) ==
    /\ \/ At(t, "update", "fetch") /\ ~ContentPresent
       \/ At(t, "install", "fetch") /\ job[t].version # Game
    /\ OperationFails(t)
    /\ UNCHANGED <<published, disk, session, offer, pending, waiting, dismissed, page,
                   view, past, faults>>

(* The server wants a new authorization: what waits for it is kept.        *)
AuthorizationRequired(t) ==
    /\ job[t].task \in {"update", "install"} /\ job[t].at \in {"fetch", "stage"}
    /\ IF session THEN Fault ELSE UNCHANGED faults
    /\ session' = FALSE
    /\ Release(t, IF job[t].task = "update" THEN SignInScreen(job[t].finishes) ELSE "signIn")
    /\ UNCHANGED <<published, disk, approved, offer, pending, waiting, dismissed, page,
                   view, past>>

(* The archive's address has expired, or its release is gone. *)
ArchiveGone(t) ==
    /\ At(t, "install", "fetch")
    /\ Fault
    /\ Release(t, "signIn") \/ Release(t, "retired")
    /\ UNCHANGED <<published, store, offer, pending, waiting, dismissed, page,
                   view, past>>

(* Any other failure of the network before the apply. *)
FetchFails(t) ==
    /\ Operating(t) /\ job[t].at = "fetch"
    /\ Fault
    /\ OperationFails(t)
    /\ UNCHANGED <<published, disk, session, offer, pending, waiting, dismissed, page,
                   view, past>>

(* The apply (apply_verified_with_metadata) on the operation's layer. *)
Stage(t) ==
    /\ Operating(t) /\ job[t].at = "stage"
    /\ disk' = [disk EXCEPT ![LayerOf(t)] = [Recovered(@) EXCEPT !.scratch = "staged"]]
    /\ Go(t, "commit")
    /\ UNCHANGED <<published, approved, session, memory, view, past, faults>>

Commit(t) ==
    /\ Operating(t) /\ job[t].at = "commit"
    /\ disk[LayerOf(t)].scratch = "staged"
    /\ \E version \in {disk[LayerOf(t)].now.version, job[t].version} :
           disk' = [disk EXCEPT ![LayerOf(t)] =
                        [now |-> [version |-> version, files |-> "mixed"],
                         scratch |-> "record", backup |-> @.now]]
    /\ Go(t, "complete")
    /\ UNCHANGED <<published, approved, session, memory, view, past, faults>>

Complete(t) ==
    /\ Operating(t) /\ job[t].at = "complete"
    /\ disk[LayerOf(t)].scratch = "record"
    /\ disk' = [disk EXCEPT ![LayerOf(t)].now = [version |-> job[t].version, files |-> "whole"]]
    /\ Go(t, "finish")
    /\ UNCHANGED <<published, approved, session, memory, view, past, faults>>

(* The apply is over.  A game update goes on with the Content of the same  *)
(* release (run_game_update), under the same guard.                        *)
Finish(t) ==
    /\ Operating(t) /\ job[t].at = "finish"
    /\ disk[LayerOf(t)].scratch = "record"
    /\ disk' = [disk EXCEPT ![LayerOf(t)] = Settled(@.now)]
    /\ IF job[t].task = "game"
       THEN /\ pending' = Update(job[t].version, TRUE)
            /\ Become(t, Operation("update", job[t].version, TRUE))
       ELSE Go(t, "settle") /\ UNCHANGED pending
    /\ UNCHANGED <<published, approved, session, guard, offer, waiting, dismissed, page,
                   view, past, faults>>

(* The transaction is not what the apply left: somebody else recovered it. *)
TransactionLost(t) ==
    \/ job[t].at = "commit" /\ disk[LayerOf(t)].scratch # "staged"
    \/ job[t].at \in {"complete", "finish"} /\ disk[LayerOf(t)].scratch # "record"

(* The apply fails, and restores the layer; a failed restoration leaves    *)
(* the record to the next recovery.                                        *)
ApplyFails(t) ==
    /\ Operating(t) /\ job[t].at \in {"stage", "commit", "complete", "finish"}
    /\ \/ TransactionLost(t) /\ UNCHANGED <<disk, unrestored, faults>>
       \/ /\ Fault
          /\ \/ /\ disk' = [disk EXCEPT ![LayerOf(t)] = Recovered(@)]
                /\ UNCHANGED unrestored
             \/ /\ job[t].at \in {"complete", "finish"} /\ unrestored' = TRUE
                /\ UNCHANGED disk
    /\ OperationFails(t)
    /\ UNCHANGED <<published, session, offer, pending, waiting, dismissed, page,
                   view, player>>

(* The operation has succeeded. *)
Settles(t) ==
    /\ Operating(t) /\ job[t].at = "settle"
    /\ IF job[t].task = "update"
       THEN approved' = 0 /\ Release(t, "upToDate")
       ELSE /\ guard' = FALSE /\ Become(t, [Idle EXCEPT !.task = "launch"])
            /\ UNCHANGED approved
    /\ UNCHANGED <<published, disk, session, offer, pending, waiting, dismissed, page,
                   view, past, faults>>

Operates(t) ==
    \/ GameFetched(t) \/ UpdateRecovers(t) \/ ContentFetched(t) \/ ContentRefused(t)
    \/ AuthorizationRequired(t) \/ ArchiveGone(t) \/ FetchFails(t)
    \/ Stage(t) \/ Commit(t) \/ Complete(t) \/ Finish(t) \/ ApplyFails(t) \/ Settles(t)

-----------------------------------------------------------------------------
(* After the guard.                                                        *)

Reports(t) ==
    /\ job[t].task = "report"
    /\ End(t)
    /\ IF job[t].next = "choices" THEN ShowChoices ELSE Write(job[t].next) /\ UNCHANGED page
    /\ UNCHANGED <<published, store, guard, offer, pending, waiting, dismissed,
                   shown, past, faults>>

(* launch_player, for a click in the main thread or after an installation, *)
(* does not hold the guard: the layers are recovered,                      *)
LaunchRecovers(t) ==
    /\ At(t, "launch", "start")
    /\ approved' = 0
    /\ \/ disk' = AllRecovered /\ Go(t, "decide") /\ UNCHANGED <<screen, unrestored, faults>>
       \/ RecoveryFails /\ Write("launchFailed") /\ End(t)
    /\ UNCHANGED <<published, session, memory, shown, player>>

(* then what they hold is compared, and the launcher exits.                *)
LaunchDecides(t) ==
    /\ At(t, "launch", "decide")
    /\ \/ Launchable /\ player' = Game /\ Exit
       \/ /\ ~Launchable \/ disk["content"].now.files = "mixed"
          /\ Write("launchFailed") /\ End(t) /\ UNCHANGED <<memory, shown, player>>
    /\ UNCHANGED <<published, store, unrestored, faults>>

Launches(t) == LaunchRecovers(t) \/ LaunchDecides(t)

Works(t) == Scans(t) \/ Operates(t) \/ Reports(t) \/ Launches(t)

-----------------------------------------------------------------------------
(* The user, on the main thread.                                           *)

Play ==
    /\ waiting' = FALSE
    /\ Become(Main, [Idle EXCEPT !.task = "launch"])
    /\ UNCHANGED <<published, store, guard, offer, pending, dismissed, page, view, past, faults>>

GameUpdateChosen ==
    /\ StartGameUpdate(waiting)
    /\ UNCHANGED <<published, store, offer, pending, dismissed, page, shown, past, faults>>

SkipGameUpdate ==
    /\ waiting' = FALSE /\ dismissed' = TRUE /\ offer' = 0
    /\ StartScan("read")
    /\ UNCHANGED <<published, store, pending, page, shown, past, faults>>

RetryUpdateCheck ==
    /\ StartScan("start")
    /\ UNCHANGED <<published, store, offer, pending, waiting, dismissed, page,
                   shown, past, faults>>

InstallChosen ==
    /\ IF pending.kind = "install" THEN StartInstall
       ELSE Write("signIn") /\ UNCHANGED <<guard, job>>
    /\ UNCHANGED <<published, store, offer, pending, waiting, dismissed, page,
                   shown, past, faults>>

(* Unchecked: an update is started whatever is pending. *)
UpdateChosenUnchecked ==
    /\ StartUpdate
    /\ UNCHANGED <<published, store, offer, pending, waiting, dismissed, page,
                   shown, past, faults>>

UpdateChosen ==
    /\ IF pending.kind = "update" THEN StartUpdate ELSE StartScan("start")
    /\ UNCHANGED <<published, store, offer, pending, waiting, dismissed, page,
                   shown, past, faults>>

Back ==
    /\ waiting' = FALSE
    /\ IF ContentPresent
       THEN /\ returning' = FALSE /\ scanPending' = TRUE /\ loading' = TRUE
            /\ Write("busy") /\ UNCHANGED asked
       ELSE Write("signIn") /\ UNCHANGED page
    /\ UNCHANGED <<published, store, guard, offer, pending, dismissed, job, shown, past, faults>>

SignIn ==
    /\ ShowChoices
    /\ UNCHANGED <<published, store, guard, offer, pending, waiting, dismissed,
                   job, shown, past, faults>>

(* The gate is asked for the archive of the installed game. *)
ChooseProvider ==
    /\ asked' = Game /\ loading' = FALSE /\ Write("gate")
    /\ UNCHANGED <<published, store, guard, offer, pending, waiting, dismissed, returning,
                   scanPending, job, shown, past, faults>>

Choices == {"play", "game-update", "skip-game-update", "retry-update-check", "install",
            "update", "back", "signin", "provider", "quit"}

(* on_choice ignores the buttons while an operation runs. *)
Choose(choice) ==
    /\ choice \in Buttons[shown]
    /\ MainIsFree /\ ~guard
    /\ \/ choice = "play" /\ Play
       \/ choice = "game-update" /\ GameUpdateChosen
       \/ choice = "skip-game-update" /\ SkipGameUpdate
       \/ choice = "retry-update-check" /\ RetryUpdateCheck
       \/ choice = "install" /\ InstallChosen
       \/ choice = "update" /\ UpdateChosen
       \/ choice = "back" /\ Back
       \/ choice = "signin" /\ SignIn
       \/ choice = "provider" /\ ChooseProvider
       \/ choice = "quit" /\ Exit /\ UNCHANGED <<published, store, past, faults>>

(* on_gate_result: an archive is only remembered when no update waits for  *)
(* the authorization.                                                      *)
GateAnswers ==
    /\ MainIsFree
    /\ screen = "gate" /\ shown = "gate"
    /\ asked' = 0
    /\ \/ /\ session' = TRUE /\ returning' = TRUE /\ loading' = TRUE /\ Write("busy")
          /\ pending' = IF pending.kind # "update" /\ ~waiting
                        THEN FirstInstall(asked) ELSE pending
          /\ UNCHANGED faults
       \/ Fault /\ Write("signIn") /\ UNCHANGED <<session, returning, loading, pending>>
    /\ UNCHANGED <<published, scanPending, disk, approved, guard, offer, waiting, dismissed,
                   job, shown, past>>

(* resume_after_gate: what the authorization was for goes on. *)
ResumeAfterGate ==
    IF waiting THEN StartGameUpdate(FALSE)
    ELSE /\ UNCHANGED waiting
         /\ IF pending.kind = "install" /\ approved = Game THEN StartInstall
            ELSE IF pending.kind = "update" THEN StartUpdate
            ELSE StartScan("start")

(* on_page_load of the bundled page. *)
PageLoads ==
    /\ MainIsFree
    /\ loading /\ loading' = FALSE
    /\ \/ /\ returning /\ returning' = FALSE /\ UNCHANGED scanPending
          /\ ResumeAfterGate
       \/ /\ ~returning /\ scanPending /\ scanPending' = FALSE /\ UNCHANGED returning
          /\ StartScan("start") /\ UNCHANGED waiting
    /\ UNCHANGED <<published, store, offer, pending, dismissed, asked, shown, past, faults>>

(* The launcher starts: layers recovered, the token read unless it has     *)
(* expired, sign-in for a first installation or a repair, else a scan.     *)
Open ==
    /\ screen = "closed"
    /\ player' = 0
    /\ \/ disk' = AllRecovered /\ UNCHANGED <<session, unrestored, faults>>
       \/ disk' = AllRecovered /\ Fault /\ session' = FALSE /\ UNCHANGED unrestored
       \/ RecoveryFails /\ UNCHANGED session
    /\ \/ Write("choices") /\ UNCHANGED <<scanPending, loading>>
       \/ ContentPresent' /\ Write("busy") /\ scanPending' = TRUE /\ loading' = TRUE
    /\ UNCHANGED <<published, approved, guard, offer, pending, waiting, dismissed, returning,
                   asked, job, shown>>

-----------------------------------------------------------------------------
(* The rest of the world.                                                  *)

(* The window shows what has been written. *)
Render ==
    /\ shown # screen /\ shown' = screen
    /\ UNCHANGED <<published, store, memory, job, screen, past, faults>>

Publish ==
    /\ published < LastRelease /\ published' = published + 1
    /\ UNCHANGED <<store, memory, job, view, past, faults>>

(* Something else damages or deletes the Content the launcher has to keep. *)
Damage ==
    /\ player = 0
    /\ disk["content"].scratch = "none" /\ disk["content"].now.files \in {"whole", "unverified"}
    /\ Fault
    /\ \E left \in {Absent, [version |-> Content, files |-> "damaged"]} :
           disk' = [disk EXCEPT !["content"].now = left]
    /\ UNCHANGED <<published, approved, session, memory, job, view, past>>

(* A window that leads nowhere, without a button or with only a launch     *)
(* that has failed, is closed.                                             *)
Close ==
    /\ shown \in {"retired", "launchFailed"} /\ shown = screen
    /\ \A t \in Threads \cup {Main} : job[t] = Idle
    /\ Exit
    /\ UNCHANGED <<published, store, past, faults>>

(* Any other is closed, or the process killed, at any moment. *)
Kill ==
    /\ screen # "closed"
    /\ Fault
    /\ Exit
    /\ UNCHANGED <<published, store, past>>

World ==
    \/ Open \/ Render \/ GateAnswers \/ PageLoads
    \/ Publish \/ Damage \/ Close \/ Kill

Next ==
    \/ World
    \/ Launches(Main) \/ \E t \in Threads : Works(t)
    \/ \E choice \in Choices : Choose(choice)

Spec == Init /\ [][Next]_vars

(* The button a user who wants the game up to date clicks.                 *)
First ==
    [s \in Screens |->
        CASE s = "choices" -> "provider"
          [] s \in {"gameOffer", "gameFailed"} -> "game-update"
          [] s \in {"updateOffer", "updateFailed"} -> "update"
          [] s \in {"checkFailed", "checkFailedPlayable"} -> "retry-update-check"
          [] s \in {"signIn", "updateSignIn", "requiredSignIn"} -> "signin"
          [] s \in {"readyToInstall", "installFailed"} -> "install"
          [] s = "launchFailed" -> "none"
          [] OTHER -> "play"]

AnswerScreen == Choose(First[shown])
AnswerOtherwise == \E choice \in Choices \ {First[shown]} : Choose(choice)

(* Threads run, pages load, the gate answers, and the user opens the       *)
(* launcher, closes a window that leads nowhere, and does not leave the    *)
(* first button unused for ever.  Nobody has to publish, and nothing has   *)
(* to fail.                                                                *)
Fairness ==
    /\ WF_vars(Launches(Main)) /\ \A t \in Threads : WF_vars(Works(t))
    /\ WF_vars(Open) /\ WF_vars(Render) /\ WF_vars(GateAnswers) /\ WF_vars(PageLoads)
    /\ WF_vars(Close) /\ WF_vars(AnswerScreen)

FairSpec == Spec /\ Fairness

-----------------------------------------------------------------------------
(* Properties.                                                             *)

(* The game is only started with its own Content, neither of them with a   *)
(* transaction that is still open (launch_player), unless an operation has *)
(* taken the guard since the click: the launch itself takes no guard.      *)
LaunchCoherent ==
    [][ player' \notin {player, 0} /\ ~guard /\ ~unrestored =>
            /\ Game = Content
            /\ \A l \in Layers : disk[l].scratch # "record" /\ disk[l].now.files # "mixed" ]_vars

(* Content follows the game: a scan only asks for Content of the installed *)
(* game, whatever release has been published, an update of both starts     *)
(* with the game (content_release_for_application, run_game_update), and   *)
(* what the launcher remembers to install, across sign-ins, failures and   *)
(* retries, is of the version of the installed game whenever an operation  *)
(* may start with it (PENDING).                                            *)
ContentFollowsGame ==
    ~unrestored =>
        /\ Content <= Game
        /\ pending.kind # "none" /\ ~guard => pending.version = Game

(* While Content is behind the game because an approved update was not     *)
(* finished, the approval is kept: through crashes, failures, expired      *)
(* sessions and scans.  Two steps forget it: a launch, which starts the    *)
(* game instead, and a scan while a first install is remembered from a     *)
(* sign-in of this process, which offers the whole archive, of the         *)
(* installed game, instead of an update (scan_content_and_prompt).         *)
ApprovalKept ==
    [][ /\ \A l \in Layers : disk[l].scratch = "none"
        /\ approved = Game /\ ContentPresent /\ Content # Game
        /\ Game' = Game /\ Content' = Content /\ approved' = 0
        => \/ \E t \in Threads \cup {Main} : LaunchRecovers(t)
           \/ /\ \E t \in Threads : ScanDecides(t)
              /\ pending.kind = "install" /\ (unrestored \/ pending.version = Game) ]_vars

(* The operation guard is held by exactly one operation. *)
OneOperation ==
    /\ \A t, u \in Threads : Operating(t) /\ Operating(u) => t = u
    /\ guard <=> \E t \in Threads : Operating(t)

(* While an operation holds the guard, "exclusive access to all on-disk    *)
(* installation and update state" (main.rs:231), only its own steps change *)
(* the layers.                                                             *)
ExclusiveAccess ==
    [][ \A t \in Threads :
            Operating(t) /\ job'[t] = job[t] => disk' = disk \/ Damage ]_vars

(* Whenever the user has to wait, something to click follows, or the       *)
(* window closes.                                                          *)
Answered == screen = "busy" ~> Buttons[shown] # {} \/ screen \in {"closed", "gate", "retired"}

(* A user who from some moment on only clicks the first button gets to the *)
(* published game and its Content, whatever failed on the way there; and   *)
(* again after every repair.                                               *)
UpToDate == Game = published /\ Content = published /\ disk["content"].now.files = "whole"
Converges == <>[][~AnswerOtherwise]_vars => []<>(unrestored \/ UpToDate)
=============================================================================
