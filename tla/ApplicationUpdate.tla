------------------------- MODULE ApplicationUpdate -------------------------
(***************************************************************************)
(* The combined update of the Windows installations that predate the       *)
(* channels of the game and of the launcher (main.rs,                      *)
(* check_application_update to do_application_update): one signed release  *)
(* replaces the player, the helper and the launcher, the Content follows   *)
(* in a transaction of its own, and the release is recorded by the helper  *)
(* that puts its launcher in place.  Until then its version is known by    *)
(* pending files, which the launcher-only update and the start-up discard. *)
(*                                                                         *)
(* An apply is one step here: it takes effect or, after the next recovery, *)
(* does not (UpdateTransaction).  One process runs at a time, because of   *)
(* the installation lock (LauncherHandoff), and one thread of it works     *)
(* while no choice is shown (InstallFlow).  The channel of the game cannot *)
(* be read: it is what makes the launcher ask for the combined one.        *)
(***************************************************************************)
EXTENDS Integers

CONSTANTS Last,      \* the releases are 1 .. Last
          MaxFaults, \* bound on the failures, kills and losses of a behaviour
          Losable    \* the files something else may delete, such as a virus scanner

ASSUME LimitsAreNatural == Last \in Nat \ {0} /\ MaxFaults \in Nat

Releases == 1 .. Last
Absent == 0
Channels == {"launcher", "application"}

Layers == {"game", "helper", "launcher", "content"}
Metadata == {"launcherVersion", "manifest", "version"}
Pending == {"staged", "pendingLauncher", "pendingManifest", "pendingVersion"}
Files == Layers \cup Metadata \cup Pending \cup {"approved", "resume"}

(* Not the pending version: without it nothing says which player there is.  *)
ASSUME LosableArePending == Losable \subseteq Pending \ {"pendingVersion"}

VARIABLES published, \* the newest release of the launcher's and the combined channel
          disk,      \* the release each file is of, or names
          at,        \* what the running process does; "open" with a screen
          screen,    \* the choices it offers
          offer,     \* PENDING_LAUNCHER_UPDATE and PENDING_APPLICATION_UPDATE
          pending,   \* PENDING: the Content to install
          dismissed, \* APPLICATION_UPDATE_DISMISSED
          session,   \* whether SESSION has a token
          auth,      \* APPLICATION_UPDATE_AUTH_PENDING
          player,    \* history: what was launched last
          discarded, \* history: the version of the installed player was discarded
          faults

decided == <<offer, pending, dismissed, session, auth>>
past == <<player, discarded>>
vars == <<published, disk, at, screen, decided, past, faults>>

Scanning == {"scan", "scan game", "scan content"}
Operating == {"prepare", "approve", "commit", "content", "launcher", "restart"}
Helping == {"replace", "promote launcher", "promote manifest", "promote version"}

Choices == {"play", "launcher-update", "skip-launcher-update", "restart-launcher",
            "application-update", "skip-application-update", "update", "signin",
            "retry-update-check"}

TypeOK ==
    /\ published \in [Channels -> Releases]
    /\ disk \in [Files -> 0 .. Last]
    /\ \A f \in Layers : disk[f] # Absent
    /\ disk.pendingLauncher = Absent \/ disk.pendingVersion = Absent
    /\ at \in {"closed", "start", "open"} \cup Scanning \cup Operating \cup Helping
    /\ screen \subseteq Choices
    /\ at = "open" <=> screen # {}
    /\ offer \in [Channels -> 0 .. Last]
    /\ pending \in 0 .. Last
    /\ dismissed \in BOOLEAN /\ session \in BOOLEAN /\ auth \in BOOLEAN
    /\ player \in [game : 0 .. Last, content : 0 .. Last]
    /\ discarded \in BOOLEAN
    /\ faults \in 0 .. MaxFaults

NoOffer == [channel \in Channels |-> Absent]

(* An installation of the first release; there was no file for the version *)
(* of the launcher then.                                                   *)
Init ==
    /\ published = [channel \in Channels |-> 1]
    /\ disk = [f \in Files |->
                 IF f \in Layers \cup {"manifest", "version"} THEN 1 ELSE Absent]
    /\ at = "closed" /\ screen = {}
    /\ offer = NoOffer /\ pending = Absent
    /\ dismissed = FALSE /\ session \in BOOLEAN /\ auth = FALSE
    /\ player = [game |-> Absent, content |-> Absent] /\ discarded = FALSE
    /\ faults = 0

-----------------------------------------------------------------------------
(* What the launcher reads.                                                *)

(* pending_application_game_version, then the version that is recorded.    *)
CurrentGame ==
    IF disk.pendingVersion # Absent /\ disk.pendingManifest = disk.pendingVersion
    THEN disk.pendingVersion ELSE disk.version

CurrentLauncher == IF disk.launcherVersion # Absent THEN disk.launcherVersion ELSE disk.launcher

Fault == faults < MaxFaults /\ faults' = faults + 1
NoFault == UNCHANGED faults

Busy(step) == at' = step /\ screen' = {}
Shows(choices) == at' = "open" /\ screen' = choices
Chosen(choice) == at = "open" /\ choice \in screen

-----------------------------------------------------------------------------
(* The start: hand_off_pending_launcher_update.                            *)

(* recover_completed_launcher_handoff: what the promoted files are of.     *)
PendingOr(name, installed) == IF disk[name] # Absent THEN disk[name] ELSE disk[installed]

HasApplication == disk.pendingManifest # Absent \/ disk.pendingVersion # Absent

LauncherIsPromoted ==
    /\ ~HasApplication
    /\ disk.launcher = disk.pendingLauncher /\ disk.helper = disk.pendingLauncher

Completed == PendingOr("pendingManifest", "manifest")

ApplicationIsPromoted ==
    /\ disk.pendingLauncher = Absent
    /\ Completed = PendingOr("pendingVersion", "version")
    /\ disk.launcher = Completed /\ disk.helper = Completed

(* Faulty: the release is recorded whatever Content there is. *)
ContentIsIgnored(release) == disk.content \in Releases

(* Whether the Content of a combined update has been installed.            *)
ContentIsReady(release) == disk.content = release

(* staged_launcher_update_state *)
Superseded ==
    /\ disk.launcherVersion # Absent /\ disk.pendingLauncher <= disk.launcherVersion
    /\ disk.launcher = disk.launcherVersion /\ disk.helper = disk.launcherVersion

StagedLauncherIs(release) == disk.staged = release /\ disk.helper = release

LauncherIsStaged ==
    /\ disk.pendingLauncher # Absent /\ ~HasApplication
    /\ ~Superseded /\ StagedLauncherIs(disk.pendingLauncher)

ApplicationIsStaged ==
    /\ disk.pendingLauncher = Absent
    /\ disk.pendingManifest # Absent /\ disk.pendingManifest = disk.pendingVersion
    /\ StagedLauncherIs(disk.pendingManifest)

(* The continuation of a launcher that restarted: only a combined update   *)
(* that was dismissed matters in it.  A cached token may have expired.     *)
Begins(files) ==
    /\ disk' = [files EXCEPT !.resume = Absent]
    /\ dismissed' = (disk.resume # Absent /\ disk.resume = CurrentLauncher')
    /\ session' \in {session, FALSE}
    /\ Busy("scan")
    /\ UNCHANGED <<published, offer, pending, auth, player>>

Open ==
    /\ at = "closed"
    /\ Busy("start")
    /\ UNCHANGED <<published, disk, decided, past, faults>>

(* A staged launcher that is ready is left to the helper. *)
HandOff ==
    /\ at = "start" /\ disk.staged # Absent
    /\ LauncherIsStaged \/ (ApplicationIsStaged /\ ContentIsReady(disk.pendingVersion))
    /\ Busy("replace")
    /\ UNCHANGED <<published, disk, decided, past, faults>>

(* Nothing to do, or an update whose Content is still missing. *)
Resume ==
    /\ at = "start"
    /\ \/ disk.staged # Absent /\ ApplicationIsStaged /\ ~ContentIsReady(disk.pendingVersion)
       \/ /\ disk.staged = Absent /\ HasApplication
          /\ ApplicationIsPromoted /\ ~ContentIsReady(Completed)
       \/ disk.staged = Absent /\ ~HasApplication /\ disk.pendingLauncher = Absent
    /\ Begins(disk)
    /\ UNCHANGED <<discarded, faults>>

Promoted(files, name, installed) ==
    IF files[name] = Absent THEN files
    ELSE [files EXCEPT ![installed] = files[name], ![name] = Absent]

ManifestPromoted(files) == Promoted(files, "pendingManifest", "manifest")

(* The helper was cut off after it had replaced the launcher. *)
Adopt ==
    /\ at = "start" /\ disk.staged = Absent
    /\ \/ /\ disk.pendingLauncher # Absent /\ LauncherIsPromoted
          /\ Begins(Promoted(disk, "pendingLauncher", "launcherVersion")) /\ NoFault
       \/ /\ HasApplication /\ ApplicationIsPromoted /\ ContentIsReady(Completed)
          /\ \/ /\ Begins(Promoted(ManifestPromoted(disk), "pendingVersion", "version"))
                /\ NoFault
             \/ Begins(ManifestPromoted(disk)) /\ Fault
    /\ UNCHANGED discarded

(* What Windows loses with the pending files of a combined update. *)
Forgets == discarded' = (discarded \/ disk.game # disk.version)

(* clear_incomplete_launcher_update *)
Discard ==
    /\ at = "start"
    /\ IF disk.staged = Absent
       THEN \/ disk.pendingLauncher # Absent /\ ~LauncherIsPromoted
            \/ HasApplication /\ ~ApplicationIsPromoted
       ELSE ~LauncherIsStaged /\ ~ApplicationIsStaged
    /\ \E kept \in SUBSET Pending :
          /\ IF kept = {} THEN NoFault ELSE Fault
          /\ Begins([f \in Files |-> IF f \in Pending \ kept THEN Absent ELSE disk[f]])
    /\ Forgets

(* An error on the way, or a helper that cannot be started. *)
GiveUp ==
    /\ at = "start"
    /\ Fault /\ Begins(disk)
    /\ UNCHANGED discarded

-----------------------------------------------------------------------------
(* The helper: complete_update.                                            *)

HelperOnly == UNCHANGED <<published, screen, decided, past, faults>>

ReplaceLauncher ==
    /\ at = "replace"
    /\ disk' = [disk EXCEPT !.launcher = disk.staged, !.staged = Absent]
    /\ at' = "promote launcher" /\ HelperOnly

PromoteLauncher ==
    /\ at = "promote launcher"
    /\ disk' = Promoted(disk, "pendingLauncher", "launcherVersion")
    /\ at' = "promote manifest" /\ HelperOnly

PromoteManifest ==
    /\ at = "promote manifest"
    /\ disk' = ManifestPromoted(disk)
    /\ at' = "promote version" /\ HelperOnly

PromoteVersion ==
    /\ at = "promote version"
    /\ disk' = Promoted(disk, "pendingVersion", "version")
    /\ at' = "start" /\ HelperOnly

-----------------------------------------------------------------------------
(* The scan, after a recovery; a channel may always be unreadable.         *)

ScanLauncher ==
    /\ at = "scan"
    /\ \/ /\ published.launcher > CurrentLauncher
          /\ offer' = [offer EXCEPT !.launcher = published.launcher]
          /\ Shows({"launcher-update", "skip-launcher-update"})
       \/ Busy("scan game") /\ UNCHANGED offer
    /\ UNCHANGED <<published, disk, pending, dismissed, session, auth, past, faults>>

(* check_application_update *)
ScanApplication ==
    /\ at = "scan game"
    /\ \/ /\ ~dismissed /\ published.application > CurrentGame
          /\ offer' = [offer EXCEPT !.application = published.application]
          /\ Shows({"application-update", "skip-application-update"})
       \/ Busy("scan content") /\ UNCHANGED offer
    /\ UNCHANGED <<published, disk, pending, dismissed, session, auth, past, faults>>

Approves(release) == disk' = [disk EXCEPT !.approved = release]

(* scan_content_and_prompt: the release asked for is that of the game.     *)
ScanContentFails ==
    /\ at = "scan content"
    /\ Shows({"retry-update-check"}
               \cup (IF disk.content = CurrentGame THEN {"play"} ELSE {}))
    /\ UNCHANGED <<published, disk, decided, past, faults>>

ScanContent ==
    /\ at = "scan content"
    /\ UNCHANGED <<published, offer, dismissed, auth, past, faults>>
    /\ \/ /\ disk.content = CurrentGame
          /\ Approves(Absent) /\ Shows({"play"})
          /\ UNCHANGED <<pending, session>>
       \/ /\ disk.content # CurrentGame /\ disk.approved = CurrentGame
          /\ pending' = CurrentGame
          /\ IF session THEN Busy("content") ELSE Shows({"signin"})
          /\ UNCHANGED <<disk, session>>
       \/ /\ disk.content # CurrentGame /\ disk.approved # CurrentGame
          /\ Approves(Absent) /\ pending' = CurrentGame
          /\ session' \in {session, FALSE}
          /\ Shows(IF session' THEN {"update", "play"} ELSE {"signin"})

-----------------------------------------------------------------------------
(* The choices.                                                            *)

SkipLauncher ==
    /\ Chosen("skip-launcher-update")
    /\ offer' = [offer EXCEPT !.launcher = Absent]
    /\ Busy("scan game")
    /\ UNCHANGED <<published, disk, pending, dismissed, session, auth, past, faults>>

SkipApplication ==
    /\ Chosen("skip-application-update")
    /\ auth' = FALSE /\ dismissed' = TRUE
    /\ Approves(Absent)
    /\ Busy("scan content")
    /\ UNCHANGED <<published, offer, pending, session, past, faults>>

Retry ==
    /\ Chosen("retry-update-check")
    /\ Busy("scan")
    /\ UNCHANGED <<published, disk, decided, past, faults>>

(* begin_application_update_or_request_authorization *)
StartApplication ==
    /\ Chosen("application-update")
    /\ IF session THEN Busy("prepare") /\ UNCHANGED auth
       ELSE auth' = TRUE /\ Shows({"signin", "play"})
    /\ UNCHANGED <<published, disk, offer, pending, dismissed, session, past, faults>>

(* on_gate_result and resume_after_gate *)
SignIn ==
    /\ Chosen("signin")
    /\ session' = TRUE /\ auth' = FALSE
    /\ Busy(IF auth THEN "prepare" ELSE IF pending # Absent THEN "content" ELSE "scan")
    /\ UNCHANGED <<published, disk, offer, pending, dismissed, past, faults>>

Back ==
    /\ Chosen("signin")
    /\ auth' = FALSE
    /\ Busy("scan")
    /\ UNCHANGED <<published, disk, offer, pending, dismissed, session, past, faults>>

Update ==
    /\ Chosen("update")
    /\ Busy(IF pending # Absent THEN "content" ELSE "scan")
    /\ UNCHANGED <<published, disk, decided, past, faults>>

StartLauncherUpdate ==
    /\ Chosen("launcher-update")
    /\ Busy(IF offer.launcher # Absent THEN "launcher" ELSE "scan")
    /\ UNCHANGED <<published, disk, decided, past, faults>>

StartRestart ==
    /\ Chosen("restart-launcher")
    /\ Busy("restart")
    /\ UNCHANGED <<published, disk, decided, past, faults>>

Closes == Busy("closed") /\ offer' = NoOffer /\ pending' = Absent
          /\ dismissed' = FALSE /\ auth' = FALSE

(* launch_player; what is launched is what is there. *)
Play ==
    /\ Chosen("play")
    /\ Approves(Absent)
    /\ IF disk.content = CurrentGame
       THEN /\ player' = [game |-> disk.game, content |-> disk.content]
            /\ Closes
       ELSE /\ auth' = FALSE /\ Shows({"play"})
            /\ UNCHANGED <<offer, pending, dismissed, player>>
    /\ UNCHANGED <<published, session, discarded, faults>>

-----------------------------------------------------------------------------
(* run_windows_application_update and run_update.                          *)

(* The Content's manifest is asked for before anything is changed. *)
Prepare ==
    /\ at = "prepare"
    /\ \/ Busy("approve") /\ NoFault /\ UNCHANGED <<session, auth>>
       \/ Fault /\ Shows({"skip-application-update"}) /\ UNCHANGED <<session, auth>>
       \/ /\ session' = FALSE /\ auth' = TRUE \* 401
          /\ Fault /\ Shows({"signin", "play"})
    /\ UNCHANGED <<published, disk, offer, pending, dismissed, past>>

ApplicationFails ==
    /\ Fault /\ Approves(Absent)
    /\ Shows({"application-update", "skip-application-update"})
    /\ UNCHANGED <<published, decided, past>>

Approve ==
    /\ at = "approve"
    /\ \/ /\ NoFault /\ Approves(offer.application)
          /\ Busy("commit")
          /\ UNCHANGED <<published, decided, past>>
       \/ ApplicationFails

(* Faulty: the release is not recorded before its Content is there. *)
CommittedUnrecorded(release) ==
    [disk EXCEPT !.game = release, !.helper = release, !.staged = release,
                 !.pendingManifest = release, !.pendingLauncher = Absent]

(* do_application_update: the launcher is staged when it is another one.   *)
Committed(release) ==
    LET same == disk.launcher = release /\ disk.manifest = release
    IN  [disk EXCEPT !.game = release, !.helper = release,
                     !.staged = IF same THEN Absent ELSE release,
                     !.pendingManifest = release, !.pendingVersion = release,
                     !.pendingLauncher = Absent]

Commit ==
    /\ at = "commit"
    /\ \/ /\ NoFault
          /\ disk' = Committed(offer.application)
          /\ pending' = offer.application
          /\ Busy("content")
          /\ UNCHANGED <<published, offer, dismissed, session, auth, past>>
       \/ ApplicationFails

UpdateContent ==
    /\ at = "content"
    /\ UNCHANGED <<published, offer, pending, dismissed, auth, past>>
    /\ \/ /\ NoFault
          /\ disk' = [disk EXCEPT !.content = pending, !.approved = Absent]
          /\ Shows({"play"}) /\ UNCHANGED session
       \/ Fault /\ Shows({"update"}) /\ UNCHANGED <<disk, session>>
       \/ Fault /\ session' = FALSE /\ Shows({"signin"}) /\ UNCHANGED disk

(* Faulty: the plan removes nothing. *)
LauncherStagedBeside(release) ==
    [disk EXCEPT !.helper = release, !.staged = release, !.pendingLauncher = release]

(* do_launcher_update: on Windows it discards a pending combined update.   *)
LauncherStaged(release) ==
    [disk EXCEPT !.helper = release, !.staged = release, !.pendingLauncher = release,
                 !.pendingManifest = Absent, !.pendingVersion = Absent]

UpdateLauncher ==
    /\ at = "launcher"
    /\ UNCHANGED <<published, pending, dismissed, session, auth, player>>
    /\ \/ /\ NoFault
          /\ disk' = LauncherStaged(offer.launcher)
          /\ Forgets
          /\ offer' = [offer EXCEPT !.launcher = Absent]
          /\ Busy("restart")
       \/ /\ Fault
          /\ Shows({"launcher-update", "skip-launcher-update"})
          /\ UNCHANGED <<disk, offer, discarded>>

(* restart_updated_launcher *)
Restart ==
    /\ at = "restart"
    /\ UNCHANGED <<published, session, past>>
    /\ \/ /\ LauncherIsStaged /\ NoFault
          /\ disk' = [disk EXCEPT !.resume = IF dismissed THEN disk.pendingLauncher ELSE Absent]
          /\ at' = "replace" /\ screen' = {} /\ offer' = NoOffer /\ pending' = Absent
          /\ dismissed' = FALSE /\ auth' = FALSE
       \/ /\ IF LauncherIsStaged THEN Fault ELSE NoFault
          /\ Shows({"restart-launcher"})
          /\ UNCHANGED <<disk, offer, pending, dismissed, auth>>

-----------------------------------------------------------------------------
Quit ==
    /\ at = "open"
    /\ Closes
    /\ UNCHANGED <<published, disk, session, past, faults>>

(* A process is killed, or the helper fails. *)
Kill ==
    /\ at \notin {"closed", "open"}
    /\ Fault /\ Closes
    /\ UNCHANGED <<published, disk, session, past>>

(* A file of an update that is not finished disappears. *)
Lose(file) ==
    /\ at = "closed" /\ disk[file] # Absent
    /\ Fault
    /\ disk' = [disk EXCEPT ![file] = Absent]
    /\ UNCHANGED <<published, at, screen, decided, past>>

Publish(channel) ==
    /\ published[channel] < Last
    /\ published' = [published EXCEPT ![channel] = @ + 1]
    /\ UNCHANGED <<disk, at, screen, decided, past, faults>>

Choose ==
    \/ SkipLauncher \/ SkipApplication \/ Retry \/ StartApplication \/ SignIn \/ Back
    \/ Update \/ StartLauncherUpdate \/ StartRestart \/ Play

Next ==
    \/ Open \/ HandOff \/ Resume \/ Adopt \/ Discard \/ GiveUp
    \/ ReplaceLauncher \/ PromoteLauncher \/ PromoteManifest \/ PromoteVersion
    \/ ScanLauncher \/ ScanApplication \/ ScanContent \/ ScanContentFails
    \/ Choose
    \/ Prepare \/ Approve \/ Commit \/ UpdateContent \/ UpdateLauncher \/ Restart
    \/ Quit \/ Kill
    \/ \E file \in Losable : Lose(file)
    \/ \E channel \in Channels : Publish(channel)

Spec == Init /\ [][Next]_vars

-----------------------------------------------------------------------------
(* Properties.                                                             *)

(* The version the launcher takes for the game's is that of the player it  *)
(* would start, however far a combined update has got.  Not once a launcher *)
(* update, or a start, has discarded the pending files; nor while only     *)
(* their manifest has been promoted.                                       *)
GameIsKnown ==
    ~discarded /\ (disk.pendingVersion # Absent => disk.pendingManifest # Absent) =>
        CurrentGame = disk.game

(* A combined release is recorded as installed in the end, by whoever gets *)
(* to it, only when all of it is there.                                    *)
RecordedWhole ==
    [][disk'.version # disk.version =>
          \A f \in Layers \cup {"manifest"} : disk'[f] = disk'.version]_vars

(* "Validates the installed player/content pair before starting a bundled  *)
(* Unity application" (launch_player): the game is started with the        *)
(* Content of its own release.                                             *)
LaunchedPair == [][player' # player => player'.game = player'.content]_vars
=============================================================================
