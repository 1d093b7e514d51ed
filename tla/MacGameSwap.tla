---------------------------- MODULE MacGameSwap ----------------------------
(***************************************************************************)
(* How an update replaces the game bundle inside the launcher's own bundle *)
(* on macOS: main.rs, install_macos_game_archive with the recovery at the  *)
(* next start, and what do_game_update, run_update and launch_player do    *)
(* with the versions around it.                                            *)
(*                                                                         *)
(* Directories are renamed, not committed under a transaction record: what *)
(* is left after a kill is told from which of them exist.  The versions    *)
(* are stored in a transaction of their own (UpdateTransaction), of which  *)
(* an open one is kept as the version it will put back.                    *)
(***************************************************************************)
EXTENDS Integers

CONSTANTS LastRelease, \* bound on the releases published
          MaxFaults    \* bound on failures and kills of a behaviour

ASSUME ReleasesArePositive == LastRelease \in Nat \ {0}
ASSUME FaultsAreNatural == MaxFaults \in Nat

VARIABLES published,  \* the release of the game channel
          game,       \* the nested bundle
          backup,     \* .game-update-backup
          staged,     \* the bundle in .game-update-staging
          sealed,     \* the bundle the signature of the outer one covers (Absent: none)
          record,     \* GAME_VERSION_FILE
          undo,       \* the version an open transaction puts back (Absent: none is open)
          content,    \* the version of Content
          at,         \* where the launcher is
          target,     \* the release being installed
          had,        \* had_installed_game
          player,     \* the bundle and the content launched last
          unrestored, \* history: an undo or a recovery has failed since the last update
          unrecorded, \* history: cut off between the swap and its record
          faults

bundles == <<game, backup, staged, sealed>>
versions == <<record, undo, content>>
operation == <<target, had>>
past == <<unrestored, unrecorded>>
vars == <<published, bundles, versions, at, operation, player, past, faults>>

Releases == 1 .. LastRelease
Absent == 0
Partial == -1
Bundles == Partial .. LastRelease
Whole(bundle) == bundle \in Releases

(* What is left of a bundle whose removal was cut off. *)
Remains(bundle) == IF bundle = Absent THEN {Absent} ELSE {bundle, Partial, Absent}

Steps == {"clean", "extract", "moveOut", "moveIn", "seal", "tidy", "store", "content"}
Swapped == {"seal", "tidy", "store"}

BundlesOK ==
    /\ game \in Bundles /\ backup \in Bundles /\ staged \in Bundles
    /\ sealed \in Bundles
TypeOK ==
    /\ published \in Releases
    /\ BundlesOK
    /\ record \in Releases /\ content \in Releases
    /\ undo \in 0 .. LastRelease
    /\ at \in Steps \cup {"closed", "idle"}
    /\ target \in Releases /\ had \in BOOLEAN
    /\ player \in [game : Bundles, content : 0 .. LastRelease]
    /\ unrestored \in BOOLEAN /\ unrecorded \in BOOLEAN
    /\ faults \in Nat
    /\ at \in {"moveOut", "moveIn"} => staged = target
    /\ at \in Swapped => game = target

Init ==
    /\ published = 1
    /\ game = 1 /\ backup = Absent /\ staged = Absent /\ sealed = 1
    /\ record = 1 /\ undo = Absent /\ content = 1
    /\ at = "closed" /\ target = 1 /\ had = FALSE
    /\ player = [game |-> Absent, content |-> 0]
    /\ unrestored = FALSE /\ unrecorded = FALSE
    /\ faults = 0

NoFault == UNCHANGED faults
Fault(n) == faults + n <= MaxFaults /\ faults' = faults + n
Goto(step) == at' = step

-----------------------------------------------------------------------------
(* Starting and launching.                                                 *)

(* recover_interrupted_apply, where the versions are. *)
RecoverRecord ==
    IF undo = Absent THEN UNCHANGED <<record, undo>>
    ELSE record' = undo /\ undo' = Absent

(* Faulty: what is left over is removed without looking for the game. *)
RecoverByCleaning == game' = game /\ backup' = Absent /\ staged' = Absent

(* recover_interrupted_macos_game_update *)
RecoverBundle ==
    /\ game' = IF backup # Absent /\ game = Absent THEN backup ELSE game
    /\ backup' = Absent
    /\ staged' = Absent

(* run: what could not be recovered is logged, and the start goes on. *)
Open ==
    /\ at = "closed" /\ Goto("idle")
    /\ RecoverRecord
    /\ RecoverBundle
    /\ NoFault
    /\ UNCHANGED <<published, sealed, content, operation, player, past>>

OpenUnrecovered ==
    /\ at = "closed" /\ Goto("idle")
    /\ backup # Absent \/ staged # Absent \/ undo # Absent
    /\ Fault(1)
    /\ RecoverRecord \/ UNCHANGED <<record, undo>>
    /\ backup' \in (IF game = Absent THEN {backup} ELSE Remains(backup))
    /\ unrestored' = TRUE
    /\ UNCHANGED <<published, game, staged, sealed, content, operation, player, unrecorded>>

(* Faulty: whatever is installed is launched. *)
LaunchUnchecked ==
    /\ at = "idle"
    /\ RecoverRecord
    /\ player' = [game |-> game, content |-> content] /\ Goto("closed")
    /\ UNCHANGED <<published, bundles, content, operation, past, faults>>

(* launch_player: the versions stored for the game and for Content match.  *)
(* Otherwise, and when there is no game, a message is shown instead.       *)
Launch ==
    /\ at = "idle"
    /\ RecoverRecord
    /\ IF record' = content /\ game # Absent
       THEN player' = [game |-> game, content |-> content] /\ Goto("closed")
       ELSE UNCHANGED <<player, at>>
    /\ UNCHANGED <<published, bundles, content, operation, past, faults>>

-----------------------------------------------------------------------------
(* do_game_update and install_macos_game_archive.                          *)

(* Faulty: the version is stored when the manifest is read. *)
StartRecorded ==
    /\ at = "idle" /\ Goto("clean")
    /\ target' \in 1 .. published
    /\ target' > record
    /\ record' = target'
    /\ UNCHANGED <<published, bundles, undo, content, had, player, past, faults>>

(* The release of an offer, the last one or an earlier, is approved and     *)
(* authorized, and its archive downloaded; or one that failed is retried.  *)
Start ==
    /\ at = "idle" /\ Goto("clean")
    /\ target' \in 1 .. published
    /\ target' > record \/ (target' = record /\ undo # Absent)
    /\ UNCHANGED <<published, bundles, versions, had, player, past, faults>>

Clean ==
    /\ at = "clean" /\ Goto("extract")
    /\ staged' = Absent /\ backup' = Absent
    /\ UNCHANGED <<published, game, sealed, versions, operation, player, past, faults>>

(* Faulty: what ditto and codesign return is not looked at. *)
ExtractUnchecked ==
    /\ at = "extract" /\ Goto("moveOut")
    /\ staged' \in {target, Partial}
    /\ UNCHANGED <<published, game, backup, sealed, versions, operation, player, past, faults>>

(* ditto, and the signature of the staged bundle. *)
Extract ==
    /\ at = "extract" /\ Goto("moveOut")
    /\ staged' = target
    /\ UNCHANGED <<published, game, backup, sealed, versions, operation, player, past, faults>>

MoveOut ==
    /\ at = "moveOut" /\ Goto("moveIn")
    /\ had' = (game # Absent)
    /\ IF game # Absent THEN backup' = game /\ game' = Absent ELSE UNCHANGED <<game, backup>>
    /\ UNCHANGED <<published, staged, sealed, versions, target, player, past, faults>>

MoveIn ==
    /\ at = "moveIn" /\ Goto("seal")
    /\ game' = staged /\ staged' = Absent
    /\ UNCHANGED <<published, backup, sealed, versions, operation, player, past, faults>>

Seal ==
    /\ at = "seal" /\ Goto("tidy")
    /\ sealed' = game
    /\ UNCHANGED <<published, game, backup, staged, versions, operation, player, past, faults>>

Tidy ==
    /\ at = "tidy" /\ Goto("store")
    /\ backup' = Absent /\ staged' = Absent
    /\ UNCHANGED <<published, game, sealed, versions, operation, player, past, faults>>

(* The version and the manifest are stored together, and nothing is left   *)
(* of what went wrong before.                                              *)
Store ==
    /\ at = "store" /\ Goto("content")
    /\ record' = target /\ undo' = Absent
    /\ unrestored' = FALSE /\ unrecorded' = FALSE
    /\ UNCHANGED <<published, bundles, content, operation, player, faults>>

(* run_update, which is InstallFlow's. *)
UpdateContent ==
    /\ at = "content" /\ Goto("idle")
    /\ content' = target
    /\ UNCHANGED <<published, bundles, record, undo, operation, player, past, faults>>

-----------------------------------------------------------------------------
(* Failures: each returns to the screen that offers the update again.      *)

CleanFails ==
    /\ at = "clean" /\ Fault(1) /\ Goto("idle")
    /\ \/ staged' \in Remains(staged) /\ UNCHANGED backup
       \/ staged' = Absent /\ backup' \in Remains(backup)
    /\ UNCHANGED <<published, game, sealed, versions, operation, player, past>>

ExtractFails ==
    /\ at = "extract" /\ Fault(1) /\ Goto("idle")
    /\ staged' \in {Absent, Partial, target}
    /\ UNCHANGED <<published, game, backup, sealed, versions, operation, player, past>>

MoveOutFails ==
    /\ at = "moveOut" /\ Fault(1) /\ Goto("idle")
    /\ UNCHANGED <<published, bundles, versions, operation, player, past>>

(* The old bundle is renamed back; its failure is ignored. *)
MoveInFails ==
    /\ at = "moveIn" /\ Goto("idle")
    /\ \/ /\ Fault(1)
          /\ IF had THEN game' = backup /\ backup' = Absent ELSE UNCHANGED <<game, backup>>
          /\ UNCHANGED unrestored
       \/ /\ Fault(2) /\ had
          /\ unrestored' = TRUE
          /\ UNCHANGED <<game, backup>>
    /\ UNCHANGED <<published, staged, sealed, versions, operation, player, unrecorded>>

(* Faulty: the outer bundle is left as the failed signature left it. *)
SealFailsUnsealed ==
    /\ at = "seal" /\ Goto("idle") /\ Fault(1)
    /\ game' = IF had THEN backup ELSE Absent
    /\ backup' = IF had THEN Absent ELSE backup
    /\ sealed' = Absent
    /\ UNCHANGED <<published, staged, versions, operation, player, past>>

(* The new bundle is removed, the old one renamed back and the outer one   *)
(* signed again; their failures are ignored.  What was not removed is in   *)
(* the way of the rename.                                                  *)
SealFails ==
    /\ at = "seal" /\ Goto("idle")
    /\ \/ /\ Fault(1)
          /\ game' = IF had THEN backup ELSE Absent
          /\ backup' = IF had THEN Absent ELSE backup
          /\ sealed' = IF had THEN game' ELSE Absent
          /\ UNCHANGED unrestored
       \/ /\ Fault(2)
          /\ unrestored' = TRUE
          /\ \/ /\ game' \in {game, Partial} /\ UNCHANGED backup
                /\ sealed' \in {Absent, game'}
             \/ /\ game' = Absent /\ UNCHANGED backup
                /\ sealed' \in {Absent, Partial}
             \/ /\ had /\ game' = backup /\ backup' = Absent
                /\ sealed' = Absent
    /\ UNCHANGED <<published, staged, versions, operation, player, unrecorded>>

TidyFails ==
    /\ at = "tidy" /\ Fault(1) /\ Goto("idle")
    /\ backup' \in Remains(backup)
    /\ unrecorded' = TRUE
    /\ UNCHANGED <<published, game, staged, sealed, versions, operation, player, unrestored>>

(* Not stored, after the recovery of an earlier transaction or before, or   *)
(* stored by a transaction that was left open.                             *)
StoreIsCutOff ==
    \/ UNCHANGED <<record, undo>>
    \/ RecoverRecord
    \/ undo' = (IF undo = Absent THEN record ELSE undo) /\ record' = target

StoreFails ==
    /\ at = "store" /\ Fault(1) /\ Goto("idle")
    /\ StoreIsCutOff
    /\ unrecorded' = TRUE
    /\ UNCHANGED <<published, bundles, content, operation, player, unrestored>>

ContentFails ==
    /\ at = "content" /\ Fault(1) /\ Goto("idle")
    /\ UNCHANGED <<published, bundles, versions, operation, player, past>>

Fails ==
    \/ CleanFails \/ ExtractFails \/ MoveOutFails \/ MoveInFails
    \/ SealFails \/ TidyFails \/ StoreFails \/ ContentFails

(* Killed, where it is: within a removal, a signature or a transaction too. *)
Kill ==
    /\ at \in Steps /\ Fault(1) /\ Goto("closed")
    /\ staged' \in (IF at = "clean" THEN Remains(staged)
                    ELSE IF at = "extract" THEN {Absent, Partial, target} ELSE {staged})
    /\ backup' \in (IF at \in {"clean", "tidy"} THEN Remains(backup) ELSE {backup})
    /\ sealed' \in (IF at = "seal" THEN {sealed, Absent, game} ELSE {sealed})
    /\ IF at = "store" THEN StoreIsCutOff ELSE UNCHANGED <<record, undo>>
    /\ unrecorded' = (unrecorded \/ at \in Swapped)
    /\ UNCHANGED <<published, game, content, operation, player, unrestored>>

Quit ==
    /\ at = "idle" /\ Goto("closed")
    /\ UNCHANGED <<published, bundles, versions, operation, player, past, faults>>

Publish ==
    /\ published < LastRelease /\ published' = published + 1
    /\ UNCHANGED <<bundles, versions, at, operation, player, past, faults>>

Next ==
    \/ Open \/ OpenUnrecovered \/ Launch \/ Quit
    \/ Start \/ Clean \/ Extract \/ MoveOut \/ MoveIn \/ Seal \/ Tidy \/ Store \/ UpdateContent
    \/ Fails \/ Kill
    \/ Publish

Spec == Init /\ [][Next]_vars

-----------------------------------------------------------------------------
(* Properties.                                                             *)

(* The stored version is never ahead of the bundle: what is left after a   *)
(* kill is offered the update again instead of passing for the release.    *)
RecordNotAhead ==
    ~unrestored => record <= (IF Whole(game) THEN game ELSE backup)

(* At every moment, whatever was killed or has failed, a whole game is in  *)
(* its place or in the backup, in its place whenever the user can launch   *)
(* it, and not older than what is stored about it.  Not after an undo or a *)
(* recovery has failed itself: the next attempt begins by deleting the     *)
(* backup (install_macos_game_archive).                                    *)
GameKept ==
    /\ RecordNotAhead
    /\ ~unrestored =>
           /\ Whole(game) \/ Whole(backup)
           /\ at = "idle" => Whole(game)

(* What is stored about the game once the next start has recovered it.     *)
Known == IF undo = Absent THEN record ELSE undo

(* Where the user can launch it, the outer signature covers the game that  *)
(* is inside: after an update, after a failed one, and after a recovery.   *)
(* Where it does not, an update was cut off after its rename or an undo    *)
(* has failed: nothing signs the bundle again but an update, and that is   *)
(* on offer, as the release that was installed is not stored.              *)
SealCovers ==
    at = "idle" /\ sealed # game =>
        /\ unrestored \/ unrecorded
        /\ Known < published

Launches == player' # player
IsPaired == player.game = player.content

(* "Validates the installed player/content pair before starting a bundled  *)
(* Unity application." (launch_player, main.rs:5460)  It compares stored   *)
(* versions, not the bundles: [][Launches => IsPaired']_vars does not hold *)
(* after an error between the swap and its record.  A game that is         *)
(* launched without being of the release of its Content is one that an     *)
(* update put in place before it was cut off, newer than its Content, or   *)
(* what a failed undo has left of one; and the update is still on offer.   *)
LaunchedNotBehind ==
    [][ Launches =>
            \/ IsPaired'
            \/ /\ unrecorded \/ unrestored
               /\ game > content \/ (unrestored /\ game = Partial)
               /\ record' < published ]_vars
=============================================================================
