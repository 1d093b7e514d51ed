---------------------- MODULE ApplicationUpdateProofs ----------------------
(***************************************************************************)
(* What holds of ApplicationUpdate for every number of releases and of     *)
(* failures, and whichever staged file gets lost: its type invariant, that *)
(* the launcher knows the release of the player, and that only a complete  *)
(* combined release is recorded.                                           *)
(***************************************************************************)
EXTENDS ApplicationUpdate, TLAPS

(* What an operation is about to install is there; no version recorded     *)
(* ever disappears.                                                        *)
WorkInv ==
    /\ disk.version # Absent
    /\ at \in {"prepare", "approve", "commit"} \/ "application-update" \in screen \/ auth =>
           offer.application # Absent
    /\ at = "content" => pending # Absent
    /\ at = "launcher" => offer.launcher # Absent
    /\ at = "replace" => disk.staged # Absent

(* The pending version is that of the player; without one, and unless it   *)
(* was discarded, the recorded version is.                                 *)
GameInv ==
    /\ disk.pendingVersion # Absent =>
           disk.game = disk.pendingVersion /\ disk.pendingManifest \in {Absent, disk.game}
    /\ disk.pendingVersion = Absent /\ ~discarded => disk.version = disk.game

(* The helper only works on a combined update that has its Content, and    *)
(* what it has done so far is done.                                        *)
HelperInv ==
    disk.pendingVersion # Absent =>
        LET release == disk.pendingVersion
        IN  /\ at \in Helping => disk.content = release /\ disk.helper = release
            /\ at = "replace" => disk.staged = release
            /\ at \in Helping \ {"replace"} => disk.launcher = release
            /\ at \in Helping \ {"promote version"} => disk.pendingManifest = release
            /\ at = "promote version" => disk.manifest = release

DiskOK ==
    /\ disk \in [Files -> 0 .. Last]
    /\ \A f \in Layers : disk[f] # Absent
    /\ disk.pendingLauncher = Absent \/ disk.pendingVersion = Absent

ScreenOK ==
    /\ at \in {"closed", "start", "open"} \cup Scanning \cup Operating \cup Helping
    /\ screen \subseteq Choices
    /\ at = "open" <=> screen # {}

MemoryOK ==
    /\ published \in [Channels -> Releases]
    /\ offer \in [Channels -> 0 .. Last]
    /\ pending \in 0 .. Last
    /\ player \in [game : 0 .. Last, content : 0 .. Last]
    /\ faults \in 0 .. MaxFaults

FlagsOK ==
    /\ dismissed \in BOOLEAN /\ session \in BOOLEAN /\ auth \in BOOLEAN
    /\ discarded \in BOOLEAN

IInv == TypeOK /\ WorkInv /\ GameInv /\ HelperInv

-----------------------------------------------------------------------------
(* The type invariant by what a step changes together.                     *)
LEMMA TypeParts == TypeOK <=> DiskOK /\ ScreenOK /\ MemoryOK /\ FlagsOK
BY DEF TypeOK, DiskOK, ScreenOK, MemoryOK, FlagsOK

(* An installation of the first release satisfies the invariant.           *)
LEMMA InitInv == Init => IInv
<1> SUFFICES ASSUME Init PROVE IInv
  OBVIOUS
<1> USE LimitsAreNatural DEF Absent
<1>1. DiskOK
  BY DEF Init, DiskOK, Files, Layers, Metadata, Pending
<1>2. ScreenOK
  BY DEF Init, ScreenOK
<1>3. MemoryOK
  <2>1. published \in [Channels -> Releases]
    BY DEF Init, Releases
  <2>2. offer \in [Channels -> 0 .. Last]
    BY DEF Init, NoOffer
  <2>3. player \in [game : 0 .. Last, content : 0 .. Last]
    BY DEF Init
  <2>4. pending \in 0 .. Last /\ faults \in 0 .. MaxFaults
    BY DEF Init
  <2> QED
    BY <2>1, <2>2, <2>3, <2>4 DEF MemoryOK
<1>4. FlagsOK
  BY Zenon DEF Init, FlagsOK
<1>5. WorkInv /\ GameInv /\ HelperInv
  BY DEF Init, WorkInv, GameInv, HelperInv, Files, Layers, Metadata, Pending, NoOffer,
        Channels, Helping, Operating
<1> QED
  BY <1>1, <1>2, <1>3, <1>4, <1>5, TypeParts DEF IInv

(* What promoting a pending file does to the files.                        *)
LEMMA PromotedFiles ==
    ASSUME NEW files \in [Files -> 0 .. Last], NEW name \in Pending, NEW installed \in Metadata
    PROVE  LET after == Promoted(files, name, installed)
           IN  /\ after \in [Files -> 0 .. Last]
               /\ \A f \in Files \ {name, installed} : after[f] = files[f]
               /\ after[name] = Absent
               /\ after[installed] = IF files[name] = Absent THEN files[installed] ELSE files[name]
<1> USE LimitsAreNatural DEF Absent
<1>1. name \in Files /\ installed \in Files /\ name # installed
  BY DEF Files, Pending, Metadata
<1>2. CASE files[name] = Absent
  BY <1>1, <1>2 DEF Promoted
<1>3. CASE files[name] # Absent
  BY <1>1, <1>3 DEF Promoted
<1> QED
  BY <1>2, <1>3

(* The files: what an operation installs is there to be installed.         *)
LEMMA StepKeepsDisk == DiskOK /\ MemoryOK /\ WorkInv /\ [Next]_vars => DiskOK'
<1> SUFFICES ASSUME DiskOK, MemoryOK, WorkInv, [Next]_vars PROVE  DiskOK'
  OBVIOUS
<1> USE LimitsAreNatural DEF Absent
<1>1. CASE UNCHANGED disk
  BY <1>1 DEF DiskOK, MemoryOK, WorkInv, Files, Layers, Metadata, Pending, Channels,
        Operating
<1>2. CASE Resume
  BY <1>2 DEF Resume, Begins, Busy, HasApplication, decided, past, DiskOK, MemoryOK,
        WorkInv, Files, Layers, Metadata, Pending, Channels, Operating
<1>3. CASE Adopt
  <2> DEFINE launcher == Promoted(disk, "pendingLauncher", "launcherVersion")
             manifest == Promoted(disk, "pendingManifest", "manifest")
             version == Promoted(manifest, "pendingVersion", "version")
  <2>1. \E files \in {launcher, manifest, version} : disk' = [files EXCEPT !.resume = Absent]
    BY <1>3 DEF Adopt, Begins, ManifestPromoted
  <2>2. /\ launcher \in [Files -> 0 .. Last]
        /\ manifest \in [Files -> 0 .. Last]
        /\ version \in [Files -> 0 .. Last]
    BY PromotedFiles DEF DiskOK, Files, Layers, Metadata, Pending
  <2>3. \A files \in {launcher, manifest, version} :
           /\ \A f \in Layers : files[f] = disk[f]
           /\ \A f \in {"pendingLauncher", "pendingVersion"} : files[f] \in {Absent, disk[f]}
    BY <2>2, PromotedFiles DEF DiskOK, Files, Layers, Metadata, Pending
  <2> HIDE DEF launcher, manifest, version
  <2> QED
    BY <2>1, <2>2, <2>3 DEF DiskOK, Files, Layers, Metadata, Pending
<1>4. CASE Discard
  <2>1. PICK kept \in SUBSET Pending :
           disk' = [[f \in Files |-> IF f \in Pending \ kept THEN Absent ELSE disk[f]]
                       EXCEPT !.resume = Absent]
    BY <1>4 DEF Discard, Begins
  <2>2. \A f \in Files : disk'[f] \in {Absent, disk[f]} /\ (f \in Layers => disk'[f] = disk[f])
    BY <2>1 DEF DiskOK, Files, Layers, Metadata, Pending
  <2> QED
    BY <2>1, <2>2 DEF DiskOK, Files, Layers, Metadata, Pending
<1>5. CASE GiveUp
  BY <1>5 DEF GiveUp, Begins, Busy, Fault, decided, past, DiskOK, MemoryOK, WorkInv, Files,
        Layers, Metadata, Pending, Channels, Operating
<1>6. CASE ReplaceLauncher
  BY <1>6 DEF ReplaceLauncher, HelperOnly, decided, past, DiskOK, MemoryOK, WorkInv, Files,
        Layers, Metadata, Pending, Channels, Operating
<1>7. CASE PromoteLauncher
  <2>1. disk' = Promoted(disk, "pendingLauncher", "launcherVersion")
    BY <1>7 DEF PromoteLauncher
  <2> QED
    BY <2>1, PromotedFiles DEF DiskOK, Files, Layers, Metadata, Pending
<1>8. CASE PromoteManifest
  <2>1. disk' = Promoted(disk, "pendingManifest", "manifest")
    BY <1>8 DEF PromoteManifest, ManifestPromoted
  <2> QED
    BY <2>1, PromotedFiles DEF DiskOK, Files, Layers, Metadata, Pending
<1>9. CASE PromoteVersion
  <2>1. disk' = Promoted(disk, "pendingVersion", "version")
    BY <1>9 DEF PromoteVersion
  <2> QED
    BY <2>1, PromotedFiles DEF DiskOK, Files, Layers, Metadata, Pending
<1>10. CASE ScanContent
  <2>1. disk' \in {disk, [disk EXCEPT !.approved = Absent]}
    BY <1>10 DEF ScanContent, Approves
  <2> QED
    BY <2>1 DEF DiskOK, Files, Layers, Metadata, Pending
<1>11. CASE SkipApplication
  BY <1>11 DEF SkipApplication, Chosen, Busy, Approves, decided, past, DiskOK, MemoryOK,
        WorkInv, Files, Layers, Metadata, Pending, Channels, Operating
<1>12. CASE Approve
  BY <1>12 DEF Approve, ApplicationFails, Approves, Busy, Shows, Fault, NoFault, decided,
        past, DiskOK, MemoryOK, WorkInv, Files, Layers, Metadata, Pending, Channels,
        Operating
<1>13. CASE Commit
  <2>1. CASE disk' = [disk EXCEPT !.approved = Absent]
    BY <2>1 DEF DiskOK, Files, Layers, Metadata, Pending
  <2>2. CASE disk' = Committed(offer.application)
    <3>1. offer.application \in 0 .. Last /\ offer.application # Absent
      BY <1>13 DEF Commit, MemoryOK, WorkInv, Channels
    <3> QED
      BY <2>2, <3>1 DEF Committed, DiskOK, Files, Layers, Metadata, Pending
  <2> QED
    BY <1>13, <2>1, <2>2 DEF Commit, ApplicationFails, Approves
<1>14. CASE UpdateContent
  BY <1>14 DEF UpdateContent, MemoryOK, WorkInv, DiskOK, Files, Layers, Metadata, Pending
<1>15. CASE UpdateLauncher
  <2>1. CASE UNCHANGED disk
    BY <2>1 DEF DiskOK
  <2>2. CASE disk' = LauncherStaged(offer.launcher)
    <3>1. offer.launcher \in 0 .. Last /\ offer.launcher # Absent
      BY <1>15 DEF UpdateLauncher, MemoryOK, WorkInv, Channels
    <3> QED
      BY <2>2, <3>1 DEF LauncherStaged, DiskOK, Files, Layers, Metadata, Pending
  <2> QED
    BY <1>15, <2>1, <2>2 DEF UpdateLauncher
<1>16. CASE Restart
  BY <1>16 DEF Restart, LauncherIsStaged, StagedLauncherIs, Shows, Busy, Fault, NoFault,
        decided, past, DiskOK, MemoryOK, WorkInv, Files, Layers, Metadata, Pending,
        Channels, Operating
<1>17. CASE Play
  BY <1>17 DEF Play, Chosen, Approves, Closes, Busy, Shows, decided, past, DiskOK, MemoryOK,
        WorkInv, Files, Layers, Metadata, Pending, Channels, Operating
<1>18. CASE \E file \in Losable : Lose(file)
  BY <1>18, LosableArePending DEF Lose, Fault, decided, past, DiskOK, MemoryOK, WorkInv,
        Files, Layers, Metadata, Pending, Channels, Operating
<1>19. CASE UNCHANGED vars
  BY <1>19 DEF vars, decided, past, DiskOK, MemoryOK, WorkInv, Files, Layers, Metadata,
        Pending, Channels, Operating
<1> QED
  BY <1>1, <1>2, <1>3, <1>4, <1>5, <1>6, <1>7, <1>8, <1>9, <1>10, <1>11, <1>12,
     <1>13, <1>14, <1>15, <1>16, <1>17, <1>18, <1>19 DEF Next, Choose, Back, Busy,
     Chosen, Closes, Fault, HandOff, Kill, NoFault, Open, Prepare, Quit, Retry,
     ScanApplication, ScanContentFails, ScanLauncher, Shows, SignIn, SkipLauncher,
     StartApplication, StartLauncherUpdate, StartRestart, Update, Publish, decided,
     past

(* A process shows choices when it waits for one, and only then.           *)
LEMMA StepKeepsScreen == ScreenOK /\ [Next]_vars => ScreenOK'
<1> SUFFICES ASSUME ScreenOK, [Next]_vars PROVE  ScreenOK'
  OBVIOUS
<1> USE LimitsAreNatural DEF Absent
<1>1. CASE Open
  BY <1>1 DEF Open, Busy, decided, past, ScreenOK, Scanning, Operating, Helping, Choices
<1>2. CASE HandOff
  BY <1>2 DEF HandOff, Busy, decided, past, ScreenOK, Scanning, Operating, Helping, Choices
<1>3. CASE Resume
  BY <1>3 DEF Resume, Begins, Busy, HasApplication, decided, past, ScreenOK, Scanning,
        Operating, Helping, Choices
<1>4. CASE Adopt
  BY <1>4 DEF Adopt, Begins, Busy, Fault, NoFault, Promoted, ManifestPromoted,
        HasApplication, decided, past, ScreenOK, Scanning, Operating, Helping, Choices
<1>5. CASE Discard
  BY <1>5 DEF Discard, Begins, Busy, Fault, NoFault, Forgets, decided, past, ScreenOK,
        Scanning, Operating, Helping, Choices
<1>6. CASE GiveUp
  BY <1>6 DEF GiveUp, Begins, Busy, Fault, decided, past, ScreenOK, Scanning, Operating,
        Helping, Choices
<1>7. CASE ReplaceLauncher
  BY <1>7 DEF ReplaceLauncher, HelperOnly, decided, past, ScreenOK, Scanning, Operating,
        Helping, Choices
<1>8. CASE PromoteLauncher
  BY <1>8 DEF PromoteLauncher, HelperOnly, Promoted, decided, past, ScreenOK, Scanning,
        Operating, Helping, Choices
<1>9. CASE PromoteManifest
  BY <1>9 DEF PromoteManifest, HelperOnly, ManifestPromoted, Promoted, decided, past,
        ScreenOK, Scanning, Operating, Helping, Choices
<1>10. CASE PromoteVersion
  BY <1>10 DEF PromoteVersion, HelperOnly, Promoted, decided, past, ScreenOK, Scanning,
        Operating, Helping, Choices
<1>11. CASE ScanLauncher
  BY <1>11 DEF ScanLauncher, Shows, Busy, decided, past, ScreenOK, Scanning, Operating,
        Helping, Choices
<1>12. CASE ScanApplication
  BY <1>12 DEF ScanApplication, Shows, Busy, decided, past, ScreenOK, Scanning, Operating,
        Helping, Choices
<1>13. CASE ScanContent
  BY <1>13 DEF ScanContent, Approves, Shows, Busy, CurrentGame, decided, past, ScreenOK,
        Scanning, Operating, Helping, Choices
<1>14. CASE ScanContentFails
  BY <1>14 DEF ScanContentFails, Shows, decided, past, ScreenOK, Scanning, Operating,
        Helping, Choices
<1>15. CASE SkipLauncher
  BY <1>15 DEF SkipLauncher, Chosen, Busy, decided, past, ScreenOK, Scanning, Operating,
        Helping, Choices
<1>16. CASE SkipApplication
  BY <1>16 DEF SkipApplication, Chosen, Busy, Approves, decided, past, ScreenOK, Scanning,
        Operating, Helping, Choices
<1>17. CASE Retry
  BY <1>17 DEF Retry, Chosen, Busy, decided, past, ScreenOK, Scanning, Operating, Helping,
        Choices
<1>18. CASE StartApplication
  BY <1>18 DEF StartApplication, Chosen, Busy, Shows, decided, past, ScreenOK, Scanning,
        Operating, Helping, Choices
<1>19. CASE SignIn
  BY <1>19 DEF SignIn, Chosen, Busy, decided, past, ScreenOK, Scanning, Operating, Helping,
        Choices
<1>20. CASE Back
  BY <1>20 DEF Back, Chosen, Busy, decided, past, ScreenOK, Scanning, Operating, Helping,
        Choices
<1>21. CASE Update
  BY <1>21 DEF Update, Chosen, Busy, decided, past, ScreenOK, Scanning, Operating, Helping,
        Choices
<1>22. CASE StartLauncherUpdate
  BY <1>22 DEF StartLauncherUpdate, Chosen, Busy, decided, past, ScreenOK, Scanning,
        Operating, Helping, Choices
<1>23. CASE StartRestart
  BY <1>23 DEF StartRestart, Chosen, Busy, decided, past, ScreenOK, Scanning, Operating,
        Helping, Choices
<1>24. CASE Play
  BY <1>24 DEF Play, Chosen, Approves, Closes, Busy, Shows, decided, past, ScreenOK,
        Scanning, Operating, Helping, Choices
<1>25. CASE Prepare
  BY <1>25 DEF Prepare, Busy, Shows, Fault, NoFault, decided, past, ScreenOK, Scanning,
        Operating, Helping, Choices
<1>26. CASE Approve
  BY <1>26 DEF Approve, ApplicationFails, Approves, Busy, Shows, Fault, NoFault, decided,
        past, ScreenOK, Scanning, Operating, Helping, Choices
<1>27. CASE Commit
  BY <1>27 DEF Commit, Committed, ApplicationFails, Approves, Busy, Shows, Fault, NoFault,
        decided, past, ScreenOK, Scanning, Operating, Helping, Choices
<1>28. CASE UpdateContent
  BY <1>28 DEF UpdateContent, Shows, Fault, NoFault, decided, past, ScreenOK, Scanning,
        Operating, Helping, Choices
<1>29. CASE UpdateLauncher
  BY <1>29 DEF UpdateLauncher, LauncherStaged, Shows, Busy, Fault, NoFault, Forgets,
        decided, past, ScreenOK, Scanning, Operating, Helping, Choices
<1>30. CASE Restart
  BY <1>30 DEF Restart, LauncherIsStaged, StagedLauncherIs, Shows, Busy, Fault, NoFault,
        decided, past, ScreenOK, Scanning, Operating, Helping, Choices
<1>31. CASE Quit
  BY <1>31 DEF Quit, Closes, Busy, decided, past, ScreenOK, Scanning, Operating, Helping,
        Choices
<1>32. CASE Kill
  BY <1>32 DEF Kill, Closes, Busy, Fault, decided, past, ScreenOK, Scanning, Operating,
        Helping, Choices
<1>33. CASE \E file \in Losable : Lose(file)
  BY <1>33, LosableArePending DEF Lose, Fault, decided, past, ScreenOK, Scanning, Operating,
        Helping, Choices
<1>34. CASE \E channel \in Channels : Publish(channel)
  BY <1>34 DEF Publish, decided, past, ScreenOK, Scanning, Operating, Helping, Choices
<1>35. CASE UNCHANGED vars
  BY <1>35 DEF vars, decided, past, ScreenOK, Scanning, Operating, Helping, Choices
<1> QED
  BY <1>1, <1>2, <1>3, <1>4, <1>5, <1>6, <1>7, <1>8, <1>9, <1>10, <1>11, <1>12,
     <1>13, <1>14, <1>15, <1>16, <1>17, <1>18, <1>19, <1>20, <1>21, <1>22, <1>23,
     <1>24, <1>25, <1>26, <1>27, <1>28, <1>29, <1>30, <1>31, <1>32, <1>33, <1>34,
     <1>35 DEF Next, Choose

(* What is remembered and offered is a release.                            *)
LEMMA StepKeepsMemory == MemoryOK /\ DiskOK /\ [Next]_vars => MemoryOK'
<1> SUFFICES ASSUME MemoryOK, DiskOK, [Next]_vars PROVE  MemoryOK'
  OBVIOUS
<1> USE LimitsAreNatural DEF Absent
<1>1. CASE Open
  BY <1>1 DEF Open, Busy, decided, past, MemoryOK, DiskOK, NoOffer, Channels, CurrentGame,
        Releases, Files, Layers, Metadata, Pending
<1>2. CASE HandOff
  BY <1>2 DEF HandOff, Busy, decided, past, MemoryOK, DiskOK, NoOffer, Channels,
        CurrentGame, Releases, Files, Layers, Metadata, Pending
<1>3. CASE Resume
  BY <1>3 DEF Resume, Begins, Busy, HasApplication, decided, past, MemoryOK, DiskOK,
        NoOffer, Channels, CurrentGame, Releases, Files, Layers, Metadata, Pending
<1>4. CASE Adopt
  <2>1. UNCHANGED <<published, offer, pending, player>>
    BY <1>4 DEF Adopt, Begins
  <2>2. faults' \in 0 .. MaxFaults
    BY <1>4 DEF Adopt, Fault, NoFault, MemoryOK
  <2> QED
    BY <2>1, <2>2 DEF MemoryOK
<1>5. CASE Discard
  BY <1>5 DEF Discard, Begins, Busy, Fault, NoFault, Forgets, decided, past, MemoryOK,
        DiskOK, NoOffer, Channels, CurrentGame, Releases, Files, Layers, Metadata, Pending
<1>6. CASE GiveUp
  BY <1>6 DEF GiveUp, Begins, Busy, Fault, decided, past, MemoryOK, DiskOK, NoOffer,
        Channels, CurrentGame, Releases, Files, Layers, Metadata, Pending
<1>7. CASE ReplaceLauncher
  BY <1>7 DEF ReplaceLauncher, HelperOnly, decided, past, MemoryOK, DiskOK, NoOffer,
        Channels, CurrentGame, Releases, Files, Layers, Metadata, Pending
<1>8. CASE PromoteLauncher
  BY <1>8 DEF PromoteLauncher, HelperOnly, Promoted, decided, past, MemoryOK, DiskOK,
        NoOffer, Channels, CurrentGame, Releases, Files, Layers, Metadata, Pending
<1>9. CASE PromoteManifest
  BY <1>9 DEF PromoteManifest, HelperOnly, ManifestPromoted, Promoted, decided, past,
        MemoryOK, DiskOK, NoOffer, Channels, CurrentGame, Releases, Files, Layers, Metadata,
        Pending
<1>10. CASE PromoteVersion
  BY <1>10 DEF PromoteVersion, HelperOnly, Promoted, decided, past, MemoryOK, DiskOK,
        NoOffer, Channels, CurrentGame, Releases, Files, Layers, Metadata, Pending
<1>11. CASE ScanLauncher
  <2>1. published.launcher \in 0 .. Last
    BY DEF MemoryOK, Releases, Channels
  <2>2. offer' \in [Channels -> 0 .. Last]
    BY <1>11, <2>1 DEF ScanLauncher, MemoryOK
  <2> QED
    BY <1>11, <2>2 DEF ScanLauncher, past, MemoryOK
<1>12. CASE ScanApplication
  <2>1. published.application \in 0 .. Last
    BY DEF MemoryOK, Releases, Channels
  <2>2. offer' \in [Channels -> 0 .. Last]
    BY <1>12, <2>1 DEF ScanApplication, MemoryOK
  <2> QED
    BY <1>12, <2>2 DEF ScanApplication, past, MemoryOK
<1>13. CASE ScanContent
  <2>1. CurrentGame \in 0 .. Last
    BY DEF CurrentGame, DiskOK, Files, Layers, Metadata, Pending
  <2>2. pending' \in {pending, CurrentGame}
    BY <1>13 DEF ScanContent
  <2> QED
    BY <1>13, <2>1, <2>2 DEF ScanContent, past, MemoryOK
<1>14. CASE ScanContentFails
  BY <1>14 DEF ScanContentFails, Shows, decided, past, MemoryOK, DiskOK, NoOffer, Channels,
        CurrentGame, Releases, Files, Layers, Metadata, Pending
<1>15. CASE SkipLauncher
  BY <1>15 DEF SkipLauncher, Chosen, Busy, decided, past, MemoryOK, DiskOK, NoOffer,
        Channels, CurrentGame, Releases, Files, Layers, Metadata, Pending
<1>16. CASE SkipApplication
  BY <1>16 DEF SkipApplication, Chosen, Busy, Approves, decided, past, MemoryOK, DiskOK,
        NoOffer, Channels, CurrentGame, Releases, Files, Layers, Metadata, Pending
<1>17. CASE Retry
  BY <1>17 DEF Retry, Chosen, Busy, decided, past, MemoryOK, DiskOK, NoOffer, Channels,
        CurrentGame, Releases, Files, Layers, Metadata, Pending
<1>18. CASE StartApplication
  BY <1>18 DEF StartApplication, Chosen, Busy, Shows, decided, past, MemoryOK, DiskOK,
        NoOffer, Channels, CurrentGame, Releases, Files, Layers, Metadata, Pending
<1>19. CASE SignIn
  BY <1>19 DEF SignIn, Chosen, Busy, decided, past, MemoryOK, DiskOK, NoOffer, Channels,
        CurrentGame, Releases, Files, Layers, Metadata, Pending
<1>20. CASE Back
  BY <1>20 DEF Back, Chosen, Busy, decided, past, MemoryOK, DiskOK, NoOffer, Channels,
        CurrentGame, Releases, Files, Layers, Metadata, Pending
<1>21. CASE Update
  BY <1>21 DEF Update, Chosen, Busy, decided, past, MemoryOK, DiskOK, NoOffer, Channels,
        CurrentGame, Releases, Files, Layers, Metadata, Pending
<1>22. CASE StartLauncherUpdate
  BY <1>22 DEF StartLauncherUpdate, Chosen, Busy, decided, past, MemoryOK, DiskOK, NoOffer,
        Channels, CurrentGame, Releases, Files, Layers, Metadata, Pending
<1>23. CASE StartRestart
  BY <1>23 DEF StartRestart, Chosen, Busy, decided, past, MemoryOK, DiskOK, NoOffer,
        Channels, CurrentGame, Releases, Files, Layers, Metadata, Pending
<1>24. CASE Play
  BY <1>24 DEF Play, Chosen, Approves, Closes, Busy, Shows, decided, past, MemoryOK, DiskOK,
        NoOffer, Channels, CurrentGame, Releases, Files, Layers, Metadata, Pending
<1>25. CASE Prepare
  BY <1>25 DEF Prepare, Busy, Shows, Fault, NoFault, decided, past, MemoryOK, DiskOK,
        NoOffer, Channels, CurrentGame, Releases, Files, Layers, Metadata, Pending
<1>26. CASE Approve
  BY <1>26 DEF Approve, ApplicationFails, Approves, Busy, Shows, Fault, NoFault, decided,
        past, MemoryOK, DiskOK, NoOffer, Channels, CurrentGame, Releases, Files, Layers,
        Metadata, Pending
<1>27. CASE Commit
  BY <1>27 DEF Commit, Committed, ApplicationFails, Approves, Busy, Shows, Fault, NoFault,
        decided, past, MemoryOK, DiskOK, NoOffer, Channels, CurrentGame, Releases, Files,
        Layers, Metadata, Pending
<1>28. CASE UpdateContent
  BY <1>28 DEF UpdateContent, Shows, Fault, NoFault, decided, past, MemoryOK, DiskOK,
        NoOffer, Channels, CurrentGame, Releases, Files, Layers, Metadata, Pending
<1>29. CASE UpdateLauncher
  BY <1>29 DEF UpdateLauncher, LauncherStaged, Shows, Busy, Fault, NoFault, Forgets,
        decided, past, MemoryOK, DiskOK, NoOffer, Channels, CurrentGame, Releases, Files,
        Layers, Metadata, Pending
<1>30. CASE Restart
  BY <1>30 DEF Restart, LauncherIsStaged, StagedLauncherIs, Shows, Busy, Fault, NoFault,
        decided, past, MemoryOK, DiskOK, NoOffer, Channels, CurrentGame, Releases, Files,
        Layers, Metadata, Pending
<1>31. CASE Quit
  BY <1>31 DEF Quit, Closes, Busy, decided, past, MemoryOK, DiskOK, NoOffer, Channels,
        CurrentGame, Releases, Files, Layers, Metadata, Pending
<1>32. CASE Kill
  BY <1>32 DEF Kill, Closes, Busy, Fault, decided, past, MemoryOK, DiskOK, NoOffer,
        Channels, CurrentGame, Releases, Files, Layers, Metadata, Pending
<1>33. CASE \E file \in Losable : Lose(file)
  BY <1>33, LosableArePending DEF Lose, Fault, decided, past, MemoryOK, DiskOK, NoOffer,
        Channels, CurrentGame, Releases, Files, Layers, Metadata, Pending
<1>34. CASE \E channel \in Channels : Publish(channel)
  BY <1>34 DEF Publish, decided, past, MemoryOK, DiskOK, NoOffer, Channels, CurrentGame,
        Releases, Files, Layers, Metadata, Pending
<1>35. CASE UNCHANGED vars
  BY <1>35 DEF vars, decided, past, MemoryOK, DiskOK, NoOffer, Channels, CurrentGame,
        Releases, Files, Layers, Metadata, Pending
<1> QED
  BY <1>1, <1>2, <1>3, <1>4, <1>5, <1>6, <1>7, <1>8, <1>9, <1>10, <1>11, <1>12,
     <1>13, <1>14, <1>15, <1>16, <1>17, <1>18, <1>19, <1>20, <1>21, <1>22, <1>23,
     <1>24, <1>25, <1>26, <1>27, <1>28, <1>29, <1>30, <1>31, <1>32, <1>33, <1>34,
     <1>35 DEF Next, Choose

(* The flags.                                                              *)
LEMMA StepKeepsFlags == FlagsOK /\ [Next]_vars => FlagsOK'
<1> SUFFICES ASSUME FlagsOK, [Next]_vars PROVE  FlagsOK'
  OBVIOUS
<1> USE LimitsAreNatural DEF Absent
<1>1. CASE Open
  BY <1>1 DEF Open, Busy, decided, past, FlagsOK
<1>2. CASE HandOff
  BY <1>2 DEF HandOff, Busy, decided, past, FlagsOK
<1>3. CASE Resume
  BY <1>3 DEF Resume, Begins, Busy, HasApplication, decided, past, FlagsOK
<1>4. CASE Adopt
  BY <1>4 DEF Adopt, Begins, Busy, Fault, NoFault, Promoted, ManifestPromoted,
        HasApplication, decided, past, FlagsOK
<1>5. CASE Discard
  BY <1>5 DEF Discard, Begins, Busy, Fault, NoFault, Forgets, decided, past, FlagsOK
<1>6. CASE GiveUp
  BY <1>6 DEF GiveUp, Begins, Busy, Fault, decided, past, FlagsOK
<1>7. CASE ReplaceLauncher
  BY <1>7 DEF ReplaceLauncher, HelperOnly, decided, past, FlagsOK
<1>8. CASE PromoteLauncher
  BY <1>8 DEF PromoteLauncher, HelperOnly, Promoted, decided, past, FlagsOK
<1>9. CASE PromoteManifest
  BY <1>9 DEF PromoteManifest, HelperOnly, ManifestPromoted, Promoted, decided, past,
        FlagsOK
<1>10. CASE PromoteVersion
  BY <1>10 DEF PromoteVersion, HelperOnly, Promoted, decided, past, FlagsOK
<1>11. CASE ScanLauncher
  BY <1>11 DEF ScanLauncher, Shows, Busy, decided, past, FlagsOK
<1>12. CASE ScanApplication
  BY <1>12 DEF ScanApplication, Shows, Busy, decided, past, FlagsOK
<1>13. CASE ScanContent
  BY <1>13 DEF ScanContent, Approves, Shows, Busy, CurrentGame, decided, past, FlagsOK
<1>14. CASE ScanContentFails
  BY <1>14 DEF ScanContentFails, Shows, decided, past, FlagsOK
<1>15. CASE SkipLauncher
  BY <1>15 DEF SkipLauncher, Chosen, Busy, decided, past, FlagsOK
<1>16. CASE SkipApplication
  BY <1>16 DEF SkipApplication, Chosen, Busy, Approves, decided, past, FlagsOK
<1>17. CASE Retry
  BY <1>17 DEF Retry, Chosen, Busy, decided, past, FlagsOK
<1>18. CASE StartApplication
  BY <1>18 DEF StartApplication, Chosen, Busy, Shows, decided, past, FlagsOK
<1>19. CASE SignIn
  BY <1>19 DEF SignIn, Chosen, Busy, decided, past, FlagsOK
<1>20. CASE Back
  BY <1>20 DEF Back, Chosen, Busy, decided, past, FlagsOK
<1>21. CASE Update
  BY <1>21 DEF Update, Chosen, Busy, decided, past, FlagsOK
<1>22. CASE StartLauncherUpdate
  BY <1>22 DEF StartLauncherUpdate, Chosen, Busy, decided, past, FlagsOK
<1>23. CASE StartRestart
  BY <1>23 DEF StartRestart, Chosen, Busy, decided, past, FlagsOK
<1>24. CASE Play
  BY <1>24 DEF Play, Chosen, Approves, Closes, Busy, Shows, decided, past, FlagsOK
<1>25. CASE Prepare
  BY <1>25 DEF Prepare, Busy, Shows, Fault, NoFault, decided, past, FlagsOK
<1>26. CASE Approve
  BY <1>26 DEF Approve, ApplicationFails, Approves, Busy, Shows, Fault, NoFault, decided,
        past, FlagsOK
<1>27. CASE Commit
  BY <1>27 DEF Commit, Committed, ApplicationFails, Approves, Busy, Shows, Fault, NoFault,
        decided, past, FlagsOK
<1>28. CASE UpdateContent
  BY <1>28 DEF UpdateContent, Shows, Fault, NoFault, decided, past, FlagsOK
<1>29. CASE UpdateLauncher
  BY <1>29 DEF UpdateLauncher, LauncherStaged, Shows, Busy, Fault, NoFault, Forgets,
        decided, past, FlagsOK
<1>30. CASE Restart
  BY <1>30 DEF Restart, LauncherIsStaged, StagedLauncherIs, Shows, Busy, Fault, NoFault,
        decided, past, FlagsOK
<1>31. CASE Quit
  BY <1>31 DEF Quit, Closes, Busy, decided, past, FlagsOK
<1>32. CASE Kill
  BY <1>32 DEF Kill, Closes, Busy, Fault, decided, past, FlagsOK
<1>33. CASE \E file \in Losable : Lose(file)
  BY <1>33, LosableArePending DEF Lose, Fault, decided, past, FlagsOK
<1>34. CASE \E channel \in Channels : Publish(channel)
  BY <1>34 DEF Publish, decided, past, FlagsOK
<1>35. CASE UNCHANGED vars
  BY <1>35 DEF vars, decided, past, FlagsOK
<1> QED
  BY <1>1, <1>2, <1>3, <1>4, <1>5, <1>6, <1>7, <1>8, <1>9, <1>10, <1>11, <1>12,
     <1>13, <1>14, <1>15, <1>16, <1>17, <1>18, <1>19, <1>20, <1>21, <1>22, <1>23,
     <1>24, <1>25, <1>26, <1>27, <1>28, <1>29, <1>30, <1>31, <1>32, <1>33, <1>34,
     <1>35 DEF Next, Choose

(* No operation begins without the release it is to install, and no step   *)
(* removes the recorded version.                                           *)
LEMMA StepKeepsWork == TypeOK /\ WorkInv /\ GameInv /\ [Next]_vars => WorkInv'
<1> SUFFICES ASSUME TypeOK, WorkInv, GameInv, [Next]_vars PROVE  WorkInv'
  OBVIOUS
<1> USE LimitsAreNatural DEF Absent
<1>1. CASE Open
  BY <1>1 DEF Open, Busy, decided, past, WorkInv, TypeOK, GameInv, Channels, NoOffer,
        CurrentGame, Operating, Scanning, Helping, Files, Layers, Metadata, Pending
<1>2. CASE HandOff
  BY <1>2 DEF HandOff, Busy, decided, past, WorkInv, TypeOK, GameInv, Channels, NoOffer,
        CurrentGame, Operating, Scanning, Helping, Files, Layers, Metadata, Pending
<1>3. CASE Resume
  BY <1>3 DEF Resume, Begins, Busy, HasApplication, decided, past, WorkInv, TypeOK, GameInv,
        Channels, NoOffer, CurrentGame, Operating, Scanning, Helping, Files, Layers,
        Metadata, Pending
<1>4. CASE Adopt
  <2> DEFINE launcher == Promoted(disk, "pendingLauncher", "launcherVersion")
             manifest == Promoted(disk, "pendingManifest", "manifest")
             version == Promoted(manifest, "pendingVersion", "version")
  <2>1. \E files \in {launcher, manifest, version} : disk' = [files EXCEPT !.resume = Absent]
    BY <1>4 DEF Adopt, Begins, ManifestPromoted
  <2>2. \A files \in {launcher, manifest, version} :
           files \in [Files -> 0 .. Last] /\ files.version # Absent
    BY PromotedFiles DEF TypeOK, WorkInv, Files, Layers, Metadata, Pending
  <2> HIDE DEF launcher, manifest, version
  <2>3. disk'.version # Absent
    BY <2>1, <2>2 DEF Files, Layers, Metadata, Pending
  <2>4. at' = "scan" /\ screen' = {} /\ UNCHANGED <<offer, pending, auth>>
    BY <1>4 DEF Adopt, Begins, Busy
  <2> QED
    BY <2>3, <2>4 DEF WorkInv, Operating
<1>5. CASE Discard
  BY <1>5 DEF Discard, Begins, Busy, Fault, NoFault, Forgets, decided, past, WorkInv,
        TypeOK, GameInv, Channels, NoOffer, CurrentGame, Operating, Scanning, Helping,
        Files, Layers, Metadata, Pending
<1>6. CASE GiveUp
  BY <1>6 DEF GiveUp, Begins, Busy, Fault, decided, past, WorkInv, TypeOK, GameInv,
        Channels, NoOffer, CurrentGame, Operating, Scanning, Helping, Files, Layers,
        Metadata, Pending
<1>7. CASE ReplaceLauncher
  BY <1>7 DEF ReplaceLauncher, HelperOnly, decided, past, WorkInv, TypeOK, GameInv,
        Channels, NoOffer, CurrentGame, Operating, Scanning, Helping, Files, Layers,
        Metadata, Pending
<1>8. CASE PromoteLauncher
  BY <1>8 DEF PromoteLauncher, HelperOnly, Promoted, decided, past, WorkInv, TypeOK,
        GameInv, Channels, NoOffer, CurrentGame, Operating, Scanning, Helping, Files,
        Layers, Metadata, Pending
<1>9. CASE PromoteManifest
  BY <1>9 DEF PromoteManifest, HelperOnly, ManifestPromoted, Promoted, decided, past,
        WorkInv, TypeOK, GameInv, Channels, NoOffer, CurrentGame, Operating, Scanning,
        Helping, Files, Layers, Metadata, Pending
<1>10. CASE PromoteVersion
  BY <1>10 DEF PromoteVersion, HelperOnly, Promoted, decided, past, WorkInv, TypeOK,
        GameInv, Channels, NoOffer, CurrentGame, Operating, Scanning, Helping, Files,
        Layers, Metadata, Pending
<1>11. CASE ScanLauncher
  BY <1>11 DEF ScanLauncher, Shows, Busy, decided, past, WorkInv, TypeOK, GameInv, Channels,
        NoOffer, CurrentGame, Operating, Scanning, Helping, Files, Layers, Metadata, Pending
<1>12. CASE ScanApplication
  <2>1. published.application # Absent
    BY DEF TypeOK, Releases, Channels
  <2>2. offer'.application \in {offer.application, published.application}
    BY <1>12 DEF ScanApplication, TypeOK, Channels
  <2>3. /\ at' \in {"open", "scan content"} /\ UNCHANGED <<disk, pending, auth>>
        /\ "application-update" \in screen' => offer'.application = published.application
    BY <1>12 DEF ScanApplication, Shows, Busy, TypeOK, Channels
  <2> QED
    BY <2>1, <2>2, <2>3 DEF WorkInv
<1>13. CASE ScanContent
  <2>1. CurrentGame # Absent
    BY DEF CurrentGame, WorkInv
  <2>2. disk'.version = disk.version
    BY <1>13 DEF ScanContent, Approves, TypeOK, Files, Layers, Metadata, Pending
  <2>3. at' # "content" \/ pending' = CurrentGame
    BY <1>13 DEF ScanContent, Shows
  <2>4. "application-update" \notin screen' /\ at' \in {"open", "content"}
    BY <1>13 DEF ScanContent, Shows, Busy
  <2> QED
    BY <1>13, <2>1, <2>2, <2>3, <2>4 DEF ScanContent, WorkInv
<1>14. CASE ScanContentFails
  BY <1>14 DEF ScanContentFails, Shows, decided, past, WorkInv, TypeOK, GameInv, Channels,
        NoOffer, CurrentGame, Operating, Scanning, Helping, Files, Layers, Metadata, Pending
<1>15. CASE SkipLauncher
  BY <1>15 DEF SkipLauncher, Chosen, Busy, decided, past, WorkInv, TypeOK, GameInv,
        Channels, NoOffer, CurrentGame, Operating, Scanning, Helping, Files, Layers,
        Metadata, Pending
<1>16. CASE SkipApplication
  BY <1>16 DEF SkipApplication, Chosen, Busy, Approves, decided, past, WorkInv, TypeOK,
        GameInv, Channels, NoOffer, CurrentGame, Operating, Scanning, Helping, Files,
        Layers, Metadata, Pending
<1>17. CASE Retry
  BY <1>17 DEF Retry, Chosen, Busy, decided, past, WorkInv, TypeOK, GameInv, Channels,
        NoOffer, CurrentGame, Operating, Scanning, Helping, Files, Layers, Metadata, Pending
<1>18. CASE StartApplication
  BY <1>18 DEF StartApplication, Chosen, Busy, Shows, decided, past, WorkInv, TypeOK,
        GameInv, Channels, NoOffer, CurrentGame, Operating, Scanning, Helping, Files,
        Layers, Metadata, Pending
<1>19. CASE SignIn
  BY <1>19 DEF SignIn, Chosen, Busy, decided, past, WorkInv, TypeOK, GameInv, Channels,
        NoOffer, CurrentGame, Operating, Scanning, Helping, Files, Layers, Metadata, Pending
<1>20. CASE Back
  BY <1>20 DEF Back, Chosen, Busy, decided, past, WorkInv, TypeOK, GameInv, Channels,
        NoOffer, CurrentGame, Operating, Scanning, Helping, Files, Layers, Metadata, Pending
<1>21. CASE Update
  BY <1>21 DEF Update, Chosen, Busy, decided, past, WorkInv, TypeOK, GameInv, Channels,
        NoOffer, CurrentGame, Operating, Scanning, Helping, Files, Layers, Metadata, Pending
<1>22. CASE StartLauncherUpdate
  BY <1>22 DEF StartLauncherUpdate, Chosen, Busy, decided, past, WorkInv, TypeOK, GameInv,
        Channels, NoOffer, CurrentGame, Operating, Scanning, Helping, Files, Layers,
        Metadata, Pending
<1>23. CASE StartRestart
  BY <1>23 DEF StartRestart, Chosen, Busy, decided, past, WorkInv, TypeOK, GameInv,
        Channels, NoOffer, CurrentGame, Operating, Scanning, Helping, Files, Layers,
        Metadata, Pending
<1>24. CASE Play
  BY <1>24 DEF Play, Chosen, Approves, Closes, Busy, Shows, decided, past, WorkInv, TypeOK,
        GameInv, Channels, NoOffer, CurrentGame, Operating, Scanning, Helping, Files,
        Layers, Metadata, Pending
<1>25. CASE Prepare
  BY <1>25 DEF Prepare, Busy, Shows, Fault, NoFault, decided, past, WorkInv, TypeOK,
        GameInv, Channels, NoOffer, CurrentGame, Operating, Scanning, Helping, Files,
        Layers, Metadata, Pending
<1>26. CASE Approve
  BY <1>26 DEF Approve, ApplicationFails, Approves, Busy, Shows, Fault, NoFault, decided,
        past, WorkInv, TypeOK, GameInv, Channels, NoOffer, CurrentGame, Operating, Scanning,
        Helping, Files, Layers, Metadata, Pending
<1>27. CASE Commit
  BY <1>27 DEF Commit, Committed, ApplicationFails, Approves, Busy, Shows, Fault, NoFault,
        decided, past, WorkInv, TypeOK, GameInv, Channels, NoOffer, CurrentGame, Operating,
        Scanning, Helping, Files, Layers, Metadata, Pending
<1>28. CASE UpdateContent
  BY <1>28 DEF UpdateContent, Shows, Fault, NoFault, decided, past, WorkInv, TypeOK,
        GameInv, Channels, NoOffer, CurrentGame, Operating, Scanning, Helping, Files,
        Layers, Metadata, Pending
<1>29. CASE UpdateLauncher
  BY <1>29 DEF UpdateLauncher, LauncherStaged, Shows, Busy, Fault, NoFault, Forgets,
        decided, past, WorkInv, TypeOK, GameInv, Channels, NoOffer, CurrentGame, Operating,
        Scanning, Helping, Files, Layers, Metadata, Pending
<1>30. CASE Restart
  BY <1>30 DEF Restart, LauncherIsStaged, StagedLauncherIs, Shows, Busy, Fault, NoFault,
        decided, past, WorkInv, TypeOK, GameInv, Channels, NoOffer, CurrentGame, Operating,
        Scanning, Helping, Files, Layers, Metadata, Pending
<1>31. CASE Quit
  BY <1>31 DEF Quit, Closes, Busy, decided, past, WorkInv, TypeOK, GameInv, Channels,
        NoOffer, CurrentGame, Operating, Scanning, Helping, Files, Layers, Metadata, Pending
<1>32. CASE Kill
  BY <1>32 DEF Kill, Closes, Busy, Fault, decided, past, WorkInv, TypeOK, GameInv, Channels,
        NoOffer, CurrentGame, Operating, Scanning, Helping, Files, Layers, Metadata, Pending
<1>33. CASE \E file \in Losable : Lose(file)
  BY <1>33, LosableArePending DEF Lose, Fault, decided, past, WorkInv, TypeOK, GameInv,
        Channels, NoOffer, CurrentGame, Operating, Scanning, Helping, Files, Layers,
        Metadata, Pending
<1>34. CASE \E channel \in Channels : Publish(channel)
  BY <1>34 DEF Publish, decided, WorkInv
<1>35. CASE UNCHANGED vars
  BY <1>35 DEF vars, decided, past, WorkInv, TypeOK, GameInv, Channels, NoOffer,
        CurrentGame, Operating, Scanning, Helping, Files, Layers, Metadata, Pending
<1> QED
  BY <1>1, <1>2, <1>3, <1>4, <1>5, <1>6, <1>7, <1>8, <1>9, <1>10, <1>11, <1>12,
     <1>13, <1>14, <1>15, <1>16, <1>17, <1>18, <1>19, <1>20, <1>21, <1>22, <1>23,
     <1>24, <1>25, <1>26, <1>27, <1>28, <1>29, <1>30, <1>31, <1>32, <1>33, <1>34,
     <1>35 DEF Next, Choose

(* The pending version follows the player through every crash: the commit  *)
(* writes both, and only whoever records or discards it takes it away.     *)
LEMMA StepKeepsGame == TypeOK /\ WorkInv /\ GameInv /\ HelperInv /\ [Next]_vars => GameInv'
<1> SUFFICES ASSUME TypeOK, WorkInv, GameInv, HelperInv, [Next]_vars PROVE  GameInv'
  OBVIOUS
<1> USE LimitsAreNatural DEF Absent
<1>1. CASE UNCHANGED <<disk, discarded>>
  BY <1>1 DEF GameInv, TypeOK, Files, Layers, Metadata, Pending
<1>2. CASE Resume
  BY <1>2 DEF Resume, Begins, Busy, HasApplication, decided, past, GameInv, TypeOK, Files,
        Layers, Metadata, Pending
<1>3. CASE Adopt
  <2> DEFINE launcher == Promoted(disk, "pendingLauncher", "launcherVersion")
             manifest == Promoted(disk, "pendingManifest", "manifest")
             version == Promoted(manifest, "pendingVersion", "version")
  <2>1. discarded' = discarded
    BY <1>3 DEF Adopt
  <2>2. CASE disk' = [launcher EXCEPT !.resume = Absent] /\ ~HasApplication
    <3>1. launcher \in [Files -> 0 .. Last]
      BY PromotedFiles DEF TypeOK, Files, Layers, Metadata, Pending
    <3>2. \A f \in {"pendingVersion", "pendingManifest", "game", "version"} : launcher[f] = disk[f]
      BY PromotedFiles DEF TypeOK, Files, Layers, Metadata, Pending
    <3> HIDE DEF launcher
    <3> QED
      BY <2>1, <2>2, <3>1, <3>2 DEF GameInv, HasApplication, Files, Layers, Metadata,
            Pending
  <2>3. CASE disk' = [version EXCEPT !.resume = Absent]
    <3>1. manifest \in [Files -> 0 .. Last] /\ version \in [Files -> 0 .. Last]
      BY PromotedFiles DEF TypeOK, Files, Layers, Metadata, Pending
    <3>2. /\ version.pendingVersion = Absent /\ version.game = disk.game
          /\ version.version = IF disk.pendingVersion = Absent THEN disk.version
                               ELSE disk.pendingVersion
      BY <3>1, PromotedFiles DEF TypeOK, Files, Layers, Metadata, Pending
    <3> HIDE DEF manifest, version
    <3> QED
      BY <2>1, <2>3, <3>1, <3>2 DEF GameInv, Files, Layers, Metadata, Pending
  <2>4. CASE disk' = [manifest EXCEPT !.resume = Absent]
    <3>1. manifest \in [Files -> 0 .. Last]
      BY PromotedFiles DEF TypeOK, Files, Layers, Metadata, Pending
    <3>2. /\ manifest.pendingManifest = Absent
          /\ \A f \in {"pendingVersion", "game", "version"} : manifest[f] = disk[f]
      BY PromotedFiles DEF TypeOK, Files, Layers, Metadata, Pending
    <3> HIDE DEF manifest
    <3> QED
      BY <2>1, <2>4, <3>1, <3>2 DEF GameInv, Files, Layers, Metadata, Pending
  <2> QED
    BY <1>3, <2>2, <2>3, <2>4 DEF Adopt, Begins, ManifestPromoted, LauncherIsPromoted
<1>4. CASE Discard
  <2>1. PICK kept \in SUBSET Pending :
           disk' = [[f \in Files |-> IF f \in Pending \ kept THEN Absent ELSE disk[f]]
                       EXCEPT !.resume = Absent]
    BY <1>4 DEF Discard, Begins
  <2>2. /\ disk'.game = disk.game /\ disk'.version = disk.version
        /\ disk'.pendingVersion \in {Absent, disk.pendingVersion}
        /\ disk'.pendingManifest \in {Absent, disk.pendingManifest}
    BY <2>1 DEF TypeOK, Files, Layers, Metadata, Pending
  <2>3. discarded' \/ (~discarded /\ disk.game = disk.version)
    BY <1>4 DEF Discard, Forgets
  <2> QED
    BY <2>2, <2>3 DEF GameInv
<1>5. CASE GiveUp
  BY <1>5 DEF GiveUp, Begins, Busy, Fault, decided, past, GameInv, TypeOK, Files, Layers,
        Metadata, Pending
<1>6. CASE ReplaceLauncher
  BY <1>6 DEF ReplaceLauncher, HelperOnly, decided, past, GameInv, TypeOK, Files, Layers,
        Metadata, Pending
<1>7. CASE PromoteLauncher
  <2>1. disk' = Promoted(disk, "pendingLauncher", "launcherVersion") /\ discarded' = discarded
    BY <1>7 DEF PromoteLauncher, HelperOnly, past
  <2> QED
    BY <2>1, PromotedFiles DEF GameInv, TypeOK, Files, Layers, Metadata, Pending
<1>8. CASE PromoteManifest
  <2>1. disk' = Promoted(disk, "pendingManifest", "manifest") /\ discarded' = discarded
    BY <1>8 DEF PromoteManifest, HelperOnly, past, ManifestPromoted
  <2> QED
    BY <2>1, PromotedFiles DEF GameInv, TypeOK, Files, Layers, Metadata, Pending
<1>9. CASE PromoteVersion
  <2>1. disk' = Promoted(disk, "pendingVersion", "version") /\ discarded' = discarded
    BY <1>9 DEF PromoteVersion, HelperOnly, past
  <2> QED
    BY <2>1, PromotedFiles DEF GameInv, TypeOK, Files, Layers, Metadata, Pending
<1>10. CASE ScanContent
  <2>1. disk' \in {disk, [disk EXCEPT !.approved = Absent]} /\ discarded' = discarded
    BY <1>10 DEF ScanContent, Approves, past
  <2> QED
    BY <2>1 DEF GameInv, TypeOK, Files, Layers, Metadata, Pending
<1>11. CASE SkipApplication
  BY <1>11 DEF SkipApplication, Chosen, Busy, Approves, decided, past, GameInv, TypeOK,
        Files, Layers, Metadata, Pending
<1>12. CASE Approve
  BY <1>12 DEF Approve, ApplicationFails, Approves, Busy, Shows, Fault, NoFault, decided,
        past, GameInv, TypeOK, Files, Layers, Metadata, Pending
<1>13. CASE Commit
  <2>1. discarded' = discarded
    BY <1>13 DEF Commit, ApplicationFails, past
  <2>2. CASE disk' = [disk EXCEPT !.approved = Absent]
    BY <2>1, <2>2 DEF GameInv, TypeOK, Files, Layers, Metadata, Pending
  <2>3. CASE disk' = Committed(offer.application)
    <3>1. offer.application \in 0 .. Last /\ offer.application # Absent
      BY <1>13 DEF Commit, TypeOK, WorkInv, Channels
    <3> QED
      BY <2>1, <2>3, <3>1 DEF Committed, GameInv, TypeOK, Files, Layers, Metadata, Pending
  <2> QED
    BY <1>13, <2>2, <2>3 DEF Commit, ApplicationFails, Approves
<1>14. CASE UpdateContent
  BY <1>14 DEF UpdateContent, Shows, Fault, NoFault, decided, past, GameInv, TypeOK, Files,
        Layers, Metadata, Pending
<1>15. CASE UpdateLauncher
  <2>1. CASE UNCHANGED <<disk, discarded>>
    BY <2>1 DEF GameInv
  <2>2. CASE disk' = LauncherStaged(offer.launcher) /\ Forgets
    <3>1. /\ disk'.game = disk.game /\ disk'.version = disk.version
          /\ disk'.pendingVersion = Absent
      BY <2>2 DEF LauncherStaged, TypeOK, Files, Layers, Metadata, Pending
    <3> QED
      BY <2>2, <3>1 DEF Forgets, GameInv
  <2> QED
    BY <1>15, <2>1, <2>2 DEF UpdateLauncher
<1>16. CASE Restart
  BY <1>16 DEF Restart, LauncherIsStaged, StagedLauncherIs, Shows, Busy, Fault, NoFault,
        decided, past, GameInv, TypeOK, Files, Layers, Metadata, Pending
<1>17. CASE Play
  BY <1>17 DEF Play, Chosen, Approves, Closes, Busy, Shows, decided, past, GameInv, TypeOK,
        Files, Layers, Metadata, Pending
<1>18. CASE \E file \in Losable : Lose(file)
  BY <1>18, LosableArePending DEF Lose, Fault, decided, past, GameInv, TypeOK, Files,
        Layers, Metadata, Pending
<1>19. CASE UNCHANGED vars
  BY <1>19 DEF vars, decided, past, GameInv, TypeOK, Files, Layers, Metadata, Pending
<1> QED
  BY <1>1, <1>2, <1>3, <1>4, <1>5, <1>6, <1>7, <1>8, <1>9, <1>10, <1>11, <1>12,
     <1>13, <1>14, <1>15, <1>16, <1>17, <1>18, <1>19 DEF Next, Choose, Back, Busy,
     Chosen, Closes, Fault, HandOff, Kill, NoFault, Open, Prepare, Quit, Retry,
     ScanApplication, ScanContentFails, ScanLauncher, Shows, SignIn, SkipLauncher,
     StartApplication, StartLauncherUpdate, StartRestart, Update, Publish, decided,
     past

(* The helper is started for a combined update that is ready, or for a     *)
(* launcher alone, and its steps undo nothing of it.                       *)
LEMMA StepKeepsHelper == TypeOK /\ GameInv /\ HelperInv /\ [Next]_vars => HelperInv'
<1> SUFFICES ASSUME TypeOK, GameInv, HelperInv, [Next]_vars PROVE  HelperInv'
  OBVIOUS
<1> USE LimitsAreNatural DEF Absent, Helping
<1>1. CASE at' \notin Helping
  BY <1>1 DEF HelperInv
<1>2. CASE UNCHANGED <<disk, at>>
  BY <1>2 DEF HelperInv
<1>3. CASE HandOff
  <2>1. at' = "replace" /\ UNCHANGED disk
    BY <1>3 DEF HandOff, Busy
  <2>2. disk.pendingVersion # Absent =>
           /\ disk.content = disk.pendingVersion /\ disk.helper = disk.pendingVersion
           /\ disk.staged = disk.pendingVersion /\ disk.pendingManifest = disk.pendingVersion
    BY <1>3 DEF HandOff, LauncherIsStaged, ApplicationIsStaged, StagedLauncherIs,
          HasApplication, ContentIsReady
  <2> QED
    BY <2>1, <2>2 DEF HelperInv
<1>4. CASE Restart /\ at' = "replace"
  <2>1. disk.pendingVersion = Absent
    BY <1>4 DEF Restart, LauncherIsStaged, HasApplication, Shows
  <2>2. disk'.pendingVersion = disk.pendingVersion
    BY <1>4 DEF Restart, Shows, TypeOK, Files, Layers, Metadata, Pending
  <2> QED
    BY <2>1, <2>2 DEF HelperInv
<1>5. CASE ReplaceLauncher
  BY <1>5 DEF ReplaceLauncher, HelperInv, TypeOK, Files, Layers, Metadata, Pending
<1>6. CASE PromoteLauncher
  <2>1. /\ at = "promote launcher" /\ at' = "promote manifest"
        /\ disk' = Promoted(disk, "pendingLauncher", "launcherVersion")
    BY <1>6 DEF PromoteLauncher
  <2>2. /\ disk'.content = disk.content /\ disk'.helper = disk.helper
        /\ disk'.launcher = disk.launcher /\ disk'.manifest = disk.manifest
        /\ disk'.pendingManifest = disk.pendingManifest
        /\ disk'.pendingVersion = disk.pendingVersion
    <3>1. disk \in [Files -> 0 .. Last]
      BY DEF TypeOK
    <3> QED
      BY <2>1, <3>1 DEF Promoted, Files, Layers, Metadata, Pending
  <2> QED
    BY <2>1, <2>2 DEF HelperInv, Files, Layers, Metadata, Pending
<1>7. CASE PromoteManifest
  <2>1. /\ at = "promote manifest" /\ at' = "promote version"
        /\ disk' = Promoted(disk, "pendingManifest", "manifest")
    BY <1>7 DEF PromoteManifest, ManifestPromoted
  <2>2. /\ disk'.content = disk.content /\ disk'.helper = disk.helper
        /\ disk'.launcher = disk.launcher /\ disk'.pendingVersion = disk.pendingVersion
        /\ disk.pendingManifest # Absent => disk'.manifest = disk.pendingManifest
    <3>1. disk \in [Files -> 0 .. Last]
      BY DEF TypeOK
    <3> QED
      BY <2>1, <3>1 DEF Promoted, Files, Layers, Metadata, Pending
  <2> QED
    BY <2>1, <2>2 DEF HelperInv, Files, Layers, Metadata, Pending
<1>8. CASE Resume \/ Adopt \/ Discard \/ GiveUp \/ PromoteVersion
  <2>1. at' \in {"scan", "start"}
    BY <1>8 DEF Resume, Adopt, Discard, GiveUp, PromoteVersion, Begins, Busy
  <2> QED
    BY <1>1, <2>1
<1>9. CASE Open \/ ScanLauncher \/ ScanApplication \/ ScanContent \/ ScanContentFails
  <2>1. at' \in {"start", "open"} \cup Scanning \cup Operating
    BY <1>9 DEF Open, ScanLauncher, ScanApplication, ScanContent, ScanContentFails, Busy,
          Shows, Scanning, Operating
  <2> QED
    BY <1>1, <2>1 DEF Scanning, Operating
<1>10. CASE Choose
  <2>1. at' \in {"closed", "open"} \cup Scanning \cup Operating
    BY <1>10 DEF Choose, SkipLauncher, SkipApplication, Retry, StartApplication, SignIn,
          Back, Update, StartLauncherUpdate, StartRestart, Play, Closes, Busy, Shows,
          Scanning, Operating
  <2> QED
    BY <1>1, <2>1 DEF Scanning, Operating
<1>11. CASE Prepare \/ Approve \/ Commit \/ UpdateContent \/ UpdateLauncher
  <2>1. at' \in {"open"} \cup Operating
    BY <1>11 DEF Prepare, Approve, Commit, UpdateContent, UpdateLauncher, ApplicationFails,
          Busy, Shows, Operating
  <2> QED
    BY <1>1, <2>1 DEF Operating
<1>12. CASE Restart /\ at' # "replace"
  BY <1>1, <1>12 DEF Restart, Shows
<1>13. CASE Quit \/ Kill \/ \E file \in Losable : Lose(file)
  BY <1>1, <1>13 DEF Quit, Kill, Lose, Closes, Busy
<1>14. CASE \E channel \in Channels : Publish(channel)
  BY <1>2, <1>14 DEF Publish
<1>15. CASE UNCHANGED vars
  BY <1>2, <1>15 DEF vars
<1> QED
  BY <1>3, <1>4, <1>5, <1>6, <1>7, <1>8, <1>9, <1>10, <1>11, <1>12, <1>13, <1>14, <1>15 DEF
        Next

(* One step keeps the whole invariant.                                     *)
LEMMA StepKeepsIInv == IInv /\ [Next]_vars => IInv'
<1> SUFFICES ASSUME IInv, [Next]_vars PROVE  IInv'
  OBVIOUS
<1>1. DiskOK /\ ScreenOK /\ MemoryOK /\ FlagsOK /\ TypeOK /\ WorkInv /\ GameInv /\ HelperInv
  BY TypeParts DEF IInv
<1>2. DiskOK' /\ ScreenOK' /\ MemoryOK' /\ FlagsOK'
  BY <1>1, StepKeepsDisk, StepKeepsScreen, StepKeepsMemory, StepKeepsFlags
<1>3. TypeOK'
  BY <1>2 DEF TypeOK, DiskOK, ScreenOK, MemoryOK, FlagsOK
<1>4. WorkInv' /\ GameInv' /\ HelperInv'
  BY <1>1, StepKeepsWork, StepKeepsGame, StepKeepsHelper
<1> QED
  BY <1>3, <1>4 DEF IInv

(* The invariant of every behaviour.                                       *)
LEMMA Inductive == Spec => []IInv
BY InitInv, StepKeepsIInv, PTL DEF Spec

-----------------------------------------------------------------------------
(* Every variable keeps its type, and what is installed stays installed.   *)
THEOREM TypeCorrect == Spec => []TypeOK
<1>1. IInv => TypeOK
  BY DEF IInv
<1> QED
  BY <1>1, Inductive, PTL

(* The version the launcher takes for that of the game                     *)
(* (pending_application_game_version, installed_version) is the version of *)
(* the player on the disk, unless it was discarded.                        *)
THEOREM GameStaysKnown == Spec => []GameIsKnown
<1>1. IInv => GameIsKnown
  BY DEF IInv, GameInv, GameIsKnown, CurrentGame, Absent
<1> QED
  BY <1>1, Inductive, PTL

(* What a step records as installed (promote_pending_launcher_metadata, or *)
(* a start that finds the launcher replaced) is installed: the game, the   *)
(* helper, the launcher, the manifest and the Content.                     *)
LEMMA StepRecordsWhole ==
    ASSUME IInv, [Next]_vars, disk'.version # disk.version
    PROVE  \A f \in Layers \cup {"manifest"} : disk'[f] = disk'.version
<1> USE LimitsAreNatural DEF Absent
<1> DEFINE release == disk.pendingVersion
<1>1. disk \in [Files -> 0 .. Last] /\ WorkInv /\ GameInv /\ HelperInv
  BY DEF IInv, TypeOK
<1>2. CASE PromoteVersion
  <2>1. disk' = Promoted(disk, "pendingVersion", "version") /\ at = "promote version"
    BY <1>2 DEF PromoteVersion
  <2> HIDE DEF release
  <2>2. /\ disk'.game = disk.game /\ disk'.helper = disk.helper
        /\ disk'.launcher = disk.launcher /\ disk'.content = disk.content
        /\ disk'.manifest = disk.manifest
        /\ disk'.version = IF release = Absent THEN disk.version ELSE release
    BY <1>1, <2>1 DEF release, Promoted, Files, Layers, Metadata, Pending
  <2>4. release # Absent /\ disk'.version = release
    BY <2>2
  <2>3. /\ disk.content = release /\ disk.helper = release /\ disk.launcher = release
        /\ disk.manifest = release /\ disk.game = release
    BY <1>1, <2>1, <2>4 DEF release, HelperInv, GameInv, Helping
  <2> QED
    BY <2>2, <2>3, <2>4 DEF Files, Layers, Metadata, Pending
<1>3. CASE Adopt
  <2> DEFINE launcher == Promoted(disk, "pendingLauncher", "launcherVersion")
             manifest == Promoted(disk, "pendingManifest", "manifest")
             version == Promoted(manifest, "pendingVersion", "version")
  <2>1. launcher \in [Files -> 0 .. Last] /\ manifest \in [Files -> 0 .. Last]
    BY <1>1, PromotedFiles DEF Files, Metadata, Pending
  <2>2. version \in [Files -> 0 .. Last]
    BY <2>1, PromotedFiles DEF Files, Metadata, Pending
  <2>3. launcher.version = disk.version /\ manifest.version = disk.version
    BY <1>1, PromotedFiles DEF Files, Metadata, Pending
  <2>4. /\ version.version = IF release = Absent THEN disk.version ELSE release
        /\ version.manifest = Completed
        /\ \A f \in Layers : version[f] = disk[f]
    BY <1>1, <2>1, PromotedFiles DEF Completed, PendingOr, Files, Layers, Metadata, Pending
  <2>5. /\ \E files \in {launcher, manifest, version} : disk' = [files EXCEPT !.resume = Absent]
        /\ disk' = [version EXCEPT !.resume = Absent] =>
               \/ ApplicationIsPromoted /\ ContentIsReady(Completed)
               \/ disk' = [launcher EXCEPT !.resume = Absent]
    BY <1>3 DEF Adopt, Begins, ManifestPromoted
  <2> HIDE DEF launcher, manifest, version
  <2>6. disk' = [version EXCEPT !.resume = Absent] /\ disk'.version = version.version
    BY <2>1, <2>2, <2>3, <2>5 DEF Files, Layers, Metadata, Pending
  <2>7. disk' # [launcher EXCEPT !.resume = Absent] /\ release # Absent
    BY <2>1, <2>3, <2>4, <2>6 DEF Files, Layers, Metadata, Pending
  <2>8. /\ disk.launcher = Completed /\ disk.helper = Completed /\ disk.content = Completed
        /\ Completed = release /\ disk.game = release
    BY <1>1, <2>5, <2>6, <2>7 DEF ApplicationIsPromoted, ContentIsReady, PendingOr, GameInv
  <2> QED
    BY <2>2, <2>4, <2>6, <2>7, <2>8 DEF Files, Layers, Metadata, Pending
<1>4. CASE UNCHANGED disk
  BY <1>4
<1>5. CASE Resume \/ GiveUp \/ Restart
  BY <1>1, <1>5 DEF Resume, GiveUp, Restart, Begins, Files, Layers, Metadata, Pending
<1>6. CASE Discard
  <2>1. PICK kept \in SUBSET Pending :
           disk' = [[f \in Files |-> IF f \in Pending \ kept THEN Absent ELSE disk[f]]
                       EXCEPT !.resume = Absent]
    BY <1>6 DEF Discard, Begins
  <2>2. disk'.version = disk.version
    BY <1>1, <2>1 DEF Files, Layers, Metadata, Pending
  <2> QED
    BY <2>2
<1>7. CASE ReplaceLauncher \/ SkipApplication \/ Play \/ UpdateContent
  BY <1>1, <1>7 DEF ReplaceLauncher, SkipApplication, Play, UpdateContent, Approves, Files,
        Layers, Metadata, Pending
<1>8. CASE PromoteLauncher
  <2>1. disk' = Promoted(disk, "pendingLauncher", "launcherVersion")
    BY <1>8 DEF PromoteLauncher
  <2>2. disk'.version = disk.version
    BY <1>1, <2>1, PromotedFiles DEF Files, Layers, Metadata, Pending
  <2> QED
    BY <2>2
<1>9. CASE PromoteManifest
  <2>1. disk' = Promoted(disk, "pendingManifest", "manifest")
    BY <1>9 DEF PromoteManifest, ManifestPromoted
  <2>2. disk'.version = disk.version
    BY <1>1, <2>1, PromotedFiles DEF Files, Layers, Metadata, Pending
  <2> QED
    BY <2>2
<1>10. CASE ScanContent
  <2>1. disk' \in {disk, [disk EXCEPT !.approved = Absent]}
    BY <1>10 DEF ScanContent, Approves
  <2> QED
    BY <1>1, <2>1 DEF Files, Layers, Metadata, Pending
<1>11. CASE Approve
  BY <1>1, <1>11 DEF Approve, ApplicationFails, Approves, Files, Layers, Metadata, Pending
<1>12. CASE Commit \/ UpdateLauncher
  BY <1>1, <1>12 DEF Commit, Committed, ApplicationFails, Approves, UpdateLauncher,
        LauncherStaged, Files, Layers, Metadata, Pending
<1>13. CASE \E file \in Losable : Lose(file)
  BY <1>1, <1>13, LosableArePending DEF Lose, Files, Layers, Metadata, Pending
<1> QED
  BY <1>2, <1>3, <1>4, <1>5, <1>6, <1>7, <1>8, <1>9, <1>10, <1>11, <1>12, <1>13 DEF Next,
        Choose, Open, HandOff, ScanLauncher, ScanApplication, ScanContentFails,
        SkipLauncher, Retry, StartApplication, SignIn, Back, Update, StartLauncherUpdate,
        StartRestart, Prepare, Quit, Kill, Publish, vars

(* Whatever is recorded as the installed version has been installed whole, *)
(* whether the helper got there or the start after a crash.                *)
THEOREM OnlyWholeIsRecorded == Spec => RecordedWhole
<1>1. IInv /\ [Next]_vars =>
        [disk'.version # disk.version =>
             \A f \in Layers \cup {"manifest"} : disk'[f] = disk'.version]_vars
  BY StepRecordsWhole
<1> QED
  BY <1>1, Inductive, PTL DEF Spec, RecordedWhole
==============================================================================
