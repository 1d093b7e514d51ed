-------------------------- MODULE InstallFlowProofs --------------------------
(***************************************************************************)
(* What holds of InstallFlow for every number of threads, every number of  *)
(* releases and every bound on the faults: its type invariant, that the    *)
(* operation guard is held by exactly one operation, and that a launch     *)
(* the guard does not forbid starts a coherent game; and with one thread   *)
(* beside the main one, that Content follows the game and an approval is   *)
(* kept.  Each is proved from invariants with one lemma per part of the    *)
(* state and, in it, one step per action.                                  *)
(***************************************************************************)
EXTENDS InstallFlow, TLAPS

(* The strengthening of the type invariant.  The game is always of a       *)
(* known release, and so is the one a rollback restores: what is pending,  *)
(* what a scan has compared and what the gate was asked for come from it.  *)
GameKnown ==
    /\ Game \in Releases
    /\ disk["game"].scratch = "record" => disk["game"].backup.version \in Releases
PendingKnown == pending.kind # "none" => pending.version \in Releases
GateKnown == screen = "gate" => asked \in Releases

(* The same of a job: an operation and a scan that found something to      *)
(* install know the release, and a thread that reports has a screen with   *)
(* a thread behind it.                                                     *)
IsOperation(j) == j.task \in {"game", "update", "install"}
IsApplying(j) == IsOperation(j) /\ j.at \in {"complete", "finish"}
Fit(j) ==
    /\ IsOperation(j) => j.version \in Releases
    /\ j.task = "scan" /\ j.at \in {"verify", "prompt"} => j.version \in Releases
    /\ j.task = "report" => j.next \notin {"gate", "closed"}

DiskFits == disk \in [Layers -> Layer] /\ GameKnown
NumbersFit ==
    /\ published \in Releases
    /\ approved \in Versions /\ asked \in Versions
    /\ offer \in Versions /\ player \in Versions
    /\ pending \in Pending /\ PendingKnown
JobsFit ==
    /\ job \in [Threads \cup {Main} -> Job]
    /\ \A t \in Threads : Fit(job[t])
ViewFits == ViewOK /\ GateKnown
TypeInv == DiskFits /\ NumbersFit /\ JobsFit /\ ViewFits /\ FlagsOK /\ faults \in Nat

(* The sets of numbers and screens.                                        *)
LEMMA ReleaseFacts ==
  /\ \A v \in Releases : v \in Versions
  /\ 0 \in Versions /\ 1 \in Releases
  /\ \A v \in Versions : v # 0 => v \in Releases
BY ReleasesArePositive DEF Releases, Versions

LEMMA ScreensAre ==
  Screens = {"closed", "busy", "gate", "retired", "choices", "signIn", "gameOffer", "gameFailed",
             "updateOffer", "updateFailed", "updateSignIn", "requiredSignIn", "readyToInstall",
             "installFailed", "upToDate", "launchFailed", "checkFailed", "checkFailedPlayable"}
BY DEF Screens, Buttons

(* The jobs threads are given, and what a change of one field leaves       *)
(* alone.                                                                  *)
LEMMA IdleFits ==
  /\ Idle \in Job /\ Fit(Idle) /\ ~IsOperation(Idle)
  /\ Idle.task = "none" /\ Idle.at = "start" /\ Idle.next = "closed" /\ Idle.version = 0
BY ReleaseFacts, ScreensAre DEF Idle, Job, Tasks, Steps, Fit, IsOperation

LEMMA WithTask ==
  ASSUME NEW j \in Job, NEW x \in Tasks
  PROVE  /\ [j EXCEPT !.task = x] \in Job
         /\ [j EXCEPT !.task = x].task = x
         /\ [j EXCEPT !.task = x].at = j.at
         /\ [j EXCEPT !.task = x].version = j.version
         /\ [j EXCEPT !.task = x].next = j.next
BY DEF Job

LEMMA WithAt ==
  ASSUME NEW j \in Job, NEW x \in Steps
  PROVE  /\ [j EXCEPT !.at = x] \in Job
         /\ [j EXCEPT !.at = x].at = x
         /\ [j EXCEPT !.at = x].task = j.task
         /\ [j EXCEPT !.at = x].version = j.version
         /\ [j EXCEPT !.at = x].finishes = j.finishes
         /\ [j EXCEPT !.at = x].next = j.next
BY DEF Job

LEMMA WithVersion ==
  ASSUME NEW j \in Job, NEW x \in Versions
  PROVE  /\ [j EXCEPT !.version = x] \in Job
         /\ [j EXCEPT !.version = x].version = x
         /\ [j EXCEPT !.version = x].task = j.task
         /\ [j EXCEPT !.version = x].at = j.at
         /\ [j EXCEPT !.version = x].next = j.next
BY DEF Job

LEMMA WithFinishes ==
  ASSUME NEW j \in Job, NEW x \in BOOLEAN
  PROVE  /\ [j EXCEPT !.finishes = x] \in Job
         /\ [j EXCEPT !.finishes = x].finishes = x
         /\ [j EXCEPT !.finishes = x].task = j.task
         /\ [j EXCEPT !.finishes = x].at = j.at
         /\ [j EXCEPT !.finishes = x].version = j.version
         /\ [j EXCEPT !.finishes = x].next = j.next
BY DEF Job

LEMMA WithNext ==
  ASSUME NEW j \in Job, NEW x \in Screens
  PROVE  /\ [j EXCEPT !.next = x] \in Job
         /\ [j EXCEPT !.next = x].next = x
         /\ [j EXCEPT !.next = x].task = j.task
         /\ [j EXCEPT !.next = x].at = j.at
         /\ [j EXCEPT !.next = x].version = j.version
BY DEF Job

LEMMA WithApproved ==
  ASSUME NEW j \in Job, NEW x \in Versions
  PROVE  /\ [j EXCEPT !.approved = x] \in Job
         /\ [j EXCEPT !.approved = x].approved = x
         /\ [j EXCEPT !.approved = x].task = j.task
         /\ [j EXCEPT !.approved = x].at = j.at
         /\ [j EXCEPT !.approved = x].version = j.version
         /\ [j EXCEPT !.approved = x].next = j.next
BY DEF Job

LEMMA ScanFits ==
  /\ Scan \in Job /\ Fit(Scan) /\ ~IsOperation(Scan)
  /\ \A step \in {"start", "read"} :
        LET j == [Scan EXCEPT !.at = step]
        IN  j \in Job /\ Fit(j) /\ ~IsOperation(j)
<1>1. Scan \in Job /\ Scan.task = "scan" /\ Scan.at = "start"
  BY IdleFits, WithTask DEF Scan, Tasks
<1>2. ASSUME NEW step \in {"start", "read"}
      PROVE  LET j == [Scan EXCEPT !.at = step] IN j \in Job /\ j.task = "scan" /\ j.at = step
  <2>1. step \in Steps
    BY DEF Steps
  <2> QED
    BY <1>1, <2>1, WithAt
<1> QED
  BY <1>1, <1>2 DEF Fit, IsOperation

LEMMA LaunchFits ==
  LET j == [Idle EXCEPT !.task = "launch"] IN j \in Job /\ Fit(j) /\ ~IsOperation(j)
<1> DEFINE j == [Idle EXCEPT !.task = "launch"]
<1>1. j \in Job /\ j.task = "launch"
  BY IdleFits, WithTask DEF Tasks
<1> QED
  BY <1>1 DEF Fit, IsOperation

LEMMA OperationFits ==
  ASSUME NEW task \in {"game", "update", "install"}, NEW version \in Releases,
         NEW finishes \in BOOLEAN
  PROVE  LET j == Operation(task, version, finishes)
         IN  /\ j \in Job /\ Fit(j) /\ IsOperation(j) /\ ~IsApplying(j)
             /\ j.task = task /\ j.at \in {"start", "fetch"} /\ j.version = version
             /\ j.finishes = finishes
<1> DEFINE step == IF task = "update" THEN "start" ELSE "fetch"
           j1 == [Idle EXCEPT !.task = task]
           j2 == [j1 EXCEPT !.at = step]
           j3 == [j2 EXCEPT !.version = version]
           j4 == [j3 EXCEPT !.finishes = finishes]
<1>1. task \in Tasks /\ step \in Steps /\ version \in Versions /\ step \in {"start", "fetch"}
  BY ReleaseFacts DEF Tasks, Steps
<1> HIDE DEF step
<1>2. j1 \in Job /\ j1.task = task
  BY <1>1, IdleFits, WithTask
<1> HIDE DEF j1
<1>3. j2 \in Job /\ j2.task = task /\ j2.at = step
  BY <1>1, <1>2, WithAt
<1> HIDE DEF j2
<1>4. j3 \in Job /\ j3.task = task /\ j3.at = step /\ j3.version = version
  BY <1>1, <1>3, WithVersion
<1> HIDE DEF j3
<1>5. /\ j4 \in Job /\ j4.task = task /\ j4.at = step /\ j4.version = version
      /\ j4.finishes = finishes
  BY <1>1, <1>4, WithFinishes
<1>6. Operation(task, version, finishes) = j4
  BY Zenon DEF Operation, j1, j2, j3, j4, step
<1> QED
  BY <1>1, <1>5, <1>6 DEF Fit, IsOperation, IsApplying

LEMMA ReportFits ==
  ASSUME NEW next \in Screens \ {"gate", "closed"}
  PROVE  /\ Report(next) \in Job /\ Fit(Report(next)) /\ ~IsOperation(Report(next))
         /\ Report(next).task = "report"
<1> DEFINE j1 == [Idle EXCEPT !.task = "report"]
<1>1. j1 \in Job /\ j1.task = "report"
  BY IdleFits, WithTask DEF Tasks
<1> HIDE DEF j1
<1>2. LET j2 == [j1 EXCEPT !.next = next] IN j2 \in Job /\ j2.task = "report" /\ j2.next = next
  BY <1>1, WithNext
<1>3. Report(next) = [j1 EXCEPT !.next = next]
  BY Zenon DEF Report, j1
<1> QED
  BY <1>2, <1>3 DEF Fit, IsOperation

(* A thread that goes on to another step of the same job.                  *)
LEMMA GoFits ==
  ASSUME JobsFit, NEW t \in Threads, NEW step \in Steps,
         job[t].task = "scan" /\ step \in {"verify", "prompt"} => job[t].version \in Releases
  PROVE  LET j == [job[t] EXCEPT !.at = step]
         IN  /\ j \in Job /\ Fit(j) /\ j.task = job[t].task /\ j.at = step
             /\ j.version = job[t].version /\ j.finishes = job[t].finishes
<1> DEFINE j == [job[t] EXCEPT !.at = step]
<1>1. job[t] \in Job /\ Fit(job[t])
  BY DEF JobsFit
<1>2. /\ j \in Job /\ j.at = step /\ j.task = job[t].task
      /\ j.version = job[t].version /\ j.finishes = job[t].finishes /\ j.next = job[t].next
  BY <1>1, WithAt
<1> HIDE DEF j
<1>3. Fit(j)
  BY <1>1, <1>2 DEF Fit, IsOperation
<1> QED
  BY <1>2, <1>3 DEF j

-----------------------------------------------------------------------------

(* How a step may move the guard: with no operation that starts or ends,   *)
(* taken by one that starts, dropped by one that ends, or dropped with     *)
(* the process.                                                            *)
GuardMoves ==
    \/ /\ guard' <=> guard
       /\ \A t \in Threads : IsOperation(job'[t]) <=> IsOperation(job[t])
    \/ /\ ~guard /\ guard'
       /\ \E t \in Threads :
             /\ IsOperation(job'[t])
             /\ \A u \in Threads \ {t} : IsOperation(job'[u]) <=> IsOperation(job[u])
    \/ /\ ~guard'
       /\ \E t \in Threads :
             /\ IsOperation(job[t]) /\ ~IsOperation(job'[t])
             /\ \A u \in Threads \ {t} : IsOperation(job'[u]) <=> IsOperation(job[u])
    \/ ~guard' /\ \A t \in Threads : ~IsOperation(job'[t])

(* No thread enters an operation in the middle of an apply.                *)
NewcomersStart == \A t \in Threads : ~IsOperation(job[t]) => ~IsApplying(job'[t])

JobStep == JobsFit' /\ GuardMoves /\ NewcomersStart

(* The ways the actions change jobs and the guard.                         *)
LEMMA SameStep == ASSUME JobsFit, UNCHANGED job, guard' <=> guard PROVE JobStep
BY DEF JobStep, JobsFit, GuardMoves, NewcomersStart, IsApplying

LEMMA BecomeFits ==
  ASSUME JobsFit, NEW t \in Threads \cup {Main}, NEW next \in Job, t \in Threads => Fit(next),
         Become(t, next)
  PROVE  JobsFit' /\ job'[t] = next /\ \A u \in Threads \ {t} : job'[u] = job[u]
BY MainIsApart DEF JobsFit, Become

LEMMA QuietStep ==
  ASSUME JobsFit, NEW t \in Threads, NEW next \in Job, Fit(next),
         IsOperation(next) <=> IsOperation(job[t]), Become(t, next), guard' <=> guard
  PROVE  JobStep
BY BecomeFits DEF JobStep, GuardMoves, NewcomersStart, IsApplying

LEMMA TakeStep ==
  ASSUME JobsFit, NEW t \in Threads, NEW next \in Job, Fit(next), IsOperation(next),
         ~IsApplying(next), Become(t, next), ~guard, guard'
  PROVE  JobStep
BY BecomeFits DEF JobStep, GuardMoves, NewcomersStart, IsApplying

LEMMA DropStep ==
  ASSUME JobsFit, NEW t \in Threads, NEW next \in Job, Fit(next), ~IsOperation(next),
         IsOperation(job[t]), Become(t, next), ~guard'
  PROVE  JobStep
BY BecomeFits DEF JobStep, GuardMoves, NewcomersStart, IsApplying

LEMMA MainStep ==
  ASSUME JobsFit, NEW next \in Job, Become(Main, next), guard' <=> guard
  PROVE  JobStep
BY MainIsApart DEF JobsFit, Become, JobStep, GuardMoves, NewcomersStart, IsApplying

LEMMA ExitStep == ASSUME Exit PROVE JobStep
<1>1. job' = [t \in Threads \cup {Main} |-> Idle] /\ ~guard'
  BY DEF Exit
<1> QED
  BY <1>1, IdleFits DEF JobStep, JobsFit, GuardMoves, NewcomersStart, IsApplying

LEMMA ScanStep ==
  ASSUME JobsFit, NEW step \in {"start", "read"}, StartScan(step) PROVE JobStep
<1> DEFINE next == [Scan EXCEPT !.at = step]
<1>1. next \in Job /\ Fit(next) /\ ~IsOperation(next)
  BY ScanFits
<1>2. PICK t \in Threads : job[t] = Idle /\ Become(t, next)
  BY DEF StartScan, Spawn
<1>3. ~IsOperation(job[t]) /\ (guard' <=> guard)
  BY <1>2, IdleFits DEF StartScan
<1> HIDE DEF next
<1> QED
  BY <1>1, <1>2, <1>3, QuietStep

LEMMA BeginStep ==
  ASSUME JobsFit, NEW task \in {"game", "update", "install"}, NEW version \in Releases,
         NEW finishes \in BOOLEAN, Begin(Operation(task, version, finishes))
  PROVE  JobStep
<1>1. CASE guard
  BY <1>1, SameStep DEF Begin
<1>2. CASE ~guard
  <2> DEFINE next == Operation(task, version, finishes)
  <2>1. PICK t \in Threads : Become(t, next)
    BY <1>2 DEF Begin, Spawn
  <2>2. next \in Job /\ Fit(next) /\ IsOperation(next) /\ ~IsApplying(next)
    BY OperationFits
  <2>3. guard'
    BY <1>2 DEF Begin
  <2> HIDE DEF next
  <2> QED
    BY <1>2, <2>1, <2>2, <2>3, TakeStep
<1> QED
  BY <1>1, <1>2

LEMMA EndStep ==
  ASSUME JobsFit, NEW t \in Threads \cup {Main}, End(t), ~IsOperation(job[t]), guard' <=> guard
  PROVE  JobStep
<1>1. CASE t = Main
  BY <1>1, IdleFits, MainStep DEF End
<1>2. CASE t \in Threads
  BY <1>2, IdleFits, QuietStep DEF End
<1> QED
  BY <1>1, <1>2

LEMMA GoStep ==
  ASSUME JobsFit, NEW t \in Threads, NEW step \in Steps, Go(t, step), guard' <=> guard,
         job[t].task = "scan" /\ step \in {"verify", "prompt"} => job[t].version \in Releases
  PROVE  JobStep
<1> DEFINE next == [job[t] EXCEPT !.at = step]
<1>1. next \in Job /\ Fit(next) /\ next.task = job[t].task
  BY GoFits
<1>2. Become(t, next)
  BY DEF Go
<1> HIDE DEF next
<1> QED
  BY <1>1, <1>2, QuietStep DEF IsOperation

LEMMA ReleaseStep ==
  ASSUME JobsFit, NEW t \in Threads, NEW next \in Screens \ {"gate", "closed"}, Release(t, next),
         IsOperation(job[t])
  PROVE  JobStep
<1>1. Report(next) \in Job /\ Fit(Report(next)) /\ ~IsOperation(Report(next))
  BY ReportFits
<1>2. Become(t, Report(next)) /\ ~guard'
  BY DEF Release
<1> QED
  BY <1>1, <1>2, DropStep

-----------------------------------------------------------------------------

(* Every action is one of these.                                           *)
LEMMA ScansMove == ASSUME TypeInv, NEW t \in Threads, Scans(t) PROVE JobStep
<1>0. JobsFit /\ Game \in Releases /\ t \in Threads \cup {Main} /\ job[t] \in Job
  BY DEF TypeInv, DiskFits, GameKnown, JobsFit
<1>1. CASE ScanRecovers(t)
  <2>1. guard' <=> guard
    BY <1>1 DEF ScanRecovers, memory
  <2>2. ~IsOperation(job[t]) /\ job[t].task = "scan"
    BY <1>1 DEF ScanRecovers, At, IsOperation
  <2>3. CASE Go(t, "channel")
    BY <1>0, <2>1, <2>2, <2>3, GoStep DEF Steps
  <2>4. CASE End(t)
    BY <1>0, <2>1, <2>2, <2>4, EndStep
  <2> QED
    BY <1>1, <2>3, <2>4 DEF ScanRecovers
<1>2. CASE ScanChecksGame(t)
  <2>1. guard' <=> guard
    BY <1>2 DEF ScanChecksGame
  <2>2. ~IsOperation(job[t]) /\ job[t].task = "scan"
    BY <1>2 DEF ScanChecksGame, At, IsOperation
  <2>3. CASE Go(t, "read")
    BY <1>0, <2>1, <2>2, <2>3, GoStep DEF Steps
  <2>4. CASE End(t)
    BY <1>0, <2>1, <2>2, <2>4, EndStep
  <2> QED
    BY <1>2, <2>3, <2>4 DEF ScanChecksGame
<1>3. CASE ScanReads(t)
  <2>1. guard' <=> guard
    BY <1>3 DEF ScanReads, memory
  <2>2. ~IsOperation(job[t]) /\ job[t].task = "scan"
    BY <1>3 DEF ScanReads, At, IsOperation
  <2> DEFINE k1 == [job[t] EXCEPT !.at = "decide"]
             k2 == [k1 EXCEPT !.version = Content]
             k3 == [k2 EXCEPT !.approved = approved]
  <2>3. Content \in Versions /\ approved \in Versions
    BY DEF TypeInv, DiskFits, Layers, Layer, State, Content, NumbersFit
  <2>4. "decide" \in Steps
    BY DEF Steps
  <2>5. k1 \in Job /\ k1.task = "scan" /\ k1.at = "decide"
    BY <1>0, <2>2, <2>4, WithAt
  <2> HIDE DEF k1
  <2>6. k2 \in Job /\ k2.task = "scan" /\ k2.at = "decide"
    BY <2>3, <2>5, WithVersion
  <2> HIDE DEF k2
  <2>7. k3 \in Job /\ k3.task = "scan" /\ k3.at = "decide"
    BY <2>3, <2>6, WithApproved
  <2>8. Become(t, k3)
    BY <1>3, Zenon DEF ScanReads, k3, k2, k1
  <2> HIDE DEF k3
  <2>9. Fit(k3) /\ ~IsOperation(k3)
    BY <2>7 DEF Fit, IsOperation
  <2> QED
    BY <1>0, <2>1, <2>2, <2>7, <2>8, <2>9, QuietStep
<1>4. CASE ScanDecides(t)
  <2>1. ~IsOperation(job[t]) /\ job[t].task = "scan"
    BY <1>4 DEF ScanDecides, At, IsOperation
  <2>2. CASE End(t) /\ guard' = guard
    BY <1>0, <2>1, <2>2, EndStep
  <2>3. CASE Go(t, "verify") /\ guard' = guard /\ job[t].version = Game
    BY <1>0, <2>1, <2>3, GoStep DEF Steps
  <2>4. CASE ~guard /\ guard' = TRUE /\ Become(t, Operation("update", Game, TRUE))
    <3> DEFINE next == Operation("update", Game, TRUE)
    <3>1. next \in Job /\ Fit(next) /\ IsOperation(next) /\ ~IsApplying(next)
      BY <1>0, OperationFits
    <3>2. Become(t, next)
      BY <2>4
    <3> HIDE DEF next
    <3> QED
      BY <1>0, <2>4, <3>1, <3>2, TakeStep
  <2>5. CASE /\ Become(t, [job[t] EXCEPT !.at = "prompt", !.version = Game])
             /\ guard' = guard
    <3> DEFINE k1 == [job[t] EXCEPT !.at = "prompt"]
               k2 == [k1 EXCEPT !.version = Game]
    <3>1. "prompt" \in Steps /\ Game \in Versions
      BY <1>0, ReleaseFacts DEF Steps
    <3>2. k1 \in Job /\ k1.task = "scan"
      BY <1>0, <2>1, <3>1, WithAt
    <3> HIDE DEF k1
    <3>3. k2 \in Job /\ k2.task = "scan" /\ k2.version = Game
      BY <3>1, <3>2, WithVersion
    <3>4. Become(t, k2)
      BY <2>5, Zenon DEF k2, k1
    <3> HIDE DEF k2
    <3>5. Fit(k2) /\ ~IsOperation(k2)
      BY <1>0, <3>3 DEF Fit, IsOperation
    <3> QED
      BY <1>0, <2>1, <2>5, <3>3, <3>4, <3>5, QuietStep
  <2> QED
    BY <1>4, <2>2, <2>3, <2>4, <2>5, Zenon DEF ScanDecides, ContinueApproved, ReleaseForGame
<1>5. CASE ScanFails(t)
  <2>1. guard' <=> guard
    BY <1>5 DEF ScanFails, memory
  <2>2. ~IsOperation(job[t]) /\ End(t)
    BY <1>5 DEF ScanFails, At, IsOperation
  <2> QED
    BY <1>0, <2>1, <2>2, EndStep
<1>6. CASE ScanVerifies(t)
  <2>1. guard' <=> guard
    BY <1>6 DEF ScanVerifies, memory
  <2>2. ~IsOperation(job[t]) /\ job[t].task = "scan" /\ job[t].version \in Releases
    BY <1>0, <1>6 DEF ScanVerifies, At, IsOperation, JobsFit, Fit
  <2>3. CASE Go(t, "prompt")
    BY <1>0, <2>1, <2>2, <2>3, GoStep DEF Steps
  <2>4. CASE End(t)
    BY <1>0, <2>1, <2>2, <2>4, EndStep
  <2> QED
    BY <1>6, <2>3, <2>4 DEF ScanVerifies
<1>7. CASE ScanPrompts(t)
  <2>1. guard' <=> guard
    BY <1>7 DEF ScanPrompts
  <2>2. ~IsOperation(job[t]) /\ End(t)
    BY <1>7 DEF ScanPrompts, At, IsOperation
  <2> QED
    BY <1>0, <2>1, <2>2, EndStep
<1> QED
  BY <1>1, <1>2, <1>3, <1>4, <1>5, <1>6, <1>7 DEF Scans

(* Who operates is an operation.                                           *)
LEMMA IsAnOperation == ASSUME NEW t \in Threads, Operates(t) PROVE IsOperation(job[t])
BY DEF Operates, GameFetched, UpdateRecovers, ContentFetched, ContentRefused,
       AuthorizationRequired, ArchiveGone, FetchFails, Stage, Commit, Complete, Finish,
       ApplyFails, Settles, At, Operating, IsOperation

LEMMA OperatesMove == ASSUME TypeInv, NEW t \in Threads, Operates(t) PROVE JobStep
<1>0. JobsFit /\ Game \in Releases /\ job[t] \in Job
  BY DEF TypeInv, DiskFits, GameKnown, JobsFit
<1> DEFINE failures == {"gameFailed", "updateFailed", "installFailed", "choices", "signIn",
                        "retired", "updateSignIn", "requiredSignIn", "upToDate"}
<1>1. FailureScreen(t) \in failures /\ \A b \in BOOLEAN : SignInScreen(b) \in failures
  BY DEF FailureScreen, SignInScreen
<1>2. \A s \in failures : s \in Screens \ {"gate", "closed"}
  BY ScreensAre
<1> HIDE DEF failures
<1>3. IsOperation(job[t])
  BY IsAnOperation
<1>4. ASSUME NEW next \in failures, Release(t, next) PROVE JobStep
  BY <1>0, <1>2, <1>3, <1>4, ReleaseStep
<1>5. ASSUME NEW step \in Steps, Go(t, step), guard' = guard PROVE JobStep
  <2>1. job[t].task # "scan"
    BY <1>3 DEF IsOperation
  <2> QED
    BY <1>0, <1>5, <2>1, GoStep
<1>6. CASE GameFetched(t)
  BY <1>5, <1>6 DEF GameFetched, memory, Steps
<1>7. CASE UpdateRecovers(t)
  <2>1. \/ Release(t, "updateFailed") \/ Release(t, "choices")
        \/ Go(t, "fetch") /\ guard' = guard
    BY <1>7, Zenon DEF UpdateRecovers
  <2>2. "updateFailed" \in failures /\ "choices" \in failures /\ "fetch" \in Steps
    BY DEF failures, Steps
  <2> QED
    BY <1>4, <1>5, <2>1, <2>2
<1>8. CASE ContentFetched(t)
  BY <1>5, <1>8 DEF ContentFetched, memory, Steps
<1>9. CASE ContentRefused(t) \/ FetchFails(t) \/ ApplyFails(t)
  BY <1>1, <1>4, <1>9 DEF ContentRefused, FetchFails, ApplyFails, OperationFails
<1>10. CASE AuthorizationRequired(t)
  <2>1. job[t].finishes \in BOOLEAN
    BY <1>0 DEF Job
  <2>2. SignInScreen(job[t].finishes) \in failures /\ "signIn" \in failures
    BY <1>1, <2>1 DEF failures
  <2> QED
    BY <1>4, <1>10, <2>2 DEF AuthorizationRequired
<1>11. CASE ArchiveGone(t)
  <2>1. "signIn" \in failures /\ "retired" \in failures
    BY DEF failures
  <2> QED
    BY <1>4, <1>11, <2>1 DEF ArchiveGone
<1>12. CASE Stage(t)
  BY <1>5, <1>12 DEF Stage, memory, Steps
<1>13. CASE Commit(t)
  BY <1>5, <1>13 DEF Commit, memory, Steps
<1>14. CASE Complete(t)
  BY <1>5, <1>14 DEF Complete, memory, Steps
<1>15. CASE Finish(t)
  <2>1. guard' = guard
    BY <1>15 DEF Finish
  <2>2. CASE job[t].task = "game"
    <3> DEFINE next == Operation("update", job[t].version, TRUE)
    <3>1. job[t].version \in Releases
      BY <1>0, <1>3 DEF JobsFit, Fit
    <3>2. next \in Job /\ Fit(next) /\ IsOperation(next)
      BY <3>1, OperationFits
    <3>3. Become(t, next)
      BY <1>15, <2>2 DEF Finish
    <3> HIDE DEF next
    <3> QED
      BY <1>0, <1>3, <2>1, <3>2, <3>3, QuietStep
  <2>3. CASE job[t].task # "game"
    BY <1>5, <1>15, <2>1, <2>3 DEF Finish, Steps
  <2> QED
    BY <2>2, <2>3
<1>16. CASE Settles(t)
  <2>1. CASE job[t].task = "update"
    <3>1. "upToDate" \in failures
      BY DEF failures
    <3> QED
      BY <1>4, <1>16, <2>1, <3>1 DEF Settles
  <2>2. CASE job[t].task # "update"
    <3> DEFINE next == [Idle EXCEPT !.task = "launch"]
    <3>1. next \in Job /\ Fit(next) /\ ~IsOperation(next)
      BY LaunchFits
    <3>2. Become(t, next) /\ ~guard'
      BY <1>16, <2>2 DEF Settles
    <3> HIDE DEF next
    <3> QED
      BY <1>0, <1>3, <3>1, <3>2, DropStep
  <2> QED
    BY <2>1, <2>2
<1> QED
  BY <1>6, <1>7, <1>8, <1>9, <1>10, <1>11, <1>12, <1>13, <1>14, <1>15, <1>16 DEF Operates

LEMMA LaunchesMove ==
  ASSUME TypeInv, NEW t \in Threads \cup {Main}, Launches(t) PROVE JobStep
<1>0. JobsFit /\ job[t] \in Job
  BY DEF TypeInv, JobsFit
<1>1. ~IsOperation(job[t]) /\ job[t].task = "launch"
  BY DEF Launches, LaunchRecovers, LaunchDecides, At, IsOperation
<1>2. CASE LaunchDecides(t) /\ Exit
  BY <1>2, ExitStep
<1>3. CASE End(t) /\ guard' = guard
  BY <1>0, <1>1, <1>3, EndStep
<1>4. CASE Go(t, "decide") /\ guard' = guard
  <2>1. CASE t \in Threads
    BY <1>0, <1>1, <1>4, <2>1, GoStep DEF Steps
  <2>2. CASE t = Main
    <3> DEFINE next == [job[t] EXCEPT !.at = "decide"]
    <3>1. "decide" \in Steps
      BY DEF Steps
    <3>2. next \in Job
      BY <1>0, <3>1, WithAt
    <3>3. Become(Main, next)
      BY <1>4, <2>2 DEF Go
    <3> HIDE DEF next
    <3> QED
      BY <1>0, <1>4, <3>2, <3>3, MainStep
  <2> QED
    BY <2>1, <2>2
<1> QED
  BY <1>2, <1>3, <1>4, Zenon DEF Launches, LaunchRecovers, LaunchDecides, memory

LEMMA ChoiceMoves == ASSUME TypeInv, NEW choice \in Choices, Choose(choice) PROVE JobStep
<1>0. JobsFit /\ Game \in Releases /\ pending \in Pending /\ PendingKnown /\ offer \in Versions
  BY DEF TypeInv, DiskFits, GameKnown, NumbersFit
<1>1. CASE Play
  <2> DEFINE next == [Idle EXCEPT !.task = "launch"]
  <2>1. next \in Job
    BY LaunchFits
  <2>2. Become(Main, next) /\ guard' = guard
    BY <1>1 DEF Play
  <2> HIDE DEF next
  <2> QED
    BY <1>0, <2>1, <2>2, MainStep
<1>2. CASE GameUpdateChosen
  <2>1. CASE StartScan("start")
    BY <1>0, <2>1, ScanStep
  <2>2. CASE UNCHANGED <<guard, job>>
    BY <1>0, <2>2, SameStep
  <2>3. CASE offer # 0 /\ Begin(Operation("game", offer, TRUE))
    BY <1>0, <2>3, ReleaseFacts, BeginStep
  <2> QED
    BY <1>2, <2>1, <2>2, <2>3 DEF GameUpdateChosen, StartGameUpdate
<1>3. CASE SkipGameUpdate
  BY <1>0, <1>3, ScanStep DEF SkipGameUpdate
<1>4. CASE RetryUpdateCheck
  BY <1>0, <1>4, ScanStep DEF RetryUpdateCheck
<1>5. pending.kind # "none" => pending.version \in Releases /\ pending.finishes \in BOOLEAN
  BY <1>0 DEF PendingKnown, Pending
<1>6. CASE InstallChosen
  <2>1. CASE pending.kind = "install" /\ StartInstall
    BY <1>0, <1>5, <2>1, BeginStep DEF StartInstall
  <2>2. CASE UNCHANGED <<guard, job>>
    BY <1>0, <2>2, SameStep
  <2> QED
    BY <1>6, <2>1, <2>2 DEF InstallChosen
<1>7. CASE UpdateChosen
  <2>1. CASE pending.kind = "update" /\ StartUpdate
    BY <1>0, <1>5, <2>1, BeginStep DEF StartUpdate
  <2>2. CASE StartScan("start")
    BY <1>0, <2>2, ScanStep
  <2> QED
    BY <1>7, <2>1, <2>2 DEF UpdateChosen
<1>8. CASE Back \/ SignIn \/ ChooseProvider
  BY <1>0, <1>8, SameStep DEF Back, SignIn, ChooseProvider
<1>9. CASE Exit
  BY <1>9, ExitStep
<1> QED
  BY <1>1, <1>2, <1>3, <1>4, <1>6, <1>7, <1>8, <1>9, Zenon DEF Choose

LEMMA WorldMoves == ASSUME TypeInv, World PROVE JobStep
<1>0. JobsFit /\ pending \in Pending /\ PendingKnown /\ offer \in Versions
  BY DEF TypeInv, NumbersFit
<1>1. CASE Open \/ Render \/ Publish \/ Damage \/ GateAnswers
  BY <1>0, <1>1, SameStep DEF Open, Render, Publish, Damage, GateAnswers, memory
<1>2. CASE Close \/ Kill
  BY <1>2, ExitStep DEF Close, Kill
<1>3. CASE PageLoads
  <2>1. CASE StartScan("start")
    BY <1>0, <2>1, ScanStep
  <2>2. CASE UNCHANGED <<guard, job>>
    BY <1>0, <2>2, SameStep
  <2>3. CASE offer # 0 /\ Begin(Operation("game", offer, TRUE))
    BY <1>0, <2>3, ReleaseFacts, BeginStep
  <2>4. pending.kind # "none" => pending.version \in Releases /\ pending.finishes \in BOOLEAN
    BY <1>0 DEF PendingKnown, Pending
  <2>5. CASE pending.kind = "install" /\ StartInstall
    BY <1>0, <2>4, <2>5, BeginStep DEF StartInstall
  <2>6. CASE pending.kind = "update" /\ StartUpdate
    BY <1>0, <2>4, <2>6, BeginStep DEF StartUpdate
  <2> QED
    BY <1>3, <2>1, <2>2, <2>3, <2>5, <2>6, Zenon DEF PageLoads, ResumeAfterGate, StartGameUpdate
<1> QED
  BY <1>1, <1>2, <1>3 DEF World

LEMMA ReportMoves == ASSUME TypeInv, NEW t \in Threads, Reports(t) PROVE JobStep
<1>1. JobsFit /\ End(t) /\ ~IsOperation(job[t]) /\ guard' = guard
  BY DEF TypeInv, Reports, IsOperation
<1> QED
  BY <1>1, EndStep

LEMMA AnyMoves == TypeInv /\ [Next]_vars => JobStep
<1> SUFFICES ASSUME TypeInv, [Next]_vars PROVE JobStep
  OBVIOUS
<1>1. CASE UNCHANGED vars
  BY <1>1, SameStep DEF vars, memory, TypeInv
<1> QED
  BY <1>1, WorldMoves, LaunchesMove, ScansMove, OperatesMove, ReportMoves, ChoiceMoves
     DEF Next, Works

LEMMA GuardStep == TypeInv /\ OneOperation /\ [Next]_vars => OneOperation'
<1> SUFFICES ASSUME TypeInv, OneOperation, [Next]_vars PROVE OneOperation'
  OBVIOUS
<1>1. GuardMoves
  BY AnyMoves DEF JobStep
<1>2. /\ \A t, u \in Threads : IsOperation(job[t]) /\ IsOperation(job[u]) => t = u
      /\ guard <=> \E t \in Threads : IsOperation(job[t])
  BY DEF OneOperation, Operating, IsOperation
<1>3. /\ \A t, u \in Threads : IsOperation(job'[t]) /\ IsOperation(job'[u]) => t = u
      /\ guard' <=> \E t \in Threads : IsOperation(job'[t])
  BY <1>1, <1>2, Zenon DEF GuardMoves
<1> QED
  BY <1>3 DEF OneOperation, Operating, IsOperation

-----------------------------------------------------------------------------

(* The layers.  Every action that changes one leaves a layer, and of the   *)
(* game a known release.                                                   *)
LEMMA DiskIs ==
  ASSUME DiskFits
  PROVE  /\ \A l \in Layers : disk[l] \in Layer
         /\ disk["game"] \in Layer /\ disk["content"] \in Layer
         /\ "game" \in Layers /\ "content" \in Layers
         /\ Game \in Releases /\ Content \in Versions
BY DEF DiskFits, GameKnown, Layers, Layer, State, Content

LEMMA SettledIs ==
  ASSUME NEW state \in State
  PROVE  /\ Settled(state) \in Layer /\ Settled(state).now = state
         /\ Settled(state).scratch = "none" /\ Settled(state).backup = Absent
         /\ Absent \in State /\ Absent.files = "none"
BY ReleaseFacts DEF Settled, Layer, State, Absent

LEMMA RecoveredIs ==
  ASSUME NEW layer \in Layer
  PROVE  /\ Recovered(layer) \in Layer
         /\ Recovered(layer).scratch = "none" /\ Recovered(layer).backup = Absent
         /\ Recovered(layer).now \in State
         /\ layer.scratch = "record" => Recovered(layer).now = layer.backup
         /\ layer.scratch # "record" => Recovered(layer).now = layer.now
<1> DEFINE state == IF layer.scratch = "record" THEN layer.backup ELSE layer.now
<1>1. state \in State
  BY DEF Layer
<1>2. Recovered(layer) = Settled(state)
  BY Zenon DEF Recovered
<1>3. /\ layer.scratch = "record" => state = layer.backup
      /\ layer.scratch # "record" => state = layer.now
  OBVIOUS
<1> HIDE DEF state
<1> QED
  BY <1>1, <1>2, <1>3, SettledIs

GameIsKnown(l, layer) ==
    l = "game" => /\ layer.now.version \in Releases
                  /\ layer.scratch = "record" => layer.backup.version \in Releases

LEMMA LayerBecomes ==
  ASSUME DiskFits, NEW l \in Layers, NEW layer \in Layer, GameIsKnown(l, layer),
         disk' = [disk EXCEPT ![l] = layer]
  PROVE  DiskFits' /\ disk'[l] = layer /\ \A m \in Layers \ {l} : disk'[m] = disk[m]
<1>1. /\ disk' \in [Layers -> Layer]
      /\ disk'[l] = layer /\ \A m \in Layers \ {l} : disk'[m] = disk[m]
  BY DEF DiskFits
<1>2. GameIsKnown("game", disk'["game"])
  <2>1. CASE l = "game"
    BY <1>1, <2>1
  <2>2. CASE l # "game"
    BY <1>1, <2>2, DiskIs DEF DiskFits, GameKnown, Game, GameIsKnown
  <2> QED
    BY <2>1, <2>2
<1> QED
  BY <1>1, <1>2 DEF DiskFits, GameKnown, Game, GameIsKnown

LEMMA OneRecovered ==
  ASSUME DiskFits, NEW l \in Layers, disk' = [disk EXCEPT ![l] = Recovered(@)]
  PROVE  /\ DiskFits' /\ disk'[l] = Recovered(disk[l])
         /\ \A m \in Layers \ {l} : disk'[m] = disk[m]
<1> DEFINE layer == Recovered(disk[l])
<1>1. layer \in Layer /\ GameIsKnown(l, layer)
  BY DiskIs, RecoveredIs DEF DiskFits, GameKnown, Game, GameIsKnown
<1>2. disk' = [disk EXCEPT ![l] = layer]
  OBVIOUS
<1> HIDE DEF layer
<1>3. DiskFits' /\ disk'[l] = layer /\ \A m \in Layers \ {l} : disk'[m] = disk[m]
  BY <1>1, <1>2, LayerBecomes
<1> QED
  BY <1>3 DEF layer

LEMMA BothRecovered ==
  ASSUME DiskFits, disk' = AllRecovered
  PROVE  DiskFits' /\ \A l \in Layers : disk'[l] = Recovered(disk[l])
<1>1. \A l \in Layers : disk'[l] = Recovered(disk[l]) /\ Recovered(disk[l]) \in Layer
  BY DiskIs, RecoveredIs DEF AllRecovered
<1>2. disk' \in [Layers -> Layer]
  BY <1>1 DEF AllRecovered
<1>3. GameIsKnown("game", Recovered(disk["game"]))
  BY DiskIs, RecoveredIs DEF DiskFits, GameKnown, Game, GameIsKnown
<1> QED
  BY <1>1, <1>2, <1>3, DiskIs DEF DiskFits, GameKnown, Game, GameIsKnown

LEMMA RecoveryFailsFits ==
  ASSUME DiskFits, RecoveryFails
  PROVE  DiskFits' /\ unrestored' = TRUE
BY OneRecovered, DiskIs DEF RecoveryFails, DiskFits, GameKnown, Game

LEMMA VerifiedIs ==
  ASSUME DiskFits,
         disk' = [disk EXCEPT !["content"] = Settled([Recovered(@).now EXCEPT !.files = "whole"])]
  PROVE  /\ DiskFits' /\ disk'["game"] = disk["game"]
         /\ disk'["content"].scratch = "none" /\ disk'["content"].backup = Absent
         /\ disk'["content"].now.files = "whole"
         /\ disk'["content"].now.version = Recovered(disk["content"]).now.version
<1> DEFINE was == Recovered(disk["content"]).now
           state == [was EXCEPT !.files = "whole"]
           layer == Settled(state)
<1>1. was \in State
  BY DiskIs, RecoveredIs
<1>2. disk' = [disk EXCEPT !["content"] = layer]
  OBVIOUS
<1> HIDE DEF was
<1>3. state \in State /\ state.files = "whole" /\ state.version = was.version
  BY <1>1 DEF State
<1> HIDE DEF state
<1>4. /\ layer \in Layer /\ layer.now = state /\ layer.scratch = "none" /\ layer.backup = Absent
      /\ GameIsKnown("content", layer)
  BY <1>3, SettledIs DEF GameIsKnown
<1> HIDE DEF layer
<1>5. DiskFits' /\ disk'["content"] = layer /\ disk'["game"] = disk["game"]
  BY <1>2, <1>4, DiskIs, LayerBecomes
<1> QED
  BY <1>3, <1>4, <1>5 DEF was

LEMMA LayerOfIs ==
  \A t \in Threads : LayerOf(t) \in Layers /\ (LayerOf(t) = "game" <=> job[t].task = "game")
BY DEF LayerOf, Layers

(* The steps of an apply change the layer of their operation only.         *)
LEMMA StageIs ==
  ASSUME DiskFits, NEW t \in Threads, Stage(t)
  PROVE  LET l == LayerOf(t)
         IN  /\ DiskFits' /\ disk'[l].scratch = "staged" /\ disk'[l].backup = Absent
             /\ disk'[l].now = Recovered(disk[l]).now
             /\ \A m \in Layers \ {l} : disk'[m] = disk[m]
<1> DEFINE l == LayerOf(t)
           was == Recovered(disk[l])
           layer == [was EXCEPT !.scratch = "staged"]
<1>1. l \in Layers
  BY LayerOfIs
<1>2. disk' = [disk EXCEPT ![l] = layer]
  BY DEF Stage
<1> HIDE DEF l
<1>3. was \in Layer /\ was.backup = Absent /\ GameIsKnown(l, was)
  BY <1>1, DiskIs, RecoveredIs DEF DiskFits, GameKnown, Game, GameIsKnown
<1> HIDE DEF was
<1>4. /\ layer \in Layer /\ layer.scratch = "staged"
      /\ layer.now = was.now /\ layer.backup = was.backup
  BY <1>3 DEF Layer
<1>5. GameIsKnown(l, layer)
  BY <1>3, <1>4 DEF GameIsKnown
<1> HIDE DEF layer
<1>6. DiskFits' /\ disk'[l] = layer /\ \A m \in Layers \ {l} : disk'[m] = disk[m]
  BY <1>1, <1>2, <1>4, <1>5, LayerBecomes
<1> QED
  BY <1>3, <1>4, <1>6 DEF was, l

LEMMA CommitIs ==
  ASSUME TypeInv, NEW t \in Threads, Commit(t)
  PROVE  LET l == LayerOf(t)
         IN  /\ DiskFits' /\ disk[l].scratch = "staged"
             /\ disk'[l].scratch = "record" /\ disk'[l].backup = disk[l].now
             /\ disk'[l].now.files = "mixed"
             /\ disk'[l].now.version \in {disk[l].now.version, job[t].version}
             /\ \A m \in Layers \ {l} : disk'[m] = disk[m]
<1> DEFINE l == LayerOf(t)
<1>1. l \in Layers /\ DiskFits /\ disk[l] \in Layer /\ disk[l].scratch = "staged"
  BY LayerOfIs, DiskIs DEF TypeInv, Commit
<1>2. job[t].version \in Releases
  BY DEF TypeInv, JobsFit, Fit, IsOperation, Commit, Operating
<1>3. PICK version \in {disk[l].now.version, job[t].version} :
         disk' = [disk EXCEPT ![l] = [now |-> [version |-> version, files |-> "mixed"],
                                      scratch |-> "record", backup |-> disk[l].now]]
  BY DEF Commit
<1> DEFINE layer == [now |-> [version |-> version, files |-> "mixed"],
                     scratch |-> "record", backup |-> disk[l].now]
<1>4. disk[l].now \in State /\ disk[l].now.version \in Versions
  BY <1>1 DEF Layer, State
<1>5. l = "game" => disk[l].now.version \in Releases
  BY DEF TypeInv, DiskFits, GameKnown, Game
<1> HIDE DEF l
<1>6. /\ layer \in Layer /\ layer.scratch = "record" /\ layer.backup = disk[l].now
      /\ layer.now.files = "mixed" /\ layer.now.version = version
  BY <1>2, <1>3, <1>4, ReleaseFacts DEF Layer, State
<1>7. GameIsKnown(l, layer)
  BY <1>2, <1>3, <1>5, <1>6 DEF GameIsKnown
<1>8. disk' = [disk EXCEPT ![l] = layer]
  BY <1>3
<1> HIDE DEF layer
<1>9. DiskFits' /\ disk'[l] = layer /\ \A m \in Layers \ {l} : disk'[m] = disk[m]
  BY <1>1, <1>6, <1>7, <1>8, LayerBecomes
<1> QED
  BY <1>1, <1>3, <1>6, <1>9 DEF l

LEMMA CompleteIs ==
  ASSUME TypeInv, NEW t \in Threads, Complete(t)
  PROVE  LET l == LayerOf(t)
         IN  /\ DiskFits' /\ disk[l].scratch = "record"
             /\ disk'[l].scratch = "record" /\ disk'[l].backup = disk[l].backup
             /\ disk'[l].now = [version |-> job[t].version, files |-> "whole"]
             /\ \A m \in Layers \ {l} : disk'[m] = disk[m]
<1> DEFINE l == LayerOf(t)
           was == disk[l]
           state == [version |-> job[t].version, files |-> "whole"]
           layer == [was EXCEPT !.now = state]
<1>1. l \in Layers /\ DiskFits /\ was \in Layer /\ was.scratch = "record"
  BY LayerOfIs, DiskIs DEF TypeInv, Complete
<1>2. job[t].version \in Releases
  BY DEF TypeInv, JobsFit, Fit, IsOperation, Complete, Operating
<1>3. disk' = [disk EXCEPT ![l] = layer]
  BY DEF Complete
<1>4. state \in State /\ state.version \in Releases
  BY <1>2, ReleaseFacts DEF State
<1>5. l = "game" => was.backup.version \in Releases
  BY <1>1 DEF DiskFits, GameKnown
<1> HIDE DEF l, was, state
<1>6. layer \in Layer /\ layer.scratch = "record" /\ layer.backup = was.backup /\ layer.now = state
  BY <1>1, <1>4 DEF Layer
<1>7. GameIsKnown(l, layer)
  BY <1>4, <1>5, <1>6 DEF GameIsKnown
<1> HIDE DEF layer
<1>9. DiskFits' /\ disk'[l] = layer /\ \A m \in Layers \ {l} : disk'[m] = disk[m]
  BY <1>1, <1>3, <1>6, <1>7, LayerBecomes
<1> QED
  BY <1>1, <1>6, <1>9 DEF l, was, state

LEMMA FinishIs ==
  ASSUME TypeInv, NEW t \in Threads, Finish(t)
  PROVE  LET l == LayerOf(t)
         IN  /\ DiskFits' /\ disk[l].scratch = "record"
             /\ disk'[l].scratch = "none" /\ disk'[l].backup = Absent
             /\ disk'[l].now = disk[l].now
             /\ \A m \in Layers \ {l} : disk'[m] = disk[m]
<1> DEFINE l == LayerOf(t)
           layer == Settled(disk[l].now)
<1>1. l \in Layers /\ DiskFits /\ disk[l] \in Layer /\ disk[l].scratch = "record"
  BY LayerOfIs, DiskIs DEF TypeInv, Finish
<1>2. disk[l].now \in State
  BY <1>1 DEF Layer
<1>3. disk' = [disk EXCEPT ![l] = layer]
  BY DEF Finish
<1>4. l = "game" => disk[l].now.version \in Releases
  BY DEF TypeInv, DiskFits, GameKnown, Game
<1> HIDE DEF l
<1>5. /\ layer \in Layer /\ layer.now = disk[l].now
      /\ layer.scratch = "none" /\ layer.backup = Absent
  BY <1>2, SettledIs
<1>6. GameIsKnown(l, layer)
  BY <1>4, <1>5 DEF GameIsKnown
<1> HIDE DEF layer
<1>7. DiskFits' /\ disk'[l] = layer /\ \A m \in Layers \ {l} : disk'[m] = disk[m]
  BY <1>1, <1>3, <1>5, <1>6, LayerBecomes
<1> QED
  BY <1>1, <1>5, <1>7 DEF l

LEMMA DamageIs ==
  ASSUME DiskFits, Damage
  PROVE  /\ DiskFits' /\ disk'["game"] = disk["game"]
         /\ disk["content"].scratch = "none" /\ disk'["content"].scratch = "none"
         /\ disk'["content"].backup = disk["content"].backup
         /\ disk'["content"].now.files \in {"none", "damaged"}
         /\ disk'["content"].now.version \in {Content, 0}
         /\ disk'["content"].now.files # "none" => disk'["content"].now.version = Content
<1> DEFINE was == disk["content"]
<1>1. PICK left \in {Absent, [version |-> Content, files |-> "damaged"]} :
         disk' = [disk EXCEPT !["content"].now = left]
  BY DEF Damage
<1> DEFINE layer == [was EXCEPT !.now = left]
<1>2. disk' = [disk EXCEPT !["content"] = layer]
  BY <1>1
<1>3. was \in Layer /\ was.scratch = "none"
  BY DiskIs DEF Damage
<1>4. /\ left \in State /\ left.files \in {"none", "damaged"} /\ left.version \in {Content, 0}
      /\ left.files # "none" => left.version = Content
  <2>1. Content \in Versions
    BY DiskIs
  <2> QED
    BY <1>1, <2>1, ReleaseFacts DEF State, Absent
<1> HIDE DEF was
<1>5. layer \in Layer /\ layer.scratch = "none" /\ layer.backup = was.backup /\ layer.now = left
  BY <1>3, <1>4 DEF Layer
<1> HIDE DEF layer
<1>6. DiskFits' /\ disk'["content"] = layer /\ disk'["game"] = disk["game"]
  BY <1>2, <1>5, DiskIs, LayerBecomes DEF GameIsKnown
<1> QED
  BY <1>3, <1>4, <1>5, <1>6 DEF was

(* So the layers are what the type invariant says after every action.      *)
LEMMA ScansKeepDisk == ASSUME TypeInv, NEW t \in Threads, Scans(t) PROVE DiskFits'
<1>0. DiskFits
  BY DEF TypeInv
<1>1. ASSUME disk' = disk PROVE DiskFits'
  BY <1>0, <1>1 DEF DiskFits, GameKnown, Game
<1>2. CASE ScanRecovers(t)
  BY <1>0, <1>2, BothRecovered, RecoveryFailsFits DEF ScanRecovers
<1>3. CASE ScanVerifies(t)
  BY <1>0, <1>1, <1>3, VerifiedIs DEF ScanVerifies
<1>4. CASE ScanChecksGame(t) \/ ScanReads(t) \/ ScanDecides(t) \/ ScanFails(t) \/ ScanPrompts(t)
  BY <1>1, <1>4 DEF ScanChecksGame, ScanReads, ScanDecides, ScanFails, ScanPrompts, store
<1> QED
  BY <1>2, <1>3, <1>4 DEF Scans

LEMMA OperatesKeepDisk == ASSUME TypeInv, NEW t \in Threads, Operates(t) PROVE DiskFits'
<1>0. DiskFits
  BY DEF TypeInv
<1>1. ASSUME disk' = disk PROVE DiskFits'
  BY <1>0, <1>1 DEF DiskFits, GameKnown, Game
<1>2. CASE UpdateRecovers(t)
  BY <1>0, <1>2, BothRecovered, RecoveryFailsFits DEF UpdateRecovers
<1>3. CASE Stage(t) \/ Commit(t) \/ Complete(t) \/ Finish(t)
  BY <1>0, <1>3, StageIs, CommitIs, CompleteIs, FinishIs
<1>4. CASE ApplyFails(t)
  BY <1>0, <1>1, <1>4, LayerOfIs, OneRecovered DEF ApplyFails
<1>5. CASE \/ GameFetched(t) \/ ContentFetched(t) \/ ContentRefused(t) \/ AuthorizationRequired(t)
           \/ ArchiveGone(t) \/ FetchFails(t) \/ Settles(t)
  BY <1>1, <1>5 DEF GameFetched, ContentFetched, ContentRefused, AuthorizationRequired,
                    ArchiveGone, FetchFails, Settles, store
<1> QED
  BY <1>2, <1>3, <1>4, <1>5 DEF Operates

LEMMA StepKeepsDisk == TypeInv /\ [Next]_vars => DiskFits'
<1> SUFFICES ASSUME TypeInv, [Next]_vars PROVE DiskFits'
  OBVIOUS
<1>0. DiskFits
  BY DEF TypeInv
<1>1. ASSUME disk' = disk PROVE DiskFits'
  BY <1>0, <1>1 DEF DiskFits, GameKnown, Game
<1>2. ASSUME NEW t \in Threads, Reports(t) PROVE DiskFits'
  BY <1>1, <1>2 DEF Reports, store
<1>3. ASSUME NEW t \in Threads \cup {Main}, Launches(t) PROVE DiskFits'
  BY <1>0, <1>1, <1>3, BothRecovered, RecoveryFailsFits
     DEF Launches, LaunchRecovers, LaunchDecides, store
<1>4. ASSUME NEW choice \in Choices, Choose(choice) PROVE DiskFits'
  BY <1>1, <1>4, Zenon
     DEF Choose, Play, GameUpdateChosen, SkipGameUpdate, RetryUpdateCheck, InstallChosen,
         UpdateChosen, Back, SignIn, ChooseProvider, store
<1>5. CASE Open
  BY <1>0, <1>5, BothRecovered, RecoveryFailsFits DEF Open
<1>6. CASE Damage
  BY <1>0, <1>6, DamageIs
<1>7. CASE Render \/ GateAnswers \/ PageLoads \/ Publish \/ Close \/ Kill
  BY <1>1, <1>7 DEF Render, GateAnswers, PageLoads, Publish, Close, Kill, store
<1>8. CASE UNCHANGED vars
  BY <1>1, <1>8 DEF vars, store
<1> QED
  BY <1>2, <1>3, <1>4, <1>5, <1>6, <1>7, <1>8, ScansKeepDisk, OperatesKeepDisk
     DEF Next, World, Works

-----------------------------------------------------------------------------

(* The numbers the launcher keeps, in memory and on the disk.              *)
LEMMA PendingIs ==
  /\ NoPending \in Pending /\ NoPending.kind = "none"
  /\ \A v \in Releases, b \in BOOLEAN :
        /\ Update(v, b) \in Pending /\ Update(v, b).version = v
        /\ FirstInstall(v) \in Pending /\ FirstInstall(v).version = v
BY ReleaseFacts DEF NoPending, Update, FirstInstall, Pending

LEMMA NumbersSame ==
  ASSUME NumbersFit, UNCHANGED <<published, approved, asked, offer, player, pending>>
  PROVE  NumbersFit'
BY DEF NumbersFit, PendingKnown

LEMMA ExitKeepsNumbers ==
  ASSUME NumbersFit, Exit, UNCHANGED <<published, approved>>, player' \in Versions
  PROVE  NumbersFit'
BY ReleaseFacts, PendingIs DEF NumbersFit, PendingKnown, Exit

LEMMA ScansKeepNumbers == ASSUME TypeInv, NEW t \in Threads, Scans(t) PROVE NumbersFit'
<1>0. NumbersFit /\ Game \in Releases
  BY DiskIs DEF TypeInv
<1>1. CASE ScanRecovers(t) \/ ScanReads(t) \/ ScanFails(t) \/ ScanVerifies(t)
  BY <1>0, <1>1, NumbersSame
     DEF ScanRecovers, ScanReads, ScanFails, ScanVerifies, store, memory, page, past
<1>2. CASE ScanChecksGame(t)
  BY <1>0, <1>2, ReleaseFacts DEF ScanChecksGame, NumbersFit, PendingKnown, store, page, past
<1>3. CASE ScanDecides(t)
  <2>1. UNCHANGED <<published, asked, offer, player>>
    BY <1>3 DEF ScanDecides, page, past
  <2>2. approved' \in {approved, 0}
    BY <1>3, Zenon DEF ScanDecides, ContinueApproved
  <2>3. pending' = pending \/ pending' = Update(Game, TRUE)
    BY <1>3, Zenon DEF ScanDecides, ContinueApproved, ReleaseForGame
  <2> QED
    BY <1>0, <2>1, <2>2, <2>3, ReleaseFacts, PendingIs DEF NumbersFit, PendingKnown
<1>4. CASE ScanPrompts(t)
  <2>1. job[t].version \in Releases /\ (Game # Content) \in BOOLEAN
    BY <1>4 DEF TypeInv, JobsFit, Fit, ScanPrompts, At
  <2>2. UNCHANGED <<published, asked, offer, player, approved>>
    BY <1>4 DEF ScanPrompts, page, past
  <2>3. pending' = Update(job[t].version, Game # Content)
    BY <1>4 DEF ScanPrompts
  <2>4. pending' \in Pending /\ pending'.version \in Releases
    BY <2>1, <2>3, PendingIs
  <2> QED
    BY <1>0, <2>2, <2>4 DEF NumbersFit, PendingKnown
<1> QED
  BY <1>1, <1>2, <1>3, <1>4 DEF Scans

LEMMA OperatesKeepNumbers == ASSUME TypeInv, NEW t \in Threads, Operates(t) PROVE NumbersFit'
<1>0. NumbersFit
  BY DEF TypeInv
<1>1. CASE \/ ContentFetched(t) \/ AuthorizationRequired(t) \/ ArchiveGone(t)
           \/ Stage(t) \/ Commit(t) \/ Complete(t)
  BY <1>0, <1>1, NumbersSame
     DEF ContentFetched, AuthorizationRequired, ArchiveGone, Stage, Commit, Complete,
         store, memory, page, past
<1>2. CASE ContentRefused(t) \/ FetchFails(t) \/ ApplyFails(t) \/ Settles(t)
  <2>1. UNCHANGED <<published, asked, offer, player, pending>>
    BY <1>2 DEF ContentRefused, FetchFails, ApplyFails, Settles, page, past
  <2>2. approved' \in {approved, 0}
    BY <1>2, Zenon DEF ContentRefused, FetchFails, ApplyFails, Settles, OperationFails
  <2> QED
    BY <1>0, <2>1, <2>2, ReleaseFacts DEF NumbersFit, PendingKnown
<1>3. CASE GameFetched(t)
  <2>1. job[t].version \in Releases
    BY <1>3 DEF TypeInv, JobsFit, Fit, IsOperation, GameFetched, At
  <2> QED
    BY <1>0, <1>3, <2>1, ReleaseFacts DEF GameFetched, NumbersFit, PendingKnown, memory, page, past
<1>4. CASE UpdateRecovers(t)
  <2>1. UNCHANGED <<published, asked, offer, player, approved>>
    BY <1>4 DEF UpdateRecovers, page
  <2>2. pending' = pending \/ pending' = NoPending
    BY <1>4, Zenon DEF UpdateRecovers
  <2> QED
    BY <1>0, <2>1, <2>2, PendingIs DEF NumbersFit, PendingKnown
<1>5. CASE Finish(t)
  <2>1. job[t].version \in Releases
    BY <1>5 DEF TypeInv, JobsFit, Fit, IsOperation, Finish, Operating
  <2>2. UNCHANGED <<published, asked, offer, player, approved>>
    BY <1>5 DEF Finish, page, past
  <2>3. pending' = pending \/ pending' = Update(job[t].version, TRUE)
    BY <1>5, Zenon DEF Finish
  <2> QED
    BY <1>0, <2>1, <2>2, <2>3, PendingIs DEF NumbersFit, PendingKnown
<1> QED
  BY <1>1, <1>2, <1>3, <1>4, <1>5 DEF Operates

LEMMA StepKeepsNumbers == TypeInv /\ [Next]_vars => NumbersFit'
<1> SUFFICES ASSUME TypeInv, [Next]_vars PROVE NumbersFit'
  OBVIOUS
<1>0. NumbersFit /\ Game \in Releases /\ Game \in Versions
  BY DiskIs, ReleaseFacts DEF TypeInv
<1>1. ASSUME NEW t \in Threads, Reports(t) PROVE NumbersFit'
  BY <1>0, <1>1, NumbersSame DEF Reports, ShowChoices, store, memory, page, past
<1>2. ASSUME NEW t \in Threads \cup {Main}, Launches(t) PROVE NumbersFit'
  <2>1. CASE LaunchRecovers(t)
    BY <1>0, <2>1, ReleaseFacts DEF LaunchRecovers, NumbersFit, PendingKnown, memory, page
  <2>2. CASE LaunchDecides(t)
    BY <1>0, <2>2, NumbersSame, ExitKeepsNumbers DEF LaunchDecides, NumbersFit, store, memory, page
  <2> QED
    BY <1>2, <2>1, <2>2 DEF Launches
<1>3. ASSUME NEW choice \in Choices, Choose(choice) PROVE NumbersFit'
  <2>1. CASE \/ Play \/ GameUpdateChosen \/ RetryUpdateCheck \/ InstallChosen \/ UpdateChosen
             \/ Back \/ SignIn
    BY <1>0, <2>1, NumbersSame
       DEF Play, GameUpdateChosen, RetryUpdateCheck, InstallChosen, UpdateChosen, Back, SignIn,
           ShowChoices, store, page, past
  <2>2. CASE SkipGameUpdate
    BY <1>0, <2>2, ReleaseFacts DEF SkipGameUpdate, NumbersFit, PendingKnown, store, page, past
  <2>3. CASE ChooseProvider
    BY <1>0, <2>3 DEF ChooseProvider, NumbersFit, PendingKnown, store, past
  <2>4. CASE Exit /\ UNCHANGED <<published, store, past, faults>>
    BY <1>0, <2>4, ExitKeepsNumbers DEF NumbersFit, store, past
  <2> QED
    BY <1>3, <2>1, <2>2, <2>3, <2>4, Zenon DEF Choose
<1>4. CASE Open
  BY <1>0, <1>4, ReleaseFacts DEF Open, NumbersFit, PendingKnown
<1>5. CASE Render \/ PageLoads \/ Damage
  BY <1>0, <1>5, NumbersSame DEF Render, PageLoads, Damage, store, memory, page, past
<1>6. CASE Publish
  BY <1>0, <1>6, ReleasesArePositive
     DEF Publish, NumbersFit, PendingKnown, Releases, store, memory, page, past
<1>7. CASE Close \/ Kill
  BY <1>0, <1>7, ExitKeepsNumbers DEF Close, Kill, NumbersFit, store, past
<1>8. CASE GateAnswers
  <2>1. asked \in Releases /\ asked' = 0
    BY <1>8 DEF GateAnswers, TypeInv, ViewFits, GateKnown
  <2>2. UNCHANGED <<published, approved, offer, player>>
    BY <1>8 DEF GateAnswers, past
  <2>3. pending' = pending \/ pending' = FirstInstall(asked)
    BY <1>8, Zenon DEF GateAnswers
  <2> QED
    BY <1>0, <2>1, <2>2, <2>3, ReleaseFacts, PendingIs DEF NumbersFit, PendingKnown
<1>9. CASE UNCHANGED vars
  BY <1>0, <1>9, NumbersSame DEF vars, store, memory, page, past
<1> QED
  BY <1>1, <1>2, <1>3, <1>4, <1>5, <1>6, <1>7, <1>8, <1>9, ScansKeepNumbers, OperatesKeepNumbers
     DEF Next, World, Works

-----------------------------------------------------------------------------

(* The screens: what an action writes is neither the gate nor the closed   *)
(* window, unless the gate is opened for the installed game or the process *)
(* ends; and no action takes the guard without writing another.            *)
Written == Screens \ {"gate", "closed"}
ScreenMoves ==
    \/ Exit
    \/ /\ shown' \in {shown, screen}
       /\ \/ screen' = screen /\ asked' = asked /\ (guard' => guard)
          \/ screen' \in Written
          \/ screen' = "gate" /\ asked' = Game /\ ~guard /\ ~guard'

LEMMA WrittenAre ==
  \A s \in {"busy", "choices", "signIn", "gameOffer", "updateOffer", "updateSignIn",
            "requiredSignIn", "readyToInstall", "upToDate", "launchFailed", "checkFailed",
            "checkFailedPlayable"} : s \in Written
BY ScreensAre DEF Written

LEMMA StartsShow ==
  /\ \A step : StartScan(step) => screen' = "busy"
  /\ \A next : Begin(next) => screen' = "busy" \/ UNCHANGED <<screen, guard>>
BY Zenon DEF StartScan, Begin, Write

LEMMA GameStartsShow ==
  \A waits : StartGameUpdate(waits) =>
                screen' \in {"busy", "updateSignIn"} \/ UNCHANGED <<screen, guard>>
BY StartsShow, Zenon DEF StartGameUpdate, Write

LEMMA ScansShow == ASSUME NEW t \in Threads, Scans(t) PROVE ScreenMoves
<1>1. asked' = asked /\ shown' = shown
  BY DEF Scans, ScanRecovers, ScanChecksGame, ScanReads, ScanDecides, ScanFails, ScanVerifies,
         ScanPrompts, memory, page, view
<1>2. \/ UNCHANGED <<screen, guard>>
      \/ screen' \in {"checkFailed", "gameOffer", "readyToInstall", "signIn", "requiredSignIn",
                      "busy", "checkFailedPlayable", "upToDate", "updateOffer", "updateSignIn"}
  <2>1. CASE ScanRecovers(t) \/ ScanChecksGame(t) \/ ScanReads(t)
    BY <2>1 DEF ScanRecovers, ScanChecksGame, ScanReads, Write, memory, view
  <2>2. CASE ScanDecides(t)
    BY <2>2 DEF ScanDecides, ContinueApproved, Write
  <2>3. CASE ScanFails(t) \/ ScanVerifies(t)
    BY <2>3 DEF ScanFails, ScanVerifies, Write, memory
  <2>4. CASE ScanPrompts(t)
    BY <2>4 DEF ScanPrompts, SignInScreen, Write
  <2> QED
    BY <2>1, <2>2, <2>3, <2>4 DEF Scans
<1> QED
  BY <1>1, <1>2, WrittenAre DEF ScreenMoves

LEMMA OperatesShow == ASSUME NEW t \in Threads, Operates(t) PROVE ScreenMoves
<1>1. asked' = asked /\ shown' = shown /\ screen' = screen
  BY DEF Operates, GameFetched, UpdateRecovers, ContentFetched, ContentRefused,
         AuthorizationRequired, ArchiveGone, FetchFails, Stage, Commit, Complete, Finish,
         ApplyFails, Settles, memory, page, view
<1>2. guard' = guard \/ guard' = FALSE
  BY Zenon
     DEF Operates, OperationFails, Release, GameFetched, UpdateRecovers, ContentFetched,
         ContentRefused, AuthorizationRequired, ArchiveGone, FetchFails, Stage, Commit, Complete,
         Finish, ApplyFails, Settles, memory
<1> QED
  BY <1>1, <1>2 DEF ScreenMoves

LEMMA ChoiceShows == ASSUME TypeInv, NEW choice \in Choices, Choose(choice) PROVE ScreenMoves
<1>1. CASE Exit
  BY <1>1 DEF ScreenMoves
<1>2. CASE ChooseProvider
  BY <1>2 DEF Choose, ChooseProvider, Write, ScreenMoves
<1>3. CASE ~Exit /\ ~ChooseProvider
  <2>1. asked' = asked /\ shown' = shown
    BY <1>3, Zenon
       DEF Choose, Play, GameUpdateChosen, SkipGameUpdate, RetryUpdateCheck, InstallChosen,
           UpdateChosen, Back, SignIn, ShowChoices, page, view
  <2>2. \/ UNCHANGED <<screen, guard>>
        \/ screen' \in {"busy", "updateSignIn", "signIn", "choices"}
    <3>1. CASE Play \/ Back \/ SignIn
      BY <3>1 DEF Play, Back, SignIn, ShowChoices, Write, view
    <3>2. CASE GameUpdateChosen \/ SkipGameUpdate \/ RetryUpdateCheck
      BY <3>2, StartsShow, GameStartsShow DEF GameUpdateChosen, SkipGameUpdate, RetryUpdateCheck
    <3>3. CASE InstallChosen \/ UpdateChosen
      BY <3>3, StartsShow
         DEF InstallChosen, UpdateChosen, StartInstall, StartUpdate, Write
    <3> QED
      BY <1>3, <3>1, <3>2, <3>3, Zenon DEF Choose
  <2> QED
    BY <2>1, <2>2, WrittenAre DEF ScreenMoves
<1> QED
  BY <1>1, <1>2, <1>3

LEMMA WorldShows == ASSUME World PROVE ScreenMoves
<1>1. CASE Close \/ Kill
  BY <1>1 DEF Close, Kill, ScreenMoves
<1>2. CASE Open
  BY <1>2, WrittenAre DEF Open, Write, ScreenMoves
<1>3. CASE Render \/ Publish \/ Damage
  BY <1>3 DEF Render, Publish, Damage, memory, page, view, ScreenMoves
<1>4. CASE GateAnswers
  BY <1>4, WrittenAre DEF GateAnswers, Write, ScreenMoves
<1>5. CASE PageLoads
  <2>1. asked' = asked /\ shown' = shown
    BY <1>5 DEF PageLoads
  <2>2. UNCHANGED <<screen, guard>> \/ screen' \in {"busy", "updateSignIn"}
    BY <1>5, StartsShow, GameStartsShow, Zenon
       DEF PageLoads, ResumeAfterGate, StartInstall, StartUpdate
  <2> QED
    BY <2>1, <2>2, WrittenAre DEF ScreenMoves
<1> QED
  BY <1>1, <1>2, <1>3, <1>4, <1>5 DEF World

LEMMA ReportShows == ASSUME TypeInv, NEW t \in Threads, Reports(t) PROVE ScreenMoves
<1>1. job[t].next \in Written
  BY DEF Reports, TypeInv, JobsFit, Job, Fit, Written
<1>2. asked' = asked /\ shown' = shown /\ screen' = job[t].next
  BY Zenon DEF Reports, ShowChoices, Write, page
<1> QED
  BY <1>1, <1>2 DEF ScreenMoves

LEMMA LaunchShows == ASSUME NEW t \in Threads \cup {Main}, Launches(t) PROVE ScreenMoves
<1>1. CASE LaunchRecovers(t)
  BY <1>1, WrittenAre DEF LaunchRecovers, Write, memory, page, ScreenMoves
<1>2. CASE LaunchDecides(t)
  BY <1>2, WrittenAre DEF LaunchDecides, Write, memory, page, ScreenMoves
<1> QED
  BY <1>1, <1>2 DEF Launches

LEMMA AnyShows == TypeInv /\ [Next]_vars => ScreenMoves
<1> SUFFICES ASSUME TypeInv, [Next]_vars PROVE ScreenMoves
  OBVIOUS
<1>1. CASE UNCHANGED vars
  BY <1>1 DEF vars, memory, page, view, ScreenMoves
<1> QED
  BY <1>1, ScansShow, OperatesShow, ReportShows, LaunchShows, ChoiceShows, WorldShows
     DEF Next, Works

LEMMA StepKeepsView == TypeInv /\ [Next]_vars => ViewFits'
<1> SUFFICES ASSUME TypeInv, [Next]_vars PROVE ViewFits'
  OBVIOUS
<1>1. ViewFits /\ ScreenMoves
  BY AnyShows DEF TypeInv
<1>2. CASE Exit
  BY <1>2, ScreensAre DEF Exit, ViewFits, ViewOK, GateKnown
<1>3. CASE ~Exit
  BY <1>1, <1>3, ScreensAre, DiskIs DEF ScreenMoves, Written, ViewFits, ViewOK, GateKnown, TypeInv
<1> QED
  BY <1>2, <1>3

-----------------------------------------------------------------------------

(* The flags.                                                              *)
LEMMA ExitKeepsFlags == FlagsOK /\ Exit /\ UNCHANGED <<session, unrestored>> => FlagsOK'
BY Zenon DEF Exit, FlagsOK

LEMMA StartsKeepGuard ==
  /\ \A step : StartScan(step) => guard' = guard
  /\ \A next : guard \in BOOLEAN /\ Begin(next) => guard' \in BOOLEAN
  /\ \A waits \in BOOLEAN : guard \in BOOLEAN /\ StartGameUpdate(waits) =>
        guard' \in BOOLEAN /\ waiting' \in BOOLEAN
BY Zenon DEF StartScan, Begin, StartGameUpdate

LEMMA ScansKeepFlags == ASSUME FlagsOK, NEW t \in Threads, Scans(t) PROVE FlagsOK'
<1>1. CASE ScanRecovers(t) \/ ScanChecksGame(t) \/ ScanReads(t) \/ ScanFails(t)
  BY <1>1, Zenon DEF ScanRecovers, ScanChecksGame, ScanReads, ScanFails, RecoveryFails,
                     FlagsOK, memory, page, store, past
<1>2. CASE ScanDecides(t)
  BY <1>2, Zenon DEF ScanDecides, ContinueApproved, FlagsOK, page, past
<1>3. CASE ScanVerifies(t)
  BY <1>3, Zenon DEF ScanVerifies, FlagsOK, memory, page, past
<1>4. CASE ScanPrompts(t)
  BY <1>4, Zenon DEF ScanPrompts, FlagsOK, page, past
<1> QED
  BY <1>1, <1>2, <1>3, <1>4 DEF Scans

LEMMA OperatesKeepFlags == ASSUME FlagsOK, NEW t \in Threads, Operates(t) PROVE FlagsOK'
<1>1. CASE \/ GameFetched(t) \/ ContentFetched(t) \/ Stage(t) \/ Commit(t) \/ Complete(t)
           \/ Finish(t)
  BY <1>1, Zenon DEF GameFetched, ContentFetched, Stage, Commit, Complete, Finish, FlagsOK,
                     memory, page, store, past
<1>2. CASE UpdateRecovers(t) \/ ContentRefused(t) \/ AuthorizationRequired(t)
  BY <1>2, Zenon DEF UpdateRecovers, RecoveryFails, ContentRefused, AuthorizationRequired,
                     OperationFails, Release, FlagsOK, page, past
<1>3. CASE ArchiveGone(t) \/ FetchFails(t) \/ ApplyFails(t) \/ Settles(t)
  BY <1>3, Zenon DEF ArchiveGone, FetchFails, ApplyFails, Settles, OperationFails, Release,
                     FlagsOK, page, store, past
<1> QED
  BY <1>1, <1>2, <1>3 DEF Operates

LEMMA ChoiceKeepsFlags == ASSUME FlagsOK, NEW choice \in Choices, Choose(choice) PROVE FlagsOK'
<1>0. guard \in BOOLEAN /\ waiting \in BOOLEAN
  BY DEF FlagsOK
<1>1. CASE Play \/ RetryUpdateCheck \/ SkipGameUpdate
  BY <1>1, StartsKeepGuard, Zenon
     DEF Play, RetryUpdateCheck, SkipGameUpdate, FlagsOK, page, store, past
<1>2. CASE GameUpdateChosen
  BY <1>0, <1>2, StartsKeepGuard, Zenon DEF GameUpdateChosen, FlagsOK, page, store, past
<1>3. CASE InstallChosen \/ UpdateChosen
  <2>1. guard' \in BOOLEAN
    BY <1>0, <1>3, StartsKeepGuard, Zenon DEF InstallChosen, UpdateChosen, StartInstall, StartUpdate
  <2> QED
    BY <1>3, <2>1, Zenon DEF InstallChosen, UpdateChosen, FlagsOK, page, store, past
<1>4. CASE Back \/ SignIn \/ ChooseProvider
  BY <1>4, Zenon DEF Back, SignIn, ChooseProvider, ShowChoices, FlagsOK, page, store, past
<1>5. CASE Exit /\ UNCHANGED <<published, store, past, faults>>
  BY <1>5, ExitKeepsFlags, Zenon DEF store, past
<1> QED
  BY <1>1, <1>2, <1>3, <1>4, <1>5, Zenon DEF Choose

LEMMA WorldKeepsFlags == ASSUME FlagsOK, World PROVE FlagsOK'
<1>0. guard \in BOOLEAN /\ waiting \in BOOLEAN /\ FALSE \in BOOLEAN
  BY Zenon DEF FlagsOK
<1>1. CASE Open \/ GateAnswers
  BY <1>1, Zenon DEF Open, GateAnswers, RecoveryFails, FlagsOK, past
<1>2. CASE Render \/ Publish \/ Damage
  BY <1>2, Zenon DEF Render, Publish, Damage, FlagsOK, memory, page, store, past
<1>3. CASE Close \/ Kill
  BY <1>3, ExitKeepsFlags, Zenon DEF Close, Kill, store, past
<1>4. CASE PageLoads
  <2>1. guard' \in BOOLEAN /\ waiting' \in BOOLEAN
    BY <1>0, <1>4, StartsKeepGuard, Zenon DEF PageLoads, ResumeAfterGate, StartInstall, StartUpdate
  <2> QED
    BY <1>4, <2>1, Zenon DEF PageLoads, FlagsOK, store, past
<1> QED
  BY <1>1, <1>2, <1>3, <1>4 DEF World

LEMMA StepKeepsFlags == FlagsOK /\ [Next]_vars => FlagsOK'
<1> SUFFICES ASSUME FlagsOK, [Next]_vars PROVE FlagsOK'
  OBVIOUS
<1>1. CASE UNCHANGED vars
  BY <1>1, Zenon DEF vars, FlagsOK, memory, page, store, past
<1>2. ASSUME NEW t \in Threads, Reports(t) PROVE FlagsOK'
  BY <1>2, Zenon DEF Reports, ShowChoices, FlagsOK, page, store, past
<1>3. ASSUME NEW t \in Threads \cup {Main}, Launches(t) PROVE FlagsOK'
  <2>1. CASE LaunchRecovers(t)
    BY <2>1, Zenon DEF LaunchRecovers, RecoveryFails, FlagsOK, memory, page
  <2>2. CASE LaunchDecides(t)
    BY <2>2, ExitKeepsFlags, Zenon DEF LaunchDecides, FlagsOK, memory, page, store
  <2> QED
    BY <1>3, <2>1, <2>2 DEF Launches
<1> QED
  BY <1>1, <1>2, <1>3, ScansKeepFlags, OperatesKeepFlags, ChoiceKeepsFlags, WorldKeepsFlags
     DEF Next, Works

-----------------------------------------------------------------------------

(* The count of faults, and the whole.                                     *)
LEMMA StepKeepsFaults == faults \in Nat /\ [Next]_vars => faults' \in Nat
<1> SUFFICES ASSUME faults \in Nat, [Next]_vars PROVE faults' \in Nat
  OBVIOUS
<1>1. ASSUME Fault \/ UNCHANGED faults PROVE faults' \in Nat
  BY <1>1 DEF Fault
<1>2. ASSUME NEW t \in Threads, Scans(t) PROVE Fault \/ UNCHANGED faults
  BY <1>2, Zenon DEF Scans, ScanRecovers, ScanChecksGame, ScanReads, ScanDecides, ScanFails,
                     ScanVerifies, ScanPrompts, RecoveryFails, past
<1>3. ASSUME NEW t \in Threads, Operates(t) PROVE Fault \/ UNCHANGED faults
  BY <1>3, Zenon DEF Operates, GameFetched, UpdateRecovers, ContentFetched, ContentRefused,
                     AuthorizationRequired, ArchiveGone, FetchFails, Stage, Commit, Complete,
                     Finish, ApplyFails, Settles, RecoveryFails
<1>4. ASSUME NEW t \in Threads \cup {Main}, Launches(t) PROVE Fault \/ UNCHANGED faults
  BY <1>4, Zenon DEF Launches, LaunchRecovers, LaunchDecides, RecoveryFails
<1>5. ASSUME NEW t \in Threads, Reports(t) PROVE Fault \/ UNCHANGED faults
  BY <1>5, Zenon DEF Reports
<1>6. ASSUME NEW choice \in Choices, Choose(choice) PROVE Fault \/ UNCHANGED faults
  BY <1>6, Zenon DEF Choose, Play, GameUpdateChosen, SkipGameUpdate, RetryUpdateCheck,
                     InstallChosen, UpdateChosen, Back, SignIn, ChooseProvider
<1>7. ASSUME World PROVE Fault \/ UNCHANGED faults
  BY <1>7, Zenon DEF World, Open, Render, GateAnswers, PageLoads, Publish, Damage, Close, Kill,
                     RecoveryFails
<1>8. ASSUME UNCHANGED vars PROVE UNCHANGED faults
  BY <1>8, Zenon DEF vars
<1> QED
  BY <1>1, <1>2, <1>3, <1>4, <1>5, <1>6, <1>7, <1>8, Zenon DEF Next, Works

LEMMA InitFits == Init => TypeInv
<1> SUFFICES ASSUME Init PROVE TypeInv
  OBVIOUS
<1>1. DiskFits
  <2>1. PICK content \in {Absent, [version |-> 1, files |-> "unverified"]} :
           disk = [game |-> Settled([version |-> 1, files |-> "whole"]),
                   content |-> Settled(content)]
    BY DEF Init
  <2>2. [version |-> 1, files |-> "whole"] \in State /\ content \in State
    BY <2>1, ReleaseFacts DEF State, Absent
  <2> DEFINE game == Settled([version |-> 1, files |-> "whole"])
             other == Settled(content)
  <2>3. game \in Layer /\ other \in Layer /\ game.now.version = 1 /\ game.scratch = "none"
    BY <2>2, SettledIs
  <2>4. disk = [game |-> game, content |-> other]
    BY <2>1
  <2> HIDE DEF game, other
  <2> QED
    BY <2>3, <2>4, ReleaseFacts DEF DiskFits, GameKnown, Game, Layers
<1>2. NumbersFit
  BY ReleaseFacts, PendingIs DEF Init, NoMemory, NumbersFit, PendingKnown
<1>3. JobsFit
  BY IdleFits DEF Init, NoMemory, JobsFit
<1>4. ViewFits
  BY ScreensAre DEF Init, NoMemory, ViewFits, ViewOK, GateKnown
<1>5. FlagsOK
  BY Zenon DEF Init, NoMemory, FlagsOK
<1> QED
  BY <1>1, <1>2, <1>3, <1>4, <1>5 DEF TypeInv, Init

LEMMA StepFits == TypeInv /\ [Next]_vars => TypeInv'
<1>1. TypeInv => FlagsOK /\ faults \in Nat
  BY DEF TypeInv
<1> QED
  BY <1>1, AnyMoves, StepKeepsDisk, StepKeepsNumbers, StepKeepsView, StepKeepsFlags, StepKeepsFaults
     DEF JobStep, TypeInv

LEMMA TypesFit == TypeInv => TypeOK
BY DEF TypeInv, DiskFits, NumbersFit, JobsFit, Fit, IsOperation, Operating, ViewFits,
       TypeOK, DiskOK, ThreadsOK

(* Every state of every behaviour is of the types InstallFlow declares,    *)
(* and an operation always knows the release it installs                   *)
(* (begin_install_operation and its callers).                              *)
THEOREM TypeCorrect == Spec => []TypeOK
BY InitFits, StepFits, TypesFit, PTL DEF Spec

(* INSTALL_OPERATION_IN_PROGRESS is set exactly while one thread           *)
(* operates, and never two do, however many threads scan, report and       *)
(* launch beside it.                                                       *)
THEOREM GuardHoldsOneOperation == Spec => []OneOperation
<1>1. Init => OneOperation
  BY IdleFits DEF Init, NoMemory, OneOperation, Operating, IsOperation
<1> QED
  BY <1>1, InitFits, StepFits, GuardStep, PTL DEF Spec

-----------------------------------------------------------------------------

(* A closed window has no thread behind it.                                *)
Closed ==
    screen = "closed" =>
        /\ \A t \in Threads \cup {Main} : job[t] = Idle
        /\ shown = "closed" /\ ~loading

LEMMA ClosedWaits ==
  ASSUME Closed, screen = "closed", [Next]_vars
  PROVE  Open \/ Publish \/ Damage \/ UNCHANGED vars
<1>1. \A t \in Threads \cup {Main} : job[t].task = "none"
  BY IdleFits DEF Closed
<1>2. ASSUME NEW t \in Threads, Works(t) PROVE FALSE
  <2>1. job[t].task # "none"
    BY <1>2 DEF Works, Scans, ScanRecovers, ScanChecksGame, ScanReads, ScanDecides, ScanFails,
                ScanVerifies, ScanPrompts, Operates, GameFetched, UpdateRecovers, ContentFetched,
                ContentRefused, AuthorizationRequired, ArchiveGone, FetchFails, Stage, Commit,
                Complete, Finish, ApplyFails, Settles, Reports, Launches, LaunchRecovers,
                LaunchDecides, At, Operating
  <2> QED
    BY <1>1, <2>1
<1>3. ~Launches(Main)
  BY <1>1 DEF Launches, LaunchRecovers, LaunchDecides, At
<1>4. ASSUME NEW choice \in Choices, Choose(choice) PROVE FALSE
  <2>1. Buttons["closed"] = {}
    BY DEF Buttons
  <2> QED
    BY <1>4, <2>1 DEF Choose, Closed
<1>5. ~Render /\ ~GateAnswers /\ ~PageLoads /\ ~Close /\ ~Kill
  BY DEF Render, GateAnswers, PageLoads, Close, Kill, Closed
<1> QED
  BY <1>2, <1>3, <1>4, <1>5 DEF Next, World

LEMMA StepKeepsClosed == TypeInv /\ Closed /\ [Next]_vars => Closed'
<1> SUFFICES ASSUME TypeInv, Closed, [Next]_vars PROVE Closed'
  OBVIOUS
<1>1. CASE Exit
  BY <1>1 DEF Exit, Closed
<1>2. CASE screen = "closed"
  <2>1. CASE Open
    BY <2>1, WrittenAre DEF Open, Write, Written, Closed
  <2>2. CASE Publish \/ Damage \/ UNCHANGED vars
    BY <2>2 DEF Publish, Damage, vars, memory, page, view, Closed
  <2> QED
    BY <1>2, <2>1, <2>2, ClosedWaits
<1>3. CASE ~Exit /\ screen # "closed"
  BY <1>3, AnyShows DEF ScreenMoves, Written, Closed
<1> QED
  BY <1>1, <1>2, <1>3

LEMMA OpensOnce ==
  TypeInv /\ Closed /\ [Next]_vars /\ ~Open => (screen' # "closed" => screen # "closed")
<1> SUFFICES ASSUME Closed, [Next]_vars, ~Open, screen = "closed" PROVE screen' = "closed"
  OBVIOUS
<1> QED
  BY ClosedWaits DEF Publish, Damage, vars, view

LEMMA UnrestoredStays == TypeInv /\ [Next]_vars /\ unrestored => unrestored'
<1> SUFFICES ASSUME [Next]_vars, unrestored, ~unrestored' PROVE FALSE
  OBVIOUS
<1>1. ASSUME NEW t \in Threads, Scans(t) PROVE FALSE
  BY <1>1, Zenon DEF Scans, ScanRecovers, ScanChecksGame, ScanReads, ScanDecides, ScanFails,
                     ScanVerifies, ScanPrompts, RecoveryFails, past
<1>2. ASSUME NEW t \in Threads, Operates(t) PROVE FALSE
  BY <1>2, Zenon DEF Operates, GameFetched, UpdateRecovers, ContentFetched, ContentRefused,
                     AuthorizationRequired, ArchiveGone, FetchFails, Stage, Commit, Complete,
                     Finish, ApplyFails, Settles, RecoveryFails, past
<1>3. ASSUME NEW t \in Threads \cup {Main}, Launches(t) PROVE FALSE
  BY <1>3, Zenon DEF Launches, LaunchRecovers, LaunchDecides, RecoveryFails
<1>4. ASSUME NEW t \in Threads, Reports(t) PROVE FALSE
  BY <1>4, Zenon DEF Reports, past
<1>5. ASSUME NEW choice \in Choices, Choose(choice) PROVE FALSE
  BY <1>5, Zenon DEF Choose, Play, GameUpdateChosen, SkipGameUpdate, RetryUpdateCheck,
                     InstallChosen, UpdateChosen, Back, SignIn, ChooseProvider, past
<1>6. ASSUME World PROVE FALSE
  BY <1>6, Zenon DEF World, Open, Render, GateAnswers, PageLoads, Publish, Damage, Close, Kill,
                     RecoveryFails, past
<1>7. ASSUME UNCHANGED vars PROVE FALSE
  BY <1>7, Zenon DEF vars, past
<1> QED
  BY <1>1, <1>2, <1>3, <1>4, <1>5, <1>6, <1>7, Zenon DEF Next, Works

(* Only its own steps, or the end of the process, move an operation.       *)
LEMMA OthersKeepOperation ==
  ASSUME TypeInv, [Next]_vars, NEW t \in Threads, IsOperation(job[t]), ~Operates(t), ~Exit
  PROVE  job'[t] = job[t]
<1>0. JobsFit
  BY DEF TypeInv
<1>1. ASSUME NEW u \in Threads \cup {Main}, NEW next, Become(u, next),
             ~IsOperation(job[u]) \/ u = Main
      PROVE  job'[t] = job[t]
  BY <1>0, <1>1, MainIsApart DEF Become, JobsFit
<1>2. ASSUME NEW u \in Threads \cup {Main}, NEW step, Go(u, step) \/ End(u),
             ~IsOperation(job[u]) \/ u = Main
      PROVE  job'[t] = job[t]
  BY <1>1, <1>2 DEF Go, End
<1>3. ASSUME NEW next, Spawn(next) PROVE job'[t] = job[t]
  BY <1>1, <1>3, IdleFits DEF Spawn
<1>4. \A next : Begin(next) => job'[t] = job[t]
  BY <1>3, Zenon DEF Begin
<1>5. \A step : StartScan(step) => job'[t] = job[t]
  BY <1>3, Zenon DEF StartScan
<1>6. \A waits : StartGameUpdate(waits) => job'[t] = job[t]
  BY <1>4, <1>5, Zenon DEF StartGameUpdate
<1>7. ASSUME NEW u \in Threads, Scans(u) PROVE job'[t] = job[t]
  <2>1. ~IsOperation(job[u])
    BY <1>7 DEF Scans, ScanRecovers, ScanChecksGame, ScanReads, ScanDecides, ScanFails,
                ScanVerifies, ScanPrompts, At, IsOperation
  <2>2. \E next : Become(u, next)
    BY <1>7, Zenon DEF Scans, ScanRecovers, ScanChecksGame, ScanReads, ScanDecides, ScanFails,
                ScanVerifies, ScanPrompts, ContinueApproved, Go, End
  <2> QED
    BY <1>1, <2>1, <2>2
<1>8. ASSUME NEW u \in Threads, Operates(u) PROVE job'[t] = job[t]
  <2>1. u # t
    BY <1>8
  <2>2. \E next : Become(u, next)
    BY <1>8, Zenon DEF Operates, GameFetched, UpdateRecovers, ContentFetched, ContentRefused,
                AuthorizationRequired, ArchiveGone, FetchFails, Stage, Commit, Complete, Finish,
                ApplyFails, Settles, OperationFails, Release, Go, End
  <2> QED
    BY <1>0, <2>1, <2>2 DEF Become, JobsFit
<1>9. ASSUME NEW u \in Threads \cup {Main}, Launches(u) PROVE job'[t] = job[t]
  <2>1. ~IsOperation(job[u])
    BY <1>9 DEF Launches, LaunchRecovers, LaunchDecides, At, IsOperation
  <2>2. \E next : Become(u, next)
    BY <1>9, Zenon DEF Launches, LaunchRecovers, LaunchDecides, Go, End
  <2> QED
    BY <1>1, <2>1, <2>2
<1>10. ASSUME NEW u \in Threads, Reports(u) PROVE job'[t] = job[t]
  BY <1>1, <1>10 DEF Reports, End, IsOperation
<1>11. ASSUME NEW choice \in Choices, Choose(choice) PROVE job'[t] = job[t]
  BY <1>1, <1>4, <1>5, <1>6, <1>11, Zenon
     DEF Choose, Play, GameUpdateChosen, SkipGameUpdate, RetryUpdateCheck, InstallChosen,
         UpdateChosen, StartInstall, StartUpdate, Back, SignIn, ChooseProvider
<1>12. ASSUME World PROVE job'[t] = job[t]
  BY <1>4, <1>5, <1>6, <1>12, Zenon
     DEF World, Open, Render, GateAnswers, PageLoads, ResumeAfterGate, StartInstall, StartUpdate,
         Publish, Damage, Close, Kill
<1>13. ASSUME UNCHANGED vars PROVE job'[t] = job[t]
  BY <1>13 DEF vars
<1> QED
  BY <1>7, <1>8, <1>9, <1>10, <1>11, <1>12, <1>13 DEF Next, Works

-----------------------------------------------------------------------------

(* What a launch relies on: a layer of mixed files has the record that     *)
(* restores it, behind which is the state before, and while the launcher   *)
(* runs an open record has an operation that is applying it.               *)
Applies(j, l) == IsApplying(j) /\ (j.task = "game" <=> l = "game")
LayerFits(l) ==
    /\ disk[l].now.files = "mixed" => disk[l].scratch = "record"
    /\ disk[l].backup.files # "mixed"
    /\ disk[l].scratch = "record" /\ screen # "closed" => \E t \in Threads : Applies(job[t], l)
    /\ \A t \in Threads : Applies(job[t], l) /\ job[t].at = "finish" => disk[l].now.files # "mixed"
LayersFit == ~unrestored => \A l \in Layers : LayerFits(l)

(* The ways a step leaves a layer.                                         *)
LEMMA LayerKept ==
  ASSUME NEW l \in Layers, LayerFits(l), disk'[l] = disk[l],
         screen' # "closed" => screen # "closed",
         \A t \in Threads : \/ job'[t] = job[t]
                            \/ ~Applies(job[t], l) /\ ~Applies(job'[t], l)
  PROVE  LayerFits(l)'
BY DEF LayerFits

LEMMA LayerClean ==
  ASSUME NEW l \in Layers, disk'[l].now.files # "mixed", disk'[l].backup.files # "mixed",
         disk'[l].scratch # "record"
  PROVE  LayerFits(l)'
BY DEF LayerFits

LEMMA LayerRecovers ==
  ASSUME TypeInv, NEW l \in Layers, LayerFits(l), disk'[l] = Recovered(disk[l])
  PROVE  LayerFits(l)'
<1>1. disk[l] \in Layer
  BY DiskIs DEF TypeInv
<1>2. /\ disk'[l].scratch = "none" /\ disk'[l].backup.files = "none"
      /\ disk'[l].now.files # "mixed"
  BY <1>1, RecoveredIs, SettledIs DEF LayerFits, Absent
<1> QED
  BY <1>2, LayerClean

LEMMA RecoveryKeepsLayers ==
  ASSUME TypeInv, LayersFit, ~unrestored, disk' = AllRecovered PROVE \A l \in Layers : LayerFits(l)'
BY BothRecovered, LayerRecovers DEF LayersFit, TypeInv

(* What does not touch the layers, and is not an operation's step. *)
LEMMA ElsewhereKeepsLayers ==
  ASSUME TypeInv, Closed, LayersFit, ~unrestored, [Next]_vars, ~Open, ~Exit,
         \A t \in Threads : ~Operates(t), NEW l \in Layers, disk'[l] = disk[l]
  PROVE  LayerFits(l)'
<1>1. screen' # "closed" => screen # "closed"
  BY OpensOnce
<1>2. ASSUME NEW t \in Threads
      PROVE  \/ job'[t] = job[t]
             \/ ~Applies(job[t], l) /\ ~Applies(job'[t], l)
  <2>1. CASE IsOperation(job[t])
    BY <2>1, OthersKeepOperation
  <2>2. CASE ~IsOperation(job[t])
    BY <2>2, AnyMoves DEF JobStep, NewcomersStart, Applies, IsApplying
  <2> QED
    BY <2>1, <2>2
<1> QED
  BY <1>1, <1>2, LayerKept DEF LayersFit

LEMMA ExitKeepsLayers ==
  ASSUME LayersFit, ~unrestored, Exit, NEW l \in Layers, disk'[l] = disk[l]
  PROVE  LayerFits(l)'
<1>1. \A t \in Threads : ~Applies(job'[t], l)
  BY IdleFits DEF Exit, Applies, IsApplying
<1> QED
  BY <1>1 DEF Exit, LayersFit, LayerFits

(* An operation on its own layer, and beside the other.                    *)
LEMMA OperatesKeepLayers ==
  ASSUME TypeInv, OneOperation, Closed, LayersFit, ~unrestored, ~unrestored',
         NEW t \in Threads, Operates(t), NEW m \in Layers
  PROVE  LayerFits(m)'
<1> DEFINE l == LayerOf(t)
<1>0. /\ JobsFit /\ LayerFits(m) /\ LayerFits(l) /\ DiskFits /\ t \in Threads \cup {Main}
      /\ l \in Layers /\ (l = "game" <=> job[t].task = "game")
      /\ (m = l <=> (m = "game" <=> l = "game"))
  BY LayerOfIs DEF TypeInv, LayersFit, Layers, LayerOf
<1>1. IsOperation(job[t])
  BY IsAnOperation
<1>2. screen' = screen
  BY DEF Operates, GameFetched, UpdateRecovers, ContentFetched, ContentRefused,
         AuthorizationRequired, ArchiveGone, FetchFails, Stage, Commit, Complete, Finish,
         ApplyFails, Settles, view
<1>3. \A u \in Threads \ {t} : job'[u] = job[u] /\ ~IsOperation(job[u])
  <2>1. \E next : Become(t, next)
    BY Zenon DEF Operates, GameFetched, UpdateRecovers, ContentFetched, ContentRefused,
                AuthorizationRequired, ArchiveGone, FetchFails, Stage, Commit, Complete, Finish,
                ApplyFails, Settles, OperationFails, Release, Go, End
  <2> QED
    BY <1>0, <1>1, <2>1 DEF Become, JobsFit, OneOperation, Operating, IsOperation
<1>4. ASSUME disk'[m] = disk[m], ~Applies(job[t], m), ~Applies(job'[t], m) PROVE LayerFits(m)'
  BY <1>0, <1>2, <1>3, <1>4, LayerKept
<1>5. ASSUME NEW next \in Job, Become(t, next) PROVE job'[t] = next
  BY <1>0, <1>5 DEF Become, JobsFit
<1>6. ASSUME NEW step \in Steps, Go(t, step)
      PROVE  job'[t].at = step /\ job'[t].task = job[t].task /\ IsOperation(job'[t])
  <2> DEFINE next == [job[t] EXCEPT !.at = step]
  <2>1. job[t].task # "scan"
    BY <1>1 DEF IsOperation
  <2>2. next \in Job /\ next.task = job[t].task /\ next.at = step
    BY <1>0, <2>1, GoFits
  <2>3. Become(t, next)
    BY <1>6 DEF Go
  <2> HIDE DEF next
  <2> QED
    BY <1>1, <1>5, <2>2, <2>3 DEF IsOperation
<1>7. ASSUME NEW next \in Screens \ {"gate", "closed"}, Release(t, next) PROVE ~IsOperation(job'[t])
  <2>1. Become(t, Report(next))
    BY <1>7 DEF Release
  <2> QED
    BY <1>5, <2>1, ReportFits
<1>8. /\ FailureScreen(t) \in Screens \ {"gate", "closed"}
      /\ \A s \in {"choices", "signIn", "retired", "updateFailed", "upToDate", "updateSignIn",
                   "requiredSignIn"} : s \in Screens \ {"gate", "closed"}
  BY ScreensAre DEF FailureScreen
<1>9. CASE UpdateRecovers(t)
  BY <1>9, RecoveryKeepsLayers DEF UpdateRecovers, RecoveryFails
<1>10. CASE GameFetched(t) \/ ContentFetched(t)
  <2>1. disk' = disk /\ Go(t, "stage") /\ ~IsApplying(job[t])
    BY <1>10 DEF GameFetched, ContentFetched, store, At, IsApplying
  <2>2. ~IsApplying(job'[t])
    BY <1>6, <2>1 DEF Steps, IsApplying
  <2> QED
    BY <1>4, <2>1, <2>2 DEF Applies
<1>11. CASE ContentRefused(t) \/ FetchFails(t)
  <2>1. disk' = disk /\ Release(t, FailureScreen(t)) /\ ~IsApplying(job[t])
    BY <1>11 DEF ContentRefused, FetchFails, OperationFails, At, IsApplying
  <2>2. ~IsApplying(job'[t])
    BY <1>7, <1>8, <2>1 DEF IsApplying
  <2> QED
    BY <1>4, <2>1, <2>2 DEF Applies
<1>12. CASE AuthorizationRequired(t) \/ ArchiveGone(t)
  <2>1. disk' = disk /\ ~IsApplying(job[t])
    BY <1>12 DEF AuthorizationRequired, ArchiveGone, store, At, IsApplying
  <2>2. ~IsApplying(job'[t])
    BY <1>7, <1>8, <1>12 DEF AuthorizationRequired, ArchiveGone, SignInScreen, IsApplying
  <2> QED
    BY <1>4, <2>1, <2>2 DEF Applies
<1>13. CASE Settles(t)
  <2>1. disk' = disk /\ ~IsApplying(job[t])
    BY <1>13 DEF Settles, IsApplying
  <2>2. CASE job[t].task = "update"
    <3>1. ~IsApplying(job'[t])
      BY <1>7, <1>8, <1>13, <2>2 DEF Settles, IsApplying
    <3> QED
      BY <1>4, <2>1, <3>1 DEF Applies
  <2>3. CASE job[t].task # "update"
    <3>1. Become(t, [Idle EXCEPT !.task = "launch"])
      BY <1>13, <2>3 DEF Settles
    <3>2. ~IsApplying(job'[t])
      BY <1>5, <3>1, LaunchFits DEF IsApplying
    <3> QED
      BY <1>4, <2>1, <3>2 DEF Applies
  <2> QED
    BY <2>2, <2>3
<1>14. CASE Stage(t)
  <2>1. ~IsApplying(job'[t]) /\ ~IsApplying(job[t])
    BY <1>6, <1>14 DEF Stage, Steps, IsApplying
  <2>2. CASE m = l
    <3>1. disk[l] \in Layer
      BY <1>0, DiskIs
    <3>2. /\ disk'[l].scratch = "staged" /\ disk'[l].backup.files = "none"
          /\ disk'[l].now = Recovered(disk[l]).now
      BY <1>0, <1>14, StageIs DEF Absent
    <3>3. disk'[l].now.files # "mixed"
      BY <1>0, <3>1, <3>2, RecoveredIs DEF LayerFits
    <3> QED
      BY <2>2, <3>2, <3>3, LayerClean
  <2>3. CASE m # l
    BY <1>0, <1>4, <1>14, <2>1, <2>3, StageIs DEF Applies
  <2> QED
    BY <2>2, <2>3
<1>15. CASE Commit(t)
  <2>1. job'[t].at = "complete" /\ job'[t].task = job[t].task /\ IsOperation(job'[t])
    BY <1>6, <1>15 DEF Commit, Steps
  <2>2. job[t].at = "commit"
    BY <1>15 DEF Commit
  <2>3. CASE m = l
    <3>1. /\ disk[l].scratch = "staged" /\ disk'[l].scratch = "record"
          /\ disk'[l].backup = disk[l].now
      BY <1>15, CommitIs
    <3>2. disk[l].now.files # "mixed"
      BY <1>0, <3>1 DEF LayerFits
    <3>3. Applies(job'[t], l)
      BY <1>0, <2>1 DEF Applies, IsApplying
    <3>4. \A u \in Threads : Applies(job'[u], l) => u = t
      BY <1>3 DEF Applies, IsApplying
    <3> QED
      BY <2>1, <2>3, <3>1, <3>2, <3>3, <3>4 DEF LayerFits
  <2>4. CASE m # l
    <3>1. disk'[m] = disk[m]
      BY <1>15, <2>4, CommitIs
    <3>2. ~Applies(job[t], m) /\ ~Applies(job'[t], m)
      BY <1>0, <2>1, <2>4 DEF Applies
    <3> QED
      BY <1>4, <3>1, <3>2
  <2> QED
    BY <2>3, <2>4
<1>16. CASE Complete(t)
  <2>1. job'[t].at = "finish" /\ job'[t].task = job[t].task /\ IsOperation(job'[t])
    BY <1>6, <1>16 DEF Complete, Steps
  <2>2. CASE m = l
    <3>1. /\ disk'[l].scratch = "record" /\ disk'[l].backup = disk[l].backup
          /\ disk'[l].now = [version |-> job[t].version, files |-> "whole"]
      BY <1>16, CompleteIs
    <3>2. Applies(job'[t], l)
      BY <1>0, <2>1 DEF Applies, IsApplying
    <3> QED
      BY <1>0, <2>2, <3>1, <3>2 DEF LayerFits
  <2>3. CASE m # l
    <3>1. disk'[m] = disk[m]
      BY <1>16, <2>3, CompleteIs
    <3>2. ~Applies(job[t], m) /\ ~Applies(job'[t], m)
      BY <1>0, <2>1, <2>3 DEF Applies
    <3> QED
      BY <1>4, <3>1, <3>2
  <2> QED
    BY <2>2, <2>3
<1>17. CASE Finish(t)
  <2>1. CASE m = l
    <3>1. Applies(job[t], l) /\ job[t].at = "finish"
      BY <1>0, <1>1, <1>17 DEF Finish, Applies, IsApplying
    <3>2. /\ disk'[l].scratch = "none" /\ disk'[l].backup.files = "none"
          /\ disk'[l].now = disk[l].now
      BY <1>17, FinishIs, SettledIs DEF Absent
    <3> QED
      BY <1>0, <2>1, <3>1, <3>2, LayerClean DEF LayerFits
  <2>2. CASE m # l
    <3>1. disk'[m] = disk[m]
      BY <1>17, <2>2, FinishIs
    <3>2. ~IsApplying(job'[t])
      <4>1. CASE job[t].task = "game"
        <5> DEFINE next == Operation("update", job[t].version, TRUE)
        <5>1. job[t].version \in Releases
          BY <1>0, <1>1 DEF JobsFit, Fit
        <5>2. next \in Job /\ ~IsApplying(next)
          BY <5>1, OperationFits
        <5>3. Become(t, next)
          BY <1>17, <4>1 DEF Finish
        <5> HIDE DEF next
        <5> QED
          BY <1>5, <5>2, <5>3
      <4>2. CASE job[t].task # "game"
        BY <1>6, <1>17, <4>2 DEF Finish, Steps, IsApplying
      <4> QED
        BY <4>1, <4>2
    <3>3. ~Applies(job[t], m)
      BY <1>0, <2>2 DEF Applies
    <3> QED
      BY <1>4, <3>1, <3>2, <3>3 DEF Applies
  <2> QED
    BY <2>1, <2>2
<1>18. CASE ApplyFails(t)
  <2>1. ~IsApplying(job'[t])
    BY <1>7, <1>8, <1>18 DEF ApplyFails, OperationFails, IsApplying
  <2>2. \/ disk' = disk /\ TransactionLost(t)
        \/ disk' = [disk EXCEPT ![l] = Recovered(@)]
    BY <1>18 DEF ApplyFails
  <2>3. CASE m # l
    <3>1. disk'[m] = disk[m]
      BY <1>0, <2>2, <2>3, OneRecovered
    <3>2. ~Applies(job[t], m)
      BY <1>0, <2>3 DEF Applies
    <3> QED
      BY <1>4, <2>1, <3>1, <3>2 DEF Applies
  <2>4. CASE m = l /\ disk' = [disk EXCEPT ![l] = Recovered(@)]
    BY <1>0, <2>4, OneRecovered, LayerRecovers
  <2>5. CASE m = l /\ disk' = disk /\ TransactionLost(t)
    <3>1. CASE job[t].at = "commit"
      BY <1>4, <2>1, <2>5, <3>1 DEF Applies, IsApplying
    <3>2. CASE disk[l].scratch # "record"
      BY <1>0, <2>5, <3>2, LayerClean DEF LayerFits
    <3> QED
      BY <2>5, <3>1, <3>2 DEF TransactionLost
  <2> QED
    BY <2>2, <2>3, <2>4, <2>5
<1> QED
  BY <1>9, <1>10, <1>11, <1>12, <1>13, <1>14, <1>15, <1>16, <1>17, <1>18 DEF Operates

(* What changes the layers, apart from an operation. *)
LEMMA LayersMove ==
  ASSUME TypeInv, [Next]_vars, \A t \in Threads : ~Operates(t)
  PROVE  \/ RecoveryFails
         \/ disk' = AllRecovered
         \/ disk' = disk /\ ~Open
         \/ /\ disk'["game"] = disk["game"] /\ ~Open
            /\ disk'["content"].now.files # "mixed" /\ disk'["content"].scratch = "none"
            /\ disk'["content"].backup \in {disk["content"].backup, Absent}
            /\ disk'["content"].now.version \in {0, Recovered(disk["content"]).now.version}
<1>0. DiskFits
  BY DEF TypeInv
<1>1. ASSUME NEW t \in Threads, ScanVerifies(t)
      PROVE  \/ disk' = disk
             \/ /\ disk'["game"] = disk["game"]
                /\ disk'["content"].now.files = "whole" /\ disk'["content"].scratch = "none"
                /\ disk'["content"].backup = Absent
                /\ disk'["content"].now.version = Recovered(disk["content"]).now.version
  BY <1>0, <1>1, VerifiedIs DEF ScanVerifies
<1>2. ASSUME NEW t \in Threads, Scans(t), ~ScanVerifies(t)
      PROVE  disk' = disk \/ disk' = AllRecovered \/ RecoveryFails
  BY <1>2, Zenon DEF Scans, ScanRecovers, ScanChecksGame, ScanReads, ScanDecides, ScanFails,
                     ScanPrompts, store
<1>3. ASSUME NEW t \in Threads \cup {Main}, Launches(t)
      PROVE  disk' = disk \/ disk' = AllRecovered \/ RecoveryFails
  BY <1>3, Zenon DEF Launches, LaunchRecovers, LaunchDecides, store
<1>4. ASSUME NEW t \in Threads, Reports(t) PROVE disk' = disk
  BY <1>4, Zenon DEF Reports, store
<1>5. ASSUME NEW choice \in Choices, Choose(choice) PROVE disk' = disk
  BY <1>5, Zenon DEF Choose, Play, GameUpdateChosen, SkipGameUpdate, RetryUpdateCheck,
                     InstallChosen, UpdateChosen, Back, SignIn, ChooseProvider, store
<1>6. CASE Open
  BY <1>6, Zenon DEF Open
<1>7. ASSUME Damage
      PROVE  /\ disk'["game"] = disk["game"]
             /\ disk'["content"].now.files # "mixed" /\ disk'["content"].scratch = "none"
             /\ disk'["content"].backup = disk["content"].backup
             /\ disk'["content"].now.version \in {0, Recovered(disk["content"]).now.version}
  <2>1. disk["content"].scratch = "none"
    BY <1>0, <1>7, DamageIs
  <2>2. Recovered(disk["content"]).now = disk["content"].now
    BY <1>0, <2>1, DiskIs, RecoveredIs
  <2> QED
    BY <1>0, <1>7, <2>2, DamageIs DEF Content
<1>8. ASSUME Render \/ GateAnswers \/ PageLoads \/ Publish \/ Close \/ Kill PROVE disk' = disk
  BY <1>8, Zenon DEF Render, GateAnswers, PageLoads, Publish, Close, Kill, store
<1>9. ASSUME UNCHANGED vars PROVE disk' = disk
  BY <1>9, Zenon DEF vars, store
<1>10. CASE Damage /\ ~Open
  BY <1>7, <1>10
<1>11. CASE (\E t \in Threads : ScanVerifies(t)) /\ ~Open
  BY <1>1, <1>11
<1> QED
  BY <1>2, <1>3, <1>4, <1>5, <1>6, <1>8, <1>9, <1>10, <1>11, Zenon DEF Next, World, Works

LEMMA LayersElsewhere ==
  ASSUME TypeInv, [Next]_vars, \A t \in Threads : ~Operates(t), ~unrestored'
  PROVE  \/ disk' = AllRecovered
         \/ disk' = disk /\ ~Open
         \/ /\ disk'["game"] = disk["game"] /\ ~Open
            /\ disk'["content"].now.files # "mixed" /\ disk'["content"].scratch = "none"
            /\ disk'["content"].backup \in {disk["content"].backup, Absent}
            /\ disk'["content"].now.version \in {0, Recovered(disk["content"]).now.version}
BY LayersMove DEF RecoveryFails

LEMMA StepKeepsLayers == TypeInv /\ OneOperation /\ Closed /\ LayersFit /\ [Next]_vars => LayersFit'
<1> SUFFICES ASSUME TypeInv, OneOperation, Closed, LayersFit, [Next]_vars, ~unrestored',
                    NEW l \in Layers
             PROVE  LayerFits(l)'
  BY DEF LayersFit
<1>0. ~unrestored /\ LayerFits(l) /\ DiskFits
  BY UnrestoredStays DEF LayersFit, TypeInv
<1>1. CASE \E t \in Threads : Operates(t)
  BY <1>0, <1>1, OperatesKeepLayers
<1>2. CASE disk' = AllRecovered
  BY <1>0, <1>2, RecoveryKeepsLayers
<1>3. CASE disk'[l] = disk[l] /\ ~Open /\ \A t \in Threads : ~Operates(t)
  BY <1>0, <1>3, ExitKeepsLayers, ElsewhereKeepsLayers
<1>4. CASE /\ l = "content" /\ disk'[l].now.files # "mixed" /\ disk'[l].scratch = "none"
           /\ disk'[l].backup \in {disk[l].backup, Absent}
  BY <1>0, <1>4, LayerClean DEF LayerFits, Absent
<1>5. l \in {"game", "content"}
  BY DEF Layers
<1> QED
  BY <1>1, <1>2, <1>3, <1>4, <1>5, LayersElsewhere

LEMMA InitLayers == Init => OneOperation /\ Closed /\ LayersFit
<1> SUFFICES ASSUME Init PROVE OneOperation /\ Closed /\ LayersFit
  OBVIOUS
<1>1. \A t \in Threads \cup {Main} : job[t] = Idle
  BY DEF Init, NoMemory
<1>2. OneOperation
  BY <1>1, IdleFits DEF Init, NoMemory, OneOperation, Operating, IsOperation
<1>3. Closed
  BY <1>1 DEF Init, NoMemory, Closed
<1>4. ASSUME NEW l \in Layers PROVE LayerFits(l)
  <2>1. PICK state : state.files # "mixed" /\ disk[l] = Settled(state)
    BY DEF Init, Layers, Absent
  <2>2. disk[l].now = state /\ disk[l].scratch = "none" /\ disk[l].backup.files = "none"
    BY <2>1 DEF Settled, Absent
  <2> QED
    BY <2>1, <2>2 DEF LayerFits
<1> QED
  BY <1>2, <1>3, <1>4 DEF LayersFit

LEMMA StepIsCoherent ==
  ASSUME TypeInv, OneOperation, Closed, LayersFit, [Next]_vars,
         player' \notin {player, 0}, ~guard, ~unrestored
  PROVE  /\ Game = Content
         /\ \A l \in Layers : disk[l].scratch # "record" /\ disk[l].now.files # "mixed"
<1>1. PICK t \in Threads \cup {Main} : At(t, "launch", "decide") /\ Game = Content
  <2>1. ASSUME NEW t \in Threads, Scans(t) \/ Operates(t) \/ Reports(t) PROVE player' = player
    BY <2>1, Zenon DEF Scans, ScanRecovers, ScanChecksGame, ScanReads, ScanDecides, ScanFails,
                     ScanVerifies, ScanPrompts, Operates, GameFetched, UpdateRecovers,
                     ContentFetched, ContentRefused, AuthorizationRequired, ArchiveGone, FetchFails,
                     Stage, Commit, Complete, Finish, ApplyFails, Settles, Reports, past
  <2>2. ASSUME NEW choice \in Choices, Choose(choice) PROVE player' = player
    BY <2>2, Zenon DEF Choose, Play, GameUpdateChosen, SkipGameUpdate, RetryUpdateCheck,
                     InstallChosen, UpdateChosen, Back, SignIn, ChooseProvider, past
  <2>3. ASSUME World PROVE player' \in {player, 0}
    BY <2>3 DEF World, Open, Render, GateAnswers, PageLoads, Publish, Damage, Close, Kill, past
  <2>4. ASSUME UNCHANGED vars PROVE player' = player
    BY <2>4 DEF vars, past
  <2>5. ASSUME NEW t \in Threads \cup {Main}, Launches(t)
        PROVE  At(t, "launch", "decide") /\ Game = Content
    BY <2>5 DEF Launches, LaunchRecovers, LaunchDecides, Launchable
  <2> QED
    BY <2>1, <2>2, <2>3, <2>4, <2>5, Zenon DEF Next, Works
<1>2. screen # "closed"
  BY <1>1, IdleFits DEF At, Closed
<1>3. \A u \in Threads : ~IsOperation(job[u])
  BY DEF OneOperation, Operating, IsOperation
<1> QED
  BY <1>1, <1>2, <1>3 DEF LayersFit, LayerFits, Applies, IsApplying

(* launch_player, which takes no guard: unless an operation has taken it   *)
(* since, the game is started with its own Content and with no layer in    *)
(* the middle of a transaction, whatever scans, failures, kills and        *)
(* recoveries came before (as long as no restoration has failed).          *)
THEOREM LaunchIsCoherent == Spec => LaunchCoherent
<1> DEFINE IInv == TypeInv /\ OneOperation /\ Closed /\ LayersFit
<1>1. Init => IInv
  BY InitFits, InitLayers
<1>2. IInv /\ [Next]_vars => IInv'
  BY StepFits, GuardStep, StepKeepsClosed, StepKeepsLayers
<1>3. IInv /\ [Next]_vars =>
         [player' \notin {player, 0} /\ ~guard /\ ~unrestored =>
            /\ Game = Content
            /\ \A l \in Layers : disk[l].scratch # "record" /\ disk[l].now.files # "mixed"]_vars
  BY StepIsCoherent
<1> HIDE DEF IInv
<1> QED
  BY <1>1, <1>2, <1>3, PTL DEF Spec, LaunchCoherent

-----------------------------------------------------------------------------

(* What follows has one thread beside the main one: a second scan that     *)
(* reads the layers while an operation changes them may remember a release *)
(* which is rolled back afterwards.                                        *)
OneThread == \A t, u \in Threads : t = u

(* The release of a layer as a recovery would leave it.  Only an apply     *)
(* that has finished changes it.                                           *)
BehindOf(layer) == Recovered(layer).now.version
Behind(l) == BehindOf(disk[l])

(* No layer is older than what is behind it, and Content is not ahead of   *)
(* the game on any of its ways.                                            *)
InOrder ==
    /\ Behind("game") <= Game
    /\ Content <= Behind("game") /\ Behind("content") <= Behind("game")

(* What the launcher remembers is of the game, or of what comes after it.  *)
Remembered ==
    /\ pending.kind # "none" => pending.version = Behind("game")
    /\ offer # 0 => Behind("game") <= offer
    /\ screen = "gate" => asked = Behind("game") /\ ~guard
    /\ screen = "closed" => pending.kind = "none"

(* So is what a thread is to install, or has compared.                     *)
Compares(j) == j.task = "scan" /\ j.at \in {"verify", "prompt"}
Aims(j, layer, offered) ==
    /\ j.task \in {"update", "install"} \/ Compares(j) => j.version = BehindOf(layer)
    /\ j.task = "game" =>
           /\ BehindOf(layer) <= j.version
           /\ offered # 0 => j.version <= offered
           /\ j.at = "finish" /\ layer.scratch = "record" => layer.now.version = j.version
JobsAim == \A t \in Threads : Aims(job[t], disk["game"], offer)

FlowFits == ~unrestored => InOrder /\ Remembered /\ JobsAim

(* What is behind a layer.                                                 *)
LEMMA BehindIs ==
  ASSUME NEW layer \in Layer
  PROVE  /\ BehindOf(layer) \in Nat /\ layer.now.version \in Nat
         /\ layer.scratch = "record" => BehindOf(layer) = layer.backup.version
         /\ layer.scratch # "record" => BehindOf(layer) = layer.now.version
         /\ Recovered(layer).now.version = BehindOf(layer)
         /\ BehindOf(Recovered(layer)) = BehindOf(layer)
<1>1. \A state \in State : state.version \in Nat
  BY DEF State, Versions
<1>2. /\ Recovered(layer) \in Layer /\ Recovered(layer).scratch = "none"
      /\ layer.scratch = "record" => Recovered(layer).now = layer.backup
      /\ layer.scratch # "record" => Recovered(layer).now = layer.now
  BY RecoveredIs
<1>3. Recovered(Recovered(layer)).now = Recovered(layer).now
  BY <1>2, RecoveredIs
<1>4. layer.now \in State /\ Recovered(layer).now \in State
  BY <1>2 DEF Layer
<1> QED
  BY <1>1, <1>2, <1>3, <1>4 DEF BehindOf

LEMMA VersionsAre ==
  ASSUME DiskFits
  PROVE  /\ Behind("game") \in Nat /\ Behind("content") \in Nat
         /\ Game \in Nat /\ Content \in Nat
BY DiskIs, BehindIs DEF Behind, Content, Game

(* With no operation, what is behind the game is the game.                 *)
LEMMA NothingBehind ==
  ASSUME TypeInv, LayersFit, ~unrestored, screen # "closed",
         \A t \in Threads : ~IsOperation(job[t])
  PROVE  Behind("game") = Game
<1>1. disk["game"] \in Layer /\ "game" \in Layers
  BY DiskIs DEF TypeInv
<1>2. disk["game"].scratch # "record"
  BY <1>1 DEF LayersFit, LayerFits, Applies, IsApplying
<1> QED
  BY <1>1, <1>2, BehindIs DEF Behind, Game

LEMMA ScanningAlone ==
  ASSUME OneThread, TypeInv, Closed, LayersFit, ~unrestored, NEW t \in Threads,
         job[t].task = "scan"
  PROVE  Behind("game") = Game
<1>1. screen # "closed"
  BY IdleFits DEF Closed
<1>2. \A u \in Threads : ~IsOperation(job[u])
  BY DEF OneThread, IsOperation
<1> QED
  BY <1>1, <1>2, NothingBehind

(* The layers, moved by anything but an operation.                         *)
LEMMA LayersKeepOrder ==
  ASSUME TypeInv, [Next]_vars, \A t \in Threads : ~Operates(t), ~unrestored', InOrder
  PROVE  /\ InOrder' /\ BehindOf(disk'["game"]) = Behind("game")
         /\ disk'["game"] = disk["game"] \/ disk'["game"].scratch # "record"
<1>0. DiskFits /\ disk["game"] \in Layer /\ disk["content"] \in Layer
  BY DiskIs DEF TypeInv
<1>1. DiskFits' /\ disk'["game"] \in Layer /\ disk'["content"] \in Layer
  BY StepKeepsDisk DEF DiskFits, Layers
<1>2. CASE disk' = AllRecovered
  <2>1. disk'["game"] = Recovered(disk["game"]) /\ disk'["content"] = Recovered(disk["content"])
    BY <1>0, <1>2, BothRecovered, DiskIs
  <2>2. /\ BehindOf(disk'["game"]) = Behind("game") /\ Game' = Behind("game")
        /\ BehindOf(disk'["content"]) = Behind("content") /\ Content' = Behind("content")
    BY <1>0, <2>1, BehindIs DEF Behind, Game, Content
  <2>3. disk'["game"].scratch # "record"
    BY <1>0, <2>1, RecoveredIs
  <2> QED
    BY <1>0, <2>2, <2>3, VersionsAre DEF InOrder, Behind
<1>3. CASE disk' = disk
  BY <1>3 DEF InOrder, Behind, Game, Content
<1>4. CASE /\ disk'["game"] = disk["game"] /\ disk'["content"].scratch = "none"
           /\ disk'["content"].now.version \in {0, Recovered(disk["content"]).now.version}
  <2>1. BehindOf(disk'["content"]) = Content' /\ Content' \in {0, Behind("content")}
    BY <1>0, <1>1, <1>4, BehindIs DEF Behind, Content
  <2>2. BehindOf(disk'["game"]) = Behind("game") /\ Game' = Game
    BY <1>4 DEF Behind, Game
  <2> QED
    BY <1>0, <1>4, <2>1, <2>2, VersionsAre DEF InOrder, Behind
<1> QED
  BY <1>2, <1>3, <1>4, LayersElsewhere

-----------------------------------------------------------------------------

(* How anything but an operation moves a thread: to a job that knows no    *)
(* release, along a scan until it has found something to install, and to   *)
(* an operation with what the launcher remembers.                          *)
Quiet(j) == ~IsOperation(j) /\ (j.task = "scan" => j.at = "start")
Plain(j) == ~IsOperation(j) /\ ~Compares(j)
ScanGoes(t) ==
    /\ job'[t].task = "scan"
    /\ \/ job'[t].at = "channel" /\ disk' = AllRecovered /\ offer' = offer
       \/ job'[t].at = "read" /\ (At(t, "scan", "channel") \/ offer' = 0)
       \/ /\ At(t, "scan", "read") /\ job'[t].at = "decide"
          /\ job'[t].version = Content /\ job'[t].approved = approved
          /\ UNCHANGED <<disk, approved, offer>>
ScanFinds(t) ==
    /\ offer' = offer
    /\ \/ /\ At(t, "scan", "decide") /\ Compares(job'[t]) /\ job'[t].version = Game
          /\ approved' = 0 \/ (job[t].approved = 0 /\ approved' = approved)
       \/ /\ At(t, "scan", "decide") /\ ContinuesApproved(t) /\ approved' = approved
          /\ job'[t].task = "update" /\ job'[t].at = "start"
          /\ job'[t].version = Game /\ job'[t].finishes
       \/ /\ At(t, "scan", "verify") /\ Compares(job'[t])
          /\ job'[t].version = job[t].version /\ approved' = approved
ThreadMoves(t) ==
    \/ job'[t] = job[t]
    \/ Quiet(job'[t])
    \/ ScanGoes(t)
    \/ ScanFinds(t)
    \/ /\ pending.kind \in {"update", "install"} /\ pending' = pending
       /\ job'[t].task = pending.kind /\ job'[t].at \in {"start", "fetch"}
       /\ job'[t].version = pending.version
       /\ pending.kind = "update" => (job'[t].finishes <=> pending.finishes)
    \/ /\ offer # 0 /\ offer' = offer /\ job'[t].task = "game"
       /\ job'[t].at \in {"start", "fetch"} /\ job'[t].version = offer

LEMMA QuietJobs ==
  /\ Quiet(Idle)
  /\ \A next \in Screens \ {"gate", "closed"} : Quiet(Report(next))
  /\ Quiet([Idle EXCEPT !.task = "launch"])
<1>1. Quiet(Idle)
  BY IdleFits DEF Quiet
<1>2. ASSUME NEW next \in Screens \ {"gate", "closed"} PROVE Quiet(Report(next))
  BY ReportFits DEF Quiet
<1>3. Quiet([Idle EXCEPT !.task = "launch"])
  <2> DEFINE j == [Idle EXCEPT !.task = "launch"]
  <2>1. j.task = "launch"
    BY IdleFits, WithTask DEF Tasks
  <2> HIDE DEF j
  <2>2. Quiet(j)
    BY <2>1 DEF Quiet, IsOperation
  <2> QED
    BY <2>2 DEF j
<1> QED
  BY <1>1, <1>2, <1>3

LEMMA QuietIsPlain ==
  /\ \A j : Quiet(j) => Plain(j)
  /\ \A t \in Threads : ScanGoes(t) => Plain(job'[t])
BY DEF Quiet, Plain, Compares, ScanGoes, IsOperation

LEMMA SpawnMoves ==
  ASSUME JobsFit, NEW t \in Threads, NEW next, Spawn(next)
  PROVE  job'[t] = job[t] \/ job'[t] = next
BY DEF JobsFit, Spawn, Become

LEMMA ScanMoves ==
  ASSUME JobsFit, NEW t \in Threads, NEW step \in {"start", "read"}, StartScan(step)
  PROVE  job'[t] = job[t] \/ (job'[t].task = "scan" /\ job'[t].at = step)
<1> DEFINE next == [Scan EXCEPT !.at = step]
<1>1. Scan \in Job /\ Scan.task = "scan"
  BY IdleFits, WithTask DEF Scan, Tasks
<1>2. next.task = "scan" /\ next.at = step
  BY <1>1, WithAt DEF Steps
<1>3. Spawn(next)
  BY DEF StartScan
<1> HIDE DEF next
<1> QED
  BY <1>2, <1>3, SpawnMoves

LEMMA ScanStarts ==
  ASSUME JobsFit, NEW t \in Threads, StartScan("start")
  PROVE  ThreadMoves(t)
BY ScanMoves DEF ThreadMoves, Quiet, IsOperation

LEMMA BeginMoves ==
  ASSUME JobsFit, NEW t \in Threads, NEW task \in {"game", "update", "install"},
         NEW version \in Releases, NEW finishes \in BOOLEAN,
         Begin(Operation(task, version, finishes))
  PROVE  \/ job'[t] = job[t]
         \/ /\ job'[t].task = task /\ job'[t].version = version
            /\ job'[t].finishes = finishes /\ job'[t].at \in {"start", "fetch"}
<1> DEFINE next == Operation(task, version, finishes)
<1>1. /\ next.task = task /\ next.version = version
      /\ next.finishes = finishes /\ next.at \in {"start", "fetch"}
  BY OperationFits
<1>2. job' = job \/ Spawn(next)
  BY Zenon DEF Begin
<1> HIDE DEF next
<1> QED
  BY <1>1, <1>2, SpawnMoves

(* The operations that are begun with what the launcher remembers.         *)
LEMMA PendingMoves ==
  ASSUME TypeInv, NEW t \in Threads, pending' = pending,
         \/ pending.kind = "update" /\ StartUpdate
         \/ pending.kind = "install" /\ StartInstall
  PROVE  ThreadMoves(t)
<1>1. JobsFit /\ (pending.kind # "none" => pending.version \in Releases)
  BY DEF TypeInv, NumbersFit, PendingKnown
<1>2. CASE pending.kind = "update" /\ StartUpdate
  <2>1. pending.finishes \in BOOLEAN
    BY DEF TypeInv, NumbersFit, Pending
  <2>2. Begin(Operation("update", pending.version, pending.finishes))
    BY <1>2 DEF StartUpdate
  <2>3. \/ job'[t] = job[t]
        \/ /\ job'[t].task = "update" /\ job'[t].version = pending.version
           /\ job'[t].finishes = pending.finishes /\ job'[t].at \in {"start", "fetch"}
    BY <1>1, <1>2, <2>1, <2>2, BeginMoves
  <2> QED
    BY <1>2, <2>3 DEF ThreadMoves
<1>3. CASE pending.kind = "install" /\ StartInstall
  <2>1. Begin(Operation("install", pending.version, FALSE))
    BY <1>3 DEF StartInstall
  <2>2. \/ job'[t] = job[t]
        \/ /\ job'[t].task = "install" /\ job'[t].version = pending.version
           /\ job'[t].at \in {"start", "fetch"}
    BY <1>1, <1>3, <2>1, BeginMoves
  <2> QED
    BY <1>3, <2>2 DEF ThreadMoves
<1> QED
  BY <1>2, <1>3

LEMMA GameMoves ==
  ASSUME TypeInv, NEW t \in Threads, NEW waits, StartGameUpdate(waits), offer' = offer
  PROVE  ThreadMoves(t)
<1>0. JobsFit /\ offer \in Versions
  BY DEF TypeInv, NumbersFit
<1>1. CASE offer = 0
  <2>1. StartScan("start")
    BY <1>1, Zenon DEF StartGameUpdate
  <2> QED
    BY <1>0, <2>1, ScanStarts
<1>2. CASE offer # 0 /\ ~session
  BY <1>2, Zenon DEF StartGameUpdate, ThreadMoves
<1>3. CASE offer # 0 /\ session
  <2>1. Begin(Operation("game", offer, TRUE)) /\ offer \in Releases
    BY <1>0, <1>3, ReleaseFacts, Zenon DEF StartGameUpdate
  <2>2. \/ job'[t] = job[t]
        \/ /\ job'[t].task = "game" /\ job'[t].version = offer
           /\ job'[t].at \in {"start", "fetch"}
    BY <1>0, <2>1, BeginMoves
  <2> QED
    BY <1>3, <2>2 DEF ThreadMoves
<1> QED
  BY <1>1, <1>2, <1>3

LEMMA ScanThreadMoves ==
  ASSUME TypeInv, NEW t \in Threads, NEW u \in Threads, Scans(u)
  PROVE  ThreadMoves(t)
<1>0. JobsFit /\ Game \in Releases
  BY DEF TypeInv, DiskFits, GameKnown
<1>1. CASE t # u
  <2>1. \E next : Become(u, next)
    BY Zenon DEF Scans, ScanRecovers, ScanChecksGame, ScanReads, ScanDecides, ScanFails,
                 ScanVerifies, ScanPrompts, ContinueApproved, Go, End
  <2> QED
    BY <1>0, <1>1, <2>1 DEF Become, JobsFit, ThreadMoves
<1>2. CASE t = u
  <2>1. ASSUME NEW next, Become(t, next) PROVE job'[t] = next
    BY <1>0, <2>1 DEF Become, JobsFit
  <2>2. ASSUME End(t) PROVE ThreadMoves(t)
    BY <2>1, <2>2, QuietJobs DEF End, ThreadMoves
  <2>3. ASSUME NEW step \in Steps, Go(t, step), job[t].task = "scan",
               step \in {"verify", "prompt"} => job[t].version \in Releases
        PROVE  job'[t].task = "scan" /\ job'[t].at = step /\ job'[t].version = job[t].version
    <3> DEFINE next == [job[t] EXCEPT !.at = step]
    <3>1. next.task = job[t].task /\ next.at = step /\ next.version = job[t].version
      BY <1>0, <2>3, GoFits
    <3>2. Become(t, next)
      BY <2>3 DEF Go
    <3> HIDE DEF next
    <3> QED
      BY <2>1, <2>3, <3>1, <3>2
  <2>4. job[t].task = "scan" /\ job[t] \in Job
    BY <1>0, <1>2 DEF Scans, ScanRecovers, ScanChecksGame, ScanReads, ScanDecides, ScanFails,
                ScanVerifies, ScanPrompts, At, JobsFit
  <2>5. CASE ScanRecovers(t) \/ ScanChecksGame(t)
    <3>1. \/ End(t)
          \/ Go(t, "channel") /\ disk' = AllRecovered /\ offer' = offer
          \/ Go(t, "read") /\ At(t, "scan", "channel")
      BY <2>5 DEF ScanRecovers, ScanChecksGame, memory
    <3>2. CASE Go(t, "channel") /\ disk' = AllRecovered /\ offer' = offer
      BY <2>3, <2>4, <3>2 DEF Steps, ThreadMoves, ScanGoes
    <3>3. CASE Go(t, "read") /\ At(t, "scan", "channel")
      BY <2>3, <2>4, <3>3 DEF Steps, ThreadMoves, ScanGoes
    <3> QED
      BY <2>2, <3>1, <3>2, <3>3
  <2>6. CASE ScanReads(t)
    <3>1. PICK next : /\ Become(t, next)
                      /\ next = [job[t] EXCEPT !.at = "decide", !.version = Content,
                                               !.approved = approved]
      BY <2>6 DEF ScanReads
    <3>2. /\ next.task = "scan" /\ next.at = "decide"
          /\ next.version = Content /\ next.approved = approved
      BY <2>4, <3>1 DEF Job
    <3>3. At(t, "scan", "read") /\ UNCHANGED <<disk, approved, offer>>
      BY <2>6 DEF ScanReads, store, memory
    <3>4. job'[t] = next
      BY <2>1, <3>1
    <3> QED
      BY <3>2, <3>3, <3>4 DEF ThreadMoves, ScanGoes
  <2>7. CASE ScanDecides(t)
    <3>1. At(t, "scan", "decide") /\ offer' = offer
      BY <2>7 DEF ScanDecides
    <3>2. \/ End(t)
          \/ job[t].version = Game /\ Go(t, "verify") /\ approved' = 0
          \/ /\ Become(t, Operation("update", Game, TRUE))
             /\ ContinuesApproved(t) /\ approved' = approved
          \/ /\ Become(t, [job[t] EXCEPT !.at = "prompt", !.version = Game])
             /\ approved' = IF job[t].approved = 0 THEN approved ELSE 0
      BY <2>7, Zenon DEF ScanDecides, ContinueApproved, ReleaseForGame
    <3>3. CASE job[t].version = Game /\ Go(t, "verify") /\ approved' = 0
      BY <1>0, <2>3, <2>4, <3>1, <3>3 DEF Steps, ThreadMoves, ScanFinds, Compares
    <3>4. CASE /\ Become(t, Operation("update", Game, TRUE))
               /\ ContinuesApproved(t) /\ approved' = approved
      <4> DEFINE next == Operation("update", Game, TRUE)
      <4>1. /\ next.task = "update" /\ next.version = Game /\ next.at = "start"
            /\ next.finishes = TRUE
        <5>1. /\ next.task = "update" /\ next.version = Game /\ next.finishes = TRUE
          BY <1>0, OperationFits
        <5>2. next.at = "start"
          BY IdleFits DEF Operation, Idle
        <5> QED
          BY <5>1, <5>2
      <4> HIDE DEF next
      <4>2. job'[t] = next
        BY <2>1, <3>4 DEF next
      <4> QED
        BY <3>1, <3>4, <4>1, <4>2 DEF ThreadMoves, ScanFinds
    <3>5. CASE /\ Become(t, [job[t] EXCEPT !.at = "prompt", !.version = Game])
               /\ approved' = IF job[t].approved = 0 THEN approved ELSE 0
      <4>1. PICK next : /\ Become(t, next)
                        /\ next = [job[t] EXCEPT !.at = "prompt", !.version = Game]
        BY <3>5
      <4>2. next.task = "scan" /\ next.at = "prompt" /\ next.version = Game
        BY <2>4, <4>1 DEF Job
      <4>3. job'[t] = next
        BY <2>1, <4>1
      <4> QED
        BY <3>1, <3>5, <4>2, <4>3 DEF ThreadMoves, ScanFinds, Compares
    <3> QED
      BY <2>2, <3>2, <3>3, <3>4, <3>5
  <2>8. CASE ScanFails(t) \/ ScanPrompts(t)
    BY <2>2, <2>8 DEF ScanFails, ScanPrompts
  <2>9. CASE ScanVerifies(t)
    <3>1. At(t, "scan", "verify") /\ job[t].version \in Releases
      BY <1>0, <2>9 DEF ScanVerifies, At, JobsFit, Fit
    <3>2. approved' = approved /\ offer' = offer
      BY <2>9 DEF ScanVerifies, memory
    <3>3. End(t) \/ Go(t, "prompt")
      BY <2>9 DEF ScanVerifies
    <3>4. CASE Go(t, "prompt")
      BY <2>3, <2>4, <3>1, <3>2, <3>4 DEF Steps, ThreadMoves, ScanFinds, Compares
    <3> QED
      BY <2>2, <3>3, <3>4
  <2> QED
    BY <1>2, <2>5, <2>6, <2>7, <2>8, <2>9 DEF Scans
<1> QED
  BY <1>1, <1>2

LEMMA ChoiceThreadMoves ==
  ASSUME TypeInv, NEW t \in Threads, NEW choice \in Choices, Choose(choice)
  PROVE  ThreadMoves(t)
<1>0. JobsFit
  BY DEF TypeInv
<1>1. ASSUME NEW next, Become(Main, next) PROVE ThreadMoves(t)
  BY <1>0, <1>1, MainIsApart DEF Become, JobsFit, ThreadMoves
<1>2. CASE Play \/ Back \/ SignIn \/ ChooseProvider
  BY <1>1, <1>2 DEF Play, Back, SignIn, ChooseProvider, ThreadMoves
<1>3. CASE Exit
  BY <1>3, QuietJobs DEF Exit, ThreadMoves
<1>4. CASE GameUpdateChosen
  BY <1>4, GameMoves DEF GameUpdateChosen
<1>5. CASE SkipGameUpdate \/ RetryUpdateCheck
  BY <1>0, <1>5, ScanMoves, ScanStarts
     DEF SkipGameUpdate, RetryUpdateCheck, ThreadMoves, ScanGoes
<1>6. CASE InstallChosen
  BY <1>6, PendingMoves DEF InstallChosen, ThreadMoves
<1>7. CASE UpdateChosen
  <2>1. (pending.kind = "update" /\ StartUpdate) \/ StartScan("start")
    BY <1>7, Zenon DEF UpdateChosen
  <2>2. pending' = pending
    BY <1>7 DEF UpdateChosen
  <2> QED
    BY <1>0, <2>1, <2>2, PendingMoves, ScanStarts
<1> QED
  BY <1>2, <1>3, <1>4, <1>5, <1>6, <1>7, Zenon DEF Choose

LEMMA WorldThreadMoves ==
  ASSUME TypeInv, NEW t \in Threads, World
  PROVE  ThreadMoves(t)
<1>0. JobsFit
  BY DEF TypeInv
<1>1. CASE Open \/ Render \/ GateAnswers \/ Publish \/ Damage
  BY <1>1 DEF Open, Render, GateAnswers, Publish, Damage, ThreadMoves
<1>2. CASE Close \/ Kill
  BY <1>2, QuietJobs DEF Close, Kill, Exit, ThreadMoves
<1>3. CASE PageLoads
  <2>1. offer' = offer /\ pending' = pending
    BY <1>3 DEF PageLoads
  <2>2. \/ StartGameUpdate(FALSE)
        \/ pending.kind = "install" /\ StartInstall
        \/ pending.kind = "update" /\ StartUpdate
        \/ StartScan("start")
    BY <1>3, Zenon DEF PageLoads, ResumeAfterGate
  <2> QED
    BY <1>0, <2>1, <2>2, GameMoves, PendingMoves, ScanStarts
<1> QED
  BY <1>1, <1>2, <1>3 DEF World

LEMMA AnyThreadMoves ==
  ASSUME TypeInv, [Next]_vars, NEW t \in Threads, \A u \in Threads : ~Operates(u)
  PROVE  ThreadMoves(t)
<1>0. JobsFit
  BY DEF TypeInv
<1>1. ASSUME NEW u \in Threads, Reports(u) PROVE ThreadMoves(t)
  <2>1. job'[t] = job[t] \/ job'[t] = Idle
    BY <1>0, <1>1 DEF Reports, End, Become, JobsFit
  <2> QED
    BY <2>1, QuietJobs DEF ThreadMoves
<1>2. ASSUME NEW u \in Threads \cup {Main}, Launches(u) PROVE ThreadMoves(t)
  <2>1. CASE Exit
    BY <2>1, QuietJobs DEF Exit, ThreadMoves
  <2>2. CASE ~Exit
    <3>1. Go(u, "decide") \/ End(u)
      BY <1>2, <2>2, Zenon DEF Launches, LaunchRecovers, LaunchDecides
    <3>2. CASE End(u)
      <4>1. job'[t] = job[t] \/ job'[t] = Idle
        BY <1>0, <3>2 DEF End, Become, JobsFit
      <4> QED
        BY <4>1, QuietJobs DEF ThreadMoves
    <3>3. CASE Go(u, "decide")
      <4>1. CASE u # t
        BY <1>0, <3>3, <4>1 DEF Go, Become, JobsFit, ThreadMoves
      <4>2. CASE u = t
        <5> DEFINE next == [job[t] EXCEPT !.at = "decide"]
        <5>1. next.task = "launch"
          BY <1>0, <1>2, <4>2, GoFits DEF Launches, LaunchRecovers, LaunchDecides, At, Steps
        <5>2. Become(t, next)
          BY <3>3, <4>2 DEF Go
        <5> HIDE DEF next
        <5>3. job'[t] = next
          BY <1>0, <5>2 DEF Become, JobsFit
        <5> QED
          BY <5>1, <5>3 DEF ThreadMoves, Quiet, IsOperation
      <4> QED
        BY <4>1, <4>2
    <3> QED
      BY <3>1, <3>2, <3>3
  <2> QED
    BY <2>1, <2>2
<1>3. CASE UNCHANGED vars
  BY <1>3 DEF vars, ThreadMoves
<1> QED
  BY <1>1, <1>2, <1>3, ScanThreadMoves, ChoiceThreadMoves, WorldThreadMoves DEF Next, Works

(* How anything but an operation moves what the launcher remembers: a scan *)
(* by what it has read or compared, the gate by what it was asked for.     *)
ScanRemembers(t) ==
    /\ offer' = offer /\ pending'.kind = "update" /\ approved' = approved
    /\ \/ /\ At(t, "scan", "decide") /\ ContinuesApproved(t)
          /\ pending'.version = Game /\ pending'.finishes
       \/ /\ At(t, "scan", "prompt") /\ pending'.version = job[t].version
          /\ pending'.finishes \/ Game = Content
MemoryMoves ==
    /\ \/ pending' = pending
       \/ pending'.kind = "none"
       \/ \E t \in Threads : ScanRemembers(t)
       \/ screen = "gate" /\ pending'.kind = "install" /\ pending'.version = asked
    /\ \/ offer' = offer
       \/ offer' = 0 /\ (Exit \/ ~guard)
       \/ \E t \in Threads : At(t, "scan", "channel") /\ offer' \in Nat /\ offer' > Game

LEMMA AnyRemembers ==
  ASSUME TypeInv, [Next]_vars, \A u \in Threads : ~Operates(u)
  PROVE  MemoryMoves
<1>0. ASSUME UNCHANGED <<pending, offer>> PROVE MemoryMoves
  BY <1>0 DEF MemoryMoves
<1>1. ASSUME Exit PROVE MemoryMoves
  BY <1>1, PendingIs DEF Exit, MemoryMoves
<1>2. ASSUME NEW t \in Threads, Scans(t) PROVE MemoryMoves
  <2>1. CASE ScanRecovers(t) \/ ScanReads(t) \/ ScanFails(t) \/ ScanVerifies(t)
    BY <1>0, <2>1, Zenon DEF ScanRecovers, ScanReads, ScanFails, ScanVerifies, memory
  <2>2. CASE ScanChecksGame(t)
    <3>1. published \in Nat /\ Game \in Nat /\ At(t, "scan", "channel")
      BY <2>2, DiskIs DEF TypeInv, NumbersFit, Releases, ScanChecksGame
    <3>2. pending' = pending
      BY <2>2 DEF ScanChecksGame
    <3>3. offer' = offer \/ (published > Game /\ offer' = published)
      BY <2>2 DEF ScanChecksGame
    <3> QED
      BY <3>1, <3>2, <3>3 DEF MemoryMoves
  <2>3. CASE ScanDecides(t)
    <3>1. At(t, "scan", "decide") /\ offer' = offer
      BY <2>3 DEF ScanDecides
    <3>2. \/ pending' = pending
          \/ pending' = Update(Game, TRUE) /\ ContinuesApproved(t) /\ approved' = approved
      BY <2>3, Zenon DEF ScanDecides, ContinueApproved, ReleaseForGame
    <3>3. LET p == Update(Game, TRUE) IN p.kind = "update" /\ p.version = Game /\ p.finishes
      BY DEF Update
    <3> QED
      BY <3>1, <3>2, <3>3 DEF MemoryMoves, ScanRemembers
  <2>4. CASE ScanPrompts(t)
    <3>1. /\ At(t, "scan", "prompt") /\ offer' = offer /\ approved' = approved
          /\ pending' = Update(job[t].version, Game # Content)
      BY <2>4, Zenon DEF ScanPrompts
    <3>2. /\ pending'.kind = "update" /\ pending'.version = job[t].version
          /\ pending'.finishes = (Game # Content)
      BY <3>1 DEF Update
    <3> QED
      BY <3>1, <3>2 DEF MemoryMoves, ScanRemembers
  <2> QED
    BY <1>2, <2>1, <2>2, <2>3, <2>4 DEF Scans
<1>3. ASSUME NEW t \in Threads, Reports(t) PROVE MemoryMoves
  BY <1>0, <1>3, Zenon DEF Reports
<1>4. ASSUME NEW t \in Threads \cup {Main}, Launches(t) PROVE MemoryMoves
  BY <1>0, <1>1, <1>4, Zenon DEF Launches, LaunchRecovers, LaunchDecides, memory
<1>5. ASSUME NEW choice \in Choices, Choose(choice) PROVE MemoryMoves
  <2>1. CASE SkipGameUpdate
    BY <1>5, <2>1 DEF Choose, SkipGameUpdate, MemoryMoves
  <2>2. CASE ~SkipGameUpdate
    BY <1>0, <1>1, <1>5, <2>2, Zenon
       DEF Choose, Play, GameUpdateChosen, RetryUpdateCheck, InstallChosen, UpdateChosen, Back,
           SignIn, ChooseProvider
  <2> QED
    BY <2>1, <2>2
<1>6. ASSUME World PROVE MemoryMoves
  <2>1. CASE GateAnswers
    <3>1. screen = "gate" /\ offer' = offer /\ pending' \in {pending, FirstInstall(asked)}
      BY <2>1, Zenon DEF GateAnswers
    <3>2. FirstInstall(asked).version = asked /\ FirstInstall(asked).kind = "install"
      BY DEF FirstInstall
    <3> QED
      BY <3>1, <3>2 DEF MemoryMoves
  <2>2. CASE ~GateAnswers
    BY <1>0, <1>1, <1>6, <2>2, Zenon
       DEF World, Open, Render, PageLoads, Publish, Damage, Close, Kill, memory
  <2> QED
    BY <2>1, <2>2
<1>7. CASE UNCHANGED vars
  BY <1>0, <1>7 DEF vars, memory
<1> QED
  BY <1>2, <1>3, <1>4, <1>5, <1>6, <1>7, Zenon DEF Next, Works

-----------------------------------------------------------------------------

(* What a job has to know: nothing, while no release is chosen; and what   *)
(* it knows stays right as long as the layer behind the game is the same.  *)
LEMMA PlainAims == ASSUME NEW j, NEW layer, NEW offered, Plain(j) PROVE Aims(j, layer, offered)
BY DEF Plain, Compares, IsOperation, Aims

LEMMA AimsKept ==
  ASSUME NEW j, NEW was, NEW layer, NEW offer0, NEW offered, Aims(j, was, offer0),
         BehindOf(layer) = BehindOf(was), layer = was \/ layer.scratch # "record",
         j.task = "game" => offered \in {offer0, 0}
  PROVE  Aims(j, layer, offered)
BY DEF Aims

LEMMA ElsewhereKeepsFlow ==
  ASSUME OneThread, TypeInv, OneOperation, Closed, LayersFit, FlowFits, [Next]_vars,
         \A t \in Threads : ~Operates(t), ~unrestored'
  PROVE  InOrder' /\ Remembered' /\ JobsAim'
<1>0. ~unrestored /\ InOrder /\ Remembered /\ JobsAim /\ DiskFits
  BY UnrestoredStays DEF FlowFits, TypeInv
<1>1. /\ InOrder' /\ BehindOf(disk'["game"]) = Behind("game")
      /\ disk'["game"] = disk["game"] \/ disk'["game"].scratch # "record"
  BY <1>0, LayersKeepOrder
<1>2. \A t \in Threads : job[t].task = "scan" => Game = Behind("game")
  BY <1>0, ScanningAlone
<1>3. MemoryMoves /\ ScreenMoves
  BY AnyRemembers, AnyShows
<1>4. pending'.kind # "none" => pending'.version = Behind("game")
  <2>1. \A t \in Threads : At(t, "scan", "prompt") => job[t].version = Behind("game")
    BY <1>0 DEF At, JobsAim, Aims, Compares, Behind
  <2> QED
    BY <1>0, <1>2, <1>3, <2>1 DEF MemoryMoves, ScanRemembers, Remembered, At
<1>5. offer' # 0 => Behind("game") <= offer'
  BY <1>0, <1>2, <1>3, VersionsAre DEF MemoryMoves, Remembered, At
<1>6. screen' = "gate" => asked' = Behind("game") /\ ~guard'
  <2>1. CASE screen' = screen /\ asked' = asked /\ (guard' => guard)
    BY <1>0, <2>1 DEF Remembered
  <2>2. CASE screen' = "gate" /\ asked' = Game /\ ~guard /\ ~guard'
    <3>1. screen # "closed"
      BY <2>2, OpensOnce DEF Open, Write
    <3>2. \A t \in Threads : ~IsOperation(job[t])
      BY <2>2 DEF OneOperation, Operating, IsOperation
    <3> QED
      BY <1>0, <2>2, <3>1, <3>2, NothingBehind
  <2>3. CASE Exit
    BY <2>3 DEF Exit
  <2> QED
    BY <1>3, <2>1, <2>2, <2>3 DEF ScreenMoves, Written
<1>7. screen' = "closed" => pending'.kind = "none"
  <2>1. CASE Exit
    BY <2>1, PendingIs DEF Exit
  <2>2. CASE ~Exit /\ screen' = "closed"
    <3>1. screen = "closed"
      BY <1>3, <2>2 DEF ScreenMoves, Written
    <3>2. pending' = pending
      BY <3>1, ClosedWaits DEF Open, Publish, Damage, vars, memory
    <3> QED
      BY <1>0, <3>1, <3>2 DEF Remembered
  <2> QED
    BY <2>1, <2>2
<1>8. ASSUME NEW t \in Threads PROVE Aims(job'[t], disk'["game"], offer')
  <2>0. Aims(job[t], disk["game"], offer) /\ BehindOf(disk'["game"]) = BehindOf(disk["game"])
    BY <1>0, <1>1 DEF JobsAim, Behind
  <2>1. CASE Quiet(job'[t]) \/ ScanGoes(t)
    BY <2>1, PlainAims, QuietIsPlain
  <2>2. CASE job'[t] = job[t]
    <3>1. job[t].task = "game" => offer' \in {offer, 0}
      <4>1. job[t].task = "game" => \A u \in Threads : job[u].task # "scan"
        BY DEF OneThread
      <4> QED
        BY <1>3, <4>1 DEF MemoryMoves, At
    <3>2. Aims(job[t], disk'["game"], offer')
      BY <1>1, <2>0, <3>1, AimsKept
    <3> QED
      BY <2>2, <3>2
  <2>3. CASE ScanFinds(t)
    <3>1. job'[t].version = BehindOf(disk'["game"]) /\ job'[t].task # "game"
      <4>1. At(t, "scan", "verify") => job[t].version = BehindOf(disk["game"])
        BY <2>0 DEF At, Aims, Compares
      <4> QED
        BY <1>1, <1>2, <2>0, <2>3, <4>1 DEF ScanFinds, Compares, At
    <3> QED
      BY <3>1 DEF Aims
  <2>4. CASE /\ pending.kind \in {"update", "install"} /\ job'[t].task = pending.kind
             /\ job'[t].version = pending.version
    <3>1. job'[t].version = BehindOf(disk'["game"])
      BY <1>0, <1>1, <2>4 DEF Remembered
    <3> QED
      BY <2>4, <3>1 DEF Aims
  <2>5. CASE /\ offer # 0 /\ offer' = offer /\ job'[t].task = "game"
             /\ job'[t].at \in {"start", "fetch"} /\ job'[t].version = offer
    <3>1. BehindOf(disk'["game"]) <= job'[t].version /\ job'[t].version <= offer'
      <4>1. offer \in Nat
        BY DEF TypeInv, NumbersFit, Versions
      <4> QED
        BY <1>0, <1>1, <2>5, <4>1 DEF Remembered
    <3> QED
      BY <2>5, <3>1 DEF Aims, Compares
  <2>6. ThreadMoves(t)
    BY AnyThreadMoves
  <2> QED
    BY <2>1, <2>2, <2>3, <2>4, <2>5, <2>6, Zenon DEF ThreadMoves
<1> QED
  BY <1>1, <1>4, <1>5, <1>6, <1>7, <1>8 DEF Remembered, JobsAim, Behind

-----------------------------------------------------------------------------

(* An operation moves its layer only, between what is behind it and the    *)
(* release it installs, and what is behind it when the apply has finished. *)
LayerMoves(t, l) ==
    /\ Recovered(disk'[l]).now = Recovered(disk[l]).now
    /\ BehindOf(disk'[l]) = Behind(l)
    /\ \/ disk'[l].now.version \in {Behind(l), disk[l].now.version}
       \/ l = LayerOf(t) /\ disk'[l].now.version = job[t].version

LEMMA ApplyMoves ==
  ASSUME TypeInv, NEW t \in Threads, Operates(t), ~Finish(t), NEW l \in Layers
  PROVE  LayerMoves(t, l)
<1>0. DiskFits /\ disk[l] \in Layer /\ LayerOf(t) \in Layers
  BY DiskIs, LayerOfIs DEF TypeInv
<1>1. disk'[l] \in Layer
  BY OperatesKeepDisk DEF DiskFits
<1>2. ASSUME disk'[l] = disk[l] PROVE LayerMoves(t, l)
  BY <1>2 DEF LayerMoves, Behind
<1>3. ASSUME disk'[l] = Recovered(disk[l]) PROVE LayerMoves(t, l)
  BY <1>0, <1>3, RecoveredIs, BehindIs DEF LayerMoves, Behind
<1>4. CASE UpdateRecovers(t)
  <2>1. disk' = AllRecovered \/ disk' = disk \/ disk' = [disk EXCEPT !["game"] = Recovered(@)]
    BY <1>4 DEF UpdateRecovers, RecoveryFails
  <2>2. CASE disk' = [disk EXCEPT !["game"] = Recovered(@)]
    BY <1>0, <1>2, <1>3, <2>2, OneRecovered, DiskIs
  <2> QED
    BY <1>0, <1>2, <1>3, <2>1, <2>2, BothRecovered
<1>5. CASE Stage(t)
  <2>1. CASE l = LayerOf(t)
    <3>1. disk'[l].scratch = "staged" /\ disk'[l].now = Recovered(disk[l]).now
      BY <1>0, <1>5, <2>1, StageIs
    <3>2. Recovered(disk'[l]).now = Recovered(disk[l]).now
      BY <1>0, <1>1, <3>1, RecoveredIs
    <3> QED
      BY <3>1, <3>2 DEF LayerMoves, Behind, BehindOf
  <2>2. CASE l # LayerOf(t)
    BY <1>0, <1>2, <1>5, <2>2, StageIs
  <2> QED
    BY <2>1, <2>2
<1>6. CASE Commit(t)
  <2>1. CASE l = LayerOf(t)
    <3>1. /\ disk[l].scratch = "staged" /\ disk'[l].scratch = "record"
          /\ disk'[l].backup = disk[l].now
          /\ disk'[l].now.version \in {disk[l].now.version, job[t].version}
      BY <1>6, <2>1, CommitIs
    <3>2. Recovered(disk'[l]).now = Recovered(disk[l]).now
      BY <1>0, <1>1, <3>1, RecoveredIs
    <3> QED
      BY <2>1, <3>1, <3>2 DEF LayerMoves, Behind, BehindOf
  <2>2. CASE l # LayerOf(t)
    BY <1>2, <1>6, <2>2, CommitIs
  <2> QED
    BY <2>1, <2>2
<1>7. CASE Complete(t)
  <2>1. CASE l = LayerOf(t)
    <3>1. /\ disk[l].scratch = "record" /\ disk'[l].scratch = "record"
          /\ disk'[l].backup = disk[l].backup
          /\ disk'[l].now = [version |-> job[t].version, files |-> "whole"]
      BY <1>7, <2>1, CompleteIs
    <3>2. Recovered(disk'[l]).now = Recovered(disk[l]).now
      BY <1>0, <1>1, <3>1, RecoveredIs
    <3>3. disk'[l].now.version = job[t].version
      BY <3>1
    <3> QED
      BY <2>1, <3>2, <3>3 DEF LayerMoves, Behind, BehindOf
  <2>2. CASE l # LayerOf(t)
    BY <1>2, <1>7, <2>2, CompleteIs
  <2> QED
    BY <2>1, <2>2
<1>8. CASE ApplyFails(t)
  <2>1. disk' = disk \/ disk' = [disk EXCEPT ![LayerOf(t)] = Recovered(@)]
    BY <1>8 DEF ApplyFails
  <2>2. CASE disk' = [disk EXCEPT ![LayerOf(t)] = Recovered(@)]
    BY <1>0, <1>2, <1>3, <2>2, OneRecovered
  <2> QED
    BY <1>2, <2>1, <2>2
<1>9. CASE \/ GameFetched(t) \/ ContentFetched(t) \/ ContentRefused(t) \/ AuthorizationRequired(t)
           \/ ArchiveGone(t) \/ FetchFails(t) \/ Settles(t)
  BY <1>2, <1>9 DEF GameFetched, ContentFetched, ContentRefused, AuthorizationRequired,
                    ArchiveGone, FetchFails, Settles, store
<1> QED
  BY <1>4, <1>5, <1>6, <1>7, <1>8, <1>9 DEF Operates

LEMMA ApplyKeepsOrder ==
  ASSUME TypeInv, NEW t \in Threads, Operates(t), ~Finish(t), InOrder, JobsAim
  PROVE  InOrder' /\ BehindOf(disk'["game"]) = Behind("game")
<1>0. /\ DiskFits /\ IsOperation(job[t]) /\ job[t].version \in Nat
      /\ Aims(job[t], disk["game"], offer)
  <2>1. IsOperation(job[t])
    BY IsAnOperation
  <2> QED
    BY <2>1 DEF TypeInv, JobsFit, Fit, Releases, JobsAim
<1>1. LayerMoves(t, "game") /\ LayerMoves(t, "content")
  BY ApplyMoves DEF Layers
<1>2. /\ LayerOf(t) = "game" => Behind("game") <= job[t].version
      /\ LayerOf(t) = "content" => job[t].version = Behind("game")
  BY <1>0 DEF LayerOf, Aims, IsOperation, Behind
<1>3. Behind("game") <= Game'
  BY <1>0, <1>1, <1>2, VersionsAre DEF LayerMoves, InOrder, Game
<1>4. Content' <= Behind("game")
  BY <1>0, <1>1, <1>2, VersionsAre DEF LayerMoves, InOrder, Content
<1> QED
  BY <1>1, <1>3, <1>4 DEF LayerMoves, InOrder, Behind

(* The jobs of an operation that goes on, and of one that is over.         *)
LEMMA OperationGoes ==
  ASSUME JobsFit, NEW t \in Threads, NEW step \in Steps, IsOperation(job[t]), Go(t, step)
  PROVE  /\ job'[t].at = step /\ job'[t].task = job[t].task
         /\ job'[t].version = job[t].version /\ job'[t].finishes = job[t].finishes
<1> DEFINE next == [job[t] EXCEPT !.at = step]
<1>1. job[t].task # "scan"
  BY DEF IsOperation
<1>2. /\ next.at = step /\ next.task = job[t].task
      /\ next.version = job[t].version /\ next.finishes = job[t].finishes
  BY <1>1, GoFits
<1>3. Become(t, next)
  BY DEF Go
<1> HIDE DEF next
<1>4. job'[t] = next
  BY <1>3 DEF Become, JobsFit
<1> QED
  BY <1>2, <1>4

LEMMA OperationEnds ==
  ASSUME JobsFit, NEW t \in Threads, NEW next \in Screens \ {"gate", "closed"}, Release(t, next)
  PROVE  Quiet(job'[t])
<1>1. job'[t] = Report(next)
  BY DEF Release, Become, JobsFit
<1> QED
  BY <1>1, QuietJobs

(* Before it has finished, an operation keeps to its release, or ends.     *)
LEMMA OperationKeepsRelease ==
  ASSUME TypeInv, NEW t \in Threads, Operates(t), ~Finish(t)
  PROVE  \/ Quiet(job'[t])
         \/ /\ job'[t].task = job[t].task /\ job'[t].version = job[t].version
            /\ job'[t].finishes = job[t].finishes
            /\ job'[t].at # "settle" /\ (job'[t].at = "finish" => Complete(t))
<1>0. JobsFit
  BY DEF TypeInv
<1>1. IsOperation(job[t])
  BY IsAnOperation
<1>2. ASSUME NEW step \in {"fetch", "stage", "commit", "complete"}, Go(t, step)
      PROVE  /\ job'[t].task = job[t].task /\ job'[t].version = job[t].version
             /\ job'[t].finishes = job[t].finishes
             /\ job'[t].at # "settle" /\ job'[t].at # "finish"
  BY <1>0, <1>1, <1>2, OperationGoes DEF Steps
<1>3. /\ FailureScreen(t) \in Screens \ {"gate", "closed"}
      /\ \A s \in {"choices", "signIn", "retired", "updateFailed", "upToDate", "updateSignIn",
                   "requiredSignIn"} : s \in Screens \ {"gate", "closed"}
  BY ScreensAre DEF FailureScreen
<1>4. CASE GameFetched(t) \/ ContentFetched(t) \/ Stage(t) \/ Commit(t)
  BY <1>2, <1>4 DEF GameFetched, ContentFetched, Stage, Commit
<1>5. CASE Complete(t)
  <2>1. Go(t, "finish")
    BY <1>5 DEF Complete
  <2> QED
    BY <1>0, <1>1, <1>5, <2>1, OperationGoes DEF Steps
<1>6. CASE UpdateRecovers(t)
  <2>1. Release(t, "updateFailed") \/ Release(t, "choices") \/ Go(t, "fetch")
    BY <1>6, Zenon DEF UpdateRecovers
  <2> QED
    BY <1>0, <1>2, <1>3, <2>1, OperationEnds
<1>7. CASE ContentRefused(t) \/ FetchFails(t) \/ ApplyFails(t)
  <2>1. Release(t, FailureScreen(t))
    BY <1>7 DEF ContentRefused, FetchFails, ApplyFails, OperationFails
  <2> QED
    BY <1>0, <1>3, <2>1, OperationEnds
<1>8. CASE AuthorizationRequired(t) \/ ArchiveGone(t)
  BY <1>0, <1>3, <1>8, OperationEnds DEF AuthorizationRequired, ArchiveGone, SignInScreen
<1>9. CASE Settles(t)
  <2>1. CASE Release(t, "upToDate")
    BY <1>0, <1>3, <2>1, OperationEnds
  <2>2. CASE Become(t, [Idle EXCEPT !.task = "launch"])
    <3>1. job'[t] = [Idle EXCEPT !.task = "launch"]
      BY <1>0, <2>2 DEF Become, JobsFit
    <3> QED
      BY <3>1, QuietJobs
  <2> QED
    BY <1>9, <2>1, <2>2 DEF Settles
<1> QED
  BY <1>4, <1>5, <1>6, <1>7, <1>8, <1>9 DEF Operates

LEMMA FinishKeepsFlow ==
  ASSUME TypeInv, NEW t \in Threads, Finish(t), InOrder, JobsAim,
         pending.kind # "none" => pending.version = Behind("game"),
         offer # 0 => Behind("game") <= offer
  PROVE  /\ InOrder' /\ Aims(job'[t], disk'["game"], offer')
         /\ pending'.kind # "none" => pending'.version = BehindOf(disk'["game"])
         /\ offer' # 0 => BehindOf(disk'["game"]) <= offer'
<1>0. /\ DiskFits /\ JobsFit /\ IsOperation(job[t]) /\ job[t].version \in Releases
      /\ Aims(job[t], disk["game"], offer) /\ job[t].at = "finish"
      /\ disk["game"] \in Layer /\ disk["content"] \in Layer
  BY DiskIs DEF TypeInv, JobsFit, Fit, JobsAim, Finish, Operating, IsOperation
<1>1. disk'["game"] \in Layer /\ disk'["content"] \in Layer
  BY FinishIs DEF DiskFits, Layers
<1>2. CASE job[t].task = "game"
  <2>1. /\ disk["game"].scratch = "record" /\ disk'["game"].scratch = "none"
        /\ disk'["game"].now = disk["game"].now /\ disk'["content"] = disk["content"]
    BY <1>2, FinishIs DEF LayerOf, Layers
  <2>2. BehindOf(disk'["game"]) = job[t].version /\ Game' = job[t].version
    BY <1>0, <1>1, <1>2, <2>1, BehindIs DEF Aims, Game
  <2>3. Behind("game") <= job[t].version /\ (offer # 0 => job[t].version <= offer)
    BY <1>0, <1>2 DEF Aims, Behind
  <2>4. /\ pending' = Update(job[t].version, TRUE) /\ offer' = offer
        /\ Become(t, Operation("update", job[t].version, TRUE))
    BY <1>2 DEF Finish
  <2>5. Content' = Content /\ Behind("content")' = Behind("content")
    BY <2>1 DEF Content, Behind
  <2>6. InOrder'
    <3>1. Behind("game")' = job[t].version /\ job[t].version \in Nat
      BY <1>0, <2>2 DEF Behind, Releases
    <3> QED
      BY <1>0, <2>2, <2>3, <2>5, <3>1, VersionsAre DEF InOrder
  <2>7. Aims(job'[t], disk'["game"], offer')
    <3> DEFINE next == Operation("update", job[t].version, TRUE)
    <3>1. next.task = "update" /\ next.version = job[t].version
      BY <1>0, OperationFits
    <3> HIDE DEF next
    <3>2. job'[t] = next
      BY <1>0, <2>4 DEF Become, JobsFit, next
    <3> QED
      BY <2>2, <3>1, <3>2 DEF Aims
  <2>8. pending'.version = job[t].version
    BY <2>4 DEF Update
  <2> QED
    BY <2>2, <2>3, <2>4, <2>6, <2>7, <2>8
<1>3. CASE job[t].task # "game"
  <2>1. /\ disk["content"].scratch = "record" /\ disk'["content"].scratch = "none"
        /\ disk'["content"].now = disk["content"].now /\ disk'["game"] = disk["game"]
    BY <1>3, FinishIs DEF LayerOf, Layers
  <2>2. pending' = pending /\ offer' = offer /\ Go(t, "settle")
    BY <1>3 DEF Finish
  <2>3. InOrder'
    <3>1. BehindOf(disk'["content"]) = Content /\ Content' = Content
      BY <1>1, <2>1, BehindIs DEF Content
    <3>2. Behind("game")' = Behind("game") /\ Game' = Game
      BY <2>1 DEF Behind, Game
    <3> QED
      BY <3>1, <3>2 DEF InOrder, Behind
  <2>4. Aims(job'[t], disk'["game"], offer')
    <3>1. /\ job'[t].task = job[t].task /\ job'[t].version = job[t].version
      BY <1>0, <2>2, OperationGoes DEF Steps
    <3> QED
      BY <1>0, <1>3, <2>1, <3>1 DEF Aims, Compares, IsOperation
  <2> QED
    BY <2>1, <2>2, <2>3, <2>4 DEF Behind
<1> QED
  BY <1>2, <1>3

LEMMA OperatesKeepsFlow ==
  ASSUME OneThread, TypeInv, OneOperation, Closed, FlowFits, ~unrestored,
         NEW t \in Threads, Operates(t)
  PROVE  InOrder' /\ Remembered' /\ JobsAim'
<1>0. /\ InOrder /\ Remembered /\ JobsAim /\ DiskFits /\ IsOperation(job[t])
      /\ Aims(job[t], disk["game"], offer)
  <2>1. IsOperation(job[t])
    BY IsAnOperation
  <2> QED
    BY <2>1 DEF FlowFits, TypeInv, JobsAim
<1>1. screen' = screen
  BY DEF Operates, GameFetched, UpdateRecovers, ContentFetched, ContentRefused,
         AuthorizationRequired, ArchiveGone, FetchFails, Stage, Commit, Complete, Finish,
         ApplyFails, Settles, view
<1>2. screen # "gate" /\ screen # "closed"
  <2>1. guard
    BY <1>0 DEF OneOperation, Operating, IsOperation
  <2>2. job[t] # Idle
    BY <1>0, IdleFits
  <2> QED
    BY <1>0, <2>1, <2>2 DEF Remembered, Closed
<1>3. ASSUME InOrder', Aims(job'[t], disk'["game"], offer'),
             pending'.kind # "none" => pending'.version = BehindOf(disk'["game"]),
             offer' # 0 => BehindOf(disk'["game"]) <= offer'
      PROVE  InOrder' /\ Remembered' /\ JobsAim'
  BY <1>1, <1>2, <1>3 DEF Remembered, JobsAim, OneThread, Behind
<1>4. CASE Finish(t)
  BY <1>0, <1>3, <1>4, FinishKeepsFlow DEF Remembered
<1>5. CASE ~Finish(t)
  <2>1. InOrder' /\ BehindOf(disk'["game"]) = Behind("game")
    BY <1>0, <1>5, ApplyKeepsOrder
  <2>2. offer' = offer /\ (pending' = pending \/ pending'.kind = "none")
    <3>1. pending' = pending \/ pending' = NoPending
      BY <1>5 DEF Operates, GameFetched, UpdateRecovers, ContentFetched, ContentRefused,
                  AuthorizationRequired, ArchiveGone, FetchFails, Stage, Commit, Complete,
                  ApplyFails, Settles, memory
    <3>2. offer' = offer
      BY DEF Operates, GameFetched, UpdateRecovers, ContentFetched, ContentRefused,
             AuthorizationRequired, ArchiveGone, FetchFails, Stage, Commit, Complete, Finish,
             ApplyFails, Settles, memory
    <3> QED
      BY <3>1, <3>2, PendingIs
  <2>3. Aims(job'[t], disk'["game"], offer')
    <3>1. CASE Quiet(job'[t])
      BY <3>1, PlainAims, QuietIsPlain
    <3>2. CASE /\ job'[t].task = job[t].task /\ job'[t].version = job[t].version
               /\ job'[t].at = "finish" => Complete(t)
      <4>1. job[t].task = "game" /\ Complete(t) => disk'["game"].now.version = job[t].version
        <5> SUFFICES ASSUME job[t].task = "game", Complete(t)
                     PROVE  disk'["game"].now.version = job[t].version
          OBVIOUS
        <5>1. disk'["game"].now = [version |-> job[t].version, files |-> "whole"]
          BY CompleteIs DEF LayerOf
        <5> QED
          BY <5>1
      <4>2. BehindOf(disk'["game"]) = BehindOf(disk["game"])
        BY <2>1 DEF Behind
      <4> QED
        BY <1>0, <2>2, <3>2, <4>1, <4>2 DEF Aims, Compares, IsOperation
    <3> QED
      BY <1>5, <3>1, <3>2, OperationKeepsRelease
  <2> QED
    BY <1>0, <1>3, <2>1, <2>2, <2>3 DEF Remembered
<1> QED
  BY <1>4, <1>5

LEMMA StepKeepsFlow ==
  OneThread /\ TypeInv /\ OneOperation /\ Closed /\ LayersFit /\ FlowFits /\ [Next]_vars
      => FlowFits'
<1> SUFFICES ASSUME OneThread, TypeInv, OneOperation, Closed, LayersFit, FlowFits, [Next]_vars,
                    ~unrestored'
             PROVE  InOrder' /\ Remembered' /\ JobsAim'
  BY DEF FlowFits
<1>1. ~unrestored
  BY UnrestoredStays
<1>2. CASE \E t \in Threads : Operates(t)
  BY <1>1, <1>2, OperatesKeepsFlow
<1>3. CASE \A t \in Threads : ~Operates(t)
  BY <1>3, ElsewhereKeepsFlow
<1> QED
  BY <1>2, <1>3

LEMMA InitFlows == Init => FlowFits
<1> SUFFICES ASSUME Init PROVE InOrder /\ Remembered /\ JobsAim
  BY DEF FlowFits
<1>1. /\ disk["game"].now.version = 1 /\ disk["content"].now.version \in {0, 1}
      /\ disk["game"].scratch = "none" /\ disk["content"].scratch = "none"
  BY DEF Init, Settled, Absent
<1>2. disk["game"] \in Layer /\ disk["content"] \in Layer
  BY InitFits, DiskIs DEF TypeInv
<1>3. InOrder
  <2>1. BehindOf(disk["game"]) = 1 /\ BehindOf(disk["content"]) \in {0, 1}
    BY <1>1, <1>2, BehindIs
  <2> QED
    BY <1>1, <2>1 DEF InOrder, Behind, Game, Content
<1>4. Remembered
  BY PendingIs DEF Init, NoMemory, Remembered
<1>5. JobsAim
  BY QuietJobs, QuietIsPlain, PlainAims DEF Init, NoMemory, JobsAim
<1> QED
  BY <1>3, <1>4, <1>5

(* One thread at a time beside the main one: Content is never ahead of the *)
(* game, and what the launcher remembers to install is of the installed    *)
(* game whenever an operation may start with it, through releases that are *)
(* published meanwhile, sign-ins, failures, kills and retries              *)
(* (content_release_for_application, run_game_update, PENDING).            *)
THEOREM ContentFollows ==
  ASSUME OneThread
  PROVE  Spec => []ContentFollowsGame
<1> DEFINE IInv == TypeInv /\ OneOperation /\ Closed /\ LayersFit /\ FlowFits
<1>1. Init => IInv
  BY InitFits, InitLayers, InitFlows
<1>2. IInv /\ [Next]_vars => IInv'
  BY StepFits, GuardStep, StepKeepsClosed, StepKeepsLayers, StepKeepsFlow
<1>3. IInv => ContentFollowsGame
  <2> SUFFICES ASSUME TypeInv, OneOperation, LayersFit, FlowFits, ~unrestored
               PROVE  /\ Content <= Game
                      /\ pending.kind # "none" /\ ~guard => pending.version = Game
    BY DEF ContentFollowsGame
  <2>0. InOrder /\ Remembered /\ DiskFits
    BY DEF FlowFits, TypeInv
  <2>1. Content <= Game
    BY <2>0, VersionsAre DEF InOrder
  <2>2. ASSUME pending.kind # "none", ~guard PROVE pending.version = Game
    <3>1. screen # "closed" /\ pending.version = Behind("game")
      BY <2>0, <2>2 DEF Remembered
    <3>2. \A t \in Threads : ~IsOperation(job[t])
      BY <2>2 DEF OneOperation, Operating, IsOperation
    <3> QED
      BY <3>1, <3>2, NothingBehind
  <2> QED
    BY <2>1, <2>2
<1> HIDE DEF IInv
<1> QED
  BY <1>1, <1>2, <1>3, PTL DEF Spec

-----------------------------------------------------------------------------

(* Why an approval is kept.  An update that does not finish another one    *)
(* may forget it: then Content is of the game, or absent, or the approval  *)
(* is of another release and so is what is offered (Apart).  A scan works  *)
(* with the approval and the version of Content it has read, and has no    *)
(* open transaction behind it, unless the offer has been skipped.          *)
NoRecord == \A l \in Layers : disk[l].scratch # "record"
Apart == offer # Behind("game") /\ approved # Behind("game")
FinishesRight(version, finishes) ==
    /\ version = Behind("game") \/ Apart
    /\ finishes \/ Behind("content") \in {0, Behind("game")} \/ Apart
PendingRight == pending.kind = "update" => FinishesRight(pending.version, pending.finishes)
ContentRight ==
    /\ Recovered(disk["content"]).now.files # "none" => Behind("content") # 0
    /\ disk["content"].scratch = "record" =>
           disk["content"].now.files \notin {"none", "unverified"}
ScanRight(t) ==
    job[t].task = "scan" =>
        /\ job[t].at = "channel" => NoRecord
        /\ job[t].at \in {"read", "decide"} \/ Compares(job[t]) => NoRecord \/ offer = 0
        /\ job[t].at = "decide" /\ approved # 0 =>
               job[t].approved = approved /\ (ContentPresent => job[t].version = Content)
        /\ Compares(job[t]) =>
               approved = 0 /\ (job[t].version = Behind("game") \/ offer # Behind("game"))
OperationRight(t) ==
    /\ job[t].task = "game" => job[t].version = offer
    /\ job[t].task = "update" =>
           /\ FinishesRight(job[t].version, job[t].finishes)
           /\ job[t].at = "settle" => Behind("content") \in {0, job[t].version}
    /\ job[t].task = "install" => pending.kind # "update"
    /\ IsOperation(job[t]) /\ job[t].at = "finish" /\ disk[LayerOf(t)].scratch = "record" =>
           disk[LayerOf(t)].now.version = job[t].version
ApprovalFits ==
    /\ PendingRight /\ ContentRight
    /\ \A t \in Threads : ScanRight(t) /\ OperationRight(t)

(* What anything but an operation leaves of the layers.                    *)
LayersStay ==
    /\ Behind("game")' = Behind("game") /\ Behind("content")' \in {0, Behind("content")}
    /\ \A l \in Layers : disk'[l] = disk[l] \/ disk'[l].scratch # "record"

LEMMA RecoveredStays ==
  ASSUME DiskFits, disk' = AllRecovered
  PROVE  /\ LayersStay /\ NoRecord'
         /\ Recovered(disk'["content"]).now = Recovered(disk["content"]).now
<1>1. \A l \in Layers : disk'[l] = Recovered(disk[l]) /\ disk[l] \in Layer
  BY BothRecovered, DiskIs
<1>2. ASSUME NEW l \in Layers
      PROVE  /\ Recovered(disk'[l]).now = Recovered(disk[l]).now
             /\ disk'[l].scratch # "record"
  BY <1>1, RecoveredIs
<1> QED
  BY <1>2 DEF LayersStay, NoRecord, Layers, Behind, BehindOf

LEMMA LayersAreLeft ==
  ASSUME TypeInv, ContentRight, [Next]_vars, \A t \in Threads : ~Operates(t)
  PROVE  LayersStay /\ ContentRight'
<1>0. DiskFits /\ disk["game"] \in Layer /\ disk["content"] \in Layer
  BY DiskIs DEF TypeInv
<1>1. DiskFits' /\ disk'["game"] \in Layer /\ disk'["content"] \in Layer
  BY StepKeepsDisk DEF DiskFits, Layers
<1>2. CASE disk' = disk
  BY <1>2 DEF LayersStay, ContentRight, Behind
<1>3. CASE disk' = AllRecovered
  BY <1>0, <1>3, RecoveredStays DEF ContentRight, NoRecord, Layers, Behind, BehindOf
<1>4. CASE disk' = [disk EXCEPT !["game"] = Recovered(@)]
  <2>1. disk'["game"] = Recovered(disk["game"]) /\ disk'["content"] = disk["content"]
    BY <1>0, <1>4, OneRecovered DEF Layers
  <2>2. disk'["game"].scratch # "record" /\ BehindOf(disk'["game"]) = Behind("game")
    BY <1>0, <2>1, RecoveredIs, BehindIs DEF Behind
  <2> QED
    BY <2>1, <2>2 DEF LayersStay, ContentRight, Layers, Behind
<1>5. ASSUME disk'["game"] = disk["game"], disk'["content"].scratch = "none",
             Content' \in {0, Behind("content")}, Content' # 0 \/ ~ContentPresent'
      PROVE  LayersStay /\ ContentRight'
  <2>1. Recovered(disk'["content"]).now = disk'["content"].now
    BY <1>1, <1>5, RecoveredIs
  <2> QED
    BY <1>5, <2>1
       DEF LayersStay, ContentRight, Layers, Behind, BehindOf, Content, ContentPresent
<1>6. CASE Damage
  <2>1. Recovered(disk["content"]).now = disk["content"].now /\ ContentPresent
    BY <1>0, <1>6, RecoveredIs DEF Damage, ContentPresent
  <2>2. Behind("content") = Content /\ Content # 0
    BY <2>1 DEF ContentRight, ContentPresent, Behind, BehindOf, Content
  <2>3. /\ disk'["game"] = disk["game"] /\ disk'["content"].scratch = "none"
        /\ Content' \in {0, Content} /\ (ContentPresent' => Content' = Content)
    BY <1>0, <1>6, DamageIs DEF Content, ContentPresent
  <2> QED
    BY <1>5, <2>2, <2>3
<1>7. CASE \E t \in Threads : ScanVerifies(t) /\ disk' # disk
  <2>1. PICK t \in Threads : ScanVerifies(t) /\ disk' # disk
    BY <1>7
  <2>2. /\ disk["content"].now.files = "unverified"
        /\ disk' = [disk EXCEPT !["content"] =
                        Settled([Recovered(@).now EXCEPT !.files = "whole"])]
    BY <2>1 DEF ScanVerifies
  <2>3. Recovered(disk["content"]).now = disk["content"].now
    BY <1>0, <2>2, RecoveredIs DEF ContentRight
  <2>4. Behind("content") # 0
    BY <2>2, <2>3 DEF ContentRight
  <2>5. /\ disk'["game"] = disk["game"] /\ disk'["content"].scratch = "none"
        /\ Content' = Behind("content")
    BY <1>0, <2>2, VerifiedIs DEF Content, Behind, BehindOf
  <2> QED
    BY <1>5, <2>4, <2>5
<1>8. \/ disk' = disk \/ disk' = AllRecovered \/ RecoveryFails \/ Damage
      \/ \E t \in Threads : ScanVerifies(t)
  <2>1. ASSUME NEW t \in Threads, Scans(t), ~ScanVerifies(t)
        PROVE  disk' = disk \/ disk' = AllRecovered \/ RecoveryFails
    BY <2>1, Zenon DEF Scans, ScanRecovers, ScanChecksGame, ScanReads, ScanDecides, ScanFails,
                       ScanPrompts, store
  <2>2. ASSUME NEW t \in Threads \cup {Main}, Launches(t)
        PROVE  disk' = disk \/ disk' = AllRecovered \/ RecoveryFails
    BY <2>2, Zenon DEF Launches, LaunchRecovers, LaunchDecides, store
  <2>3. ASSUME NEW t \in Threads, Reports(t) PROVE disk' = disk
    BY <2>3, Zenon DEF Reports, store
  <2>4. ASSUME NEW choice \in Choices, Choose(choice) PROVE disk' = disk
    BY <2>4, Zenon DEF Choose, Play, GameUpdateChosen, SkipGameUpdate, RetryUpdateCheck,
                       InstallChosen, UpdateChosen, Back, SignIn, ChooseProvider, store
  <2>5. ASSUME World, ~Damage PROVE disk' = disk \/ disk' = AllRecovered \/ RecoveryFails
    BY <2>5, Zenon DEF World, Open, Render, GateAnswers, PageLoads, Publish, Close, Kill, store
  <2>6. ASSUME UNCHANGED vars PROVE disk' = disk
    BY <2>6, Zenon DEF vars, store
  <2> QED
    BY <2>1, <2>2, <2>3, <2>4, <2>5, <2>6, Zenon DEF Next, Works
<1>9. RecoveryFails => disk' = disk \/ disk' = [disk EXCEPT !["game"] = Recovered(@)]
  BY Zenon DEF RecoveryFails
<1> QED
  BY <1>2, <1>3, <1>4, <1>6, <1>7, <1>8, <1>9

(* With no record, the layers are what is behind them.                     *)
LEMMA WithoutRecord ==
  ASSUME DiskFits, NoRecord
  PROVE  Game = Behind("game") /\ Content = Behind("content")
BY DiskIs, BehindIs DEF NoRecord, Behind, Game, Content

LEMMA BehindIsKnown == ASSUME DiskFits PROVE Behind("game") \in Releases /\ Behind("game") # 0
<1>1. disk["game"] \in Layer
  BY DiskIs
<1>2. Behind("game") \in Releases
  BY <1>1, BehindIs DEF DiskFits, GameKnown, Game, Behind
<1> QED
  BY <1>2, ReleaseFacts DEF Releases

(* Outside of operations an approval is kept or forgotten.                 *)
LEMMA ApprovedMoves ==
  ASSUME [Next]_vars, \A t \in Threads : ~Operates(t)
  PROVE  approved' \in {approved, 0}
<1>1. ASSUME NEW t \in Threads, Scans(t) PROVE approved' \in {approved, 0}
  <2>1. ASSUME ScanDecides(t) PROVE approved' = approved \/ approved' = 0
    BY <2>1, Zenon DEF ScanDecides, ContinueApproved
  <2> QED
    BY <1>1, <2>1 DEF Scans, ScanRecovers, ScanChecksGame, ScanReads, ScanFails, ScanVerifies,
                      ScanPrompts, store
<1>2. ASSUME NEW t \in Threads, Reports(t) PROVE approved' = approved
  BY <1>2 DEF Reports, store
<1>3. ASSUME NEW t \in Threads \cup {Main}, Launches(t) PROVE approved' \in {approved, 0}
  BY <1>3 DEF Launches, LaunchRecovers, LaunchDecides, store
<1>4. ASSUME NEW choice \in Choices, Choose(choice) PROVE approved' = approved
  BY <1>4, Zenon DEF Choose, Play, GameUpdateChosen, SkipGameUpdate, RetryUpdateCheck,
                     InstallChosen, UpdateChosen, Back, SignIn, ChooseProvider, store
<1>5. ASSUME World PROVE approved' = approved
  BY <1>5, Zenon DEF World, Open, Render, GateAnswers, PageLoads, Publish, Damage, Close, Kill,
                     store
<1>6. ASSUME UNCHANGED vars PROVE approved' = approved
  BY <1>6 DEF vars, store
<1> QED
  BY <1>1, <1>2, <1>3, <1>4, <1>5, <1>6 DEF Next, Works

(* What a scan has read is still there when it decides, unless a launch    *)
(* forgets the approval.                                                   *)
LEMMA DecideWaits ==
  ASSUME OneThread, Closed, [Next]_vars, NEW t \in Threads, At(t, "scan", "decide")
  PROVE  disk' = disk \/ Damage \/ approved' = 0
<1>1. ASSUME NEW u \in Threads, Works(u) PROVE disk' = disk \/ approved' = 0
  <2>1. At(u, "scan", "decide")
    BY DEF OneThread
  <2>2. ScanDecides(u) \/ ScanFails(u)
    BY <1>1, <2>1
       DEF Works, Scans, ScanRecovers, ScanChecksGame, ScanReads, ScanVerifies, ScanPrompts,
           Operates, GameFetched, UpdateRecovers, ContentFetched, ContentRefused,
           AuthorizationRequired, ArchiveGone, FetchFails, Stage, Commit, Complete, Finish,
           ApplyFails, Settles, Reports, Launches, LaunchRecovers, LaunchDecides, At, Operating
  <2> QED
    BY <2>2 DEF ScanDecides, ScanFails, store
<1>2. ASSUME Launches(Main) PROVE disk' = disk \/ approved' = 0
  BY <1>2 DEF Launches, LaunchRecovers, LaunchDecides, store
<1>3. ASSUME NEW choice \in Choices, Choose(choice) PROVE disk' = disk
  BY <1>3, Zenon DEF Choose, Play, GameUpdateChosen, SkipGameUpdate, RetryUpdateCheck,
                     InstallChosen, UpdateChosen, Back, SignIn, ChooseProvider, store
<1>4. ASSUME World, ~Damage PROVE disk' = disk
  <2>1. screen # "closed"
    BY IdleFits DEF Closed, At
  <2> QED
    BY <1>4, <2>1 DEF World, Open, Render, GateAnswers, PageLoads, Publish, Close, Kill, store
<1>5. ASSUME UNCHANGED vars PROVE disk' = disk
  BY <1>5 DEF vars, store
<1> QED
  BY <1>1, <1>2, <1>3, <1>4, <1>5 DEF Next

(* What is right stays right outside of operations: first that an approval *)
(* is of another release, and what has to finish what.                     *)
LEMMA ApartStays ==
  ASSUME TypeInv, ApprovalFits, [Next]_vars, \A t \in Threads : ~Operates(t)
  PROVE  Apart => Apart'
<1>1. Behind("game")' = Behind("game") /\ DiskFits
  BY LayersAreLeft DEF LayersStay, ApprovalFits, TypeInv
<1>2. Behind("game") # 0 /\ approved' \in {approved, 0}
  BY <1>1, BehindIsKnown, ApprovedMoves
<1>3. \A t \in Threads : At(t, "scan", "channel") => Game = Behind("game")
  BY <1>1, WithoutRecord DEF ApprovalFits, ScanRight, At
<1>4. offer' # Behind("game") \/ offer = Behind("game")
  <2>1. Game \in Nat
    BY <1>1, VersionsAre
  <2> QED
    BY <1>2, <1>3, <2>1, AnyRemembers DEF MemoryMoves
<1> QED
  BY <1>1, <1>2, <1>4 DEF Apart

LEMMA FinishesStay ==
  ASSUME TypeInv, ApprovalFits, [Next]_vars, \A t \in Threads : ~Operates(t),
         NEW version, NEW finishes, FinishesRight(version, finishes)
  PROVE  FinishesRight(version, finishes)'
<1>1. Behind("game")' = Behind("game") /\ Behind("content")' \in {0, Behind("content")}
  BY LayersAreLeft DEF LayersStay, ApprovalFits
<1>2. Apart => Apart'
  BY ApartStays
<1> QED
  BY <1>1, <1>2 DEF FinishesRight

(* A scan continues what was approved, for the game it sees.               *)
LEMMA ContinuesRight ==
  ASSUME TypeInv, ApprovalFits, [Next]_vars, \A t \in Threads : ~Operates(t),
         NEW t \in Threads, At(t, "scan", "decide"), ContinuesApproved(t),
         approved' = approved, offer' = offer
  PROVE  Game = Behind("game")' \/ Apart'
<1>1. Behind("game")' = Behind("game") /\ DiskFits
  BY LayersAreLeft DEF LayersStay, ApprovalFits, TypeInv
<1>2. Behind("game") # 0
  BY <1>1, BehindIsKnown
<1>3. /\ NoRecord \/ offer = 0
      /\ approved # 0 => job[t].approved = approved
  BY DEF ApprovalFits, ScanRight, At
<1>4. job[t].approved = Game
  BY DEF ContinuesApproved, ReleaseForGame
<1>5. CASE NoRecord
  BY <1>1, <1>5, WithoutRecord
<1>6. CASE offer = 0
  BY <1>1, <1>2, <1>3, <1>4, <1>6 DEF Apart
<1> QED
  BY <1>3, <1>5, <1>6

LEMMA PendingStays ==
  ASSUME TypeInv, ApprovalFits, [Next]_vars, \A t \in Threads : ~Operates(t)
  PROVE  PendingRight'
<1>0. /\ DiskFits /\ Behind("game")' = Behind("game")
      /\ Behind("content")' \in {0, Behind("content")} /\ PendingRight
  BY LayersAreLeft DEF LayersStay, ApprovalFits, TypeInv
<1>1. PICK version, finishes : version = pending.version /\ finishes = pending.finishes
  OBVIOUS
<1>2. CASE pending' = pending
  <2> SUFFICES ASSUME pending.kind = "update" PROVE FinishesRight(version, finishes)'
    BY <1>1, <1>2 DEF PendingRight, FinishesRight
  <2>1. FinishesRight(version, finishes)
    BY <1>0, <1>1 DEF PendingRight, FinishesRight
  <2> QED
    BY <2>1, FinishesStay
<1>3. CASE \E t \in Threads : ScanRemembers(t)
  <2>1. PICK t \in Threads : ScanRemembers(t)
    BY <1>3
  <2>2. CASE /\ At(t, "scan", "decide") /\ ContinuesApproved(t)
             /\ pending'.version = Game /\ pending'.finishes
    <3>1. Game = Behind("game")' \/ Apart'
      BY <2>1, <2>2, ContinuesRight DEF ScanRemembers
    <3> QED
      BY <2>2, <3>1 DEF PendingRight, FinishesRight
  <2>3. CASE /\ At(t, "scan", "prompt") /\ pending'.version = job[t].version
             /\ pending'.finishes \/ Game = Content
    <3>1. /\ NoRecord \/ offer = 0
          /\ job[t].version = Behind("game") \/ offer # Behind("game")
      BY <2>3 DEF ApprovalFits, ScanRight, At, Compares
    <3>2. approved' = 0 /\ offer' = offer /\ Behind("game") # 0
      <4>1. approved = 0
        BY <2>3 DEF ApprovalFits, ScanRight, At, Compares
      <4> QED
        BY <1>0, <2>1, <4>1, BehindIsKnown DEF ScanRemembers
    <3>3. pending'.version = Behind("game")' \/ Apart'
      BY <1>0, <2>3, <3>1, <3>2 DEF Apart
    <3>4. CASE NoRecord
      <4>1. Game = Content => Behind("content")' \in {0, Behind("game")'}
        BY <1>0, <3>4, WithoutRecord
      <4> QED
        BY <2>3, <3>3, <4>1 DEF PendingRight, FinishesRight
    <3>5. CASE offer = 0
      <4>1. Apart'
        BY <1>0, <3>2, <3>5 DEF Apart
      <4> QED
        BY <3>3, <4>1 DEF PendingRight, FinishesRight
    <3> QED
      BY <3>1, <3>4, <3>5
  <2> QED
    BY <2>1, <2>2, <2>3 DEF ScanRemembers
<1>4. CASE pending'.kind \in {"none", "install"}
  BY <1>4 DEF PendingRight
<1> QED
  BY <1>2, <1>3, <1>4, AnyRemembers DEF MemoryMoves

LEMMA ScanStays ==
  ASSUME OneThread, TypeInv, Closed, ApprovalFits, [Next]_vars, \A t \in Threads : ~Operates(t),
         NEW t \in Threads
  PROVE  ScanRight(t)'
<1>0. /\ DiskFits /\ Behind("game")' = Behind("game") /\ Behind("game") # 0
      /\ (NoRecord => NoRecord') /\ ScanRight(t)
  <2>1. LayersStay
    BY LayersAreLeft DEF ApprovalFits
  <2> QED
    BY <2>1, BehindIsKnown DEF LayersStay, NoRecord, ApprovalFits, TypeInv
<1>1. approved' \in {approved, 0}
  BY ApprovedMoves
<1>2. CASE job'[t] = job[t] /\ job[t].task = "scan"
  <2>1. job[t].at # "channel" => offer' \in {offer, 0}
    BY AnyRemembers DEF MemoryMoves, OneThread, At
  <2>2. job[t].at = "channel" => NoRecord'
    BY <1>0, <1>2 DEF ScanRight
  <2>3. job[t].at \in {"read", "decide"} \/ Compares(job[t]) => NoRecord' \/ offer' = 0
    BY <1>0, <1>2, <2>1 DEF ScanRight, Compares
  <2>4. job[t].at = "decide" /\ approved' # 0 =>
            job[t].approved = approved' /\ (ContentPresent' => job[t].version = Content')
    <3> SUFFICES ASSUME job[t].at = "decide", approved' # 0
                 PROVE  /\ job[t].approved = approved'
                        /\ ContentPresent' => job[t].version = Content'
      OBVIOUS
    <3>1. approved' = approved /\ approved # 0 /\ At(t, "scan", "decide")
      BY <1>1, <1>2 DEF At
    <3>2. job[t].approved = approved /\ (ContentPresent => job[t].version = Content)
      BY <1>0, <1>2, <3>1 DEF ScanRight
    <3>3. CASE disk' = disk
      BY <3>1, <3>2, <3>3 DEF ContentPresent, Content
    <3>4. CASE Damage
      <4>1. ContentPresent /\ (ContentPresent' => Content' = Content)
        BY <1>0, <3>4, DamageIs DEF Damage, ContentPresent, Content
      <4> QED
        BY <3>1, <3>2, <4>1
    <3> QED
      BY <3>1, <3>3, <3>4, DecideWaits
  <2>5. Compares(job[t]) =>
            approved' = 0 /\ (job[t].version = Behind("game")' \/ offer' # Behind("game")')
    BY <1>0, <1>1, <1>2, <2>1 DEF ScanRight, Compares
  <2> QED
    BY <1>2, <2>2, <2>3, <2>4, <2>5 DEF ScanRight, Compares
<1>3. CASE Quiet(job'[t])
  BY <1>3 DEF Quiet, ScanRight, Compares
<1>4. CASE ScanGoes(t)
  <2>1. CASE job'[t].at = "channel" /\ disk' = AllRecovered /\ offer' = offer
    <3>1. NoRecord'
      BY <1>0, <2>1, RecoveredStays
    <3> QED
      BY <2>1, <3>1 DEF ScanRight, Compares
  <2>2. CASE job'[t].at = "read" /\ (At(t, "scan", "channel") \/ offer' = 0)
    <3>1. NoRecord' \/ offer' = 0
      BY <1>0, <2>2 DEF ScanRight, At
    <3> QED
      BY <2>2, <3>1 DEF ScanRight, Compares
  <2>3. CASE /\ At(t, "scan", "read") /\ job'[t].at = "decide"
             /\ job'[t].version = Content /\ job'[t].approved = approved
             /\ UNCHANGED <<disk, approved, offer>>
    <3>1. NoRecord' \/ offer' = 0
      BY <1>0, <2>3 DEF ScanRight, At
    <3>2. Content' = Content
      BY <2>3 DEF Content
    <3> QED
      BY <2>3, <3>1, <3>2 DEF ScanRight, Compares
  <2> QED
    BY <1>4, <2>1, <2>2, <2>3 DEF ScanGoes
<1>5. CASE ScanFinds(t)
  <2>1. CASE /\ At(t, "scan", "decide") /\ Compares(job'[t]) /\ job'[t].version = Game
             /\ approved' = 0 \/ (job[t].approved = 0 /\ approved' = approved)
    <3>1. approved' = 0
      BY <1>0, <2>1 DEF ScanRight, At
    <3>2. NoRecord \/ offer = 0
      BY <1>0, <2>1 DEF ScanRight, At
    <3>3. job'[t].version = Behind("game")' \/ offer' # Behind("game")'
      BY <1>0, <1>5, <2>1, <3>2, WithoutRecord DEF ScanFinds
    <3>4. NoRecord' \/ offer' = 0
      BY <1>0, <1>5, <3>2 DEF ScanFinds
    <3>5. job'[t].at # "channel" /\ job'[t].at # "decide"
      BY <2>1 DEF Compares
    <3> QED
      BY <3>1, <3>3, <3>4, <3>5 DEF ScanRight
  <2>2. CASE job'[t].task = "update"
    BY <2>2 DEF ScanRight
  <2>3. CASE /\ At(t, "scan", "verify") /\ Compares(job'[t])
             /\ job'[t].version = job[t].version /\ approved' = approved
    <3>1. approved' = 0
      BY <1>0, <2>3 DEF ScanRight, At, Compares
    <3>2. /\ NoRecord \/ offer = 0
          /\ job[t].version = Behind("game") \/ offer # Behind("game")
      BY <1>0, <2>3 DEF ScanRight, At, Compares
    <3>3. job'[t].version = Behind("game")' \/ offer' # Behind("game")'
      BY <1>0, <1>5, <2>3, <3>2 DEF ScanFinds
    <3>4. NoRecord' \/ offer' = 0
      BY <1>0, <1>5, <3>2 DEF ScanFinds
    <3>5. job'[t].at # "channel" /\ job'[t].at # "decide"
      BY <2>3 DEF Compares
    <3> QED
      BY <3>1, <3>3, <3>4, <3>5 DEF ScanRight
  <2> QED
    BY <1>5, <2>1, <2>2, <2>3 DEF ScanFinds
<1>6. CASE job'[t].task # "scan"
  BY <1>6 DEF ScanRight
<1> QED
  BY <1>2, <1>3, <1>4, <1>5, <1>6, AnyThreadMoves DEF ThreadMoves

LEMMA OperationStays ==
  ASSUME OneThread, TypeInv, OneOperation, ApprovalFits, [Next]_vars,
         \A t \in Threads : ~Operates(t), NEW t \in Threads
  PROVE  OperationRight(t)'
<1>0. /\ DiskFits /\ Behind("game")' = Behind("game")
      /\ Behind("content")' \in {0, Behind("content")}
      /\ PendingRight /\ OperationRight(t) /\ LayersStay
  <2>1. LayersStay
    BY LayersAreLeft DEF ApprovalFits
  <2> QED
    BY <2>1 DEF LayersStay, ApprovalFits, TypeInv
<1>1. CASE job'[t] = job[t] /\ IsOperation(job[t])
  <2>1. guard /\ job[t] # Idle /\ \A u \in Threads : job[u].task # "scan"
    BY <1>1, IdleFits DEF OneOperation, Operating, IsOperation, OneThread
  <2>2. ~Exit
    BY <1>1, <2>1 DEF Exit
  <2>3. offer' = offer
    BY <2>1, <2>2, AnyRemembers DEF MemoryMoves, At
  <2>4. pending.kind # "update" => pending'.kind # "update"
    BY <2>1, AnyRemembers DEF MemoryMoves, ScanRemembers, At
  <2>5. PICK version, finishes : version = job[t].version /\ finishes = job[t].finishes
    OBVIOUS
  <2>6. job[t].task = "update" => FinishesRight(version, finishes)'
    <3>1. job[t].task = "update" => FinishesRight(version, finishes)
      BY <1>0, <2>5 DEF OperationRight, FinishesRight
    <3> QED
      BY <3>1, FinishesStay
  <2>7. job'[t].task = "update" => FinishesRight(job[t].version, job[t].finishes)'
    BY <1>1, <2>5, <2>6 DEF FinishesRight
  <2>8. job[t].at = "settle" /\ job[t].task = "update" =>
            Behind("content")' \in {0, job[t].version}
    BY <1>0 DEF OperationRight
  <2>9. LayerOf(t)' = LayerOf(t) /\ LayerOf(t) \in Layers
    BY <1>1, LayerOfIs DEF LayerOf
  <2>10. job[t].at = "finish" /\ disk'[LayerOf(t)].scratch = "record" =>
             disk'[LayerOf(t)].now.version = job[t].version
    BY <1>0, <1>1, <2>9 DEF LayersStay, OperationRight
  <2> QED
    BY <1>0, <1>1, <2>3, <2>4, <2>7, <2>8, <2>9, <2>10 DEF OperationRight
<1>2. CASE ~IsOperation(job'[t])
  BY <1>2 DEF OperationRight, IsOperation
<1>3. CASE ScanFinds(t)
  <2>1. CASE Compares(job'[t])
    BY <1>2, <2>1 DEF Compares, IsOperation
  <2>2. CASE /\ At(t, "scan", "decide") /\ ContinuesApproved(t) /\ approved' = approved
             /\ job'[t].task = "update" /\ job'[t].at = "start"
             /\ job'[t].version = Game /\ job'[t].finishes
    <3>1. Game = Behind("game")' \/ Apart'
      BY <1>3, <2>2, ContinuesRight DEF ScanFinds
    <3>2. FinishesRight(job[t].version, job[t].finishes)'
      BY <2>2, <3>1 DEF FinishesRight
    <3> QED
      BY <2>2, <3>2 DEF OperationRight
  <2> QED
    BY <1>3, <2>1, <2>2 DEF ScanFinds
<1>4. CASE /\ pending.kind \in {"update", "install"} /\ pending' = pending
           /\ job'[t].task = pending.kind /\ job'[t].at \in {"start", "fetch"}
           /\ job'[t].version = pending.version
           /\ pending.kind = "update" => (job'[t].finishes <=> pending.finishes)
  <2>1. PICK version, finishes : version = pending.version /\ finishes = pending.finishes
    OBVIOUS
  <2>2. pending.kind = "update" => FinishesRight(version, finishes)'
    <3>1. pending.kind = "update" => FinishesRight(version, finishes)
      BY <1>0, <2>1 DEF PendingRight, FinishesRight
    <3> QED
      BY <3>1, FinishesStay
  <2>3. job'[t].task = "update" => FinishesRight(job[t].version, job[t].finishes)'
    BY <1>4, <2>1, <2>2 DEF FinishesRight
  <2>4. job'[t].task = "install" => pending'.kind # "update"
    BY <1>4
  <2>5. job'[t].task # "game"
    BY <1>4
  <2> QED
    BY <1>4, <2>3, <2>4, <2>5 DEF OperationRight
<1>5. CASE /\ offer # 0 /\ offer' = offer /\ job'[t].task = "game"
           /\ job'[t].at \in {"start", "fetch"} /\ job'[t].version = offer
  BY <1>5 DEF OperationRight
<1> QED
  <2>1. Quiet(job'[t]) \/ ScanGoes(t) => ~IsOperation(job'[t])
    BY DEF Quiet, ScanGoes, IsOperation
  <2>2. job'[t] = job[t] => (job'[t] = job[t] /\ IsOperation(job[t])) \/ ~IsOperation(job'[t])
    BY DEF IsOperation
  <2> QED
    BY <1>1, <1>2, <1>3, <1>4, <1>5, <2>1, <2>2, AnyThreadMoves DEF ThreadMoves

(* What is right stays right in an operation: before it finishes, nothing  *)
(* is behind its layer that was not,                                       *)
LEMMA ApplyKeepsContent ==
  ASSUME TypeInv, ContentRight, NEW t \in Threads, Operates(t), ~Finish(t)
  PROVE  ContentRight'
<1>0. DiskFits /\ disk["content"] \in Layer /\ "content" \in Layers
  BY DiskIs DEF TypeInv
<1>1. /\ Recovered(disk'["content"]).now = Recovered(disk["content"]).now
      /\ Behind("content")' = Behind("content")
  BY <1>0, ApplyMoves DEF LayerMoves, Behind
<1>2. ASSUME disk'["content"].scratch = "record" =>
                 disk'["content"].now.files \notin {"none", "unverified"}
      PROVE  ContentRight'
  BY <1>1, <1>2 DEF ContentRight
<1>3. ASSUME disk'["content"] = disk["content"] PROVE ContentRight'
  BY <1>2, <1>3 DEF ContentRight
<1>4. ASSUME disk'["content"] = Recovered(disk["content"]) PROVE ContentRight'
  BY <1>0, <1>2, <1>4, RecoveredIs
<1>5. CASE UpdateRecovers(t)
  <2>1. disk' = AllRecovered \/ disk' = disk \/ disk' = [disk EXCEPT !["game"] = Recovered(@)]
    BY <1>5 DEF UpdateRecovers, RecoveryFails
  <2>2. CASE disk' = [disk EXCEPT !["game"] = Recovered(@)]
    BY <1>0, <1>3, <2>2, OneRecovered DEF Layers
  <2> QED
    BY <1>0, <1>3, <1>4, <2>1, <2>2, BothRecovered
<1>6. CASE Stage(t) \/ Commit(t) \/ Complete(t)
  <2>1. CASE LayerOf(t) # "content"
    BY <1>0, <1>3, <1>6, <2>1, StageIs, CommitIs, CompleteIs
  <2>2. CASE LayerOf(t) = "content"
    <3>1. Stage(t) => disk'["content"].scratch = "staged"
      BY <1>0, <2>2, StageIs
    <3>2. Commit(t) => disk'["content"].now.files = "mixed"
      BY <2>2, CommitIs
    <3>3. Complete(t) => disk'["content"].now.files = "whole"
      <4>1. Complete(t) => disk'["content"].now = [version |-> job[t].version, files |-> "whole"]
        BY <2>2, CompleteIs
      <4> QED
        BY <4>1
    <3> QED
      BY <1>2, <1>6, <3>1, <3>2, <3>3
  <2> QED
    BY <2>1, <2>2
<1>7. CASE ApplyFails(t)
  <2>1. disk' = disk \/ disk' = [disk EXCEPT ![LayerOf(t)] = Recovered(@)]
    BY <1>7 DEF ApplyFails
  <2>2. CASE disk' = [disk EXCEPT ![LayerOf(t)] = Recovered(@)]
    BY <1>0, <1>3, <1>4, <2>2, LayerOfIs, OneRecovered
  <2> QED
    BY <1>3, <2>1, <2>2
<1>8. CASE \/ GameFetched(t) \/ ContentFetched(t) \/ ContentRefused(t) \/ AuthorizationRequired(t)
           \/ ArchiveGone(t) \/ FetchFails(t) \/ Settles(t)
  BY <1>3, <1>8 DEF GameFetched, ContentFetched, ContentRefused, AuthorizationRequired,
                    ArchiveGone, FetchFails, Settles, store
<1> QED
  BY <1>5, <1>6, <1>7, <1>8 DEF Operates

LEMMA ApplyKeepsApproval ==
  ASSUME OneThread, TypeInv, ApprovalFits, NEW t \in Threads, Operates(t), ~Finish(t)
  PROVE  ApprovalFits'
<1>0. /\ DiskFits /\ IsOperation(job[t]) /\ PendingRight /\ ContentRight /\ OperationRight(t)
      /\ job[t].version \in Versions
  BY IsAnOperation DEF ApprovalFits, TypeInv, JobsFit, Job
<1>1. Behind("game")' = Behind("game") /\ Behind("content")' = Behind("content")
  BY ApplyMoves DEF LayerMoves, Layers, Behind
<1>2. offer' = offer /\ (pending' = pending \/ pending'.kind = "none")
  <2>1. pending' = pending \/ pending' = NoPending
    BY DEF Operates, GameFetched, UpdateRecovers, ContentFetched, ContentRefused,
           AuthorizationRequired, ArchiveGone, FetchFails, Stage, Commit, Complete,
           ApplyFails, Settles, memory
  <2>2. offer' = offer
    BY DEF Operates, GameFetched, UpdateRecovers, ContentFetched, ContentRefused,
           AuthorizationRequired, ArchiveGone, FetchFails, Stage, Commit, Complete,
           ApplyFails, Settles, memory
  <2> QED
    BY <2>1, <2>2, PendingIs
<1>3. approved' \in {approved, 0, offer}
  <2>1. CASE GameFetched(t)
    BY <1>0, <2>1 DEF GameFetched, At, OperationRight
  <2>2. CASE ~GameFetched(t)
    BY <2>2 DEF Operates, UpdateRecovers, ContentFetched, ContentRefused,
           AuthorizationRequired, ArchiveGone, FetchFails, Stage, Commit, Complete,
           ApplyFails, Settles, OperationFails, store
  <2> QED
    BY <2>1, <2>2
<1>4. Apart => Apart'
  <2>1. Behind("game") # 0
    BY <1>0, BehindIsKnown
  <2> QED
    BY <1>1, <1>2, <1>3, <2>1 DEF Apart
<1>5. ASSUME NEW version, NEW finishes, FinishesRight(version, finishes)
      PROVE  FinishesRight(version, finishes)'
  BY <1>1, <1>4, <1>5 DEF FinishesRight
<1>6. PendingRight'
  <2>1. PICK version, finishes : version = pending.version /\ finishes = pending.finishes
    OBVIOUS
  <2>2. pending.kind = "update" => FinishesRight(version, finishes)'
    <3>1. pending.kind = "update" => FinishesRight(version, finishes)
      BY <1>0, <2>1 DEF PendingRight, FinishesRight
    <3> QED
      BY <1>5, <3>1
  <2> QED
    BY <1>2, <2>1, <2>2 DEF PendingRight, FinishesRight
<1>7. ContentRight'
  BY <1>0, ApplyKeepsContent
<1>8. ScanRight(t)' /\ OperationRight(t)'
  <2>1. CASE Quiet(job'[t])
    BY <2>1 DEF Quiet, ScanRight, OperationRight, Compares, IsOperation
  <2>2. CASE /\ job'[t].task = job[t].task /\ job'[t].version = job[t].version
             /\ job'[t].finishes = job[t].finishes
             /\ job'[t].at # "settle" /\ (job'[t].at = "finish" => Complete(t))
    <3>1. ScanRight(t)'
      BY <1>0, <2>2 DEF ScanRight, IsOperation
    <3>2. PICK version, finishes : version = job[t].version /\ finishes = job[t].finishes
      OBVIOUS
    <3>3. job[t].task = "update" => FinishesRight(version, finishes)'
      <4>1. job[t].task = "update" => FinishesRight(version, finishes)
        BY <1>0, <3>2 DEF OperationRight, FinishesRight
      <4> QED
        BY <1>5, <4>1
    <3>4. job'[t].task = "update" => FinishesRight(job[t].version, job[t].finishes)'
      BY <2>2, <3>2, <3>3 DEF FinishesRight
    <3>5. job'[t].task = "install" => pending'.kind # "update"
      BY <1>0, <1>2, <2>2 DEF OperationRight
    <3>6. job'[t].at = "finish" => disk'[LayerOf(t)'].now.version = job'[t].version
      <4>1. Complete(t) => disk'[LayerOf(t)].now.version = job[t].version
        <5>1. Complete(t) =>
                  disk'[LayerOf(t)].now = [version |-> job[t].version, files |-> "whole"]
          BY CompleteIs
        <5> QED
          BY <5>1
      <4>2. LayerOf(t)' = LayerOf(t)
        BY <2>2 DEF LayerOf
      <4> QED
        BY <2>2, <4>1, <4>2
    <3>7. job'[t].task = "game" => job'[t].version = offer'
      BY <1>0, <1>2, <2>2 DEF OperationRight
    <3> QED
      BY <2>2, <3>1, <3>4, <3>5, <3>6, <3>7 DEF OperationRight
  <2> QED
    BY <2>1, <2>2, OperationKeepsRelease
<1> QED
  BY <1>6, <1>7, <1>8 DEF ApprovalFits, OneThread

(* and when it has finished, what it has installed.                        *)
LEMMA FinishKeepsApproval ==
  ASSUME OneThread, TypeInv, ApprovalFits, NEW t \in Threads, Finish(t)
  PROVE  ApprovalFits'
<1>0. /\ DiskFits /\ JobsFit /\ IsOperation(job[t]) /\ job[t].version \in Releases
      /\ PendingRight /\ ContentRight /\ OperationRight(t) /\ job[t].at = "finish"
      /\ disk[LayerOf(t)].scratch = "record"
      /\ disk["game"] \in Layer /\ disk["content"] \in Layer
  BY IsAnOperation, DiskIs
     DEF ApprovalFits, TypeInv, JobsFit, Fit, Operates, Finish, Operating, IsOperation
<1>1. disk'["game"] \in Layer /\ disk'["content"] \in Layer
  BY FinishIs DEF DiskFits, Layers
<1>2. disk[LayerOf(t)].now.version = job[t].version /\ job[t].version # 0
  BY <1>0, ReleaseFacts DEF OperationRight, Releases
<1>3. CASE job[t].task = "game"
  <2>1. /\ disk'["game"].scratch = "none" /\ disk'["content"] = disk["content"]
        /\ disk'["game"].now.version = job[t].version
    BY <1>2, <1>3, FinishIs DEF LayerOf, Layers
  <2>2. Behind("game")' = job[t].version
    BY <1>1, <2>1, BehindIs DEF Behind
  <2>3. ContentRight'
    BY <1>0, <2>1 DEF ContentRight, Behind
  <2>4. pending'.version = job[t].version /\ pending'.finishes
    BY <1>3 DEF Finish, Update
  <2>5. PendingRight'
    BY <2>2, <2>4 DEF PendingRight, FinishesRight
  <2>6. /\ job'[t].task = "update" /\ job'[t].version = job[t].version /\ job'[t].finishes
        /\ job'[t].at \in {"start", "fetch"}
    <3> DEFINE next == Operation("update", job[t].version, TRUE)
    <3>1. /\ next.task = "update" /\ next.version = job[t].version /\ next.finishes = TRUE
          /\ next.at \in {"start", "fetch"}
      BY <1>0, OperationFits
    <3>2. Become(t, next)
      BY <1>3 DEF Finish
    <3> HIDE DEF next
    <3>3. job'[t] = next
      BY <1>0, <3>2 DEF Become, JobsFit
    <3> QED
      BY <3>1, <3>3
  <2>7. FinishesRight(job[t].version, job[t].finishes)'
    BY <2>2, <2>6 DEF FinishesRight
  <2>8. ScanRight(t)' /\ OperationRight(t)'
    BY <2>6, <2>7 DEF ScanRight, OperationRight
  <2> QED
    BY <2>3, <2>5, <2>8 DEF ApprovalFits, OneThread
<1>4. CASE job[t].task # "game"
  <2>1. /\ disk'["content"].scratch = "none" /\ disk'["game"] = disk["game"]
        /\ disk'["content"].now.version = job[t].version
    BY <1>2, <1>4, FinishIs DEF LayerOf, Layers
  <2>2. /\ Behind("content")' = job[t].version /\ Behind("game")' = Behind("game")
        /\ UNCHANGED <<approved, offer, pending>>
    BY <1>1, <1>4, <2>1, BehindIs DEF Behind, Finish
  <2>3. Apart' <=> Apart
    BY <2>2 DEF Apart
  <2>4. ContentRight'
    BY <1>2, <2>1, <2>2 DEF ContentRight
  <2>5. job[t].task = "update" => job[t].version = Behind("game") \/ Apart
    BY <1>0 DEF OperationRight, FinishesRight
  <2>6. PendingRight'
    <3> SUFFICES ASSUME pending.kind = "update"
                 PROVE  FinishesRight(pending.version, pending.finishes)'
      BY <2>2 DEF PendingRight
    <3>1. job[t].task = "update"
      BY <1>0, <1>4 DEF OperationRight, IsOperation
    <3>2. pending.version = Behind("game") \/ Apart
      BY <1>0 DEF PendingRight, FinishesRight
    <3> QED
      BY <2>2, <2>3, <2>5, <3>1, <3>2 DEF FinishesRight
  <2>7. /\ job'[t].task = job[t].task /\ job'[t].version = job[t].version
        /\ job'[t].at = "settle"
    <3>1. Go(t, "settle")
      BY <1>4 DEF Finish
    <3> QED
      BY <1>0, <3>1, OperationGoes DEF Steps
  <2>8. job'[t].task = "update" => FinishesRight(job[t].version, job[t].finishes)'
    BY <2>2, <2>3, <2>5, <2>7 DEF FinishesRight
  <2>9. job'[t].task = "install" => pending'.kind # "update"
    BY <1>0, <2>2, <2>7 DEF OperationRight
  <2>10. ScanRight(t)' /\ OperationRight(t)'
    BY <1>0, <1>4, <2>2, <2>7, <2>8, <2>9 DEF ScanRight, OperationRight, IsOperation
  <2> QED
    BY <2>4, <2>6, <2>10 DEF ApprovalFits, OneThread
<1> QED
  BY <1>3, <1>4

LEMMA StepKeepsApproval ==
  OneThread /\ TypeInv /\ OneOperation /\ Closed /\ ApprovalFits /\ [Next]_vars => ApprovalFits'
<1> SUFFICES ASSUME OneThread, TypeInv, OneOperation, Closed, ApprovalFits, [Next]_vars
             PROVE  ApprovalFits'
  OBVIOUS
<1>1. CASE \E t \in Threads : Operates(t)
  BY <1>1, ApplyKeepsApproval, FinishKeepsApproval
<1>2. CASE \A t \in Threads : ~Operates(t)
  <2>1. ContentRight'
    BY <1>2, LayersAreLeft DEF ApprovalFits
  <2>2. \A t \in Threads : ScanRight(t)' /\ OperationRight(t)'
    BY <1>2, ScanStays, OperationStays
  <2>3. PendingRight'
    BY <1>2, PendingStays
  <2> QED
    BY <2>1, <2>2, <2>3 DEF ApprovalFits
<1> QED
  BY <1>1, <1>2

LEMMA InitApproves == Init => ApprovalFits
<1> SUFFICES ASSUME Init PROVE ApprovalFits
  OBVIOUS
<1>1. disk["content"].scratch = "none" /\ disk["content"] \in Layer
  BY InitFits, DiskIs DEF TypeInv, Init, Settled
<1>2. disk["content"].now.files # "none" => disk["content"].now.version = 1
  BY DEF Init, Settled, Absent
<1>3. ContentRight
  BY <1>1, <1>2, RecoveredIs DEF ContentRight, Behind, BehindOf
<1>4. PendingRight
  BY PendingIs DEF Init, NoMemory, PendingRight
<1>5. \A t \in Threads : ScanRight(t) /\ OperationRight(t)
  BY IdleFits DEF Init, NoMemory, ScanRight, OperationRight, Compares
<1> QED
  BY <1>3, <1>4, <1>5 DEF ApprovalFits

(* Which steps forget an approval that is needed.                          *)
Needed ==
    /\ \A l \in Layers : disk[l].scratch = "none"
    /\ approved = Game /\ ContentPresent /\ Content # Game
LEMMA NeededIs ==
  ASSUME TypeInv, ApprovalFits, Needed
  PROVE  /\ Game = Behind("game") /\ Content = Behind("content") /\ Content # 0
         /\ approved # 0 /\ ~Apart
<1>1. DiskFits /\ NoRecord /\ disk["content"] \in Layer /\ disk["content"].scratch = "none"
  BY DiskIs DEF TypeInv, Needed, NoRecord, Layers
<1>2. Game = Behind("game") /\ Content = Behind("content") /\ Game # 0
  BY <1>1, WithoutRecord, BehindIsKnown
<1>3. Content # 0
  BY <1>1, <1>2, RecoveredIs DEF Needed, ContentPresent, ApprovalFits, ContentRight
<1> QED
  BY <1>2, <1>3 DEF Needed, Apart

OfferedInstead == pending.kind = "install" /\ (unrestored \/ pending.version = Game)
LEMMA StepKeepsNeeded ==
  ASSUME TypeInv, ApprovalFits, FlowFits, [Next]_vars, Needed, approved' = 0
  PROVE  \/ \E t \in Threads \cup {Main} : LaunchRecovers(t)
         \/ (\E t \in Threads : ScanDecides(t)) /\ OfferedInstead
<1>0. /\ Game = Behind("game") /\ Content = Behind("content") /\ Content # 0
      /\ approved # 0 /\ ~Apart /\ approved = Game /\ Content # Game /\ ContentPresent
  BY NeededIs DEF Needed
<1>1. ASSUME NEW t \in Threads, ScanDecides(t) PROVE OfferedInstead
  <2>1. job[t].approved = Game /\ job[t].version = Content
    BY <1>0, <1>1 DEF ScanDecides, At, ApprovalFits, ScanRight
  <2>2. CASE pending.kind = "install"
    BY <1>0, <2>2 DEF OfferedInstead, FlowFits, Remembered
  <2>3. CASE pending.kind # "install"
    <3>1. ContinuesApproved(t)
      BY <1>0, <2>1 DEF ContinuesApproved, ReleaseForGame
    <3>2. ContinueApproved(t)
      BY <1>0, <1>1, <2>1, <2>3, <3>1, Zenon DEF ScanDecides, ReleaseForGame
    <3> QED
      BY <1>0, <3>2 DEF ContinueApproved
  <2> QED
    BY <2>2, <2>3
<1>2. ASSUME NEW t \in Threads, job[t].task = "update"
      PROVE  job[t].version = Game /\ job[t].finishes
  BY <1>0, <1>2 DEF ApprovalFits, OperationRight, FinishesRight
<1>3. ASSUME NEW t \in Threads, OperationFails(t) PROVE FALSE
  BY <1>0, <1>2, <1>3 DEF OperationFails
<1>4. ASSUME NEW t \in Threads, Settles(t) PROVE FALSE
  <2>1. job[t].task = "update" /\ job[t].at = "settle"
    BY <1>0, <1>4 DEF Settles
  <2>2. Behind("content") \in {0, job[t].version}
    BY <2>1 DEF ApprovalFits, OperationRight
  <2> QED
    BY <1>0, <1>2, <2>1, <2>2
<1>5. ASSUME NEW t \in Threads, GameFetched(t) PROVE FALSE
  <2>1. job[t].version \in Releases /\ approved' = job[t].version
    BY <1>5 DEF GameFetched, At, TypeInv, JobsFit, Fit, IsOperation
  <2> QED
    BY <2>1, ReleaseFacts DEF Releases
<1>6. ASSUME NEW t \in Threads, Operates(t) PROVE FALSE
  <2>1. ~OperationFails(t) /\ ~Settles(t) /\ ~GameFetched(t)
    BY <1>3, <1>4, <1>5
  <2>2. approved' = approved
    BY <1>6, <2>1 DEF Operates, UpdateRecovers, ContentFetched, ContentRefused,
           AuthorizationRequired, ArchiveGone, FetchFails, Stage, Commit, Complete, Finish,
           ApplyFails, store
  <2> QED
    BY <1>0, <2>2
<1>7. ASSUME NEW t \in Threads, Scans(t) PROVE ScanDecides(t)
  <2>1. ScanDecides(t) \/ approved' = approved
    BY <1>7 DEF Scans, ScanRecovers, ScanChecksGame, ScanReads, ScanFails, ScanVerifies,
                ScanPrompts, store
  <2> QED
    BY <1>0, <2>1
<1>8. ASSUME NEW t \in Threads, Reports(t) PROVE approved' = approved
  BY <1>8 DEF Reports, store
<1>9. ASSUME NEW t \in Threads \cup {Main}, Launches(t), ~LaunchRecovers(t)
      PROVE  approved' = approved
  BY <1>9 DEF Launches, LaunchDecides, store
<1>10. ASSUME NEW choice \in Choices, Choose(choice) PROVE approved' = approved
  BY <1>10, Zenon DEF Choose, Play, GameUpdateChosen, SkipGameUpdate, RetryUpdateCheck,
                      InstallChosen, UpdateChosen, Back, SignIn, ChooseProvider, store
<1>11. ASSUME World PROVE approved' = approved
  BY <1>11, Zenon DEF World, Open, Render, GateAnswers, PageLoads, Publish, Damage, Close,
                      Kill, store
<1>12. ASSUME UNCHANGED vars PROVE approved' = approved
  BY <1>12 DEF vars, store
<1> QED
  BY <1>0, <1>1, <1>6, <1>7, <1>8, <1>9, <1>10, <1>11, <1>12 DEF Next, Works

(* One thread at a time beside the main one: while Content is behind the   *)
(* game because an approved update was not finished, the approval is kept, *)
(* through crashes, failed restorations, expired sessions, scans and new   *)
(* releases.  Two steps forget it: a launch, and a scan that offers a      *)
(* first install, of the installed game, which a sign-in left behind.      *)
THEOREM ApprovalStays ==
  ASSUME OneThread
  PROVE  Spec => ApprovalKept
<1> DEFINE IInv == TypeInv /\ OneOperation /\ Closed /\ LayersFit /\ FlowFits /\ ApprovalFits
<1>1. Init => IInv
  BY InitFits, InitLayers, InitFlows, InitApproves
<1>2. IInv /\ [Next]_vars => IInv'
  BY StepFits, GuardStep, StepKeepsClosed, StepKeepsLayers, StepKeepsFlow, StepKeepsApproval
<1>3. IInv /\ [Next]_vars =>
        [ /\ \A l \in Layers : disk[l].scratch = "none"
          /\ approved = Game /\ ContentPresent /\ Content # Game
          /\ Game' = Game /\ Content' = Content /\ approved' = 0
          => \/ \E t \in Threads \cup {Main} : LaunchRecovers(t)
             \/ /\ \E t \in Threads : ScanDecides(t)
                /\ pending.kind = "install" /\ (unrestored \/ pending.version = Game) ]_vars
  BY StepKeepsNeeded DEF Needed, OfferedInstead
<1> HIDE DEF IInv
<1> QED
  BY <1>1, <1>2, <1>3, PTL DEF Spec, ApprovalKept
=============================================================================
