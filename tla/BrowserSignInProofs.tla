------------------------ MODULE BrowserSignInProofs ------------------------
(***************************************************************************)
(* What holds of BrowserSignIn for every set of attempts and every bound:  *)
(* its type invariant, and that an attempt is heard if and only if it is   *)
(* the active one.                                                         *)
(***************************************************************************)
EXTENDS BrowserSignIn, TLAPS

(* The flags that wait for a page load are apart from the rest. *)
LEMMA InitFlags == Init => FlagsOK
BY Zenon DEF Init, FlagsOK

LEMMA StepKeepsFlags == FlagsOK /\ [Next]_vars => FlagsOK'
<1> SUFFICES ASSUME FlagsOK, [Next]_vars PROVE FlagsOK'
  OBVIOUS
<1>1. CASE User
  <2>1. CASE Open
    BY <2>1, Zenon DEF Open, FlagsOK
  <2>2. CASE Quit
    BY <2>2, Zenon DEF Quit, FlagsOK
  <2>3. CASE FailToStart
    BY <2>3, Zenon DEF FailToStart, FlagsOK
  <2>4. CASE OpenAgain
    BY <2>4, Zenon DEF OpenAgain, window, FlagsOK
  <2>5. CASE ShowChoices
    BY <2>5, Zenon DEF ShowChoices, FlagsOK
  <2>6. CASE Back
    BY <2>6, Zenon DEF Back, FlagsOK
  <2>7. CASE SignInAtGate
    BY <2>7, Zenon DEF SignInAtGate, FlagsOK
  <2>8. ASSUME NEW a \in Attempts, Start(a) PROVE FlagsOK'
    BY <2>8, Zenon DEF Start, Begin, FlagsOK
  <2>9. ASSUME NEW verified \in BOOLEAN, GateCompletes(verified) PROVE FlagsOK'
    BY <2>9, Zenon DEF GateCompletes, GateResult, FlagsOK
  <2> QED
    BY <1>1, <2>1, <2>2, <2>3, <2>4, <2>5, <2>6, <2>7, <2>8, <2>9 DEF User
<1>2. CASE Window
  BY <1>2, Zenon DEF Window, NavigateReturn, NavigateShow, PageLoaded, GateLoaded, Work, FlagsOK
<1>3. ASSUME NEW a \in Attempts, Opener(a) PROVE FlagsOK'
  BY <1>3, Zenon DEF Opener, SeeCancellation, OpenBrowser, BrowserFails, FailOpening, window, FlagsOK
<1>4. ASSUME NEW a \in Attempts, Listener(a) PROVE FlagsOK'
  <2>1. CASE Finish(a)
    BY <2>1, Zenon DEF Finish, ShowOutcome, GateResult, FlagsOK
  <2> QED
    BY <1>4, <2>1, Zenon DEF Listener, Receive, Decide, BreakDown, Close, window, FlagsOK
<1>5. CASE UNCHANGED vars
  BY <1>5, Zenon DEF vars, window, FlagsOK
<1> QED
  BY <1>1, <1>2, <1>3, <1>4, <1>5 DEF Next

(* So is what the window shows. *)
LEMMA InitWindow == Init => WindowOK
BY DEF Init, WindowOK, Screens

LEMMA StepKeepsWindow == WindowOK /\ [Next]_vars => WindowOK'
<1> SUFFICES ASSUME WindowOK, [Next]_vars PROVE WindowOK'
  OBVIOUS
<1>1. CASE User
  <2>1. CASE Open \/ Quit \/ OpenAgain \/ SignInAtGate
    BY <2>1 DEF Open, Quit, OpenAgain, SignInAtGate, Navigate, Fault, window, WindowOK, Screens
  <2>2. CASE FailToStart \/ ShowChoices \/ Back
    BY <2>2 DEF FailToStart, ShowChoices, Back, ShowLocally, Navigate, Fault, WindowOK, Screens
  <2>3. ASSUME NEW a \in Attempts, Start(a) PROVE WindowOK'
    BY <2>3 DEF Start, Begin, Navigate, Fault, WindowOK
  <2>4. ASSUME NEW verified \in BOOLEAN, GateCompletes(verified) PROVE WindowOK'
    BY <2>4 DEF GateCompletes, GateResult, ShowLocally, WindowOK, Screens
  <2> QED
    BY <1>1, <2>1, <2>2, <2>3, <2>4 DEF User
<1>2. CASE Window
  <2>1. CASE NavigateReturn \/ NavigateShow
    BY <2>1 DEF NavigateReturn, NavigateShow, Fault, WindowOK
  <2>2. CASE PageLoaded \/ GateLoaded \/ Work
    BY <2>2 DEF PageLoaded, GateLoaded, Work, WindowOK, Screens
  <2> QED
    BY <1>2, <2>1, <2>2 DEF Window
<1>3. ASSUME NEW a \in Attempts, Opener(a) PROVE WindowOK'
  BY <1>3 DEF Opener, SeeCancellation, OpenBrowser, BrowserFails, FailOpening,
              ShowLocally, Fault, window, WindowOK, Screens
<1>4. ASSUME NEW a \in Attempts, Listener(a) PROVE WindowOK'
  <2>1. CASE Finish(a)
    BY <2>1 DEF Finish, ShowOutcome, GateResult, ShowLocally, WindowOK, Screens
  <2> QED
    BY <1>4, <2>1 DEF Listener, Receive, Decide, BreakDown, Close, Fault, window, WindowOK
<1>5. CASE UNCHANGED vars
  BY <1>5 DEF vars, window, WindowOK
<1> QED
  BY <1>1, <1>2, <1>3, <1>4, <1>5 DEF Next

(* And so are the attempts. *)
LEMMA InitAttempts == Init => AttemptsOK
BY DEF Init, AttemptsOK, Each

(* The counts of threads, apart from the rest. *)
LEMMA CountsOK == AttemptsOK => checking \in [Attempts -> Nat] /\ opening \in [Attempts -> Nat]
BY DEF AttemptsOK

LEMMA UserKeepsAttempts == AttemptsOK /\ User => AttemptsOK'
<1> SUFFICES ASSUME AttemptsOK, User PROVE AttemptsOK'
  OBVIOUS
<1>1. CASE Open
  BY <1>1 DEF Open, attempt, history, AttemptsOK
<1>2. CASE Quit
  BY <1>2 DEF Quit, Each, AttemptsOK
<1>3. CASE FailToStart \/ ShowChoices \/ Back \/ SignInAtGate
  BY <1>3 DEF FailToStart, ShowChoices, Back, SignInAtGate, Leave, AttemptsOK
<1>4. CASE OpenAgain
  <2>1. active \in Attempts
    BY <1>4 DEF OpenAgain, AttemptsOK
  <2>2. checking' \in [Attempts -> Nat]
    BY <1>4, <2>1, CountsOK DEF OpenAgain
  <2> QED
    BY <1>4, <2>2 DEF OpenAgain, history, AttemptsOK
<1>5. ASSUME NEW a \in Attempts, Start(a) PROVE AttemptsOK'
  BY <1>5 DEF Start, Begin, AttemptsOK
<1>6. ASSUME NEW verified \in BOOLEAN, GateCompletes(verified) PROVE AttemptsOK'
  BY <1>6 DEF GateCompletes, attempt, history, AttemptsOK
<1> QED
  BY <1>1, <1>2, <1>3, <1>4, <1>5, <1>6 DEF User

LEMMA OpenerKeepsAttempts ==
  ASSUME AttemptsOK, NEW a \in Attempts, Opener(a) PROVE AttemptsOK'
<1>1. CASE SeeCancellation(a)
  <2>1. checking' \in [Attempts -> Nat] /\ opening' \in [Attempts -> Nat]
    BY <1>1, CountsOK DEF SeeCancellation
  <2> QED
    BY <1>1, <2>1 DEF SeeCancellation, history, AttemptsOK
<1>2. CASE OpenBrowser(a) \/ BrowserFails(a)
  <2>1. opening' \in [Attempts -> Nat]
    BY <1>2, CountsOK DEF OpenBrowser, BrowserFails
  <2> QED
    BY <1>2, <2>1 DEF OpenBrowser, BrowserFails, history, AttemptsOK
<1>3. CASE FailOpening(a)
  BY <1>3 DEF FailOpening, Owns, End, AttemptsOK
<1> QED
  BY <1>1, <1>2, <1>3 DEF Opener

LEMMA ListenerKeepsAttempts ==
  ASSUME AttemptsOK, NEW a \in Attempts, Listener(a) PROVE AttemptsOK'
<1>1. ASSUME NEW result \in {"verified", "refused"}, Receive(a, result) PROVE AttemptsOK'
  BY <1>1 DEF Receive, history, AttemptsOK
<1>2. CASE Decide(a)
  BY <1>2 DEF Decide, Possible, history, AttemptsOK
<1>3. CASE BreakDown(a)
  BY <1>3 DEF BreakDown, history, AttemptsOK
<1>4. CASE Close(a)
  BY <1>4 DEF Close, history, AttemptsOK
<1>5. CASE Finish(a)
  BY <1>5 DEF Finish, Owns, End, AttemptsOK
<1> QED
  BY <1>1, <1>2, <1>3, <1>4, <1>5 DEF Listener

LEMMA StepKeepsAttempts == AttemptsOK /\ [Next]_vars => AttemptsOK'
<1>1. AttemptsOK /\ (Window \/ UNCHANGED vars) => AttemptsOK'
  BY DEF Window, NavigateReturn, NavigateShow, PageLoaded, GateLoaded, Work,
         vars, attempt, history, AttemptsOK
<1> QED
  BY <1>1, UserKeepsAttempts, OpenerKeepsAttempts, ListenerKeepsAttempts DEF Next

LEMMA AttemptsCorrect == Spec => []AttemptsOK
BY InitAttempts, StepKeepsAttempts, PTL DEF Spec

(* Every state of the launcher has a window that shows one page, at most   *)
(* one active attempt, and attempts whose listener, threads and closures   *)
(* are where the code can be.                                              *)
THEOREM TypeCorrect == Spec => []TypeOK
<1>1. Spec => []FlagsOK
  BY InitFlags, StepKeepsFlags, PTL DEF Spec
<1>2. Spec => []WindowOK
  BY InitWindow, StepKeepsWindow, PTL DEF Spec
<1> QED
  BY <1>1, <1>2, AttemptsCorrect, PTL DEF TypeOK

-----------------------------------------------------------------------------
(* The three invariants need each other, and two facts more: whatever has  *)
(* ended or was left has been cancelled, and only what began can be.       *)
EndedIsCancelled == left \subseteq cancelled /\ applied \subseteq cancelled
CancelledHasBegun == \A a \in cancelled : wait[a] # "unused"
Ownership ==
    /\ LeftIsIgnored /\ AbandonedIsCancelled /\ ActiveWillBeHeard
    /\ EndedIsCancelled /\ CancelledHasBegun

owners == <<active, cancelled, wait, left, applied>>

LEMMA OthersKeepOwnership == Ownership /\ UNCHANGED owners => Ownership'
BY DEF Ownership, LeftIsIgnored, AbandonedIsCancelled, ActiveWillBeHeard,
       EndedIsCancelled, CancelledHasBegun, owners

(* Leaving the active attempt, whatever is shown then. *)
LEMMA LeavingKeepsOwnership ==
  ASSUME AttemptsOK, Ownership, Leave, UNCHANGED <<wait, applied>> PROVE Ownership'
<1> USE DEF Ownership, Leave
<1>1. LeftIsIgnored'
  BY DEF LeftIsIgnored, ActiveWillBeHeard, EndedIsCancelled
<1>2. AbandonedIsCancelled'
  BY DEF AbandonedIsCancelled, AttemptsOK
<1>3. ActiveWillBeHeard'
  BY DEF ActiveWillBeHeard
<1>4. EndedIsCancelled' /\ CancelledHasBegun'
  BY DEF EndedIsCancelled, CancelledHasBegun, ActiveWillBeHeard
<1> QED
  BY <1>1, <1>2, <1>3, <1>4

(* An end of the attempt that is active. *)
LEMMA EndingKeepsOwnership ==
  ASSUME AttemptsOK, Ownership, NEW a \in Attempts, Owns(a), End(a), UNCHANGED left,
         wait' = wait \/ wait' = [wait EXCEPT ![a] = "done"]
  PROVE  Ownership'
<1> USE NoAttemptIsNoAttempt DEF Ownership, Owns, End
<1>1. LeftIsIgnored'
  BY DEF LeftIsIgnored, ActiveWillBeHeard, EndedIsCancelled
<1>2. AbandonedIsCancelled'
  BY DEF AbandonedIsCancelled, AttemptsOK
<1>3. ActiveWillBeHeard'
  BY DEF ActiveWillBeHeard
<1>4. EndedIsCancelled' /\ CancelledHasBegun'
  BY DEF EndedIsCancelled, CancelledHasBegun, ActiveWillBeHeard, AttemptsOK
<1> QED
  BY <1>1, <1>2, <1>3, <1>4

(* A step of a listener that its own attempt alone takes notice of. *)
LEMMA ListeningKeepsOwnership ==
  ASSUME AttemptsOK, Ownership, NEW a \in Attempts, wait[a] # "unused",
         NEW next \in {"closing", "queued"}, wait' = [wait EXCEPT ![a] = next],
         UNCHANGED <<active, cancelled, left, applied>>
  PROVE  Ownership'
BY DEF AttemptsOK, Ownership, LeftIsIgnored, AbandonedIsCancelled, ActiveWillBeHeard,
       EndedIsCancelled, CancelledHasBegun

LEMMA StartKeepsOwnership ==
  ASSUME AttemptsOK, Ownership, NEW a \in Attempts, Start(a) PROVE Ownership'
BY NoAttemptIsNoAttempt
   DEF Start, Begin, AttemptsOK, Ownership, LeftIsIgnored, AbandonedIsCancelled,
       ActiveWillBeHeard, EndedIsCancelled, CancelledHasBegun

LEMMA UserKeepsOwnership == AttemptsOK /\ Ownership /\ User => Ownership'
<1> SUFFICES ASSUME AttemptsOK, Ownership, User PROVE Ownership'
  OBVIOUS
<1>1. CASE Open
  BY <1>1, OthersKeepOwnership DEF Open, owners, attempt, history
<1>2. CASE Quit
  BY <1>2 DEF Quit, Each, Ownership, LeftIsIgnored, AbandonedIsCancelled,
              ActiveWillBeHeard, EndedIsCancelled, CancelledHasBegun
<1>3. CASE FailToStart \/ ShowChoices \/ Back \/ SignInAtGate
  BY <1>3, LeavingKeepsOwnership DEF FailToStart, ShowChoices, Back, SignInAtGate
<1>4. CASE OpenAgain
  BY <1>4, OthersKeepOwnership DEF OpenAgain, owners, history
<1>5. ASSUME NEW verified \in BOOLEAN, GateCompletes(verified) PROVE Ownership'
  BY <1>5, OthersKeepOwnership DEF GateCompletes, owners, attempt, history
<1> QED
  BY <1>1, <1>2, <1>3, <1>4, <1>5, StartKeepsOwnership DEF User

LEMMA WindowKeepsOwnership == AttemptsOK /\ Ownership /\ Window => Ownership'
BY OthersKeepOwnership
   DEF Window, NavigateReturn, NavigateShow, PageLoaded, GateLoaded, Work,
       owners, attempt, history

LEMMA OpenerKeepsOwnership ==
  ASSUME AttemptsOK, Ownership, NEW a \in Attempts, Opener(a) PROVE Ownership'
<1>1. CASE SeeCancellation(a) \/ OpenBrowser(a) \/ BrowserFails(a)
  BY <1>1, OthersKeepOwnership DEF SeeCancellation, OpenBrowser, BrowserFails, owners, history
<1>2. CASE FailOpening(a)
  <2>1. CASE Owns(a)
    BY <1>2, <2>1, EndingKeepsOwnership DEF FailOpening
  <2>2. CASE ~Owns(a)
    BY <1>2, <2>2, OthersKeepOwnership DEF FailOpening, owners
  <2> QED
    BY <2>1, <2>2
<1> QED
  BY <1>1, <1>2 DEF Opener

LEMMA ListenerKeepsOwnership ==
  ASSUME AttemptsOK, Ownership, NEW a \in Attempts, Listener(a) PROVE Ownership'
<1>1. ASSUME NEW result \in {"verified", "refused"}, Receive(a, result) PROVE Ownership'
  BY <1>1, OthersKeepOwnership DEF Receive, owners, history
<1>2. CASE Decide(a) \/ Close(a) \/ BreakDown(a)
  BY <1>2, ListeningKeepsOwnership DEF Decide, Close, BreakDown, history
<1>3. CASE Finish(a)
  <2>1. CASE Owns(a)
    BY <1>3, <2>1, EndingKeepsOwnership DEF Finish
  <2>2. CASE ~Owns(a)
    BY <1>3, <2>2 DEF Finish, Owns, AttemptsOK, Ownership, LeftIsIgnored, AbandonedIsCancelled,
                     ActiveWillBeHeard, EndedIsCancelled, CancelledHasBegun
  <2> QED
    BY <2>1, <2>2
<1> QED
  BY <1>1, <1>2, <1>3 DEF Listener

LEMMA InitOwnership == Init => Ownership
BY DEF Init, Each, Ownership, LeftIsIgnored, AbandonedIsCancelled, ActiveWillBeHeard,
       EndedIsCancelled, CancelledHasBegun

LEMMA StepKeepsOwnership == AttemptsOK /\ Ownership /\ [Next]_vars => Ownership'
<1>1. Ownership /\ UNCHANGED vars => Ownership'
  BY OthersKeepOwnership DEF vars, owners, attempt, history
<1> QED
  BY <1>1, UserKeepsOwnership, WindowKeepsOwnership, OpenerKeepsOwnership,
     ListenerKeepsOwnership DEF Next

LEMMA OwnershipHolds == Spec => []Ownership
BY AttemptsCorrect, InitOwnership, StepKeepsOwnership, PTL DEF Spec

(* However many attempts there are and however late their listeners and    *)
(* threads, an attempt that the user has left decides nothing.             *)
THEOREM LeftStaysIgnored == Spec => []LeftIsIgnored
BY OwnershipHolds, PTL DEF Ownership

(* No listener but that of the active attempt runs without having been     *)
(* told to stop, and the launcher never waits for an attempt that nobody   *)
(* listens for.                                                            *)
THEOREM NoListenerForgotten == Spec => []OneIsHeard
BY OwnershipHolds, PTL DEF Ownership, OneIsHeard
=============================================================================
