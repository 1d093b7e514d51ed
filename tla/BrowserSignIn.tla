--------------------------- MODULE BrowserSignIn ---------------------------
(***************************************************************************)
(* Sign-in with Steam through the system browser, and the ownership gate   *)
(* in the launcher's own window: browser_signin.rs (an attempt, its        *)
(* listener and its cancellation) and the handlers of main.rs around it.   *)
(*                                                                         *)
(* Handlers of the window, and closures given to run_on_main_thread, run   *)
(* one at a time on the main thread: each is one action.  The listener of  *)
(* an attempt, the threads that open the browser, the threads that         *)
(* navigate the window, and the window's page loads run beside it.         *)
(* The operation guard, and what waits for the authorization, are not      *)
(* part of this module: what is resumed, and a scan, is its page until it  *)
(* ends with another screen.                                               *)
(***************************************************************************)
EXTENDS Naturals

CONSTANTS Attempts,   \* the attempts of one run of the launcher (their ids)
          NoAttempt,  \* what BROWSER_SIGN_IN holds when there is none
          Installed,  \* whether Content is installed
          MaxThreads, \* bound on the threads of one kind a click may add to
          MaxFaults   \* bound on the failures of a behaviour

ASSUME NoAttemptIsNoAttempt == NoAttempt \notin Attempts
ASSUME InstalledIsBoolean == Installed \in BOOLEAN
ASSUME BoundsAreNaturals == MaxThreads \in Nat /\ MaxFaults \in Nat

VARIABLES active,    \* BROWSER_SIGN_IN
          cancelled, \* the attempts whose cancellation has been sent
          wait,      \* where Attempt::wait of each attempt is
          outcome,   \* its outcome
          answer,    \* the result its callback has taken
          checking,  \* its threads of open_steam_browser that ask the gate
          opening,   \* those that have seen it is not cancelled
          opened,    \* the attempts whose address the browser has
          failing,   \* the attempts with a closure for a failed browser
          page,      \* what the window shows
          loading,   \* the page load under way
          returns,   \* the threads of on_gate_result that will navigate
          shows,     \* the threads of show_local_screen that will navigate
          gateReturn, localScreen, scanPending, \* the flags of the same names
          left,      \* history: the attempts the user has left
          applied,   \* history: the attempts whose answer has been applied
          faults

attempt == <<cancelled, wait, outcome, answer, checking, opening, opened, failing>>
window == <<page, loading, returns, shows, gateReturn, localScreen, scanPending>>
history == <<left, applied>>
vars == <<active, attempt, window, history, faults>>

Screens == {"choices", "failure", "prompt"}

AttemptsOK ==
    /\ active \in Attempts \cup {NoAttempt}
    /\ cancelled \in SUBSET Attempts
    /\ wait \in [Attempts -> {"unused", "listening", "closing", "queued", "done"}]
    /\ outcome \in [Attempts -> {"none", "completed", "cancelled", "timed out", "unavailable"}]
    /\ answer \in [Attempts -> {"none", "verified", "refused"}]
    /\ checking \in [Attempts -> Nat] /\ opening \in [Attempts -> Nat]
    /\ opened \in SUBSET Attempts /\ failing \in SUBSET Attempts
    /\ left \in SUBSET Attempts /\ applied \in SUBSET Attempts

WindowOK ==
    /\ page \in Screens \cup {"closed", "blank", "waiting", "gate", "busy"}
    /\ loading \in {"none", "local", "gate"}
    /\ returns \in Nat /\ shows \in Nat
    /\ localScreen \in Screens \cup {"none"}
    /\ faults \in Nat

FlagsOK == gateReturn \in BOOLEAN /\ scanPending \in BOOLEAN

TypeOK == AttemptsOK /\ WindowOK /\ FlagsOK

Each(value) == [a \in Attempts |-> value]

Init ==
    /\ active = NoAttempt /\ cancelled = {} /\ opened = {} /\ failing = {}
    /\ wait = Each("unused") /\ outcome = Each("none") /\ answer = Each("none")
    /\ checking = Each(0) /\ opening = Each(0)
    /\ page = "closed" /\ loading = "none" /\ returns = 0 /\ shows = 0
    /\ gateReturn = FALSE /\ localScreen = "none" /\ scanPending = FALSE
    /\ left = {} /\ applied = {} /\ faults = 0

(* The launcher opens its window: on the sign-in choices when a first      *)
(* installation or a repair needs a new archive address, else on a scan.   *)
Open ==
    /\ page = "closed"
    /\ page' = "blank" /\ loading' = "local"
    /\ \/ localScreen' = "choices" /\ UNCHANGED scanPending
       \/ Installed /\ scanPending' = TRUE /\ UNCHANGED localScreen
    /\ UNCHANGED <<active, attempt, returns, shows, gateReturn, history, faults>>

(* The user closes the window, or chooses to quit; the process ends, and   *)
(* the next one has nothing of it.                                         *)
Quit ==
    /\ page # "closed"
    /\ active' = NoAttempt /\ cancelled' = {} /\ opened' = {} /\ failing' = {}
    /\ wait' = Each("unused") /\ outcome' = Each("none") /\ answer' = Each("none")
    /\ checking' = Each(0) /\ opening' = Each(0)
    /\ page' = "closed" /\ loading' = "none" /\ returns' = 0 /\ shows' = 0
    /\ gateReturn' = FALSE /\ localScreen' = "none" /\ scanPending' = FALSE
    /\ left' = {} /\ applied' = {} /\ UNCHANGED faults

-----------------------------------------------------------------------------
(* The active attempt.                                                     *)

(* Faulty: there always is one. *)
LeaveUnchecked ==
    /\ active' = NoAttempt
    /\ cancelled' = cancelled \cup {active}
    /\ left' = left \cup {active}

(* cancel_browser_sign_in: the active attempt, if there is one, is left.   *)
Leave ==
    /\ active' = NoAttempt
    /\ cancelled' = cancelled \cup ({active} \ {NoAttempt})
    /\ left' = left \cup ({active} \ {NoAttempt})

(* take_browser_sign_in finds what it looks for: only the attempt that is  *)
(* still active may end itself.  Faulty: any attempt is as good.           *)
OwnsAny(a) == active # NoAttempt
Owns(a) == active = a

(* An attempt has ended, and what it has to say decides what comes next.   *)
End(a) ==
    /\ active' = NoAttempt
    /\ cancelled' = cancelled \cup {active}
    /\ applied' = applied \cup {a}

-----------------------------------------------------------------------------
(* The window.                                                             *)

Fault == faults < MaxFaults /\ faults' = faults + 1

(* The window starts to load a page, or refuses to. *)
Navigate(where) ==
    \/ loading' = where /\ UNCHANGED faults
    \/ Fault /\ UNCHANGED loading

(* show_local_screen. *)
ShowLocally(screen) == localScreen' = screen /\ shows' = shows + 1

(* on_gate_result: a failure is shown, success returns to the launcher.    *)
GateResult(verified) ==
    IF verified
    THEN gateReturn' = TRUE /\ returns' = returns + 1 /\ UNCHANGED <<localScreen, shows>>
    ELSE ShowLocally("failure") /\ UNCHANGED <<gateReturn, returns>>

(* Its thread, once it has run. *)
NavigateReturn ==
    /\ returns > 0 /\ returns' = returns - 1
    /\ \/ loading' = "local" /\ UNCHANGED <<gateReturn, page, faults>>
       \/ Fault /\ gateReturn' = FALSE /\ page' = "busy" /\ UNCHANGED loading
    /\ UNCHANGED <<active, attempt, shows, localScreen, scanPending, history>>

(* The thread of show_local_screen, once it has run. *)
NavigateShow ==
    /\ shows > 0 /\ shows' = shows - 1
    /\ \/ loading' = "local" /\ UNCHANGED <<localScreen, page, faults>>
       \/ /\ Fault /\ UNCHANGED loading
          /\ page' = IF localScreen = "none" THEN page ELSE localScreen
          /\ localScreen' = "none"
    /\ UNCHANGED <<active, attempt, returns, gateReturn, scanPending, history>>

(* on_page_load of the launcher's own page: the first thing that is        *)
(* pending decides what it shows; without one it stays as it was loaded.   *)
PageLoaded ==
    /\ loading = "local" /\ loading' = "none"
    /\ \/ /\ localScreen # "none"
          /\ page' = localScreen /\ localScreen' = "none"
          /\ UNCHANGED <<gateReturn, scanPending>>
       \/ /\ localScreen = "none" /\ active # NoAttempt
          /\ page' = "waiting"
          /\ UNCHANGED <<localScreen, gateReturn, scanPending>>
       \/ /\ localScreen = "none" /\ active = NoAttempt /\ gateReturn
          /\ page' = "busy" /\ gateReturn' = FALSE
          /\ UNCHANGED <<localScreen, scanPending>>
       \/ /\ localScreen = "none" /\ active = NoAttempt /\ ~gateReturn /\ scanPending
          /\ page' = "busy" /\ scanPending' = FALSE
          /\ UNCHANGED <<localScreen, gateReturn>>
       \/ /\ localScreen = "none" /\ active = NoAttempt /\ ~gateReturn /\ ~scanPending
          /\ page' = "blank"
          /\ UNCHANGED <<localScreen, gateReturn, scanPending>>
    /\ UNCHANGED <<active, attempt, returns, shows, history, faults>>

(* The gate's page: nothing that is pending is for it. *)
GateLoaded ==
    /\ loading = "gate" /\ loading' = "none" /\ page' = "gate"
    /\ UNCHANGED <<active, attempt, returns, shows, gateReturn, localScreen, scanPending, history, faults>>

(* An operation that was resumed, or a scan, ends with a screen that may   *)
(* ask to sign in.                                                         *)
Work ==
    /\ page = "busy" /\ page' = "prompt"
    /\ UNCHANGED <<active, attempt, loading, returns, shows, gateReturn, localScreen,
                   scanPending, history, faults>>

-----------------------------------------------------------------------------
(* What the user does.                                                     *)

RoomForThread == shows < MaxThreads

OffersSteam == page \in {"choices", "failure", "gate"}

(* The next attempt begins to listen; a thread asks the gate for it.       *)
Begin(a) ==
    /\ OffersSteam /\ wait[a] = "unused"
    /\ active' = a
    /\ wait' = [wait EXCEPT ![a] = "listening"]
    /\ checking' = [checking EXCEPT ![a] = 1]
    /\ Navigate("local")
    /\ UNCHANGED <<outcome, answer, opening, opened, failing, applied, page, returns,
                   shows, gateReturn, localScreen, scanPending>>

(* Faulty: the attempt before is forgotten, not cancelled. *)
StartWithoutCancelling(a) ==
    /\ Begin(a)
    /\ left' = left \cup ({active} \ {NoAttempt})
    /\ UNCHANGED cancelled

(* start_steam_browser_sign_in, by a button or by the gate's own page.     *)
Start(a) ==
    /\ Begin(a)
    /\ cancelled' = cancelled \cup ({active} \ {NoAttempt})
    /\ left' = left \cup ({active} \ {NoAttempt})

(* Faulty: the attempt becomes active before it is known to listen. *)
FailAfterActivating ==
    /\ Fault
    /\ OffersSteam /\ RoomForThread
    /\ \E a \in Attempts :
        /\ wait[a] = "unused" /\ active' = a
        /\ cancelled' = cancelled \cup ({active} \ {NoAttempt})
        /\ left' = left \cup ({active} \ {NoAttempt})
    /\ ShowLocally("failure")
    /\ UNCHANGED <<wait, outcome, answer, checking, opening, opened, failing, applied,
                   page, loading, returns, gateReturn, scanPending>>

(* Attempt::prepare fails: there is no port to listen on. *)
FailToStart ==
    /\ Fault
    /\ OffersSteam /\ RoomForThread
    /\ Leave /\ ShowLocally("failure")
    /\ UNCHANGED <<wait, outcome, answer, checking, opening, opened, failing, applied,
                   page, loading, returns, gateReturn, scanPending>>

(* "Open browser" on the screen that waits for the browser. *)
OpenAgain ==
    /\ page = "waiting" /\ active # NoAttempt
    /\ checking[active] + opening[active] < MaxThreads
    /\ checking' = [checking EXCEPT ![active] = @ + 1]
    /\ UNCHANGED <<active, cancelled, wait, outcome, answer, opening, opened, failing,
                   window, history, faults>>

(* show_sign_in_choices: by "Back" on the screen that waits, and by        *)
(* "Sign in", "Try Again" and "Back" on the others.                        *)
ShowChoices ==
    /\ page \in {"waiting", "failure", "prompt"} /\ RoomForThread
    /\ Leave /\ ShowLocally("choices")
    /\ gateReturn' = FALSE /\ scanPending' = FALSE
    /\ UNCHANGED <<wait, outcome, answer, checking, opening, opened, failing, applied, faults,
                   page, loading, returns>>

(* "Back" on the sign-in choices and on the gate's screens. *)
Back ==
    /\ page \in {"choices", "gate"} /\ RoomForThread
    /\ Leave
    /\ IF Installed
       THEN /\ localScreen' = "none" /\ gateReturn' = FALSE /\ scanPending' = TRUE
            /\ Navigate("local")
            /\ UNCHANGED shows
       ELSE ShowLocally("prompt") /\ UNCHANGED <<gateReturn, scanPending, loading, faults>>
    /\ UNCHANGED <<wait, outcome, answer, checking, opening, opened, failing, applied,
                   page, returns>>

(* The providers whose sign-in stays in the launcher's window. *)
SignInAtGate ==
    /\ page = "choices"
    /\ Leave
    /\ Navigate("gate")
    /\ UNCHANGED <<wait, outcome, answer, checking, opening, opened, failing, applied,
                   page, returns, shows, gateReturn, localScreen, scanPending>>

(* The gate's page in the window completes; a result is ignored while a    *)
(* browser attempt is active.                                              *)
GateCompletes(verified) ==
    /\ page = "gate" /\ active = NoAttempt
    /\ returns < MaxThreads /\ RoomForThread
    /\ GateResult(verified)
    /\ UNCHANGED <<active, attempt, page, loading, scanPending, history, faults>>

-----------------------------------------------------------------------------
(* The threads that open the browser: open_steam_browser.                  *)

(* The gate has answered; the thread looks whether the attempt was left.   *)
SeeCancellation(a) ==
    /\ checking[a] > 0
    /\ checking' = [checking EXCEPT ![a] = @ - 1]
    /\ opening' = IF a \in cancelled THEN opening ELSE [opening EXCEPT ![a] = @ + 1]
    /\ UNCHANGED <<active, cancelled, wait, outcome, answer, opened, failing, window,
                   history, faults>>

(* The browser has the address. *)
OpenBrowser(a) ==
    /\ opening[a] > 0
    /\ opening' = [opening EXCEPT ![a] = @ - 1]
    /\ opened' = opened \cup {a}
    /\ UNCHANGED <<active, cancelled, wait, outcome, answer, checking, failing, window,
                   history, faults>>

(* The gate is too old or unavailable, or there is no browser.             *)
BrowserFails(a) ==
    /\ Fault
    /\ opening[a] > 0
    /\ opening' = [opening EXCEPT ![a] = @ - 1]
    /\ failing' = failing \cup {a}
    /\ UNCHANGED <<active, cancelled, wait, outcome, answer, checking, opened, window, history>>

(* The closure that the thread has left on the main thread. *)
FailOpening(a) ==
    /\ a \in failing /\ failing' = failing \ {a}
    /\ \/ Owns(a) /\ End(a) /\ ShowLocally("failure")
       \/ ~Owns(a) /\ UNCHANGED <<active, cancelled, applied, localScreen, shows>>
    /\ UNCHANGED <<wait, outcome, answer, checking, opening, opened, page, loading, returns,
                   gateReturn, scanPending, left, faults>>

-----------------------------------------------------------------------------
(* The listener of an attempt: Attempt::wait.                              *)

(* receive: the first valid result is taken, as long as the server runs.   *)
Receive(a, result) ==
    /\ a \in opened /\ wait[a] \in {"listening", "closing"}
    /\ answer[a] = "none"
    /\ answer' = [answer EXCEPT ![a] = result]
    /\ UNCHANGED <<active, cancelled, wait, outcome, checking, opening, opened, failing,
                   window, history, faults>>

(* Faulty: no time-out. *)
PossibleIfAnswered(a) ==
    (IF answer[a] # "none" THEN {"completed"} ELSE {})
    \cup (IF a \in cancelled THEN {"cancelled"} ELSE {})

(* The branches of select! that are ready: none has priority, and the      *)
(* time may always be over.                                                *)
Possible(a) ==
    (IF answer[a] # "none" THEN {"completed"} ELSE {})
    \cup (IF a \in cancelled THEN {"cancelled"} ELSE {})
    \cup {"timed out"}

Decide(a) ==
    /\ wait[a] = "listening"
    /\ \E result \in Possible(a) : outcome' = [outcome EXCEPT ![a] = result]
    /\ wait' = [wait EXCEPT ![a] = "closing"]
    /\ UNCHANGED <<active, cancelled, answer, checking, opening, opened, failing, window,
                   history, faults>>

(* The server stops with an error. *)
BreakDown(a) ==
    /\ Fault
    /\ wait[a] = "listening"
    /\ outcome' = [outcome EXCEPT ![a] = "unavailable"]
    /\ wait' = [wait EXCEPT ![a] = "queued"]
    /\ UNCHANGED <<active, cancelled, answer, checking, opening, opened, failing, window, history>>

(* The server has shut down; the main thread is given the outcome. *)
Close(a) ==
    /\ wait[a] = "closing"
    /\ wait' = [wait EXCEPT ![a] = "queued"]
    /\ UNCHANGED <<active, cancelled, outcome, answer, checking, opening, opened, failing,
                   window, history, faults>>

(* Faulty: silent about a time-out. *)
ShowAnswersOnly(a) ==
    IF outcome[a] \in {"cancelled", "timed out"}
    THEN UNCHANGED <<localScreen, shows, gateReturn, returns>>
    ELSE GateResult(outcome[a] = "completed" /\ answer[a] = "verified")

(* What finish_steam_browser_sign_in makes of an outcome. *)
ShowOutcome(a) ==
    IF outcome[a] = "cancelled"
    THEN UNCHANGED <<localScreen, shows, gateReturn, returns>>
    ELSE GateResult(outcome[a] = "completed" /\ answer[a] = "verified")

(* finish_steam_browser_sign_in: an attempt that is no longer active has   *)
(* nothing to say.                                                         *)
Finish(a) ==
    /\ wait[a] = "queued"
    /\ wait' = [wait EXCEPT ![a] = "done"]
    /\ outcome' = [outcome EXCEPT ![a] = "none"]
    /\ answer' = [answer EXCEPT ![a] = "none"]
    /\ \/ Owns(a) /\ End(a) /\ ShowOutcome(a)
       \/ ~Owns(a) /\ UNCHANGED <<active, cancelled, applied, localScreen, shows, gateReturn, returns>>
    /\ UNCHANGED <<checking, opening, opened, failing, page, loading,
                   scanPending, left, faults>>

-----------------------------------------------------------------------------
User ==
    \/ Open \/ Quit \/ FailToStart \/ OpenAgain \/ ShowChoices \/ Back \/ SignInAtGate
    \/ \E a \in Attempts : Start(a)
    \/ \E verified \in BOOLEAN : GateCompletes(verified)

Window == NavigateReturn \/ NavigateShow \/ PageLoaded \/ GateLoaded \/ Work

Opener(a) == SeeCancellation(a) \/ OpenBrowser(a) \/ BrowserFails(a) \/ FailOpening(a)

Listener(a) ==
    \/ \E result \in {"verified", "refused"} : Receive(a, result)
    \/ Decide(a) \/ BreakDown(a) \/ Close(a) \/ Finish(a)

Next == User \/ Window \/ \E a \in Attempts : Opener(a) \/ Listener(a)

Spec == Init /\ [][Next]_vars

(* Threads, the runtime's tasks and the queue of the main thread all run   *)
(* on, and a page load ends; users and browsers do as they like.           *)
Fairness ==
    /\ WF_vars(NavigateReturn) /\ WF_vars(NavigateShow)
    /\ WF_vars(PageLoaded) /\ WF_vars(GateLoaded) /\ WF_vars(Work)
    /\ \A a \in Attempts :
        /\ WF_vars(SeeCancellation(a)) /\ WF_vars(OpenBrowser(a)) /\ WF_vars(FailOpening(a))
        /\ WF_vars(Decide(a)) /\ WF_vars(Close(a)) /\ WF_vars(Finish(a))

FairSpec == Spec /\ Fairness

-----------------------------------------------------------------------------
(* An attempt that the user has left - for another one, for another        *)
(* provider, or to go back - never decides what the launcher does next,    *)
(* however its listener, its browser threads and their closures are        *)
(* delayed (take_browser_sign_in).                                         *)
LeftIsIgnored == applied \cap left = {}

(* Every attempt that could still take a result, but is not the active     *)
(* one, has been told to stop: no listener is forgotten.                   *)
AbandonedIsCancelled ==
    \A a \in Attempts : wait[a] = "listening" /\ a # active => a \in cancelled

(* The active attempt always has a listener that will speak to the main    *)
(* thread, and has not been cancelled: the launcher never waits for        *)
(* nobody.                                                                 *)
ActiveWillBeHeard ==
    active # NoAttempt => /\ wait[active] \in {"listening", "closing", "queued"}
                          /\ active \notin cancelled

(* Exactly the active attempt is listened for: nobody else's result is     *)
(* waited for, and the launcher waits for nobody's.                        *)
OneIsHeard == AbandonedIsCancelled /\ ActiveWillBeHeard

(* The screen that waits for the browser is never the last one: the        *)
(* attempt ends by a result, a failure or the time-out, and each of them   *)
(* takes the window to another screen.                                     *)
WaitingEnds == page = "waiting" ~> page # "waiting"
=============================================================================
