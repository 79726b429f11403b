----------------------------- MODULE CallScreen -----------------------------
(***************************************************************************)
(* What the user sees of a call.  Every method of TransportFallback clones *)
(* the state under the lock and returns the clone; the caller's thread     *)
(* hands it to the screen after the lock is released, so that two threads  *)
(* may deliver their snapshots in the other order.                         *)
(*                                                                         *)
(* Where CallSetup abstracts from this and shows every change at once,     *)
(* this module keeps the snapshots and leaves out clock and socket: of     *)
(* time it keeps that the timer's elapsed times never decrease.  The       *)
(* callers are not in the repository; the order of two deliveries is not   *)
(* constrained by anything the controller does.                            *)
(***************************************************************************)
EXTENDS TransportFallback

CONSTANT ElapsedTimes   \* the elapsed times the timer may pass to on_tick

ASSUME ElapsedAssumption == ElapsedTimes \subseteq Nat

Caller == {"observer", "timer", "worker"}

VARIABLES
    elapsed,   \* the elapsed time passed to the last on_tick
    inFlight,  \* what a caller got from the controller and not delivered yet
    screen,    \* the state the user sees
    attempt    \* the worker's attempt: "unused", "running" or "spent"

shownVars == <<screen, attempt>>
vars == <<controllerVars, elapsed, inFlight, shownVars>>

NoSnapshot == [kind |-> "NoSnapshot"]

TypeOK ==
    /\ ControllerTypeOK
    /\ elapsed \in ElapsedTimes \cup {0}
    /\ inFlight \in [Caller -> TransportState \cup {NoSnapshot}]
    /\ screen \in TransportState
    /\ attempt \in {"unused", "running", "spent"}

Init ==
    /\ ControllerInit
    /\ elapsed = 0
    /\ inFlight = [c \in Caller |-> NoSnapshot]
    /\ screen = current
    /\ attempt = "unused"

-----------------------------------------------------------------------------
(* A call of the controller by c: the clone it returns is in c's hands.    *)
(* A caller delivers one result before it calls again.                     *)
Returned == current'

Calls(c) ==
    /\ inFlight[c] = NoSnapshot
    /\ inFlight' = [inFlight EXCEPT ![c] = Returned]

ObserverReports ==
    /\ \E s \in IceConnectionState : <<ice, s>> \in IceMoves /\ OnIceStateChanged(s)
    /\ Calls("observer")
    /\ UNCHANGED <<elapsed, shownVars>>

TimerTicks ==
    /\ \E t \in ElapsedTimes :
          /\ t >= elapsed
          /\ elapsed' = t
          /\ OnTick(t)
    /\ Calls("timer")
    /\ UNCHANGED shownVars

WorkerReports ==
    /\ attempt = "running"
    /\ attempt' = "spent"
    /\ \E connected \in BOOLEAN : OnDirectChannelResult(connected)
    /\ Calls("worker")
    /\ UNCHANGED <<elapsed, screen>>

(* The screen shows the snapshot; the first that asks for the direct       *)
(* channel starts the worker.                                              *)
Deliver(c) ==
    /\ inFlight[c] # NoSnapshot
    /\ screen' = inFlight[c]
    /\ attempt' = IF attempt = "unused" /\ inFlight[c].kind = "FallingBackToDirectChannel"
                  THEN "running" ELSE attempt
    /\ inFlight' = [inFlight EXCEPT ![c] = NoSnapshot]
    /\ UNCHANGED <<controllerVars, elapsed>>

(* current_state(), read by a screen that is opened again.                 *)
CurrentState == current

OpenScreen ==
    /\ screen' = CurrentState
    /\ UNCHANGED <<controllerVars, elapsed, inFlight, attempt>>

Next ==
    \/ ObserverReports
    \/ TimerTicks
    \/ WorkerReports
    \/ \E c \in Caller : Deliver(c)
    \/ OpenScreen

(* A thread that holds a snapshot delivers it.  Nobody has to call the     *)
(* controller, and nobody has to open the screen again.                    *)
Fairness == \A c \in Caller : WF_vars(Deliver(c))

Spec == Init /\ [][Next]_vars /\ Fairness

-----------------------------------------------------------------------------
(* The screen may be older than the controller but never tells of progress *)
(* the controller has not made: what it shows, or is about to be shown,    *)
(* is "connecting" as long as the controller is.                           *)
NothingShownTooEarly ==
    current.kind = "Connecting" =>
        \A s \in {screen} \cup {inFlight[c] : c \in Caller} :
            s \in {Connecting("Connecting"), Connecting("StillConnecting"), NoSnapshot}

(* However the deliveries cross, and whatever the call became meanwhile,   *)
(* the one announcement of the fallback is not lost between the thread     *)
(* that caused it and the worker: a fallback that is used up was tried.    *)
UsedFallbackIsTried == fallbackTriggered ~> attempt # "unused"

(* A snapshot delivered late may overwrite a newer one, but not for ever:  *)
(* sooner or later the screen shows the state the call is in and stays     *)
(* with it, unless the timer stops.  Only its calls see to that, which     *)
(* return the state in every phase, also in those that ignore the time; a  *)
(* platform that stops it once the call is decided may keep a wrong screen.*)
TimerStops == <>[](inFlight["timer"] = NoSnapshot)

ScreenSettles == TimerStops \/ <>[](screen = current)

(* With crossing deliveries, too, the controller keeps the promise of      *)
(* CallProgress: one attempt, announced before it is answered.             *)
AttemptOf ==
    IF ~fallbackTriggered THEN "unused"
    ELSE IF attempt = "spent" THEN "spent" ELSE "outstanding"

Promise == INSTANCE CallProgress WITH phase <- current.kind, attempt <- AttemptOf

KeepsPromise == Promise!Spec

=============================================================================
