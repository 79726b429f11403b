------------------------------ MODULE CallSetup ------------------------------
(***************************************************************************)
(* One outgoing call: the TransportFallback controller driven by the       *)
(* platform, whose three callers run concurrently and interleave freely:   *)
(*                                                                         *)
(*  - the WebRTC stack's observer reports ICE state changes;               *)
(*  - a timer calls on_tick with the time elapsed since the call began;    *)
(*  - a worker tries the direct channel once a returned state announces    *)
(*    the fallback, and reports its result whenever that comes.            *)
(*                                                                         *)
(* The platform is not in the repository (ARCHITECTURE.md, gap 1: "the     *)
(* platform glue isn't" done); it is modelled from the obligations the     *)
(* controller's doc comments put on its caller, and kept as weak as they   *)
(* are.  Time is counted in units: with thresholds 3, 6 and 20 a unit is   *)
(* one second of the code's milliseconds.                                  *)
(***************************************************************************)
EXTENDS TransportFallback

CONSTANTS
    TickGaps,     \* how far apart the ticks of a device may be
    MaxNow        \* bound: the clock stops here

ASSUME PlatformAssumption ==
    /\ TickGaps \subseteq Nat \ {0}
    /\ MaxNow \in Nat

VARIABLES
    now,            \* time elapsed since the call began
    tickGap,        \* the timer lets no more than this pass between ticks
    lastTick,       \* elapsed time passed to the last on_tick
    order,          \* an announced fallback the worker has not acted on yet
    direct,         \* the direct channel: "idle", "running", "connected", "failed"
    socket,         \* the signaling WebSocket: "fresh" or "stale"
    (* history, for the properties only *)
    statusAt,       \* when the caller last saw the state change
    announcements,  \* how many times the fallback was announced
    triedOn         \* the socket the direct-channel attempt started on

clockVars == <<now, lastTick, tickGap>>
directVars == <<order, direct, socket, triedOn>>
shownVars == <<statusAt, announcements>>
vars == <<controllerVars, clockVars, directVars, shownVars>>

NoOrder == [kind |-> "NoOrder"]

TypeOK ==
    /\ ControllerTypeOK
    /\ tickGap \in TickGaps
    /\ now \in Nat /\ lastTick \in Nat /\ statusAt \in Nat
    /\ order \in TransportState \cup {NoOrder}
    /\ direct \in {"idle", "running", "connected", "failed"}
    /\ socket \in {"fresh", "stale"}
    /\ announcements \in Nat
    /\ triedOn \in {"none", "fresh", "stale"}

Init ==
    /\ ControllerInit
    /\ tickGap \in TickGaps
    /\ now = 0 /\ lastTick = 0 /\ statusAt = 0
    /\ order = NoOrder /\ direct = "idle" /\ socket = "fresh"
    /\ announcements = 0 /\ triedOn = "none"

-----------------------------------------------------------------------------
(* What the caller of a method does with the state it returns: it shows    *)
(* the status and hands a fallback announcement to the worker, which acts  *)
(* on it later, without asking the controller again.                       *)

Announced == current' # current /\ current'.kind = "FallingBackToDirectChannel"

UseReturnedState ==
    /\ statusAt' = IF current' # current THEN now ELSE statusAt
    /\ announcements' = IF Announced THEN announcements + 1 ELSE announcements
    /\ order' = IF Announced THEN current' ELSE order

-----------------------------------------------------------------------------
IceChanges ==
    /\ \E s \in IceConnectionState :
          <<ice, s>> \in IceMoves /\ OnIceStateChanged(s)
    /\ UseReturnedState
    /\ UNCHANGED <<clockVars, direct, socket, triedOn>>

TimerFires ==
    /\ OnTick(now)
    /\ lastTick' = now
    /\ UseReturnedState
    /\ UNCHANGED <<now, tickGap, direct, socket, triedOn>>

(* The worker opens a new signaling connection if the order says so, and   *)
(* tries the direct channel over the connection it then has.               *)
DirectChannelStarts ==
    /\ order # NoOrder
    /\ order' = NoOrder
    /\ direct' = "running"
    /\ socket' = IF order.needsFreshSignaling THEN "fresh" ELSE socket
    /\ triedOn' = socket'
    /\ UNCHANGED <<controllerVars, clockVars, shownVars>>

DirectChannelReports ==
    /\ direct = "running"
    /\ \E connected \in BOOLEAN :
          /\ OnDirectChannelResult(connected)
          /\ direct' = IF connected THEN "connected" ELSE "failed"
    /\ UseReturnedState
    /\ UNCHANGED <<clockVars, socket, triedOn>>

SocketGoesStale ==
    /\ socket = "fresh"
    /\ socket' = "stale"
    /\ UNCHANGED <<controllerVars, clockVars, shownVars, order, direct, triedOn>>

TimePasses ==
    /\ now < MaxNow
    /\ now - lastTick < tickGap
    /\ now' = now + 1
    /\ UNCHANGED <<controllerVars, directVars, shownVars, lastTick, tickGap>>

Next ==
    \/ IceChanges
    \/ TimerFires
    \/ DirectChannelStarts
    \/ DirectChannelReports
    \/ SocketGoesStale
    \/ TimePasses

Spec == Init /\ [][Next]_vars

(* The clock runs, the timer is re-armed, and an announced fallback is     *)
(* acted on.  No fairness on ICE nor on the direct channel: either may     *)
(* stay silent for ever.                                                   *)
Fairness ==
    /\ WF_vars(TimePasses)
    /\ WF_vars(TimerFires)
    /\ WF_vars(DirectChannelStarts)

FairSpec == Spec /\ Fairness

-----------------------------------------------------------------------------
(* Safety.                                                                 *)

(* Root cause 2 of the bug this controller replaces: whatever the order of *)
(* ICE failures and timer ticks, one call tries the direct channel at most *)
(* once, and never over a signaling socket opened before the announcement. *)
OneFreshDirectAttempt ==
    /\ announcements <= 1
    /\ direct # "idle" => triedOn = "fresh"

LongestWait ==
    IF EarlyStatusMs > FallbackTriggerMs - EarlyStatusMs
    THEN EarlyStatusMs ELSE FallbackTriggerMs - EarlyStatusMs

(* Root cause 1: as long as the call is still connecting, the user saw a   *)
(* new status within the longer of the two intervals between thresholds,   *)
(* plus the time the timer may be late.                                    *)
NeverSilentWhileConnecting ==
    current.kind = "Connecting" => now - statusAt < LongestWait + tickGap

(* If the timer is never later than AbandonMs - FallbackTriggerMs, a call  *)
(* is given up on only after the direct channel was tried and failed: the  *)
(* ABANDON_MS branch of on_tick is never the one that fires.               *)
PunctualTimer == tickGap <= AbandonMs - FallbackTriggerMs

PunctualCallTriesDirectChannel ==
    PunctualTimer => (current.kind = "Abandoned" => direct = "failed")

(* An abandoned call leaves no attempt behind that could still answer: one *)
(* given up as "both failed" has had the verdict of its direct channel,    *)
(* one that timed out never ordered it, nor has it slept through a report  *)
(* of WebRTC that on_ice_state_changed reacts to, however late the timer.  *)
(* Of WebRTC in a call whose reason is "both failed" this says nothing;    *)
(* there the code falls short of its text (BothFailedMeansWebRtcDown).     *)
AbandonedLeavesNoAttempt ==
    /\ current = Abandoned("BothFailed") => direct = "failed" /\ order = NoOrder
    /\ current = Abandoned("TimedOut") =>
          direct = "idle" /\ order = NoOrder /\ ice \notin {"Connected", "Failed"}

Connected == current.kind \in {"WebRtcConnected", "DirectChannelConnected"}

(* Elapsed time never undoes a connection: a step that leaves a connected  *)
(* state is one in which a transport reported its failure.                 *)
ConnectionLostOnlyByFailureReport ==
    [][Connected /\ ~Connected' =>
          \/ ice' = "Failed" /\ ice # "Failed"
          \/ direct' = "failed" /\ direct = "running"]_vars

(* The detailed call implements the promise of CallProgress.               *)
AttemptOf ==
    IF ~fallbackTriggered THEN "unused"
    ELSE IF direct \in {"idle", "running"} THEN "outstanding" ELSE "spent"

Promise == INSTANCE CallProgress WITH phase <- current.kind, attempt <- AttemptOf

KeepsPromise == Promise!Spec

-----------------------------------------------------------------------------
(* Liveness.                                                               *)

Pending == current.kind \in {"Connecting", "FallingBackToDirectChannel"}

(* A call is left undecided for ever in one case only: its direct channel  *)
(* was started and never answers.  ICE may be silent, the timer forces the *)
(* fallback; and no answer, whenever it comes, leaves the call undecided.  *)
(* Nothing bounds the wait for it: on_tick ignores a call that is falling  *)
(* back.                                                                   *)
UndecidedMeansUnanswered == <>[]Pending => <>[](direct = "running")

-----------------------------------------------------------------------------
(* Claims of the source's comments that the code does not keep; each is    *)
(* the property of a run that exhibits the disagreement.                   *)

(* transport_fallback.rs:26, on Abandoned: "Both transports failed."  The  *)
(* claim for the state reached through a failed direct channel: the other  *)
(* transport, WebRTC, is not connected.                                    *)
BothFailedMeansWebRtcDown ==
    current = Abandoned("BothFailed") => ice # "Connected"

(* transport_fallback.rs:26-28: both transports failing is "a real,        *)
(* user-visible state", Abandoned, instead of a silent abandonment.        *)
BothDownIsShown ==
    ice = "Failed" /\ direct = "failed" => current.kind = "Abandoned"

=============================================================================
