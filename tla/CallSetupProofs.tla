--------------------------- MODULE CallSetupProofs ---------------------------
(***************************************************************************)
(* Proofs about CallSetup, for every choice of thresholds, timer lateness  *)
(* and clock bound that satisfies the assumptions.                         *)
(*                                                                         *)
(* The safety properties rest on one inductive invariant in three parts:   *)
(* Ledger ties fallback_triggered to the single attempt the platform makes,*)
(* Timing bounds the clock while the call is connecting, and Verdicts says *)
(* what a call that is not settled, or given up, cannot have met before.   *)
(***************************************************************************)
EXTENDS CallSetup, TransportFallbackProofs

(* The fallback flag, the announcement, the order and the attempt move     *)
(* together; a connecting call has not used its fallback.                  *)
Ledger ==
    /\ announcements = IF fallbackTriggered THEN 1 ELSE 0
    /\ ~fallbackTriggered => order = NoOrder /\ direct = "idle"
    /\ order # NoOrder => direct = "idle" /\ order.needsFreshSignaling
    /\ direct # "idle" => triedOn = "fresh"
    /\ current.kind = "Connecting" => ~fallbackTriggered
    /\ current.kind = "FallingBackToDirectChannel" => fallbackTriggered

(* While connecting, the last tick was below the fallback threshold, and   *)
(* the status last shown dates from the start or from the early update.    *)
Timing ==
    /\ lastTick <= now /\ statusAt <= now
    /\ now <= lastTick + tickGap
    /\ current.kind = "Connecting" =>
          /\ lastTick < FallbackTriggerMs
          /\ earlyStatusEmitted <=> current.status = "StillConnecting"
          /\ earlyStatusEmitted => EarlyStatusMs <= statusAt
          /\ ~earlyStatusEmitted => lastTick < EarlyStatusMs

(* What an abandoned call has behind it; a connecting one has met no ICE   *)
(* report that decides anything, hence neither has one that timed out.     *)
Verdicts ==
    /\ current = Abandoned("BothFailed") => direct = "failed"
    /\ current = Abandoned("TimedOut") => ~fallbackTriggered
    /\ current.kind = "Connecting" \/ current = Abandoned("TimedOut") =>
          ice \notin {"Connected", "Failed"}
    /\ PunctualTimer => current # Abandoned("TimedOut")

IInv == TypeOK /\ Ledger /\ Timing /\ Verdicts

-----------------------------------------------------------------------------
(* A step of the platform calls at most one method, so it keeps TypeOK.    *)
LEMMA StepTyped == TypeOK /\ [Next]_vars => TypeOK'
<1> SUFFICES ASSUME TypeOK, [Next]_vars PROVE TypeOK'
  OBVIOUS
<1> USE DEF TypeOK, UseReturnedState, Announced
<1>1. CASE IceChanges
  <2>1. ControllerTypeOK'
    BY <1>1, IceTyped DEF IceChanges
  <2> QED BY <1>1, <2>1 DEF IceChanges, clockVars, ControllerTypeOK
<1>2. CASE TimerFires
  <2>1. ControllerTypeOK'
    BY <1>2, TickTyped DEF TimerFires
  <2> QED BY <1>2, <2>1 DEF TimerFires, ControllerTypeOK
<1>3. CASE DirectChannelStarts
  BY <1>3 DEF DirectChannelStarts, controllerVars, clockVars, shownVars,
              ControllerTypeOK
<1>4. CASE DirectChannelReports
  <2>1. ControllerTypeOK'
    BY <1>4, ResultTyped DEF DirectChannelReports
  <2> QED BY <1>4, <2>1 DEF DirectChannelReports, clockVars, ControllerTypeOK
<1>5. CASE SocketGoesStale
  BY <1>5 DEF SocketGoesStale, controllerVars, clockVars, shownVars, ControllerTypeOK
<1>6. CASE TimePasses
  BY <1>6 DEF TimePasses, controllerVars, directVars, shownVars, ControllerTypeOK
<1>7. CASE UNCHANGED vars
  BY <1>7 DEF vars, controllerVars, clockVars, directVars, shownVars, ControllerTypeOK
<1> QED BY <1>1, <1>2, <1>3, <1>4, <1>5, <1>6, <1>7 DEF Next

(* Every variable keeps its type: TypeOK is inductive by itself.           *)
THEOREM TypeCorrect == Spec => []TypeOK
<1>1. Init => TypeOK
  <2> SUFFICES ASSUME Init PROVE TypeOK
    OBVIOUS
  <2>1. ControllerTypeOK
    BY NewControllerTyped DEF Init
  <2> QED BY <2>1 DEF Init, TypeOK
<1> QED BY <1>1, StepTyped, PTL DEF Spec

-----------------------------------------------------------------------------
(* A controller made by new(), with no attempt at the direct channel and   *)
(* the clock at zero, satisfies the invariant.                             *)
LEMMA InitEstablishesIInv == Init => IInv
<1> SUFFICES ASSUME Init PROVE IInv
  OBVIOUS
<1>1. TypeOK
  <2>1. ControllerTypeOK
    BY NewControllerTyped DEF Init
  <2> QED BY <2>1 DEF Init, TypeOK
<1>2. Ledger
  BY StateValues DEF Init, ControllerInit, Ledger
<1>3. Timing
  BY StateValues, ThresholdsAssumption, PlatformAssumption DEF Init, ControllerInit, Timing
<1>4. Verdicts
  BY DEF Init, ControllerInit, Verdicts, Connecting, Abandoned
<1> QED BY <1>1, <1>2, <1>3, <1>4 DEF IInv

(* Every step keeps the invariant: one case per action, and under those    *)
(* that call a method one step per part of the invariant.                  *)
LEMMA StepKeepsIInv == IInv /\ [Next]_vars => IInv'
<1> SUFFICES ASSUME IInv, [Next]_vars PROVE IInv'
  OBVIOUS
<1>0. TypeOK' /\ TypeOK
  BY StepTyped DEF IInv
<1> USE ThresholdsAssumption, PlatformAssumption
<1> USE DEF IInv
<1>1. CASE IceChanges
  <2>1. PICK s \in IceConnectionState : OnIceStateChanged(s)
    BY <1>1 DEF IceChanges
  <2> USE <1>0, <1>1, <2>1 DEF IceChanges, OnIceStateChanged, FallbackAvailable, FallBack,
          UseReturnedState, Announced, clockVars, TypeOK, ControllerTypeOK
  <2>2. Ledger'
    BY StateValues DEF Ledger, NoOrder
  <2>3. Timing'
    BY StateValues DEF Timing
  <2>4. Verdicts'
    BY DEF Ledger, Verdicts, PunctualTimer, FallingBack, WebRtcConnected, Abandoned
  <2> QED BY <2>2, <2>3, <2>4, <1>0
<1>2. CASE TimerFires
  <2> USE <1>0, <1>2 DEF TimerFires, OnTick, FallbackAvailable, FallBack, ReactsToTicks,
          AbandonDue, FallbackDue, StatusDue,
          UseReturnedState, Announced, TypeOK, ControllerTypeOK
  <2>2. Ledger'
    BY StateValues DEF Ledger, NoOrder
  <2>3. Timing'
    BY StateValues DEF Timing, Ledger
  <2>4. Verdicts'
    BY StateValues DEF Ledger, Timing, Verdicts, PunctualTimer
  <2> QED BY <2>2, <2>3, <2>4, <1>0
<1>3. CASE DirectChannelStarts
  <2> USE <1>0, <1>3 DEF DirectChannelStarts, controllerVars, clockVars, shownVars,
          TypeOK, ControllerTypeOK
  <2>2. Ledger'
    BY DEF Ledger
  <2>3. Timing'
    BY DEF Timing
  <2>4. Verdicts'
    BY DEF Verdicts, PunctualTimer, Ledger
  <2> QED BY <2>2, <2>3, <2>4, <1>0
<1>4. CASE DirectChannelReports
  <2>1. PICK connected \in BOOLEAN :
           /\ OnDirectChannelResult(connected)
           /\ direct' = IF connected THEN "connected" ELSE "failed"
    BY <1>4 DEF DirectChannelReports
  <2> USE <1>0, <1>4, <2>1 DEF DirectChannelReports, OnDirectChannelResult, DirectChannelVerdict,
          UseReturnedState, Announced, clockVars, TypeOK, ControllerTypeOK
  <2>2. Ledger'
    BY StateValues DEF Ledger, NoOrder
  <2>3. Timing'
    BY StateValues DEF Timing
  <2>4. Verdicts'
    BY StateValues DEF Verdicts, PunctualTimer, Ledger
  <2> QED BY <2>2, <2>3, <2>4, <1>0
<1>5. CASE SocketGoesStale
  BY <1>0, <1>5 DEF SocketGoesStale, controllerVars, clockVars, shownVars,
                    Ledger, Timing, Verdicts, PunctualTimer
<1>6. CASE TimePasses
  BY <1>0, <1>6 DEF TimePasses, controllerVars, directVars, shownVars, TypeOK,
                    Ledger, Timing, Verdicts, PunctualTimer
<1>7. CASE UNCHANGED vars
  BY <1>0, <1>7 DEF vars, controllerVars, clockVars, directVars, shownVars,
                    Ledger, Timing, Verdicts, PunctualTimer
<1> QED BY <1>1, <1>2, <1>3, <1>4, <1>5, <1>6, <1>7 DEF Next

(* The invariant holds in every reachable state: the one fallback and the  *)
(* attempt made for it stay in step, a connecting call is behind none of   *)
(* the thresholds on_tick acts on, and none that timed out missed a report.*)
THEOREM Inductive == Spec => []IInv
BY InitEstablishesIInv, StepKeepsIInv, PTL DEF Spec

-----------------------------------------------------------------------------
(* The direct channel is tried at most once per call and never over a      *)
(* signaling socket older than the announcement, whatever the order of ICE *)
(* failures, ticks and results: the Ledger part of the invariant.          *)
THEOREM FreshAttempt == Spec => []OneFreshDirectAttempt
<1>1. IInv => OneFreshDirectAttempt
  BY DEF IInv, Ledger, OneFreshDirectAttempt, TypeOK, ControllerTypeOK
<1> QED BY <1>1, Inductive, PTL

(* A connecting call is never silent for longer than the longer of the two *)
(* intervals between thresholds plus the timer's lateness: by Timing, the  *)
(* last tick was below the next threshold.                                 *)
THEOREM BoundedSilence == Spec => []NeverSilentWhileConnecting
<1>1. IInv => NeverSilentWhileConnecting
  BY ThresholdsAssumption, PlatformAssumption
     DEF IInv, Timing, NeverSilentWhileConnecting, LongestWait, TypeOK
<1> QED BY <1>1, Inductive, PTL

(* With a timer no later than AbandonMs - FallbackTriggerMs, on_tick never *)
(* gives a call up: every abandoned call failed on the direct channel.     *)
THEOREM PunctualTries == Spec => []PunctualCallTriesDirectChannel
<1>1. IInv => PunctualCallTriesDirectChannel
  BY StateValues DEF IInv, Verdicts, PunctualCallTriesDirectChannel, TypeOK,
     ControllerTypeOK, TransportState
<1> QED BY <1>1, Inductive, PTL

(* An abandoned call has no attempt at the direct channel ordered or under *)
(* way, and one that timed out no ICE report it did not react to: by       *)
(* Ledger an unused fallback was never ordered, and by Verdicts a call is  *)
(* connecting only until the first report that decides.                    *)
THEOREM NoAttemptLeft == Spec => []AbandonedLeavesNoAttempt
<1>1. IInv => AbandonedLeavesNoAttempt
  BY DEF IInv, Ledger, Verdicts, AbandonedLeavesNoAttempt
<1> QED BY <1>1, Inductive, PTL

(* A connected call is disconnected only by a failure report, never by the *)
(* passing of time: ticks are ignored outside Connecting, and ICE reports  *)
(* other than a failure leave the state alone.                             *)
THEOREM OnlyFailureDisconnects == Spec => ConnectionLostOnlyByFailureReport
<1> DEFINE Kept == Connected /\ ~Connected' =>
                      \/ ice' = "Failed" /\ ice # "Failed"
                      \/ direct' = "failed" /\ direct = "running"
<1>1. TypeOK /\ [Next]_vars => [Kept]_vars
  <2> SUFFICES ASSUME TypeOK, Next, Connected, ~Connected' PROVE Kept
    OBVIOUS
  <2> USE StateValues DEF Connected
  <2>1. CASE IceChanges
    BY <2>1 DEF IceChanges, OnIceStateChanged, FallbackAvailable, FallBack, IceMoves
  <2>2. CASE TimerFires
    BY <2>2 DEF TimerFires, OnTick, ReactsToTicks, FallBack
  <2>3. CASE DirectChannelReports
    BY <2>3 DEF DirectChannelReports, OnDirectChannelResult, DirectChannelVerdict
  <2>4. CASE DirectChannelStarts \/ SocketGoesStale \/ TimePasses
    BY <2>4 DEF DirectChannelStarts, SocketGoesStale, TimePasses, controllerVars
  <2> QED BY <2>1, <2>2, <2>3, <2>4 DEF Next
<1> QED BY <1>1, TypeCorrect, PTL DEF Spec, ConnectionLostOnlyByFailureReport

-----------------------------------------------------------------------------
(* The call implements the promise of CallProgress: its steps are the      *)
(* promise's steps or leave phase and attempt alone.                       *)
THEOREM Refinement == Spec => KeepsPromise
<1>1. Init => Promise!Init
  BY StateValues DEF Init, ControllerInit, Promise!Init, AttemptOf
<1>2. IInv /\ IInv' /\ [Next]_vars => [Promise!Next]_(Promise!vars)
  <2> SUFFICES ASSUME IInv, IInv', [Next]_vars
               PROVE  Promise!Next \/ UNCHANGED <<current.kind, AttemptOf>>
    BY DEF Promise!vars
  <2> USE StateValues DEF IInv, TypeOK, ControllerTypeOK, Ledger, AttemptOf
  <2>1. CASE IceChanges
    <3>1. PICK s \in IceConnectionState : OnIceStateChanged(s)
      BY <2>1 DEF IceChanges
    <3>2. UNCHANGED direct
      BY <2>1 DEF IceChanges
    <3>3. CASE current' = WebRtcConnected /\ UNCHANGED fallbackTriggered
      BY <3>2, <3>3 DEF Promise!Next, Promise!WebRtcConnects
    <3>4. CASE FallbackAvailable /\ FallBack("WebRtcFailed")
      BY <3>2, <3>4 DEF FallbackAvailable, FallBack, Promise!Next, Promise!TryDirectChannel
    <3>5. CASE UNCHANGED <<current, fallbackTriggered>>
      BY <3>2, <3>5
    <3> QED BY <3>1, <3>3, <3>4, <3>5 DEF OnIceStateChanged
  <2>2. CASE TimerFires
    <3>1. UNCHANGED direct /\ OnTick(now)
      BY <2>2 DEF TimerFires
    <3>2. CASE ReactsToTicks /\ current' = Abandoned("TimedOut") /\ UNCHANGED fallbackTriggered
      BY <3>1, <3>2 DEF ReactsToTicks, Promise!Next, Promise!GiveUpUntried
    <3>3. CASE FallbackAvailable /\ FallBack("StillConnecting")
      BY <3>1, <3>3 DEF FallbackAvailable, FallBack, Promise!Next, Promise!TryDirectChannel
    <3>4. CASE /\ ReactsToTicks /\ current' = Connecting("StillConnecting")
               /\ UNCHANGED fallbackTriggered
      BY <3>1, <3>4 DEF ReactsToTicks
    <3>5. CASE UNCHANGED <<current, fallbackTriggered>>
      BY <3>1, <3>5
    <3> QED BY <3>1, <3>2, <3>3, <3>4, <3>5 DEF OnTick, FallbackDue
  <2>3. CASE DirectChannelStarts
    BY <2>3 DEF DirectChannelStarts, controllerVars
  <2>4. CASE DirectChannelReports
    BY <2>4 DEF DirectChannelReports, OnDirectChannelResult, DirectChannelVerdict,
                Promise!Next, Promise!DirectChannelAnswers
  <2>5. CASE SocketGoesStale \/ TimePasses
    BY <2>5 DEF SocketGoesStale, TimePasses, controllerVars, directVars
  <2>6. CASE UNCHANGED vars
    BY <2>6 DEF vars, controllerVars, directVars
  <2> QED BY <2>1, <2>2, <2>3, <2>4, <2>5, <2>6 DEF Next
<1> QED BY <1>1, <1>2, Inductive, PTL DEF Spec, KeepsPromise, Promise!Spec

=============================================================================
