--------------------------- MODULE CallScreenProofs ---------------------------
(***************************************************************************)
(* Proofs about CallScreen, for all thresholds and elapsed times, however  *)
(* the deliveries of the three callers cross.                              *)
(***************************************************************************)
EXTENDS CallScreen, TransportFallbackProofs

(* No announcement is in anybody's hands, and no attempt made for it, but  *)
(* by a controller that has used its fallback; one that is connecting has  *)
(* not used it.                                                            *)
AnnouncedByFallback ==
    /\ current.kind = "Connecting" => ~fallbackTriggered
    /\ current.kind = "FallingBackToDirectChannel" => fallbackTriggered
    /\ \A c \in Caller :
          inFlight[c].kind = "FallingBackToDirectChannel" => fallbackTriggered
    /\ attempt # "unused" => fallbackTriggered

IInv == TypeOK /\ NothingShownTooEarly /\ AnnouncedByFallback

-----------------------------------------------------------------------------
(* A state of the controller is not the missing snapshot, and is one of    *)
(* the two connecting states if its kind says so.                          *)
LEMMA SnapshotValues ==
    /\ \A s \in TransportState : s # NoSnapshot
    /\ \A s \in TransportState : s.kind = "Connecting" =>
          s \in {Connecting("Connecting"), Connecting("StillConnecting")}
    /\ NoSnapshot.kind # "FallingBackToDirectChannel"
  BY StateValues DEF TransportState, NoSnapshot

(* A new call is on the screen and nothing is on its way.                  *)
LEMMA InitEstablishesIInv == Init => IInv
<1> SUFFICES ASSUME Init PROVE IInv
  OBVIOUS
<1>1. TypeOK
  BY NewControllerTyped DEF Init, TypeOK, ControllerTypeOK
<1>2. NothingShownTooEarly
  BY DEF Init, ControllerInit, NothingShownTooEarly
<1>3. AnnouncedByFallback
  BY StateValues, SnapshotValues DEF Init, ControllerInit, AnnouncedByFallback
<1> QED BY <1>1, <1>2, <1>3 DEF IInv

(* A caller that gets the controller's new state, whatever the method did: *)
(* the common part of the three calls.                                     *)
LEMMA CallKeepsIInv ==
    ASSUME IInv, NEW c \in Caller, Calls(c), UNCHANGED screen, TypeOK',
           \/ \E s \in IceConnectionState : OnIceStateChanged(s)
           \/ \E connected \in BOOLEAN : OnDirectChannelResult(connected)
           \/ \E t \in Nat : OnTick(t),
           current'.kind = "FallingBackToDirectChannel" => fallbackTriggered',
           fallbackTriggered => fallbackTriggered',
           attempt' # "unused" => fallbackTriggered
    PROVE  IInv'
<1>1. inFlight' = [inFlight EXCEPT ![c] = current'] /\ inFlight \in [Caller -> TransportState \cup {NoSnapshot}]
  BY DEF Calls, Returned, IInv, TypeOK
<1>2. current'.kind = "Connecting" =>
         current.kind = "Connecting" /\ UNCHANGED fallbackTriggered
  BY ConnectingIsNeverRegained DEF IInv, TypeOK
<1>3. NothingShownTooEarly'
  <2> SUFFICES ASSUME current'.kind = "Connecting",
                      NEW s \in {screen'} \cup {inFlight'[d] : d \in Caller}
               PROVE  s \in {Connecting("Connecting"), Connecting("StillConnecting"), NoSnapshot}
    BY DEF NothingShownTooEarly
  <2>1. CASE s = current'
    BY <2>1, SnapshotValues DEF TypeOK, ControllerTypeOK
  <2>2. CASE s \in {screen} \cup {inFlight[d] : d \in Caller}
    BY <1>2, <2>2 DEF IInv, NothingShownTooEarly
  <2> QED BY <1>1, <2>1, <2>2
<1>4. AnnouncedByFallback'
  BY <1>1, <1>2 DEF IInv, AnnouncedByFallback
<1> QED BY <1>3, <1>4 DEF IInv

(* Every step keeps the invariant.                                         *)
LEMMA StepKeepsIInv == IInv /\ [Next]_vars => IInv'
<1> SUFFICES ASSUME IInv, [Next]_vars PROVE IInv'
  OBVIOUS
<1> USE ElapsedAssumption
<1>1. CASE ObserverReports
  <2>1. PICK s \in IceConnectionState : OnIceStateChanged(s)
    BY <1>1 DEF ObserverReports
  <2>2. Calls("observer") /\ UNCHANGED <<elapsed, shownVars>> /\ "observer" \in Caller
    BY <1>1 DEF ObserverReports, Caller
  <2>3. ControllerTypeOK'
    BY <2>1, IceTyped DEF IInv, TypeOK
  <2>4. TypeOK'
    BY <2>2, <2>3 DEF Calls, Returned, shownVars, IInv, TypeOK, ControllerTypeOK
  <2>5. /\ current'.kind = "FallingBackToDirectChannel" => fallbackTriggered'
        /\ fallbackTriggered => fallbackTriggered'
    BY <2>1, StateValues DEF OnIceStateChanged, FallBack, IInv, AnnouncedByFallback
  <2> QED BY <2>1, <2>2, <2>4, <2>5, CallKeepsIInv DEF shownVars, IInv, AnnouncedByFallback
<1>2. CASE TimerTicks
  <2>1. PICK t \in ElapsedTimes : elapsed' = t /\ OnTick(t)
    BY <1>2 DEF TimerTicks
  <2>2. Calls("timer") /\ UNCHANGED shownVars /\ "timer" \in Caller
    BY <1>2 DEF TimerTicks, Caller
  <2>3. ControllerTypeOK'
    BY <2>1, TickTyped DEF IInv, TypeOK
  <2>4. TypeOK'
    BY <2>1, <2>2, <2>3 DEF Calls, Returned, shownVars, IInv, TypeOK, ControllerTypeOK
  <2>5. /\ current'.kind = "FallingBackToDirectChannel" => fallbackTriggered'
        /\ fallbackTriggered => fallbackTriggered'
    BY <2>1, StateValues DEF OnTick, FallBack, IInv, AnnouncedByFallback
  <2> QED BY <2>1, <2>2, <2>4, <2>5, CallKeepsIInv DEF shownVars, IInv, AnnouncedByFallback
<1>3. CASE WorkerReports
  <2>1. PICK connected \in BOOLEAN : OnDirectChannelResult(connected)
    BY <1>3 DEF WorkerReports
  <2>2. /\ Calls("worker") /\ UNCHANGED <<elapsed, screen>> /\ "worker" \in Caller
        /\ attempt = "running" /\ attempt' = "spent"
    BY <1>3 DEF WorkerReports, Caller
  <2>3. ControllerTypeOK'
    BY <2>1, ResultTyped DEF IInv, TypeOK
  <2>4. TypeOK'
    BY <2>2, <2>3 DEF Calls, Returned, IInv, TypeOK, ControllerTypeOK
  <2>5. /\ current'.kind = "FallingBackToDirectChannel" => fallbackTriggered'
        /\ fallbackTriggered => fallbackTriggered'
    BY <2>1, StateValues DEF OnDirectChannelResult, DirectChannelVerdict
  <2> QED BY <2>1, <2>2, <2>4, <2>5, CallKeepsIInv DEF IInv, AnnouncedByFallback
<1>4. ASSUME NEW c \in Caller, Deliver(c) PROVE IInv'
  <2>1. /\ screen' = inFlight[c] /\ inFlight[c] # NoSnapshot
        /\ inFlight' = [inFlight EXCEPT ![c] = NoSnapshot]
        /\ UNCHANGED <<current, ice, fallbackTriggered, earlyStatusEmitted, elapsed>>
    BY <1>4 DEF Deliver, controllerVars
  <2>2. TypeOK'
    BY <1>4, <2>1 DEF Deliver, IInv, TypeOK, ControllerTypeOK
  <2>3. NothingShownTooEarly'
    BY <2>1 DEF IInv, TypeOK, NothingShownTooEarly
  <2>4. AnnouncedByFallback'
    BY <1>4, <2>1, SnapshotValues DEF Deliver, IInv, TypeOK, AnnouncedByFallback
  <2> QED BY <2>2, <2>3, <2>4 DEF IInv
<1>5. CASE OpenScreen
  <2>1. /\ screen' = current
        /\ UNCHANGED <<current, ice, fallbackTriggered, earlyStatusEmitted,
                       elapsed, inFlight, attempt>>
    BY <1>5 DEF OpenScreen, CurrentState, controllerVars
  <2>2. TypeOK'
    BY <2>1 DEF IInv, TypeOK, ControllerTypeOK
  <2>3. NothingShownTooEarly'
    BY <2>1, SnapshotValues DEF IInv, TypeOK, ControllerTypeOK, NothingShownTooEarly
  <2>4. AnnouncedByFallback'
    BY <2>1 DEF IInv, AnnouncedByFallback
  <2> QED BY <2>2, <2>3, <2>4 DEF IInv
<1>6. CASE UNCHANGED vars
  BY <1>6 DEF vars, controllerVars, shownVars, IInv, TypeOK, ControllerTypeOK,
              NothingShownTooEarly, AnnouncedByFallback
<1> QED BY <1>1, <1>2, <1>3, <1>4, <1>5, <1>6 DEF Next

-----------------------------------------------------------------------------
(* The invariant holds in every reachable state: what is shown or about to *)
(* be shown lags behind the controller and announces nothing it has not    *)
(* announced.                                                              *)
THEOREM Inductive == Spec => []IInv
BY InitEstablishesIInv, StepKeepsIInv, PTL DEF Spec

(* Every variable keeps its type.                                          *)
THEOREM TypeCorrect == Spec => []TypeOK
<1>1. IInv => TypeOK
  BY DEF IInv
<1> QED BY <1>1, Inductive, PTL

(* While the controller is connecting, no thread holds and no screen shows *)
(* anything but a connecting state.                                        *)
THEOREM ShowsNothingTooEarly == Spec => []NothingShownTooEarly
<1>1. IInv => NothingShownTooEarly
  BY DEF IInv
<1> QED BY <1>1, Inductive, PTL

(* The calls implement the promise of CallProgress although their results  *)
(* are delivered out of order: only a call of the controller changes phase *)
(* or attempt, and delivering starts the worker without either changing.   *)
THEOREM Refinement == Spec => KeepsPromise
<1>1. Init => Promise!Init
  BY StateValues DEF Init, ControllerInit, Promise!Init, AttemptOf
<1>2. IInv /\ [Next]_vars => [Promise!Next]_(Promise!vars)
  <2> SUFFICES ASSUME IInv, [Next]_vars
               PROVE  Promise!Next \/ UNCHANGED <<current.kind, AttemptOf>>
    BY DEF Promise!vars
  <2> USE StateValues DEF IInv, TypeOK, ControllerTypeOK, AnnouncedByFallback, AttemptOf
  <2>1. CASE ObserverReports
    <3>1. PICK s \in IceConnectionState : OnIceStateChanged(s)
      BY <2>1 DEF ObserverReports
    <3>2. UNCHANGED attempt
      BY <2>1 DEF ObserverReports, shownVars
    <3>3. CASE current' = WebRtcConnected /\ UNCHANGED fallbackTriggered
      BY <3>2, <3>3 DEF Promise!Next, Promise!WebRtcConnects
    <3>4. CASE FallbackAvailable /\ FallBack("WebRtcFailed")
      BY <3>2, <3>4 DEF FallbackAvailable, FallBack, Promise!Next, Promise!TryDirectChannel
    <3>5. CASE UNCHANGED <<current, fallbackTriggered>>
      BY <3>2, <3>5
    <3> QED BY <3>1, <3>3, <3>4, <3>5 DEF OnIceStateChanged
  <2>2. CASE TimerTicks
    <3>1. PICK t \in ElapsedTimes : OnTick(t)
      BY <2>2 DEF TimerTicks
    <3>2. UNCHANGED attempt
      BY <2>2 DEF TimerTicks, shownVars
    <3>3. CASE ReactsToTicks /\ current' = Abandoned("TimedOut") /\ UNCHANGED fallbackTriggered
      BY <3>2, <3>3 DEF ReactsToTicks, Promise!Next, Promise!GiveUpUntried
    <3>4. CASE FallbackAvailable /\ FallBack("StillConnecting")
      BY <3>2, <3>4 DEF FallbackAvailable, FallBack, Promise!Next, Promise!TryDirectChannel
    <3>5. CASE /\ ReactsToTicks /\ current' = Connecting("StillConnecting")
               /\ UNCHANGED fallbackTriggered
      BY <3>2, <3>5 DEF ReactsToTicks
    <3>6. CASE UNCHANGED <<current, fallbackTriggered>>
      BY <3>2, <3>6
    <3> QED BY <3>1, <3>3, <3>4, <3>5, <3>6 DEF OnTick, FallbackDue
  <2>3. CASE WorkerReports
    BY <2>3 DEF WorkerReports, OnDirectChannelResult, DirectChannelVerdict,
                Promise!Next, Promise!DirectChannelAnswers
  <2>4. CASE \E c \in Caller : Deliver(c)
    BY <2>4 DEF Deliver, controllerVars
  <2>5. CASE OpenScreen \/ UNCHANGED vars
    BY <2>5 DEF OpenScreen, vars, controllerVars, shownVars
  <2> QED BY <2>1, <2>2, <2>3, <2>4, <2>5 DEF Next
<1> QED BY <1>1, <1>2, Inductive, PTL DEF Spec, KeepsPromise, Promise!Spec

=============================================================================
