----------------------- MODULE TransportFallbackProofs ------------------------
(***************************************************************************)
(* Facts about the controller's values and methods that the proofs about   *)
(* CallSetup and CallScreen share.                                         *)
(***************************************************************************)
EXTENDS TransportFallback, TLAPS

(* The values of TransportState differ in their kind, and those of a kind  *)
(* in their text.                                                          *)
LEMMA StateValues ==
    /\ \A s : Connecting(s).kind = "Connecting" /\ Connecting(s).status = s
    /\ WebRtcConnected.kind = "WebRtcConnected"
    /\ \A s : /\ FallingBack(s).kind = "FallingBackToDirectChannel"
              /\ FallingBack(s).needsFreshSignaling
    /\ DirectChannelConnected.kind = "DirectChannelConnected"
    /\ \A r : Abandoned(r).kind = "Abandoned" /\ Abandoned(r).reason = r
  BY DEF Connecting, WebRtcConnected, FallingBack, DirectChannelConnected, Abandoned

(* Type correctness of new() ...                                           *)
LEMMA NewControllerTyped == ControllerInit => ControllerTypeOK
  BY DEF ControllerInit, ControllerTypeOK, TransportState, IceConnectionState

(* ... and of each method, for all inputs: of on_ice_state_changed,        *)
LEMMA IceTyped ==
    ASSUME ControllerTypeOK, NEW s \in IceConnectionState, OnIceStateChanged(s)
    PROVE  ControllerTypeOK'
  BY DEF ControllerTypeOK, OnIceStateChanged, FallBack, TransportState

(* of on_direct_channel_result,                                            *)
LEMMA ResultTyped ==
    ASSUME ControllerTypeOK, NEW connected \in BOOLEAN, OnDirectChannelResult(connected)
    PROVE  ControllerTypeOK'
  BY DEF ControllerTypeOK, OnDirectChannelResult, DirectChannelVerdict, TransportState

(* and of on_tick, whatever the elapsed time.                              *)
LEMMA TickTyped ==
    ASSUME ControllerTypeOK, NEW elapsed \in Nat, OnTick(elapsed)
    PROVE  ControllerTypeOK'
  BY DEF ControllerTypeOK, OnTick, FallBack, TransportState

(* A method that leaves Connecting never returns to it, and one that finds *)
(* the fallback used up announces none.                                    *)
LEMMA ConnectingIsNeverRegained ==
    ASSUME ControllerTypeOK, current'.kind = "Connecting",
           \/ \E s \in IceConnectionState : OnIceStateChanged(s)
           \/ \E connected \in BOOLEAN : OnDirectChannelResult(connected)
           \/ \E elapsed \in Nat : OnTick(elapsed)
    PROVE  current.kind = "Connecting" /\ UNCHANGED fallbackTriggered
<1>1. CASE \E s \in IceConnectionState : OnIceStateChanged(s)
  BY <1>1, StateValues DEF OnIceStateChanged, FallBack
<1>2. CASE \E connected \in BOOLEAN : OnDirectChannelResult(connected)
  BY <1>2, StateValues DEF OnDirectChannelResult, DirectChannelVerdict
<1>3. CASE \E elapsed \in Nat : OnTick(elapsed)
  BY <1>3, StateValues DEF OnTick, ReactsToTicks, FallBack
<1> QED BY <1>1, <1>2, <1>3

=============================================================================
