------------------------- MODULE TransportFallback -------------------------
(***************************************************************************)
(* The TransportFallbackController of rust-core/src/transport_fallback.rs: *)
(* the state machine that decides, from ICE callbacks, timer ticks and the *)
(* verdict of the direct channel, which transport a call is on.            *)
(*                                                                         *)
(* Every exported method takes the controller's Mutex for its whole body,  *)
(* so each method is one atomic action.  A status or a reason text is      *)
(* represented by a name for that text, no two texts sharing a name.       *)
(***************************************************************************)
EXTENDS Naturals

CONSTANTS
    EarlyStatusMs,       \* EARLY_STATUS_MS      (3 000 in the code)
    FallbackTriggerMs,   \* FALLBACK_TRIGGER_MS  (6 000)
    AbandonMs            \* ABANDON_MS          (20 000)

ASSUME ThresholdsAssumption ==
    /\ EarlyStatusMs \in Nat
    /\ FallbackTriggerMs \in Nat
    /\ AbandonMs \in Nat
    /\ 0 < EarlyStatusMs
    /\ EarlyStatusMs < FallbackTriggerMs
    /\ FallbackTriggerMs < AbandonMs

VARIABLES
    current,             \* the caller-visible TransportState
    ice,                 \* the last ICE state reported
    fallbackTriggered,   \* the one fallback of this call has been announced
    earlyStatusEmitted   \* the "Still connecting" update has been emitted

controllerVars == <<current, ice, fallbackTriggered, earlyStatusEmitted>>

IceConnectionState == {"New", "Connected", "Failed", "Disconnected"}

-----------------------------------------------------------------------------
(* The values of TransportState.                                           *)

Connecting(status) == [kind |-> "Connecting", status |-> status]

WebRtcConnected == [kind |-> "WebRtcConnected"]

(* A slip: the fallback reuses the signaling socket.  (See "slips" below.)  *)
FallingBackOnOldSocket(status) ==
    [kind |-> "FallingBackToDirectChannel", status |-> status,
     needsFreshSignaling |-> FALSE]

FallingBack(status) ==
    [kind |-> "FallingBackToDirectChannel", status |-> status,
     needsFreshSignaling |-> TRUE]

DirectChannelConnected == [kind |-> "DirectChannelConnected"]

Abandoned(reason) == [kind |-> "Abandoned", reason |-> reason]

TransportState ==
    { Connecting("Connecting"), Connecting("StillConnecting"),
      WebRtcConnected,
      FallingBack("WebRtcFailed"), FallingBack("StillConnecting"),
      DirectChannelConnected,
      Abandoned("BothFailed"), Abandoned("TimedOut") }

ControllerTypeOK ==
    /\ current \in TransportState
    /\ ice \in IceConnectionState
    /\ fallbackTriggered \in BOOLEAN
    /\ earlyStatusEmitted \in BOOLEAN

-----------------------------------------------------------------------------
(* Slips a maintainer could make in the definitions below.  Each is used   *)
(* only to confirm that some property of CallSetup or CallScreen notices.  *)

AbandonedWithoutReason(connected) ==
    IF connected THEN DirectChannelConnected ELSE Abandoned("")

StatusWithAbandon(elapsed) == elapsed >= AbandonMs /\ ~earlyStatusEmitted
AbandonInsteadOfFallback(elapsed) == elapsed >= FallbackTriggerMs
TickAlways == TRUE
TickOnlyBeforeEarlyStatus == current = Connecting("Connecting")
FallBackUnrecorded(status) ==
    current' = FallingBack(status) /\ UNCHANGED fallbackTriggered
FallBackUnannounced(status) ==
    fallbackTriggered' = TRUE /\ UNCHANGED current

-----------------------------------------------------------------------------
(* new() *)

ControllerInit ==
    /\ current = Connecting("Connecting")
    /\ ice = "New"
    /\ fallbackTriggered = FALSE
    /\ earlyStatusEmitted = FALSE

FallbackAvailable == ~fallbackTriggered

FallBack(status) ==
    /\ fallbackTriggered' = TRUE
    /\ current' = FallingBack(status)

(* on_ice_state_changed.  The third disjunct is the match's catch-all arm. *)
OnIceStateChanged(s) ==
    /\ ice' = s
    /\ UNCHANGED earlyStatusEmitted
    /\ \/ /\ s = "Connected"
          /\ current' = WebRtcConnected
          /\ UNCHANGED fallbackTriggered
       \/ /\ s = "Failed" /\ FallbackAvailable
          /\ FallBack("WebRtcFailed")
       \/ /\ s # "Connected" /\ ~(s = "Failed" /\ FallbackAvailable)
          /\ UNCHANGED <<current, fallbackTriggered>>

DirectChannelVerdict(connected) ==
    IF connected THEN DirectChannelConnected ELSE Abandoned("BothFailed")

(* on_direct_channel_result: unconditional, whatever state it finds.       *)
OnDirectChannelResult(connected) ==
    /\ current' = DirectChannelVerdict(connected)
    /\ UNCHANGED <<ice, fallbackTriggered, earlyStatusEmitted>>

(* on_tick: what an elapsed time is due for, first match wins.             *)
ReactsToTicks == current.kind = "Connecting"

AbandonDue(elapsed) == elapsed >= AbandonMs

FallbackDue(elapsed) ==
    /\ ~AbandonDue(elapsed)
    /\ elapsed >= FallbackTriggerMs /\ FallbackAvailable

StatusDue(elapsed) ==
    /\ ~AbandonDue(elapsed) /\ ~FallbackDue(elapsed)
    /\ elapsed >= EarlyStatusMs /\ ~earlyStatusEmitted

OnTick(elapsed) ==
    /\ UNCHANGED ice
    /\ \/ /\ ReactsToTicks /\ AbandonDue(elapsed)
          /\ current' = Abandoned("TimedOut")
          /\ UNCHANGED <<fallbackTriggered, earlyStatusEmitted>>
       \/ /\ ReactsToTicks /\ FallbackDue(elapsed)
          /\ FallBack("StillConnecting")
          /\ UNCHANGED earlyStatusEmitted
       \/ /\ ReactsToTicks /\ StatusDue(elapsed)
          /\ earlyStatusEmitted' = TRUE
          /\ current' = Connecting("StillConnecting")
          /\ UNCHANGED fallbackTriggered
       \/ /\ ReactsToTicks =>
                ~(AbandonDue(elapsed) \/ FallbackDue(elapsed) \/ StatusDue(elapsed))
          /\ UNCHANGED <<current, fallbackTriggered, earlyStatusEmitted>>

-----------------------------------------------------------------------------
(* The changes the WebRTC stack may report: any, except back to the state  *)
(* before it began.                                                        *)
IceMoves ==
    { move \in IceConnectionState \X IceConnectionState :
         move[1] # move[2] /\ move[2] # "New" }

=============================================================================
