---------------------------- MODULE CallProgress ----------------------------
(***************************************************************************)
(* What the call setup promises to the rest of the application, without    *)
(* timers, thresholds or ICE: a call is in one of five phases and owns one *)
(* attempt at the direct channel, which is unused, outstanding or spent.   *)
(*                                                                         *)
(*  - a call that left "Connecting" never goes back to it;                 *)
(*  - the direct channel is tried at most once, and a call that gave up    *)
(*    after a verdict of the direct channel can only be revived by WebRTC; *)
(*  - giving up without a verdict is possible only straight from           *)
(*    "Connecting", with the attempt still unused.                         *)
(***************************************************************************)
VARIABLES phase, attempt

vars == <<phase, attempt>>

Phase == {"Connecting", "WebRtcConnected", "FallingBackToDirectChannel",
          "DirectChannelConnected", "Abandoned"}

Init == phase = "Connecting" /\ attempt = "unused"

WebRtcConnects ==
    /\ phase' = "WebRtcConnected"
    /\ UNCHANGED attempt

TryDirectChannel ==
    /\ attempt = "unused"
    /\ attempt' = "outstanding"
    /\ phase' = "FallingBackToDirectChannel"

DirectChannelAnswers ==
    /\ attempt = "outstanding"
    /\ attempt' = "spent"
    /\ phase' \in {"DirectChannelConnected", "Abandoned"}

GiveUpUntried ==
    /\ phase = "Connecting" /\ attempt = "unused"
    /\ phase' = "Abandoned"
    /\ UNCHANGED attempt

Next == WebRtcConnects \/ TryDirectChannel \/ DirectChannelAnswers \/ GiveUpUntried

Spec == Init /\ [][Next]_vars

=============================================================================
