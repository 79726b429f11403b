---------------------------- MODULE IncomingCall ----------------------------
(***************************************************************************)
(* Incoming calls on the Android side: IncomingCallNotifications,          *)
(* IncomingCallActivity and IncomingCallService.                           *)
(*                                                                         *)
(* Android is external.  A notification is posted under its id and         *)
(* replaces the one there.  A PendingIntent is one object per request code *)
(* and action: getActivity() returns the existing one, and with            *)
(* FLAG_UPDATE_CURRENT replaces its extras.  IncomingCallActivity is       *)
(* singleTask (AndroidManifest.xml:36): launching it while it lives only   *)
(* delivers the new intent to onNewIntent, which it does not override.     *)
(***************************************************************************)
EXTENDS Naturals

CONSTANTS
    Callers,    \* holder keys of the peers that may call
    MaxCalls,   \* bound: incoming calls
    MaxKills    \* bound: times the system kills the process

ASSUME CallBoundsAssumption == MaxCalls \in Nat /\ MaxKills \in Nat

NoCaller == "none"
Decision == {"ACCEPT", "DECLINE"}
NotificationAction == Decision \cup {"RING"}

VARIABLES
    channel,       \* the notification channel "incoming_call" exists
    permitted,     \* the user granted POST_NOTIFICATIONS
    prompt,        \* notification 1001: the caller it names
    pending,       \* the caller in the extras of each PendingIntent
    ringing,       \* IncomingCallActivity: the caller on its screen
    service,       \* IncomingCallService
    (* history and bounds *)
    decided,       \* the last decision: what the user saw, what was handled
    calls, kills

vars == <<channel, permitted, prompt, pending, ringing, service, decided, calls, kills>>

NoDecision == [seen |-> NoCaller, handled |-> NoCaller]
Caller == Callers \cup {NoCaller}

TypeOK ==
    /\ channel \in BOOLEAN
    /\ permitted \in BOOLEAN
    /\ prompt \in Caller
    /\ pending \in [NotificationAction -> Caller]
    /\ ringing \in Caller
    /\ service \in {"stopped", "starting", "foreground", "crashed"}
    /\ decided \in [seen : Caller, handled : Caller]
    /\ calls \in 0..MaxCalls
    /\ kills \in 0..MaxKills

Init ==
    /\ channel = FALSE
    /\ permitted \in BOOLEAN
    /\ prompt = NoCaller
    /\ pending = [a \in NotificationAction |-> NoCaller]
    /\ ringing = NoCaller
    /\ service = "stopped"
    /\ decided = NoDecision
    /\ calls = 0 /\ kills = 0

-----------------------------------------------------------------------------
(* Slips a maintainer could make in the definitions below, used only to    *)
(* confirm that some property notices them.                                *)

ExtrasOfFirstCall(c) ==
    [a \in NotificationAction |-> IF pending[a] = NoCaller THEN c ELSE pending[a]]
ExtraMissingOnFullScreen(c) ==
    [a \in NotificationAction |-> IF a = "RING" THEN "" ELSE c]
ChannelLeftAlone == UNCHANGED channel
PromptKept == prompt

-----------------------------------------------------------------------------
(* IncomingCallNotifications.                                              *)

EnsureChannel == channel' = TRUE

Extras(c) == [a \in NotificationAction |-> c]

(* show: the three PendingIntents are made for this caller, then           *)
(* notification 1001 is posted, and dropped if its channel is missing or   *)
(* the user never granted the permission.                                  *)
Posted == permitted /\ channel'

Show(c) ==
    /\ service = "foreground" /\ calls < MaxCalls
    /\ EnsureChannel
    /\ pending' = Extras(c)
    /\ prompt' = IF Posted THEN c ELSE prompt
    /\ calls' = calls + 1
    /\ UNCHANGED <<permitted, ringing, service, decided, kills>>

Dismissed == NoCaller

-----------------------------------------------------------------------------
(* IncomingCallActivity.                                                   *)

(* The full-screen intent of the posted notification is launched: by the   *)
(* system as soon as it is posted, later, when the user touches it, or     *)
(* never.  The screen rings for the caller in the intent's extras.         *)
Ring ==
    /\ prompt # NoCaller /\ ringing = NoCaller
    /\ ringing' = pending["RING"]
    /\ UNCHANGED <<channel, permitted, prompt, pending, service, decided, calls, kills>>

(* onAccept and onDecline do the same today: dismiss and finish.           *)
Decide(seen, caller) ==
    /\ prompt' = Dismissed
    /\ ringing' = NoCaller
    /\ decided' = [seen |-> seen, handled |-> caller]

(* A button of the ringing screen.                                         *)
TapButton ==
    /\ ringing # NoCaller
    /\ Decide(ringing, ringing)
    /\ UNCHANGED <<channel, permitted, pending, service, calls, kills>>

(* An action of the notification: onCreate decides at once if the activity *)
(* has to be created; a living one ignores the intent.                     *)
PressAction(d) ==
    /\ prompt # NoCaller
    /\ IF ringing = NoCaller
       THEN Decide(prompt, pending[d])
       ELSE /\ decided' = [seen |-> prompt, handled |-> NoCaller]
            /\ UNCHANGED <<prompt, ringing>>
    /\ UNCHANGED <<channel, permitted, pending, service, calls, kills>>

(* Leaving the screen with the back button decides nothing.                *)
LeaveScreen ==
    /\ ringing # NoCaller
    /\ ringing' = NoCaller
    /\ UNCHANGED <<channel, permitted, prompt, pending, service, decided, calls, kills>>

-----------------------------------------------------------------------------
(* IncomingCallService, and MainActivity, which starts it.                 *)

AppStarts ==
    /\ service # "crashed"
    /\ service' = "starting"
    /\ UNCHANGED <<channel, permitted, prompt, pending, ringing, decided, calls, kills>>

(* The user answers the permission dialog of MainActivity.                 *)
GrantPermission ==
    /\ ~permitted
    /\ permitted' = TRUE
    /\ UNCHANGED <<channel, prompt, pending, ringing, service, decided, calls, kills>>

(* startForeground with a notification on a missing channel is fatal.      *)
OnStartCommand ==
    /\ service = "starting"
    /\ EnsureChannel
    /\ service' = IF channel' THEN "foreground" ELSE "crashed"
    /\ UNCHANGED <<permitted, prompt, pending, ringing, decided, calls, kills>>

(* START_STICKY: a started service is started again after a kill.          *)
StartAfterKill == "starting"

(* The system kills the process.  Notifications and PendingIntents live on *)
(* in the system, which may also keep the ringing activity's record, to    *)
(* create it again from the intent it was first launched with.             *)
Kill ==
    /\ kills < MaxKills
    /\ kills' = kills + 1
    /\ service' = IF service \in {"starting", "foreground"}
                  THEN StartAfterKill ELSE service
    /\ ringing' \in {ringing, NoCaller}
    /\ UNCHANGED <<channel, permitted, prompt, pending, decided, calls>>

Next ==
    \/ \E c \in Callers : Show(c)
    \/ Ring
    \/ TapButton
    \/ \E d \in Decision : PressAction(d)
    \/ LeaveScreen
    \/ AppStarts
    \/ GrantPermission
    \/ OnStartCommand
    \/ Kill

Spec == Init /\ [][Next]_vars

(* A started service gets its onStartCommand.  Of the user only this is    *)
(* assumed, to ask what it is good for: a notification that stays is       *)
(* pressed again and again.  Nobody has to use the screen or to leave it.  *)
Fairness ==
    /\ WF_vars(OnStartCommand)
    /\ \A d \in Decision : WF_vars(PressAction(d))

FairSpec == Spec /\ Fairness

-----------------------------------------------------------------------------
(* A decision that is handled is handled for the caller the user saw when  *)
(* deciding: the extras of the PendingIntents are never those of an        *)
(* earlier call.                                                           *)
DecisionIsForTheCallerSeen == decided.handled \in {decided.seen, NoCaller}

(* A prompt whose actions are pressed again and again stays for ever only  *)
(* where the ringing screen is up again and again: a living activity       *)
(* ignores the presses, and nothing else stands in their way, neither a    *)
(* kill nor a second call whose notification replaced the first.           *)
Alerting == prompt # NoCaller \/ ringing # NoCaller

PromptStaysOnlyBehindItsScreen == <>[]Alerting => []<>(ringing # NoCaller)

(* Once started, the service comes back to the foreground for ever after,  *)
(* whatever kills it.                                                      *)
ListenerComesBack == [](service # "stopped" => []<>(service = "foreground"))

=============================================================================
