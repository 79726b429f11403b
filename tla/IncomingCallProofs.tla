-------------------------- MODULE IncomingCallProofs --------------------------
(***************************************************************************)
(* Proofs about IncomingCall, for any set of callers and any number of     *)
(* calls and kills.                                                        *)
(*                                                                         *)
(* A press on the notification is handled for the caller in the extras of  *)
(* a PendingIntent, which live outside the process and outlast it.  That   *)
(* they name the caller on the notification is the inductive part.         *)
(***************************************************************************)
EXTENDS IncomingCall, TLAPS

(* The extras are those of the notification that is there.  A call whose   *)
(* notification is dropped replaces them, too, and it is dropped only as   *)
(* long as the permission is missing, when there is no notification.       *)
ExtrasMatchPrompt ==
    /\ prompt # NoCaller => \A a \in NotificationAction : pending[a] = prompt
    /\ ~permitted => prompt = NoCaller

IInv == TypeOK /\ ExtrasMatchPrompt /\ DecisionIsForTheCallerSeen

-----------------------------------------------------------------------------
(* A step keeps the types.                                                 *)
LEMMA StepTyped == TypeOK /\ [Next]_vars => TypeOK'
<1> SUFFICES ASSUME TypeOK, [Next]_vars PROVE TypeOK'
  OBVIOUS
<1> USE CallBoundsAssumption DEF TypeOK
<1>1. CASE \E c \in Callers : Show(c)
  BY <1>1 DEF Show, EnsureChannel, Extras, Caller
<1>2. CASE Ring
  BY <1>2 DEF Ring, NotificationAction
<1>3. CASE TapButton
  BY <1>3 DEF TapButton, Decide, Dismissed, Caller
<1>4. CASE \E d \in Decision : PressAction(d)
  BY <1>4 DEF PressAction, Decide, Dismissed, Caller, NotificationAction
<1>5. CASE LeaveScreen
  BY <1>5 DEF LeaveScreen, Caller
<1>6. CASE AppStarts \/ GrantPermission
  BY <1>6 DEF AppStarts, GrantPermission
<1>7. CASE OnStartCommand
  BY <1>7 DEF OnStartCommand, EnsureChannel
<1>8. CASE Kill
  BY <1>8 DEF Kill, StartAfterKill, Caller
<1>9. CASE UNCHANGED vars
  BY <1>9 DEF vars
<1> QED BY <1>1, <1>2, <1>3, <1>4, <1>5, <1>6, <1>7, <1>8, <1>9 DEF Next

(* No call, no notification, no decision: the invariant holds at first.    *)
LEMMA InitEstablishesIInv == Init => IInv
<1> SUFFICES ASSUME Init PROVE IInv
  OBVIOUS
<1>1. TypeOK
  <2>1. pending \in [NotificationAction -> Caller]
    BY DEF Init, Caller
  <2>2. decided \in [seen : Caller, handled : Caller]
    BY DEF Init, Caller, NoDecision
  <2>3. calls \in 0..MaxCalls /\ kills \in 0..MaxKills
    BY CallBoundsAssumption DEF Init
  <2> QED BY <2>1, <2>2, <2>3 DEF Init, TypeOK, Caller
<1>2. ExtrasMatchPrompt
  BY DEF Init, ExtrasMatchPrompt
<1>3. DecisionIsForTheCallerSeen
  BY DEF Init, DecisionIsForTheCallerSeen, NoDecision
<1> QED BY <1>1, <1>2, <1>3 DEF IInv

(* Every step keeps it.  A call replaces extras and notification together; *)
(* dismissing takes the notification away; nothing else touches either.    *)
LEMMA StepKeepsIInv == IInv /\ [Next]_vars => IInv'
<1> SUFFICES ASSUME IInv, [Next]_vars PROVE IInv'
  OBVIOUS
<1>1. TypeOK'
  BY StepTyped DEF IInv
<1> USE <1>1 DEF IInv
<1>2. ASSUME NEW c \in Callers, Show(c) PROVE IInv'
  <2>1. ExtrasMatchPrompt'
    BY <1>2 DEF Show, EnsureChannel, Posted, Extras, ExtrasMatchPrompt, TypeOK
  <2>2. DecisionIsForTheCallerSeen'
    BY <1>2 DEF Show, DecisionIsForTheCallerSeen
  <2> QED BY <2>1, <2>2
<1>3. CASE TapButton
  BY <1>3 DEF TapButton, Decide, Dismissed, ExtrasMatchPrompt, DecisionIsForTheCallerSeen
<1>4. ASSUME NEW d \in Decision, PressAction(d) PROVE IInv'
  <2>1. ExtrasMatchPrompt'
    BY <1>4 DEF PressAction, Decide, Dismissed, ExtrasMatchPrompt
  <2>2. pending[d] = prompt
    BY <1>4 DEF PressAction, ExtrasMatchPrompt, NotificationAction
  <2>3. DecisionIsForTheCallerSeen'
    BY <1>4, <2>2 DEF PressAction, Decide, DecisionIsForTheCallerSeen
  <2> QED BY <2>1, <2>3
<1>5. CASE Ring \/ LeaveScreen \/ AppStarts \/ OnStartCommand \/ Kill
  BY <1>5 DEF Ring, LeaveScreen, AppStarts, OnStartCommand, Kill,
              ExtrasMatchPrompt, DecisionIsForTheCallerSeen
<1>6. CASE GrantPermission
  BY <1>6 DEF GrantPermission, ExtrasMatchPrompt, DecisionIsForTheCallerSeen
<1>7. CASE UNCHANGED vars
  BY <1>7 DEF vars, ExtrasMatchPrompt, DecisionIsForTheCallerSeen
<1> QED BY <1>2, <1>3, <1>4, <1>5, <1>6, <1>7 DEF Next

-----------------------------------------------------------------------------
(* The invariant holds in every reachable state: the extras that a press   *)
(* on the notification will deliver name the caller it shows, across calls *)
(* that replace each other and across the death of the process.            *)
THEOREM Inductive == Spec => []IInv
BY InitEstablishesIInv, StepKeepsIInv, PTL DEF Spec

(* Every variable keeps its type.                                          *)
THEOREM TypeCorrect == Spec => []TypeOK
<1>1. IInv => TypeOK
  BY DEF IInv
<1> QED BY <1>1, Inductive, PTL

(* Whoever calls and however often, a decision that is handled is handled  *)
(* for the caller the user saw.                                            *)
THEOREM DecidesForTheCallerSeen == Spec => []DecisionIsForTheCallerSeen
<1>1. IInv => DecisionIsForTheCallerSeen
  BY DEF IInv
<1> QED BY <1>1, Inductive, PTL

=============================================================================
