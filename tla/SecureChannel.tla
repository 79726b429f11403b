---------------------------- MODULE SecureChannel ----------------------------
(***************************************************************************)
(* What an established session promises to the two ends of a call: what    *)
(* one end decrypts is, in order and without gaps or repetitions, what the *)
(* other end encrypted.                                                    *)
(***************************************************************************)
EXTENDS Naturals, Sequences

CONSTANTS End, Peer(_), Plaintexts

VARIABLES sent, received

vars == <<sent, received>>

Init == sent = [e \in End |-> <<>>] /\ received = [e \in End |-> <<>>]

Send(e) ==
    /\ \E p \in Plaintexts : sent' = [sent EXCEPT ![e] = Append(@, p)]
    /\ UNCHANGED received

Receive(e) ==
    LET next == Len(received[e]) + 1 IN
    /\ next <= Len(sent[Peer(e)])
    /\ received' = [received EXCEPT ![e] = Append(@, sent[Peer(e)][next])]
    /\ UNCHANGED sent

Next == \E e \in End : Send(e) \/ Receive(e)

Spec == Init /\ [][Next]_vars

=============================================================================
