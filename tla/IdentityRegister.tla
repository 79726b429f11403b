-------------------------- MODULE IdentityRegister --------------------------
(***************************************************************************)
(* What the identity store promises: one register per kind of identity,    *)
(* holding a whole key pair or nothing, in the running process and on      *)
(* disk.  A register that holds a pair changes only by being forgotten, or *)
(* by a restart, which brings back what reached the disk; the two kinds    *)
(* never affect each other.                                                *)
(***************************************************************************)
CONSTANTS Kind, Pair, None

VARIABLES loaded, durable

vars == <<loaded, durable>>

Init == loaded = [k \in Kind |-> None] /\ durable = [k \in Kind |-> None]

Fill(k) ==
    /\ loaded[k] = None
    /\ \E p \in Pair : loaded' = [loaded EXCEPT ![k] = p]
    /\ UNCHANGED durable

Forget(k) == loaded' = [loaded EXCEPT ![k] = None] /\ UNCHANGED durable

Flush == durable' = loaded /\ UNCHANGED loaded

Restart == loaded' = durable /\ UNCHANGED durable

Next == (\E k \in Kind : Fill(k) \/ Forget(k)) \/ Flush \/ Restart

Spec == Init /\ [][Next]_vars

=============================================================================
