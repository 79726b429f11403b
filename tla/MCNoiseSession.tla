--------------------------- MODULE MCNoiseSession ---------------------------
(* NoiseSession for TLC: the model values its configurations use.          *)
EXTENDS NoiseSession, TLC

CONSTANTS t1, t2, offer, bye, long

(* Threads are interchangeable, and so are plaintexts of the same size.    *)
Symmetry == Permutations(Threads) \cup Permutations(Plaintexts \ Oversize)

(* The two directions of a session have a key and counters of their own,   *)
(* and the ends run the same code: one of them does most of the talking.   *)
ThreeAndOne == [e \in End |-> IF e = "initiator" THEN 3 ELSE 1]

OneDirection == [e \in End |-> IF e = "initiator" THEN 2 ELSE 0]

=============================================================================
