--------------------------- MODULE MCKeyBoundary ----------------------------
(* KeyBoundary for TLC: private and public keys that begin with a zero     *)
(* digit, and digits that have two cases.                                  *)
EXTENDS KeyBoundary

MCSecretsInOrder == << <<1>>, <<14>>, <<3>>, <<12>>, <<0>>, <<10>> >>

=============================================================================
