--------------------------- MODULE MCSignalCodec ---------------------------
(* SignalCodec for TLC: texts whose lengths lie on both sides of what a    *)
(* one-byte and a two-byte length prefix can hold.                         *)
EXTENDS SignalCodec

Repeated(b, n) == [i \in 1..n |-> b]

Short == { <<>>, <<0>>, <<2>>, <<Base - 1, Base - 2>>, <<1, Base - 1, Base - 2>> }

MCTexts ==
    Short \cup { Repeated(0, n) : n \in {Base - 1, Base, U16 - 5, U16 - 4,
                                       U16 - 1, U16, U16 + 2} }

MCMids ==
    Short \cup { Repeated(1, n) : n \in {Base - 1, Base, Base + 1, Base + 3} }

MCMLineIndexes == {0, 1, Base, U16 - 2, U16 - 1}

=============================================================================
