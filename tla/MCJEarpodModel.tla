--------------------------- MODULE MCJEarpodModel ---------------------------
(***************************************************************************)
(* Values for TLC: bytes of two bits, so that shorts run from -8 to 7;     *)
(* frames of two samples; arrays of up to four samples that differ in      *)
(* sign, in either byte and in the order of the bytes; a trained nn.hpp    *)
(* and the placeholder of the repository; two calls in a row.              *)
(***************************************************************************)
EXTENDS JEarpodModel

MCByte == 0..3
MCArrays == UNION {[1..n -> {-8, -1, 6}] : n \in 0..4}
MCChunks == {Encode(a) : a \in MCArrays}

Trained      == [W_H |-> <<2, 2>>, W_DH |-> <<2, 2>>, W_O |-> <<2, 3>>]
Placeholder  == [W_H |-> <<0, 0>>, W_DH |-> <<0, 0>>, W_O |-> <<0, 0>>]
MCHeaders == {Trained, Placeholder}

\* Tells samples apart by sign and size, and by their position.
MCNet == [s \in [1..2 -> -8..7] |-> <<s[1] - s[2], 2 * s[2] - s[1], 3>>]
MCOutput == [f \in [1..4 -> MCByte] |-> MCNet[Decoded(f)]]
=============================================================================
