--------------------------- MODULE MCEarpodModel ---------------------------
(***************************************************************************)
(* Values for TLC: bytes 0 and 1, frames of 3 bytes, calls of up to 4      *)
(* bytes (shorter, equal to and longer than a frame), and an nn.hpp of     *)
(* each kind: trained, the placeholder of the repository, and one trained  *)
(* for another number of features.                                         *)
(***************************************************************************)
EXTENDS EarpodModel

MCByte == {0, 1}
MCChunks == UNION {[1..n -> MCByte] : n \in 0..4}

Trained     == [W_H |-> <<2, 2>>, W_DH |-> <<2, 2>>, W_O |-> <<2, 3>>]
Placeholder == [W_H |-> <<0, 0>>, W_DH |-> <<0, 0>>, W_O |-> <<0, 0>>]
OtherBuckets == [W_H |-> <<3, 2>>, W_DH |-> <<2, 2>>, W_O |-> <<2, 3>>]
MCHeaders == {Trained, Placeholder, OtherBuckets}

\* Distinguishes frames by each position and has ties between all outputs.
MCOutput == [f \in [1..3 -> MCByte] |-> <<f[1], 1 - f[1] + f[2] - f[3], f[3]>>]
=============================================================================
