----------------------------- MODULE MCFrontend -----------------------------
(***************************************************************************)
(* Values for TLC: the table of Frontend.hpp with every coefficient; the   *)
(* pairs of bytes with five first bytes, at and around the change of sign; *)
(* and frames of other sizes, among them one sample short and twice too    *)
(* long.                                                                   *)
(***************************************************************************)
EXTENDS Frontend

MCBuckets == <<<<5, 1>>, <<5, 2>>, <<5, 4>>, <<5, 8>>, <<5, 16>>, <<5, 32>>,
               <<5, 64>>, <<3, 128>>, <<1, 84>>>>

MCCalls ==
  [size : {4410}, bytes : {<<0, 0>>}, coefficient : 0..1102]
    \cup [size : {4410}, bytes : {<<b, c>> : b \in {0, 1, 127, 128, 255}, c \in 0..255},
          coefficient : {0}]
    \cup [size : {0, 4408, 4409, 4411, 8820}, bytes : {<<1, 2>>}, coefficient : {7}]
=============================================================================
