----------------------------- MODULE MCKissFft ------------------------------
(***************************************************************************)
(* Values for TLC: modulo 8819, G generates the group of the 8820 = 4 * 9  *)
(* * 5 * 49 numbers of length 1.  Of each of the lengths in Small, which   *)
(* between them have every radix at every level, all unit inputs; of the   *)
(* frontend's 2205 a few; and for all lengths to 400 the factors only.     *)
(***************************************************************************)
EXTENDS KissFft

MCP == 8819

MCG == [r |-> 7056, i |-> 8819 - 3527]

MCUnit == [len \in {d \in 1..8820 : 8820 % d = 0} |-> Power(MCG, 8820 \div len)]

Small == {1, 2, 3, 4, 5, 6, 7, 9, 10, 12, 15, 18, 20, 21, 30, 35, 36, 60}

UnitInput(len, at, c) == [j \in 0..(len - 1) |-> IF j = at THEN c ELSE Cpx(0, 0)]

Inputs(len, positions) ==
  {UnitInput(len, at, c) : at \in positions, c \in {Cpx(1, 0), Cpx(0, 1)}}

MCJobs ==
  UNION {[nfft : {len}, inverse : BOOLEAN, fin : Inputs(len, 0..(len - 1))] : len \in Small}
    \cup [nfft : {2205}, inverse : {FALSE}, fin : {UnitInput(2205, 1, Cpx(1, 0)), UnitInput(2205, 1234, Cpx(1, 0))}]
    \cup [nfft : 1..400, inverse : {FALSE}, fin : {none}]
=============================================================================
