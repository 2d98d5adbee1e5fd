---------------------------- MODULE FrontendTest ----------------------------
(***************************************************************************)
(* util/FrontendTest.cpp: fills a frame with samples of a sine wave and    *)
(* gives it to Frontend::calculate.  One sample is followed.               *)
(***************************************************************************)
EXTENDS Frontend

CONSTANT Sines   \* values of (short) (32767 * sin(...)), of -32767..32767

VARIABLE s   \* the sample

LowByte(n) == n % 256
HighByte(n) == (n \div 256) % 256

\* in.at(i) = lsb; in.at(i+1) = msb;
Written(n) == <<LowByte(n), HighByte(n)>>

TestInit ==
  /\ Init
  /\ s \in Sines
  /\ call.size = getSampleSize
  /\ call.bytes = Written(s)

TestSpec == TestInit /\ [][Next /\ UNCHANGED s]_<<vars, s>>

\* "Give big endian 16-bit pcm" (Frontend.hpp): the frontend gets the
\* samples the test computed.
SineArrives == sample # null => sample = s
=============================================================================
