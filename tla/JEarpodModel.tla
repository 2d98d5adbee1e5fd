---------------------------- MODULE JEarpodModel ----------------------------
(***************************************************************************)
(* JEarpodModel.read(samples) of the Android app: the Java method and the  *)
(* native readJni behind it (jni/jearpodmodel.cpp).  A call encodes the    *)
(* array of shorts into bytes, builds an EarpodModel of its own, gives it  *)
(* all bytes with read() and ends the stream with readEOF(); the tokens    *)
(* travel back to Java as numbers, through a table on either side.         *)
(*                                                                         *)
(* The object of the current call is the state machine of EarpodModel;     *)
(* what its network sees of a frame is what Frontend::calculate decodes.   *)
(***************************************************************************)
EXTENDS EarpodModel

CONSTANTS
  Base,       \* values of a byte: 256 in the code
  Arrays,     \* the arguments of read()
  Net,        \* the network's outputs for each frame of samples
  MaxCalls,   \* bound: calls of read()
  null

Short == -((Base * Base) \div 2)..((Base * Base) \div 2 - 1)

FrameSamples == SampleSize \div 2

\* The two conversions to unsigned char, of samples[i] and samples[i] >> 8.
Lsb(n) == n % Base
Msb(n) == (n \div Base) % Base

\* Mutant of Encode: the sample is written the way the machine stores it.
EncodeNative(a) ==
  [k \in 1..(2 * Len(a)) |->
     IF k % 2 = 1 THEN Lsb(a[(k + 1) \div 2]) ELSE Msb(a[(k + 1) \div 2])]

\* toSend: the more significant byte first.
Encode(a) ==
  [k \in 1..(2 * Len(a)) |->
     IF k % 2 = 1 THEN Msb(a[(k + 1) \div 2]) ELSE Lsb(a[(k + 1) \div 2])]

\* Frontend::calculate: a short of two bytes, the first of more weight.
ToShort(n) == IF n >= (Base * Base) \div 2 THEN n - Base * Base ELSE n
Decoded(f) == [i \in 1..FrameSamples |-> ToShort(f[2 * i - 1] * Base + f[2 * i])]

ASSUME JEarpodAssumption ==
  /\ Base \in Nat \ {0} /\ Base % 2 = 0
  /\ Byte = 0..(Base - 1) /\ Zero = 0
  /\ SampleSize % 2 = 0
  /\ Arrays \subseteq Seq(Short)
  /\ Net \in [[1..FrameSamples -> Short] -> [1..3 -> Int]]
  /\ Output = [f \in Frame |-> Net[Decoded(f)]]
  /\ Chunks = {Encode(a) : a \in Arrays}
  /\ \A a \in Arrays : 2 * Len(a) <= MaxBytes
  /\ MaxCalls \in Nat
  /\ null \notin Token \cup Seq(Token) \cup Seq(Short)

VARIABLES
  samples,   \* the argument of the last call, or null
  at,        \* where the call is: "java" (in no call), "built", "read",
             \* "flush", "convert", or "error" after an exception in Java
  jniRet,    \* the array of numbers
  ret,       \* the answer of the last call that returned, or null
  calls      \* calls of read() so far

callVars == <<samples, at, jniRet, ret, calls>>
allVars == <<mats_, buffer_, pc, returnedTokens, fed, out,
             samples, at, jniRet, ret, calls>>

CallInit ==
  /\ Init
  /\ samples = null
  /\ at = "java"
  /\ jniRet = <<>>
  /\ ret = null
  /\ calls = 0

-----------------------------------------------------------------------------
\* EarpodModel model; its matrices are those of the same nn.hpp each time.
NewModel ==
  /\ mats_' = mats_
  /\ buffer_' = <<>>
  /\ pc' = "idle"
  /\ returnedTokens' = <<>>
  /\ fed' = <<>>
  /\ out' = <<>>

\* A token's number, and the token of a number, or null for the exception.
TokenNumber(token) ==
  CASE token = "VOLUME_UP" -> 0
    [] token = "VOLUME_DOWN" -> 1
    [] token = "NOISE" -> 2

\* Mutant of NumberedToken: a token the enum of EarpodModel does not have.
NumberedOtherwise(n) ==
  CASE n = 0 -> "VOLUME_UP" [] n = 1 -> "VOLUME_DOWN" [] n = 2 -> "SILENCE" [] OTHER -> null

NumberedToken(n) ==
  CASE n = 0 -> "VOLUME_UP" [] n = 1 -> "VOLUME_DOWN" [] n = 2 -> "NOISE" [] OTHER -> null

\* read(samples), up to the construction of the object.
Call(a) ==
  /\ at = "java"
  /\ pc # "crashed"
  /\ calls < MaxCalls
  /\ calls' = calls + 1
  /\ samples' = a
  /\ NewModel
  /\ at' = "built"
  /\ UNCHANGED <<jniRet, ret>>

\* model.read(toSend)
CallRead ==
  /\ at = "built"
  /\ Read(Encode(samples))
  /\ at' = "read"
  /\ UNCHANGED <<samples, jniRet, ret, calls>>

\* model.readEOF(), which does nothing when the buffer is empty.
CallReadEOF ==
  /\ at = "read"
  /\ pc = "idle"
  /\ IF buffer_ = <<>> THEN UNCHANGED vars ELSE ReadEOF
  /\ at' = "flush"
  /\ UNCHANGED <<samples, jniRet, ret, calls>>

\* The loops of read() and of the read() in readEOF().
ModelRuns ==
  /\ at \in {"read", "flush"}
  /\ ClassifyFrame \/ RejectFrame \/ Return
  /\ UNCHANGED callVars

\* emRet and intRet.
ToNumbers ==
  /\ at = "flush"
  /\ pc = "idle"
  /\ jniRet' = [i \in DOMAIN out |-> TokenNumber(out[i])]
  /\ at' = "convert"
  /\ UNCHANGED <<vars, samples, ret, calls>>

\* JEarpodModel.read from the return of readJni() on.
ToTokens ==
  LET tokens == [i \in DOMAIN jniRet |-> NumberedToken(jniRet[i])] IN
  /\ at = "convert"
  /\ IF \E i \in DOMAIN jniRet : tokens[i] = null
       THEN at' = "error" /\ UNCHANGED ret
       ELSE at' = "java" /\ ret' = tokens
  /\ UNCHANGED <<vars, samples, jniRet, calls>>

CallNext ==
  \/ \E a \in Arrays : Call(a)
  \/ CallRead \/ CallReadEOF \/ ModelRuns \/ ToNumbers \/ ToTokens

CallSpec == CallInit /\ [][CallNext]_allVars

-----------------------------------------------------------------------------
(***************************************************************************)
(* Properties.                                                             *)
(***************************************************************************)

\* The declared types, with those of the object.
CallTypeOK ==
  /\ TypeOK
  /\ samples \in Arrays \cup {null}
  /\ at \in {"java", "built", "read", "flush", "convert", "error"}
  /\ jniRet \in Seq(Int)
  /\ ret \in Seq(Token) \cup {null}
  /\ calls \in 0..MaxCalls

\* The k-th frame of an array, completed with zeros, and how many it has.
FrameOf(a, k) ==
  [i \in 1..FrameSamples |->
     IF FrameSamples * (k - 1) + i <= Len(a) THEN a[FrameSamples * (k - 1) + i] ELSE 0]

FrameCount(a) == (Len(a) + FrameSamples - 1) \div FrameSamples

LabelsOf(a) == [k \in 1..FrameCount(a) |-> TokenOf(Net[FrameOf(a, k)])]

\* To a caller read() is the service that labels frames.  An exception in
\* Java ends a call like an answer.
Service == INSTANCE LabelService WITH
  Labels  <- [a \in Arrays |-> LabelsOf(a)],
  asked   <- samples,
  answer  <- ret,
  waiting <- at \notin {"java", "error"}

\* A call answers the labels of the frames of its own array, one each and
\* in order, the last one completed with silence: the network gets the very
\* numbers the microphone recorded, through the encoding in C++ and the
\* decoding in the frontend, and nothing of the call before.  "These mappings
\* match": no number is unknown to Java.  It is what MicRecorder assumes of
\* model_.read: a function of the array alone.
ImplementsLabelService == Service!Spec
=============================================================================
