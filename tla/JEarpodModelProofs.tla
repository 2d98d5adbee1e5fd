------------------------- MODULE JEarpodModelProofs -------------------------
(***************************************************************************)
(* Proofs about JEarpodModel for every width of the bytes, frame size,     *)
(* network and set of arrays: read() is the service that labels the frames *)
(* of its array.  They rest on the inductive invariant of EarpodModel, whose  *)
(* steps the calls are made of.                                            *)
(***************************************************************************)
EXTENDS JEarpodModel, EarpodModelProofs

(***************************************************************************)
(* Numbers and bytes.                                                      *)
(***************************************************************************)

\* Division with a positive divisor.
LEMMA Division ==
  ASSUME NEW n \in Int, NEW b \in Nat \ {0}
  PROVE  /\ n \div b \in Int /\ n % b \in 0..(b - 1)
         /\ n = b * (n \div b) + (n % b)
OBVIOUS

\* Nothing is lost between the bytes in C++ and the frontend's short.
LEMMA RoundTrip ==
  ASSUME NEW n \in Short
  PROVE  ToShort(Msb(n) * Base + Lsb(n)) = n
<1> DEFINE q == n \div Base
           r == n % Base
           h == (Base * Base) \div 2
           c == Base \div 2
<1>1. Base \in Nat \ {0} /\ Base = 2 * c /\ c \in Nat \ {0}
  BY JEarpodAssumption, Division
<1>2. h = 2 * (c * c) /\ Base * Base = 4 * (c * c) /\ c * c \in Nat \ {0}
  <2>1. Base * Base = 2 * (2 * (c * c)) /\ c * c \in Nat \ {0}
    BY <1>1
  <2> QED
    BY <2>1
<1>3. n \in Int /\ -h <= n /\ n < h
  BY <1>2 DEF Short
<1>4. q \in Int /\ r \in Int /\ 0 <= r /\ r < Base /\ n = Base * q + r
  BY <1>1, <1>3, Division
<1> HIDE DEF q, r, h, c
<1>5. -c <= q /\ q < c
  <2>1. ~(q < -c)
    <3> SUFFICES ASSUME q + 1 <= -c PROVE FALSE
      BY <1>1, <1>4
    <3>1. c * (q + 1) <= c * (-c)
      BY <1>1, <1>4
    <3>2. c * (q + 1) = c * q + c /\ c * (-c) = -(c * c) /\ Base * q = 2 * (c * q)
          /\ c * q \in Int
      BY <1>1, <1>4
    <3> QED
      BY <3>1, <3>2, <1>1, <1>2, <1>3, <1>4
  <2>2. ~(q >= c)
    <3> SUFFICES ASSUME q >= c PROVE FALSE
      OBVIOUS
    <3>1. c * q >= c * c /\ Base * q = 2 * (c * q) /\ c * q \in Int
      BY <1>1, <1>4
    <3> QED
      BY <3>1, <1>1, <1>2, <1>3, <1>4
  <2> QED
    BY <2>1, <2>2, <1>1, <1>4
<1>6. CASE q >= 0
  <2>1. q % Base = q
    BY <1>1, <1>4, <1>5, <1>6
  <2>2. Msb(n) * Base + Lsb(n) = n
    BY <2>1, <1>1, <1>4 DEF Msb, Lsb, q, r
  <2>3. ToShort(n) = n
    <3>1. ~(n >= (Base * Base) \div 2)
      BY <1>2, <1>3 DEF h
    <3> QED
      BY <3>1 DEF ToShort
  <2> QED
    BY <2>2, <2>3
<1>7. CASE q < 0
  <2>1. q % Base = q + Base
    BY <1>1, <1>4, <1>5, <1>7
  <2>2. Msb(n) * Base + Lsb(n) = (q + Base) * Base + r
    BY <2>1 DEF Msb, Lsb, q, r
  <2>3. (q + Base) * Base + r = n + Base * Base
    BY <1>1, <1>4
  <2>4. n + Base * Base >= h
    BY <1>2, <1>3
  <2> QED
    BY <2>2, <2>3, <2>4, <1>1, <1>3 DEF ToShort, h
<1> QED
  BY <1>4, <1>6, <1>7

\* The bytes of an array.
LEMMA EncodeFacts ==
  ASSUME NEW a \in Arrays
  PROVE  /\ Encode(a) \in Chunks /\ Encode(a) \in Seq(Byte)
         /\ Len(a) \in Nat /\ a \in Seq(Short)
         /\ Len(Encode(a)) = 2 * Len(a)
         /\ \A q \in 1..Len(a) : Encode(a)[2 * q - 1] = Msb(a[q]) /\ Encode(a)[2 * q] = Lsb(a[q])
<1>1. Encode(a) \in Chunks /\ Encode(a) \in Seq(Byte) /\ a \in Seq(Short)
  BY JEarpodAssumption, EarpodAssumption
<1>2. Len(a) \in Nat /\ Len(Encode(a)) = 2 * Len(a)
  BY <1>1 DEF Encode
<1>3. ASSUME NEW q \in 1..Len(a)
      PROVE  Encode(a)[2 * q - 1] = Msb(a[q]) /\ Encode(a)[2 * q] = Lsb(a[q])
  <2>1. /\ 2 * q - 1 \in 1..(2 * Len(a)) /\ 2 * q \in 1..(2 * Len(a))
        /\ (2 * q - 1) % 2 = 1 /\ (2 * q) % 2 = 0
        /\ ((2 * q - 1) + 1) \div 2 = q /\ (2 * q) \div 2 = q
    BY <1>2
  <2>2. (2 * q + 1) \div 2 = q
    BY <1>2
  <2> QED
    BY <2>1, <2>2 DEF Encode
<1> QED
  BY <1>1, <1>2, <1>3

\* Java reads the tokens C++ has written.
LEMMA TokenTable == ASSUME NEW t \in Token PROVE NumberedToken(TokenNumber(t)) = t /\ TokenNumber(t) \in Int
BY DEF Token, TokenNumber, NumberedToken

(***************************************************************************)
(* What the object has been given, and what that makes the answer.         *)
(***************************************************************************)

\* The bytes of the array, and zeros for less than a frame.
Filled(s, a) ==
  /\ s \in Seq(Byte)
  /\ 2 * Len(a) <= Len(s) /\ Len(s) < 2 * Len(a) + SampleSize
  /\ \A k \in 1..Len(s) : s[k] = IF k <= 2 * Len(a) THEN Encode(a)[k] ELSE Zero

\* A frame has half as many samples as bytes.
LEMMA HalfFrame == /\ FrameSamples \in Nat \ {0} /\ SampleSize = 2 * FrameSamples
                   /\ \A n \in Nat : FrameSamples * n \in Nat /\ SampleSize * n = 2 * (FrameSamples * n)
<1>1. FrameSamples \in Nat \ {0} /\ SampleSize = 2 * FrameSamples
  BY JEarpodAssumption, EarpodAssumption, Division DEF FrameSamples
<1> HIDE DEF FrameSamples
<1>2. ASSUME NEW n \in Nat PROVE FrameSamples * n \in Nat /\ SampleSize * n = 2 * (FrameSamples * n)
  BY <1>1
<1> QED
  BY <1>1, <1>2

\* The frontend decodes the k-th frame of the bytes to the k-th of the array.
LEMMA DecodedFrame ==
  ASSUME NEW a \in Arrays, NEW s, Filled(s, a), NEW k \in Nat \ {0}, SampleSize * k <= Len(s)
  PROVE  FrameAt(s, k) \in Frame /\ Decoded(FrameAt(s, k)) = FrameOf(a, k)
<1> DEFINE p == FrameSamples * (k - 1)
           f == FrameAt(s, k)
<1>1. /\ p \in Nat /\ SampleSize * (k - 1) = 2 * p /\ FrameSamples \in Nat \ {0}
      /\ SampleSize = 2 * FrameSamples /\ SampleSize * k = 2 * p + SampleSize
  <2>1. k - 1 \in Nat /\ (k - 1) + 1 = k
    OBVIOUS
  <2>2. SampleSize * ((k - 1) + 1) = SampleSize * (k - 1) + SampleSize
    BY <2>1, FrameArith
  <2> QED
    BY <2>1, <2>2, HalfFrame
<1> HIDE DEF p
<1>2. s \in Seq(Byte) /\ Len(s) \in Nat /\ 2 * p + SampleSize <= Len(s)
  BY <1>1 DEF Filled
<1>3. f = SubSeq(s, 2 * p + 1, 2 * p + SampleSize)
  BY <1>1 DEF FrameAt
<1>4. f \in Frame /\ \A i \in 1..SampleSize : f[i] = s[2 * p + i]
  <2>1. 2 * p + 1 \in Nat \ {0} /\ 2 * p + SampleSize \in Nat /\ SampleSize \in Nat \ {0}
    BY <1>1, EarpodAssumption
  <2> DEFINE lo == 2 * p + 1
             hi == 2 * p + SampleSize
  <2>6. lo \in Nat \ {0} /\ hi \in Nat /\ hi <= Len(s) /\ lo <= hi + 1 /\ f = SubSeq(s, lo, hi)
    BY <1>1, <1>2, <1>3, <2>1
  <2>3. hi - lo + 1 = SampleSize
    BY <2>1, <1>1
  <2>7. \A i \in Int : lo + i - 1 = 2 * p + i
    BY <1>1
  <2> HIDE DEF lo, hi, f
  <2>2. /\ f \in Seq(Byte) /\ Len(f) = hi - lo + 1
        /\ \A i \in 1..(hi - lo + 1) : f[i] = s[lo + i - 1]
    BY <1>2, <2>6, SubSeqFacts
  <2>4. f \in Frame
    BY <2>2, <2>3, <2>1 DEF Frame
  <2>5. ASSUME NEW i \in 1..SampleSize PROVE f[i] = s[2 * p + i]
    <3>1. lo + i - 1 = 2 * p + i
      BY <2>7
    <3> QED
      BY <3>1, <2>2, <2>3
  <2> QED
    BY <2>4, <2>5
<1> HIDE DEF f
<1>5. ASSUME NEW i \in 1..FrameSamples
      PROVE  ToShort(f[2 * i - 1] * Base + f[2 * i]) = IF p + i <= Len(a) THEN a[p + i] ELSE 0
  <2>1. /\ 2 * i - 1 \in 1..SampleSize /\ 2 * i \in 1..SampleSize
        /\ 2 * p + (2 * i - 1) = 2 * (p + i) - 1 /\ 2 * p + 2 * i = 2 * (p + i)
        /\ p + i \in Nat \ {0}
        /\ 2 * (p + i) - 1 \in 1..Len(s) /\ 2 * (p + i) \in 1..Len(s)
    BY <1>1, <1>2
  <2>2. f[2 * i - 1] = s[2 * (p + i) - 1] /\ f[2 * i] = s[2 * (p + i)]
    BY <2>1, <1>4
  <2>3. CASE p + i <= Len(a)
    <3>1. /\ p + i \in 1..Len(a) /\ a[p + i] \in Short
          /\ 2 * (p + i) - 1 <= 2 * Len(a) /\ 2 * (p + i) <= 2 * Len(a)
      BY <2>1, <2>3, EncodeFacts
    <3>2. f[2 * i - 1] = Msb(a[p + i]) /\ f[2 * i] = Lsb(a[p + i])
      BY <3>1, <2>1, <2>2, EncodeFacts DEF Filled
    <3> QED
      BY <3>1, <3>2, <2>3, RoundTrip
  <2>4. CASE ~(p + i <= Len(a))
    <3>1. ~(2 * (p + i) - 1 <= 2 * Len(a)) /\ ~(2 * (p + i) <= 2 * Len(a))
      BY <2>1, <2>4, EncodeFacts
    <3>2. f[2 * i - 1] = 0 /\ f[2 * i] = 0
      BY <3>1, <2>1, <2>2, JEarpodAssumption DEF Filled
    <3>3. 0 * Base + 0 = 0 /\ ToShort(0) = 0
      <4>1. Base * Base \in Nat /\ Base * Base >= 2
        <5> DEFINE c == Base \div 2
        <5>1. Base \in Nat \ {0} /\ Base % 2 = 0 /\ 2 \in Nat \ {0}
          BY JEarpodAssumption
        <5>2. Base = 2 * c + (Base % 2) /\ c \in Int
          BY <5>1, Division
        <5>3. Base >= 2
          BY <5>1, <5>2
        <5>4. Base * Base >= 2 * Base /\ Base * Base \in Nat
          BY <5>1, <5>3
        <5> QED
          BY <5>1, <5>3, <5>4
      <4>2. (Base * Base) \div 2 > 0
        BY <4>1
      <4> QED
        BY <4>2, JEarpodAssumption DEF ToShort
    <3> QED
      BY <3>2, <3>3, <2>4
  <2> QED
    BY <2>3, <2>4
<1>6. Decoded(f) = [i \in 1..FrameSamples |-> IF p + i <= Len(a) THEN a[p + i] ELSE 0]
  BY <1>5 DEF Decoded
<1> QED
  BY <1>4, <1>6 DEF FrameOf, p, f

\* As many tokens as frames, the last one perhaps not full, each its label.
Answers(a, tokens) ==
  /\ FrameSamples * Len(tokens) >= Len(a)
  /\ FrameSamples * Len(tokens) < Len(a) + FrameSamples
  /\ \A k \in DOMAIN tokens : tokens[k] = TokenOf(Net[FrameOf(a, k)])

\* There is one such sequence.
LEMMA AnswersAreLabels ==
  ASSUME NEW a \in Arrays, NEW tokens \in Seq(Token), Answers(a, tokens)
  PROVE  tokens = LabelsOf(a)
<1> DEFINE b == FrameSamples
           x == Len(a) + b - 1
           l == Len(tokens)
           q == x \div b
           c == x % b
<1>1. b \in Nat \ {0} /\ l \in Nat /\ Len(a) \in Nat /\ x \in Nat
  <2>1. a \in Seq(Short)
    BY JEarpodAssumption
  <2>2. Len(a) \in Nat /\ b \in Nat \ {0}
    BY <2>1, HalfFrame
  <2> QED
    BY <2>2
<1>2. b * l >= Len(a) /\ b * l < Len(a) + b
  BY DEF Answers
<1>3. q \in Int /\ c \in 0..(b - 1) /\ x = b * q + c
  <2> HIDE DEF b, x
  <2> QED
    BY <1>1, Division
<1>4. b * l <= x /\ x < b * l + b
  BY <1>1, <1>2
<1> HIDE DEF b, x, l, q, c
<1>5. q = l
  <2>1. ASSUME q < l PROVE FALSE
    <3>1. l = q + (l - q) /\ l - q \in Nat \ {0}
      BY <2>1, <1>1, <1>3
    <3>2. b * (l - q) >= b
      BY <3>1, <1>1
    <3>3. b * l = b * q + b * (l - q)
      BY <1>1, <1>3
    <3> QED
      BY <3>2, <3>3, <1>1, <1>3, <1>4
  <2>2. ASSUME q > l PROVE FALSE
    <3>1. q - l \in Nat \ {0}
      BY <2>2, <1>1, <1>3
    <3>2. b * (q - l) >= b
      BY <3>1, <1>1
    <3>3. b * q = b * l + b * (q - l)
      BY <1>1, <1>3
    <3> QED
      BY <3>2, <3>3, <1>1, <1>3, <1>4
  <2> QED
    BY <2>1, <2>2, <1>1, <1>3
<1>6. FrameCount(a) = Len(tokens)
  BY <1>5 DEF FrameCount, q, x, b, l
<1>7. DOMAIN tokens = 1..FrameCount(a) /\ tokens = [k \in DOMAIN tokens |-> tokens[k]]
  BY <1>6
<1>8. \A k \in 1..FrameCount(a) : tokens[k] = TokenOf(Net[FrameOf(a, k)])
  BY <1>7 DEF Answers
<1> QED
  BY <1>7, <1>8 DEF LabelsOf

\* When all frames of the bytes are answered the tokens answer the array.
LEMMA AnswersFollow ==
  ASSUME IInv, pc = "idle", buffer_ = <<>>, NEW a \in Arrays, Filled(fed, a)
  PROVE  Answers(a, out)
<1>1. /\ fed \in Seq(Byte) /\ out \in Seq(Token) /\ returnedTokens = <<>>
      /\ Len(out) \in Nat /\ Len(fed) \in Nat
  BY DEF IInv, TypeOK
<1>2. Answered = Len(out) /\ Taken = Len(out)
  BY <1>1 DEF Answered, Taken
<1> DEFINE m == SampleSize * Len(out)
<1>3. m \in Nat /\ m <= Len(fed) /\ buffer_ = SubSeq(fed, m + 1, Len(fed))
  BY <1>1, <1>2, FrameArith DEF IInv, NothingLost
<1> HIDE DEF m
<1>4. Len(fed) = m
  <2>1. Len(SubSeq(fed, m + 1, Len(fed))) = Len(fed) - (m + 1) + 1
    <3>1. m + 1 \in Nat \ {0} /\ m + 1 <= Len(fed) + 1
      BY <1>1, <1>3
    <3> QED
      BY <1>1, <3>1, SubSeqFacts
  <2>2. Len(SubSeq(fed, m + 1, Len(fed))) = 0
    BY <1>3
  <2> QED
    BY <2>1, <2>2, <1>1, <1>3
<1>5. m = 2 * (FrameSamples * Len(out)) /\ FrameSamples * Len(out) \in Nat
      /\ SampleSize = 2 * FrameSamples /\ FrameSamples \in Nat
  BY <1>1, HalfFrame DEF m
<1>6. FrameSamples * Len(out) >= Len(a) /\ FrameSamples * Len(out) < Len(a) + FrameSamples
  BY <1>4, <1>5, <1>1, EncodeFacts DEF Filled
<1>7. ASSUME NEW k \in DOMAIN out PROVE out[k] = TokenOf(Net[FrameOf(a, k)])
  <2>1. k \in Nat \ {0} /\ k <= Len(out) /\ k \in 1..Answered
    BY <1>1, <1>2
  <2>2. SampleSize * k <= Len(fed)
    BY <2>1, <1>1, <1>4, FrameMonotone DEF m
  <2>3. FrameAt(fed, k) \in Frame /\ Decoded(FrameAt(fed, k)) = FrameOf(a, k)
    BY <2>1, <2>2, DecodedFrame
  <2>4. (out \o returnedTokens)[k] = out[k]
    BY <1>1
  <2>5. out[k] = TokenOf(Output[FrameAt(fed, k)])
    BY <2>1, <2>4 DEF IInv, TokensLabelFrames
  <2>6. Output[FrameAt(fed, k)] = Net[Decoded(FrameAt(fed, k))]
    BY <2>3, JEarpodAssumption
  <2> QED
    BY <2>3, <2>5, <2>6
<1> QED
  BY <1>6, <1>7 DEF Answers

(***************************************************************************)
(* The calls.                                                              *)
(***************************************************************************)

\* Where a call is, what the object has been given by then.
InCall ==
  /\ at # "java" => samples \in Arrays
  /\ at = "java" => pc = "idle"
  /\ at = "built" => pc = "idle" /\ fed = <<>> /\ buffer_ = <<>>
  /\ at = "read" => pc \in {"idle", "read", "crashed"} /\ Filled(fed, samples)
                    /\ fed = Encode(samples)
  /\ at = "flush" => /\ pc \in {"idle", "readEOF", "crashed"} /\ Filled(fed, samples)
                     /\ pc = "idle" => buffer_ = <<>>
  /\ at = "convert" => /\ Answers(samples, out)
                       /\ jniRet = [i \in DOMAIN out |-> TokenNumber(out[i])]
                       /\ pc = "idle"
  /\ at # "error"

CallInv == IInv /\ CallTypeOK /\ InCall

\* In no call, nothing is known of the arrays.
LEMMA CallInvInit == CallInit => CallInv
<1> SUFFICES ASSUME CallInit PROVE CallInv
  OBVIOUS
<1>1. IInv
  BY InvInit DEF CallInit
<1>2. jniRet = <<>> /\ <<>> \in Seq(Int)
  BY DEF CallInit
<1>3. CallTypeOK
  BY <1>1, <1>2, JEarpodAssumption DEF CallInit, CallTypeOK, IInv
<1>4. InCall
  BY DEF CallInit, Init, InCall
<1> QED
  BY <1>1, <1>3, <1>4 DEF CallInv

\* What the object does in a call is a step of EarpodModel or a new object.
LEMMA ObjectStep == CallInv /\ [CallNext]_allVars => IInv'
<1> SUFFICES ASSUME CallInv, [CallNext]_allVars PROVE IInv'
  OBVIOUS
<1>0. IInv /\ mats_ \in Headers
  BY DEF CallInv, IInv, TypeOK
<1>1. ASSUME NEW a \in Arrays, Call(a) PROVE IInv'
  <2>1. Init'
    BY <1>0, <1>1 DEF Call, NewModel, Init
  <2> QED
    BY <2>1, InvInit, PTL
<1>2. CASE [Next]_vars
  BY <1>0, <1>2, InvStep
<1>3. CASE CallRead
  <2>1. samples \in Arrays /\ Read(Encode(samples))
    BY <1>3 DEF CallRead, CallInv, InCall
  <2>2. Next
    BY <2>1, EncodeFacts DEF Next
  <2> QED
    BY <2>2, <1>2
<1>4. CASE CallReadEOF
  BY <1>2, <1>4 DEF CallReadEOF, Next
<1>5. CASE ModelRuns
  BY <1>2, <1>5 DEF ModelRuns, Next
<1>6. CASE ToNumbers
  BY <1>2, <1>6 DEF ToNumbers
<1>7. CASE ToTokens
  BY <1>2, <1>7 DEF ToTokens
<1>8. CASE UNCHANGED allVars
  BY <1>2, <1>8 DEF allVars, vars
<1> QED
  BY <1>1, <1>3, <1>4, <1>5, <1>6, <1>7, <1>8 DEF CallNext

\* The bytes of the array alone.
LEMMA FilledByArray == ASSUME NEW a \in Arrays PROVE Filled(Encode(a), a)
BY EncodeFacts, EarpodAssumption DEF Filled

\* The zeros of readEOF() complete a frame.
LEMMA FilledByZeros ==
  ASSUME NEW a \in Arrays, NEW n \in Nat, n < SampleSize
  PROVE  Filled(Encode(a) \o Zeros(n), a)
<1>1. /\ Encode(a) \in Seq(Byte) /\ Len(Encode(a)) = 2 * Len(a) /\ Len(a) \in Nat
      /\ Zeros(n) \in Seq(Byte) /\ Len(Zeros(n)) = n
  BY EncodeFacts, ZerosType
<1> DEFINE e == Encode(a)
           z == Zeros(n)
           s == e \o z
<1>2. \A i \in 1..n : z[i] = Zero
  BY DEF Zeros
<1> HIDE DEF e, z
<1>3. s \in Seq(Byte) /\ Len(s) = 2 * Len(a) + n
  BY <1>1 DEF e, z
<1>4. ASSUME NEW k \in 1..Len(s)
      PROVE  s[k] = IF k <= 2 * Len(a) THEN e[k] ELSE Zero
  <2>1. CASE k <= 2 * Len(a)
    BY <2>1, <1>1, <1>3 DEF e, z
  <2>2. CASE ~(k <= 2 * Len(a))
    <3>1. k - 2 * Len(a) \in 1..n /\ s[k] = z[k - Len(e)] /\ Len(e) = 2 * Len(a)
      BY <2>2, <1>1, <1>3 DEF e, z
    <3> QED
      BY <3>1, <2>2, <1>2
  <2> QED
    BY <2>1, <2>2
<1>5. Len(s) \in Nat /\ 2 * Len(a) <= Len(s) /\ Len(s) < 2 * Len(a) + SampleSize
  BY <1>1, <1>3, EarpodAssumption
<1> HIDE DEF s
<1>6. Filled(s, a)
  BY <1>3, <1>4, <1>5 DEF Filled, e
<1> QED
  BY <1>6 DEF s, e, z

\* What the native side numbered Java names the same.
LEMMA TablesMatch ==
  ASSUME CallInv, ToTokens
  PROVE  /\ at = "convert" /\ samples \in Arrays /\ Answers(samples, out)
         /\ out \in Seq(Token) /\ pc = "idle"
         /\ at' = "java" /\ ret' = out
         /\ UNCHANGED <<samples, jniRet, calls>> /\ UNCHANGED vars
<1> DEFINE tokens == [i \in DOMAIN jniRet |-> NumberedToken(jniRet[i])]
<1>1. /\ at = "convert" /\ samples \in Arrays /\ Answers(samples, out) /\ pc = "idle"
      /\ jniRet = [i \in DOMAIN out |-> TokenNumber(out[i])]
      /\ UNCHANGED <<samples, jniRet, calls>> /\ UNCHANGED vars
  BY DEF ToTokens, CallInv, InCall
<1>2. out \in Seq(Token) /\ DOMAIN out = 1..Len(out) /\ Len(out) \in Nat
  BY DEF CallInv, IInv, TypeOK
<1>3. \A i \in DOMAIN out : out[i] \in Token /\ NumberedToken(TokenNumber(out[i])) = out[i]
  BY <1>2, TokenTable
<1>4. tokens = out
  BY <1>1, <1>2, <1>3
<1>5. \A i \in DOMAIN jniRet : tokens[i] # null
  <2>1. null \notin Token
    BY JEarpodAssumption
  <2> QED
    BY <1>1, <1>3, <1>4, <2>1
<1>6. at' = "java" /\ ret' = out
  BY <1>4, <1>5 DEF ToTokens
<1> QED
  BY <1>1, <1>2, <1>6

\* Every action keeps the types, and what is known of the call in progress.
LEMMA CallStep == CallInv /\ [CallNext]_allVars => CallTypeOK' /\ InCall'
<1> SUFFICES ASSUME CallInv, [CallNext]_allVars PROVE CallTypeOK' /\ InCall'
  OBVIOUS
<1>0. IInv' /\ TypeOK'
  BY ObjectStep DEF IInv
<1>a. IInv /\ TypeOK /\ CallTypeOK /\ InCall
  BY DEF CallInv, IInv
<1>1. ASSUME NEW a \in Arrays, Call(a) PROVE CallTypeOK' /\ InCall'
  <2>1. CallTypeOK'
    BY <1>0, <1>a, <1>1, JEarpodAssumption DEF Call, CallTypeOK
  <2>2. InCall'
    BY <1>1 DEF Call, NewModel, InCall
  <2> QED
    BY <2>1, <2>2
<1>2. CASE CallRead
  <2>1. samples \in Arrays /\ fed = <<>> /\ pc' = "read" /\ at' = "read"
        /\ UNCHANGED <<samples, jniRet, ret, calls>>
        /\ fed' = fed \o Encode(samples)
    BY <1>a, <1>2 DEF CallRead, Read, BeginRead, InCall
  <2>2. fed' = Encode(samples)
    BY <2>1, EncodeFacts
  <2>3. Filled(fed', samples')
    BY <2>1, <2>2, FilledByArray
  <2>4. InCall'
    BY <2>1, <2>2, <2>3 DEF InCall, Encode
  <2> QED
    BY <1>0, <1>a, <2>1, <2>4 DEF CallTypeOK
<1>3. CASE CallReadEOF
  <2>1. samples \in Arrays /\ Filled(fed, samples) /\ fed = Encode(samples) /\ pc = "idle"
        /\ at' = "flush" /\ UNCHANGED <<samples, jniRet, ret, calls>>
    BY <1>a, <1>3 DEF CallReadEOF, InCall
  <2>2. CASE buffer_ = <<>> /\ UNCHANGED vars
    BY <1>0, <1>a, <2>1, <2>2 DEF InCall, CallTypeOK, vars, Filled, Encode
  <2>3. CASE buffer_ # <<>> /\ ReadEOF
    <3> DEFINE n == SampleSize - Len(buffer_)
    <3>1. n \in Nat /\ n < SampleSize
      <4>1. buffer_ \in Seq(Byte) /\ Len(buffer_) < SampleSize
        BY <1>a, <2>1 DEF IInv, ShortBetweenCalls, TypeOK
      <4> QED
        BY <4>1, <2>3, EarpodAssumption
    <3>2. pc' = "readEOF" /\ fed' = Encode(samples) \o Zeros(n)
      BY <2>1, <2>3 DEF ReadEOF, BeginRead
    <3> HIDE DEF n
    <3>3. Filled(fed', samples')
      BY <2>1, <3>1, <3>2, FilledByZeros
    <3>4. InCall'
      BY <2>1, <3>2, <3>3 DEF InCall
    <3> QED
      BY <1>0, <1>a, <2>1, <3>4 DEF CallTypeOK
  <2> QED
    BY <1>3, <2>2, <2>3 DEF CallReadEOF
<1>4. CASE ModelRuns
  <2>1. at \in {"read", "flush"} /\ UNCHANGED <<samples, at, jniRet, ret, calls>>
        /\ samples \in Arrays /\ Filled(fed, samples)
    BY <1>a, <1>4 DEF ModelRuns, callVars, InCall
  <2>2. fed' = fed /\ (pc' = pc \/ pc' = "idle" \/ pc' = "crashed")
    BY <1>4 DEF ModelRuns, ClassifyFrame, RejectFrame, Return
  <2>3. at = "flush" /\ pc' = "idle" => buffer_' = <<>>
    <3> SUFFICES ASSUME at = "flush", pc' = "idle" PROVE buffer_' = <<>>
      OBVIOUS
    <3>1. pc = "readEOF" /\ Return
      <4>0. pc \in {"idle", "readEOF", "crashed"}
        BY <1>a DEF InCall
      <4>1. CASE ClassifyFrame
        BY <4>0, <4>1 DEF ClassifyFrame, InRead
      <4>2. CASE RejectFrame
        BY <4>2 DEF RejectFrame
      <4>3. CASE Return
        BY <4>0, <4>3 DEF Return, InRead
      <4> QED
        BY <1>4, <4>1, <4>2, <4>3 DEF ModelRuns
    <3> QED
      BY <3>1, <1>a, EarpodAssumption DEF IInv, FlushProgress, Return, HasFrame
  <2>4. Filled(fed', samples')
    BY <2>1, <2>2
  <2>5. Encode(samples)' = Encode(samples)
    BY <2>1 DEF Encode
  <2>6. InCall'
    <3>1. CASE at = "read"
      <4>1. fed = Encode(samples) /\ pc' \in {"idle", "read", "crashed"}
        BY <1>a, <2>2, <3>1 DEF InCall
      <4> QED
        BY <3>1, <4>1, <2>1, <2>2, <2>4, <2>5 DEF InCall
    <3>2. CASE at = "flush"
      <4>1. pc' \in {"idle", "readEOF", "crashed"}
        BY <1>a, <2>2, <3>2 DEF InCall
      <4> QED
        BY <3>2, <4>1, <2>1, <2>3, <2>4 DEF InCall
    <3> QED
      BY <2>1, <3>1, <3>2
  <2> QED
    BY <1>0, <1>a, <2>1, <2>6 DEF CallTypeOK
<1>5. CASE ToNumbers
  <2>1. /\ samples \in Arrays /\ Filled(fed, samples) /\ buffer_ = <<>> /\ pc = "idle"
        /\ at' = "convert" /\ UNCHANGED <<samples, ret, calls>> /\ UNCHANGED vars
        /\ jniRet' = [i \in DOMAIN out |-> TokenNumber(out[i])]
    BY <1>a, <1>5 DEF ToNumbers, InCall
  <2>2. Answers(samples, out)
    BY <1>a, <2>1, AnswersFollow
  <2>3. out' = out /\ pc' = pc
    BY <2>1 DEF vars
  <2>4. Answers(samples', out')
    BY <2>1, <2>2, <2>3
  <2>5. InCall'
    BY <2>1, <2>3, <2>4 DEF InCall
  <2>6. jniRet' \in Seq(Int)
    <3>1. out \in Seq(Token) /\ Len(out) \in Nat /\ DOMAIN out = 1..Len(out)
      BY <1>a DEF TypeOK
    <3>2. \A i \in 1..Len(out) : TokenNumber(out[i]) \in Int
      BY <3>1, TokenTable
    <3> QED
      BY <2>1, <3>1, <3>2
  <2> QED
    BY <1>0, <1>a, <2>1, <2>5, <2>6 DEF CallTypeOK
<1>6. CASE ToTokens
  <2>1. /\ pc = "idle" /\ out \in Seq(Token) /\ at' = "java" /\ ret' = out
        /\ UNCHANGED <<samples, jniRet, calls>> /\ UNCHANGED vars
    BY <1>6, TablesMatch
  <2>2. InCall'
    BY <2>1 DEF InCall, vars
  <2> QED
    BY <1>0, <1>a, <2>1, <2>2 DEF CallTypeOK
<1>7. CASE UNCHANGED allVars
  BY <1>0, <1>a, <1>7 DEF allVars, CallTypeOK, InCall, Encode, Filled, Answers
<1> QED
  BY <1>1, <1>2, <1>3, <1>4, <1>5, <1>6, <1>7 DEF CallNext

(***************************************************************************)
(* The theorems.                                                           *)
(***************************************************************************)

\* The invariant: where a call is and what its object has been given by then.
THEOREM CallInvHolds == CallSpec => []CallInv
<1>1. CallInv /\ [CallNext]_allVars => CallInv'
  BY ObjectStep, CallStep DEF CallInv
<1> QED
  BY <1>1, CallInvInit, PTL DEF CallSpec

\* The types of the call's locals and of the object in it.
THEOREM CallTypeCorrect == CallSpec => []CallTypeOK
<1>1. CallInv => CallTypeOK
  BY DEF CallInv
<1> QED
  BY <1>1, CallInvHolds, PTL

\* Every step of a call is a question, its answer or of no concern to the
\* caller.
LEMMA ServiceStep ==
  ASSUME CallInv, [CallNext]_allVars
  PROVE  [Service!Next]_(Service!vars)
<1> DEFINE waiting == at \notin {"java", "error"}
<1>1. ASSUME NEW a \in Arrays, Call(a) PROVE Service!Ask(a)
  BY <1>1 DEF Call, Service!Ask
<1>2. CASE ToTokens
  <2>1. /\ at = "convert" /\ at' = "java" /\ samples \in Arrays /\ samples' = samples
        /\ ret' = LabelsOf(samples)
    BY <1>2, TablesMatch, AnswersAreLabels
  <2>2. ret' = [a \in Arrays |-> LabelsOf(a)][samples]
    BY <2>1
  <2> QED
    BY <2>1, <2>2 DEF Service!Reply, Service!Next
<1>3. CASE CallRead \/ CallReadEOF \/ ModelRuns \/ ToNumbers \/ UNCHANGED allVars
  <2>1. samples' = samples /\ ret' = ret /\ waiting' = waiting
    BY <1>3 DEF CallRead, CallReadEOF, ModelRuns, ToNumbers, callVars, allVars
  <2> QED
    BY <2>1 DEF Service!vars
<1> QED
  BY <1>1, <1>2, <1>3 DEF CallNext, Service!Next

\* read() implements the service: the answer of a call is the labels of the
\* frames of its own array, through both conversions and whatever the calls
\* before were.
THEOREM CallsAreServed == CallSpec => ImplementsLabelService
<1>1. CallInit => Service!Init
  BY DEF CallInit, Service!Init
<1>2. CallInv /\ [CallNext]_allVars => [Service!Next]_(Service!vars)
  BY ServiceStep
<1> QED
  BY <1>1, <1>2, CallInvHolds, PTL DEF CallSpec, ImplementsLabelService, Service!Spec
=============================================================================
