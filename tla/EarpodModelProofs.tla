------------------------- MODULE EarpodModelProofs -------------------------
(***************************************************************************)
(* Proofs about EarpodModel for every frame size, byte set, network and    *)
(* set of arguments: its types, the invariants that tie buffer_ and the    *)
(* tokens to the stream, and that it implements TokenStream.               *)
(***************************************************************************)
EXTENDS EarpodModel, SequenceTheorems, TLAPS

(***************************************************************************)
(* The types.                                                              *)
(***************************************************************************)

\* Padding is a sequence of bytes of the requested length.
LEMMA ZerosType ==
  ASSUME NEW n \in Nat
  PROVE  Zeros(n) \in Seq(Byte) /\ Len(Zeros(n)) = n
BY EarpodAssumption DEF Zeros

\* The three-way branch on max_element always ends in one of the tokens.
LEMMA TokenOfType == ASSUME NEW v PROVE TokenOf(v) \in Token
BY DEF TokenOf, Token

\* Cutting a frame off the front leaves a sequence of bytes.
LEMMA TakeFrameType ==
  ASSUME NEW b \in Seq(Byte), Len(b) >= SampleSize
  PROVE  /\ SubSeq(b, SampleSize + 1, Len(b)) \in Seq(Byte)
         /\ SubSeq(b, 1, SampleSize) \in Seq(Byte)
BY EarpodAssumption

\* The initial values have their types.
LEMMA TypeInit == Init => TypeOK
BY DEF Init, TypeOK

\* Every action keeps the types; readEOF() pads by less than a frame.
LEMMA TypeStep == TypeOK /\ ShortBetweenCalls /\ [Next]_vars => TypeOK'
<1> SUFFICES ASSUME TypeOK, ShortBetweenCalls, [Next]_vars PROVE TypeOK'
  OBVIOUS
<1> USE DEF TypeOK
<1>1. ASSUME NEW data \in Chunks, Read(data) PROVE TypeOK'
  BY <1>1, EarpodAssumption DEF Read, BeginRead, Inserted
<1>2. CASE ReadEOF
  <2>1. SampleSize - Len(buffer_) \in Nat
    BY <1>2, EarpodAssumption DEF ReadEOF, ShortBetweenCalls
  <2>2. Zeros(SampleSize - Len(buffer_)) \in Seq(Byte)
    BY <2>1, ZerosType
  <2> QED
    BY <1>2, <2>2 DEF ReadEOF, BeginRead, Inserted
<1>3. CASE ClassifyFrame
  BY <1>3, TakeFrameType, TokenOfType DEF ClassifyFrame, TakeFrame, HasFrame
<1>4. CASE RejectFrame
  BY <1>4, TakeFrameType DEF RejectFrame, TakeFrame, HasFrame
<1>5. CASE Return
  BY <1>5 DEF Return, HasFrame, Handed
<1>6. CASE UNCHANGED vars
  BY <1>6 DEF vars
<1> QED
  BY <1>1, <1>2, <1>3, <1>4, <1>5, <1>6 DEF Next

-----------------------------------------------------------------------------
(***************************************************************************)
(* Facts about subsequences and frames.                                    *)
(***************************************************************************)

\* A subsequence inside the bounds: its type, length and elements.
LEMMA SubSeqFacts ==
  ASSUME NEW S, NEW s \in Seq(S), NEW m \in Nat \ {0}, NEW n \in Nat,
         n <= Len(s), m <= n + 1
  PROVE  /\ SubSeq(s, m, n) \in Seq(S)
         /\ Len(SubSeq(s, m, n)) = n - m + 1
         /\ \A i \in 1..(n - m + 1) : SubSeq(s, m, n)[i] = s[m + i - 1]
<1>1. \A i \in m..n : s[i] \in S
  OBVIOUS
<1> QED
  BY <1>1, SubSeqProperties

\* The front and the back of what lies behind the first m elements.
LEMMA SplitBehind ==
  ASSUME NEW s \in Seq(Byte), NEW m \in Nat, NEW w \in Nat,
         m + w <= Len(s)
  PROVE  LET b == SubSeq(s, m + 1, Len(s)) IN
         /\ b \in Seq(Byte) /\ Len(b) = Len(s) - m
         /\ SubSeq(b, 1, w) = SubSeq(s, m + 1, m + w)
         /\ SubSeq(b, w + 1, Len(b)) = SubSeq(s, m + w + 1, Len(s))
<1> DEFINE b == SubSeq(s, m + 1, Len(s))
<1>1. /\ b \in Seq(Byte) /\ Len(b) = Len(s) - m
      /\ \A i \in 1..(Len(s) - m) : b[i] = s[m + i]
  BY SubSeqFacts
<1> HIDE DEF b
<1>2. SubSeq(b, 1, w) = SubSeq(s, m + 1, m + w)
  <2> DEFINE l == SubSeq(b, 1, w)
             r == SubSeq(s, m + 1, m + w)
  <2>1. l \in Seq(Byte) /\ Len(l) = w /\ \A i \in 1..w : l[i] = b[i]
    BY <1>1, SubSeqFacts
  <2>2. r \in Seq(Byte) /\ Len(r) = w /\ \A i \in 1..w : r[i] = s[m + i]
    BY SubSeqFacts
  <2> HIDE DEF l, r
  <2>3. ASSUME NEW i \in 1..Len(l) PROVE l[i] = r[i]
    <3>1. i \in 1..w /\ i \in 1..(Len(s) - m)
      BY <2>1
    <3>2. l[i] = b[i] /\ b[i] = s[m + i]
      BY <3>1, <2>1, <1>1
    <3>3. r[i] = s[m + i]
      BY <3>1, <2>2
    <3> QED
      BY <3>2, <3>3
  <2>4. l = r
    BY <2>1, <2>2, <2>3, SeqEqual
  <2> QED
    BY <2>4 DEF l, r
<1>3. SubSeq(b, w + 1, Len(b)) = SubSeq(s, m + w + 1, Len(s))
  <2> DEFINE l == SubSeq(b, w + 1, Len(b))
             r == SubSeq(s, m + w + 1, Len(s))
             d == Len(s) - m - w
  <2>1. /\ l \in Seq(Byte) /\ Len(l) = d
        /\ \A i \in 1..d : l[i] = b[w + i]
    BY <1>1, SubSeqFacts
  <2>2. /\ r \in Seq(Byte) /\ Len(r) = d
        /\ \A i \in 1..d : r[i] = s[m + w + i]
    BY SubSeqFacts
  <2> HIDE DEF l, r
  <2>3. ASSUME NEW i \in 1..Len(l) PROVE l[i] = r[i]
    <3>1. i \in 1..d /\ w + i \in 1..(Len(s) - m)
      BY <2>1
    <3>2. l[i] = b[w + i] /\ b[w + i] = s[m + (w + i)]
      BY <3>1, <2>1, <1>1
    <3>3. r[i] = s[m + (w + i)]
      BY <3>1, <2>2
    <3> QED
      BY <3>2, <3>3
  <2>4. l = r
    BY <2>1, <2>2, <2>3, SeqEqual
  <2> QED
    BY <2>4 DEF l, r
<1> QED
  BY <1>1, <1>2, <1>3 DEF b

\* What lies behind the first m elements of s \o t is what lies behind them
\* in s, followed by t.
LEMMA BehindConcat ==
  ASSUME NEW s \in Seq(Byte), NEW t \in Seq(Byte), NEW m \in Nat,
         m <= Len(s)
  PROVE  SubSeq(s \o t, m + 1, Len(s \o t)) = SubSeq(s, m + 1, Len(s)) \o t
<1> DEFINE u == s \o t
           p == SubSeq(s, m + 1, Len(s))
           l == SubSeq(u, m + 1, Len(u))
           r == p \o t
           d == Len(s) + Len(t) - m
<1>1. /\ u \in Seq(Byte) /\ Len(u) = Len(s) + Len(t)
      /\ \A i \in 1..Len(s) + Len(t) :
           u[i] = IF i <= Len(s) THEN s[i] ELSE t[i - Len(s)]
  BY ConcatProperties
<1>2. /\ p \in Seq(Byte) /\ Len(p) = Len(s) - m
      /\ \A i \in 1..(Len(s) - m) : p[i] = s[m + i]
  BY SubSeqFacts
<1> HIDE DEF u, p
<1>3. /\ l \in Seq(Byte) /\ Len(l) = d
      /\ \A i \in 1..d : l[i] = u[m + i]
  BY <1>1, SubSeqFacts
<1>4. /\ r \in Seq(Byte) /\ Len(r) = Len(p) + Len(t)
      /\ \A i \in 1..Len(p) + Len(t) :
           r[i] = IF i <= Len(p) THEN p[i] ELSE t[i - Len(p)]
  BY <1>2, ConcatProperties
<1> HIDE DEF l, r
<1>5. \A i \in 1..Len(l) : l[i] = r[i]
  <2> TAKE i \in 1..Len(l)
  <2>1. i \in 1..d /\ m + i \in 1..Len(s) + Len(t)
    BY <1>3
  <2>2. l[i] = IF m + i <= Len(s) THEN s[m + i] ELSE t[m + i - Len(s)]
    BY <2>1, <1>1, <1>3
  <2>3. r[i] = IF i <= Len(s) - m THEN s[m + i] ELSE t[i - (Len(s) - m)]
    <3>1. Len(p) = Len(s) - m /\ i \in 1..(Len(p) + Len(t))
      BY <2>1, <1>2
    <3>2. r[i] = IF i <= Len(p) THEN p[i] ELSE t[i - Len(p)]
      BY <3>1, <1>4
    <3>3. i <= Len(p) => p[i] = s[m + i]
      BY <3>1, <1>2
    <3> QED
      BY <3>1, <3>2, <3>3
  <2>4. i - (Len(s) - m) = m + i - Len(s)
    BY <2>1
  <2>5. i <= Len(s) - m <=> m + i <= Len(s)
    BY <2>1
  <2> QED
    BY <2>2, <2>3, <2>4, <2>5
<1>6. l = r
  BY <1>2, <1>3, <1>4, <1>5, SeqEqual
<1> QED
  BY <1>6 DEF l, r, u, p

\* The multiples of the frame size.
LEMMA FrameArith ==
  ASSUME NEW n \in Nat
  PROVE  /\ SampleSize * n \in Nat
         /\ SampleSize * (n + 1) = SampleSize * n + SampleSize
         /\ SampleSize * ((n + 1) - 1) = SampleSize * n
         /\ SampleSize * 0 = 0
BY EarpodAssumption

\* A larger number of frames takes at least as many bytes.
LEMMA FrameMonotone ==
  ASSUME NEW k \in Nat, NEW n \in Nat, k <= n
  PROVE  SampleSize * k <= SampleSize * n
<1>1. PICK d \in Nat : n = k + d
  BY n - k \in Nat /\ n = k + (n - k)
<1>2. SampleSize * n = SampleSize * k + SampleSize * d
  BY <1>1, EarpodAssumption
<1>3. /\ SampleSize * d \in Nat
      /\ SampleSize * k \in Nat
  BY FrameArith
<1> QED
  BY <1>2, <1>3

\* Frame n + 1 of s, as the code finds it, and its type.
LEMMA NextFrame ==
  ASSUME NEW s \in Seq(Byte), NEW n \in Nat,
         SampleSize * n + SampleSize <= Len(s),
         NEW b, b = SubSeq(s, SampleSize * n + 1, Len(s))
  PROVE  /\ SubSeq(b, 1, SampleSize) = FrameAt(s, n + 1)
         /\ SubSeq(b, SampleSize + 1, Len(b))
              = SubSeq(s, SampleSize * (n + 1) + 1, Len(s))
         /\ FrameAt(s, n + 1) \in Frame
<1> DEFINE m == SampleSize * n
<1>1. m \in Nat /\ SampleSize \in Nat \ {0}
  BY FrameArith, EarpodAssumption
<1>2. FrameAt(s, n + 1) = SubSeq(s, m + 1, m + SampleSize)
  BY FrameArith DEF FrameAt
<1>3. SampleSize * (n + 1) = m + SampleSize
  BY FrameArith
<1> HIDE DEF m
<1>4. m + SampleSize <= Len(s) /\ b = SubSeq(s, m + 1, Len(s))
  BY DEF m
<1>5. /\ SubSeq(b, 1, SampleSize) = SubSeq(s, m + 1, m + SampleSize)
      /\ SubSeq(b, SampleSize + 1, Len(b)) = SubSeq(s, m + SampleSize + 1, Len(s))
  <2>1. m \in Nat /\ SampleSize \in Nat /\ m + SampleSize <= Len(s)
    BY <1>1, <1>4
  <2>2. LET c == SubSeq(s, m + 1, Len(s)) IN
          /\ SubSeq(c, 1, SampleSize) = SubSeq(s, m + 1, m + SampleSize)
          /\ SubSeq(c, SampleSize + 1, Len(c))
               = SubSeq(s, m + SampleSize + 1, Len(s))
    BY <2>1, SplitBehind, Zenon
  <2> QED
    BY <2>2, <1>4
<1>6. SubSeq(s, m + 1, m + SampleSize) \in Frame
  <2> DEFINE f == SubSeq(s, m + 1, m + SampleSize)
  <2>1. f \in Seq(Byte) /\ Len(f) = SampleSize
    BY <1>1, <1>4, SubSeqFacts
  <2> HIDE DEF f
  <2>2. f \in [1..SampleSize -> Byte]
    BY <2>1, LenProperties
  <2> QED
    BY <2>2 DEF f, Frame
<1> QED
  BY <1>2, <1>3, <1>5, <1>6

\* Bytes appended behind a frame leave the frame alone.
LEMMA FrameStable ==
  ASSUME NEW s \in Seq(Byte), NEW t \in Seq(Byte), NEW k \in Nat \ {0},
         SampleSize * k <= Len(s)
  PROVE  FrameAt(s \o t, k) = FrameAt(s, k)
<1> DEFINE a == SampleSize * (k - 1) + 1
           b == SampleSize * k
<1>1. /\ SampleSize * (k - 1) \in Nat
      /\ b = SampleSize * (k - 1) + SampleSize
  <2>1. k - 1 \in Nat /\ (k - 1) + 1 = k
    OBVIOUS
  <2> QED
    BY <2>1, FrameArith
<1>2. a \in Nat /\ b \in Nat /\ 1 <= a /\ a <= b /\ b <= Len(s)
  <2> DEFINE q == SampleSize * (k - 1)
  <2>1. q \in Nat /\ a = q + 1 /\ b = q + SampleSize /\ b <= Len(s)
    BY <1>1
  <2> HIDE DEF q, a, b
  <2> QED
    BY <2>1, EarpodAssumption
<1> HIDE DEF a, b
<1>3. SubSeq(s \o t, a, b) = SubSeq(s, a, b)
  BY <1>2, SubSeqOfConcat1
<1> QED
  BY <1>3 DEF FrameAt, a, b

-----------------------------------------------------------------------------
(***************************************************************************)
(* The inductive invariant.                                                *)
(***************************************************************************)

\* Nothing is fed and nothing is answered yet.
LEMMA InvInit == Init => IInv
<1> SUFFICES ASSUME Init PROVE IInv
  OBVIOUS
<1>1. TypeOK
  BY TypeInit
<1>2. Answered = 0 /\ Taken = 0
  BY DEF Init, Answered, Taken
<1>3. NothingLost
  <2>1. SampleSize * Taken = 0
    BY <1>2, FrameArith
  <2>2. SubSeq(fed, 1, Len(fed)) = <<>>
    BY SubSeqEmpty DEF Init
  <2> QED
    BY <2>1, <2>2 DEF NothingLost, Init
<1> QED
  BY <1>1, <1>2, <1>3, EarpodAssumption
     DEF IInv, Init, ShortBetweenCalls, TokensLabelFrames, FlushProgress, NetVerdict

\* Inserting bytes keeps buffer_ the untaken part of the stream, and leaves
\* the frames already answered alone.
LEMMA InsertKeeps ==
  ASSUME IInv, pc = "idle", NEW data \in Seq(Byte), NEW call \in {"read", "readEOF"},
         BeginRead(data, call)
  PROVE  NothingLost' /\ TokensLabelFrames' /\ NetVerdict' /\ Answered' = Answered
<1> USE DEF IInv, TypeOK
<1>1. Answered' = Answered /\ Taken = Answered /\ Taken' = Answered
      /\ Answered \in Nat /\ fed' = fed \o data /\ Len(fed') = Len(fed) + Len(data)
  BY DEF BeginRead, Answered, Taken, Inserted
<1>2. NothingLost'
  <2> DEFINE m == SampleSize * Answered
  <2>1. m \in Nat /\ m <= Len(fed) /\ buffer_ = SubSeq(fed, m + 1, Len(fed))
    BY <1>1, FrameArith DEF NothingLost
  <2>2. m <= Len(fed')
    BY <2>1, <1>1
  <2> HIDE DEF m
  <2>3. SubSeq(fed \o data, m + 1, Len(fed \o data)) = SubSeq(fed, m + 1, Len(fed)) \o data
    BY <2>1, BehindConcat
  <2>4. buffer_' = SubSeq(fed', m + 1, Len(fed'))
    BY <2>1, <2>3 DEF BeginRead, Inserted
  <2> QED
    BY <2>2, <2>4, <1>1 DEF NothingLost, m
<1>3. TokensLabelFrames'
  <2> SUFFICES ASSUME NEW k \in 1..Answered
               PROVE  (out \o returnedTokens)[k] = TokenOf(Output[FrameAt(fed', k)])
    BY <1>1 DEF TokensLabelFrames, BeginRead, Inserted
  <2>1. k \in Nat \ {0} /\ k <= Answered
    BY <1>1
  <2>2. SampleSize * k <= SampleSize * Answered
    BY <2>1, <1>1, FrameMonotone
  <2>3. SampleSize * k <= Len(fed)
    <3>1. SampleSize * k \in Nat /\ SampleSize * Answered \in Nat
      BY <2>1, <1>1, FrameArith
    <3>2. SampleSize * Answered <= Len(fed)
      BY <1>1 DEF NothingLost
    <3> QED
      BY <2>2, <3>1, <3>2
  <2>4. FrameAt(fed', k) = FrameAt(fed, k)
    BY <2>1, <2>3, FrameStable DEF BeginRead, Inserted
  <2> QED
    BY <2>4 DEF TokensLabelFrames
<1>4. NetVerdict'
  BY <1>1 DEF NetVerdict, BeginRead, Inserted
<1> QED
  BY <1>1, <1>2, <1>3, <1>4

\* What an iteration of the loop finds: its frame is the next of the stream.
LEMMA IterationFacts ==
  ASSUME IInv, InRead, Len(buffer_) >= SampleSize
  PROVE  /\ Taken = Answered /\ Answered \in Nat
         /\ SampleSize * (Answered + 1) <= Len(fed)
         /\ SubSeq(buffer_, 1, SampleSize) = FrameAt(fed, Answered + 1)
         /\ SubSeq(buffer_, SampleSize + 1, Len(buffer_))
              = SubSeq(fed, SampleSize * (Answered + 1) + 1, Len(fed))
<1>0. /\ pc # "crashed" /\ Len(out) \in Nat /\ Len(returnedTokens) \in Nat
      /\ fed \in Seq(Byte) /\ buffer_ \in Seq(Byte) /\ NothingLost
  BY DEF InRead, IInv, TypeOK
<1>1. Taken = Answered /\ Answered \in Nat
  BY <1>0 DEF Taken, Answered
<1> DEFINE m == SampleSize * Answered
<1>2. m \in Nat /\ m <= Len(fed) /\ buffer_ = SubSeq(fed, m + 1, Len(fed))
  BY <1>0, <1>1, FrameArith DEF NothingLost
<1> HIDE DEF m
<1>3. Len(buffer_) = Len(fed) - m
  BY <1>0, <1>2, SubSeqFacts
<1>4. m + SampleSize <= Len(fed)
  BY <1>2, <1>3, EarpodAssumption
<1>5. SampleSize * (Answered + 1) = m + SampleSize
  BY <1>1, FrameArith DEF m
<1>6. LET b == SubSeq(fed, SampleSize * Answered + 1, Len(fed)) IN
        /\ SubSeq(b, 1, SampleSize) = FrameAt(fed, Answered + 1)
        /\ SubSeq(b, SampleSize + 1, Len(b))
             = SubSeq(fed, SampleSize * (Answered + 1) + 1, Len(fed))
  <2>1. SampleSize * Answered + SampleSize <= Len(fed)
    BY <1>4 DEF m
  <2> QED
    BY <1>0, <1>1, <2>1, NextFrame, Zenon
<1>7. buffer_ = SubSeq(fed, SampleSize * Answered + 1, Len(fed))
  BY <1>2 DEF m
<1>8. /\ SubSeq(buffer_, 1, SampleSize) = FrameAt(fed, Answered + 1)
      /\ SubSeq(buffer_, SampleSize + 1, Len(buffer_))
           = SubSeq(fed, SampleSize * (Answered + 1) + 1, Len(fed))
  BY <1>6, <1>7, Zenon
<1>9. SampleSize * (Answered + 1) <= Len(fed)
  BY <1>4, <1>5
<1> QED
  BY <1>1, <1>8, <1>9

\* Every action keeps the invariant.
LEMMA InvStep == IInv /\ [Next]_vars => IInv'
<1> SUFFICES ASSUME IInv, [Next]_vars PROVE IInv'
  OBVIOUS
<1>0. TypeOK'
  BY TypeStep DEF IInv
<1>1. ASSUME NEW data \in Chunks, Read(data) PROVE IInv'
  <2>1. /\ NothingLost' /\ TokensLabelFrames' /\ NetVerdict'
    BY <1>1, InsertKeeps, EarpodAssumption DEF Read
  <2>2. pc' = "read"
    BY <1>1 DEF Read, BeginRead, Inserted
  <2> QED
    BY <1>0, <2>1, <2>2 DEF IInv, ShortBetweenCalls, FlushProgress
<1>2. CASE ReadEOF
  <2> DEFINE pad == Zeros(SampleSize - Len(buffer_))
  <2>1. SampleSize - Len(buffer_) \in Nat
    BY <1>2, EarpodAssumption DEF ReadEOF, IInv, TypeOK, ShortBetweenCalls
  <2>2. pad \in Seq(Byte) /\ Len(pad) = SampleSize - Len(buffer_)
    BY <2>1, ZerosType
  <2> HIDE DEF pad
  <2>3. pc = "idle" /\ BeginRead(pad, "readEOF")
    BY <1>2 DEF ReadEOF, pad
  <2>4. NothingLost' /\ TokensLabelFrames' /\ NetVerdict'
    BY <2>2, <2>3, InsertKeeps
  <2>5. pc' = "readEOF" /\ returnedTokens' = <<>> /\ Len(buffer_') = SampleSize
    BY <2>2, <2>3, EarpodAssumption DEF BeginRead, IInv, TypeOK, Inserted
  <2> QED
    BY <1>0, <2>4, <2>5 DEF IInv, ShortBetweenCalls, FlushProgress
<1>3. CASE ClassifyFrame
  <2> USE DEF ClassifyFrame, HasFrame
  <2>1. /\ Taken = Answered /\ Answered \in Nat
        /\ SampleSize * (Answered + 1) <= Len(fed)
        /\ SubSeq(buffer_, 1, SampleSize) = FrameAt(fed, Answered + 1)
        /\ buffer_' = SubSeq(fed, SampleSize * (Answered + 1) + 1, Len(fed))
    BY <1>3, IterationFacts DEF TakeFrame
  <2> DEFINE token == TokenOf(Output[FrameAt(fed, Answered + 1)])
  <2>2. returnedTokens' = Append(returnedTokens, token)
    BY <1>3, <2>1
  <2>3. Answered' = Answered + 1 /\ Taken' = Answered + 1
    <3>1. /\ returnedTokens \in Seq(Token) /\ token \in Token
          /\ Len(out) \in Nat
      BY TokenOfType DEF IInv, TypeOK
    <3>2. Len(returnedTokens') = Len(returnedTokens) + 1
      BY <2>2, <3>1
    <3>3. pc' # "crashed" /\ out' = out /\ Len(returnedTokens) \in Nat
      BY <1>3, <3>1 DEF InRead
    <3> QED
      BY <3>1, <3>2, <3>3 DEF Answered, Taken
  <2>4. NothingLost'
    BY <1>3, <2>1, <2>3 DEF NothingLost
  <2>5. TokensLabelFrames'
    <3>1. token \in Token
      BY TokenOfType
    <3> HIDE DEF token
    <3> SUFFICES ASSUME NEW k \in 1..(Answered + 1)
                 PROVE  (out \o returnedTokens')[k] = TokenOf(Output[FrameAt(fed, k)])
      BY <1>3, <2>3 DEF TokensLabelFrames
    <3>2. CASE k = Answered + 1
      <4>1. out \in Seq(Token) /\ returnedTokens \in Seq(Token)
        BY DEF IInv, TypeOK
      <4>2. (out \o Append(returnedTokens, token))[Len(out) + Len(returnedTokens) + 1] = token
        BY <3>1, <4>1
      <4>3. k = Len(out) + Len(returnedTokens) + 1
        BY <3>2 DEF Answered
      <4>4. (out \o returnedTokens')[k] = token
        BY <4>3, <4>2, <2>2
      <4> QED
        BY <4>4, <3>2 DEF token
    <3>3. CASE k \in 1..Answered
      <4>1. (out \o returnedTokens')[k] = (out \o returnedTokens)[k]
        BY <3>1, <3>3, <2>2, <2>1 DEF Answered, IInv, TypeOK
      <4> QED
        BY <4>1, <3>3 DEF IInv, TokensLabelFrames
    <3>4. k = Answered + 1 \/ k \in 1..Answered
      BY <2>1
    <3> QED
      BY <3>2, <3>3, <3>4
  <2>6. FlushProgress'
    <3> SUFFICES ASSUME pc = "readEOF"
                 PROVE  Len(returnedTokens') = 1 /\ buffer_' = <<>>
      BY <1>3 DEF FlushProgress
    <3>1. returnedTokens = <<>> /\ Len(buffer_) = SampleSize
      BY <1>3, EarpodAssumption DEF IInv, FlushProgress, TypeOK
    <3>2. SubSeq(buffer_, SampleSize + 1, Len(buffer_)) = <<>>
      BY <3>1, SubSeqEmpty, EarpodAssumption
    <3> QED
      BY <1>3, <2>2, <3>1, <3>2 DEF TakeFrame
  <2> QED
    BY <1>0, <1>3, <2>4, <2>5, <2>6
       DEF IInv, ShortBetweenCalls, NetVerdict, InRead
<1>4. CASE RejectFrame
  <2> USE DEF RejectFrame, HasFrame
  <2>1. /\ Taken = Answered /\ Answered \in Nat
        /\ SampleSize * (Answered + 1) <= Len(fed)
        /\ buffer_' = SubSeq(fed, SampleSize * (Answered + 1) + 1, Len(fed))
    BY <1>4, IterationFacts DEF TakeFrame
  <2>2. Answered' = Answered /\ Taken' = Answered + 1
    BY <1>4, <2>1 DEF Answered, Taken
  <2>3. NothingLost'
    BY <1>4, <2>1, <2>2 DEF NothingLost
  <2>4. TokensLabelFrames' /\ NetVerdict'
    BY <1>4, <2>2 DEF IInv, TokensLabelFrames, NetVerdict
  <2> QED
    BY <1>0, <1>4, <2>3, <2>4 DEF IInv, ShortBetweenCalls, FlushProgress
<1>5. CASE Return
  <2> USE DEF Return, HasFrame, Handed
  <2>1. /\ out' \o returnedTokens' = out \o returnedTokens
        /\ Answered' = Answered /\ Taken' = Taken
    <3>1. /\ out \in Seq(Token) /\ returnedTokens \in Seq(Token)
          /\ pc # "crashed" /\ pc' # "crashed"
      BY <1>5 DEF InRead, IInv, TypeOK
    <3>2. out' \o returnedTokens' = out \o returnedTokens
      BY <1>5, <3>1, ConcatEmptySeq
    <3>3. Len(out') + Len(returnedTokens') = Len(out) + Len(returnedTokens)
      BY <1>5, <3>1
    <3> QED
      BY <3>1, <3>2, <3>3 DEF Answered, Taken
  <2>2. NothingLost' /\ TokensLabelFrames' /\ NetVerdict'
    BY <1>5, <2>1 DEF IInv, NothingLost, TokensLabelFrames, NetVerdict
  <2>3. Len(buffer_) < SampleSize
    BY <1>5, EarpodAssumption DEF IInv, TypeOK
  <2> QED
    BY <1>0, <1>5, <2>2, <2>3 DEF IInv, ShortBetweenCalls, FlushProgress
<1>6. CASE UNCHANGED vars
  BY <1>0, <1>6 DEF vars, IInv, ShortBetweenCalls, NothingLost, TokensLabelFrames,
     FlushProgress, NetVerdict, Answered, Taken
<1> QED
  BY <1>1, <1>2, <1>3, <1>4, <1>5, <1>6 DEF Next

-----------------------------------------------------------------------------
(***************************************************************************)
(* Theorems.                                                               *)
(***************************************************************************)

\* IInv, and with it the types and every invariant it is made of.
THEOREM InvariantHolds == Spec => []IInv
<1> QED
  BY InvInit, InvStep, PTL DEF Spec

\* Fields and locals keep their types over any sequence of calls.
THEOREM TypeCorrect == Spec => []TypeOK
<1>1. IInv => TypeOK
  BY DEF IInv
<1> QED
  BY <1>1, InvariantHolds, PTL

\* insert() and erase() lose, repeat and reorder no byte.
THEOREM NothingIsLost == Spec => []NothingLost
<1>1. IInv => NothingLost
  BY DEF IInv
<1> QED
  BY <1>1, InvariantHolds, PTL

\* Every token is the label of its own frame, however the stream was split.
THEOREM TokensAreLabels == Spec => []TokensLabelFrames
<1>1. IInv => TokensLabelFrames
  BY DEF IInv
<1> QED
  BY <1>1, InvariantHolds, PTL

\* The unsigned subtraction in readEOF() never wraps around.
THEOREM PadNeverWraps == Spec => []ShortBetweenCalls
<1>1. IInv => ShortBetweenCalls
  BY DEF IInv
<1> QED
  BY <1>1, InvariantHolds, PTL

\* A network that does not fit never gave a caller a token.
THEOREM CrashBeforeAnswer == Spec => []BadNetNeverAnswers
<1>1. IInv => BadNetNeverAnswers
  BY DEF IInv, NetVerdict, BadNetNeverAnswers, Answered, TypeOK
<1> QED
  BY <1>1, InvariantHolds, PTL

\* readEOF() answers one frame and leaves the buffer empty.
THEOREM FlushAnswersOnce == Spec => FlushYieldsOneToken
<1>1. IInv /\ [Next]_vars =>
        (pc = "readEOF" /\ pc' = "idle"
           => Len(out') = Len(out) + 1 /\ buffer_' = <<>>)
  <2> SUFFICES ASSUME IInv, [Next]_vars, pc = "readEOF", pc' = "idle"
               PROVE  Len(out') = Len(out) + 1 /\ buffer_' = <<>>
    OBVIOUS
  <2>1. Return
    BY DEF Next, Read, ReadEOF, BeginRead, ClassifyFrame, RejectFrame, vars, Inserted, HasFrame
  <2>2. Len(returnedTokens) = 1 /\ buffer_ = <<>>
    BY <2>1 DEF Return, IInv, FlushProgress, HasFrame, Handed
  <2>3. out \in Seq(Token) /\ returnedTokens \in Seq(Token)
    BY DEF IInv, TypeOK
  <2>4. out' = out \o returnedTokens /\ buffer_' = buffer_
    BY <2>1 DEF Return, HasFrame, Handed
  <2>5. Len(out') = Len(out) + Len(returnedTokens)
    BY <2>3, <2>4, ConcatProperties
  <2> QED
    BY <2>2, <2>4, <2>5
<1> QED
  BY <1>1, InvariantHolds, PTL DEF Spec, FlushYieldsOneToken

\* When the buffer holds less than a frame, the frames answered are all the
\* complete frames of the stream.
LEMMA AllFramesAnswered ==
  ASSUME IInv, pc # "crashed", Len(buffer_) < SampleSize
  PROVE  Stream!HasFrames(fed, Answered) /\ Answered \in 0..Len(fed)
<1> DEFINE m == SampleSize * Answered
<1>0. /\ Taken = Answered /\ Answered \in Nat
      /\ fed \in Seq(Byte) /\ buffer_ \in Seq(Byte)
  BY DEF IInv, TypeOK, Taken, Answered
<1>1. m \in Nat /\ m <= Len(fed) /\ buffer_ = SubSeq(fed, m + 1, Len(fed))
  BY <1>0, FrameArith DEF IInv, NothingLost
<1>2. Answered <= m
  BY <1>0, EarpodAssumption
<1> HIDE DEF m
<1>3. Len(buffer_) = Len(fed) - m
  BY <1>0, <1>1, SubSeqFacts
<1>4. m <= Len(fed) /\ Len(fed) < m + SampleSize
  BY <1>0, <1>1, <1>3, EarpodAssumption
<1>5. Answered \in 0..Len(fed)
  BY <1>0, <1>1, <1>2
<1> QED
  BY <1>4, <1>5 DEF m, Stream!HasFrames

\* EarpodModel implements TokenStream: a call's arrival is an Accept or a
\* Flush, its return is a Deliver, and the loop in between is invisible.
THEOREM StreamRefinement == Spec => ImplementsTokenStream
<1>1. Init => Stream!Init
  BY DEF Init, Stream!Init
<1>2. IInv /\ IInv' /\ [Next]_vars => [Stream!Next]_(Stream!vars)
  <2> SUFFICES ASSUME IInv, IInv', [Next]_vars
               PROVE  [Stream!Next]_(Stream!vars)
    OBVIOUS
  <2>0. pc = "idle" => /\ Stream!UpToDate /\ Answered = Len(out)
                       /\ SampleSize * Len(out) + Len(buffer_) = Len(fed)
    <3> SUFFICES ASSUME pc = "idle"
                 PROVE  /\ Stream!UpToDate /\ Answered = Len(out)
                        /\ SampleSize * Len(out) + Len(buffer_) = Len(fed)
      OBVIOUS
    <3>1. /\ Answered = Len(out) /\ Len(buffer_) < SampleSize
          /\ Taken = Len(out) /\ Len(out) \in Nat
          /\ fed \in Seq(Byte) /\ NothingLost
      BY DEF IInv, TypeOK, Answered, Taken, ShortBetweenCalls
    <3>2. Stream!UpToDate
      BY <3>1, AllFramesAnswered DEF Stream!UpToDate
    <3> DEFINE m == SampleSize * Len(out)
    <3>3. m \in Nat /\ m <= Len(fed) /\ buffer_ = SubSeq(fed, m + 1, Len(fed))
      BY <3>1, FrameArith DEF NothingLost
    <3> HIDE DEF m
    <3>4. Len(buffer_) = Len(fed) - m
      BY <3>1, <3>3, SubSeqFacts
    <3>5. m + Len(buffer_) = Len(fed)
      BY <3>1, <3>3, <3>4
    <3> QED
      BY <3>1, <3>2, <3>5 DEF m
  <2>1. ASSUME NEW data \in Chunks, Read(data) PROVE Stream!Next
    <3>1. Stream!Accept(data)
      BY <2>0, <2>1 DEF Read, BeginRead, Stream!Accept, Inserted
    <3> QED
      BY <3>1 DEF Stream!Next
  <2>2. CASE ReadEOF
    <3> DEFINE m == SampleSize * Len(out)
               next == SampleSize * (Len(out) + 1)
               missing == next - Len(fed)
    <3>1. /\ buffer_ \in Seq(Byte) /\ fed \in Seq(Byte) /\ Len(out) \in Nat
          /\ m \in Nat /\ next = m + SampleSize
      BY FrameArith DEF IInv, TypeOK
    <3>2. Len(buffer_) > 0
      BY <2>2, <3>1 DEF ReadEOF
    <3>3. m + Len(buffer_) = Len(fed)
      BY <2>0, <2>2 DEF ReadEOF
    <3> HIDE DEF m, next
    <3>4. missing = (m + SampleSize) - Len(fed)
      <4>1. next = m + SampleSize
        BY <3>1
      <4> QED
        BY <4>1, Zenon
    <3> HIDE DEF missing
    <3>5. missing = SampleSize - Len(buffer_) /\ missing < SampleSize
      <4>1. /\ Len(buffer_) \in Nat /\ Len(fed) \in Nat /\ m \in Nat
            /\ SampleSize \in Nat
        BY <3>1, EarpodAssumption
      <4> QED
        BY <4>1, <3>2, <3>3, <3>4
    <3>6. fed' = fed \o [i \in 1..missing |-> Zero] /\ out' = out
      BY <2>2, <3>5 DEF ReadEOF, BeginRead, Zeros, Inserted
    <3>7. Stream!UpToDate
      BY <2>0, <2>2 DEF ReadEOF
    <3>8. Stream!Flush
      BY <3>5, <3>6, <3>7 DEF missing, next, Stream!Flush
    <3> QED
      BY <3>8 DEF Stream!Next
  <2>3. CASE ClassifyFrame
    BY <2>3 DEF ClassifyFrame, Stream!vars, HasFrame
  <2>4. CASE RejectFrame
    BY <2>4 DEF RejectFrame, Stream!vars, HasFrame
  <2>5. CASE Return
    <3> DEFINE labels == [f \in Frame |-> TokenOf(Output[f])]
    <3>0. Len(buffer_) < SampleSize
      BY <2>5, EarpodAssumption DEF Return, HasFrame, IInv, TypeOK
    <3>1. /\ Stream!HasFrames(fed, Answered) /\ Answered \in 0..Len(fed)
          /\ Answered \in Nat
      BY <2>5, <3>0, AllFramesAnswered DEF Return, InRead, Answered, IInv, TypeOK, HasFrame, Handed
    <3>2. ASSUME NEW k \in 1..Answered
          PROVE  out'[k] = labels[Stream!FrameAt(fed, k)]
      <4>1. FrameAt(fed, k) \in Frame
        <5>1. k - 1 \in Nat /\ (k - 1) + 1 = k /\ k \in Nat /\ k <= Answered
          BY <3>1
        <5>2. SampleSize * k <= SampleSize * Answered
          BY <5>1, <3>1, FrameMonotone
        <5>3. /\ SampleSize * k \in Nat /\ SampleSize * Answered \in Nat
              /\ SampleSize * k = SampleSize * (k - 1) + SampleSize
          BY <5>1, <3>1, FrameArith
        <5>4. SampleSize * Answered <= Len(fed) /\ fed \in Seq(Byte)
          BY <3>1 DEF Stream!HasFrames, IInv, TypeOK
        <5>5. SampleSize * (k - 1) + SampleSize <= Len(fed)
          BY <5>2, <5>3, <5>4
        <5>6. FrameAt(fed, (k - 1) + 1) \in Frame
          BY <5>1, <5>4, <5>5, NextFrame
        <5> QED
          BY <5>6, <5>1
      <4>2. out'[k] = TokenOf(Output[FrameAt(fed, k)])
        BY <2>5 DEF Return, IInv, TokensLabelFrames, HasFrame, Handed
      <4>3. Stream!FrameAt(fed, k) = FrameAt(fed, k)
        BY DEF Stream!FrameAt, FrameAt
      <4> QED
        BY <4>1, <4>2, <4>3
    <3>3. out' \in Seq(Token) /\ Len(out') = Answered
      <4>1. out \in Seq(Token) /\ returnedTokens \in Seq(Token)
        BY DEF IInv, TypeOK
      <4> QED
        BY <4>1, <2>5 DEF Return, Answered, HasFrame, Handed
    <3>4. out' = [k \in 1..Answered |-> labels[Stream!FrameAt(fed, k)]]
      BY <3>1, <3>2, <3>3
    <3>5. Stream!Deliver
      BY <2>5, <3>1, <3>4 DEF Return, Stream!Deliver, HasFrame, Handed
    <3> QED
      BY <3>5 DEF Stream!Next
  <2>6. CASE UNCHANGED vars
    BY <2>6 DEF vars, Stream!vars
  <2> QED
    BY <2>1, <2>2, <2>3, <2>4, <2>5, <2>6 DEF Next
<1> QED
  BY <1>1, <1>2, InvariantHolds, PTL DEF Spec, ImplementsTokenStream, Stream!Spec
=============================================================================
