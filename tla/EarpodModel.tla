---------------------------- MODULE EarpodModel ----------------------------
(***************************************************************************)
(* util/EarpodModel.cpp: the classifier object that turns big-endian PCM   *)
(* bytes into volume tokens.  read() appends its argument to buffer_ and   *)
(* then, while a whole frame is there, removes the frame from the front,   *)
(* runs it through the network and pushes one token.  readEOF() completes  *)
(* a partial frame with zeros and calls read().  One iteration of the      *)
(* while loop is one step here, because an iteration may throw or fail an  *)
(* assertion after it has already changed buffer_.                         *)
(*                                                                         *)
(* The network's arithmetic is a function Output from frames to the three  *)
(* softmax values, known only by their order.  The shapes of its matrices  *)
(* are kept: they come from the nn.hpp the object was compiled with, and   *)
(* the code checks them only when the first frame is multiplied.           *)
(***************************************************************************)
EXTENDS Integers, Sequences

CONSTANTS
  Byte,         \* the values of one byte of audio
  Zero,         \* '\0'
  SampleSize,   \* sampleSize_: bytes per frame (4410 in the code)
  FeaturesDim,  \* length of Frontend::calculate's result (78 in the code)
  Headers,      \* the nn.hpp files a build may include, as matrix shapes
  Output,       \* the network's three outputs for each frame
  Chunks,       \* the arguments read() is called with
  MaxBytes      \* bound: bytes handed to one object

Token == {"VOLUME_UP", "VOLUME_DOWN", "NOISE"}

\* A frame as the code cuts it from the buffer.
Frame == [1..SampleSize -> Byte]

\* The shapes of the matrices of an nn.hpp: <<X_ROWS, X_COLS>> of each.
Shape == Nat \X Nat
Header == [W_H : Shape, W_DH : Shape, W_O : Shape]

ASSUME EarpodAssumption ==
  /\ Zero \in Byte
  /\ SampleSize \in Nat \ {0}
  /\ FeaturesDim \in Nat \ {0}
  /\ Headers \subseteq Header
  /\ Output \in [Frame -> [1..3 -> Int]]
  /\ Chunks \subseteq Seq(Byte)
  /\ MaxBytes \in Nat

VARIABLES
  mats_,           \* the matrices the constructor copied from nn.hpp
  buffer_,         \* bytes not yet cut into a frame
  pc,              \* "idle", or the call in progress, or "crashed"
  returnedTokens,  \* read()'s local result
  fed,             \* history: every byte inserted into buffer_
  out              \* history: every token returned to a caller

vars == <<mats_, buffer_, pc, returnedTokens, fed, out>>

-----------------------------------------------------------------------------
Rows(shape) == shape[1]
Cols(shape) == shape[2]

\* matMul(lhs, rhs) completes: rhs.at(0) throws on a matrix without rows,
\* and the assertion demands that the inner dimensions agree.
CanMultiply(lhsCols, rhs) == Rows(rhs) > 0 /\ lhsCols = Rows(rhs)

\* Mutant of NetAccepts: shapes are looked at after the first answer only.
NetAcceptsLate(h) == out = <<>> \/ CanMultiply(FeaturesDim, h.W_H)

\* The chain of products of read() ends in the three values it asserts.  That
\* the outputs of a softmax add up to 1 is arithmetic and left out.
NetAccepts(h) ==
  /\ CanMultiply(FeaturesDim, h.W_H)
  /\ CanMultiply(Cols(h.W_H), h.W_DH)
  /\ CanMultiply(Cols(h.W_DH), h.W_O)
  /\ Cols(h.W_O) = 3

\* max_element: the first of the largest values.
IsFirstMax(v, i) ==
  \A j \in 1..3 : v[j] <= v[i] /\ (v[j] = v[i] => i <= j)

\* Mutant of TokenOf: the third branch is not there.
TokenOfTwo(v) ==
  CASE IsFirstMax(v, 1) -> "VOLUME_UP"
    [] IsFirstMax(v, 2) -> "VOLUME_DOWN"
    [] OTHER            -> "NONE"

TokenOf(v) ==
  CASE IsFirstMax(v, 1) -> "VOLUME_UP"
    [] IsFirstMax(v, 2) -> "VOLUME_DOWN"
    [] OTHER            -> "NOISE"

\* Mutant of Zeros: one zero too few.
ZerosShort(n) == [i \in 1..(n - 1) |-> Zero]

Zeros(n) == [i \in 1..n |-> Zero]

-----------------------------------------------------------------------------
\* EarpodModel::EarpodModel().
Init ==
  /\ mats_ \in Headers
  /\ buffer_ = <<>>
  /\ pc = "idle"
  /\ returnedTokens = <<>>
  /\ fed = <<>>
  /\ out = <<>>

\* Mutant of Inserted: the partial frame of the call before is overwritten.
InsertedFresh(data) == data

\* insert() at buffer_.end().
Inserted(data) == buffer_ \o data

\* The first statements of read(data), called directly or from readEOF().
BeginRead(data, call) ==
  /\ buffer_' = Inserted(data)
  /\ fed' = fed \o data
  /\ pc' = call
  /\ UNCHANGED <<mats_, returnedTokens, out>>

Read(data) ==
  /\ pc = "idle"
  /\ Len(fed) + Len(data) <= MaxBytes
  /\ BeginRead(data, "read")

\* With an empty buffer readEOF() returns at once and changes nothing.
ReadEOF ==
  /\ pc = "idle"
  /\ buffer_ # <<>>
  /\ BeginRead(Zeros(SampleSize - Len(buffer_)), "readEOF")

InRead == pc \in {"read", "readEOF"}

\* Mutant of HasFrame: > for >=.
HasMore == Len(buffer_) > SampleSize

\* The condition of the while loop.
HasFrame == Len(buffer_) >= SampleSize

\* One iteration: toSend is cut off the front of buffer_ before it is used.
TakeFrame == buffer_' = SubSeq(buffer_, SampleSize + 1, Len(buffer_))

ClassifyFrame ==
  /\ InRead
  /\ HasFrame
  /\ TakeFrame
  /\ NetAccepts(mats_)
  /\ LET toSend == SubSeq(buffer_, 1, SampleSize)
     IN  returnedTokens' = Append(returnedTokens, TokenOf(Output[toSend]))
  /\ UNCHANGED <<mats_, pc, fed, out>>

\* at() throws or an assertion fails.  No caller catches it: the process
\* ends, the frame already taken is gone and returnedTokens is lost.
RejectFrame ==
  /\ InRead
  /\ HasFrame
  /\ TakeFrame
  /\ ~NetAccepts(mats_)
  /\ pc' = "crashed"
  /\ UNCHANGED <<mats_, returnedTokens, fed, out>>

\* Mutant of Handed: the caller puts new tokens in front of old ones.
HandedInFront == returnedTokens \o out

\* What callers have, in the order of the calls.
Handed == out \o returnedTokens

Return ==
  /\ InRead
  /\ ~HasFrame
  /\ pc' = "idle"
  /\ out' = Handed
  /\ returnedTokens' = <<>>
  /\ UNCHANGED <<mats_, buffer_, fed>>

Next ==
  \/ \E data \in Chunks : Read(data)
  \/ ReadEOF
  \/ ClassifyFrame
  \/ RejectFrame
  \/ Return

Spec == Init /\ [][Next]_vars

-----------------------------------------------------------------------------
(***************************************************************************)
(* Properties.                                                             *)
(***************************************************************************)

\* Frames answered so far, whether or not read() has returned the tokens.
Answered == Len(out) + Len(returnedTokens)

\* Frames taken from buffer_: a crash took one that it did not answer.
Taken == Answered + (IF pc = "crashed" THEN 1 ELSE 0)

FrameAt(s, k) == SubSeq(s, SampleSize * (k - 1) + 1, SampleSize * k)

\* The declared types of the fields and locals.
TypeOK ==
  /\ mats_ \in Headers
  /\ buffer_ \in Seq(Byte)
  /\ pc \in {"idle", "read", "readEOF", "crashed"}
  /\ returnedTokens \in Seq(Token)
  /\ fed \in Seq(Byte)
  /\ out \in Seq(Token)

\* buffer_ is exactly the part of the stream behind the last frame taken:
\* insert() at the back and erase() at the front lose, repeat and reorder
\* no byte over any sequence of read() and readEOF() calls, even when a
\* frame throws half way through a call.
NothingLost ==
  /\ SampleSize * Taken <= Len(fed)
  /\ buffer_ = SubSeq(fed, SampleSize * Taken + 1, Len(fed))

\* The k-th token is the label of the k-th frame of the stream, so the
\* split of the stream into read() calls does not show in the answers.
TokensLabelFrames ==
  \A k \in 1..Answered :
    (out \o returnedTokens)[k] = TokenOf(Output[FrameAt(fed, k)])

\* Between calls less than a frame is buffered.  readEOF() relies on it:
\* sampleSize_ - buffer_.size() is unsigned and must not wrap around.
ShortBetweenCalls == pc = "idle" => Len(buffer_) < SampleSize

\* A network that does not fit the frontend is found out before any token
\* has reached a caller: a crash is never preceded by an answer.
BadNetNeverAnswers == pc = "crashed" => Answered = 0

\* readEOF() flushes: it answers exactly one frame and leaves the object
\* empty, so that the next stream starts at a frame boundary.
FlushYieldsOneToken ==
  [][pc = "readEOF" /\ pc' = "idle"
       => /\ Len(out') = Len(out) + 1
          /\ buffer_' = <<>>]_vars

\* The inductive invariant: the properties above, and what they need of the
\* states in between.  During a flush the buffer is one whole frame until
\* that frame is answered; a network that answered once fits for good.
FlushProgress ==
  pc = "readEOF" => \/ returnedTokens = <<>> /\ Len(buffer_) = SampleSize
                    \/ Len(returnedTokens) = 1 /\ buffer_ = <<>>

NetVerdict ==
  /\ Answered > 0 => NetAccepts(mats_)
  /\ pc = "crashed" => ~NetAccepts(mats_)

IInv ==
  /\ TypeOK
  /\ ShortBetweenCalls
  /\ pc = "idle" => returnedTokens = <<>>
  /\ NothingLost
  /\ TokensLabelFrames
  /\ FlushProgress
  /\ NetVerdict

\* To a caller the object is the TokenStream of the network's labels.
Stream == INSTANCE TokenStream WITH
  FrameBytes <- SampleSize,
  Label      <- [f \in Frame |-> TokenOf(Output[f])],
  stream     <- fed,
  tokens     <- out

ImplementsTokenStream == Stream!Spec
=============================================================================
