---------------------------- MODULE TokenStream ----------------------------
(***************************************************************************)
(* What EarpodModel promises its callers, whatever it does inside.         *)
(*                                                                         *)
(* A byte stream is cut into consecutive frames of FrameBytes bytes.  The  *)
(* k-th token handed out is the label of the k-th frame: how the stream    *)
(* was split into calls is invisible, no frame is skipped, repeated or     *)
(* reordered, and a flush completes the last partial frame with zeros.     *)
(***************************************************************************)
EXTENDS Integers, Sequences

CONSTANTS
  Byte,         \* the values of one byte of audio
  Zero,         \* the byte a flush pads with
  FrameBytes,   \* bytes per frame
  Token,        \* the labels
  Label,        \* the label of each frame, a function on Frame
  Chunks        \* the pieces a caller may hand over

VARIABLES
  stream,       \* every byte accepted so far, padding included
  tokens        \* every token handed out so far

vars == <<stream, tokens>>

Frame == [1..FrameBytes -> Byte]

\* The k-th frame of a stream, counting from 1.
FrameAt(s, k) == SubSeq(s, FrameBytes * (k - 1) + 1, FrameBytes * k)

\* n is the number of complete frames of s.
HasFrames(s, n) == FrameBytes * n <= Len(s) /\ Len(s) < FrameBytes * n + FrameBytes

\* Every complete frame accepted so far has been answered.
UpToDate == HasFrames(stream, Len(tokens))

Init == stream = <<>> /\ tokens = <<>>

\* The caller hands over a piece of the stream.
Accept(data) ==
  /\ UpToDate
  /\ stream' = stream \o data
  /\ UNCHANGED tokens

\* The caller ends the stream: a partial frame is filled up with zeros.
Flush ==
  /\ UpToDate
  /\ LET missing == FrameBytes * (Len(tokens) + 1) - Len(stream)
     IN  /\ missing < FrameBytes
         /\ stream' = stream \o [i \in 1..missing |-> Zero]
  /\ UNCHANGED tokens

\* Every complete frame is answered at once.
Deliver ==
  /\ \E n \in 0..Len(stream) :
       /\ HasFrames(stream, n)
       /\ tokens' = [k \in 1..n |-> Label[FrameAt(stream, k)]]
  /\ UNCHANGED stream

Next ==
  \/ \E data \in Chunks : Accept(data)
  \/ Flush
  \/ Deliver

Spec == Init /\ [][Next]_vars
=============================================================================
