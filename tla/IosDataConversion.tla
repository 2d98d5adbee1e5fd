------------------------- MODULE IosDataConversion -------------------------
(***************************************************************************)
(* util/IosDataConversionScript.py: cuts recording.pcm into training       *)
(* samples.  Each line of events.csv is either the shift between the audio *)
(* and the events, or an event; the frame at an event goes to the          *)
(* directory of its class, and what lies between the frame of the event    *)
(* before and this one is cut into frames of noise.                        *)
(*                                                                         *)
(* Times are in samples already, and a file is the byte range of the audio *)
(* it holds.  Python slices count a negative index from the end and stop   *)
(* at the ends of the data: they never fail.                               *)
(***************************************************************************)
EXTENDS Integers, Sequences, SequencesExt

CONSTANTS
  kFrameSize,   \* samples per frame (2205 in the code)
  Inputs,       \* the files: [audio |-> bytes, lines |-> sequence of lines]
  null

kSampleWidth == 2

Kind == {"Shift", "VolUp", "VolDown", "Other", "Malformed"}
Line == [kind : Kind, value : Int]

ASSUME ConversionAssumption ==
  /\ kFrameSize \in Nat \ {0}
  /\ Inputs \subseteq [audio : Nat, lines : Seq(Line)]

VARIABLES
  input,      \* events.csv and the length of recording.pcm
  next,       \* number of the next line
  kShift,
  noiseIdx,   \* first sample not cut yet
  startIdx,   \* first sample of the current event
  pc,         \* "open", "line", "noise", "done", "aborted"
  VolumeUp,   \* the directories: the files in the order they are written,
  VolumeDown, \* each the range of bytes in it
  Noise

vars == <<input, next, kShift, noiseIdx, startIdx, pc, VolumeUp, VolumeDown, Noise>>
dirs == <<VolumeUp, VolumeDown, Noise>>

-----------------------------------------------------------------------------
toBytes(idx) == idx * kSampleWidth

\* Mutant of Clip: the end of the data is no limit.
ClipOpen(i, n) ==
  LET j == IF i < 0 THEN i + n ELSE i
  IN  IF j < 0 THEN 0 ELSE j

\* Where index i of a Python slice ends up in data of length n.
Clip(i, n) ==
  LET j == IF i < 0 THEN i + n ELSE i
  IN  IF j < 0 THEN 0 ELSE IF j > n THEN n ELSE j

\* Mutant of FrameAt: the number of the last byte taken for the end.
FrameAtShort(idx) ==
  LET from == Clip(toBytes(idx), input.audio)
      to   == Clip(toBytes(idx + kFrameSize) - 1, input.audio)
  IN  [from |-> from, to |-> IF to < from THEN from ELSE to]

\* audio[toBytes(idx) : toBytes(idx + kFrameSize)], the bytes from+1 .. to.
FrameAt(idx) ==
  LET from == Clip(toBytes(idx), input.audio)
      to   == Clip(toBytes(idx + kFrameSize), input.audio)
  IN  [from |-> from, to |-> IF to < from THEN from ELSE to]

line == input.lines[next]

Init ==
  /\ input \in Inputs
  /\ next = 1
  /\ kShift = 0
  /\ noiseIdx = 0
  /\ startIdx = null
  /\ pc = "open"
  /\ VolumeUp = <<>> /\ VolumeDown = <<>> /\ Noise = <<>>

\* assert(len(audio) % kSampleWidth == 0)
Open ==
  /\ pc = "open"
  /\ pc' = IF input.audio % kSampleWidth = 0 THEN "line" ELSE "aborted"
  /\ UNCHANGED <<input, next, kShift, noiseIdx, startIdx, dirs>>

Finish ==
  /\ pc = "line"
  /\ next > Len(input.lines)
  /\ pc' = "done"
  /\ UNCHANGED <<input, next, kShift, noiseIdx, startIdx, dirs>>

\* Mutant of NextLine: the line is read again.
SameLine == next

NextLine == next + 1

ShiftLine ==
  /\ pc = "line"
  /\ next <= Len(input.lines)
  /\ line.kind = "Shift"
  /\ kShift' = line.value
  /\ next' = NextLine
  /\ UNCHANGED <<input, noiseIdx, startIdx, pc, dirs>>

\* Two fields are asserted, and a shift that is not zero.
RejectLine ==
  /\ pc = "line"
  /\ next <= Len(input.lines)
  /\ line.kind = "Malformed" \/ (line.kind # "Shift" /\ kShift = 0)
  /\ pc' = "aborted"
  /\ UNCHANGED <<input, next, kShift, noiseIdx, startIdx, dirs>>

EventLine ==
  /\ pc = "line"
  /\ next <= Len(input.lines)
  /\ line.kind \notin {"Shift", "Malformed"}
  /\ kShift # 0
  /\ startIdx' = line.value + kShift
  /\ pc' = "noise"
  /\ UNCHANGED <<input, next, kShift, noiseIdx, dirs>>

\* Mutant of HasRoom: a gap of exactly one frame is used.
HasRoomExact == noiseIdx + kFrameSize <= startIdx

\* Room for a frame of noise, strictly in front of the event.
HasRoom == noiseIdx + kFrameSize < startIdx

\* One iteration of the while loop.
CutNoise ==
  /\ pc = "noise"
  /\ HasRoom
  /\ Noise' = Append(Noise, FrameAt(noiseIdx))
  /\ noiseIdx' = noiseIdx + kFrameSize
  /\ UNCHANGED <<input, next, kShift, startIdx, pc, VolumeUp, VolumeDown>>

\* Mutant of AfterEvent: noise goes on at the start of the event.
AtEvent == startIdx

AfterEvent == startIdx + kFrameSize

\* The event's own frame; an event of neither class fails an assertion.
CutEvent ==
  /\ pc = "noise"
  /\ ~HasRoom
  /\ noiseIdx' = AfterEvent
  /\ next' = NextLine
  /\ pc' = IF line.kind = "Other" THEN "aborted" ELSE "line"
  /\ VolumeUp' = IF line.kind = "VolUp" THEN Append(VolumeUp, FrameAt(startIdx))
                 ELSE VolumeUp
  /\ VolumeDown' = IF line.kind = "VolDown" THEN Append(VolumeDown, FrameAt(startIdx))
                   ELSE VolumeDown
  /\ UNCHANGED <<input, kShift, startIdx, Noise>>

Next == Open \/ Finish \/ ShiftLine \/ RejectLine \/ EventLine \/ CutNoise \/ CutEvent

Spec == Init /\ [][Next]_vars

FairSpec == Spec /\ WF_vars(Next)

-----------------------------------------------------------------------------
(***************************************************************************)
(* Properties.                                                             *)
(***************************************************************************)

IsEvent(l) == l.kind \in {"VolUp", "VolDown"}

\* A capture as the iOS app writes it, behind the shift set by hand: the
\* shift first and only once, then events in the order of their times.
Regular ==
  /\ input.lines # <<>>
  /\ Head(input.lines).kind = "Shift"
  /\ Head(input.lines).value # 0
  /\ \A i \in 2..Len(input.lines) :
       /\ IsEvent(input.lines[i])
       /\ i > 2 => input.lines[i - 1].value <= input.lines[i].value

\* The first samples of the events of a regular capture.
Starts == [i \in 1..(Len(input.lines) - 1) |->
             input.lines[i + 1].value + Head(input.lines).value]

\* The frame of every event lies in the audio.
InAudio ==
  \A i \in DOMAIN Starts :
    0 <= Starts[i] /\ toBytes(Starts[i] + kFrameSize) <= input.audio

Overlap(f, g) == f.from < g.to /\ g.from < f.to

\* The declared types.
TypeOK ==
  /\ next \in 1..(Len(input.lines) + 1)
  /\ kShift \in Int /\ noiseIdx \in Int
  /\ startIdx \in Int \cup {null}
  /\ pc \in {"open", "line", "noise", "done", "aborted"}
  /\ \A dir \in {VolumeUp, VolumeDown, Noise} :
       dir \in Seq([from : 0..input.audio, to : 0..input.audio])

\* Every file holds one whole frame, which is what ConversionScript and the
\* frontend assert of it, if the capture has the frames of its events.
WholeFrames ==
  Regular /\ InAudio =>
    \A f \in ToSet(VolumeUp \o VolumeDown \o Noise) :
      f.to - f.from = toBytes(kFrameSize)

\* No noise is cut where a volume event is, or twice, however close the
\* events are.  It takes a regular capture with no event before the audio:
\* a negative index would cut the event's frame at the other end.
NoiseIsNoise ==
  Regular /\ (\A i \in DOMAIN Starts : 0 <= Starts[i]) =>
    /\ \A i, j \in DOMAIN Noise : i < j => ~Overlap(Noise[i], Noise[j])
    /\ \A f \in ToSet(VolumeUp \o VolumeDown), g \in ToSet(Noise) : ~Overlap(f, g)

\* Frames of noise there is room for between sample p and an event at s; a
\* gap of exactly one frame is left out.
Room(p, s) == IF s > p THEN (s - p - 1) \div kFrameSize ELSE 0

RoomBefore(i) == Room(IF i = 1 THEN 0 ELSE Starts[i - 1] + kFrameSize, Starts[i])

\* The sum of it for the first n events.
RoomUpTo[n \in 0..(Len(input.lines) - 1)] ==
  IF n = 0 THEN 0 ELSE RoomUpTo[n - 1] + RoomBefore(n)

\* A finished run has cut every event and all the noise there was room for.
Complete ==
  pc = "done" /\ Regular =>
    /\ Len(VolumeUp) + Len(VolumeDown) = Len(input.lines) - 1
    /\ Len(Noise) = RoomUpTo[Len(input.lines) - 1]

\* The run ends.
Terminates == <>(pc \in {"done", "aborted"})
=============================================================================
