---------------------- MODULE IosDataConversionProofs ----------------------
(***************************************************************************)
(* Proofs about IosDataConversion for every frame size and every capture:  *)
(* what the samples of a regular capture are made of.                      *)
(***************************************************************************)
EXTENDS IosDataConversion, SequenceTheorems, WellFoundedInduction, TLAPS

(***************************************************************************)
(* Lines and slices.                                                       *)
(***************************************************************************)

File == [from : 0..input.audio, to : 0..input.audio]

\* What the assumption says of a capture.
LEMMA InputType ==
  ASSUME NEW x \in Inputs
  PROVE  /\ x.audio \in Nat /\ x.lines \in Seq(Line) /\ Len(x.lines) \in Nat
         /\ \A k \in 1..Len(x.lines) : x.lines[k] \in Line /\ x.lines[k].value \in Int
<1>1. x.audio \in Nat /\ x.lines \in Seq(Line)
  BY ConversionAssumption
<1>2. \A k \in 1..Len(x.lines) : x.lines[k] \in Line
  BY <1>1, LenProperties
<1> QED
  BY <1>1, <1>2, LenProperties DEF Line

\* A frame has at least one byte.
LEMMA Width ==
  /\ kFrameSize \in Nat \ {0}
  /\ \A n \in Int : toBytes(n) = 2 * n /\ toBytes(n) \in Int
BY ConversionAssumption DEF toBytes, kSampleWidth

\* Where the indices of a slice end up.
LEMMA ClipFacts ==
  ASSUME NEW i \in Int, NEW n \in Nat
  PROVE  /\ Clip(i, n) \in 0..n
         /\ i >= 0 => Clip(i, n) = IF i > n THEN n ELSE i
BY DEF Clip

\* A file is a range of the audio.
LEMMA FrameType ==
  ASSUME input \in Inputs, NEW idx \in Int
  PROVE  FrameAt(idx) \in File /\ FrameAt(idx).from <= FrameAt(idx).to
<1>1. idx + kFrameSize \in Int /\ input.audio \in Nat
  BY Width, InputType
<1>3. toBytes(idx) \in Int /\ toBytes(idx + kFrameSize) \in Int
  BY <1>1, Width
<1>2. Clip(toBytes(idx), input.audio) \in 0..input.audio
      /\ Clip(toBytes(idx + kFrameSize), input.audio) \in 0..input.audio
  BY <1>1, <1>3, ClipFacts
<1> QED
  BY <1>2 DEF FrameAt, File

\* It begins at its index or at the end of the audio, and is not longer than
\* a frame.
LEMMA FrameBounds ==
  ASSUME input \in Inputs, NEW idx \in Nat
  PROVE  /\ FrameAt(idx).to <= toBytes(idx + kFrameSize)
         /\ FrameAt(idx).from = toBytes(idx)
            \/ (FrameAt(idx).from = input.audio /\ input.audio <= toBytes(idx))
<1> DEFINE n == input.audio
<1>0. n \in Nat /\ kFrameSize \in Nat \ {0}
  BY Width, InputType
<1>1. /\ toBytes(idx) = 2 * idx /\ toBytes(idx + kFrameSize) = 2 * idx + 2 * kFrameSize
      /\ n \in Nat /\ kFrameSize \in Nat \ {0}
  BY <1>0 DEF toBytes, kSampleWidth
<1> DEFINE b == toBytes(idx)
           e == toBytes(idx + kFrameSize)
<1>2. b \in Nat /\ e \in Nat /\ b <= e
  BY <1>1
<1> HIDE DEF b, e, n
<1>3. /\ Clip(b, n) = IF b > n THEN n ELSE b
      /\ Clip(e, n) = IF e > n THEN n ELSE e
  BY <1>0, <1>2 DEF Clip
<1>4. FrameAt(idx) = [from |-> Clip(b, n), to |-> IF Clip(e, n) < Clip(b, n) THEN Clip(b, n) ELSE Clip(e, n)]
  BY DEF FrameAt, b, e, n
<1>5. FrameAt(idx).to <= e
  BY <1>1, <1>2, <1>3, <1>4
<1>6. FrameAt(idx).from = b \/ (FrameAt(idx).from = n /\ n <= b)
  BY <1>1, <1>2, <1>3, <1>4
<1> QED
  BY <1>5, <1>6 DEF b, e, n

\* Inside the audio it is a whole frame.
LEMMA FrameWhole ==
  ASSUME input \in Inputs, NEW idx \in Nat, toBytes(idx + kFrameSize) <= input.audio
  PROVE  FrameAt(idx).to - FrameAt(idx).from = toBytes(kFrameSize)
<1> DEFINE n == input.audio
           b == toBytes(idx)
           e == toBytes(idx + kFrameSize)
<1>0. n \in Nat /\ kFrameSize \in Nat \ {0}
  BY Width, InputType
<1>1. b = 2 * idx /\ e = 2 * idx + 2 * kFrameSize /\ toBytes(kFrameSize) = 2 * kFrameSize
  BY <1>0 DEF toBytes, kSampleWidth
<1>2. b \in Nat /\ e \in Nat /\ b <= e /\ e <= n
  BY <1>0, <1>1
<1> HIDE DEF b, e, n
<1>3. Clip(b, n) = b /\ Clip(e, n) = e
  BY <1>0, <1>2 DEF Clip
<1>4. FrameAt(idx) = [from |-> Clip(b, n), to |-> IF Clip(e, n) < Clip(b, n) THEN Clip(b, n) ELSE Clip(e, n)]
  BY DEF FrameAt, b, e, n
<1>5. FrameAt(idx).to = e /\ FrameAt(idx).from = b
  BY <1>2, <1>3, <1>4
<1> QED
  BY <1>0, <1>1, <1>5

\* The events of a regular capture.
LEMMA EventLines ==
  ASSUME input \in Inputs, Regular
  PROVE  /\ input.lines[1].kind = "Shift" /\ input.lines[1].value \in Int \ {0}
         /\ Len(input.lines) \in Nat \ {0} /\ Head(input.lines) = input.lines[1]
         /\ DOMAIN Starts = 1..(Len(input.lines) - 1)
         /\ \A k \in 2..Len(input.lines) :
              /\ IsEvent(input.lines[k])
              /\ Starts[k - 1] = input.lines[k].value + input.lines[1].value
              /\ Starts[k - 1] \in Int
              /\ k > 2 => Starts[k - 2] <= Starts[k - 1]
<1> DEFINE l == input.lines
<1>1. /\ l \in Seq(Line) /\ Len(l) \in Nat /\ l # <<>>
      /\ \A k \in 1..Len(l) : l[k].value \in Int
  BY InputType DEF Regular
<1>2. Len(l) \in Nat \ {0} /\ Head(l) = l[1]
  BY <1>1
<1>3. l[1].kind = "Shift" /\ l[1].value \in Int \ {0}
  BY <1>1, <1>2 DEF Regular
<1>4. /\ DOMAIN Starts = 1..(Len(l) - 1)
      /\ \A j \in 1..(Len(l) - 1) : Starts[j] = l[j + 1].value + l[1].value
  BY <1>2 DEF Starts
<1>5. ASSUME NEW k \in 2..Len(l)
      PROVE  /\ IsEvent(l[k]) /\ Starts[k - 1] = l[k].value + l[1].value /\ Starts[k - 1] \in Int
             /\ k > 2 => Starts[k - 2] <= Starts[k - 1]
  <2>1. k - 1 \in 1..(Len(l) - 1) /\ (k - 1) + 1 = k /\ k \in 1..Len(l)
    BY <1>2
  <2>2. Starts[k - 1] = l[k].value + l[1].value
    BY <1>4, <2>1
  <2>3. IsEvent(l[k]) /\ (k > 2 => l[k - 1].value <= l[k].value)
    BY DEF Regular
  <2>4. ASSUME k > 2 PROVE Starts[k - 2] <= Starts[k - 1]
    <3>1. k - 2 \in 1..(Len(l) - 1) /\ (k - 2) + 1 = k - 1 /\ k - 1 \in 1..Len(l)
      BY <2>1, <2>4
    <3>2. Starts[k - 2] = l[k - 1].value + l[1].value
      BY <1>4, <3>1
    <3> QED
      BY <1>1, <1>3, <2>1, <2>2, <2>3, <2>4, <3>1, <3>2
  <2>5. l[k].value \in Int
    BY <1>1, <2>1
  <2>6. Starts[k - 1] \in Int
    BY <1>3, <2>2, <2>5
  <2> QED
    BY <2>2, <2>3, <2>4, <2>6
<1> QED
  BY <1>2, <1>3, <1>4, <1>5

(***************************************************************************)
(* The inductive invariant.                                                *)
(***************************************************************************)

\* The line in hand, and the event of it.
InLine ==
  /\ pc = "noise" => /\ next <= Len(input.lines) /\ startIdx \in Int
                     /\ line.kind \notin {"Shift", "Malformed"}

Empty == VolumeUp = <<>> /\ VolumeDown = <<>> /\ Noise = <<>>

\* The events of a regular capture are cut in their order, each at its start.
InTurn ==
  Regular =>
    /\ next = 1 => pc \in {"open", "line", "aborted"}
    /\ next <= 2 /\ pc # "noise" => Empty /\ noiseIdx = 0
    /\ pc = "open" => next = 1
    /\ next >= 2 => kShift = input.lines[1].value
    /\ pc = "noise" => next >= 2 /\ startIdx = Starts[next - 1]
    /\ pc = "line" /\ next >= 3 => startIdx = Starts[next - 2] /\ noiseIdx = startIdx + kFrameSize

\* Whatever is cut lies before noiseIdx, and noise before the event as well:
\* noiseIdx may be behind the start of an event that is close to the one
\* before, noise is not.
Behind ==
  /\ noiseIdx >= 0
  /\ pc = "noise" => noiseIdx <= startIdx + kFrameSize
  /\ \A i \in DOMAIN Noise : /\ Noise[i].to <= toBytes(noiseIdx)
                             /\ startIdx \in Int /\ Noise[i].to <= toBytes(startIdx)
  /\ \A i \in DOMAIN VolumeUp : VolumeUp[i].to <= toBytes(noiseIdx)
  /\ \A i \in DOMAIN VolumeDown : VolumeDown[i].to <= toBytes(noiseIdx)

Apart(dir) == \A i \in DOMAIN dir, j \in DOMAIN Noise : ~Overlap(dir[i], Noise[j])

NotBefore == \A i \in DOMAIN Starts : 0 <= Starts[i]

Laid ==
  Regular /\ NotBefore =>
    /\ Behind
    /\ \A i, j \in DOMAIN Noise : i < j => ~Overlap(Noise[i], Noise[j])
    /\ Apart(VolumeUp) /\ Apart(VolumeDown)

Whole(dir) == \A i \in DOMAIN dir : dir[i].to - dir[i].from = toBytes(kFrameSize)

AllWhole == Regular /\ InAudio => Whole(VolumeUp) /\ Whole(VolumeDown) /\ Whole(Noise)

IInv == input \in Inputs /\ TypeOK /\ InLine /\ InTurn /\ Laid /\ AllWhole

\* Before the script runs nothing is cut.
LEMMA InvInit == Init => IInv
<1> SUFFICES ASSUME Init PROVE IInv
  OBVIOUS
<1>1. input \in Inputs /\ input.audio \in Nat /\ Len(input.lines) \in Nat
  BY InputType DEF Init
<1>2. \A S : <<>> \in Seq(S)
  OBVIOUS
<1>3. TypeOK
  BY <1>1, <1>2 DEF Init, TypeOK
<1>4. InLine /\ InTurn
  BY DEF Init, InLine, InTurn, Empty
<1>5. toBytes(0) = 0 /\ DOMAIN <<>> = {}
  BY Width
<1>6. Laid
  BY <1>5 DEF Init, Laid, Behind, Apart
<1>7. AllWhole
  BY <1>5 DEF Init, AllWhole, Whole
<1> QED
  BY <1>1, <1>3, <1>4, <1>6, <1>7 DEF IInv

\* One more file.
LEMMA OneMore ==
  ASSUME NEW S, NEW dir \in Seq(S), NEW f \in S
  PROVE  /\ Append(dir, f) \in Seq(S)
         /\ \A i \in DOMAIN Append(dir, f) :
              \/ i \in DOMAIN dir /\ i <= Len(dir) /\ Append(dir, f)[i] = dir[i]
              \/ i = Len(dir) + 1 /\ Append(dir, f)[i] = f
<1>1. Append(dir, f) \in Seq(S) /\ Len(Append(dir, f)) = Len(dir) + 1 /\ Len(dir) \in Nat
  BY AppendProperties, LenProperties
<1>2. DOMAIN Append(dir, f) = 1..(Len(dir) + 1) /\ DOMAIN dir = 1..Len(dir)
  BY <1>1, LenProperties
<1>3. ASSUME NEW i \in 1..(Len(dir) + 1)
      PROVE  \/ i \in DOMAIN dir /\ i <= Len(dir) /\ Append(dir, f)[i] = dir[i]
             \/ i = Len(dir) + 1 /\ Append(dir, f)[i] = f
  <2>1. CASE i <= Len(dir)
    BY <2>1, <1>1, <1>2, AppendProperties
  <2>2. CASE ~(i <= Len(dir))
    BY <2>2, <1>1, <1>2, AppendProperties
  <2> QED
    BY <2>1, <2>2
<1> QED
  BY <1>1, <1>2, <1>3

\* No file that ends by an index overlaps the frame at it.
LEMMA Lands ==
  ASSUME input \in Inputs, NEW idx \in Nat, NEW g \in File, g.to <= toBytes(idx)
  PROVE  ~Overlap(g, FrameAt(idx)) /\ ~Overlap(FrameAt(idx), g)
<1> DEFINE f == FrameAt(idx)
           b == toBytes(idx)
<1>1. input.audio \in Nat /\ idx \in Int
  BY InputType
<1>2. b \in Int
  BY <1>1, Width
<1>3. f.from = b \/ (f.from = input.audio /\ input.audio <= b)
  BY FrameBounds
<1>4. f.from \in Int /\ g.to \in Int /\ g.to <= input.audio /\ g.to <= b
  BY <1>1, FrameType DEF File
<1> HIDE DEF f, b
<1>5. g.to <= f.from /\ ~(f.from < g.to)
  BY <1>1, <1>2, <1>3, <1>4
<1> QED
  BY <1>5 DEF Overlap, f

\* What a capture says does not change.
LEMMA SameInput ==
  ASSUME input' = input
  PROVE  /\ Regular' = Regular /\ InAudio' = InAudio /\ NotBefore' = NotBefore
         /\ Starts' = Starts /\ File' = File
BY DEF Regular, InAudio, NotBefore, Starts, File

\* The steps that cut nothing.
LEMMA NoCut ==
  ASSUME IInv, UNCHANGED <<input, noiseIdx, dirs>>
  PROVE  /\ input' \in Inputs /\ AllWhole'
         /\ \A dir \in {VolumeUp, VolumeDown, Noise}' : dir \in Seq(File')
         /\ Empty' = Empty /\ (Apart(VolumeUp) => Apart(VolumeUp)')
         /\ (Apart(VolumeDown) => Apart(VolumeDown)')
<1>1. /\ input' = input /\ noiseIdx' = noiseIdx
      /\ VolumeUp' = VolumeUp /\ VolumeDown' = VolumeDown /\ Noise' = Noise
  BY DEF dirs
<1>2. AllWhole'
  BY <1>1, SameInput DEF IInv, AllWhole, Whole
<1>3. \A dir \in {VolumeUp, VolumeDown, Noise}' : dir \in Seq(File')
  BY <1>1, SameInput DEF IInv, TypeOK, File
<1>4. /\ (Apart(VolumeUp) => Apart(VolumeUp)')
      /\ (Apart(VolumeDown) => Apart(VolumeDown)')
  BY <1>1 DEF Apart
<1> QED
  BY <1>1, <1>2, <1>3, <1>4 DEF IInv, Empty

\* The types, for the steps below.
LEMMA TypeFacts ==
  ASSUME IInv
  PROVE  /\ input \in Inputs /\ input.audio \in Nat /\ Len(input.lines) \in Nat
         /\ next \in 1..(Len(input.lines) + 1) /\ kShift \in Int /\ noiseIdx \in Int
         /\ VolumeUp \in Seq(File) /\ VolumeDown \in Seq(File) /\ Noise \in Seq(File)
         /\ next <= Len(input.lines) => line \in Line /\ line.value \in Int
<1>1. input \in Inputs /\ next \in 1..(Len(input.lines) + 1)
      /\ kShift \in Int /\ noiseIdx \in Int
      /\ VolumeUp \in Seq(File) /\ VolumeDown \in Seq(File) /\ Noise \in Seq(File)
  BY DEF IInv, TypeOK, File
<1>2. input.audio \in Nat /\ Len(input.lines) \in Nat
  BY <1>1, InputType
<1>3. next <= Len(input.lines) => line \in Line /\ line.value \in Int
  BY <1>1, <1>2, InputType DEF line
<1> QED
  BY <1>1, <1>2, <1>3

\* Opening the capture keeps the invariant,
LEMMA OpenStep == IInv /\ Open => IInv'
<1> SUFFICES ASSUME IInv, Open PROVE IInv'
  OBVIOUS
<1>1. /\ UNCHANGED <<input, noiseIdx, dirs>> /\ pc = "open" /\ pc' \in {"line", "aborted"}
      /\ UNCHANGED <<next, kShift, startIdx>>
  BY DEF Open
<1>2. TypeOK'
  BY <1>1, NoCut DEF TypeOK, IInv, File
<1>3. InLine'
  BY <1>1 DEF InLine
<1>4. InTurn'
  <2>1. ASSUME Regular PROVE next = 1 /\ Empty /\ noiseIdx = 0
    BY <1>1, <2>1 DEF IInv, InTurn
  <2>2. Regular' = Regular /\ Empty' = Empty /\ noiseIdx' = noiseIdx /\ next' = next
    BY <1>1, NoCut, SameInput
  <2>3. ASSUME Regular'
        PROVE  next' = 1 /\ Empty' /\ noiseIdx' = 0
    BY <2>1, <2>2, <2>3
  <2> QED
    BY <1>1, <2>3 DEF InTurn
<1>5. Laid'
  BY <1>1, NoCut, SameInput DEF IInv, Laid, Behind, dirs
<1> QED
  BY <1>1, <1>2, <1>3, <1>4, <1>5, NoCut DEF IInv

\* so does the end of the script,
LEMMA FinishStep == IInv /\ Finish => IInv'
<1> SUFFICES ASSUME IInv, Finish PROVE IInv'
  OBVIOUS
<1>1. /\ UNCHANGED <<input, noiseIdx, dirs>> /\ pc = "line" /\ pc' = "done"
      /\ next > Len(input.lines) /\ UNCHANGED <<next, kShift, startIdx>>
  BY DEF Finish
<1>2. TypeOK'
  BY <1>1, NoCut DEF TypeOK, IInv, File
<1>3. InLine'
  BY <1>1 DEF InLine
<1>4. ASSUME Regular PROVE next # 1
  BY <1>1, <1>4, EventLines, TypeFacts DEF IInv
<1>5. InTurn'
  BY <1>1, <1>4, NoCut, SameInput DEF IInv, InTurn, Empty, dirs
<1>6. Laid'
  BY <1>1, NoCut, SameInput DEF IInv, Laid, Behind, dirs
<1> QED
  BY <1>1, <1>2, <1>3, <1>5, <1>6, NoCut DEF IInv

\* so does a line the script rejects.
LEMMA RejectStep == IInv /\ RejectLine => IInv'
<1> SUFFICES ASSUME IInv, RejectLine PROVE IInv'
  OBVIOUS
<1>1. /\ UNCHANGED <<input, noiseIdx, dirs>> /\ pc = "line" /\ pc' = "aborted"
      /\ UNCHANGED <<next, kShift, startIdx>>
  BY DEF RejectLine
<1>2. TypeOK'
  BY <1>1, NoCut DEF TypeOK, IInv, File
<1>3. InLine'
  BY <1>1 DEF InLine
<1>4. InTurn'
  BY <1>1, NoCut, SameInput DEF IInv, InTurn, Empty, dirs
<1>5. Laid'
  BY <1>1, NoCut, SameInput DEF IInv, Laid, Behind, dirs
<1> QED
  BY <1>1, <1>2, <1>3, <1>4, <1>5, NoCut DEF IInv

\* A regular capture has no shift after its first line.
LEMMA ShiftStep == IInv /\ ShiftLine => IInv'
<1> SUFFICES ASSUME IInv, ShiftLine PROVE IInv'
  OBVIOUS
<1>1. /\ UNCHANGED <<input, noiseIdx, dirs>> /\ pc = "line" /\ pc' = "line"
      /\ next <= Len(input.lines) /\ line.kind = "Shift" /\ kShift' = line.value
      /\ next' = next + 1 /\ UNCHANGED startIdx
  BY DEF ShiftLine, NextLine
<1>2. /\ next \in 1..Len(input.lines) /\ kShift' \in Int /\ Len(input.lines) \in Nat
      /\ next' \in 1..(Len(input.lines) + 1)
  BY <1>1, TypeFacts
<1>3. TypeOK'
  BY <1>1, <1>2, NoCut DEF TypeOK, IInv, File
<1>4. InLine'
  BY <1>1 DEF InLine
<1>5. ASSUME Regular PROVE next = 1 /\ kShift' = input.lines[1].value
  <2>1. next \in 2..Len(input.lines) => IsEvent(line)
    BY <1>5, EventLines DEF IInv, line
  <2> QED
    BY <1>1, <1>2, <2>1 DEF IsEvent, line
<1>6. InTurn'
  <2>1. ASSUME Regular PROVE Empty /\ noiseIdx = 0
    BY <1>1, <1>5, <2>1 DEF IInv, InTurn
  <2>2. Regular' = Regular /\ Empty' = Empty /\ UNCHANGED <<noiseIdx, input>>
    BY <1>1, NoCut, SameInput
  <2>3. ASSUME Regular'
        PROVE  next' = 2 /\ Empty' /\ noiseIdx' = 0 /\ kShift' = input'.lines[1].value
    BY <1>1, <1>5, <2>1, <2>2, <2>3
  <2> QED
    BY <1>1, <2>3 DEF InTurn
<1>7. Laid'
  BY <1>1, NoCut, SameInput DEF IInv, Laid, Behind, dirs
<1> QED
  BY <1>1, <1>3, <1>4, <1>6, <1>7, NoCut DEF IInv

\* An event is not earlier than the one before it.
LEMMA EventStep == IInv /\ EventLine => IInv'
<1> SUFFICES ASSUME IInv, EventLine PROVE IInv'
  OBVIOUS
<1>1. /\ UNCHANGED <<input, noiseIdx, dirs>> /\ pc = "line" /\ pc' = "noise"
      /\ next <= Len(input.lines) /\ line.kind \notin {"Shift", "Malformed"}
      /\ startIdx' = line.value + kShift /\ UNCHANGED <<next, kShift>>
  BY DEF EventLine
<1>2. next \in 1..Len(input.lines) /\ startIdx' \in Int /\ Len(input.lines) \in Nat
      /\ noiseIdx \in Int /\ kFrameSize \in Nat \ {0}
  <2>1. next \in 1..(Len(input.lines) + 1) /\ Len(input.lines) \in Nat /\ line.value \in Int
        /\ kShift \in Int /\ noiseIdx \in Int
    BY <1>1, TypeFacts
  <2>2. kFrameSize \in Nat \ {0}
    BY Width
  <2> QED
    BY <1>1, <2>1, <2>2
<1>3. TypeOK'
  BY <1>1, <1>2, NoCut DEF TypeOK, IInv, File
<1>4. InLine'
  BY <1>1, <1>2 DEF InLine, line
<1>5. ASSUME Regular
      PROVE  /\ next >= 2 /\ startIdx' = Starts[next - 1] /\ next - 1 \in DOMAIN Starts
             /\ next > 2 => Starts[next - 2] \in Int /\ startIdx = Starts[next - 2]
                            /\ startIdx <= startIdx' /\ noiseIdx = startIdx + kFrameSize
  <2>1. next # 1
    BY <1>1, <1>5, EventLines DEF IInv, line
  <2>2. next \in 2..Len(input.lines) /\ kShift = input.lines[1].value
    BY <1>1, <1>2, <1>5, <2>1 DEF IInv, InTurn
  <2>3. startIdx' = Starts[next - 1]
    BY <1>1, <1>5, <2>2, EventLines DEF IInv, line
  <2>4. next - 1 \in DOMAIN Starts
    BY <1>2, <1>5, <2>2, EventLines DEF IInv
  <2>5. ASSUME next > 2
        PROVE  Starts[next - 2] \in Int /\ startIdx = Starts[next - 2]
               /\ startIdx <= startIdx' /\ noiseIdx = startIdx + kFrameSize
    <3>1. next >= 3 /\ next - 1 \in 2..Len(input.lines) /\ (next - 1) - 1 = next - 2
      BY <1>2, <2>2, <2>5
    <3>2. startIdx = Starts[next - 2] /\ noiseIdx = startIdx + kFrameSize
      BY <1>1, <1>5, <3>1 DEF IInv, InTurn
    <3>3. \A k \in 2..Len(input.lines) : Starts[k - 1] \in Int /\ (k > 2 => Starts[k - 2] <= Starts[k - 1])
      BY <1>5, EventLines DEF IInv
    <3>4. Starts[next - 2] <= Starts[next - 1]
      BY <2>2, <2>5, <3>3
    <3>5. Starts[next - 2] \in Int
      BY <3>1, <3>3
    <3> QED
      BY <2>3, <3>2, <3>4, <3>5
  <2> QED
    BY <2>2, <2>3, <2>4, <2>5
<1>6. InTurn'
  <2>1. Regular' = Regular /\ Starts' = Starts /\ UNCHANGED <<next, kShift, input>>
    BY <1>1, SameInput
  <2>2. ASSUME Regular'
        PROVE  next' >= 2 /\ kShift' = input'.lines[1].value /\ startIdx' = Starts'[next' - 1]
    <3>1. Regular
      BY <2>1, <2>2
    <3>2. next >= 2 /\ startIdx' = Starts[next - 1] /\ kShift = input.lines[1].value
      BY <1>5, <3>1 DEF IInv, InTurn
    <3> QED
      BY <2>1, <3>2
  <2>3. next' # 1 \/ ~Regular'
    BY <1>2, <2>1, <2>2
  <2> QED
    BY <1>1, <2>2, <2>3 DEF InTurn
<1>7. ASSUME Regular, NotBefore PROVE Behind'
  <2>1. startIdx' >= 0 /\ noiseIdx >= 0
    BY <1>5, <1>7 DEF NotBefore, IInv, Laid, Behind
  <2>2. noiseIdx <= startIdx' + kFrameSize
    <3>1. CASE next = 2
      BY <1>1, <1>2, <1>7, <2>1, <3>1 DEF IInv, InTurn
    <3>2. CASE next > 2
      BY <1>2, <1>5, <1>7, <3>2
    <3> QED
      BY <1>2, <1>5, <1>7, <3>1, <3>2
  <2>3. \A i \in DOMAIN Noise : Noise[i].to <= toBytes(startIdx')
    <3>1. CASE next = 2
      BY <1>1, <1>7, <3>1 DEF IInv, InTurn, Empty
    <3>2. CASE next > 2
      <4>1. startIdx \in Int /\ startIdx <= startIdx'
        BY <1>5, <1>7, <3>2
      <4>2. toBytes(startIdx) = 2 * startIdx /\ toBytes(startIdx') = 2 * startIdx'
        BY <1>2, <4>1, Width
      <4>3. \A i \in DOMAIN Noise : Noise[i].to <= toBytes(startIdx) /\ Noise[i].to \in Int
        <5>1. \A i \in DOMAIN Noise : Noise[i] \in File
          BY TypeFacts, LenProperties
        <5> QED
          BY <1>7, <5>1, TypeFacts DEF IInv, Laid, Behind, File
      <4> QED
        BY <1>2, <4>1, <4>2, <4>3
    <3> QED
      BY <1>2, <1>5, <1>7, <3>1, <3>2
  <2> QED
    BY <1>1, <1>2, <1>7, <2>2, <2>3 DEF IInv, Laid, Behind, dirs, toBytes
<1>8. Laid'
  BY <1>1, <1>7, NoCut, SameInput DEF IInv, Laid, dirs
<1> QED
  BY <1>1, <1>3, <1>4, <1>6, <1>8, NoCut DEF IInv

\* What the files are, in integers.
LEMMA FileFacts ==
  ASSUME IInv, NEW dir \in {VolumeUp, VolumeDown, Noise}, NEW i \in DOMAIN dir
  PROVE  dir[i] \in File /\ dir[i].to \in Int /\ dir[i].from \in Int
<1>1. dir[i] \in File
  BY TypeFacts, LenProperties
<1> QED
  BY <1>1, TypeFacts DEF File

\* Noise lies between the end of the event before and the start of this one.
LEMMA NoiseStep == IInv /\ CutNoise => IInv'
<1> SUFFICES ASSUME IInv, CutNoise PROVE IInv'
  OBVIOUS
<1> DEFINE f == FrameAt(noiseIdx)
<1>1. /\ pc = "noise" /\ noiseIdx + kFrameSize < startIdx /\ Noise' = Append(Noise, f)
      /\ noiseIdx' = noiseIdx + kFrameSize
      /\ UNCHANGED <<input, next, kShift, startIdx, pc, VolumeUp, VolumeDown>>
  BY DEF CutNoise, HasRoom
<1>2. /\ next \in 1..Len(input.lines) /\ startIdx \in Int /\ noiseIdx \in Int
      /\ Noise \in Seq(File) /\ input \in Inputs
  BY <1>1, TypeFacts DEF IInv, InLine
<1>3. kFrameSize \in Nat \ {0} /\ noiseIdx' \in Int
  BY <1>1, <1>2, Width
<1>4. f \in File /\ f.from <= f.to
  BY <1>2, FrameType
<1> HIDE DEF f
<1>5. /\ Noise' \in Seq(File)
      /\ \A i \in DOMAIN Noise' :
           \/ i \in DOMAIN Noise /\ i <= Len(Noise) /\ Noise'[i] = Noise[i]
           \/ i = Len(Noise) + 1 /\ Noise'[i] = f
  BY <1>1, <1>2, <1>4, OneMore
<1>6. TypeOK'
  BY <1>1, <1>3, <1>5 DEF IInv, TypeOK, File
<1>7. InLine'
  BY <1>1 DEF IInv, InLine, line
<1>8. InTurn'
  <2>1. Regular' = Regular /\ Starts' = Starts
    BY <1>1, SameInput
  <2>2. ASSUME Regular' PROVE next >= 2 /\ startIdx = Starts[next - 1] /\ kShift = input.lines[1].value
    BY <1>1, <2>1, <2>2 DEF IInv, InTurn
  <2>3. ASSUME Regular' PROVE next # 1
    BY <1>2, <2>2, <2>3
  <2> QED
    BY <1>1, <2>1, <2>2, <2>3 DEF InTurn
<1>9. ASSUME Regular, NotBefore
      PROVE  /\ noiseIdx \in Nat /\ Behind'
             /\ \A dir \in {VolumeUp, VolumeDown, Noise} : \A i \in DOMAIN dir :
                  ~Overlap(dir[i], f)
  <2>1. noiseIdx \in Nat /\ noiseIdx' >= 0 /\ noiseIdx' <= startIdx
    BY <1>1, <1>2, <1>3, <1>9 DEF IInv, Laid, Behind
  <2>2. \A dir \in {VolumeUp, VolumeDown, Noise} : \A i \in DOMAIN dir :
          dir[i].to <= toBytes(noiseIdx) /\ dir[i] \in File /\ dir[i].to \in Int
    BY <1>9, FileFacts DEF IInv, Laid, Behind
  <2>3. /\ toBytes(noiseIdx) = 2 * noiseIdx /\ toBytes(noiseIdx') = 2 * noiseIdx'
        /\ toBytes(startIdx) = 2 * startIdx
    BY <1>2, <1>3, Width
  <2>4. \A dir \in {VolumeUp, VolumeDown, Noise} : \A i \in DOMAIN dir :
          dir[i].to <= toBytes(noiseIdx')
    BY <1>1, <1>2, <1>3, <2>2, <2>3
  <2>5. f.to <= toBytes(noiseIdx') /\ f.to \in Int
    BY <1>1, <1>2, <1>4, <2>1, FrameBounds, InputType DEF f, File
  <2>6. f.to <= toBytes(startIdx)
    BY <1>2, <1>3, <2>1, <2>3, <2>5
  <2>7. \A i \in DOMAIN Noise' : Noise'[i].to <= toBytes(noiseIdx') /\ Noise'[i].to <= toBytes(startIdx)
    BY <1>5, <1>9, <2>4, <2>5, <2>6 DEF IInv, Laid, Behind
  <2>8. Behind'
    <3>1. noiseIdx' <= startIdx + kFrameSize
      BY <1>2, <1>3, <2>1
    <3> QED
      BY <1>1, <1>2, <2>1, <2>4, <2>7, <3>1 DEF Behind, toBytes
  <2>9. \A dir \in {VolumeUp, VolumeDown, Noise} : \A i \in DOMAIN dir : ~Overlap(dir[i], f)
    BY <1>2, <2>1, <2>2, Lands DEF f
  <2> QED
    BY <2>1, <2>8, <2>9
<1>10. Laid'
  <2> SUFFICES ASSUME Regular, NotBefore
               PROVE  /\ Behind'
                      /\ (\A i, j \in DOMAIN Noise : i < j => ~Overlap(Noise[i], Noise[j]))'
                      /\ Apart(VolumeUp)' /\ Apart(VolumeDown)'
    BY <1>1, SameInput DEF Laid
  <2>1. ASSUME NEW i \in DOMAIN Noise', NEW j \in DOMAIN Noise', i < j
        PROVE  ~Overlap(Noise'[i], Noise'[j])
    <3>1. i \in Int /\ j \in Int /\ Len(Noise) \in Nat /\ j <= Len(Noise) + 1
      <4>1. DOMAIN Noise' = 1..Len(Noise') /\ Len(Noise') \in Nat /\ Len(Noise) \in Nat
        BY <1>2, <1>5, LenProperties
      <4> QED
        BY <1>5, <4>1
    <3>2. i \in DOMAIN Noise /\ Noise'[i] = Noise[i]
      BY <1>5, <2>1, <3>1
    <3>3. CASE j \in DOMAIN Noise /\ Noise'[j] = Noise[j]
      BY <2>1, <3>2, <3>3 DEF IInv, Laid
    <3>4. CASE Noise'[j] = f
      BY <1>9, <3>2, <3>4
    <3> QED
      BY <1>5, <3>3, <3>4
  <2>2. Apart(VolumeUp)'
    BY <1>1, <1>5, <1>9 DEF IInv, Laid, Apart
  <2>3. Apart(VolumeDown)'
    BY <1>1, <1>5, <1>9 DEF IInv, Laid, Apart
  <2>4. (\A i, j \in DOMAIN Noise : i < j => ~Overlap(Noise[i], Noise[j]))'
    BY <2>1 DEF Overlap
  <2> QED
    BY <1>9, <2>2, <2>3, <2>4
<1>11. AllWhole'
  <2> SUFFICES ASSUME Regular, InAudio
               PROVE  Whole(VolumeUp)' /\ Whole(VolumeDown)' /\ Whole(Noise)'
    BY <1>1, SameInput DEF AllWhole
  <2>1. NotBefore
    BY DEF InAudio, NotBefore
  <2>2. next >= 2 /\ startIdx = Starts[next - 1]
    BY <1>1 DEF IInv, InTurn
  <2>3. next - 1 \in DOMAIN Starts
    BY <1>2, <2>2, EventLines
  <2>4. toBytes(startIdx + kFrameSize) <= input.audio
    BY <2>2, <2>3 DEF InAudio
  <2>5. /\ toBytes(startIdx + kFrameSize) = 2 * startIdx + 2 * kFrameSize
        /\ toBytes(noiseIdx + kFrameSize) = 2 * noiseIdx + 2 * kFrameSize
    BY <1>2, <1>3 DEF toBytes, kSampleWidth
  <2>6. noiseIdx \in Nat /\ toBytes(noiseIdx + kFrameSize) <= input.audio
    BY <1>1, <1>2, <1>3, <1>9, <2>1, <2>4, <2>5, InputType
  <2>7. f.to - f.from = toBytes(kFrameSize)
    BY <1>2, <2>6, FrameWhole DEF f
  <2> QED
    BY <1>1, <1>5, <2>7 DEF IInv, AllWhole, Whole, toBytes
<1> QED
  BY <1>1, <1>2, <1>6, <1>7, <1>8, <1>10, <1>11 DEF IInv

\* A file more for the event, in the directory of its class.
LEMMA EventFile ==
  ASSUME IInv, NEW dir \in {VolumeUp, VolumeDown}, NEW new, NEW f \in File,
         new \in {dir, Append(dir, f)}
  PROVE  /\ new \in Seq(File)
         /\ \A i \in DOMAIN new : (i \in DOMAIN dir /\ new[i] = dir[i]) \/ new[i] = f
<1>1. dir \in Seq(File)
  BY TypeFacts
<1> QED
  BY <1>1, OneMore

\* The frame of the event starts behind the noise in front of it.
LEMMA CutStep == IInv /\ CutEvent => IInv'
<1> SUFFICES ASSUME IInv, CutEvent PROVE IInv'
  OBVIOUS
<1> DEFINE f == FrameAt(startIdx)
<1>1. /\ pc = "noise" /\ ~(noiseIdx + kFrameSize < startIdx)
      /\ noiseIdx' = startIdx + kFrameSize /\ next' = next + 1
      /\ pc' \in {"line", "aborted"}
      /\ VolumeUp' \in {VolumeUp, Append(VolumeUp, f)}
      /\ VolumeDown' \in {VolumeDown, Append(VolumeDown, f)}
      /\ UNCHANGED <<input, kShift, startIdx, Noise>>
  BY DEF CutEvent, HasRoom, AfterEvent, NextLine
<1>2. /\ next \in 1..Len(input.lines) /\ startIdx \in Int /\ noiseIdx \in Int
      /\ Len(input.lines) \in Nat /\ input \in Inputs
  BY <1>1, TypeFacts DEF IInv, InLine
<1>3. kFrameSize \in Nat \ {0}
  BY Width
<1>4. noiseIdx' \in Int /\ next' \in 1..(Len(input.lines) + 1)
  BY <1>1, <1>2, <1>3
<1>5. f \in File /\ f.from <= f.to
  BY <1>2, FrameType
<1> HIDE DEF f
<1>6. /\ VolumeUp' \in Seq(File) /\ VolumeDown' \in Seq(File)
      /\ \A i \in DOMAIN VolumeUp' :
           (i \in DOMAIN VolumeUp /\ VolumeUp'[i] = VolumeUp[i]) \/ VolumeUp'[i] = f
      /\ \A i \in DOMAIN VolumeDown' :
           (i \in DOMAIN VolumeDown /\ VolumeDown'[i] = VolumeDown[i]) \/ VolumeDown'[i] = f
  BY <1>1, <1>5, EventFile
<1>7. TypeOK'
  BY <1>1, <1>2, <1>4, <1>6 DEF IInv, TypeOK, File
<1>8. InLine'
  BY <1>1 DEF InLine
<1>9. InTurn'
  <2>1. Regular' = Regular /\ Starts' = Starts
    BY <1>1, SameInput
  <2>2. ASSUME Regular'
        PROVE  next >= 2 /\ startIdx = Starts[next - 1] /\ kShift = input.lines[1].value
    BY <1>1, <2>1, <2>2 DEF IInv, InTurn
  <2>3. ASSUME Regular'
        PROVE  next' >= 3 /\ next' - 2 = next - 1
    BY <1>1, <1>2, <2>2, <2>3
  <2>4. ASSUME Regular'
        PROVE  next' # 1 /\ ~(next' <= 2)
    BY <1>4, <2>3, <2>4
  <2> QED
    BY <1>1, <2>1, <2>2, <2>3, <2>4 DEF InTurn
<1>10. ASSUME Regular
       PROVE  startIdx = Starts[next - 1] /\ next - 1 \in DOMAIN Starts
  <2>1. next >= 2 /\ startIdx = Starts[next - 1]
    BY <1>1, <1>10 DEF IInv, InTurn
  <2> QED
    BY <1>2, <1>10, <2>1, EventLines
<1>11. ASSUME Regular, NotBefore
       PROVE  startIdx \in Nat /\ Behind' /\ \A j \in DOMAIN Noise : ~Overlap(f, Noise[j])
  <2>1. startIdx \in Nat /\ noiseIdx' >= 0 /\ noiseIdx <= noiseIdx'
    BY <1>1, <1>2, <1>3, <1>10, <1>11 DEF NotBefore, IInv, Laid, Behind
  <2>2. \A dir \in {VolumeUp, VolumeDown, Noise} : \A i \in DOMAIN dir :
          dir[i].to <= toBytes(noiseIdx) /\ dir[i] \in File /\ dir[i].to \in Int
    BY <1>11, FileFacts DEF IInv, Laid, Behind
  <2>3. /\ toBytes(noiseIdx) = 2 * noiseIdx /\ toBytes(noiseIdx') = 2 * noiseIdx'
    BY <1>2, <1>4, Width
  <2>4. \A dir \in {VolumeUp, VolumeDown, Noise} : \A i \in DOMAIN dir :
          dir[i].to <= toBytes(noiseIdx')
    BY <1>2, <1>4, <2>1, <2>2, <2>3
  <2>5. f.to <= toBytes(noiseIdx')
    BY <1>1, <1>2, <2>1, FrameBounds DEF f
  <2>6. \A j \in DOMAIN Noise : Noise[j].to <= toBytes(startIdx)
    BY <1>11 DEF IInv, Laid, Behind
  <2>7. \A j \in DOMAIN Noise : ~Overlap(f, Noise[j])
    BY <1>2, <2>1, <2>2, <2>6, Lands DEF f
  <2>8. Behind'
    BY <1>1, <1>2, <1>6, <2>1, <2>4, <2>5, <2>6 DEF Behind, toBytes
  <2> QED
    BY <2>1, <2>7, <2>8
<1>12. Laid'
  <2> SUFFICES ASSUME Regular, NotBefore
               PROVE  /\ Behind'
                      /\ (\A i, j \in DOMAIN Noise : i < j => ~Overlap(Noise[i], Noise[j]))'
                      /\ Apart(VolumeUp)' /\ Apart(VolumeDown)'
    BY <1>1, SameInput DEF Laid
  <2>1. Apart(VolumeUp)'
    BY <1>1, <1>6, <1>11 DEF IInv, Laid, Apart
  <2>2. Apart(VolumeDown)'
    BY <1>1, <1>6, <1>11 DEF IInv, Laid, Apart
  <2> QED
    BY <1>1, <1>11, <2>1, <2>2 DEF IInv, Laid, Overlap
<1>13. AllWhole'
  <2> SUFFICES ASSUME Regular, InAudio
               PROVE  Whole(VolumeUp)' /\ Whole(VolumeDown)' /\ Whole(Noise)'
    BY <1>1, SameInput DEF AllWhole
  <2>1. startIdx \in Nat /\ toBytes(startIdx + kFrameSize) <= input.audio
    BY <1>10, <1>11 DEF InAudio, NotBefore
  <2>2. f.to - f.from = toBytes(kFrameSize)
    BY <1>2, <2>1, FrameWhole DEF f
  <2> QED
    BY <1>1, <1>6, <2>2 DEF IInv, AllWhole, Whole, toBytes
<1> QED
  BY <1>1, <1>2, <1>7, <1>8, <1>9, <1>12, <1>13 DEF IInv

\* Every action keeps the invariant.
LEMMA InvStep == IInv /\ [Next]_vars => IInv'
<1>1. ASSUME IInv, UNCHANGED vars PROVE IInv'
  <2>1. /\ UNCHANGED <<input, noiseIdx, dirs>> /\ UNCHANGED <<next, kShift, startIdx, pc>>
    BY <1>1 DEF vars, dirs
  <2>2. TypeOK'
    BY <1>1, <2>1, NoCut DEF TypeOK, IInv, File
  <2>3. InLine'
    BY <1>1, <2>1 DEF IInv, InLine, line
  <2>4. Regular' = Regular /\ Starts' = Starts /\ Empty' = Empty /\ NotBefore' = NotBefore
    BY <1>1, <2>1, NoCut, SameInput
  <2>5. InTurn'
    BY <1>1, <2>1, <2>4 DEF IInv, InTurn
  <2>6. Laid'
    BY <1>1, <2>1, <2>4, NoCut DEF IInv, Laid, Behind, dirs, toBytes
  <2> QED
    BY <1>1, <2>1, <2>2, <2>3, <2>5, <2>6, NoCut DEF IInv
<1> QED
  BY <1>1, OpenStep, FinishStep, ShiftStep, RejectStep, EventStep, NoiseStep, CutStep DEF Next

(***************************************************************************)
(* How much noise there is room for: a sum over the events, and so defined *)
(* by recursion.                                                           *)
(***************************************************************************)

\* A set of natural numbers has a least one: induction, in the form the
\* provers can use.
LEMMA LeastNatural ==
  ASSUME NEW S \in SUBSET Nat, S # {}
  PROVE  \E x \in S : \A y \in S : x <= y
<1> DEFINE R == {ss \in Nat \X Nat : ss[1] < ss[2]}
<1>1. OpToRel(<, Nat) = R
  BY DEF OpToRel
<1>2. IsWellFoundedOn(R, Nat)
  BY <1>1, NatLessThanWellFounded
<1>3. \E x \in S : \A y \in S : ~(<<y, x>> \in R)
  BY <1>2, WFMin
<1>4. PICK x \in S : \A y \in S : ~(<<y, x>> \in R)
  BY <1>3
<1>5. ASSUME NEW y \in S PROVE x <= y
  <2>1. x \in Nat /\ y \in Nat
    OBVIOUS
  <2>2. <<y, x>> \in Nat \X Nat /\ <<y, x>>[1] = y /\ <<y, x>>[2] = x
    BY <2>1
  <2>3. ~(y < x)
    BY <1>4, <2>2
  <2> QED
    BY <2>1, <2>3
<1> QED
  BY <1>5

\* Every sequence of integers has its partial sums.
LEMMA PartialSums ==
  ASSUME NEW m \in Nat, NEW a \in [1..m -> Int]
  PROVE  \E f \in [0..m -> Int] : f[0] = 0 /\ \A k \in 1..m : f[k] = f[k - 1] + a[k]
<1> DEFINE Sums(n) == {f \in [0..n -> Int] : f[0] = 0 /\ \A k \in 1..n : f[k] = f[k - 1] + a[k]}
           Bad == {n \in 0..m : Sums(n) = {}}
<1>1. SUFFICES Bad = {}
  <2>1. Sums(m) # {}
    <3> HIDE DEF Sums
    <3>1. m \in 0..m
      OBVIOUS
    <3> QED
      BY <1>1, <3>1
  <2> QED
    BY <2>1
<1>2. SUFFICES ASSUME Bad # {} PROVE FALSE
  OBVIOUS
<1>3. PICK n \in Bad : \A y \in Bad : n <= y
  <2>1. Bad \in SUBSET Nat
    OBVIOUS
  <2> HIDE DEF Bad
  <2> QED
    BY <1>2, <2>1, LeastNatural
<1>4. n \in 0..m /\ Sums(n) = {}
  OBVIOUS
<1>5. n # 0
  <2>1. [i \in 0..0 |-> 0] \in Sums(0)
    OBVIOUS
  <2> HIDE DEF Sums
  <2> QED
    BY <1>4, <2>1
<1>6. n \in 1..m /\ n - 1 \in 0..m /\ ~(n <= n - 1)
  BY <1>4, <1>5
<1>7. Sums(n - 1) # {}
  BY <1>3, <1>6
<1>8. PICK f : f \in Sums(n - 1)
  BY <1>7
<1>9. /\ f \in [0..(n - 1) -> Int] /\ f[0] = 0
      /\ \A k \in 1..(n - 1) : f[k] = f[k - 1] + a[k]
  BY <1>8
<1> DEFINE g == [i \in 0..n |-> IF i = n THEN f[n - 1] + a[n] ELSE f[i]]
<1>10. g \in [0..n -> Int]
  <2>1. ASSUME NEW i \in 0..n PROVE (IF i = n THEN f[n - 1] + a[n] ELSE f[i]) \in Int
    <3>1. a[n] \in Int /\ n - 1 \in 0..(n - 1) /\ f[n - 1] \in Int
      BY <1>6, <1>9
    <3>2. i # n => i \in 0..(n - 1)
      BY <1>6
    <3> QED
      BY <1>9, <3>1, <3>2
  <2> QED
    BY <2>1
<1>11. g[0] = 0
  BY <1>6, <1>9
<1>12. ASSUME NEW k \in 1..n PROVE g[k] = g[k - 1] + a[k]
  <2>1. k \in 0..n /\ k - 1 \in 0..n /\ k - 1 # n /\ g[k - 1] = f[k - 1]
    BY <1>6
  <2>2. CASE k = n
    BY <2>1, <2>2
  <2>3. CASE k # n
    <3>1. k \in 1..(n - 1) /\ g[k] = f[k]
      BY <1>6, <2>1, <2>3
    <3> QED
      BY <1>9, <2>1, <3>1
  <2> QED
    BY <2>2, <2>3
<1>13. g \in Sums(n)
  BY <1>10, <1>11, <1>12
<1> QED
  BY <1>4, <1>13

\* A frame of noise takes the room of one, and there is none left when the
\* next one would not fit.
LEMMA RoomStep ==
  ASSUME NEW p \in Int, NEW s \in Int
  PROVE  /\ Room(p, s) \in Int
         /\ p + kFrameSize < s => Room(p, s) = Room(p + kFrameSize, s) + 1
         /\ ~(p + kFrameSize < s) => Room(p, s) = 0
<1> DEFINE K == kFrameSize
<1>1. K \in Nat \ {0}
  BY Width
<1> HIDE DEF K
<1>2. ASSUME NEW x \in Int
      PROVE  /\ x \div K \in Int /\ (x + K) \div K = x \div K + 1
             /\ 0 <= x /\ x < K => x \div K = 0
  BY <1>1, <1>2
<1>3. Room(p, s) \in Int
  BY <1>2 DEF Room, K
<1>4. ASSUME p + K < s PROVE Room(p, s) = Room(p + K, s) + 1
  <2>1. s > p /\ s > p + K /\ s - p - 1 = (s - (p + K) - 1) + K /\ s - (p + K) - 1 \in Int
    BY <1>1, <1>4
  <2>2. (s - p - 1) \div K = (s - (p + K) - 1) \div K + 1
    BY <1>2, <2>1
  <2> QED
    BY <2>1, <2>2 DEF Room, K
<1>5. ASSUME ~(p + K < s) PROVE Room(p, s) = 0
  <2>1. CASE s > p
    <3>1. s - p - 1 \in Int /\ 0 <= s - p - 1 /\ s - p - 1 < K
      BY <1>1, <1>5, <2>1
    <3> QED
      BY <1>2, <2>1, <3>1 DEF Room, K
  <2>2. CASE ~(s > p)
    BY <2>2 DEF Room
  <2> QED
    BY <2>1, <2>2
<1> QED
  BY <1>3, <1>4, <1>5 DEF K

\* The room in front of the first n events of a regular capture.
LEMMA RoomSums ==
  ASSUME input \in Inputs, Regular
  PROVE  /\ RoomUpTo \in [0..(Len(input.lines) - 1) -> Int] /\ RoomUpTo[0] = 0
         /\ \A k \in 1..(Len(input.lines) - 1) : RoomUpTo[k] = RoomUpTo[k - 1] + RoomBefore(k)
<1> DEFINE m == Len(input.lines) - 1
           a == [k \in 1..m |-> RoomBefore(k)]
<1>1. m \in Nat /\ kFrameSize \in Int
  BY EventLines, Width
<1>2. a \in [1..m -> Int]
  <2>1. ASSUME NEW k \in 1..m PROVE RoomBefore(k) \in Int
    <3>1. k + 1 \in 2..Len(input.lines) /\ (k + 1) - 1 = k /\ (k + 1) - 2 = k - 1
          /\ (k # 1 => k \in 2..Len(input.lines))
      BY <1>1
    <3>2. Starts[k] \in Int
      BY <3>1, EventLines
    <3>3. k # 1 => Starts[k - 1] \in Int
      BY <3>1, EventLines
    <3>4. (IF k = 1 THEN 0 ELSE Starts[k - 1] + kFrameSize) \in Int
      BY <1>1, <3>3
    <3> QED
      BY <3>2, <3>4, RoomStep DEF RoomBefore
  <2> QED
    BY <2>1
<1> DEFINE Is(f) == f = [k \in 0..m |-> IF k = 0 THEN 0 ELSE f[k - 1] + RoomBefore(k)]
<1>3. \E f : Is(f)
  <2>1. PICK f \in [0..m -> Int] : f[0] = 0 /\ \A k \in 1..m : f[k] = f[k - 1] + a[k]
    <3> HIDE DEF a, m
    <3> QED
      BY <1>1, <1>2, PartialSums
  <2>2. \A k \in 0..m : f[k] = IF k = 0 THEN 0 ELSE f[k - 1] + RoomBefore(k)
    <3>1. \A k \in 0..m : k = 0 \/ k \in 1..m
      BY <1>1
    <3> QED
      BY <2>1, <3>1
  <2> QED
    BY <2>2
<1>4. RoomUpTo = CHOOSE f : Is(f)
  BY DEF RoomUpTo
<1>5. Is(RoomUpTo)
  <2> HIDE DEF Is
  <2> QED
    BY <1>3, <1>4
<1>6. \A k \in 0..m : RoomUpTo[k] = IF k = 0 THEN 0 ELSE RoomUpTo[k - 1] + RoomBefore(k)
  BY <1>5
<1>7. DOMAIN RoomUpTo = 0..m
  BY <1>5
<1> DEFINE Bad == {k \in 0..m : RoomUpTo[k] \notin Int}
<1>8. Bad = {}
  <2>1. SUFFICES ASSUME Bad # {} PROVE FALSE
    OBVIOUS
  <2>2. Bad \in SUBSET Nat
    OBVIOUS
  <2>3. PICK k \in Bad : \A y \in Bad : k <= y
    <3> HIDE DEF Bad
    <3> QED
      BY <2>1, <2>2, LeastNatural
  <2>4. k \in 0..m /\ RoomUpTo[k] \notin Int
    OBVIOUS
  <2>5. k # 0
    BY <1>6, <2>4
  <2>6. k \in 1..m /\ k - 1 \in 0..m /\ ~(k <= k - 1)
    BY <1>1, <2>4, <2>5
  <2>7. RoomUpTo[k - 1] \in Int
    BY <2>3, <2>6
  <2>8. RoomUpTo[k] = RoomUpTo[k - 1] + RoomBefore(k) /\ RoomBefore(k) \in Int
    BY <1>2, <1>6, <2>4, <2>5, <2>6
  <2> QED
    BY <2>4, <2>7, <2>8
<1>9. RoomUpTo \in [0..m -> Int]
  BY <1>5, <1>8
<1>10. RoomUpTo[0] = 0 /\ \A k \in 1..m : RoomUpTo[k] = RoomUpTo[k - 1] + RoomBefore(k)
  <2>1. 0 \in 0..m /\ \A k \in 1..m : k \in 0..m /\ k # 0
    BY <1>1
  <2> QED
    BY <1>6, <2>1
<1> QED
  BY <1>9, <1>10

\* What has been counted: the events cut are those of the lines before the
\* one in hand, and the noise cut is what there was room for in front of
\* them; in front of an event the rest of its room is still to come.
Counted ==
  Regular =>
    /\ pc = "done" => next > Len(input.lines)
    /\ next >= 2 /\ pc # "aborted" => Len(VolumeUp) + Len(VolumeDown) = next - 2
    /\ next >= 2 /\ pc \in {"line", "done"} => Len(Noise) = RoomUpTo[next - 2]
    /\ pc = "noise" => Len(Noise) + Room(noiseIdx, startIdx) = RoomUpTo[next - 1]

\* The room depends on the capture only.
LEMMA SameRoom == ASSUME input' = input PROVE RoomUpTo' = RoomUpTo
BY DEF RoomUpTo, RoomBefore, Starts

\* Nothing is cut and no line is read.
LEMMA CountInit == Init => Counted
<1> SUFFICES ASSUME Init PROVE Counted
  OBVIOUS
<1>1. next = 1 /\ pc = "open"
  BY DEF Init
<1> QED
  BY <1>1 DEF Counted

\* The steps that cut nothing and do not turn to an event.
LEMMA CountQuiet ==
  ASSUME IInv, Counted, Open \/ Finish \/ RejectLine \/ ShiftLine \/ UNCHANGED vars
  PROVE  Counted'
<1>1. /\ UNCHANGED <<input, VolumeUp, VolumeDown, Noise>>
      /\ pc # "aborted" => UNCHANGED <<noiseIdx, startIdx>>
  BY DEF Open, Finish, RejectLine, ShiftLine, vars, dirs
<1>2. Regular' = Regular /\ RoomUpTo' = RoomUpTo
  BY <1>1, SameInput, SameRoom
<1> SUFFICES ASSUME Regular PROVE Counted'
  BY <1>2 DEF Counted
<1>3. CASE UNCHANGED vars
  BY <1>1, <1>2, <1>3 DEF Counted, Room, vars, dirs
<1>4. CASE Open
  <2>1. next' = 1 /\ pc' \in {"line", "aborted"}
    BY <1>4 DEF Open, IInv, InTurn
  <2> QED
    BY <2>1 DEF Counted
<1>5. CASE Finish
  <2>1. pc = "line" /\ next > Len(input.lines) /\ next' = next /\ pc' = "done"
    BY <1>5 DEF Finish
  <2> QED
    BY <1>1, <1>2, <2>1 DEF Counted
<1>6. CASE RejectLine
  <2>1. pc' = "aborted" /\ next' = next
    BY <1>6 DEF RejectLine
  <2>2. pc' \notin {"line", "done", "noise"}
    BY <2>1
  <2> QED
    BY <2>1, <2>2 DEF Counted
<1>7. CASE ShiftLine
  <2>1. /\ pc = "line" /\ pc' = "line" /\ next <= Len(input.lines)
        /\ line.kind = "Shift" /\ next' = next + 1
    BY <1>7 DEF ShiftLine, NextLine
  <2>2. next \in 1..Len(input.lines) /\ Len(input.lines) \in Nat /\ input \in Inputs
    BY <2>1, TypeFacts
  <2>3. next \in 2..Len(input.lines) => IsEvent(line)
    BY <2>2, EventLines DEF line
  <2>4. next = 1 /\ next' = 2
    BY <2>1, <2>2, <2>3 DEF IsEvent
  <2>5. Empty
    BY <2>1, <2>4 DEF IInv, InTurn
  <2>6. Len(VolumeUp) = 0 /\ Len(VolumeDown) = 0 /\ Len(Noise) = 0
    BY <2>5 DEF Empty
  <2>7. RoomUpTo[next' - 2] = 0
    BY <2>2, <2>4, RoomSums
  <2> QED
    BY <1>1, <1>2, <2>1, <2>4, <2>6, <2>7 DEF Counted
<1> QED
  BY <1>3, <1>4, <1>5, <1>6, <1>7

\* In front of an event is the room the sum counts for it.
LEMMA CountEvent == ASSUME IInv, Counted, EventLine PROVE Counted'
<1>1. /\ UNCHANGED <<input, noiseIdx, VolumeUp, VolumeDown, Noise, next>>
      /\ pc = "line" /\ pc' = "noise" /\ next <= Len(input.lines)
      /\ startIdx' = line.value + kShift /\ line.kind \notin {"Shift", "Malformed"}
  BY DEF EventLine, dirs
<1>2. Regular' = Regular /\ RoomUpTo' = RoomUpTo
  BY <1>1, SameInput, SameRoom
<1> SUFFICES ASSUME Regular PROVE Counted'
  BY <1>2 DEF Counted
<1>3. /\ next \in 1..Len(input.lines) /\ Len(input.lines) \in Nat /\ input \in Inputs
  BY <1>1, TypeFacts
<1>4. next # 1
  BY <1>1, <1>3, EventLines DEF line
<1>5. /\ next \in 2..Len(input.lines) /\ kShift = input.lines[1].value
      /\ next - 1 \in 1..(Len(input.lines) - 1) /\ (next - 1) - 1 = next - 2
  BY <1>1, <1>3, <1>4 DEF IInv, InTurn
<1>6. startIdx' = Starts[next - 1] /\ Starts[next - 1] \in Int
  BY <1>1, <1>3, <1>5, EventLines DEF line
<1>7. noiseIdx = IF next - 1 = 1 THEN 0 ELSE Starts[(next - 1) - 1] + kFrameSize
  <2>1. CASE next = 2
    BY <1>1, <2>1 DEF IInv, InTurn
  <2>2. CASE next # 2
    <3>1. next >= 3
      BY <1>5, <2>2
    <3>2. noiseIdx = Starts[next - 2] + kFrameSize
      BY <1>1, <3>1 DEF IInv, InTurn
    <3> QED
      BY <1>5, <3>1, <3>2
  <2> QED
    BY <2>1, <2>2
<1>8. Room(noiseIdx', startIdx') = RoomBefore(next - 1)
  BY <1>1, <1>6, <1>7 DEF RoomBefore
<1>9. /\ RoomUpTo[next - 1] = RoomUpTo[next - 2] + RoomBefore(next - 1)
  BY <1>3, <1>5, RoomSums
<1>10. next >= 2 /\ Len(Noise) = RoomUpTo[next - 2] /\ Len(VolumeUp) + Len(VolumeDown) = next - 2
  BY <1>1, <1>5 DEF Counted
<1>11. /\ Len(Noise') + Room(noiseIdx', startIdx') = RoomUpTo'[next' - 1]
       /\ Len(VolumeUp') + Len(VolumeDown') = next' - 2
  BY <1>1, <1>2, <1>8, <1>9, <1>10
<1> QED
  BY <1>1, <1>11 DEF Counted, Room

\* A frame of noise is one less to come.
LEMMA CountNoise == ASSUME IInv, Counted, CutNoise PROVE Counted'
<1> DEFINE f == FrameAt(noiseIdx)
<1>1. /\ pc = "noise" /\ pc' = "noise" /\ noiseIdx + kFrameSize < startIdx
      /\ Noise' = Append(Noise, f) /\ noiseIdx' = noiseIdx + kFrameSize
      /\ UNCHANGED <<input, next, startIdx, VolumeUp, VolumeDown>>
  BY DEF CutNoise, HasRoom
<1>2. Regular' = Regular /\ RoomUpTo' = RoomUpTo
  BY <1>1, SameInput, SameRoom
<1> SUFFICES ASSUME Regular PROVE Counted'
  BY <1>2 DEF Counted
<1>3. /\ startIdx \in Int /\ noiseIdx \in Int /\ Noise \in Seq(File) /\ input \in Inputs
      /\ next \in Int
  BY <1>1, TypeFacts DEF IInv, InLine
<1>4. f \in File
  BY <1>3, FrameType
<1> HIDE DEF f
<1>5. Len(Noise') = Len(Noise) + 1 /\ Len(Noise) \in Nat
  BY <1>1, <1>3, <1>4, AppendProperties, LenProperties
<1>6. /\ Room(noiseIdx, startIdx) = Room(noiseIdx', startIdx) + 1
      /\ Room(noiseIdx', startIdx) \in Int
  <2>1. noiseIdx + kFrameSize \in Int
    BY <1>3, Width
  <2>2. /\ Room(noiseIdx, startIdx) = Room(noiseIdx + kFrameSize, startIdx) + 1
        /\ Room(noiseIdx + kFrameSize, startIdx) \in Int
    BY <1>1, <1>3, <2>1, RoomStep
  <2> QED
    BY <1>1, <2>2
<1>7. /\ Len(Noise) + Room(noiseIdx, startIdx) = RoomUpTo[next - 1]
      /\ next >= 2 => Len(VolumeUp) + Len(VolumeDown) = next - 2
  BY <1>1 DEF Counted
<1>8. Len(Noise') + Room(noiseIdx', startIdx') = RoomUpTo'[next' - 1]
  BY <1>1, <1>2, <1>5, <1>6, <1>7
<1> QED
  BY <1>1, <1>7, <1>8 DEF Counted, Room

\* No room is left when the event is cut, in the directory of its class.
LEMMA CountCut == ASSUME IInv, Counted, CutEvent PROVE Counted'
<1> DEFINE f == FrameAt(startIdx)
<1>1. /\ pc = "noise" /\ ~(noiseIdx + kFrameSize < startIdx) /\ next' = next + 1
      /\ pc' = IF line.kind = "Other" THEN "aborted" ELSE "line"
      /\ VolumeUp' = IF line.kind = "VolUp" THEN Append(VolumeUp, f) ELSE VolumeUp
      /\ VolumeDown' = IF line.kind = "VolDown" THEN Append(VolumeDown, f) ELSE VolumeDown
      /\ UNCHANGED <<input, Noise>>
  BY DEF CutEvent, HasRoom, NextLine
<1>2. Regular' = Regular /\ RoomUpTo' = RoomUpTo
  BY <1>1, SameInput, SameRoom
<1> SUFFICES ASSUME Regular PROVE Counted'
  BY <1>2 DEF Counted
<1>3. /\ startIdx \in Int /\ noiseIdx \in Int /\ input \in Inputs /\ Len(input.lines) \in Nat
      /\ VolumeUp \in Seq(File) /\ VolumeDown \in Seq(File) /\ Noise \in Seq(File)
      /\ next \in 1..Len(input.lines)
  BY <1>1, TypeFacts DEF IInv, InLine
<1>4. next \in 2..Len(input.lines)
  <2>1. next >= 2
    BY <1>1 DEF IInv, InTurn
  <2> QED
    BY <1>3, <2>1
<1>5. line.kind \in {"VolUp", "VolDown"}
  BY <1>3, <1>4, EventLines DEF IsEvent, line
<1>6. f \in File
  BY <1>3, FrameType
<1> HIDE DEF f
<1>7. /\ Len(Append(VolumeUp, f)) = Len(VolumeUp) + 1 /\ Len(VolumeUp) \in Nat
      /\ Len(Append(VolumeDown, f)) = Len(VolumeDown) + 1 /\ Len(VolumeDown) \in Nat
      /\ Len(Noise) \in Nat
  BY <1>3, <1>6, AppendProperties, LenProperties
<1>8. Len(VolumeUp') + Len(VolumeDown') = Len(VolumeUp) + Len(VolumeDown) + 1 /\ pc' = "line"
  <2>1. CASE line.kind = "VolUp"
    <3>1. VolumeUp' = Append(VolumeUp, f) /\ VolumeDown' = VolumeDown /\ pc' = "line"
      BY <1>1, <2>1
    <3> QED
      BY <1>7, <3>1
  <2>2. CASE line.kind = "VolDown"
    <3>1. VolumeUp' = VolumeUp /\ VolumeDown' = Append(VolumeDown, f) /\ pc' = "line"
      BY <1>1, <2>2
    <3> QED
      BY <1>7, <3>1
  <2> QED
    BY <1>5, <2>1, <2>2
<1>9. Room(noiseIdx, startIdx) = 0
  BY <1>1, <1>3, RoomStep
<1>10. /\ Len(Noise) + Room(noiseIdx, startIdx) = RoomUpTo[next - 1]
       /\ Len(VolumeUp) + Len(VolumeDown) = next - 2
  BY <1>1, <1>4 DEF Counted
<1>11. next' - 2 = next - 1 /\ next' >= 2
  BY <1>1, <1>4
<1>12. Len(Noise') = RoomUpTo'[next' - 2]
  BY <1>1, <1>2, <1>7, <1>9, <1>10, <1>11
<1>13. Len(VolumeUp') + Len(VolumeDown') = next' - 2
  BY <1>4, <1>8, <1>10, <1>11
<1> QED
  BY <1>8, <1>12, <1>13 DEF Counted

(***************************************************************************)
(* The theorems.                                                           *)
(***************************************************************************)

\* The strengthened invariant: what is cut lies in order in front of
\* noiseIdx, and noise in front of the event in hand.
THEOREM ConversionInvHolds == Spec => []IInv
BY InvInit, InvStep, PTL DEF Spec

\* The variables keep their types for every frame size and every capture:
\* each file is a range of the recording.
THEOREM ConversionTypeCorrect == Spec => []TypeOK
<1>1. IInv => TypeOK
  BY DEF IInv
<1> QED
  BY <1>1, ConversionInvHolds, PTL

\* The files of two directories are the files of each.
LEMMA InOne ==
  ASSUME NEW S, NEW s \in Seq(S), NEW t \in Seq(S), NEW f \in ToSet(s \o t)
  PROVE  (\E i \in DOMAIN s : f = s[i]) \/ (\E i \in DOMAIN t : f = t[i])
<1>1. Len(s) \in Nat /\ Len(t) \in Nat /\ DOMAIN s = 1..Len(s) /\ DOMAIN t = 1..Len(t)
  BY LenProperties
<1>2. /\ Len(s \o t) = Len(s) + Len(t) /\ s \o t \in Seq(S)
      /\ \A i \in 1..(Len(s) + Len(t)) :
           (s \o t)[i] = IF i <= Len(s) THEN s[i] ELSE t[i - Len(s)]
  BY ConcatProperties
<1>3. PICK i \in DOMAIN (s \o t) : f = (s \o t)[i]
  BY DEF ToSet
<1>4. i \in 1..(Len(s) + Len(t))
  BY <1>2, LenProperties
<1>5. CASE i <= Len(s)
  BY <1>1, <1>2, <1>3, <1>4, <1>5
<1>6. CASE ~(i <= Len(s))
  <2>1. i - Len(s) \in DOMAIN t
    BY <1>1, <1>4, <1>6
  <2> QED
    BY <1>2, <1>3, <1>4, <1>6, <2>1
<1> QED
  BY <1>5, <1>6

\* Every file is one whole frame, for every frame size and every regular
\* capture whose events lie in the audio.
THEOREM FilesAreWholeFrames == Spec => []WholeFrames
<1>1. ASSUME IInv, Regular, InAudio, NEW f \in ToSet(VolumeUp \o VolumeDown \o Noise)
      PROVE  f.to - f.from = toBytes(kFrameSize)
  <2>1. VolumeUp \in Seq(File) /\ VolumeDown \in Seq(File) /\ Noise \in Seq(File)
    BY <1>1, TypeFacts
  <2> DEFINE events == VolumeUp \o VolumeDown
  <2>2. events \in Seq(File)
    BY <2>1, ConcatProperties
  <2>3. CASE \E i \in DOMAIN Noise : f = Noise[i]
    BY <1>1, <2>3 DEF IInv, AllWhole, Whole
  <2>4. CASE \E i \in DOMAIN events : f = events[i]
    <3>1. f \in ToSet(VolumeUp \o VolumeDown)
      BY <2>4 DEF ToSet
    <3> QED
      BY <1>1, <2>1, <3>1, InOne DEF IInv, AllWhole, Whole
  <2>5. f \in ToSet(events \o Noise)
    BY <1>1
  <2> HIDE DEF events
  <2>6. (\E i \in DOMAIN events : f = events[i]) \/ (\E i \in DOMAIN Noise : f = Noise[i])
    BY <2>1, <2>2, <2>5, InOne
  <2> QED
    BY <2>3, <2>4, <2>6
<1>2. IInv => WholeFrames
  BY <1>1 DEF WholeFrames
<1> QED
  BY <1>2, ConversionInvHolds, PTL

\* No sample of a volume event is in a file of noise, and none is in two
\* files of noise, for every frame size and every regular capture.
THEOREM NoiseHasNoEvents == Spec => []NoiseIsNoise
<1>1. ASSUME IInv, Regular, \A i \in DOMAIN Starts : 0 <= Starts[i]
      PROVE  /\ \A i, j \in DOMAIN Noise : i < j => ~Overlap(Noise[i], Noise[j])
             /\ \A f \in ToSet(VolumeUp \o VolumeDown), g \in ToSet(Noise) : ~Overlap(f, g)
  <2>1. /\ \A i, j \in DOMAIN Noise : i < j => ~Overlap(Noise[i], Noise[j])
        /\ Apart(VolumeUp) /\ Apart(VolumeDown)
    BY <1>1 DEF IInv, Laid, NotBefore
  <2>2. VolumeUp \in Seq(File) /\ VolumeDown \in Seq(File)
    BY <1>1, TypeFacts
  <2>3. ASSUME NEW f \in ToSet(VolumeUp \o VolumeDown), NEW g \in ToSet(Noise)
        PROVE  ~Overlap(f, g)
    <3>1. PICK j \in DOMAIN Noise : g = Noise[j]
      BY DEF ToSet
    <3>2. (\E i \in DOMAIN VolumeUp : f = VolumeUp[i]) \/ (\E i \in DOMAIN VolumeDown : f = VolumeDown[i])
      BY <2>2, InOne
    <3> QED
      BY <2>1, <3>1, <3>2 DEF Apart
  <2> QED
    BY <2>1, <2>3
<1>2. IInv => NoiseIsNoise
  BY <1>1 DEF NoiseIsNoise
<1> QED
  BY <1>2, ConversionInvHolds, PTL

\* The counts hold throughout every run.
THEOREM CountsHold == Spec => []Counted
<1>1. IInv /\ Counted /\ [Next]_vars => Counted'
  BY CountQuiet, CountEvent, CountNoise, CountCut DEF Next
<1> QED
  BY <1>1, CountInit, ConversionInvHolds, PTL DEF Spec

\* A finished run over a regular capture has cut each of its events once and
\* all the noise there was room for in front of them, for every frame size
\* and every capture.
THEOREM NothingIsLost == Spec => []Complete
<1>1. ASSUME IInv, Counted, pc = "done", Regular
      PROVE  /\ Len(VolumeUp) + Len(VolumeDown) = Len(input.lines) - 1
             /\ Len(Noise) = RoomUpTo[Len(input.lines) - 1]
  <2>1. next > Len(input.lines)
    BY <1>1 DEF Counted
  <2>2. /\ next = Len(input.lines) + 1 /\ next >= 2
        /\ next - 2 = Len(input.lines) - 1
    <3>1. next \in 1..(Len(input.lines) + 1) /\ input \in Inputs /\ Len(input.lines) \in Nat \ {0}
      BY <1>1, TypeFacts, EventLines
    <3> QED
      BY <2>1, <3>1
  <2> QED
    BY <1>1, <2>2 DEF Counted
<1>2. IInv /\ Counted => Complete
  BY <1>1 DEF Complete
<1> QED
  BY <1>2, CountsHold, ConversionInvHolds, PTL
=============================================================================
