------------------------- MODULE MicRecorderProofs -------------------------
(***************************************************************************)
(* Theorems of MicRecorder for any number of recorders, threads, frames    *)
(* and failures, and of MainActivity with its recorders.                   *)
(***************************************************************************)
EXTENDS MainActivity, SequenceTheorems, TLAPS

\* The initial state satisfies the invariant.
LEMMA RecInit == Init => RecInv
<1> SUFFICES ASSUME Init PROVE RecInv
  OBVIOUS
<1> USE MicAssumption
<1>1. TypeOK
  <2>1. 0 \in FrameNo /\ 0 \in 0..MaxErrors
    BY DEF FrameNo
  <2>2. <<>> \in Seq(FrameNo) /\ <<>> \in Seq(Token)
    OBVIOUS
  <2>3. "none" \in MicState /\ "new" \in PC
    BY DEF MicState, PC
  <2> QED
    BY <2>1, <2>2, <2>3 DEF Init, TypeOK
<1>2. OneThread /\ NoNullDeref /\ MicHasThread
  BY DEF Init, OneThread, NoNullDeref, MicHasThread, Running, Up
<1>3. Owned /\ FieldIsOwn /\ JoinHasThread
  BY DEF Init, Owned, FieldIsOwn, JoinHasThread
<1> QED
  BY <1>1, <1>2, <1>3 DEF RecInv

\* Every action keeps the types of the variables it changes.
LEMMA RecTypeStep ==
  ASSUME TypeOK, Owned, [Next]_recVars
  PROVE  TypeOK'
<1> USE MicAssumption DEF TypeOK, Owned
<1>1. ASSUME NEW r \in Recorders, MainStep(r) PROVE TypeOK'
  <2> USE DEF RecordingUnchanged
  <2>1. CASE Construct(r)
    BY <1>1, <2>1 DEF MainStep, Construct, Constructed, MicState
  <2>2. ASSUME NEW t \in Threads, Start(r, t) PROVE TypeOK'
    BY <1>1, <2>2 DEF MainStep, Start, Started, Goto, PC
  <2>3. CASE Stop(r)
    BY <1>1, <2>3 DEF MainStep, Stop, Interrupt
  <2>4. CASE Joined(r)
    BY <1>1, <2>4 DEF MainStep, Joined
  <2> QED
    BY <1>1, <2>1, <2>2, <2>3, <2>4 DEF MainStep
<1>2. ASSUME NEW r \in Recorders, Capture(r) PROVE TypeOK'
  <2> DEFINE k == IF captured[r] < MaxFrames THEN captured[r] + 1 ELSE 0
  <2>1. k \in FrameNo /\ (captured[r] < MaxFrames => captured[r] + 1 \in FrameNo)
    BY DEF FrameNo
  <2>2. Append(ring[r], k) \in Seq(FrameNo)
    BY <2>1
  <2>3. ring' \in [Recorders -> Seq(FrameNo)] /\ captured' \in [Recorders -> FrameNo]
    BY <1>2, <2>1, <2>2 DEF Capture
  <2> QED
    BY <1>2, <2>3 DEF Capture
<1>3. ASSUME NEW t \in Threads, ThreadStep(t) PROVE TypeOK'
  <2> USE DEF MainUnchanged, Goto
  <2>0. MainUnchanged
    BY <1>3 DEF ThreadStep
  <2>1. CASE Run(t)
    BY <2>0, <2>1 DEF Run, MicState, PC
  <2>2. CASE LoopTest(t)
    BY <2>0, <2>2 DEF LoopTest, PC
  <2>3. CASE MicRead(t)
    <3>1. owner[t] \in Recorders
      BY <2>3 DEF MicRead
    <3>2. /\ Head(ring[owner[t]]) \in FrameNo
          /\ Tail(ring[owner[t]]) \in Seq(FrameNo)
      BY <2>3, <3>1 DEF MicRead
    <3> QED
      BY <2>0, <2>3, <3>1, <3>2 DEF MicRead, Rest, PC
  <2>4. CASE MicReadFails(t)
    BY <2>0, <2>4 DEF MicReadFails, AfterError, PC
  <2>5. CASE Classify(t)
    BY <2>0, <2>5 DEF Classify, PC
  <2>6. CASE Dispatch(t)
    <3>1. CASE tokens[t] = <<>>
      BY <2>0, <2>6, <3>1 DEF Dispatch, PC
    <3>2. CASE tokens[t] # <<>>
      <4>1. Head(tokens[t]) \in Token /\ Tail(tokens[t]) \in Seq(Token)
        BY <3>2
      <4>2. Append(posted[t], Head(tokens[t])) \in Seq(Token)
        BY <4>1
      <4>3. tokens' = [tokens EXCEPT ![t] = Tail(@)] /\ pc' = pc
        BY <2>6, <3>2 DEF Dispatch
      <4>4. \/ posted' = [posted EXCEPT ![t] = Append(@, Head(tokens[t]))]
            \/ posted' = [posted EXCEPT ![t] = @]
        BY <2>6, <3>2 DEF Dispatch, NextToken
      <4>5. tokens' \in [Threads -> Seq(Token)]
        BY <4>1, <4>3
      <4>6. posted' \in [Threads -> Seq(Token)]
        BY <4>2, <4>4
      <4> QED
        BY <2>0, <2>6, <4>3, <4>5, <4>6 DEF Dispatch
    <3> QED
      BY <3>1, <3>2
  <2>7. CASE Release(t)
    BY <2>0, <2>7 DEF Release, Released, PC, MicState
  <2> QED
    BY <1>3, <2>1, <2>2, <2>3, <2>4, <2>5, <2>6, <2>7 DEF ThreadStep
<1>4. CASE UNCHANGED recVars
  BY <1>4 DEF recVars
<1> QED
  BY <1>1, <1>2, <1>3, <1>4 DEF Next

\* What a step of a thread must respect to keep the relations: a thread that
\* ends leaves no microphone recording, and only a given-up join() crashes one.
Relations == /\ Owned /\ FieldIsOwn /\ JoinHasThread
             /\ OneThread /\ NoNullDeref /\ MicHasThread

\* A step of a thread that leaves the main thread's part alone keeps the
\* relations, if a thread that ends leaves no microphone recording.
LEMMA ThreadMoves ==
  ASSUME RecInv, MainUnchanged, NEW t \in Threads, Running(t), Up,
         NEW label \in PC, label # "new", pc' = [pc EXCEPT ![t] = label],
         label = "crashed" => gaveUp,
         \A r \in Recorders : mic'[r] = "recording" =>
           \/ r = owner[t] /\ label # "exit"
           \/ mic[r] = "recording" /\ (label = "exit" => r # owner[t])
  PROVE  Relations'
<1> USE MicAssumption DEF MainUnchanged
<1>1. \A u \in Threads : pc'[u] = IF u = t THEN label ELSE pc[u]
  BY DEF RecInv, TypeOK
<1>2. pc[t] # "new" /\ owner[t] \in Recorders
  BY DEF RecInv, Owned, Running
<1>3. Owned'
  BY <1>1, <1>2 DEF RecInv, Owned
<1>4. FieldIsOwn'
  <2>1. \A r \in Recorders : backgroundThread[r] # null => backgroundThread[r] \in Threads
    BY DEF RecInv, TypeOK
  <2> QED
    BY <1>1, <2>1 DEF RecInv, FieldIsOwn
<1>5. JoinHasThread'
  BY DEF RecInv, JoinHasThread
<1>6. \A u \in Threads : Running(u)' => Running(u)
  BY <1>1 DEF Running
<1>7. OneThread'
  BY <1>6 DEF RecInv, OneThread
<1>8. NoNullDeref'
  BY <1>1 DEF NoNullDeref, Up
<1>9. MicHasThread'
  <2> SUFFICES ASSUME Up', NEW r \in Recorders, mic'[r] = "recording"
               PROVE  \E u \in Threads : Running(u)' /\ owner'[u] = r
    BY DEF MicHasThread
  <2>1. CASE r = owner[t] /\ label # "exit"
    <3>1. Running(t)'
      BY <1>1, <2>1 DEF Running, Up
    <3> QED
      BY <2>1, <3>1
  <2>2. CASE mic[r] = "recording" /\ (label = "exit" => r # owner[t])
    <3>1. PICK u \in Threads : Running(u) /\ owner[u] = r
      BY <2>2 DEF RecInv, MicHasThread
    <3>2. Running(u)'
      BY <1>1, <2>2, <3>1 DEF Running, Up
    <3> QED
      BY <3>1, <3>2
  <2> QED
    BY <2>1, <2>2
<1> QED
  BY <1>3, <1>4, <1>5, <1>7, <1>8, <1>9 DEF Relations

\* The same for a step that goes on in run() and starts no microphone but its own.
LEMMA ThreadGoesOn ==
  ASSUME RecInv, MainUnchanged, NEW t \in Threads, Running(t), Up,
         NEW label \in {"crashed", "test", "read", "classify", "dispatch", "release"},
         pc' = [pc EXCEPT ![t] = label], label = "crashed" => gaveUp,
         \A r \in Recorders :
           mic'[r] = "recording" => r = owner[t] \/ mic[r] = "recording"
  PROVE  Relations'
<1>1. label \in PC /\ label # "new" /\ label # "exit"
  BY DEF PC
<1>2. \A r \in Recorders : mic'[r] = "recording" =>
        \/ r = owner[t] /\ label # "exit"
        \/ mic[r] = "recording" /\ (label = "exit" => r # owner[t])
  BY <1>1
<1> QED
  BY <1>1, <1>2, ThreadMoves

\* Every action keeps the relations between fields, threads and microphones.
LEMMA RecInvStep == RecInv /\ [Next]_recVars => RecInv'
<1> SUFFICES ASSUME RecInv, [Next]_recVars PROVE RecInv'
  OBVIOUS
<1>0. TypeOK /\ TypeOK'
  BY RecTypeStep DEF RecInv
<1> USE MicAssumption
<1>1. ASSUME NEW r \in Recorders, MainStep(r) PROVE Relations'
  <2> USE DEF TypeOK, RecInv, Owned, FieldIsOwn, JoinHasThread,
          OneThread, NoNullDeref, MicHasThread, Running, Up, Relations
  <2> USE DEF RecordingUnchanged, MainIdle
  <2>1. CASE Construct(r)
    BY <1>0, <1>1, <2>1 DEF MainStep, Construct, Constructed
  <2>2. ASSUME NEW t \in Threads, Start(r, t) PROVE Relations'
    BY <1>0, <1>1, <2>2 DEF MainStep, Start, Started, NotStarted, Goto
  <2>3. CASE Stop(r)
    BY <1>0, <1>1, <2>3 DEF MainStep, Stop, Interrupt
  <2>4. CASE Joined(r)
    <3>1. CASE Terminated(r) /\ UNCHANGED gaveUp
      BY <1>0, <1>1, <2>4, <3>1 DEF MainStep, Joined, Terminated
    <3>2. CASE gaveUp' = TRUE
      BY <1>0, <1>1, <2>4, <3>2 DEF MainStep, Joined
    <3> QED
      BY <2>4, <3>1, <3>2 DEF Joined
  <2> QED
    BY <1>1, <2>1, <2>2, <2>3, <2>4 DEF MainStep
<1>2. ASSUME NEW r \in Recorders, Capture(r) PROVE Relations'
  BY <1>0, <1>2 DEF Capture, RecInv, Owned, FieldIsOwn, JoinHasThread,
     OneThread, NoNullDeref, MicHasThread, Running, Up, Relations
<1>3. ASSUME NEW t \in Threads, ThreadStep(t) PROVE Relations'
  <2>0. RecInv /\ MainUnchanged /\ Up
    BY <1>3 DEF ThreadStep
  <2>1. CASE Run(t)
    <3>1. owner[t] \in Recorders /\ Running(t)
      BY <2>1 DEF Run, RecInv, Owned, Running
    <3>2. CASE Usable(owner[t])
      <4>1. pc' = [pc EXCEPT ![t] = "test"]
        BY <2>1, <3>2 DEF Run, Goto
      <4>2. \A r \in Recorders : r # owner[t] => mic'[r] = mic[r]
        BY <1>0, <2>1, <3>1, <3>2 DEF Run, TypeOK
      <4>3. \A r \in Recorders :
              mic'[r] = "recording" => r = owner[t] \/ mic[r] = "recording"
        BY <4>2
      <4> QED
        BY <2>0, <3>1, <4>1, <4>3, ThreadGoesOn
    <3>3. CASE ~Usable(owner[t])
      <4>1. pc' = [pc EXCEPT ![t] = "exit"] /\ mic' = mic
        BY <2>1, <3>3 DEF Run, Goto
      <4>2. mic[owner[t]] # "recording"
        BY <3>3 DEF Usable
      <4>3. \A r \in Recorders :
              mic'[r] = "recording" => mic[r] = "recording" /\ r # owner[t]
        BY <4>1, <4>2
      <4>4. "exit" \in PC
        BY DEF PC
      <4> QED
        BY <2>0, <3>1, <4>1, <4>3, <4>4, ThreadMoves
    <3> QED
      BY <3>2, <3>3
  <2>2. CASE LoopTest(t)
    <3>1. PICK named \in Visible(t) :
            pc' = [pc EXCEPT ![t] = IF named = null THEN "crashed"
                    ELSE IF IsInterrupted(named) THEN "release" ELSE "read"]
      BY <2>2 DEF LoopTest, Goto
    <3>2. named = null => gaveUp
      BY <2>2 DEF LoopTest, Visible, RecInv, OneThread, Running
    <3>3. Running(t) /\ mic' = mic
      BY <2>2 DEF LoopTest, Running
    <3>4. PICK label \in {"crashed", "release", "read"} :
            /\ pc' = [pc EXCEPT ![t] = label]
            /\ label = "crashed" => gaveUp
      BY <3>1, <3>2
    <3> QED
      BY <2>0, <3>3, <3>4, ThreadGoesOn
  <2>3. CASE MicRead(t)
    <3>1. Running(t) /\ mic' = mic /\ pc' = [pc EXCEPT ![t] = "classify"]
      BY <2>3 DEF MicRead, Running, Goto
    <3> QED
      BY <2>0, <3>1, ThreadGoesOn
  <2>4. CASE MicReadFails(t)
    <3>1. Running(t) /\ mic' = mic /\ pc' = [pc EXCEPT ![t] = "classify"]
      BY <2>4 DEF MicReadFails, Running, Goto
    <3> QED
      BY <2>0, <3>1, ThreadGoesOn
  <2>5. CASE Classify(t)
    <3>1. Running(t) /\ mic' = mic /\ pc' = [pc EXCEPT ![t] = "dispatch"]
      BY <2>5 DEF Classify, Running, Goto
    <3> QED
      BY <2>0, <3>1, ThreadGoesOn
  <2>6. CASE Dispatch(t)
    <3>1. Running(t) /\ mic' = mic
      BY <2>6 DEF Dispatch, Running
    <3>2. CASE UNCHANGED pc
      <4>1. pc' = [pc EXCEPT ![t] = "dispatch"]
        BY <1>0, <2>6, <3>2 DEF Dispatch, TypeOK
      <4> QED
        BY <2>0, <3>1, <4>1, ThreadGoesOn
    <3>3. CASE pc' = [pc EXCEPT ![t] = "test"]
      BY <2>0, <3>1, <3>3, ThreadGoesOn
    <3> QED
      BY <2>6, <3>2, <3>3 DEF Dispatch, Goto
  <2>7. CASE Release(t)
    <3>1. owner[t] \in Recorders /\ Running(t)
      BY <2>7 DEF Release, RecInv, Owned, Running
    <3>2. \A r \in Recorders :
            mic'[r] = "recording" => mic[r] = "recording" /\ r # owner[t]
      BY <1>0, <2>7, <3>1 DEF Release, Released, TypeOK
    <3>3. "exit" \in PC /\ pc' = [pc EXCEPT ![t] = "exit"]
      BY <2>7 DEF Release, Goto, PC
    <3> QED
      BY <2>0, <3>1, <3>2, <3>3, ThreadMoves
  <2> QED
    BY <1>3, <2>1, <2>2, <2>3, <2>4, <2>5, <2>6, <2>7 DEF ThreadStep
<1>4. ASSUME UNCHANGED recVars PROVE Relations'
  BY <1>4 DEF recVars, RecInv, Owned, FieldIsOwn, JoinHasThread,
     OneThread, NoNullDeref, MicHasThread, Running, Up, Relations
<1>5. Relations'
  BY <1>1, <1>2, <1>3, <1>4 DEF Next
<1> QED
  BY <1>0, <1>5 DEF RecInv, Relations

-----------------------------------------------------------------------------
\* The invariant, for any number of recorders, threads, frames and failures.
THEOREM RecInvHolds == Spec => []RecInv
<1> QED
  BY RecInit, RecInvStep, PTL DEF Spec

\* The types of the fields, locals and histories are the declared ones.
THEOREM RecTypeCorrect == Spec => []TypeOK
<1>1. RecInv => TypeOK
  BY DEF RecInv
<1> QED
  BY <1>1, RecInvHolds, PTL

\* Every running thread is the one its recorder's field names, so that the
\* flag tested in the loop is the thread's own.
THEOREM ThreadsAreNamed == Spec => []OneThread
<1>1. RecInv => OneThread
  BY DEF RecInv
<1> QED
  BY <1>1, RecInvHolds, PTL

\* The loop condition never meets the null that stop() writes.
THEOREM LoopSparesNull == Spec => []NoNullDeref
<1>1. RecInv => NoNullDeref
  BY DEF RecInv
<1> QED
  BY <1>1, RecInvHolds, PTL

\* A recording microphone has a thread that will release it.
THEOREM NoMicLeak == Spec => []MicHasThread
<1>1. RecInv => MicHasThread
  BY DEF RecInv
<1> QED
  BY <1>1, RecInvHolds, PTL

\* Only Dispatch calls the listener, in the thread the field names.
THEOREM ListenerIsLeftAlone == Spec => SilentAfterStop
<1>1. RecInv /\ [Next]_recVars =>
        \A t \in Threads :
          posted'[t] # posted[t] => gaveUp \/ backgroundThread[owner[t]] = t
  <2> SUFFICES ASSUME RecInv, [Next]_recVars, NEW t \in Threads,
                      posted'[t] # posted[t]
               PROVE  gaveUp \/ backgroundThread[owner[t]] = t
    OBVIOUS
  <2>1. PICK u \in Threads : ThreadStep(u)
    BY DEF Next, recVars, MainStep, RecordingUnchanged, Capture
  <2>2. Dispatch(u) /\ u = t
    BY <2>1 DEF ThreadStep, Run, LoopTest, MicRead, MicReadFails, Classify,
       Release, Dispatch, RecInv, TypeOK
  <2> QED
    BY <2>2 DEF Dispatch, RecInv, OneThread, Running
<1> QED
  BY <1>1, RecInvHolds, PTL DEF Spec, SilentAfterStop

-----------------------------------------------------------------------------
(***************************************************************************)
(* What the listener hears.                                                *)
(***************************************************************************)

\* Frames up to number c, those with a sound in the order of their numbers;
\* and all of them later than frame x.
Ascending(frames, c) ==
  /\ \A i \in DOMAIN frames : frames[i] <= c
  /\ \A i, j \in DOMAIN frames : i < j => frames[j] = 0 \/ frames[i] < frames[j]

Later(frames, x) == \A i \in DOMAIN frames : frames[i] = 0 \/ x < frames[i]

\* Frames are in the ring in the order they were heard in, behind all that a
\* thread of the recorder has read.
InRing(r) == Ascending(ring[r], captured[r])

ReadBefore(t, r) ==
  /\ buffer[t] <= captured[r] /\ last[t] <= captured[r]
  /\ Later(ring[r], buffer[t]) /\ Later(ring[r], last[t])

\* What a thread has in its buffer was not classified yet, or is silence, or
\* is there again after a failed read; and it has tokens in the for loop only.
InThread(t) ==
  /\ pc[t] = "new" => owner[t] = null /\ buffer[t] = 0 /\ last[t] = 0
  /\ owner[t] # null => ReadBefore(t, owner[t])
  /\ buffer[t] = 0 \/ last[t] <= buffer[t]
  /\ pc[t] = "classify" => buffer[t] = 0 \/ last[t] < buffer[t] \/ errors > 0
  /\ pc[t] # "dispatch" => tokens[t] = <<>>

InOrder == (\A r \in Recorders : InRing(r)) /\ (\A t \in Threads : InThread(t))

\* A frame is heard.
LEMMA OneMoreFrame ==
  ASSUME NEW s \in Seq(Nat), NEW c \in Nat, NEW d \in Nat, c <= d,
         NEW k \in Nat, k <= d, k = 0 \/ c < k, Ascending(s, c)
  PROVE  /\ Ascending(Append(s, k), d)
         /\ \A x \in Nat : x <= c /\ Later(s, x) => Later(Append(s, k), x)
<1> DEFINE a == Append(s, k)
<1>1. Len(s) \in Nat /\ Len(a) = Len(s) + 1 /\ a \in Seq(Nat)
  BY AppendProperties, LenProperties
<1>2. DOMAIN a = 1..(Len(s) + 1) /\ DOMAIN s = 1..Len(s)
  BY <1>1, LenProperties
<1>3. (\A i \in 1..Len(s) : a[i] = s[i] /\ s[i] \in Nat) /\ a[Len(s) + 1] = k
  BY AppendProperties, LenProperties
<1> HIDE DEF a
<1>4. \A i \in 1..Len(s) : s[i] <= c /\ s[i] <= d
  BY <1>2, <1>3 DEF Ascending
<1>5. Ascending(a, d)
  <2>1. ASSUME NEW i \in DOMAIN a PROVE a[i] <= d
    <3>1. i \in 1..Len(s) \/ i = Len(s) + 1
      BY <1>1, <1>2
    <3> QED
      BY <1>3, <1>4, <3>1
  <2>2. ASSUME NEW i \in DOMAIN a, NEW j \in DOMAIN a, i < j
        PROVE  a[j] = 0 \/ a[i] < a[j]
    <3>1. i \in 1..Len(s) /\ (j \in 1..Len(s) \/ j = Len(s) + 1)
      BY <1>1, <1>2, <2>2
    <3> QED
      BY <1>2, <1>3, <1>4, <2>2, <3>1 DEF Ascending
  <2> QED
    BY <2>1, <2>2 DEF Ascending
<1>6. ASSUME NEW x \in Nat, x <= c, Later(s, x), NEW i \in DOMAIN a
      PROVE  a[i] = 0 \/ x < a[i]
  <2>1. i \in 1..Len(s) \/ i = Len(s) + 1
    BY <1>1, <1>2
  <2> QED
    BY <1>2, <1>3, <1>6, <2>1 DEF Later
<1> QED
  BY <1>5, <1>6 DEF Later, a

\* A frame is read.
LEMMA OneLessFrame ==
  ASSUME NEW s \in Seq(Nat), s # <<>>, NEW c \in Nat, Ascending(s, c)
  PROVE  /\ Head(s) \in Nat /\ Head(s) <= c
         /\ Ascending(Tail(s), c) /\ Later(Tail(s), Head(s))
         /\ \A x \in Nat : Later(s, x) => Later(Tail(s), x) /\ (Head(s) = 0 \/ x < Head(s))
<1>1. Len(s) \in Nat \ {0} /\ DOMAIN s = 1..Len(s) /\ Head(s) = s[1] /\ 1 \in DOMAIN s
  BY LenProperties, EmptySeq
<1>2. \A i \in DOMAIN s : s[i] \in Nat /\ s[i] <= c
  BY LenProperties DEF Ascending
<1>3. ASSUME NEW i \in DOMAIN Tail(s)
      PROVE  i \in Nat /\ i + 1 \in DOMAIN s /\ 1 < i + 1 /\ Tail(s)[i] = s[i + 1]
  BY <1>1
<1>4. Ascending(Tail(s), c)
  BY <1>2, <1>3 DEF Ascending
<1>5. Later(Tail(s), Head(s))
  BY <1>1, <1>3 DEF Ascending, Later
<1>6. \A x \in Nat : Later(s, x) => Later(Tail(s), x) /\ (Head(s) = 0 \/ x < Head(s))
  BY <1>1, <1>3 DEF Later
<1> QED
  BY <1>1, <1>2, <1>4, <1>5, <1>6

\* Nothing is captured yet.
LEMMA OrderInit == Init => InOrder
<1> SUFFICES ASSUME Init PROVE InOrder
  OBVIOUS
<1>1. ASSUME NEW r \in Recorders PROVE InRing(r)
  <2>1. ring[r] = <<>>
    BY DEF Init
  <2> QED
    BY <2>1 DEF InRing, Ascending
<1>2. ASSUME NEW t \in Threads PROVE InThread(t)
  BY DEF Init, InThread
<1> QED
  BY <1>1, <1>2 DEF InOrder

\* The types of what a step of recorder r and thread t works on.
LEMMA Types ==
  ASSUME RecInv
  PROVE  /\ MaxFrames \in Nat /\ null \notin Recorders /\ errors \in Nat
         /\ \A r \in Recorders : /\ ring[r] \in Seq(FrameNo) /\ captured[r] \in Nat
                                 /\ captured[r] <= MaxFrames
                                 /\ ring[r] \in Seq(Nat)
         /\ \A t \in Threads : /\ buffer[t] \in Nat /\ last[t] \in Nat
                               /\ buffer[t] \in FrameNo
                               /\ owner[t] \in Recorders \cup {null}
                               /\ tokens[t] \in Seq(Token)
<1> USE MicAssumption
<1>1. TypeOK
  BY DEF RecInv
<1>2. \A x \in FrameNo : x \in Nat /\ x <= MaxFrames
  BY DEF FrameNo
<1>3. FrameNo \subseteq Nat
  BY <1>2
<1>4. ASSUME NEW r \in Recorders PROVE ring[r] \in Seq(Nat)
  <2>1. ring[r] \in Seq(FrameNo)
    BY <1>1 DEF TypeOK
  <2> QED
    BY <1>3, <2>1, SeqMonotonic
<1> QED
  BY <1>1, <1>2, <1>4 DEF TypeOK

\* A step that leaves the rings alone, and the buffers.
LEMMA Elsewhere ==
  ASSUME RecInv, InOrder, UNCHANGED <<ring, captured, buffer, last, errors>>,
         \A t \in Threads : pc'[t] = "classify" => pc[t] = "classify",
         \A t \in Threads : pc'[t] = "new" => pc[t] = "new" /\ owner'[t] = owner[t],
         \A t \in Threads : owner'[t] = owner[t] \/ (pc[t] = "new" /\ owner'[t] \in Recorders),
         \A t \in Threads : pc'[t] # "dispatch" => tokens'[t] = <<>>
  PROVE  InOrder'
<1>1. ASSUME NEW r \in Recorders PROVE InRing(r)'
  BY DEF InOrder, InRing, Ascending
<1>2. ASSUME NEW t \in Threads PROVE InThread(t)'
  <2>1. CASE owner'[t] = owner[t]
    BY <2>1 DEF InOrder, InThread, ReadBefore
  <2>2. CASE pc[t] = "new" /\ owner'[t] \in Recorders
    <3>1. buffer[t] = 0 /\ last[t] = 0 /\ (pc'[t] # "new" \/ owner'[t] = owner[t])
      BY <2>2 DEF InOrder, InThread
    <3>2. ASSUME buffer[t] = 0, last[t] = 0, pc'[t] # "new"
          PROVE  InThread(t)'
      <4>1. PICK r \in Recorders : r = owner'[t]
        BY <2>2
      <4>2. captured[r] \in Nat /\ ring[r] \in Seq(Nat)
        BY Types
      <4>3. \A i \in DOMAIN ring[r] : ring[r][i] \in Nat
        BY <4>2, LenProperties
      <4>4. Later(ring[r], 0)
        BY <4>3 DEF Later
      <4>5. ReadBefore(t, r)'
        BY <3>2, <4>2, <4>4 DEF ReadBefore
      <4> QED
        BY <2>2, <3>2, <4>1, <4>5 DEF InOrder, InThread
    <3> QED
      BY <2>1, <3>1, <3>2, <2>2 DEF InOrder, InThread
  <2> QED
    BY <2>1, <2>2
<1> QED
  BY <1>1, <1>2 DEF InOrder

\* Every step keeps the order of the frames.
LEMMA OrderStep == RecInv /\ InOrder /\ [Next]_recVars => InOrder'
<1> SUFFICES ASSUME RecInv, InOrder, [Next]_recVars PROVE InOrder'
  OBVIOUS
<1> USE MicAssumption
<1>0. TypeOK /\ TypeOK'
  BY RecTypeStep DEF RecInv
<1>1. ASSUME NEW r \in Recorders, MainStep(r) PROVE InOrder'
  <2> USE DEF RecordingUnchanged
  <2>1. CASE Construct(r)
    BY <1>1, <2>1, Elsewhere DEF MainStep, Construct, InOrder, InThread
  <2>2. ASSUME NEW t \in Threads, Start(r, t) PROVE InOrder'
    BY <1>0, <1>1, <2>2, Elsewhere DEF MainStep, Start, Started, Goto, TypeOK, InOrder, InThread
  <2>3. CASE Stop(r)
    BY <1>1, <2>3, Elsewhere DEF MainStep, Stop, InOrder, InThread
  <2>4. CASE Joined(r)
    BY <1>1, <2>4, Elsewhere DEF MainStep, Joined, InOrder, InThread
  <2> QED
    BY <1>1, <2>1, <2>2, <2>3, <2>4 DEF MainStep
<1>2. ASSUME NEW r \in Recorders, Capture(r) PROVE InOrder'
  <2> DEFINE k == IF captured[r] < MaxFrames THEN captured[r] + 1 ELSE 0
  <2>1. /\ \A q \in Recorders : q # r => ring'[q] = ring[q] /\ captured'[q] = captured[q]
        /\ captured'[r] = IF captured[r] < MaxFrames THEN captured[r] + 1 ELSE captured[r]
        /\ ring'[r] = ring[r] \/ ring'[r] = Append(ring[r], k)
        /\ UNCHANGED <<owner, pc, buffer, tokens, errors, last>>
    BY <1>0, <1>2 DEF Capture, TypeOK
  <2>2. /\ k \in Nat /\ captured[r] \in Nat /\ MaxFrames \in Nat
        /\ captured'[r] \in Nat /\ captured[r] <= captured'[r] /\ k <= captured'[r]
        /\ k = 0 \/ captured[r] < k
    BY <2>1, Types
  <2>3. ring[r] \in Seq(Nat) /\ Ascending(ring[r], captured[r])
    BY Types DEF InOrder, InRing
  <2> HIDE DEF k
  <2>4. /\ Ascending(Append(ring[r], k), captured'[r])
        /\ \A x \in Nat : x <= captured[r] /\ Later(ring[r], x) => Later(Append(ring[r], k), x)
    BY <2>2, <2>3, OneMoreFrame
  <2>5. Ascending(ring[r], captured'[r])
    <3>1. \A i \in DOMAIN ring[r] : ring[r][i] \in Nat
      BY <2>3, LenProperties
    <3> QED
      BY <2>2, <2>3, <3>1 DEF Ascending
  <2>6. ASSUME NEW t \in Threads, owner[t] = r PROVE ReadBefore(t, r)'
    <3>1. /\ buffer[t] <= captured[r] /\ last[t] <= captured[r]
          /\ Later(ring[r], buffer[t]) /\ Later(ring[r], last[t])
          /\ buffer[t] \in Nat /\ last[t] \in Nat
      BY <2>6, Types DEF InOrder, InThread, ReadBefore
    <3>2. buffer[t] <= captured'[r] /\ last[t] <= captured'[r]
      BY <2>2, <3>1
    <3>3. Later(ring'[r], buffer[t]) /\ Later(ring'[r], last[t])
      BY <2>1, <2>4, <3>1
    <3> QED
      BY <2>1, <3>2, <3>3 DEF ReadBefore, Later
  <2>7. ASSUME NEW t \in Threads PROVE InThread(t)'
    <3>1. owner[t] # null => ReadBefore(t, owner[t])'
      BY <2>1, <2>6, <2>7, Types DEF InOrder, InThread, ReadBefore
    <3> QED
      BY <2>1, <3>1 DEF InOrder, InThread
  <2>8. ASSUME NEW q \in Recorders PROVE InRing(q)'
    <3>1. Ascending(ring'[r], captured'[r])
      BY <2>1, <2>4, <2>5
    <3> QED
      BY <2>1, <2>8, <3>1 DEF InOrder, InRing, Ascending
  <2> QED
    BY <2>7, <2>8 DEF InOrder
<1>3. ASSUME NEW t \in Threads, ThreadStep(t) PROVE InOrder'
  <2> USE DEF MainUnchanged, Goto
  <2>0. MainUnchanged /\ \A u \in Threads : pc[u] # "dispatch" => tokens[u] = <<>>
    BY <1>3 DEF ThreadStep, InOrder, InThread
  <2>1. CASE Run(t)
    BY <1>0, <2>0, <2>1, Elsewhere DEF Run, TypeOK
  <2>2. CASE LoopTest(t)
    BY <1>0, <2>0, <2>2, Elsewhere DEF LoopTest, TypeOK
  <2>3. CASE MicRead(t)
    <3> DEFINE r == owner[t]
               x == Head(ring[r])
    <3>1. r \in Recorders /\ r # null
      BY <2>3, Types DEF MicRead, RecInv, Owned
    <3>2. /\ ring[r] # <<>> /\ ring'[r] = Tail(ring[r])
          /\ \A q \in Recorders : q # r => ring'[q] = ring[q]
          /\ buffer'[t] = x /\ \A u \in Threads : u # t => buffer'[u] = buffer[u]
          /\ pc'[t] = "classify" /\ \A u \in Threads : u # t => pc'[u] = pc[u]
          /\ UNCHANGED <<captured, owner, tokens, errors, last>>
      BY <1>0, <2>0, <2>3, <3>1 DEF MicRead, Rest, TypeOK
    <3>3. ring[r] \in Seq(Nat) /\ captured[r] \in Nat /\ Ascending(ring[r], captured[r])
      BY <3>1, Types DEF InOrder, InRing
    <3>4. /\ x \in Nat /\ x <= captured[r]
          /\ Ascending(Tail(ring[r]), captured[r]) /\ Later(Tail(ring[r]), x)
          /\ \A y \in Nat : Later(ring[r], y) => Later(Tail(ring[r]), y) /\ (x = 0 \/ y < x)
      BY <3>2, <3>3, OneLessFrame
    <3>6. ASSUME NEW q \in Recorders PROVE InRing(q)'
      <4>1. Ascending(ring'[r], captured'[r])
        BY <3>2, <3>4
      <4>2. CASE q = r
        BY <4>1, <4>2 DEF InRing, Ascending
      <4>3. CASE q # r
        BY <3>2, <3>6, <4>3 DEF InOrder, InRing, Ascending
      <4> QED
        BY <4>2, <4>3
    <3>8. ASSUME NEW u \in Threads, owner[u] = r
          PROVE  /\ last[u] <= captured[r] /\ last[u] \in Nat /\ buffer[u] <= captured[r]
                 /\ Later(ring'[r], buffer[u]) /\ Later(ring'[r], last[u])
                 /\ x = 0 \/ last[u] < x
      <4>1. /\ last[u] <= captured[r] /\ last[u] \in Nat /\ buffer[u] <= captured[r] /\ buffer[u] \in Nat
            /\ Later(ring[r], buffer[u]) /\ Later(ring[r], last[u])
        BY <3>1, <3>8, Types DEF InOrder, InThread, ReadBefore
      <4> QED
        BY <3>2, <3>4, <4>1
    <3>9. ASSUME NEW u \in Threads, owner[u] = r PROVE ReadBefore(u, owner[u])'
      <4>1. Later(ring'[r], buffer'[u])
        BY <3>2, <3>4, <3>8, <3>9
      <4>2. buffer'[u] <= captured[r]
        BY <3>2, <3>4, <3>8, <3>9
      <4> QED
        BY <3>2, <3>8, <3>9, <4>1, <4>2 DEF ReadBefore, Later
    <3>10. ASSUME NEW u \in Threads, owner[u] # null PROVE ReadBefore(u, owner[u])'
      <4>1. CASE owner[u] = r
        BY <3>9, <4>1
      <4>2. CASE owner[u] # r
        <5>1. owner[u] \in Recorders /\ u # t
          BY <3>10, <4>2, Types
        <5> QED
          <6>1. ReadBefore(u, owner[u])
            BY <3>10 DEF InOrder, InThread
          <6>2. ring'[owner[u]] = ring[owner[u]] /\ buffer'[u] = buffer[u]
            BY <3>2, <4>2, <5>1
          <6> QED
            BY <3>2, <6>1, <6>2 DEF ReadBefore, Later
      <4> QED
        BY <4>1, <4>2
    <3>11. x = 0 \/ (last[t] < x /\ last[t] <= x)
      BY <3>4, <3>8
    <3>12. ASSUME NEW u \in Threads PROVE InThread(u)'
      <4>1. CASE u = t
        <5>1. pc[t] = "read"
          BY <2>3 DEF MicRead
        <5> QED
          BY <2>0, <3>1, <3>2, <3>4, <3>8, <3>10, <3>11, <4>1, <5>1 DEF InThread
      <4>2. CASE u # t
        BY <3>2, <3>10, <4>2 DEF InOrder, InThread
      <4> QED
        BY <4>1, <4>2
    <3> QED
      BY <3>6, <3>12 DEF InOrder
  <2>4. CASE MicReadFails(t)
    <3>1. /\ pc[t] = "read" /\ pc'[t] = "classify"
          /\ \A u \in Threads : u # t => pc'[u] = pc[u]
          /\ UNCHANGED <<ring, captured, owner, buffer, last, tokens>>
          /\ errors' > 0 /\ errors' \in Nat
      BY <1>0, <2>0, <2>4, Types DEF MicReadFails, AfterError, TypeOK
    <3>2. ASSUME NEW u \in Threads PROVE InThread(u)'
      BY <3>1, <3>2, Types DEF InOrder, InThread, ReadBefore, Later
    <3> QED
      BY <3>1, <3>2 DEF InOrder, InRing, Ascending
  <2>5. CASE Classify(t)
    <3>1. /\ pc[t] = "classify" /\ pc'[t] = "dispatch"
          /\ \A u \in Threads : u # t => pc'[u] = pc[u] /\ last'[u] = last[u] /\ tokens'[u] = tokens[u]
          /\ last'[t] = IF buffer[t] = 0 THEN last[t] ELSE buffer[t]
          /\ UNCHANGED <<ring, captured, owner, buffer, errors>>
      BY <1>0, <2>0, <2>5 DEF Classify, TypeOK
    <3>2. ASSUME NEW u \in Threads PROVE InThread(u)'
      <4>1. CASE u = t
        <5>1. owner[t] # null => Later(ring[owner[t]], buffer[t]) /\ Later(ring[owner[t]], last[t])
                                 /\ buffer[t] <= captured[owner[t]] /\ last[t] <= captured[owner[t]]
          BY DEF InOrder, InThread, ReadBefore
        <5>2. last'[t] \in {last[t], buffer[t]} /\ (buffer[t] = 0 \/ last'[t] <= buffer[t])
              /\ buffer[t] \in Nat
          BY <3>1, Types
        <5>3. owner[t] # null => ReadBefore(t, owner[t])'
          BY <3>1, <5>1, <5>2 DEF ReadBefore, Later
        <5> QED
          BY <3>1, <4>1, <5>2, <5>3 DEF InThread
      <4>2. CASE u # t
        BY <3>1, <3>2, <4>2 DEF InOrder, InThread, ReadBefore, Later
      <4> QED
        BY <4>1, <4>2
    <3> QED
      BY <3>1, <3>2 DEF InOrder, InRing, Ascending
  <2>6. CASE Dispatch(t)
    BY <1>0, <2>0, <2>6, Elsewhere DEF Dispatch, TypeOK
  <2>7. CASE Release(t)
    <3>1. owner[t] \in Recorders
      BY <2>7 DEF Release, RecInv, Owned
    <3>2. /\ ring'[owner[t]] = <<>> /\ \A q \in Recorders : q # owner[t] => ring'[q] = ring[q]
          /\ UNCHANGED <<captured, owner, buffer, last, tokens, errors>>
          /\ pc[t] = "release" /\ pc'[t] = "exit" /\ \A u \in Threads : u # t => pc'[u] = pc[u]
      BY <1>0, <2>0, <2>7, <3>1 DEF Release, TypeOK
    <3>3. ASSUME NEW q \in Recorders PROVE InRing(q)'
      BY <3>2, <3>3 DEF InOrder, InRing, Ascending
    <3>4. ASSUME NEW u \in Threads PROVE InThread(u)'
      <4>1. ASSUME owner[u] # null PROVE ReadBefore(u, owner[u])'
        <5>1. ReadBefore(u, owner[u]) /\ owner[u] \in Recorders
          BY <4>1, Types DEF InOrder, InThread
        <5>2. CASE owner[u] = owner[t]
          <6>1. DOMAIN ring'[owner[u]] = {}
            BY <3>2, <5>2
          <6> QED
            BY <3>2, <5>1, <6>1 DEF ReadBefore, Later
        <5>3. CASE owner[u] # owner[t]
          BY <3>2, <5>1, <5>3 DEF ReadBefore, Later
        <5> QED
          BY <5>2, <5>3
      <4> QED
        BY <3>2, <3>4, <4>1 DEF InOrder, InThread
    <3> QED
      BY <3>3, <3>4 DEF InOrder
  <2> QED
    BY <1>3, <2>1, <2>2, <2>3, <2>4, <2>5, <2>6, <2>7 DEF ThreadStep
<1>4. ASSUME UNCHANGED recVars PROVE InOrder'
  BY <1>4 DEF recVars, InOrder, InRing, InThread, ReadBefore, Ascending, Later
<1> QED
  BY <1>1, <1>2, <1>3, <1>4 DEF Next

\* The last frame the microphone of a thread has heard.
HeardBy(t) == IF owner[t] = null THEN 0 ELSE captured[owner[t]]

\* A step in which the thread does nothing a listener could notice.
LEMMA HearsMore ==
  ASSUME NEW t \in Threads, HeardBy(t) \in Nat, HeardBy(t)' \in Nat, HeardBy(t) <= HeardBy(t)',
         last'[t] = last[t], tokens'[t] = tokens[t], posted'[t] = posted[t], errors' = errors
  PROVE  [Notifier(t)!Next]_(Notifier(t)!vars)
<1>1. CASE HeardBy(t)' = HeardBy(t)
  <2>1. UNCHANGED Notifier(t)!vars
    BY <1>1 DEF HeardBy, Notifier!vars
  <2> QED
    BY <2>1
<1>2. CASE HeardBy(t)' # HeardBy(t)
  <2>1. Notifier(t)!Capture
    BY <1>2 DEF HeardBy, Notifier!Capture
  <2> QED
    BY <2>1 DEF Notifier!Next
<1> QED
  BY <1>1, <1>2

\* A thread classifies a frame later than those before, the last one again
\* after a failed read, or silence.
LEMMA ClassifyListens ==
  ASSUME RecInv, InOrder, NEW t \in Threads, Classify(t), MainUnchanged
  PROVE  [Notifier(t)!Next]_(Notifier(t)!vars)
<1> USE MicAssumption
<1>1. /\ pc[t] = "classify" /\ tokens'[t] = Tokens[buffer[t]]
      /\ last'[t] = IF buffer[t] = 0 THEN last[t] ELSE buffer[t]
      /\ UNCHANGED <<captured, owner, posted, errors>>
  BY DEF Classify, MainUnchanged, RecInv, TypeOK
<1>2. /\ tokens[t] = <<>> /\ owner[t] \in Recorders /\ owner[t] # null
      /\ buffer[t] = 0 \/ last[t] < buffer[t] \/ (errors > 0 /\ last[t] <= buffer[t])
      /\ buffer[t] <= captured[owner[t]]
  BY <1>1 DEF InOrder, InThread, ReadBefore, RecInv, Owned
<1>3. buffer[t] \in Nat /\ last[t] \in Nat /\ captured[owner[t]] \in Nat
  BY <1>2, Types
<1>4. CASE buffer[t] = 0
  <2>1. Notifier(t)!ListenToSilence
    BY <1>1, <1>2, <1>4 DEF Notifier!ListenToSilence
  <2> QED
    BY <2>1 DEF Notifier!Next
<1>5. CASE buffer[t] # 0
  <2>1. /\ buffer[t] \in 1..HeardBy(t)
        /\ buffer[t] > last[t] \/ (errors > 0 /\ buffer[t] = last[t])
    BY <1>2, <1>3, <1>5 DEF HeardBy
  <2>2. Notifier(t)!Listen
    BY <1>1, <1>2, <1>5, <2>1 DEF Notifier!Listen, HeardBy
  <2> QED
    BY <2>2 DEF Notifier!Next
<1> QED
  BY <1>4, <1>5

\* The for loop reports the volume tokens and skips the noise.
LEMMA DispatchReports ==
  ASSUME RecInv, NEW t \in Threads, Dispatch(t), MainUnchanged, tokens[t] # <<>>
  PROVE  [Notifier(t)!Next]_(Notifier(t)!vars)
<1>1. /\ tokens'[t] = Tail(tokens[t]) /\ UNCHANGED <<captured, owner, errors, last>>
      /\ Head(tokens[t]) # "NOISE" => posted'[t] = Append(posted[t], Head(tokens[t]))
      /\ Head(tokens[t]) = "NOISE" => posted'[t] = posted[t]
  BY DEF Dispatch, MainUnchanged, RecInv, TypeOK, NextToken, IsVolume
<1>2. CASE Head(tokens[t]) # "NOISE"
  <2>1. Notifier(t)!Report
    BY <1>1, <1>2 DEF Notifier!Report
  <2> QED
    BY <2>1 DEF Notifier!Next
<1>3. CASE Head(tokens[t]) = "NOISE"
  <2>1. Notifier(t)!Skip
    BY <1>1, <1>3 DEF Notifier!Skip
  <2> QED
    BY <2>1 DEF Notifier!Next
<1> QED
  BY <1>2, <1>3

\* Every step is a step of each thread's notifier, or none.
LEMMA NotifierStep ==
  ASSUME RecInv, InOrder, [Next]_recVars, NEW t \in Threads
  PROVE  [Notifier(t)!Next]_(Notifier(t)!vars)
<1> USE MicAssumption
<1>0. /\ TypeOK /\ \A r \in Recorders : captured[r] \in Nat
      /\ HeardBy(t) \in Nat /\ owner[t] \in Recorders \cup {null}
  BY Types DEF RecInv, HeardBy
<1>1. ASSUME NEW r \in Recorders, MainStep(r)
      PROVE  [Notifier(t)!Next]_(Notifier(t)!vars)
  <2>1. /\ UNCHANGED <<captured, errors>> /\ last'[t] = last[t]
        /\ tokens'[t] = tokens[t] /\ posted'[t] = posted[t]
    BY <1>1 DEF MainStep, RecordingUnchanged
  <2>2. owner'[t] = owner[t] \/ (owner[t] = null /\ owner'[t] \in Recorders)
    <3>1. ASSUME NEW u \in Threads, Start(r, u)
          PROVE  owner'[t] = owner[t] \/ (owner[t] = null /\ owner'[t] \in Recorders)
      BY <1>0, <3>1 DEF Start, Started, TypeOK, InOrder, InThread
    <3> QED
      BY <1>1, <3>1 DEF MainStep, Construct, Stop, Joined
  <2>3. HeardBy(t)' \in Nat /\ HeardBy(t) <= HeardBy(t)'
    BY <1>0, <2>1, <2>2 DEF HeardBy
  <2> QED
    BY <1>0, <2>1, <2>3, HearsMore
<1>2. ASSUME NEW r \in Recorders, Capture(r)
      PROVE  [Notifier(t)!Next]_(Notifier(t)!vars)
  <2>1. /\ UNCHANGED <<owner, errors>> /\ last'[t] = last[t]
        /\ tokens'[t] = tokens[t] /\ posted'[t] = posted[t]
    BY <1>2 DEF Capture
  <2>2. \A q \in Recorders : captured'[q] \in Nat /\ captured[q] <= captured'[q]
    <3>1. \A q \in Recorders :
            captured'[q] = IF q = r /\ captured[r] < MaxFrames THEN captured[r] + 1 ELSE captured[q]
      BY <1>2 DEF Capture, RecInv, TypeOK
    <3> QED
      BY <1>0, <3>1
  <2>3. HeardBy(t)' \in Nat /\ HeardBy(t) <= HeardBy(t)'
    BY <1>0, <2>1, <2>2 DEF HeardBy
  <2> QED
    BY <1>0, <2>1, <2>3, HearsMore
<1>3. ASSUME NEW u \in Threads, ThreadStep(u)
      PROVE  [Notifier(t)!Next]_(Notifier(t)!vars)
  <2>0. MainUnchanged /\ UNCHANGED <<captured, owner>> /\ HeardBy(t)' = HeardBy(t)
    BY <1>3 DEF ThreadStep, MainUnchanged, HeardBy
  <2>1. CASE MicReadFails(u)
    <3>1. errors' > 0 /\ UNCHANGED <<last, tokens, posted>>
      BY <1>0, <2>1 DEF MicReadFails, TypeOK
    <3>2. Notifier(t)!ReadFails
      BY <2>0, <3>1 DEF Notifier!ReadFails
    <3> QED
      BY <3>2 DEF Notifier!Next
  <2>2. CASE Run(u) \/ LoopTest(u) \/ MicRead(u) \/ Release(u)
    <3>1. UNCHANGED <<errors, last, tokens, posted>>
      BY <2>2 DEF Run, LoopTest, MicRead, Release
    <3> QED
      BY <1>0, <2>0, <3>1, HearsMore
  <2>3. CASE Classify(u)
    <3>1. CASE u = t
      BY <2>0, <2>3, <3>1, ClassifyListens
    <3>2. CASE u # t
      <4>1. errors' = errors /\ last'[t] = last[t] /\ tokens'[t] = tokens[t] /\ posted'[t] = posted[t]
        BY <1>0, <2>3, <3>2 DEF Classify, TypeOK
      <4> QED
        BY <1>0, <2>0, <4>1, HearsMore
    <3> QED
      BY <3>1, <3>2
  <2>4. CASE Dispatch(u)
    <3>1. CASE u = t /\ tokens[t] # <<>>
      BY <2>0, <2>4, <3>1, DispatchReports
    <3>2. CASE ~(u = t /\ tokens[t] # <<>>)
      <4>1. errors' = errors /\ last'[t] = last[t] /\ tokens'[t] = tokens[t] /\ posted'[t] = posted[t]
        BY <1>0, <2>4, <3>2 DEF Dispatch, TypeOK
      <4> QED
        BY <1>0, <2>0, <4>1, HearsMore
    <3> QED
      BY <3>1, <3>2
  <2> QED
    BY <1>3, <2>1, <2>2, <2>3, <2>4 DEF ThreadStep
<1>4. ASSUME UNCHANGED recVars
      PROVE  [Notifier(t)!Next]_(Notifier(t)!vars)
  BY <1>0, <1>4, HearsMore DEF recVars, HeardBy
<1> QED
  BY <1>1, <1>2, <1>3, <1>4 DEF Next

\* Each thread is a VolumeNotifier of what its microphone heard, for any
\* number of recorders, threads, frames and failures: no order of reads,
\* overruns, restarts and failures makes the listener hear a token that was
\* not heard, out of order, or twice without a failed read.
THEOREM ListenerHearsTheSound == Spec => ReportsWhatIsHeard
<1>1. Init => \A t \in Threads : Notifier(t)!Init
  BY DEF Init, Notifier!Init
<1>2. RecInv /\ InOrder /\ [Next]_recVars =>
        [\A t \in Threads : [Notifier(t)!Next]_(Notifier(t)!vars)]_recVars
  BY NotifierStep
<1>3. Spec => []InOrder
  BY OrderInit, OrderStep, RecInvHolds, PTL DEF Spec
<1> QED
  BY <1>1, <1>2, <1>3, RecInvHolds, PTL DEF Spec, ReportsWhatIsHeard

-----------------------------------------------------------------------------
(* The activity with its recorders.  All its actions but OnGranted are      *)
(* steps of MicRecorder as well; OnGranted does Construct and Start at      *)
(* once.                                                                    *)

\* The initial state satisfies the invariant.
LEMMA ActivityInvInit == ActivityInit => ActivityInv
<1> SUFFICES ASSUME ActivityInit PROVE ActivityInv
  OBVIOUS
<1>1. RecInv /\ TypeOK
  BY RecInit DEF ActivityInit, RecInv
<1>2. ActivityTypeOK
  <2>1. 0 \in 0..MaxRequests /\ <<>> \in Seq(Message)
    BY ActivityAssumption
  <2> QED
    BY <1>1, <2>1 DEF ActivityInit, ActivityTypeOK
<1> QED
  BY <1>1, <1>2 DEF ActivityInit, Init, ActivityInv, NoOrphan, Running

\* What the main thread does when the permission is granted.
LEMMA GrantedStep ==
  ASSUME RecInv, NEW r \in Recorders, NEW t \in Threads, OnGranted(r, t)
  PROVE  RecInv'
<1> USE MicAssumption DEF TypeOK, RecInv, Owned, FieldIsOwn, JoinHasThread,
          OneThread, NoNullDeref, MicHasThread, Running, Up
<1>0. TypeOK
  OBVIOUS
<1> USE DEF OnGranted, MainIdle, Constructed, Started, Goto, NotStarted,
        RecordingUnchanged
<1>1. TypeOK'
  BY DEF MicState, PC
<1>2. Owned' /\ FieldIsOwn' /\ JoinHasThread'
  OBVIOUS
<1>3. OneThread' /\ NoNullDeref' /\ MicHasThread'
  OBVIOUS
<1> QED
  BY <1>1, <1>2, <1>3

\* Every step of the app keeps the invariant of the recorders.
LEMMA RecorderStep ==
  ASSUME ActivityInv, [ActivityNext]_allVars
  PROVE  RecInv'
<1>1. RecInv
  BY DEF ActivityInv
<1>2. ASSUME NEW r \in Recorders, NEW t \in Threads, OnGranted(r, t)
      PROVE  RecInv'
  BY <1>1, <1>2, GrantedStep
<1>3. ASSUME NEW r \in Recorders, OnStop(r) \/ OnStopReturns(r) \/ MicHears(r)
      PROVE  [Next]_recVars
  BY <1>3 DEF OnStop, OnStopReturns, MicHears, Next, MainStep
<1>4. ASSUME NEW t \in Threads, RecordingStep(t) PROVE [Next]_recVars
  BY <1>4 DEF RecordingStep, Next
<1>5. CASE OnStart \/ OnDenied \/ OnStopIdle \/ HandleMessage \/ UNCHANGED allVars
  <2>1. UNCHANGED recVars
    BY <1>5 DEF OnStart, OnDenied, OnStopIdle, HandleMessage, allVars, recVars
  <2> QED
    BY <1>1, <2>1, RecInvStep
<1> QED
  BY <1>1, <1>2, <1>3, <1>4, <1>5, RecInvStep DEF ActivityNext

\* A recording thread's step keeps what ActivityInv says of the recorders:
\* no thread starts and no flag of the main thread changes.
LEMMA ThreadLeavesMain ==
  ASSUME RecInv, ~gaveUp, NEW t \in Threads, ThreadStep(t)
  PROVE  /\ \A u \in Threads : Running(u)' => Running(u)
         /\ UNCHANGED <<owner, joining, backgroundThread>>
         /\ ~gaveUp'
<1>0. MainUnchanged
  BY DEF ThreadStep
<1>1. UNCHANGED <<owner, joining, backgroundThread>> /\ ~gaveUp'
  BY <1>0 DEF MainUnchanged
<1>2. pc[t] \notin {"new", "exit", "crashed"}
  BY DEF ThreadStep, Run, LoopTest, MicRead, MicReadFails, Classify, Dispatch, Release
<1>3. \/ pc' = pc
      \/ \E label : pc' = [pc EXCEPT ![t] = label]
  BY DEF ThreadStep, Run, LoopTest, MicRead, MicReadFails, Classify, Dispatch,
     Release, Goto
<1>4. \A u \in Threads : u # t => pc'[u] = pc[u]
  BY <1>3 DEF RecInv, TypeOK
<1> QED
  BY <1>1, <1>2, <1>4 DEF Running

\* Every step of the app keeps the relation between the activity's field, its
\* requests and the threads that run, if nothing interrupts the main thread.
LEMMA ActivityInvStep ==
  ASSUME ~JoinInterrupts
  PROVE  ActivityInv /\ [ActivityNext]_allVars => ActivityInv'
<1> SUFFICES ASSUME ActivityInv, [ActivityNext]_allVars PROVE ActivityInv'
  OBVIOUS
<1>0. RecInv /\ RecInv' /\ TypeOK /\ TypeOK'
  BY RecorderStep DEF ActivityInv, RecInv
<1> DEFINE Main ==
      /\ started \in BOOLEAN /\ requests \in 0..MaxRequests
      /\ recorder \in Recorders \cup {null} /\ overlapped \in BOOLEAN
      /\ ~gaveUp
      /\ joining # null => joining = recorder /\ ~started
      /\ recorder # null => backgroundThread[recorder] # null
      /\ ~overlapped => /\ requests <= 1
                        /\ recorder # null => requests = 0
                        /\ recorder # null => (started <=> joining = null)
      /\ NoOrphan
<1> USE MicAssumption, ActivityAssumption
<1>a. Main /\ queue \in Seq(Message)
  BY DEF ActivityInv, ActivityTypeOK
<1> USE DEF NoOrphan, Running
<1>1. ASSUME OnStart PROVE Main'
  <2>1. /\ ~started /\ joining = null /\ started' = TRUE
        /\ UNCHANGED <<recorder, joining, backgroundThread, gaveUp, pc, owner>>
    BY <1>1 DEF OnStart, MainIdle, recVars
  <2>2. NoOrphan'
    <3>1. ~overlapped' => ~overlapped
      BY <1>1 DEF OnStart
    <3> QED
      BY <3>1, <2>1, <1>a
  <2>3. CASE requests < MaxRequests
    <3>1. requests' = requests + 1 /\ overlapped' = (overlapped \/ requests > 0)
      BY <1>1, <2>3 DEF OnStart, CanRequest
    <3>2. overlapped' \in BOOLEAN
      BY <3>1
    <3>3. ~overlapped' => ~overlapped /\ ~(requests > 0)
      BY <3>1
    <3>4. ~overlapped' => recorder = null /\ requests' = 1
      BY <3>1, <3>3, <2>1, <1>a
    <3>5. requests' \in 0..MaxRequests
      BY <3>1, <2>3, <1>a
    <3> QED
      BY <3>2, <3>4, <3>5, <2>1, <2>2, <1>0, <1>a
  <2>4. CASE ~(requests < MaxRequests)
    <3>1. requests' = requests /\ overlapped' = overlapped
      BY <1>1, <2>4 DEF OnStart, CanRequest
    <3> QED
      BY <3>1, <2>1, <2>2, <1>0, <1>a
  <2> QED
    BY <2>3, <2>4
<1>2. ASSUME OnDenied PROVE Main'
  BY <1>0, <1>a, <1>2 DEF OnDenied, MainIdle, recVars
<1>3. ASSUME OnStopIdle PROVE Main'
  BY <1>0, <1>a, <1>3 DEF OnStopIdle, NoRecorder, MainIdle, recVars
<1>4. ASSUME HandleMessage PROVE Main'
  BY <1>0, <1>a, <1>4 DEF HandleMessage, MainIdle, recVars
<1>5. ASSUME NEW r \in Recorders, NEW t \in Threads, OnGranted(r, t) PROVE Main'
  <2> USE <1>5 DEF OnGranted
  <2>1. /\ started /\ joining = null /\ requests > 0 /\ requests' = requests - 1
        /\ recorder' = r /\ r # null /\ t # null
        /\ UNCHANGED <<joining, started, overlapped, gaveUp>>
    BY DEF MainIdle
  <2>2. /\ backgroundThread' = [backgroundThread EXCEPT ![r] = t]
        /\ owner' = [owner EXCEPT ![t] = r]
        /\ pc' = [pc EXCEPT ![t] = "run"]
    BY DEF Started, Goto
  <2>3. backgroundThread'[r] = t
    BY <1>0, <2>2 DEF TypeOK
  <2>4. ~overlapped => recorder = null /\ requests' = 0
    BY <1>a, <2>1
  <2>5. ~overlapped => \A u \in Threads : ~Running(u)
    BY <1>0, <1>a, <2>4 DEF RecInv, Owned
  <2>6. NoOrphan'
    BY <1>0, <2>1, <2>2, <2>5 DEF TypeOK
  <2>7. requests' \in 0..MaxRequests
    BY <1>a, <2>1
  <2> QED
    BY <1>a, <2>1, <2>3, <2>4, <2>6, <2>7
<1>6. ASSUME NEW r \in Recorders, OnStop(r) PROVE Main'
  BY <1>0, <1>a, <1>6 DEF OnStop, Stop, MainIdle
<1>7. ASSUME NEW r \in Recorders, OnStopReturns(r) PROVE Main'
  <2> USE <1>7 DEF OnStopReturns, Joined
  <2>1. /\ joining = r /\ recorder = r /\ joining' = null /\ recorder' = null
        /\ pc[backgroundThread[r]] = "exit"
        /\ UNCHANGED <<started, requests, overlapped, gaveUp, pc, owner>>
    BY <1>a DEF Terminated
  <2>2. ~overlapped => \A u \in Threads : ~Running(u)
    BY <1>0, <1>a, <2>1 DEF RecInv, OneThread
  <2> QED
    BY <1>a, <2>1, <2>2
<1>8. ASSUME NEW r \in Recorders, MicHears(r) PROVE Main'
  BY <1>0, <1>a, <1>8 DEF MicHears, Capture, activityVars
<1>9. ASSUME NEW t \in Threads, RecordingStep(t) PROVE Main'
  BY <1>0, <1>a, <1>9, ThreadLeavesMain DEF RecordingStep
<1>10. ASSUME UNCHANGED allVars PROVE Main'
  BY <1>0, <1>a, <1>10 DEF allVars
<1>11. Main'
  BY <1>1, <1>2, <1>3, <1>4, <1>5, <1>6, <1>7, <1>8, <1>9, <1>10
     DEF ActivityNext
<1>12. queue' \in Seq(Message)
  <2>1. ASSUME NEW t \in Threads, RecordingStep(t) PROVE queue' \in Seq(Message)
    <3>1. posted'[t] \in Seq(Token)
      BY <1>0 DEF TypeOK
    <3>2. CASE posted'[t] = posted[t]
      BY <1>a, <2>1, <3>2 DEF RecordingStep
    <3>3. CASE posted'[t] # posted[t]
      <4>1. Dispatch(t) /\ tokens[t] # <<>>
        BY <2>1, <3>3 DEF RecordingStep, ThreadStep, Run, LoopTest,
           MicRead, MicReadFails, Classify, Dispatch, Release
      <4>2. posted'[t] = Append(posted[t], Head(tokens[t])) /\ IsVolume(Head(tokens[t]))
        <5>1. posted'[t] = IF IsVolume(Head(tokens[t]))
                             THEN Append(posted[t], Head(tokens[t])) ELSE posted[t]
          BY <1>0, <4>1 DEF Dispatch, NextToken, TypeOK
        <5> QED
          BY <3>3, <5>1
      <4>3. posted[t] \in Seq(Token) /\ Head(tokens[t]) \in Token
        BY <1>0, <4>1 DEF Dispatch, TypeOK
      <4>4. posted'[t][Len(posted'[t])] = Head(tokens[t])
        BY <4>2, <4>3
      <4>5. Posted(Head(tokens[t])) \in Message
        BY <4>2, <4>3 DEF IsVolume, Token, Posted, Message
      <4> QED
        BY <1>a, <2>1, <3>3, <4>4, <4>5 DEF RecordingStep
    <3> QED
      BY <3>2, <3>3
  <2>2. CASE HandleMessage
    BY <1>a, <2>2 DEF HandleMessage, HasMessage
  <2>3. ASSUME UNCHANGED queue PROVE queue' \in Seq(Message)
    BY <1>a, <2>3
  <2>4. CASE OnStart \/ OnDenied \/ OnStopIdle \/ UNCHANGED allVars
    BY <2>3, <2>4 DEF OnStart, OnDenied, OnStopIdle, allVars
  <2>5. ASSUME NEW r \in Recorders, OnStop(r) \/ OnStopReturns(r) \/ MicHears(r)
               \/ \E t \in Threads : OnGranted(r, t)
        PROVE  queue' \in Seq(Message)
    BY <2>3, <2>5 DEF OnGranted, OnStop, OnStopReturns, MicHears, activityVars
  <2> QED
    BY <2>1, <2>2, <2>4, <2>5 DEF ActivityNext
<1> QED
  BY <1>0, <1>11, <1>12 DEF ActivityInv, ActivityTypeOK

-----------------------------------------------------------------------------
\* The activity's part and the recorders' part of the invariant together.
THEOREM ActivityInvHolds ==
  ASSUME ~JoinInterrupts
  PROVE  ActivitySpec => []ActivityInv
<1> QED
  BY ActivityInvInit, ActivityInvStep, PTL DEF ActivitySpec

\* The declared types of the activity's and the recorders' variables.
THEOREM ActivityTypeCorrect ==
  ASSUME ~JoinInterrupts
  PROVE  ActivitySpec => []ActivityTypeOK
<1>1. ActivityInv => ActivityTypeOK
  BY DEF ActivityInv
<1> QED
  BY <1>1, ActivityInvHolds, PTL

\* As long as requests do not overlap no recorder is lost: whatever records
\* is what the field refers to.
THEOREM NothingIsOrphaned ==
  ASSUME ~JoinInterrupts
  PROVE  ActivitySpec => []NoOrphan
<1>1. ActivityInv => NoOrphan
  BY DEF ActivityInv
<1> QED
  BY <1>1, ActivityInvHolds, PTL

\* After onStop() no thread runs and no microphone records.
THEOREM StopSilences ==
  ASSUME ~JoinInterrupts
  PROVE  ActivitySpec => []StoppedIsSilent
<1>1. ActivityInv => StoppedIsSilent
  <2> SUFFICES ASSUME ActivityInv, ~overlapped, ~started, joining = null
               PROVE  /\ \A t \in Threads : ~Running(t)
                      /\ \A r \in Recorders : mic[r] # "recording"
    BY DEF StoppedIsSilent
  <2>1. recorder = null
    BY DEF ActivityInv
  <2>2. RecInv /\ ~gaveUp
    BY DEF ActivityInv
  <2>3. \A t \in Threads : ~Running(t)
    BY <2>1, <2>2, MicAssumption DEF ActivityInv, NoOrphan, RecInv, Owned, Running
  <2>4. MicHasThread /\ Up
    BY <2>2 DEF RecInv, NoNullDeref
  <2> QED
    BY <2>3, <2>4 DEF MicHasThread
<1> QED
  BY <1>1, ActivityInvHolds, PTL

\* Where the platform refuses a second request while the first is pending
\* (API level 24 and later) requests never overlap.
THEOREM RefusalPreventsOverlap ==
  ASSUME ~JoinInterrupts, MaxRequests = 1
  PROVE  ActivitySpec => []~overlapped
<1>1. ActivityInit => ~overlapped
  BY DEF ActivityInit
<1>2. ActivityInv /\ ~overlapped /\ [ActivityNext]_allVars => ~overlapped'
  <2> SUFFICES ASSUME ActivityInv, ~overlapped, [ActivityNext]_allVars
               PROVE  ~overlapped'
    OBVIOUS
  <2>1. CASE OnStart
    <3>1. requests < MaxRequests => ~(requests > 0)
      BY DEF ActivityInv, ActivityTypeOK
    <3> QED
      BY <2>1, <3>1 DEF OnStart, CanRequest
  <2>2. CASE UNCHANGED overlapped
    BY <2>2
  <2> QED
    BY <2>1, <2>2 DEF ActivityNext, OnDenied, OnStopIdle, HandleMessage, OnGranted,
       OnStop, OnStopReturns, MicHears, RecordingStep, activityVars, allVars
<1> QED
  BY <1>1, <1>2, ActivityInvHolds, PTL DEF ActivitySpec
=============================================================================
