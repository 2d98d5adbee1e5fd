--------------------------- MODULE RecorderProofs ---------------------------
(***************************************************************************)
(* Proofs about Recorder for every set of volumes and every bound: its     *)
(* types, its safety invariants and that a finished capture is final.  One *)
(* inductive invariant carries them: the phases of the state machine, the  *)
(* order of the events with the one under way, the bookkeeping of the      *)
(* notifications, and the turns of the volume that are still to be         *)
(* accounted for.                                                          *)
(***************************************************************************)
EXTENDS Recorder, SequenceTheorems, FiniteSetTheorems, TLAPS

(***************************************************************************)
(* The inductive invariant.                                                *)
(***************************************************************************)

Direct == {"VolUp", "VolDown"}

\* A request for the permission is unanswered only in state STARTING, the
\* recorder is there only in state RECORDING, and until the end of that
\* state no file is written.
Phases ==
  /\ pc = "addObserver" => state = "STARTING" /\ reply = "none"
  /\ reply # "none" => state = "STARTING" /\ pc # "addObserver"
  /\ state = "RECORDING" <=> audioRecorder # "nil"
  /\ state = "RECORDING" => startTime \in Time
  /\ state \in {"INIT", "STARTING", "RECORDING"} => eventsFile = null

\* The events are in order, none is of the future, and the one under way is
\* not before them.
Ordered ==
  /\ \A i, j \in DOMAIN events : i < j => events[i].time <= events[j].time
  /\ \A i \in DOMAIN events : events[i].time <= now
  /\ pc \in {"compare", "store"} =>
       /\ currTime \in Time /\ currTime <= now
       /\ \A i \in DOMAIN events : events[i].time <= currTime
  /\ pc = "store" => newEvent \in Event /\ newEvent.time = currTime

\* Notifications come from the observer, which is added with prevVolume set.
Observed ==
  /\ changes > 0 => observing
  /\ synced => observing
  /\ pc \in {"compare", "store"} => observing
  /\ observing => prevVolume \in Volumes
  /\ pc = "addObserver" => prevVolume \in Volumes /\ ~observing
  /\ state = "INIT" => ~observing
  /\ VolumeInStep

Recorded(e) == Count([i \in DOMAIN events |-> events[i].event], e)

\* While the volume is off prevVolume, or an event is under way, one turn in
\* its direction has no event yet.
Accounted ==
  /\ \A e \in Direct : Recorded(e) <= Count(turned, e)
  /\ prevVolume # null /\ volume > prevVolume => Recorded("VolUp") < Count(turned, "VolUp")
  /\ prevVolume # null /\ volume < prevVolume => Recorded("VolDown") < Count(turned, "VolDown")
  /\ pc = "compare" =>
       (volume >= prevVolume => Recorded("VolUp") < Count(turned, "VolUp"))
  /\ pc = "store" => Recorded(newEvent.event) < Count(turned, newEvent.event)

IInv == TypeOK /\ Phases /\ Ordered /\ FileInOrder /\ Observed /\ Accounted

(***************************************************************************)
(* Counting.                                                               *)
(***************************************************************************)

\* A count is a number.
LEMMA CountType ==
  ASSUME NEW S, NEW s \in Seq(S), NEW e
  PROVE  Count(s, e) \in Nat
<1> DEFINE I == {i \in DOMAIN s : s[i] = e}
<1>1. IsFiniteSet(1..Len(s))
  BY FS_Interval
<1>2. IsFiniteSet(I)
  BY <1>1, FS_Subset
<1> QED
  BY <1>2, FS_CardinalityType DEF Count

\* Appending an element adds one to its own count and nothing to others.
LEMMA CountAppend ==
  ASSUME NEW S, NEW s \in Seq(S), NEW x \in S, NEW e
  PROVE  Count(Append(s, x), e) = Count(s, e) + (IF x = e THEN 1 ELSE 0)
<1> DEFINE t == Append(s, x)
           I == {i \in DOMAIN s : s[i] = e}
           J == {i \in DOMAIN t : t[i] = e}
<1>1. IsFiniteSet(1..Len(s))
  BY FS_Interval
<1>2. IsFiniteSet(I) /\ Cardinality(I) \in Nat
  BY <1>1, FS_Subset, FS_CardinalityType
<1>3. /\ DOMAIN t = 1..(Len(s) + 1) /\ DOMAIN s = 1..Len(s)
      /\ \A i \in 1..Len(s) : t[i] = s[i]
      /\ t[Len(s) + 1] = x
      /\ Len(s) \in Nat
  OBVIOUS
<1>4. CASE x = e
  <2>1. J = I \cup {Len(s) + 1} /\ Len(s) + 1 \notin I
    BY <1>3, <1>4
  <2> QED
    BY <2>1, <1>2, <1>4, FS_AddElement DEF Count
<1>5. CASE x # e
  <2>1. J = I
    BY <1>3, <1>5
  <2>2. Count(t, e) = Count(s, e) /\ Count(s, e) \in Nat
    BY <2>1, <1>2 DEF Count
  <2> QED
    BY <2>2, <1>5
<1> QED
  BY <1>4, <1>5

\* What an element of a list of events is.
LEMMA EventFields ==
  ASSUME NEW s \in Seq(Event), NEW i \in 1..Len(s)
  PROVE  s[i] \in Event /\ s[i].event \in Direct /\ s[i].time \in Nat
<1>1. s[i] \in Event
  BY ElementOfSeq
<1> QED
  BY <1>1, RecorderAssumption DEF Event, Direct, Time

\* The directions of a list of events.
LEMMA DirectionsType ==
  ASSUME NEW s \in Seq(Event)
  PROVE  /\ [i \in DOMAIN s |-> s[i].event] \in Seq(Direct)
         /\ Len([i \in DOMAIN s |-> s[i].event]) = Len(s)
<1>1. Len(s) \in Nat /\ DOMAIN s = 1..Len(s)
  OBVIOUS
<1>2. \A i \in 1..Len(s) : s[i].event \in Direct
  BY EventFields
<1>3. [i \in 1..Len(s) |-> s[i].event] \in Seq(Direct)
  BY <1>1, <1>2
<1> QED
  BY <1>1, <1>3

\* Counting the events of a direction, and after another one.
LEMMA RecordedType ==
  ASSUME events \in Seq(Event), NEW e PROVE Recorded(e) \in Nat
BY DirectionsType, CountType DEF Recorded

\* An event appended counts for its own direction.
LEMMA RecordedAppend ==
  ASSUME events \in Seq(Event), NEW x \in Event, events' = Append(events, x), NEW e
  PROVE  Recorded(e)' = Recorded(e) + (IF x.event = e THEN 1 ELSE 0)
<1> DEFINE s == [i \in DOMAIN events |-> events[i].event]
           t == [i \in DOMAIN events' |-> events'[i].event]
<1>a. s \in Seq(Direct) /\ Len(s) = Len(events)
  BY DirectionsType
<1>b. Len(events) \in Nat /\ DOMAIN events = 1..Len(events)
  OBVIOUS
<1>c. x.event \in Direct
  BY DEF Event, Direct
<1>d. \A i \in 1..Len(events) : s[i] = events[i].event
  BY <1>b
<1>1. /\ s \in Seq(Direct) /\ Len(s) = Len(events) /\ Len(events) \in Nat
      /\ x.event \in Direct /\ DOMAIN events = 1..Len(events)
  BY <1>a, <1>b, <1>c
<1>2. /\ events' \in Seq(Event) /\ Len(events') = Len(events) + 1
      /\ \A i \in 1..Len(events) : events'[i] = events[i]
      /\ events'[Len(events) + 1] = x
  OBVIOUS
<1>e. t \in Seq(Direct) /\ Len(t) = Len(events')
  BY <1>2, DirectionsType
<1>f. DOMAIN events' = 1..(Len(events) + 1)
  BY <1>2
<1>g. \A i \in 1..(Len(events) + 1) : t[i] = events'[i].event
  BY <1>f
<1> HIDE DEF s, t
<1>3. t \in Seq(Direct) /\ Len(t) = Len(events) + 1
  BY <1>e, <1>2
<1>4. t = Append(s, x.event)
  <2>1. /\ Append(s, x.event) \in Seq(Direct)
        /\ Len(Append(s, x.event)) = Len(events) + 1
        /\ \A i \in 1..Len(events) : Append(s, x.event)[i] = s[i]
        /\ Append(s, x.event)[Len(events) + 1] = x.event
    BY <1>1
  <2>2. \A i \in 1..(Len(events) + 1) : t[i] = Append(s, x.event)[i]
    BY <2>1, <1>1, <1>2, <1>d, <1>g
  <2> QED
    BY <2>1, <2>2, <1>3, SeqEqual
<1>5. Count(Append(s, x.event), e) = Count(s, e) + (IF x.event = e THEN 1 ELSE 0)
  BY <1>1, CountAppend
<1>6. Count(t, e) = Count(s, e) + (IF x.event = e THEN 1 ELSE 0)
  BY <1>4, <1>5
<1> QED
  BY <1>6 DEF Recorded, Count, s, t

(***************************************************************************)
(* The steps.                                                              *)
(***************************************************************************)

\* Nothing is recorded yet.
LEMMA IInvInit == Init => IInv
<1> SUFFICES ASSUME Init PROVE IInv
  OBVIOUS
<1> USE RecorderAssumption DEF Init
<1>1. TypeOK
  <2>1. events \in Seq(Event) /\ finished \in Seq(BOOLEAN) /\ turned \in Seq({"VolUp", "VolDown"})
    OBVIOUS
  <2>2. now \in Time /\ changes \in Nat
    BY DEF Time
  <2> QED
    BY <2>1, <2>2 DEF TypeOK, State
<1>2. Phases /\ Ordered /\ FileInOrder
  BY DEF Phases, Ordered, FileInOrder
<1>3. Observed
  BY DEF Observed, VolumeInStep
<1>4. Accounted
  <2>1. events \in Seq(Event) /\ turned = <<>>
    OBVIOUS
  <2>2. ASSUME NEW e \in Direct PROVE Recorded(e) = 0 /\ Count(turned, e) = 0
    <3>1. {i \in DOMAIN turned : turned[i] = e} = {}
      BY <2>1
    <3>2. {i \in DOMAIN [j \in DOMAIN events |-> events[j].event] :
             [j \in DOMAIN events |-> events[j].event][i] = e} = {}
      OBVIOUS
    <3> QED
      BY <3>1, <3>2, FS_EmptySet DEF Count, Recorded
  <2> QED
    BY <2>2 DEF Accounted
<1> QED
  BY <1>1, <1>2, <1>3, <1>4 DEF IInv

\* The types; the events are typed because the one under way is.
LEMMA TypeStep == IInv /\ [Next]_vars => TypeOK'
<1> SUFFICES ASSUME IInv, [Next]_vars PROVE TypeOK' OBVIOUS
<1> USE RecorderAssumption DEF vars, session, files, heard, locals, kvo, platform, world
<1>1. CASE StopRecording
  <2>1. metadataFile' \in Nat \cup {null}
    BY <1>1 DEF IInv, TypeOK, StopRecording, Finish, SerializeEvents
  <2> QED
    BY <1>1, <2>1 DEF IInv, TypeOK, State, Time, StopRecording, Finish, HasRecorder, Dropped
<1>2. CASE DidFinishRecording
  <2>4. /\ finished # <<>> /\ finished' = Tail(finished)
        /\ UNCHANGED <<heard, locals, kvo, reply, world>>
        /\ pc' = pc \/ pc' = "crashed"
    BY <1>2, Zenon DEF DidFinishRecording
  <2>5. finished \in Seq(BOOLEAN)
    BY DEF IInv, TypeOK
  <2>1. finished' \in Seq(BOOLEAN)
    BY <2>4, <2>5, HeadTailProperties
  <2>2. CASE Finish(FALSE)
    <3>1. metadataFile' \in Nat \cup {null}
      BY <2>2 DEF IInv, TypeOK, Finish, SerializeEvents
    <3> QED
      BY <2>4, <2>1, <2>2, <3>1 DEF IInv, TypeOK, State, Time, Finish, Dropped
  <2>3. CASE UNCHANGED <<state, session>>
    BY <2>4, <2>1, <2>3 DEF IInv, TypeOK
  <2> QED
    BY <1>2, <2>2, <2>3 DEF DidFinishRecording
<1>3. CASE \E flag \in BOOLEAN : RecorderEnds(flag)
  <2> PICK flag \in BOOLEAN : RecorderEnds(flag)
    BY <1>3
  <2>1. finished' \in Seq(BOOLEAN)
    BY DEF IInv, TypeOK, RecorderEnds
  <2> QED
    BY <2>1 DEF IInv, TypeOK, RecorderEnds
<1>4. CASE \E v \in Volumes : TurnVolume(v)
  <2> PICK v \in Volumes : TurnVolume(v)
    BY <1>4
  <2>1. turned' \in Seq({"VolUp", "VolDown"}) /\ changes' \in Nat
    BY DEF IInv, TypeOK, TurnVolume
  <2> QED
    BY <2>1 DEF IInv, TypeOK, TurnVolume
<1>5. CASE Tick
  BY <1>5 DEF IInv, TypeOK, State, Time, Tick
<1>6. CASE Observe
  <2>1. changes' \in Nat
    BY <1>6 DEF IInv, TypeOK, Observe
  <2> QED
    BY <1>6, <2>1 DEF IInv, TypeOK, Observe
<1>7. CASE Compare
  BY <1>7 DEF IInv, TypeOK, State, Time, Ordered, Compare, Direction, Event
<1>8. CASE Store
  BY <1>8 DEF IInv, TypeOK, State, Time, Ordered, Store, WithEvent, NewVolume
<1>9. CASE AddObserver
  BY <1>9 DEF IInv, TypeOK, State, Time, AddObserver
<1>10. CASE Allowed
  BY <1>10 DEF IInv, TypeOK, State, Time, Allowed
<1>11. CASE \E allowed \in BOOLEAN : Answer(allowed)
  BY <1>11 DEF IInv, TypeOK, State, Time, Answer
<1>12. CASE \/ StartRecording
            \/ SessionFails
            \/ Denied
            \/ CreationFails
  BY <1>12 DEF IInv, TypeOK, State, Time, StartRecording, SessionFails, Denied,
      CreationFails
<1>13. CASE UNCHANGED vars
  BY <1>13 DEF IInv, TypeOK, State, Time
<1> QED
  BY <1>1, <1>2, <1>3, <1>4, <1>5, <1>6, <1>7, <1>8, <1>9, <1>10, <1>11, <1>12, <1>13 DEF
      Next

\* The request is answered once, and finish() needs a recorder.
LEMMA PhasesStep == IInv /\ [Next]_vars => Phases'
<1> SUFFICES ASSUME IInv, [Next]_vars PROVE Phases' OBVIOUS
<1> USE RecorderAssumption DEF vars, session, files, heard, locals, kvo, platform, world
<1>1. CASE StopRecording
  BY <1>1 DEF IInv, Phases, StopRecording, Finish, HasRecorder, Dropped
<1>2. CASE DidFinishRecording
  BY <1>2 DEF IInv, Phases, DidFinishRecording, Finish, HasRecorder, Dropped
<1>3. CASE \/ StartRecording
           \/ SessionFails
           \/ AddObserver
           \/ \E allowed \in BOOLEAN : Answer(allowed)
           \/ Denied
           \/ Allowed
           \/ CreationFails
           \/ \E flag \in BOOLEAN : RecorderEnds(flag)
           \/ Observe
           \/ Compare
           \/ Store
           \/ \E v \in Volumes : TurnVolume(v)
           \/ Tick
  BY <1>3 DEF IInv, Phases, TypeOK, StartRecording, SessionFails, AddObserver, Answer,
      Denied, Allowed, CreationFails, RecorderEnds, Observe, Compare, Store, TurnVolume,
      Tick
<1>4. CASE UNCHANGED vars
  BY <1>4 DEF IInv, Phases, TypeOK
<1> QED
  BY <1>1, <1>2, <1>3, <1>4 DEF Next

\* The event under way is appended at its time, which the clock has passed.
LEMMA OrderedStep == IInv /\ [Next]_vars => Ordered'
<1> SUFFICES ASSUME IInv, [Next]_vars PROVE Ordered' OBVIOUS
<1> USE RecorderAssumption DEF vars, session, files, heard, locals, kvo, platform, world
<1>1. CASE Compare
  BY <1>1 DEF IInv, Ordered, TypeOK, Time, Event, Compare, Direction
<1>2. CASE Store
  <2>1. /\ events \in Seq(Event) /\ newEvent \in Event /\ newEvent.time = currTime
        /\ currTime \in Time /\ currTime <= now /\ now' = now
        /\ \A i, j \in DOMAIN events : i < j => events[i].time <= events[j].time
        /\ \A i \in DOMAIN events : events[i].time <= currTime
        /\ events' = Append(events, newEvent) /\ pc' = "idle"
    BY <1>2 DEF IInv, Ordered, TypeOK, Store, WithEvent
  <2>2. /\ DOMAIN events' = 1..(Len(events) + 1) /\ DOMAIN events = 1..Len(events)
        /\ Len(events) \in Nat
        /\ \A i \in 1..Len(events) : events'[i] = events[i]
        /\ events'[Len(events) + 1] = newEvent
    BY <2>1
  <2>5. currTime \in Nat /\ now \in Nat
    BY <2>1, RecorderAssumption DEF IInv, TypeOK, Time
  <2>3. \A i \in DOMAIN events' : events'[i].time <= currTime /\ events'[i].time <= now'
    <3> SUFFICES ASSUME NEW i \in DOMAIN events'
                 PROVE  events'[i].time <= currTime /\ events'[i].time <= now'
      OBVIOUS
    <3>1. CASE i \in 1..Len(events)
      <4>1. events[i].time \in Nat /\ events[i].time <= currTime /\ events'[i] = events[i]
        BY <3>1, <2>1, <2>2, EventFields
      <4> QED
        BY <4>1, <2>1, <2>5
    <3>2. CASE i = Len(events) + 1
      <4>1. events'[i].time = currTime
        BY <3>2, <2>1, <2>2
      <4> QED
        BY <4>1, <2>1, <2>5
    <3> QED
      BY <3>1, <3>2, <2>2
  <2>4. \A i, j \in DOMAIN events' : i < j => events'[i].time <= events'[j].time
    <3> SUFFICES ASSUME NEW i \in DOMAIN events', NEW j \in DOMAIN events', i < j
                 PROVE  events'[i].time <= events'[j].time
      OBVIOUS
    <3>1. CASE j \in 1..Len(events)
      <4>1. i \in 1..Len(events)
        BY <3>1, <2>2
      <4>2. events[i].time <= events[j].time
        BY <3>1, <4>1, <2>1, <2>2
      <4> QED
        BY <3>1, <4>1, <4>2, <2>2
    <3>2. CASE j = Len(events) + 1
      BY <3>2, <2>1, <2>2, <2>3
    <3> QED
      BY <3>1, <3>2, <2>2
  <2> QED
    BY <2>1, <2>3, <2>4 DEF Ordered
<1>3. CASE Observe
  BY <1>3 DEF IInv, Ordered, TypeOK, Time, Observe
<1>4. CASE Tick
  <2>1. now' = now + 1 /\ now \in Nat /\ UNCHANGED <<events, pc, currTime, newEvent>>
    BY <1>4 DEF Tick, IInv, TypeOK, Time
  <2>2. \A i \in DOMAIN events : events[i].time \in Nat /\ events[i].time <= now
    <3>1. events \in Seq(Event) /\ DOMAIN events = 1..Len(events)
      BY DEF IInv, TypeOK
    <3> QED
      BY <3>1, EventFields DEF IInv, Ordered
  <2> QED
    BY <2>1, <2>2 DEF IInv, Ordered, Time
<1>5. CASE \/ StartRecording
           \/ SessionFails
           \/ AddObserver
           \/ \E allowed \in BOOLEAN : Answer(allowed)
           \/ Denied
           \/ Allowed
           \/ CreationFails
           \/ StopRecording
           \/ DidFinishRecording
           \/ \E flag \in BOOLEAN : RecorderEnds(flag)
           \/ \E v \in Volumes : TurnVolume(v)
  BY <1>5 DEF IInv, Ordered, TypeOK, Time, StartRecording, SessionFails, AddObserver,
      Answer, Denied, Allowed, CreationFails, StopRecording, DidFinishRecording,
      RecorderEnds, TurnVolume, Finish, HasRecorder, Dropped
<1>6. CASE UNCHANGED vars
  BY <1>6 DEF IInv, Ordered, TypeOK, Time
<1> QED
  BY <1>1, <1>2, <1>3, <1>4, <1>5, <1>6 DEF Next

\* What finish() writes: the events relative to the start, or some first
\* ones of them.
LEMMA SerializedInOrder ==
  ASSUME TypeOK, Ordered, Phases, state = "RECORDING", SerializeEvents,
         endTime' = now, startTime' = startTime
  PROVE  FileInOrder'
<1> DEFINE lines == [i \in DOMAIN events |-> Relative(events[i])]
<1>1. /\ startTime \in Nat /\ now \in Nat /\ eventsFile = null
      /\ events \in Seq(Event)
  BY RecorderAssumption DEF TypeOK, Phases, Time
<1>9. \A i \in 1..Len(events) : events[i].time \in Nat /\ events[i].event \in Direct
  BY <1>1, EventFields
<1>2. DOMAIN lines = 1..Len(events) /\ Len(events) \in Nat /\ Len(lines) = Len(events)
  BY <1>1
<1>3. \A i \in 1..Len(events) : lines[i].time = events[i].time - startTime
  BY <1>1, <1>2 DEF Relative
<1>4. \A i, j \in 1..Len(events) : i < j => lines[i].time <= lines[j].time
  BY <1>1, <1>2, <1>3, <1>9 DEF Ordered
<1>5. \A i \in 1..Len(events) : lines[i].time <= now - startTime
  BY <1>1, <1>2, <1>3, <1>9 DEF Ordered
<1>6. CASE eventsFile' = lines
  BY <1>6, <1>2, <1>4, <1>5 DEF FileInOrder
<1>7. CASE eventsFile' = eventsFile
  BY <1>7, <1>1 DEF FileInOrder
<1>8. ASSUME NEW n \in 0..Len(lines), eventsFile' = SubSeq(lines, 1, n) PROVE FileInOrder'
  <2>1. lines \in Seq([event : Direct, time : Int])
    <3>1. \A i \in 1..Len(events) : Relative(events[i]) \in [event : Direct, time : Int]
      BY <1>1, <1>9 DEF Relative
    <3> QED
      BY <3>1, <1>2
  <2>2. n \in Nat /\ n <= Len(events)
    BY <1>2
  <2>3. \A i \in 1..n : lines[i] \in [event : Direct, time : Int]
    BY <2>1, <2>2, <1>2
  <2>4. /\ SubSeq(lines, 1, n) \in Seq([event : Direct, time : Int])
        /\ Len(SubSeq(lines, 1, n)) = n
        /\ \A i \in 1..n : SubSeq(lines, 1, n)[i] = lines[i]
    BY <2>1, <2>2, <2>3, <1>2
  <2>5. DOMAIN eventsFile' = 1..n /\ \A i \in 1..n : eventsFile'[i] = lines[i]
    BY <2>4, <1>8
  <2>6. 1..n \subseteq 1..Len(events)
    BY <2>2, <1>2
  <2>7. \A i, j \in 1..n : i < j => eventsFile'[i].time <= eventsFile'[j].time
    BY <2>5, <2>6, <1>4
  <2>8. \A i \in 1..n : eventsFile'[i].time <= endTime' - startTime'
    BY <2>5, <2>6, <1>5
  <2> QED
    BY <2>5, <2>7, <2>8 DEF FileInOrder
<1> QED
  BY <1>6, <1>7, <1>8 DEF SerializeEvents

\* The files change in finish() only; startTime only before.
LEMMA FileStep == IInv /\ [Next]_vars => FileInOrder'
<1> SUFFICES ASSUME IInv, [Next]_vars PROVE FileInOrder' OBVIOUS
<1> USE RecorderAssumption DEF vars, session, files, heard, locals, kvo, platform, world
<1>1. CASE StopRecording
  <2>1. SerializeEvents /\ endTime' = now /\ startTime' = startTime /\ state = "RECORDING"
    BY <1>1 DEF StopRecording, Finish
  <2> QED
    BY <2>1, SerializedInOrder DEF IInv
<1>2. CASE DidFinishRecording
  <2>1. CASE Finish(FALSE)
    <3>1. SerializeEvents /\ endTime' = now /\ startTime' = startTime /\ state = "RECORDING"
      BY <2>1 DEF Finish, HasRecorder, IInv, Phases
    <3> QED
      BY <3>1, SerializedInOrder DEF IInv
  <2>2. CASE UNCHANGED <<state, session>>
    BY <2>2 DEF IInv, FileInOrder
  <2> QED
    BY <1>2, <2>1, <2>2 DEF DidFinishRecording
<1>3. CASE \/ StartRecording
           \/ SessionFails
           \/ AddObserver
           \/ \E allowed \in BOOLEAN : Answer(allowed)
           \/ Denied
           \/ Allowed
           \/ CreationFails
           \/ \E flag \in BOOLEAN : RecorderEnds(flag)
           \/ Observe
           \/ Compare
           \/ Store
           \/ \E v \in Volumes : TurnVolume(v)
           \/ Tick
  BY <1>3 DEF IInv, FileInOrder, Phases, StartRecording, SessionFails, AddObserver, Answer,
      Denied, Allowed, CreationFails, RecorderEnds, Observe, Compare, Store, TurnVolume,
      Tick
<1>4. CASE UNCHANGED vars
  BY <1>4 DEF IInv, FileInOrder, Phases
<1> QED
  BY <1>1, <1>2, <1>3, <1>4 DEF Next

\* A change of the volume is announced, and handling it brings prevVolume up to it.
LEMMA ObservedStep == IInv /\ [Next]_vars => Observed'
<1> SUFFICES ASSUME IInv, [Next]_vars PROVE Observed' OBVIOUS
<1> USE RecorderAssumption DEF vars, session, files, heard, locals, kvo, platform, world
<1>1. CASE StopRecording
  BY <1>1 DEF IInv, Phases, Observed, VolumeInStep, TypeOK, StopRecording, Finish
<1>2. CASE DidFinishRecording
  BY <1>2 DEF IInv, Phases, Observed, VolumeInStep, TypeOK, DidFinishRecording, Finish
<1>3. CASE Store
  BY <1>3 DEF IInv, Observed, VolumeInStep, TypeOK, Store, NewVolume
<1>4. CASE Observe
  BY <1>4 DEF IInv, Observed, VolumeInStep, TypeOK, Observe
<1>5. CASE AddObserver
  BY <1>5 DEF IInv, Observed, VolumeInStep, Phases, TypeOK, AddObserver
<1>6. CASE StartRecording
  BY <1>6 DEF IInv, Observed, VolumeInStep, TypeOK, StartRecording
<1>7. CASE \E v \in Volumes : TurnVolume(v)
  BY <1>7 DEF IInv, Phases, Observed, VolumeInStep, TypeOK, TurnVolume
<1>8. CASE \/ SessionFails
           \/ \E allowed \in BOOLEAN : Answer(allowed)
           \/ Denied
           \/ Allowed
           \/ CreationFails
           \/ \E flag \in BOOLEAN : RecorderEnds(flag)
           \/ Compare
           \/ Tick
  BY <1>8 DEF IInv, Phases, Observed, VolumeInStep, TypeOK, SessionFails, Answer, Denied,
      Allowed, CreationFails, RecorderEnds, Compare, Tick
<1>9. CASE UNCHANGED vars
  BY <1>9 DEF IInv, Phases, Observed, VolumeInStep, TypeOK
<1> QED
  BY <1>1, <1>2, <1>3, <1>4, <1>5, <1>6, <1>7, <1>8, <1>9 DEF Next

\* Each turn is good for one event of its direction.
LEMMA AccountedStep == IInv /\ [Next]_vars => Accounted'
<1> SUFFICES ASSUME IInv, [Next]_vars PROVE Accounted' OBVIOUS
<1> USE RecorderAssumption DEF vars, session, files, heard, locals, kvo, platform, world
<1>1. CASE StartRecording
  <2>1. UNCHANGED <<events, turned, volume>> /\ prevVolume' = volume /\ volume \in Int
        /\ pc' = "addObserver"
    BY <1>1 DEF StartRecording, IInv, TypeOK
  <2> QED
    BY <2>1 DEF IInv, Accounted, Recorded
<1>2. CASE StopRecording
  BY <1>2 DEF IInv, Accounted, Recorded, StopRecording, Finish
<1>3. CASE DidFinishRecording
  <2>1. UNCHANGED <<events, turned, volume, prevVolume, newEvent>>
        /\ (pc' = pc \/ pc' = "crashed")
    BY <1>3 DEF DidFinishRecording
  <2> QED
    BY <2>1 DEF IInv, Accounted, Recorded
<1>4. CASE Observe
  <2>1. UNCHANGED <<events, turned, volume, prevVolume, newEvent>> /\ pc = "idle"
    BY <1>4 DEF Observe
  <2>2. prevVolume \in Int /\ volume \in Int /\ prevVolume # null
    BY <1>4 DEF Observe, IInv, Observed, TypeOK
  <2>3. CASE pc' = pc
    BY <2>1, <2>3 DEF IInv, Accounted, Recorded
  <2>4. CASE pc' = "compare" /\ volume # prevVolume
    BY <2>1, <2>2, <2>4 DEF IInv, Accounted, Recorded
  <2> QED
    BY <1>4, <2>3, <2>4 DEF Observe
<1>5. CASE Compare
  <2>1. UNCHANGED <<events, turned, volume, prevVolume>> /\ pc = "compare" /\ pc' = "store"
        /\ newEvent' = [event |-> Direction, time |-> currTime]
    BY <1>5 DEF Compare
  <2>2. prevVolume \in Int /\ volume \in Int /\ prevVolume # null
    BY <2>1 DEF IInv, Observed, TypeOK
  <2>3. newEvent'.event = Direction
    BY <2>1
  <2>4. Recorded(Direction) < Count(turned, Direction)
    <3>1. CASE volume < prevVolume
      BY <3>1, <2>2 DEF Direction, IInv, Accounted
    <3>2. CASE ~(volume < prevVolume)
      BY <3>2, <2>1, <2>2 DEF Direction, IInv, Accounted
    <3> QED
      BY <3>1, <3>2
  <2>5. (Recorded(newEvent.event) < Count(turned, newEvent.event))'
    BY <2>1, <2>3, <2>4 DEF Recorded
  <2> QED
    BY <2>1, <2>5 DEF IInv, Accounted, Recorded
<1>6. CASE Store
  <2>1. /\ events \in Seq(Event) /\ newEvent \in Event /\ events' = Append(events, newEvent)
        /\ turned \in Seq(Direct) /\ turned' = turned
        /\ prevVolume' = volume' /\ volume' \in Int /\ pc' = "idle" /\ pc = "store"
    BY <1>6 DEF Store, WithEvent, NewVolume, IInv, Ordered, TypeOK, Direct
  <2>2. ASSUME NEW e \in Direct PROVE Recorded(e)' <= Count(turned, e)'
    <3>1. Recorded(e)' = Recorded(e) + (IF newEvent.event = e THEN 1 ELSE 0)
      BY <2>1, RecordedAppend
    <3>2. Recorded(e) \in Nat /\ Count(turned, e) \in Nat
      BY <2>1, RecordedType, CountType
    <3>3. Recorded(e) <= Count(turned, e)
      BY DEF IInv, Accounted
    <3>4. newEvent.event = e => Recorded(e) < Count(turned, e)
      BY <2>1 DEF IInv, Accounted
    <3>5. Count(turned, e)' = Count(turned, e)
      BY <2>1
    <3> QED
      BY <3>1, <3>2, <3>3, <3>4, <3>5
  <2> QED
    BY <2>1, <2>2 DEF Accounted
<1>7. CASE \E v \in Volumes : TurnVolume(v)
  <2> PICK v \in Volumes : TurnVolume(v)
    BY <1>7
  <2> DEFINE d == IF v > volume THEN "VolUp" ELSE "VolDown"
  <2>1. /\ UNCHANGED <<events, prevVolume, newEvent, pc>> /\ volume' = v /\ v # volume
        /\ turned' = Append(turned, d)
    BY DEF TurnVolume
  <2>2. /\ events \in Seq(Event) /\ turned \in Seq(Direct) /\ d \in Direct
        /\ volume \in Int /\ v \in Int /\ prevVolume \in Int \cup {null}
    BY DEF IInv, TypeOK, Direct
  <2>3. ASSUME NEW e
        PROVE  /\ Count(turned, e)' = Count(turned, e) + (IF d = e THEN 1 ELSE 0)
               /\ Count(turned, e) \in Nat
               /\ Recorded(e)' = Recorded(e) /\ Recorded(e) \in Nat
    <3>1. Count(Append(turned, d), e) = Count(turned, e) + (IF d = e THEN 1 ELSE 0)
      BY <2>2, CountAppend
    <3>2. Count(turned, e)' = Count(Append(turned, d), e)
      BY <2>1 DEF Count
    <3>3. Recorded(e)' = Recorded(e)
      BY <2>1 DEF Recorded
    <3> QED
      BY <3>1, <3>2, <3>3, <2>2, CountType, RecordedType
  <2>4. \A e \in Direct : Recorded(e) <= Count(turned, e)
    BY DEF IInv, Accounted
  <2>5. \A e \in Direct : Recorded(e)' <= Count(turned, e)'
    BY <2>3, <2>4
  <2>6. prevVolume' # null /\ volume' > prevVolume' =>
          Recorded("VolUp")' < Count(turned, "VolUp")'
    <3> SUFFICES ASSUME prevVolume # null, v > prevVolume
                 PROVE  Recorded("VolUp")' < Count(turned, "VolUp")'
      BY <2>1
    <3>1. CASE v > volume
      BY <3>1, <2>3, <2>4 DEF Direct
    <3>2. CASE volume > v
      <4>1. Recorded("VolUp") < Count(turned, "VolUp")
        BY <3>2, <2>2 DEF IInv, Accounted
      <4> QED
        BY <4>1, <2>3
    <3> QED
      BY <3>1, <3>2, <2>1, <2>2
  <2>7. prevVolume' # null /\ volume' < prevVolume' =>
          Recorded("VolDown")' < Count(turned, "VolDown")'
    <3> SUFFICES ASSUME prevVolume # null, v < prevVolume
                 PROVE  Recorded("VolDown")' < Count(turned, "VolDown")'
      BY <2>1
    <3>1. CASE v > volume
      <4>1. Recorded("VolDown") < Count(turned, "VolDown")
        BY <3>1, <2>2 DEF IInv, Accounted
      <4> QED
        BY <4>1, <2>3
    <3>2. CASE ~(v > volume)
      BY <3>2, <2>3, <2>4 DEF Direct
    <3> QED
      BY <3>1, <3>2
  <2>8. pc' = "compare" =>
          (volume' >= prevVolume' => Recorded("VolUp")' < Count(turned, "VolUp")')
    <3> SUFFICES ASSUME pc = "compare", v >= prevVolume
                 PROVE  Recorded("VolUp")' < Count(turned, "VolUp")'
      BY <2>1
    <3>0. prevVolume \in Int
      BY DEF IInv, Observed, TypeOK
    <3>1. CASE v > volume
      BY <3>1, <2>3, <2>4 DEF Direct
    <3>2. CASE volume > v
      <4>1. Recorded("VolUp") < Count(turned, "VolUp")
        BY <3>0, <3>2, <2>2 DEF IInv, Accounted
      <4> QED
        BY <4>1, <2>3
    <3> QED
      BY <3>1, <3>2, <2>1, <2>2
  <2>9. (pc = "store" => Recorded(newEvent.event) < Count(turned, newEvent.event))'
    <3> SUFFICES ASSUME pc = "store"
                 PROVE  (Recorded(newEvent.event) < Count(turned, newEvent.event))'
      BY <2>1
    <3>1. Recorded(newEvent.event) < Count(turned, newEvent.event)
      BY DEF IInv, Accounted
    <3>2. Recorded(newEvent.event)' = Recorded(newEvent.event)
      BY <2>1 DEF Recorded
    <3>3. Count(turned, newEvent.event)' =
            Count(turned, newEvent.event) + (IF d = newEvent.event THEN 1 ELSE 0)
      <4>1. Count(Append(turned, d), newEvent.event) =
              Count(turned, newEvent.event) + (IF d = newEvent.event THEN 1 ELSE 0)
        BY <2>2, CountAppend
      <4> QED
        BY <4>1, <2>1 DEF Count
    <3>4. Count(turned, newEvent.event) \in Nat /\ Recorded(newEvent.event) \in Nat
      BY <2>3
    <3> QED
      BY <3>1, <3>2, <3>3, <3>4
  <2> QED
    BY <2>5, <2>6, <2>7, <2>8, <2>9 DEF Accounted
<1>8. CASE \/ SessionFails
           \/ AddObserver
           \/ \E allowed \in BOOLEAN : Answer(allowed)
           \/ Denied
           \/ Allowed
           \/ CreationFails
           \/ \E flag \in BOOLEAN : RecorderEnds(flag)
           \/ Tick
  BY <1>8 DEF IInv, Accounted, Recorded, SessionFails, AddObserver, Answer, Denied, Allowed,
      CreationFails, RecorderEnds, Tick
<1>9. CASE UNCHANGED vars
  BY <1>9 DEF IInv, Accounted, Recorded
<1> QED
  BY <1>1, <1>2, <1>3, <1>4, <1>5, <1>6, <1>7, <1>8, <1>9 DEF Next

\* Every action keeps the invariant.
LEMMA IInvStep == IInv /\ [Next]_vars => IInv'
BY TypeStep, PhasesStep, OrderedStep, FileStep, ObservedStep, AccountedStep DEF IInv

(***************************************************************************)
(* The theorems.                                                           *)
(***************************************************************************)

\* The inductive invariant holds of every execution of the class.
THEOREM RecorderInvHolds == Spec => []IInv
BY IInvInit, IInvStep, PTL DEF Spec

\* The variables of the class and of its surroundings keep their types.
THEOREM RecorderTypeCorrect == Spec => []TypeOK
<1>1. IInv => TypeOK
  BY DEF IInv
<1> QED
  BY <1>1, RecorderInvHolds, PTL

\* stopRecording, which checks the state, never unwraps nil in finish().
THEOREM StateProtectsRecorder == Spec => []RecordingHasRecorder
<1>1. IInv => RecordingHasRecorder
  BY DEF IInv, Phases, RecordingHasRecorder
<1> QED
  BY <1>1, RecorderInvHolds, PTL

\* events.csv is in order and within the recording, whatever the timing of
\* notifications, turns and the end.
THEOREM CaptureInOrder == Spec => []FileInOrder
<1>1. IInv => FileInOrder
  BY DEF IInv
<1> QED
  BY <1>1, RecorderInvHolds, PTL

\* When all notifications are handled prevVolume is the volume.
THEOREM VolumeCatchesUp == Spec => []VolumeInStep
<1>1. IInv => VolumeInStep
  BY DEF IInv, Observed
<1> QED
  BY <1>1, RecorderInvHolds, PTL

\* Three reads of outputVolume per event invent none.
THEOREM EventsAreTurns == Spec => []NoPhantomEvents
<1>1. IInv => NoPhantomEvents
  BY DEF IInv, Accounted, Recorded, NoPhantomEvents, Direct
<1> QED
  BY <1>1, RecorderInvHolds, PTL

\* A capture that is finished, or has failed, stays as it is.
THEOREM FinishedStays == Spec => CaptureIsFinal
<1>1. IInv /\ [Next]_vars =>
        [(state \in {"FINISHED", "FAILURE"}) =>
           UNCHANGED <<state, eventsFile, metadataFile>>]_vars
  <2> SUFFICES ASSUME IInv, [Next]_vars, state \in {"FINISHED", "FAILURE"}
               PROVE  UNCHANGED <<state, eventsFile, metadataFile>>
    OBVIOUS
  <2> USE DEF vars, session, files, heard, locals, kvo, platform, world
  <2>1. audioRecorder = "nil" /\ reply = "none"
    BY DEF IInv, Phases
  <2> QED
    BY <2>1 DEF Next, StartRecording, SessionFails, AddObserver, Answer, Denied, Allowed,
      CreationFails, StopRecording, DidFinishRecording, Finish, HasRecorder, RecorderEnds,
      Observe, Compare, Store, TurnVolume, Tick
<1> QED
  BY <1>1, RecorderInvHolds, PTL DEF Spec, CaptureIsFinal
=============================================================================
