------------------------------ MODULE Recorder ------------------------------
(***************************************************************************)
(* iosApp/Recorder.swift: captures audio into recording.pcm and the times  *)
(* of volume changes into events.csv.                                      *)
(*                                                                         *)
(* Everything the app does runs on the main thread: button handlers, the   *)
(* reply to the permission request, KVO notifications of outputVolume and  *)
(* the delegate call of AVAudioRecorder.  Meanwhile the user turns the     *)
(* volume and time passes, so a method that reads outputVolume more than   *)
(* once is cut into one step per read.  AVAudioRecorder may end on its own *)
(* (interruption, encoding error) and reports an end once, when the main   *)
(* thread gets to it.  NSDate is the wall clock, which is taken not to be  *)
(* set back during a recording.                                            *)
(***************************************************************************)
EXTENDS Integers, Sequences, FiniteSets

CONSTANTS
  Volumes,     \* the values of outputVolume, integers in the order of loudness
  null,
  MaxTime,     \* bound: the clock
  MaxChanges   \* bound: changes of the volume

ASSUME RecorderAssumption ==
  /\ Volumes \subseteq Int /\ Volumes # {}
  /\ null \notin Int
  /\ MaxTime \in Nat /\ MaxChanges \in Nat

State == {"INIT", "STARTING", "RECORDING", "FINISHED", "FAILURE"}
Time == 0..MaxTime
Event == [event : {"VolUp", "VolDown"}, time : Time]

VARIABLES
  state,
  audioRecorder,   \* "nil", "recording", or "ended": neither stopped nor recording
  prevVolume,
  events,
  startTime,
  endTime,
  eventsFile,      \* events.csv, a sequence of [event, time] (or some of it), or null
  metadataFile,    \* metadata.txt: the number of events it gives, null if not whole
  pc,              \* the main thread: "idle", inside a method, or "crashed"
  currTime,        \* local of observeValueForKeyPath, with the event chosen
  newEvent,
  observing,       \* outputVolume is observed
  changes,         \* KVO notifications not delivered yet
  reply,           \* of the permission request: "none", "asked", or the answer
  finished,        \* delegate calls not delivered yet: their success flags
  volume,          \* outputVolume
  now,             \* the clock
  turned,          \* history: the changes of volume
  synced           \* history: an event has been recorded

files == <<eventsFile, metadataFile>>
session == <<audioRecorder, startTime, endTime, files>>
heard == <<prevVolume, events, synced>>
locals == <<currTime, newEvent>>
kvo == <<observing, changes>>
platform == <<reply, finished>>
world == <<volume, now, turned>>
vars == <<state, session, heard, pc, locals, kvo, platform, world>>

Init ==
  /\ state = "INIT"
  /\ audioRecorder = "nil"
  /\ prevVolume = null            \* 0 in the code, overwritten before use
  /\ events = <<>>
  /\ startTime = null
  /\ endTime = null
  /\ eventsFile = null
  /\ metadataFile = null
  /\ pc = "idle"
  /\ currTime = null
  /\ newEvent = null
  /\ observing = FALSE
  /\ changes = 0
  /\ reply = "none"
  /\ finished = <<>>
  /\ volume \in Volumes
  /\ now = 0
  /\ turned = <<>>
  /\ synced = FALSE

-----------------------------------------------------------------------------
(* Starting. *)

\* startRecording() up to prevVolume = outputVolume; otherwise it only
\* reports that it was called at the wrong time.
StartRecording ==
  /\ pc = "idle"
  /\ state = "INIT"
  /\ state' = "STARTING"
  /\ prevVolume' = volume
  /\ pc' = "addObserver"
  /\ UNCHANGED <<session, events, synced, locals, kvo, platform, world>>

\* The audio session throws: cb(success: false).
SessionFails ==
  /\ pc = "idle"
  /\ state = "INIT"
  /\ state' = "FAILURE"
  /\ UNCHANGED <<session, heard, pc, locals, kvo, platform, world>>

AddObserver ==
  /\ pc = "addObserver"
  /\ observing' = TRUE
  /\ reply' = "asked"
  /\ pc' = "idle"
  /\ UNCHANGED <<state, session, heard, locals, changes, finished, world>>

\* The user's answer is put into the main queue.
Answer(allowed) ==
  /\ reply = "asked"
  /\ reply' = IF allowed THEN "allowed" ELSE "denied"
  /\ UNCHANGED <<state, session, heard, pc, locals, kvo, finished, world>>

Denied ==
  /\ pc = "idle"
  /\ reply = "denied"
  /\ reply' = "none"
  /\ state' = "FAILURE"
  /\ UNCHANGED <<session, heard, pc, locals, kvo, finished, world>>

\* The result of record() is ignored: it may not have begun.
Allowed ==
  /\ pc = "idle"
  /\ reply = "allowed"
  /\ reply' = "none"
  /\ audioRecorder' \in {"recording", "ended"}
  /\ startTime' = now
  /\ state' = "RECORDING"
  /\ UNCHANGED <<endTime, files, heard, pc, locals, kvo, finished, world>>

\* AVAudioRecorder() throws: finish() unwraps the nil audioRecorder.
CreationFails ==
  /\ pc = "idle"
  /\ reply = "allowed"
  /\ reply' = "none"
  /\ pc' = "crashed"
  /\ UNCHANGED <<state, session, heard, locals, kvo, finished, world>>

-----------------------------------------------------------------------------
(* Finishing. *)

Relative(e) == [event |-> e.event, time |-> e.time - startTime]

\* serializeEvents(events): the second file is written after the first.
\* Either may fail, which is printed and nothing else; a file that is not
\* written atomically may be there in part.
SerializeEvents ==
  LET lines == [i \in DOMAIN events |-> Relative(events[i])] IN
  \/ eventsFile' = lines /\ metadataFile' = Len(events)
  \/ eventsFile' = lines /\ UNCHANGED metadataFile
  \/ /\ \E n \in 0..Len(lines) : eventsFile' \in {eventsFile, SubSeq(lines, 1, n)}
     /\ UNCHANGED metadataFile

\* Mutant of HasRecorder: audioRecorder?.stop(), which does nothing on nil.
MayHaveRecorder == TRUE

HasRecorder == audioRecorder # "nil"

\* Mutant of Dropped: audioRecorder is not set to nil.
Kept == audioRecorder

Dropped == "nil"

\* finish(success) with a recorder to stop.
Finish(success) ==
  /\ HasRecorder
  /\ audioRecorder' = Dropped
  /\ endTime' = now
  /\ state' = IF success THEN "FINISHED" ELSE "FAILURE"
  /\ SerializeEvents
  /\ UNCHANGED startTime

\* The delegate hears of a stop() as of any other end, unless the object is
\* gone by then.
StopRecording ==
  /\ pc = "idle"
  /\ state = "RECORDING"
  /\ Finish(TRUE)
  /\ \/ UNCHANGED finished
     \/ /\ audioRecorder = "recording"
        /\ \E flag \in BOOLEAN : finished' = Append(finished, flag)
  /\ UNCHANGED <<heard, pc, locals, kvo, reply, world>>

\* AVAudioRecorder ends without being asked to.
RecorderEnds(flag) ==
  /\ pc # "crashed"
  /\ audioRecorder = "recording"
  /\ audioRecorder' = "ended"
  /\ finished' = Append(finished, flag)
  /\ UNCHANGED <<state, startTime, endTime, files, heard, pc, locals, kvo, reply, world>>

\* audioRecorderDidFinishRecording: a failure finishes, in whatever state.
DidFinishRecording ==
  /\ pc = "idle"
  /\ finished # <<>>
  /\ finished' = Tail(finished)
  /\ \/ /\ Head(finished)
        /\ UNCHANGED <<state, session, pc>>
     \/ /\ ~Head(finished)
        /\ Finish(FALSE)
        /\ UNCHANGED pc
     \/ /\ ~Head(finished)
        /\ audioRecorder = "nil"
        /\ pc' = "crashed"
        /\ UNCHANGED <<state, session>>
  /\ UNCHANGED <<heard, locals, kvo, reply, world>>

-----------------------------------------------------------------------------
(* observeValueForKeyPath, one step per read of outputVolume. *)

Observe ==
  /\ pc = "idle"
  /\ changes > 0
  /\ changes' = changes - 1
  /\ IF volume = prevVolume
       THEN UNCHANGED <<pc, currTime>>
       ELSE pc' = "compare" /\ currTime' = now
  /\ UNCHANGED <<state, session, heard, newEvent, observing, platform, world>>

\* Mutant of Direction: a third kind of event when the volume is back.
DirectionThree == CASE volume < prevVolume -> "VolDown"
                    [] volume > prevVolume -> "VolUp"
                    [] OTHER -> "VolSame"

Direction == IF volume < prevVolume THEN "VolDown" ELSE "VolUp"

Compare ==
  /\ pc = "compare"
  /\ newEvent' = [event |-> Direction, time |-> currTime]
  /\ pc' = "store"
  /\ UNCHANGED <<state, session, heard, currTime, kvo, platform, world>>

\* Mutant of NewVolume: prevVolume stays behind.
OldVolume == prevVolume

NewVolume == volume

\* Mutant of WithEvent: the newest event first.
EventInFront == <<newEvent>> \o events

WithEvent == Append(events, newEvent)

Store ==
  /\ pc = "store"
  /\ prevVolume' = NewVolume
  /\ events' = WithEvent
  /\ pc' = "idle"
  /\ synced' = TRUE
  /\ currTime' = null
  /\ newEvent' = null
  /\ UNCHANGED <<state, session, kvo, platform, world>>

-----------------------------------------------------------------------------
(* The user and the clock. *)

TurnVolume(v) ==
  /\ pc # "crashed"
  /\ v # volume
  /\ Len(turned) < MaxChanges
  /\ volume' = v
  /\ turned' = Append(turned, IF v > volume THEN "VolUp" ELSE "VolDown")
  /\ changes' = IF observing THEN changes + 1 ELSE changes
  /\ UNCHANGED <<state, session, heard, pc, locals, observing, platform, now>>

Tick ==
  /\ pc # "crashed"
  /\ now < MaxTime
  /\ now' = now + 1
  /\ UNCHANGED <<state, session, heard, pc, locals, kvo, platform, volume, turned>>

Next ==
  \/ StartRecording \/ SessionFails \/ AddObserver
  \/ \E allowed \in BOOLEAN : Answer(allowed)
  \/ Denied \/ Allowed \/ CreationFails
  \/ StopRecording \/ DidFinishRecording
  \/ \E flag \in BOOLEAN : RecorderEnds(flag)
  \/ Observe \/ Compare \/ Store
  \/ \E v \in Volumes : TurnVolume(v)
  \/ Tick

Spec == Init /\ [][Next]_vars

-----------------------------------------------------------------------------
(***************************************************************************)
(* Properties.                                                             *)
(***************************************************************************)

\* The declared types.
TypeOK ==
  /\ state \in State
  /\ audioRecorder \in {"nil", "recording", "ended"}
  /\ prevVolume \in Volumes \cup {null}
  /\ events \in Seq(Event)
  /\ startTime \in Time \cup {null}
  /\ endTime \in Time \cup {null}
  /\ metadataFile \in Nat \cup {null}
  /\ pc \in {"idle", "addObserver", "compare", "store", "crashed"}
  /\ currTime \in Time \cup {null}
  /\ newEvent \in Event \cup {null}
  /\ observing \in BOOLEAN
  /\ changes \in Nat
  /\ reply \in {"none", "asked", "allowed", "denied"}
  /\ finished \in Seq(BOOLEAN)
  /\ volume \in Volumes
  /\ now \in Time
  /\ turned \in Seq({"VolUp", "VolDown"})
  /\ synced \in BOOLEAN

\* The optional that finish() unwraps is there exactly in state RECORDING,
\* so the state check in stopRecording protects it.
RecordingHasRecorder == pc # "crashed" => (state = "RECORDING" <=> audioRecorder # "nil")

\* Of the two files of a capture neither is ever written again, whatever
\* calls and callbacks arrive after finish(), and the outcome is final.
CaptureIsFinal ==
  [][(state \in {"FINISHED", "FAILURE"}) =>
       UNCHANGED <<state, eventsFile, metadataFile>>]_vars

\* events.csv lists the events in the order of their times, all of them
\* before the end of the recording: what the conversion script relies on.
FileInOrder ==
  eventsFile # null =>
    /\ \A i, j \in DOMAIN eventsFile : i < j => eventsFile[i].time <= eventsFile[j].time
    /\ \A i \in DOMAIN eventsFile : eventsFile[i].time <= endTime - startTime

\* With no notification under way prevVolume is the volume.  Before the
\* first event that fails: a change between the read of outputVolume and
\* addObserver is never noticed.
VolumeInStep == synced /\ pc = "idle" /\ changes = 0 => prevVolume = volume

Count(seq, e) == Cardinality({i \in DOMAIN seq : seq[i] = e})

\* No event is invented: there are at most as many events of a direction as
\* turns in it, although three reads of outputVolume make one event.
NoPhantomEvents ==
  \A e \in {"VolUp", "VolDown"} :
    Count([i \in DOMAIN events |-> events[i].event], e) <= Count(turned, e)
=============================================================================
