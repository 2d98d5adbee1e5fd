---------------------------- MODULE MicRecorder ----------------------------
(***************************************************************************)
(* MicRecorder.java: an AudioRecord, and a RecordingThread that reads      *)
(* frames from it, has them classified and calls the listener.             *)
(*                                                                         *)
(* Several recorders exist over the life of the app and a recorder may     *)
(* start several threads, so objects and threads are functions of their    *)
(* ids.  The thread tests the flag of whatever thread the field            *)
(* backgroundThread of its recorder names at that moment.  The callers of  *)
(* start() and stop() are one thread (the main thread of the app); join()  *)
(* blocks it, which splits stop() into two actions.                        *)
(*                                                                         *)
(* A frame of audio is its number, counted from 1 by the microphone that   *)
(* heard it; frame 0 is silence.                                           *)
(***************************************************************************)
EXTENDS Integers, Sequences, FiniteSets

CONSTANTS
  Recorders,      \* ids of MicRecorder objects
  Threads,        \* ids of RecordingThread objects
  null,
  Tokens,         \* what model_.read answers for each frame
  RingFrames,     \* frames the AudioRecord's buffer holds (5 in the code)
  JoinInterrupts, \* whether the thread that calls stop() can be interrupted
  MaxFrames,      \* bound: frames with a sound; after them there is silence
  MaxErrors       \* bound: calls of mic.read that fail

Token == {"VOLUME_UP", "VOLUME_DOWN", "NOISE"}
FrameNo == 0..MaxFrames

ASSUME MicAssumption ==
  /\ null \notin Recorders \cup Threads
  /\ RingFrames \in Nat \ {0}
  /\ MaxFrames \in Nat /\ MaxErrors \in Nat
  /\ JoinInterrupts \in BOOLEAN
  /\ Tokens \in [FrameNo -> Seq(Token)]

VARIABLES
  mic,              \* state of the recorder's AudioRecord
  ring,             \* frames in its buffer
  captured,         \* number of the last frame it heard
  backgroundThread, \* the field: a thread or null
  owner,            \* the recorder whose RecordingThread this is
  pc,               \* where the thread is in run()
  interrupted,      \* the thread's interrupt status
  buffer,           \* the thread's local array
  tokens,           \* tokens of the frame not looked at yet
  joining,          \* the recorder whose stop() waits in join(), or null
  errors,           \* failed calls of mic.read so far
  gaveUp,           \* history: some join() was interrupted
  last,             \* history: the last frame with a sound a thread classified
  posted            \* history: the thread's calls of the listener

recVars == <<mic, ring, captured, backgroundThread, owner, pc, interrupted,
             buffer, tokens, joining, errors, gaveUp, last, posted>>

MicState == {"none", "uninitialized", "initialized", "recording", "released"}
PC == {"new", "run", "test", "read", "classify", "dispatch", "release",
       "exit", "crashed"}

-----------------------------------------------------------------------------
\* An uncaught exception in any thread ends the process.
Up == \A t \in Threads : pc[t] # "crashed"

\* The main thread may take its next call.
MainIdle == Up /\ joining = null

\* AudioRecord.getState() = STATE_INITIALIZED, recording or not.
Usable(r) == mic[r] \in {"initialized", "recording"}

Running(t) == pc[t] \notin {"new", "exit", "crashed"}

Goto(t, label) == pc' = [pc EXCEPT ![t] = label]

IsVolume(token) == token # "NOISE"

Init ==
  /\ mic = [r \in Recorders |-> "none"]
  /\ ring = [r \in Recorders |-> <<>>]
  /\ captured = [r \in Recorders |-> 0]
  /\ backgroundThread = [r \in Recorders |-> null]
  /\ owner = [t \in Threads |-> null]
  /\ pc = [t \in Threads |-> "new"]
  /\ interrupted = [t \in Threads |-> FALSE]
  /\ buffer = [t \in Threads |-> 0]
  /\ tokens = [t \in Threads |-> <<>>]
  /\ joining = null
  /\ errors = 0
  /\ gaveUp = FALSE
  /\ last = [t \in Threads |-> 0]
  /\ posted = [t \in Threads |-> <<>>]

-----------------------------------------------------------------------------
(* The main thread.  None of its steps touches what the others work on: *)
RecordingUnchanged == UNCHANGED <<ring, captured, buffer, tokens, errors, last, posted>>

\* new AudioRecord() may end in either state; both are accepted.
Constructed(r) ==
  /\ mic[r] = "none"
  /\ \E s \in {"initialized", "uninitialized"} : mic' = [mic EXCEPT ![r] = s]

\* Mutant of NotStarted and Terminated: the condition is not there.
Anyhow(r) == TRUE

NotStarted(r) == backgroundThread[r] = null

\* start() when the field is null; otherwise it does nothing.
Started(r, t) ==
  /\ NotStarted(r)
  /\ pc[t] = "new"
  /\ backgroundThread' = [backgroundThread EXCEPT ![r] = t]
  /\ owner' = [owner EXCEPT ![t] = r]
  /\ Goto(t, "run")

Construct(r) ==
  /\ MainIdle
  /\ Constructed(r)
  /\ UNCHANGED <<backgroundThread, owner, pc, interrupted, joining, gaveUp>>

Start(r, t) ==
  /\ MainIdle
  /\ mic[r] # "none"
  /\ Started(r, t)
  /\ UNCHANGED <<mic, interrupted, joining, gaveUp>>

\* Mutant of Interrupt: the call is missing.
InterruptNothing(r) == interrupted' = interrupted

Interrupt(r) == interrupted' = [interrupted EXCEPT ![backgroundThread[r]] = TRUE]

\* stop() up to the call of join().
Stop(r) ==
  /\ MainIdle
  /\ backgroundThread[r] # null
  /\ Interrupt(r)
  /\ joining' = r
  /\ UNCHANGED <<mic, backgroundThread, owner, pc, gaveUp>>

\* What join() waits for.
Terminated(r) == pc[backgroundThread[r]] = "exit"

\* stop() after join(), which returns or throws InterruptedException; the
\* exception is printed, and the field set to null all the same.
Joined(r) ==
  /\ Up
  /\ joining = r
  /\ \/ Terminated(r) /\ UNCHANGED gaveUp
     \/ JoinInterrupts /\ gaveUp' = TRUE
  /\ backgroundThread' = [backgroundThread EXCEPT ![r] = null]
  /\ joining' = null
  /\ UNCHANGED <<mic, owner, pc, interrupted>>

MainStep(r) ==
  /\ Construct(r) \/ (\E t \in Threads : Start(r, t)) \/ Stop(r) \/ Joined(r)
  /\ RecordingUnchanged

-----------------------------------------------------------------------------
(* The recording thread.  None of its steps touches the main thread's part: *)
MainUnchanged == UNCHANGED <<captured, backgroundThread, owner, interrupted, joining, gaveUp>>

\* run() up to the loop.
Run(t) ==
  LET r == owner[t] IN
  /\ pc[t] = "run"
  /\ IF Usable(r)
       THEN mic' = [mic EXCEPT ![r] = "recording"] /\ Goto(t, "test")
       ELSE mic' = mic /\ Goto(t, "exit")
  /\ UNCHANGED <<ring, buffer, tokens, errors, last, posted>>

\* What a thread may read in the field.  The field is not volatile: once it
\* has been written after start(), old and new values are all possible.
Visible(t) ==
  LET field == backgroundThread[owner[t]]
  IN  IF field = t THEN {t} ELSE {t, null, field}

\* Thread.isInterrupted(): of a thread that has ended it is false.
IsInterrupted(t) == interrupted[t] /\ pc[t] # "exit"

\* while (!backgroundThread.isInterrupted()): the field, not this thread.
LoopTest(t) ==
  /\ pc[t] = "test"
  /\ \E named \in Visible(t) :
       Goto(t, IF named = null THEN "crashed"
               ELSE IF IsInterrupted(named) THEN "release" ELSE "read")
  /\ UNCHANGED <<mic, ring, buffer, tokens, errors, last, posted>>

\* Mutant of Rest: a read empties the AudioRecord's buffer.
RestLost(frames) == <<>>

Rest(frames) == Tail(frames)

\* mic.read blocks until a frame is there.  interrupt() does not wake it.
MicRead(t) ==
  LET r == owner[t] IN
  /\ pc[t] = "read"
  /\ Usable(r)
  /\ ring[r] # <<>>
  /\ buffer' = [buffer EXCEPT ![t] = Head(ring[r])]
  /\ ring' = [ring EXCEPT ![r] = Rest(@)]
  /\ Goto(t, "classify")
  /\ UNCHANGED <<mic, tokens, errors, last, posted>>

\* Mutant of AfterError: the error code is taken for a frame.
AfterErrorCode(t) == [buffer EXCEPT ![t] = -3]

AfterError(t) == buffer

\* An error code is ignored: the frame of the last read is still in buffer.
MicReadFails(t) ==
  /\ pc[t] = "read"
  /\ errors < MaxErrors
  /\ errors' = errors + 1
  /\ buffer' = AfterError(t)
  /\ Goto(t, "classify")
  /\ UNCHANGED <<mic, ring, tokens, last, posted>>

\* model_.read(buffer), a function of the frame alone.
Classify(t) ==
  /\ pc[t] = "classify"
  /\ tokens' = [tokens EXCEPT ![t] = Tokens[buffer[t]]]
  /\ last' = [last EXCEPT ![t] = IF buffer[t] = 0 THEN @ ELSE buffer[t]]
  /\ Goto(t, "dispatch")
  /\ UNCHANGED <<mic, ring, buffer, errors, posted>>

\* Mutant of NextToken: the last one first.
NextTokenBackwards(t) == tokens[t][Len(tokens[t])]

NextToken(t) == Head(tokens[t])

\* The for loop: one iteration, or its end.
Dispatch(t) ==
  /\ pc[t] = "dispatch"
  /\ \/ /\ tokens[t] # <<>>
        /\ tokens' = [tokens EXCEPT ![t] = Tail(@)]
        /\ posted' = [posted EXCEPT ![t] = IF IsVolume(NextToken(t))
                                             THEN Append(@, NextToken(t)) ELSE @]
        /\ UNCHANGED pc
     \/ /\ tokens[t] = <<>>
        /\ Goto(t, "test")
        /\ UNCHANGED <<tokens, posted>>
  /\ UNCHANGED <<mic, ring, buffer, errors, last>>

\* Mutant of Released: mic.release() is missing.
NotReleased(r) == mic

Released(r) == [mic EXCEPT ![r] = "released"]

\* mic.release(): what the buffer still holds is never read.
Release(t) ==
  /\ pc[t] = "release"
  /\ mic' = Released(owner[t])
  /\ ring' = [ring EXCEPT ![owner[t]] = <<>>]
  /\ Goto(t, "exit")
  /\ UNCHANGED <<buffer, tokens, errors, last, posted>>

ThreadStep(t) ==
  /\ Up
  /\ \/ Run(t)      \/ LoopTest(t)  \/ MicRead(t)  \/ MicReadFails(t)
     \/ Classify(t) \/ Dispatch(t)  \/ Release(t)
  /\ MainUnchanged

-----------------------------------------------------------------------------
(* The platform: a recording AudioRecord hears a frame every 100 ms; with  *)
(* its buffer full the frame is lost.                                      *)
Capture(r) ==
  LET sound == captured[r] < MaxFrames
      k     == IF sound THEN captured[r] + 1 ELSE 0
  IN
  /\ Up
  /\ mic[r] = "recording"
  /\ captured' = [captured EXCEPT ![r] = IF sound THEN @ + 1 ELSE @]
  /\ ring' = [ring EXCEPT ![r] = IF Len(@) < RingFrames THEN Append(@, k) ELSE @]
  /\ UNCHANGED <<mic, backgroundThread, owner, pc, interrupted, buffer, tokens,
                 joining, errors, gaveUp, last, posted>>

Next ==
  \/ \E r \in Recorders : MainStep(r) \/ Capture(r)
  \/ \E t \in Threads : ThreadStep(t)

Spec == Init /\ [][Next]_recVars

(* Threads are scheduled, the microphone keeps hearing, and a join() that  *)
(* can return does.  Nobody has to call start() or stop().                 *)
Fairness ==
  /\ \A t \in Threads : WF_recVars(ThreadStep(t))
  /\ \A r \in Recorders : /\ WF_recVars(Capture(r))
                        /\ WF_recVars(Joined(r) /\ RecordingUnchanged)

FairSpec == Spec /\ Fairness

-----------------------------------------------------------------------------
(***************************************************************************)
(* Properties.                                                             *)
(***************************************************************************)

\* The declared types.
TypeOK ==
  /\ mic \in [Recorders -> MicState]
  /\ ring \in [Recorders -> Seq(FrameNo)]
  /\ captured \in [Recorders -> FrameNo]
  /\ backgroundThread \in [Recorders -> Threads \cup {null}]
  /\ owner \in [Threads -> Recorders \cup {null}]
  /\ pc \in [Threads -> PC]
  /\ interrupted \in [Threads -> BOOLEAN]
  /\ buffer \in [Threads -> FrameNo]
  /\ tokens \in [Threads -> Seq(Token)]
  /\ joining \in Recorders \cup {null}
  /\ errors \in 0..MaxErrors
  /\ gaveUp \in BOOLEAN
  /\ last \in [Threads -> FrameNo]
  /\ posted \in [Threads -> Seq(Token)]

\* The loop condition reads the field, not the thread's own flag: that is
\* the same thing as long as no join() was interrupted, because then every
\* running thread is the one its recorder's field names.
OneThread ==
  ~gaveUp => \A t \in Threads : Running(t) => /\ owner[t] # null
                                              /\ backgroundThread[owner[t]] = t

\* backgroundThread.isInterrupted() meets null only if stop() went on
\* without waiting for the thread: stop() and the loop do not race.
NoNullDeref == ~Up => gaveUp

\* A recording microphone always has a thread that is going to release it:
\* no order of start(), stop() and failures leaks the microphone.
MicHasThread ==
  Up => \A r \in Recorders :
          mic[r] = "recording" => \E t \in Threads : Running(t) /\ owner[t] = r

\* The listener is called only between start() and the return of stop(),
\* whatever the thread was doing when stop() was called.
SilentAfterStop ==
  [][\A t \in Threads :
       posted'[t] # posted[t] => gaveUp \/ backgroundThread[owner[t]] = t]_recVars

\* The inductive invariant: the properties above and how the field, the
\* threads and the caller in join() go together.
Owned ==
  \A t \in Threads : pc[t] # "new" => owner[t] \in Recorders

FieldIsOwn ==
  \A r \in Recorders : backgroundThread[r] # null =>
    /\ owner[backgroundThread[r]] = r
    /\ pc[backgroundThread[r]] # "new"

JoinHasThread == joining # null => backgroundThread[joining] # null

RecInv ==
  /\ TypeOK
  /\ Owned
  /\ FieldIsOwn
  /\ JoinHasThread
  /\ OneThread
  /\ NoNullDeref
  /\ MicHasThread

\* What the listener hears from a thread is a VolumeNotifier of the frames
\* its microphone heard; a failed read makes it hear a frame again.
Notifier(t) == INSTANCE VolumeNotifier WITH
  Labels    <- Tokens,
  captured  <- IF owner[t] = null THEN 0 ELSE captured[owner[t]],
  frame     <- last[t],
  todo      <- tokens[t],
  notified  <- posted[t],
  failed    <- errors > 0

ReportsWhatIsHeard ==
  /\ \A t \in Threads : Notifier(t)!Init
  /\ [][\A t \in Threads : [Notifier(t)!Next]_(Notifier(t)!vars)]_recVars

\* A frame that found room in the buffer is classified, unless stop() is
\* called first (or a join() was interrupted, after which the loop may end
\* at any test of the field).
FramesAnswered ==
  \A r \in Recorders, k \in 1..MaxFrames :
    (\E i \in DOMAIN ring[r] : ring[r][i] = k)
      ~> \/ joining = r \/ gaveUp
         \/ \E t \in Threads : owner[t] = r /\ last[t] >= k
=============================================================================
