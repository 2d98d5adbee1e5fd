---------------------------- MODULE MainActivity ----------------------------
(***************************************************************************)
(* MainActivity.java with the recorders it creates.  Its methods run on    *)
(* the main thread, one at a time; a stop() waiting in join() keeps the    *)
(* main thread from everything else.  The listener runs on a recording     *)
(* thread and only puts a message into the main thread's queue.            *)
(*                                                                         *)
(* The platform starts and stops the activity.  It answers a permission    *)
(* request some time later and hands the answer over only while the        *)
(* activity is started.  Where a request may not overlap another one       *)
(* (MaxRequests = 1: API level 24 and later) the second one is answered at *)
(* once with empty results, which the activity takes for a refusal.  On    *)
(* API level 23 every request is answered.  An activity that is created    *)
(* anew (rotation) has null fields, as onStop leaves them.  Nothing        *)
(* interrupts the main thread: the run has JoinInterrupts = FALSE, and the *)
(* theorems assume it.                                                     *)
(***************************************************************************)
EXTENDS MicRecorder

CONSTANT MaxRequests   \* unanswered requests: 1, or a bound for API level 23

ASSUME ActivityAssumption == MaxRequests \in Nat \ {0}

VARIABLES
  started,     \* between onStart and onStop
  requests,    \* permission requests not answered yet
  recorder,    \* the field: a recorder or null
  queue,       \* messages of mHandler
  overlapped   \* history: two requests have been outstanding at once

activityVars == <<started, requests, recorder, queue, overlapped>>
allVars == <<mic, ring, captured, backgroundThread, owner, pc, interrupted,
             buffer, tokens, joining, errors, gaveUp, last, posted,
             started, requests, recorder, queue, overlapped>>

ActivityInit ==
  /\ Init
  /\ started = FALSE
  /\ requests = 0
  /\ recorder = null
  /\ queue = <<>>
  /\ overlapped = FALSE

-----------------------------------------------------------------------------
\* Mutant of NoRecorder: the condition is not there.
Always == TRUE

CanRequest == requests < MaxRequests

\* onStart() always requests the permission.
OnStart ==
  /\ MainIdle
  /\ ~started
  /\ started' = TRUE
  /\ IF CanRequest
       THEN /\ requests' = requests + 1
            /\ overlapped' = (overlapped \/ requests > 0)
       ELSE UNCHANGED <<requests, overlapped>>
  /\ UNCHANGED <<recVars, recorder, queue>>

\* onRequestPermissionsResult, granted: the field is overwritten.
OnGranted(r, t) ==
  /\ MainIdle
  /\ started
  /\ requests > 0
  /\ requests' = requests - 1
  /\ Constructed(r)
  /\ Started(r, t)
  /\ recorder' = r
  /\ RecordingUnchanged
  /\ UNCHANGED <<interrupted, joining, gaveUp, started, queue, overlapped>>

\* onRequestPermissionsResult, denied or empty: only a log message.
OnDenied ==
  /\ MainIdle
  /\ started
  /\ requests > 0
  /\ requests' = requests - 1
  /\ UNCHANGED <<recVars, started, recorder, queue, overlapped>>

NoRecorder == recorder = null

\* onStop() without a recorder.
OnStopIdle ==
  /\ MainIdle
  /\ started
  /\ NoRecorder
  /\ started' = FALSE
  /\ UNCHANGED <<recVars, requests, recorder, queue, overlapped>>

\* onStop() up to the join() in recorder.stop().
OnStop(r) ==
  /\ started
  /\ recorder = r
  /\ Stop(r)
  /\ started' = FALSE
  /\ RecordingUnchanged
  /\ UNCHANGED <<requests, recorder, queue, overlapped>>

\* onStop() from there on.
OnStopReturns(r) ==
  /\ Joined(r)
  /\ recorder' = null
  /\ RecordingUnchanged
  /\ UNCHANGED <<started, requests, queue, overlapped>>

\* Mutant of HasMessage: messages wait for the activity to be started.
HasMessageStarted == started /\ queue # <<>>

HasMessage == queue # <<>>

\* mHandler.handleMessage: the toast.  It throws on the main thread if obj is
\* not a String or what is not 0; ActivityTypeOK says that this never happens.
HandleMessage ==
  /\ MainIdle
  /\ HasMessage
  /\ queue' = Tail(queue)
  /\ UNCHANGED <<recVars, started, requests, recorder, overlapped>>

\* Mutant of Posted: the token goes into the message, an Object like its text.
PostedToken(token) == [what |-> 0, obj |-> token]

\* The message of onVolumeUp() and of onVolumeDown().
Posted(token) ==
  [what |-> 0, obj |-> CASE token = "VOLUME_UP"   -> "Volume Up!"
                         [] token = "VOLUME_DOWN" -> "Volume Down!"]

\* A recording thread's step.  What it calls of the listener posts a message.
RecordingStep(t) ==
  /\ ThreadStep(t)
  /\ queue' = IF posted'[t] = posted[t] THEN queue
              ELSE Append(queue, Posted(posted'[t][Len(posted'[t])]))
  /\ UNCHANGED <<started, requests, recorder, overlapped>>

MicHears(r) == Capture(r) /\ UNCHANGED activityVars

ActivityNext ==
  \/ OnStart \/ OnDenied \/ OnStopIdle \/ HandleMessage
  \/ \E r \in Recorders :
       \/ \E t \in Threads : OnGranted(r, t)
       \/ OnStop(r) \/ OnStopReturns(r) \/ MicHears(r)
  \/ \E t \in Threads : RecordingStep(t)

ActivitySpec == ActivityInit /\ [][ActivityNext]_allVars

(* As in MicRecorder, and the main thread's looper runs whenever the main  *)
(* thread is free.  Neither the user nor the platform has to do anything.  *)
ActivityFairSpec ==
  /\ ActivitySpec
  /\ \A t \in Threads : WF_allVars(RecordingStep(t))
  /\ \A r \in Recorders : WF_allVars(MicHears(r)) /\ WF_allVars(OnStopReturns(r))
  /\ SF_allVars(HandleMessage)

-----------------------------------------------------------------------------
(***************************************************************************)
(* Properties.                                                             *)
(***************************************************************************)

\* What handleMessage accepts: its cast and its test of the code succeed.
Message == [what : {0}, obj : {"Volume Up!", "Volume Down!"}]

\* The declared types, those of the recorders included.  A message is an
\* Object to the compiler: that the recording threads send only what
\* handleMessage can cast and has a code for is up to the listener.
ActivityTypeOK ==
  /\ TypeOK
  /\ started \in BOOLEAN
  /\ requests \in 0..MaxRequests
  /\ recorder \in Recorders \cup {null}
  /\ queue \in Seq(Message)
  /\ overlapped \in BOOLEAN

\* Every recording thread belongs to the recorder the activity knows.
\* onRequestPermissionsResult overwrites the field without stopping what is
\* in it; that loses a recorder exactly when requests overlap.
NoOrphan ==
  ~overlapped => \A t \in Threads : Running(t) => owner[t] = recorder

\* Once onStop() has returned nothing of the app records or reports any
\* more, whatever permission answers were under way.
StoppedIsSilent ==
  ~overlapped /\ ~started /\ joining = null =>
    /\ \A t \in Threads : ~Running(t)
    /\ \A r \in Recorders : mic[r] # "recording"

\* The inductive invariant.  A recorder is in the field from the answer of
\* the only request up to the end of onStop(); nothing is running without it.
ActivityInv ==
  /\ ActivityTypeOK
  /\ RecInv
  /\ ~gaveUp
  /\ joining # null => joining = recorder /\ ~started
  /\ recorder # null => backgroundThread[recorder] # null
  /\ ~overlapped => /\ requests <= 1
                    /\ recorder # null => requests = 0
                    /\ recorder # null => (started <=> joining = null)
  /\ NoOrphan

\* The wait in onStop() ends, although the thread waited for sends messages
\* to the main thread.
OnStopEnds == joining # null ~> joining = null

\* Every message is handled, also those sent while the main thread waited.
MessagesHandled ==
  \A n \in 1..(2 * MaxFrames * Cardinality(Threads)) :
    Len(queue) = n ~> Len(queue) < n
=============================================================================
