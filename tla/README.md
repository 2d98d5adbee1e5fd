# Verification of the earpod volume control

The repository lets the volume buttons of Apple Earpods, which Android ignores,
work on Android: pressing one leaves a sound in the microphone signal, and a
small neural network finds it. This directory models the program's own code in
TLA+, checks it with TLC on small instances and proves the central properties
for all instances with TLAPS. Nearly all of the repository's 3583 files are a
vendored copy of FFTW (`fftLib`) that no build file mentions; the program itself
is about 1350 lines of C++, Java, Swift, Python and shell, and the 570 lines of
kiss_fft that it does link.

    tlc -config earpod_stream.cfg MCEarpodModel     # one run
    tlapm EarpodModelProofs.tla                     # one proof module

`PROJECT.json` lists the runs, the mutants (a plausible bug for every property,
kept in the modules as an operator named in the comment "Mutant of ..."), the
source lines of every definition, the hazards and the theorems.

## 1. The system

Data flows in two directions that meet in `util/`:

    training   iOS Recorder --files--> IosDataConversionScript --frames-->
               ConversionScript --CSV--> simple.py --nn.hpp--> EarpodModel (compiled in)
    use        microphone --> MicRecorder thread --> JEarpodModel --JNI--> EarpodModel
               --tokens--> VolumeChangeListener --messages--> MainActivity's handler

| component | state | operations | interacts by |
|---|---|---|---|
| `EarpodModel` (C++) | `buffer_`, `mats_` | constructor, `read`, `readEOF` | calls of Frontend; `nn.hpp` at compile time |
| `Frontend` (C++) | scratch arrays | `calculate` | called by EarpodModel and ConversionScript |
| `kiss_fft` (C, vendored) | `kiss_fft_cfg`: factors, twiddles | `kiss_fft_alloc`, `kiss_fft` | called by Frontend |
| `JEarpodModel` + JNI | none (a new EarpodModel per call) | `read`, `readJni` | called on the recording thread |
| `MicRecorder` (Java) | `mic`, `backgroundThread`; per thread `buffer`, `tokens` | constructor, `start`, `stop`, `run` | field shared by two threads without a lock; AudioRecord's buffer; listener callback |
| `MainActivity` (Java) | `recorder`, message queue | `onStart`, `onStop`, `onRequestPermissionsResult`, `handleMessage`, listener | platform callbacks; messages from recording threads |
| `Recorder` (Swift) | `state`, `audioRecorder`, `prevVolume`, `events`, times | `startRecording`, `stopRecording`, `finish`, KVO and delegate callbacks | buttons, permission answer, AVAudioRecorder, files |
| `IosDataConversionScript` (Python) | `kShift`, `noiseIdx` | one loop over `events.csv` | files of the Recorder, directories of frames |
| `ConversionScript`, `createCsvFile.sh`, `simple.py` | directories, CSV files, the split | batch steps | files, exit codes |
| `build.sh` | none | runs four programs | arguments, exit codes |

What is hard, and what makes the components correct:

* EarpodModel: a stream arrives in pieces of any size. No byte may be lost,
  repeated or reordered, a token must belong to the frame it is returned for,
  the size of the padding must not wrap around, and a network that does not fit
  the frontend must not answer.
* MicRecorder: the loop condition reads a *field* that `stop()` sets to `null`,
  not the running thread's own flag; the field is neither volatile nor guarded.
  `stop()` waits without a timeout for a thread that may be blocked in
  `mic.read`, which `interrupt()` does not wake. Failed reads are ignored. The
  microphone must always be released, the listener not be called after `stop()`.
* MainActivity: `onStart` asks for the permission each time and the answer comes
  later; the answer overwrites the field `recorder`. Answers, stops and restarts
  come in any order, and the main thread waits for a thread that sends it
  messages.
* iOS Recorder: user, volume, notifications, permission and delegate calls
  interleave; one notification reads the volume three times; the files must be
  written once and be in order, because the conversion relies on it.
* IosDataConversionScript: events near the start or end of the audio, closer
  together than a frame, or a frame apart exactly; Python's negative indices.
* Frontend: the widths of a table must cover the spectrum exactly; the size
  assertion is all that keeps the walk inside its arrays.
* JEarpodModel: a call is only a function of its array if nothing of the stream
  is left over, the bytes C++ writes are those the frontend reads, and two
  tables in two languages agree.
* kiss_fft: five butterflies with indices that wrap around once, in any order the
  factors come; the array of factors has a fixed size nobody checks.
* The pipeline: nothing is cleaned up. Any step may fail or be killed, and the
  next run starts on the files that are left. What the network is tested with
  must not be what it was trained with.

## 2. The modules

| module | models | state and actions |
|---|---|---|
| `TokenStream` | abstract specification of EarpodModel | `stream`, `tokens`; Accept, Flush, Deliver |
| `EarpodModel` | `util/EarpodModel.cpp`, `.hpp` | the fields plus `pc` (the call in progress); Read, ReadEOF, ClassifyFrame (an iteration of the while loop), RejectFrame (an iteration that throws or fails an assertion), Return |
| `LabelService` | abstract specification of `JEarpodModel.read` | `asked`, `answer`, `waiting`; Ask, Reply |
| `VolumeNotifier` | abstract specification of a recording | `captured`, `frame`, `todo`, `notified`, `failed`; Capture, ReadFails, Listen and ListenToSilence, Report and Skip |
| `MicRecorder` | `MicRecorder.java` and the AudioRecord behind it | functions from recorders and threads; Construct, Start, Stop and Joined (the two halves of `stop()` around `join()`), one action per step of `run()` that another thread can see, Capture |
| `MainActivity` | `MainActivity.java`, EXTENDS MicRecorder | OnStart, OnGranted, OnDenied, OnStopIdle, OnStop and OnStopReturns, HandleMessage, RecordingStep (with the listener's post) |
| `Recorder` | `iosApp/Recorder.swift` | all fields; a method is one action, but for `observeValueForKeyPath` and `startRecording`, cut at the reads of `outputVolume`; the user, the clock and AVAudioRecorder around it |
| `IosDataConversion` | `util/IosDataConversionScript.py` | one action per line read and per frame cut |
| `Frontend` | `util/Frontend.cpp`, `.hpp` | one call of `calculate`, one bucket per step |
| `FrontendTest` | `util/FrontendTest.cpp` with Frontend | Frontend started on the frame the test has filled |
| `JEarpodModel` | `JEarpodModel.java`, `jni/jearpodmodel.cpp`, EXTENDS EarpodModel | Call, CallRead, CallReadEOF, ModelRuns (the object's steps), ToNumbers (native side), ToTokens (Java side) |
| `KissFft` | `util/kiss_fft130/kiss_fft.c` | `kiss_fft_alloc`, `kf_factor` one division per step, `kf_work` with its butterflies as recursive functions |
| `Pipeline` | `createCsvFile.sh`, `util/ConversionScript.cpp`, the reading half of `simple.py` | every file they leave; one action per command, directory and line, failures of each, Kill, Capture (other data), Train |
| `RealTimeFactor` | the clock in `MicRecorder.run` | |
| `BuildScript` | `build.sh` with the assertions of what it calls | |
| `*Proofs` | theorems about the module of that name; `MicRecorderProofs` also those about MainActivity with its recorders | |
| `MC*` | values of constants for TLC | |

Abstractions. A frame of audio is a number in MicRecorder, a sequence of bytes
in EarpodModel, a byte range in IosDataConversion. The arithmetic of the network
is a constant function `Output` from frames to three numbers, known by their
order; the shapes of its matrices are kept, with the places where the code checks
them. In JEarpodModel `Output` is a function `Net` of the decoded samples. KissFft
calculates modulo a prime, where sums and products are exact and roots of unity
exist, so that the algorithm can be compared with the definition of the
transform; rounding is left out, and so are the values of the features. `IsUnit`
says what its butterflies take for granted of `exp(-2*pi*i/nfft)`. Since
all samples are decoded alike and each bucket visits coefficients by position
only, Frontend follows *one* sample and *one* coefficient, any of them. History
variables (`fed`, `out`, `last`, `posted`, `gaveUp`, `overlapped`, `turned`,
`synced`; `source` and `cut` in Pipeline; `warned` in RealTimeFactor) record what
happened for the properties; the only guards that read them are the bounds on
the lengths of `fed` (`MaxBytes`) and `turned` (`MaxChanges`). Pipeline is bounded by
`MaxRuns` and `MaxKills`, and shuffles at most `MaxLines` lines; MainActivity by its
numbers of recorders, threads and requests;
MicRecorder by `MaxFrames` and `MaxErrors`; JEarpodModel by `MaxCalls`. In Pipeline
how a capture is cut is given (IosDataConversion says how), and a line of a CSV
file is a pair of a label and the frame it was made from.

Assumptions about what is outside the code:

* Assertions are compiled in (`util/Makefile` has no `-DNDEBUG`).
* `AudioRecord.read` blocks until the whole array is filled, and a recording
  microphone keeps delivering. It is not woken by `interrupt()`.
* The field `backgroundThread` may be read stale or new by the recording thread
  once it has been written after `start()` (`Visible`).
* `isInterrupted()` of a thread that has ended is false.
* `start()`, `stop()` and the activity's callbacks run on one thread, the main
  thread, which nothing in the app interrupts (`~JoinInterrupts` in the run and the
  theorems of MainActivity); Android calls onRequestPermissionsResult only while the activity is
  started. Where API level 24 and later refuse a second request while one is
  pending, `MaxRequests = 1`; on API level 23 all requests are answered.
* A clock is not set back during a recording (`NSDate` in Recorder is the wall
  clock); the order of the event file rests on this.
* `AudioRecord.read` does not leave an array filled in part without an error, and an
  AudioRecord that was released may answer with errors, of which `MaxErrors` are
  followed. This and `startRecording()`, which is one step with the test of the
  state before it, concern only what happens after an interrupted `join()`.
* `cat` reads one file after the other, `shuf` may give any order; a file that is
  absent holds no line, which is the same to `simple.py`; a kill in the midst of
  `head` or `tail` leaves a prefix of its lines. `cat`, `shuf`, `head` and `tail` do not fail otherwise.
* iOS delivers the notifications of `outputVolume` and the delegate call on the
  main thread; a turn of the volume makes one notification once it is observed.

## 3. The runs

| run | what it asks | bounds, and why they suffice |
|---|---|---|
| `earpod_stream` | are the answers those of the stream, however it is split? does EarpodModel implement TokenStream? | 3-byte frames of 2 values, pieces of 0..4 bytes (shorter, equal, longer than a frame; one piece can end a frame and begin the next), 7 bytes in all: two frames and a partial one, or flushes in between. Three headers: trained, the empty placeholder of the repository, one for other buckets |
| `mic_recorder` | threads, microphone and listener through restarts, failing reads and an interruptible `join()`; liveness of captured frames | one recorder, two threads in turn (which overlap after an interrupt), one failure, 3 frames with two, no and one volume token, a ring of 2 that overruns |
| `activity` | orphans, silence after `onStop`, messages, termination of `onStop` | two recorders and threads, two unanswered requests (a third adds only another orphan), one frame with two volume tokens |
| `ios_recorder` | the state machine, the event list and the files | 3 volumes, 3 turns (there and back within a notification), a clock of 3 instants |
| `ios_conversion` | what the samples contain | frames of 2 samples, up to 3 events at times -3..9, audio of 0, 7, 10 and 20 bytes, lines the script rejects |
| `frontend` | the walk over the buckets, the assertions, the ends of the arrays | the real table and sizes; each of the 1103 coefficients; 1280 byte pairs; wrong sizes |
| `frontend_test` | does the frontend get what the test computes? (violated) | five samples |
| `jni_call` | does a call answer the labels of the frames of its own array (LabelService)? | bytes of two bits, frames of two samples, arrays of 0 to 4 samples that differ in sign, in either byte and in byte order; two calls, so that a leftover would show; a fitting and an unfitting network |
| `kiss_fft` | the factors of a length; is the result the transform? | modulo 8819: every unit input of 18 lengths to 60, which have each radix at each level, both directions; two inputs of the frontend's 2205; the factors of all lengths to 400 |
| `pipeline` | what is in the four files after runs that failed, were killed or succeeded | three data sets, four variants of the captures (usable, poor, with an incomplete frame, not convertible), two runs and a kill: the second run meets whatever the first can leave; a split of 1 in 4 of at most six lines in place of 1 in 10 |
| `rtf` | is a classification slower than its audio warned of? (violated) | the code's own rates, durations around 0.1 s and 10 s |
| `build_sh` | are programs called with arguments they accept? (violated) | none: the script itself |

What they show:

* EarpodModel keeps the stream intact, also when an iteration throws in the
  middle of a call. A network that does not fit is not noticed when the object
  is built but with the first frame, and always before the first answer.
* The loop's use of the field is safe as long as no `join()` is interrupted:
  then each running thread is the one the field names (`OneThread`), so the flag
  it tests is its own and null is never met (`NoNullDeref`). After an
  interrupted `join()` both can fail; the microphone still has a thread that
  will release it, unless the process ends (`MicHasThread`). MainActivity never
  interrupts its main thread.
* A failed read makes the listener hear the last frame again and nothing worse
  (`ReportsWhatIsHeard`: VolumeNotifier allows a repetition once a read has failed).
* What recording threads post is what `handleMessage` can take: it casts an
  `Object` to a String and throws on any other code than 0 (`ActivityTypeOK`).
* A recorder is orphaned only if two permission requests overlap (`NoOrphan`,
  `StoppedIsSilent`), which is possible on API level 23 alone.
* On iOS, `events.csv` is in order and no event is invented; after the first
  event `prevVolume` keeps in step with the volume. Before it, a turn between
  the read of `prevVolume` and `addObserver` is missed, which is why
  `VolumeInStep` starts with the first event. If AVAudioRecorder cannot be
  created, or reports a failure after it was stopped, `finish()` unwraps nil and
  the app crashes; the files written by then stay as they are (`CaptureIsFinal`).
* For a regular capture whose events lie in the audio, all frames are whole and
  noise overlaps neither events nor other noise. An event before the start of
  the audio wraps around through a negative index; the properties say so in
  their premises. A gap of exactly one frame is not used (`Complete`).
* A call of `JEarpodModel.read` is a function of its array, which is what
  MicRecorder's `Tokens` takes for granted: the padding of `readEOF()` completes
  an array that is no whole number of frames, and nothing survives the object
  (`ImplementsLabelService`; an exception in Java would count as a wrong answer).
* kiss_fft computes the transform in every combination of radices the lengths
  need, so an index into the twiddles that is reduced only once never leaves the
  table; 32 pairs of factors are enough. `ComputesDFT` is limited to lengths up to
  2^30: `kf_bfly_generic` keeps the sum of two numbers below nfft in an `int`, which
  may become negative beyond. The program's own length is 2205.
* A run of `createCsvFile.sh` that ends well has put each frame into exactly one
  file (`SplitIsExact`) whatever was left from before. After a run that was killed
  between `head` and the end of `tail` testing and training lines may overlap, and
  nothing notices; the accuracy then printed is too good. `TestIsUnseen` excludes
  just that interval. `EnoughIsUsable` says when `simple.py` cannot divide by
  zero: each class has more frames than the testing file has lines.

Three disagreements (`findings` in `PROJECT.json`):

* `FrontendTest` writes little-endian samples although `Frontend.hpp` asks for
  big-endian ones.
* The warning "RTF exceeded 1!!!" appears when a classification takes more than
  ten seconds, a hundred times the length of a frame: the divisor is upside down.
* `build.sh` calls `simple.py` with three arguments; its first assertion wants one,
  and `set -e` ends the build there.

Deadlock is not checked where the program may stop: a crashed process, a script
that ended, a recorder nobody uses any more, a bound that is reached. The
activity can always be started again by the user, so there it is checked.

Fairness. Threads are scheduled (`WF` of each thread's step), the microphone
delivers (`WF` of Capture), a `join()` that can return does (`WF` of Joined).
The handler needs strong fairness: the main thread is again and again taken by
other callbacks, but a looper takes messages in the order they came. The script
of IosDataConversion runs (`WF` of its next step). No fairness is assumed of
users, permission answers or lifecycle callbacks.

## 4. The proofs

All theorems hold for every value of the constants under the named assumptions
of their modules (`EarpodAssumption`, `MicAssumption`, `ActivityAssumption`,
`RecorderAssumption`, `ConversionAssumption`, `FrontendAssumption`,
`KissFftAssumption`, `JEarpodAssumption`, `PipelineAssumption`), which TLC evaluates
in the runs; those about MainActivity assume `~JoinInterrupts` besides. Each module proves an inductive invariant, one step per action.

* `EarpodModelProofs`. `IInv` adds to the properties that returnedTokens is
  empty between calls, that during a flush the buffer is one whole frame until
  that frame is answered (`FlushProgress`), and that an object that has answered
  has a fitting network, one that crashed has not (`NetVerdict`). Without
  FlushProgress `readEOF` could not be shown to answer exactly one frame;
  without NetVerdict a crash could follow an answer. The central argument is
  that buffer_ is the suffix of `fed` behind `SampleSize * Taken`; the lemmas on
  SubSeq and `\o` say that appending to the back keeps the frames already there
  (`FrameStable`) and cutting a frame moves the suffix by one. `StreamRefinement`
  maps Read and ReadEOF to Accept and Flush, Return to Deliver and the iterations
  to stuttering steps.
* `MicRecorderProofs`. `RecInv` adds to OneThread, NoNullDeref and MicHasThread
  that a thread has an owner (`Owned`), that a field names a thread of its own
  recorder which has started (`FieldIsOwn`), and that a `stop()` in `join()` has
  a thread to wait for (`JoinHasThread`). Only then does the end of `join()`
  (the *named* thread has ended) imply that no thread of the recorder runs.
  `ThreadMoves` is the lemma all steps of `run()` go through: a step that leaves
  the main thread's variables alone keeps the relations, provided a thread that
  ends leaves no microphone recording. `ListenerHearsTheSound` shows that each
  thread implements VolumeNotifier. Its invariant `InOrder` is about the ring:
  frames in it are later than all that any thread of the recorder has in its
  buffer or has classified (`ReadBefore`), which holds of two threads on one
  microphone too, the case after an interrupted `join()`; and a buffer that was
  classified before is classified again only after a failed read (`InThread`).
* `MicRecorderProofs`, on MainActivity. All actions but OnGranted are steps of MicRecorder, so
  RecInv is kept by its own theorem's lemma. `ActivityInv` adds that, without
  overlap, there is at most one request, none while a recorder is in the field,
  and that a recorder is in the field of a started activity exactly while no
  `join()` is under way. `RefusalPreventsOverlap` shows that with `MaxRequests = 1`
  the premise `~overlapped` of the other theorems always holds.
* `RecorderProofs`. `IInv` adds to `FileInOrder` and `VolumeInStep` what each phase
  of a recording knows (`Phases`: there is an AVAudioRecorder exactly in RECORDING,
  and no file before it is finished), that the events so far are in order and not
  of the future, the one under way included (`Ordered`), that notifications come
  only from an observer added with `prevVolume` set (`Observed`), and a balance
  (`Accounted`): while the volume is off `prevVolume` one turn in that direction has
  no event yet. Without the balance a comparison with a volume that went on
  turning could not be shown to have a turn of its own to record. Counting is
  done with the cardinality of index sets, and its lemmas say what appending does.
* `JEarpodModelProofs`. `InCall` ties the place of the call to what its object has
  been given: all bytes of the array, then the padding. `RoundTrip` and its
  lemmas show that decoding undoes encoding for every even width of the bytes,
  signs included. With `NothingLost` and `TokensLabelFrames` of EarpodModel, which
  the calls keep because each of their steps is a step of EarpodModel or builds a
  new object, the tokens are those of the array's own frames. `CallsAreServed` maps
  Call to Ask, ToTokens to Reply and all steps between to stuttering ones;
  `TablesMatch` is the part about the two tables.
* `FrontendProofs`. For a table of buckets the walk is at its k-th row
  at the k-th prefix sum of widths, and the features at the k-th prefix sum of
  counts. The invariant takes the sums as given (`TableFits(start, total)`);
  `TableSums` shows that the recursive sums of a table that adds up (`AddsUp`) are
  such sums, and `HeaderTableCovers` gives them for the table of `Frontend.hpp`.
* `KissFftProofs`, the factors. `FactorInv` says that the factors are a chain of
  quotients (`Chain`), that no candidate below p divides what is left (`Tried`),
  and that each radix takes a bit or more of the length (`Shrinks`). Tried has two
  delicate places: even candidates behind 2 are never tried, and ruled out since 2
  is; and once p is beyond the root *of nfft* the whole rest becomes a radix,
  which is a prime because a divisor of it above the root would have one below
  (`NoneLeft`). Shrinks bounds the array: at most 30 pairs for an `int`, where the
  code has room for 32 and no check. All lengths an `int` holds are meant, so the
  assumption names `INT_MAX`; for larger ones the array would not be enough.
* `KissFftProofs`, the transform. `ComputesTheDFT` holds for every modulus P, every
  input and length up to 2^30, both directions, and every number that turns
  as `IsUnit` says. The invariant `DftInv` adds to FactorInv that the table holds the
  powers of the root (`TableFilled`). The argument has four parts.
  1. The pairs modulo P are a commutative ring (`Closed`, `Commutes`, `Associates`,
     `Distributes`): reduction modulo P may be done late or early, which is where
     the provers need most help, since it makes every law one of non-linear arithmetic.
     `PowersOf` and `Sum` are the powers and the sums as functions on the natural
     numbers; `Power`, which squares, is the first (`Halving`), and `Coefficient`,
     which takes the summands in any order and leaves out zeros, is the second
     (`CoefficientIs`).
  2. A sum over a sequence is the sum, over its radix parts, of the sums over every
     radix-th of it, turned (`Decimation`).
  3. Each butterfly gives, in row q of a column u, the sum of the column with the
     factors of frequency `u + q * m` (`EveryButterfly`). `Rows2` to `Rows5` compare
     what the code writes out with that sum. Radix 4 needs that a quarter
     of a turn is -i and its inverse i, which is what the branch on `inverse` is for;
     radix 3 that a third of a turn has the real part -1/2, since the code
     takes half of a sum instead of a product; radix 5 only that four fifths are the
     conjugate of one. `GenericRow` follows the index twidx around the table:
     reduced once per step it is the remainder of `q * fstride * k`, provided the
     sum before the reduction fits an int.
  4. A level of `kf_work` gives the transform of its part if the next one does
     (`Recombines`, `LevelStep`), from the last level, where m is 1, to the first. The
     chain of factors makes fstride, radix and m of a level multiply to
     nfft, so that the indices stay in the table.
  That `Work` and `Coefficient` are defined at all, as functions with recursive
  definitions, is proved too (they are unique and exist on each initial part of
  their domains).
* `IosDataConversionProofs`. `IInv` knows which event is in hand (`InTurn`) and that
  all that is cut ends in front of `noiseIdx`, noise in front of the event in hand
  as well (`Behind`). The second part is needed since an event may lie closer to
  the one before than a frame: then `noiseIdx` is behind its start, and only the
  order of the events keeps its frame off the noise. `Lands` says that a frame
  beginning where others end overlaps none of them, at the end of the audio too.
  `Counted` ties the number of files to the lines read: the noise cut together with
  the room left in front of the event in hand is `RoomUpTo` that event, the sum of
  what there was room for. `RoomStep` is the arithmetic of one turn of the loop: a
  frame takes the room of one, and where the loop ends there is none left.
* `PipelineProofs`. `IInv` follows the lines on their way: from the directories of a
  set into its CSV file (`Looping`, `Converting`), from those of a platform into one
  sequence (`Gathering`), and from there into two files (`Splitting`). At each point
  a sequence *lists* a set of lines, each of them once (`Lists`): this is what
  `cat` keeps because the sets of a platform are different and a frame belongs to
  one capture, `shuf` because an order is an injection, and from which it follows
  that the first and the last part of the lines have none in common and the
  first has the size the script computed. While Android's files are made, the ones
  for iOS are exact already (`InTurn`).

Induction. The library's induction theorems cannot be used by the provers, but the
theorem that `<` is well-founded on the natural numbers can: it gives that a
non-empty set of natural numbers has a least element (`LeastNatural`), and a least
counterexample is what induction over data comes down to (`Inductive`). The
existence of a recursive function is proved in the same way, from the existence of
its values up to every limit (`Recursion`). The sums in FrontendProofs and
IosDataConversionProofs, the integer root, the powers, the sums and the recursion of
KissFft rest on this.

Only model-checked: the liveness properties (`FramesAnswered`, `OnStopEnds`,
`MessagesHandled`, `Terminates`); fairness and ENABLED are out of the prover's reach.
The run of `kiss_fft` still matters beside the proof: it shows that roots as
`IsUnit` asks for exist, and for which lengths.

What the properties do not catch, since their premises leave it out and the code
really does it: a recorder orphaned by overlapping requests on API level 23
(`~overlapped`), a turn of the volume missed before the first event (`synced`), the
crash of the iOS app at a nil, samples of events before the start of the audio and
of captures with bad lines (regular captures only), and testing lines among the
training lines after a kill between the two files (`cut`). The models have these
behaviours; the properties say what holds apart from them, and the notes of the
hazards in `PROJECT.json` say so for each.

## 5. Not modelled

* `fftLib`: a vendored FFTW 3 of 298000 lines, mostly generated codelets, that no
  Makefile, script or Gradle file of the program compiles or links (Frontend calls
  kiss_fft). Nothing the program does depends on it. As it makes up more than 99 %
  of the C in the repository, the models cover a small share of the
  repository's lines and most of the program's own.
* Numerics: the training in TensorFlow, the network's arithmetic, rounding, the
  values of the features.
* The array that `readJni` obtains and never releases: whether it is pinned or
  copied, and what happens when there is no room, is the JVM's.
* Steps nothing depends on: failing `malloc`, `lenmem` and the temporary buffer for
  a transform in place in kiss_fft; the assertion that the outputs of the softmax add
  up to 1; a kill in the midst of the conversion of a capture, whose directories
  every run builds anew.
* kiss_fft with `FIXED_POINT`, `_OPENMP` or strides, its tools and its other
  transforms, which the program does not build.
* User-interface templates, resources and build files of the apps (no logic); the
  two buttons of the iOS view are actions of Recorder; logging, toasts and
  printed messages.
* Code nothing calls: `VolumeChangeEvent.onError`, `dumpToFile` and `data_next` of
  `simple.py`.
* `EarpodModelTest`, one behaviour of EarpodModel; `rawToWav.sh`, the Vagrantfile
  and the notes.

## 6. Plan

Done, in the order in which it matters to the program: EarpodModel with
TokenStream, MicRecorder with VolumeNotifier, MainActivity and their proofs;
Recorder, IosDataConversion, Frontend and FrontendTest; then JEarpodModel,
kiss_fft, the pipeline, `build.sh` and the real-time factor, and the proofs for
Recorder, JEarpodModel, Frontend, IosDataConversion and the refinement of
VolumeNotifier; then the proofs for Pipeline, the counts of
IosDataConversion, kiss_fft (its factors, and that it computes the transform) and
the refinement of LabelService.

Left: a bound on rounding in kiss_fft, which exact arithmetic leaves out, and the
composition of MicRecorder with LabelService in place of its constant `Tokens`.
