------------------------------ MODULE Pipeline ------------------------------
(***************************************************************************)
(* createCsvFile.sh with the programs it runs: from the captures of the    *)
(* data sets to the four files that tensorFlow/simple.py trains from.  In  *)
(* a loop over the sets IosDataConversionScript.py cuts a capture into     *)
(* directories of frames and ConversionScript turns these into a CSV file; *)
(* then the files of each platform are shuffled and split.  Everything     *)
(* stays on the disk, also when the script fails or is killed anywhere,    *)
(* and the next run starts on what is there.                               *)
(*                                                                         *)
(* How a capture is cut is the subject of IosDataConversion; here it is a  *)
(* set of frames, some of which may be short (an event at the end of the   *)
(* audio) and some of which the script may fail to write.  A line of a CSV *)
(* file is written as a whole.                                             *)
(***************************************************************************)
EXTENDS Integers, Sequences, FiniteSets, TLC, SequencesExt

CONSTANTS
  SetsOf,     \* for "Ios" and "Android", TRAINING_SETS and ANDROID_SETS
  Share,      \* one of Share lines is for testing: 10 in the script
  Captures,   \* what may be in the data directories: for each set
              \* [frames: set of frames, regular: does the script finish]
  MaxLines,   \* bound: lines that are shuffled
  MaxRuns,    \* bound: runs of the script
  MaxKills,   \* bound: runs that are killed
  null

Platform == {"Ios", "Android"}
DataSet == UNION {ToSet(SetsOf[p]) : p \in Platform}

\* VolumeUp, VolumeDown and Noise, in the order of the arguments of
\* ConversionScript.
Class == 1..3

\* The .raw files, and the lines of the CSV files.
Frame == UNION {c[t].frames : c \in Captures, t \in DataSet}
Line == [label : Class, frame : Frame]

ASSUME PipelineAssumption ==
  /\ \A p \in Platform :
       SetsOf[p] \in Seq(DataSet) /\ SetsOf[p] # <<>> /\ IsInjective(SetsOf[p])
  /\ ToSet(SetsOf["Ios"]) \cap ToSet(SetsOf["Android"]) = {}
  /\ Share \in Nat \ {0}
  /\ \A c \in Captures, t \in DataSet :
       /\ IsFiniteSet(c[t].frames)
       /\ \A f \in c[t].frames : f.class \in Class /\ f.whole \in BOOLEAN /\ f.set = t
       /\ c[t].regular \in BOOLEAN
  /\ MaxLines \in Nat /\ MaxRuns \in Nat /\ MaxKills \in Nat

VARIABLES
  capture,    \* the captures in data/
  dirs,       \* for each set the .raw files in its three directories
  csv,        \* for each set the lines of its CSV file, null if there is none
  shuffled,   \* what cat has read, then AllData.csv or AllAndroid.csv;
              \*   neither is used later
  testing,    \* for each platform the lines of its two files; their order
  training,   \*   does not matter to simple.py, and to it a file that is not
              \*   there is as good as one without lines
  pc,         \* "idle", "make", "loop", "rows", "cat", "head", "tail"
  todo,       \* sets the loop, or cat, has before it
  class,      \* ConversionScript: the directory it reads
  left,       \*   and the files of it that are not converted yet
  platform,   \* which files are split
  exit,       \* "ok", "failed", "killed"; "none" before the first end
  trained,    \* the last run of simple.py: "no", "failed", "started"
  source,     \* history: the captures at the start of the run
  cut,        \* history: platforms whose testing file was written after
              \*   their training file
  runs, kills

files == <<capture, dirs, csv, shuffled, testing, training>>
history == <<source, cut, runs, kills>>
vars == <<capture, dirs, csv, shuffled, testing, training, pc, todo, class, left,
          platform, exit, trained, source, cut, runs, kills>>

Init ==
  /\ capture \in Captures
  /\ dirs = [t \in DataSet |-> {}]
  /\ csv = [t \in DataSet |-> null]
  /\ shuffled = <<>>
  /\ testing = [p \in Platform |-> {}]
  /\ training = [p \in Platform |-> {}]
  /\ pc = "idle" /\ todo = <<>> /\ class = 1 /\ left = {} /\ platform = "Ios"
  /\ exit = "none"
  /\ trained = "no"
  /\ source = capture
  /\ cut = {}
  /\ runs = 0 /\ kills = 0

\* The process is gone, its locals with it.
Ends(status) ==
  /\ pc' = "idle" /\ todo' = <<>> /\ class' = 1 /\ left' = {} /\ platform' = "Ios"
  /\ exit' = status

-----------------------------------------------------------------------------
(* The script. *)
Start ==
  /\ pc = "idle" /\ runs < MaxRuns
  /\ pc' = "make"
  /\ exit' = "none" /\ trained' = "no"
  /\ source' = capture
  /\ runs' = runs + 1
  /\ UNCHANGED <<files, todo, class, left, platform, cut, kills>>

\* make clean, make and the removal of AllData.csv; set -e ends the script
\* when the build fails.
Make ==
  /\ pc = "make"
  /\ \/ /\ pc' = "loop"
        /\ todo' = SetsOf["Ios"] \o SetsOf["Android"]
        /\ UNCHANGED <<class, left, platform, exit>>
     \/ Ends("failed")
  /\ UNCHANGED <<files, trained, history>>

\* ConversionScript starts on a directory, which the script before has made.
ReadAudioFiles(t, c) == class' = c /\ left' = {f \in dirs'[t] : f.class = c}

\* outFile.open, and the first directory.
OpenOutput(t) ==
  /\ csv' = [csv EXCEPT ![t] = <<>>]
  /\ ReadAudioFiles(t, 1)
  /\ pc' = "rows"
  /\ UNCHANGED <<todo, platform, exit>>

\* Mutant of AfterFailure: a script without set -e.
GoOn(t) == OpenOutput(t)

\* set -e: a failed command is the end of the script.
AfterFailure(t) == csv' = csv /\ Ends("failed")

\* The directories are emptied and IosDataConversionScript fills them, or
\* fails on the way; then ConversionScript starts.
ConvertCapture ==
  LET t == Head(todo) IN
  /\ pc = "loop" /\ todo # <<>>
  /\ \/ /\ capture[t].regular
        /\ dirs' = [dirs EXCEPT ![t] = capture[t].frames]
        /\ OpenOutput(t)
     \/ /\ ~capture[t].regular
        /\ \E written \in SUBSET capture[t].frames :
             dirs' = [dirs EXCEPT ![t] = written]
        /\ AfterFailure(t)
  /\ UNCHANGED <<capture, shuffled, testing, training, trained, history>>

\* Mutant of Label: volume-down frames under the name of volume-up ones.
LabelTwo(f) == IF f.class = 3 THEN 3 ELSE 1

Label(f) == f.class

\* extractFeatures and writeToCSVFile, with a flush after every line.
WriteRow ==
  LET t == Head(todo) IN
  /\ pc = "rows"
  /\ \E f \in left :
       /\ f.whole
       /\ csv' = [csv EXCEPT ![t] = Append(@, [label |-> Label(f), frame |-> f])]
       /\ left' = left \ {f}
  /\ UNCHANGED <<capture, dirs, shuffled, testing, training, pc, todo, class, platform,
                 exit, trained, history>>

\* The assertions on the size of a frame, in ConversionScript or Frontend.
AssertFrame ==
  /\ pc = "rows"
  /\ \E f \in left : ~f.whole
  /\ Ends("failed")
  /\ UNCHANGED <<files, trained, history>>

\* Mutant of NextClass: one directory too many.
NextClassMore == class <= 3

NextClass == class < 3

NextDirectory ==
  /\ pc = "rows" /\ left = {}
  /\ IF NextClass
       THEN /\ dirs' = dirs /\ ReadAudioFiles(Head(todo), class + 1)
            /\ UNCHANGED <<pc, todo>>
       ELSE /\ IF Tail(todo) = <<>>
                 THEN pc' = "cat" /\ todo' = SetsOf["Ios"]
                 ELSE pc' = "loop" /\ todo' = Tail(todo)
            /\ class' = 1
            /\ UNCHANGED <<dirs, left>>
  /\ UNCHANGED <<capture, csv, shuffled, testing, training, platform, exit, trained, history>>

\* cat goes through the files of the platform.
CatFile ==
  /\ pc = "cat" /\ todo # <<>>
  /\ shuffled' = shuffled \o csv[Head(todo)]
  /\ todo' = Tail(todo)
  /\ UNCHANGED <<capture, dirs, csv, testing, training, pc, class, left, platform, exit,
                 trained, history>>

\* All orders of n lines, as a set that is enumerated once.
Orders == [n \in 0..MaxLines |-> {order : order \in Injection(1..n, 1..n)}]

\* shuf has read them all.
Shuffle ==
  /\ pc = "cat" /\ todo = <<>> /\ Len(shuffled) <= MaxLines
  /\ \E order \in Orders[Len(shuffled)] :
       shuffled' = [i \in DOMAIN shuffled |-> shuffled[order[i]]]
  /\ pc' = "head"
  /\ UNCHANGED <<capture, dirs, csv, testing, training, todo, class, left, platform, exit,
                 trained, history>>

SplitPoint == Len(shuffled) \div Share

\* Mutants of TailLines: one line less, and one more.
TailShort == SubSeq(shuffled, SplitPoint + 2, Len(shuffled))
TailLong == IF SplitPoint = 0 THEN shuffled ELSE SubSeq(shuffled, SplitPoint, Len(shuffled))

HeadLines == SubSeq(shuffled, 1, SplitPoint)
TailLines == SubSeq(shuffled, SplitPoint + 1, Len(shuffled))

SplitHead ==
  /\ pc = "head"
  /\ testing' = [testing EXCEPT ![platform] = ToSet(HeadLines)]
  /\ cut' = cut \cup {platform}
  /\ pc' = "tail"
  /\ UNCHANGED <<capture, dirs, csv, shuffled, training, todo, class, left, platform, exit,
                 trained, source, runs, kills>>

SplitTail ==
  /\ pc = "tail"
  /\ training' = [training EXCEPT ![platform] = ToSet(TailLines)]
  /\ cut' = cut \ {platform}
  /\ shuffled' = <<>>
  /\ IF platform = "Ios"
       THEN /\ platform' = "Android" /\ pc' = "cat" /\ todo' = SetsOf["Android"]
            /\ UNCHANGED <<class, left, exit>>
       ELSE Ends("ok")
  /\ UNCHANGED <<capture, dirs, csv, testing, trained, source, runs, kills>>

\* The script is killed before its next step, or in the midst of head or
\* tail, whose output then has only its first lines.
Kill ==
  /\ pc # "idle" /\ kills < MaxKills
  /\ kills' = kills + 1
  /\ Ends("killed")
  /\ shuffled' = <<>>
  /\ \/ UNCHANGED <<testing, training, cut>>
     \/ /\ pc = "head"
        /\ \E k \in 0..Len(HeadLines) :
             testing' = [testing EXCEPT ![platform] = ToSet(SubSeq(HeadLines, 1, k))]
        /\ cut' = cut \cup {platform}
        /\ UNCHANGED training
     \/ /\ pc = "tail"
        /\ \E k \in 0..Len(TailLines) :
             training' = [training EXCEPT ![platform] = ToSet(SubSeq(TailLines, 1, k))]
        /\ UNCHANGED <<testing, cut>>
  /\ UNCHANGED <<capture, dirs, csv, trained, source, runs>>

-----------------------------------------------------------------------------
\* Other captures are put in the data directories.
Capture ==
  /\ pc = "idle"
  /\ capture' \in Captures \ {capture}
  /\ UNCHANGED <<dirs, csv, shuffled, testing, training, pc, todo, class, left, platform,
                 exit, trained, history>>

\* data_read: a file there is, with a line to take the number of features
\* from.
CanRead(file) == file # {}

\* data_priors divides by the number of lines of each class.
HasPriors(file) == \A c \in Class : \E line \in file : line.label = c

\* simple.py, up to its endless training.
Train ==
  /\ pc = "idle" /\ trained = "no"
  /\ trained' = IF /\ \A p \in Platform : CanRead(training[p]) /\ CanRead(testing[p])
                   /\ \A p \in Platform : HasPriors(training[p])
                THEN "started" ELSE "failed"
  /\ UNCHANGED <<files, pc, todo, class, left, platform, exit, history>>

Next ==
  \/ Start \/ Make \/ ConvertCapture \/ WriteRow \/ AssertFrame \/ NextDirectory
  \/ CatFile \/ Shuffle \/ SplitHead \/ SplitTail \/ Kill \/ Capture \/ Train

Spec == Init /\ [][Next]_vars

-----------------------------------------------------------------------------
(***************************************************************************)
(* Properties.                                                             *)
(***************************************************************************)

\* The declared types; the .raw files of a set are frames of its own.
TypeOK ==
  /\ capture \in Captures /\ source \in Captures
  /\ dirs \in [DataSet -> SUBSET Frame]
  /\ \A t \in DataSet : \A f \in dirs[t] : f.set = t
  /\ csv \in [DataSet -> {null} \cup Seq(Line)]
  /\ shuffled \in Seq(Line)
  /\ testing \in [Platform -> SUBSET Line] /\ training \in [Platform -> SUBSET Line]
  /\ pc \in {"idle", "make", "loop", "rows", "cat", "head", "tail"}
  /\ ToSet(todo) \subseteq DataSet
  /\ class \in Class
  /\ left # {} => todo # <<>> /\ left \subseteq dirs[Head(todo)]
  /\ platform \in Platform /\ cut \subseteq Platform
  /\ exit \in {"none", "ok", "failed", "killed"}
  /\ trained \in {"no", "failed", "started"}
  /\ runs \in 0..MaxRuns /\ kills \in 0..MaxKills

\* The lines the captures a run began with stand for.
LinesOf(p) ==
  {[label |-> f.class, frame |-> f] : f \in UNION {source[t].frames : t \in ToSet(SetsOf[p])}}

\* A run that ends well has put each frame of the captures it began with
\* under its own class into one of the two files, a tenth of them (rounded
\* down) for testing, and nothing else: nothing of a file that is left from
\* runs that failed or were killed, and no capture that could not be
\* converted is missing without notice.
SplitIsExact ==
  exit = "ok" => \A p \in Platform :
    /\ testing[p] \cup training[p] = LinesOf(p)
    /\ testing[p] \cap training[p] = {}
    /\ Cardinality(testing[p]) = Cardinality(LinesOf(p)) \div Share

\* However many runs fail and are killed: no line is in both files of a
\* platform, so that the accuracy simple.py prints is of frames it has not
\* been trained with, except after a run that was killed between the
\* beginning of head and the end of tail and until one has got past there
\* again.
TestIsUnseen ==
  \A p \in Platform : p \notin cut => testing[p] \cap training[p] = {}

Ample(p) ==
  LET total == Cardinality(LinesOf(p)) IN
  /\ total >= Share
  /\ \A c \in Class : Cardinality({l \in LinesOf(p) : l.label = c}) > total \div Share

\* When each class has more frames than are taken for testing, and one is
\* taken at all, simple.py can read what a successful run leaves however the
\* lines were shuffled: no file is empty and no class has vanished from the
\* training files, where it would divide by zero.
EnoughIsUsable ==
  exit = "ok" => \A p \in Platform :
    Ample(p) => CanRead(testing[p]) /\ CanRead(training[p]) /\ HasPriors(training[p])
=============================================================================
