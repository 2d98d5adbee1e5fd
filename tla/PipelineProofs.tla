--------------------------- MODULE PipelineProofs ---------------------------
(***************************************************************************)
(* Proofs about Pipeline for any data sets, captures, share and number of  *)
(* runs and kills: its types and what the four files hold.  The inductive  *)
(* invariant follows the lines on their way: from the directories of a set *)
(* into its CSV file, from the CSV files of a platform into one sequence,  *)
(* and from there into two files; at each point a sequence lists a set of  *)
(* lines, each of them once.                                               *)
(***************************************************************************)
EXTENDS Pipeline, SequenceTheorems, FiniteSetTheorems, TLAPS

(***************************************************************************)
(* The inductive invariant.                                                *)
(***************************************************************************)

\* The lines of a set of frames, and s lists S: each element once.
FrameLines(F) == {[label |-> f.class, frame |-> f] : f \in F}
Lists(s, S) == s \in Seq(Line) /\ IsInjective(s) /\ ToSet(s) = S

SetLines(t) == FrameLines(source[t].frames)
LinesOfSets(T) == UNION {SetLines(t) : t \in T}

Sets(p) == ToSet(SetsOf[p])

\* What SplitIsExact says of one platform.
Exact(p) ==
  /\ testing[p] \cup training[p] = LinesOf(p)
  /\ testing[p] \cap training[p] = {}
  /\ Cardinality(testing[p]) = Cardinality(LinesOf(p)) \div Share

\* The captures stay as they are while the script runs.
Running == pc # "idle" => exit = "none" /\ capture = source

\* The files of the sets the loop has behind it are complete.
Looping ==
  pc \in {"loop", "rows"} =>
    /\ todo # <<>> /\ todo \in Seq(DataSet) /\ IsInjective(todo)
    /\ \A t \in DataSet \ ToSet(todo) : Lists(csv[t], SetLines(t))

\* The file of the set under way has the lines of what was read of it.
Converting ==
  pc = "rows" =>
    LET t == Head(todo)
        done == {f \in source[t].frames : f.class <= class /\ f \notin left}
    IN  /\ dirs[t] = source[t].frames
        /\ left \subseteq {f \in source[t].frames : f.class = class}
        /\ Lists(csv[t], FrameLines(done))

Converted == pc \in {"cat", "head", "tail"} => \A t \in DataSet : Lists(csv[t], SetLines(t))

\* cat has read the files of the sets it has behind it.
Gathering ==
  pc = "cat" =>
    /\ todo \in Seq(DataSet) /\ IsInjective(todo) /\ ToSet(todo) \subseteq Sets(platform)
    /\ Lists(shuffled, LinesOfSets(Sets(platform) \ ToSet(todo)))

Splitting ==
  /\ pc \in {"head", "tail"} => todo = <<>> /\ Lists(shuffled, LinesOf(platform))
  /\ pc = "tail" => testing[platform] = ToSet(HeadLines) /\ platform \in cut

\* The iPhone's files are made first.
InTurn == platform = "Android" => pc \in {"cat", "head", "tail"} /\ Exact("Ios")

\* What is in use at which point.
Resting ==
  /\ pc # "rows" => left = {}
  /\ pc \in {"idle", "make"} => todo = <<>>
  /\ pc \in {"idle", "make", "loop", "rows"} => platform = "Ios" /\ shuffled = <<>>

IInv ==
  /\ TypeOK /\ Running /\ Looping /\ Converting /\ Converted /\ Gathering
  /\ Splitting /\ InTurn /\ Resting /\ TestIsUnseen /\ SplitIsExact

(***************************************************************************)
(* Sequences without duplicates.                                           *)
(***************************************************************************)

\* A new element is appended.
LEMMA ListsAppend ==
  ASSUME NEW s, NEW S, Lists(s, S), NEW x \in Line, x \notin S
  PROVE  Lists(Append(s, x), S \cup {x})
<1> DEFINE t == Append(s, x)
<1>1. /\ s \in Seq(Line) /\ t \in Seq(Line)
      /\ Len(s) \in Nat /\ DOMAIN s = 1..Len(s) /\ DOMAIN t = 1..(Len(s) + 1)
      /\ \A i \in 1..Len(s) : t[i] = s[i]
      /\ t[Len(s) + 1] = x
  BY DEF Lists
<1>2. \A i \in DOMAIN s : s[i] # x
  BY DEF Lists, ToSet
<1>3. IsInjective(t)
  <2> SUFFICES ASSUME NEW i \in DOMAIN t, NEW j \in DOMAIN t, t[i] = t[j]
               PROVE  i = j
    BY Zenon DEF IsInjective
  <2> QED
    BY <1>1, <1>2 DEF Lists, IsInjective
<1>4. ToSet(t) = S \cup {x}
  BY <1>1 DEF Lists, ToSet
<1> QED
  BY <1>1, <1>3, <1>4 DEF Lists

\* Two sequences of different things, one behind the other.
LEMMA DistinctConcat ==
  ASSUME NEW T, NEW s \in Seq(T), NEW r \in Seq(T), IsInjective(s), IsInjective(r),
         ToSet(s) \cap ToSet(r) = {}
  PROVE  /\ s \o r \in Seq(T) /\ IsInjective(s \o r)
         /\ ToSet(s \o r) = ToSet(s) \cup ToSet(r)
<1> DEFINE t == s \o r
<1>1. /\ t \in Seq(T) /\ Len(t) = Len(s) + Len(r)
      /\ \A i \in 1..(Len(s) + Len(r)) : t[i] = IF i <= Len(s) THEN s[i] ELSE r[i - Len(s)]
  BY ConcatProperties
<1>2. /\ Len(s) \in Nat /\ Len(r) \in Nat
      /\ DOMAIN s = 1..Len(s) /\ DOMAIN r = 1..Len(r) /\ DOMAIN t = 1..(Len(s) + Len(r))
  BY <1>1, LenProperties
<1>3. \A i \in DOMAIN s, j \in DOMAIN r : s[i] # r[j]
  BY DEF ToSet
<1>4. /\ \A i \in 1..Len(s) : i \in DOMAIN t /\ t[i] = s[i]
      /\ \A i \in 1..Len(r) : Len(s) + i \in DOMAIN t /\ t[Len(s) + i] = r[i]
      /\ \A i \in DOMAIN t : i \in 1..Len(s) \/ (i - Len(s) \in 1..Len(r) /\ t[i] = r[i - Len(s)])
  BY <1>1, <1>2
<1> HIDE DEF t
<1>5. IsInjective(t)
  <2> SUFFICES ASSUME NEW i \in DOMAIN t, NEW j \in DOMAIN t, t[i] = t[j]
               PROVE  i = j
    BY Zenon DEF IsInjective
  <2> QED
    BY <1>2, <1>3, <1>4 DEF IsInjective
<1>6. ToSet(t) \subseteq ToSet(s) \cup ToSet(r)
  BY <1>2, <1>4 DEF ToSet
<1>7. ToSet(s) \subseteq ToSet(t)
  BY <1>2, <1>4 DEF ToSet
<1>8. ToSet(r) \subseteq ToSet(t)
  <2>1. \A i \in DOMAIN r : r[i] \in ToSet(t)
    BY <1>2, <1>4 DEF ToSet
  <2> QED
    BY <2>1 DEF ToSet
<1> QED
  BY <1>1, <1>5, <1>6, <1>7, <1>8 DEF t

\* A list in another order lists the same.
LEMMA ListsPermuted ==
  ASSUME NEW s, NEW S, Lists(s, S), NEW order \in Injection(1..Len(s), 1..Len(s))
  PROVE  Lists([i \in DOMAIN s |-> s[order[i]]], S)
<1> DEFINE D == DOMAIN s
           t == [i \in D |-> s[order[i]]]
<1>1. s \in Seq(Line) /\ Len(s) \in Nat /\ D = 1..Len(s) /\ IsFiniteSet(D)
  BY LenProperties, FS_Interval DEF Lists
<1>2. order \in Injection(D, D)
  BY <1>1
<1>3. order \in Surjection(D, D)
  BY <1>1, <1>2, FS_Injection
<1>4. t \in Seq(Line)
  <2>1. \A i \in D : s[order[i]] \in Line
    BY <1>1, <1>2, ElementOfSeq DEF Injection
  <2> QED
    BY <1>1, <2>1
<1>5. IsInjective(t)
  <2> SUFFICES ASSUME NEW i \in D, NEW j \in D, t[i] = t[j]
               PROVE  i = j
    BY Zenon DEF IsInjective
  <2> QED
    BY <1>2, <1>3 DEF Lists, IsInjective, Injection, Surjection
<1>6. ToSet(t) = ToSet(s)
  <2>1. order \in [D -> D] /\ \A i \in D : \E j \in D : order[j] = i
    BY <1>3 DEF Surjection
  <2>2. DOMAIN t = D /\ \A j \in D : t[j] = s[order[j]]
    OBVIOUS
  <2>3. \A i \in D : \E j \in DOMAIN t : t[j] = s[i]
    BY <2>1, <2>2
  <2>4. \A j \in DOMAIN t : \E i \in D : t[j] = s[i]
    BY <2>1, <2>2
  <2> HIDE DEF t
  <2> QED
    BY <2>3, <2>4 DEF ToSet
<1> QED
  BY <1>4, <1>5, <1>6 DEF Lists

\* What is behind the head.
LEMMA TailOfDistinct ==
  ASSUME NEW T, NEW s \in Seq(T), s # <<>>, IsInjective(s)
  PROVE  /\ Tail(s) \in Seq(T) /\ IsInjective(Tail(s))
         /\ Head(s) \in T /\ Head(s) \in ToSet(s)
         /\ ToSet(Tail(s)) = ToSet(s) \ {Head(s)}
<1> DEFINE t == Tail(s)
<1>1. /\ t \in Seq(T) /\ Len(s) \in Nat \ {0} /\ DOMAIN s = 1..Len(s)
      /\ DOMAIN t = 1..(Len(s) - 1)
      /\ \A i \in DOMAIN t : t[i] = s[i + 1]
      /\ Head(s) = s[1] /\ 1 \in DOMAIN s /\ s[1] \in T
  OBVIOUS
<1>2. IsInjective(t)
  <2> SUFFICES ASSUME NEW i \in DOMAIN t, NEW j \in DOMAIN t, t[i] = t[j]
               PROVE  i = j
    BY Zenon DEF IsInjective
  <2> QED
    BY <1>1 DEF IsInjective
<1>3. ToSet(t) = ToSet(s) \ {Head(s)}
  <2>1. \A i \in DOMAIN s : i # 1 => s[i] # s[1] /\ i - 1 \in DOMAIN t /\ t[i - 1] = s[i]
    BY <1>1 DEF IsInjective
  <2>2. \A i \in DOMAIN t : i + 1 \in DOMAIN s /\ i + 1 # 1
    BY <1>1
  <2>3. \A i \in DOMAIN t : t[i] \in ToSet(s) /\ t[i] # s[1]
    BY <1>1, <2>2 DEF ToSet, IsInjective
  <2>4. \A i \in DOMAIN s : s[i] # s[1] => s[i] \in ToSet(t)
    BY <2>1 DEF ToSet
  <2> HIDE DEF t
  <2> QED
    BY <1>1, <2>3, <2>4 DEF ToSet
<1> QED
  BY <1>1, <1>2, <1>3 DEF ToSet

\* A list has as many elements as the set.
LEMMA ListsCardinality ==
  ASSUME NEW s, NEW S, Lists(s, S)
  PROVE  IsFiniteSet(S) /\ Cardinality(S) = Len(s) /\ Len(s) \in Nat
<1>1. s \in Seq(Line) /\ Len(s) \in Nat /\ DOMAIN s = 1..Len(s)
  BY LenProperties DEF Lists
<1>2. s \in Bijection(1..Len(s), S)
  <2>1. s \in [1..Len(s) -> S]
    BY <1>1 DEF Lists, ToSet
  <2> QED
    BY <1>1, <2>1 DEF Lists, ToSet, Bijection, Injection, Surjection, IsInjective
<1>3. ExistsBijection(1..Len(s), S)
  BY <1>2 DEF ExistsBijection
<1> QED
  BY <1>1, <1>3, FS_CountingElements, FS_NatBijection

\* head and tail: the first k elements and the others.
LEMMA ListsCut ==
  ASSUME NEW s, NEW S, Lists(s, S), NEW k \in 0..Len(s)
  PROVE  LET A == ToSet(SubSeq(s, 1, k))
             B == ToSet(SubSeq(s, k + 1, Len(s)))
         IN  A \cup B = S /\ A \cap B = {} /\ Cardinality(A) = k
<1> DEFINE a == SubSeq(s, 1, k)
           b == SubSeq(s, k + 1, Len(s))
<1>1. s \in Seq(Line) /\ Len(s) \in Nat /\ DOMAIN s = 1..Len(s)
  BY LenProperties DEF Lists
<1>2. /\ a \in Seq(Line) /\ Len(a) = k /\ DOMAIN a = 1..k
      /\ \A i \in 1..k : a[i] = s[i]
  BY <1>1
<1>3. /\ b \in Seq(Line) /\ DOMAIN b = 1..(Len(s) - k)
      /\ \A i \in 1..(Len(s) - k) : b[i] = s[k + i]
  BY <1>1
<1>4. Lists(a, ToSet(a))
  <2>1. IsInjective(a)
    BY <1>1, <1>2 DEF Lists, IsInjective
  <2> QED
    BY <1>2, <2>1 DEF Lists
<1>5. Cardinality(ToSet(a)) = k
  BY <1>2, <1>4, ListsCardinality
<1>6. ToSet(a) \cap ToSet(b) = {}
  BY <1>1, <1>2, <1>3 DEF Lists, IsInjective, ToSet
<1>7. ToSet(a) \cup ToSet(b) = S
  <2>1. ToSet(a) \cup ToSet(b) \subseteq ToSet(s)
    BY <1>1, <1>2, <1>3 DEF ToSet
  <2>2. ASSUME NEW i \in DOMAIN s PROVE s[i] \in ToSet(a) \cup ToSet(b)
    <3>1. CASE i <= k
      BY <1>1, <1>2, <3>1 DEF ToSet
    <3>2. CASE i > k
      <4>1. i - k \in DOMAIN b /\ b[i - k] = s[i]
        BY <1>1, <1>3, <3>2
      <4> QED
        BY <4>1 DEF ToSet
    <3> QED
      BY <1>1, <3>1, <3>2
  <2>3. ToSet(s) = S
    BY DEF Lists
  <2> QED
    BY <2>1, <2>2, <2>3 DEF ToSet
<1> QED
  BY <1>5, <1>6, <1>7

(***************************************************************************)
(* Frames and their lines.                                                 *)
(***************************************************************************)

\* The sets of the two platforms.
LEMMA SetsType ==
  /\ \A p \in Platform :
       /\ SetsOf[p] \in Seq(DataSet) /\ SetsOf[p] # <<>> /\ IsInjective(SetsOf[p])
       /\ Sets(p) \subseteq DataSet
  /\ Sets("Ios") \cap Sets("Android") = {}
  /\ Sets("Ios") \cup Sets("Android") = DataSet
  /\ "Ios" \in Platform /\ "Android" \in Platform
BY PipelineAssumption DEF Platform, Sets, DataSet

\* What a capture has in the directory of a set.
LEMMA FrameType ==
  ASSUME NEW c \in Captures, NEW t \in DataSet, NEW f \in c[t].frames
  PROVE  /\ f \in Frame /\ f.class \in Class /\ f.set = t
         /\ [label |-> f.class, frame |-> f] \in Line
<1>1. f.class \in Class /\ f.set = t
  BY PipelineAssumption
<1>2. f \in Frame
  BY DEF Frame
<1> QED
  BY <1>1, <1>2 DEF Line

\* Different sets have different lines.
LEMMA LinesDisjoint ==
  ASSUME source \in Captures, NEW T \in SUBSET DataSet, NEW t \in DataSet \ T
  PROVE  SetLines(t) \cap LinesOfSets(T) = {}
<1> SUFFICES ASSUME NEW u \in T, NEW x \in SetLines(t), x \in SetLines(u)
             PROVE  FALSE
  BY DEF LinesOfSets
<1>1. PICK f \in source[t].frames : x = [label |-> f.class, frame |-> f]
  BY DEF SetLines, FrameLines
<1>2. PICK g \in source[u].frames : x = [label |-> g.class, frame |-> g]
  BY DEF SetLines, FrameLines
<1>3. f = g
  BY <1>1, <1>2
<1>4. f.set = t
  BY FrameType
<1>5. g.set = u
  BY FrameType
<1> QED
  BY <1>3, <1>4, <1>5

\* One more set.
LEMMA LinesOfMore ==
  ASSUME NEW T, NEW U, NEW t, U = T \cup {t}
  PROVE  LinesOfSets(U) = LinesOfSets(T) \cup SetLines(t)
BY DEF LinesOfSets

\* The lines of a platform are those of its sets.
LEMMA LinesOfPlatform ==
  ASSUME NEW p
  PROVE  LinesOf(p) = LinesOfSets(Sets(p))
BY DEF LinesOf, LinesOfSets, SetLines, FrameLines, Sets

\* What is said of a run's lines stays true with the captures it began with.
LEMMA SameSource ==
  ASSUME source' = source
  PROVE  /\ \A t : SetLines(t)' = SetLines(t)
         /\ \A T : LinesOfSets(T)' = LinesOfSets(T)
         /\ \A p : LinesOf(p)' = LinesOf(p)
BY DEF SetLines, LinesOfSets, LinesOf

\* The place of the cut.
LEMMA ShareOf ==
  ASSUME NEW k \in Nat
  PROVE  k \div Share \in 0..k
BY PipelineAssumption

(***************************************************************************)
(* The steps.                                                              *)
(***************************************************************************)

\* No file is there yet.
LEMMA InitInv == Init => IInv
<1> SUFFICES ASSUME Init PROVE IInv
  OBVIOUS
<1>1. TypeOK
  BY PipelineAssumption, EmptySeq DEF Init, TypeOK, Class, Platform, ToSet
<1>2. Running /\ Looping /\ Converting /\ Converted /\ Gathering /\ Splitting /\ InTurn /\ Resting
  BY DEF Init, Running, Looping, Converting, Converted, Gathering, Splitting, InTurn, Resting
<1>3. TestIsUnseen /\ SplitIsExact
  BY DEF Init, TestIsUnseen, SplitIsExact
<1> QED
  BY <1>1, <1>2, <1>3 DEF IInv

\* The invariant is kept when a run begins with the captures there are,
LEMMA StartInv ==
  ASSUME IInv, Start
  PROVE  IInv'
<1> USE DEF IInv
<1>1. TypeOK'
  BY PipelineAssumption DEF TypeOK, Start, files, Resting
<1>2. /\ Running' /\ Looping' /\ Converting' /\ Converted'
      /\ Gathering' /\ Splitting' /\ InTurn' /\ Resting'
  BY DEF Start, files, Running, Looping, Converting, Converted, Gathering, Splitting,
         InTurn, Resting
<1>3. TestIsUnseen' /\ SplitIsExact'
  BY DEF Start, files, TestIsUnseen, SplitIsExact
<1> QED
  BY <1>1, <1>2, <1>3

\* The process ends, and nothing it has split is called a success.
LEMMA EndsInv ==
  ASSUME IInv, NEW status \in {"failed", "killed"}, Ends(status),
         UNCHANGED <<capture, source, runs>>, kills' \in 0..MaxKills,
         trained' = trained, shuffled' = <<>>,
         dirs' \in [DataSet -> SUBSET Frame], \A t \in DataSet : \A f \in dirs'[t] : f.set = t,
         csv' \in [DataSet -> {null} \cup Seq(Line)],
         testing' \in [Platform -> SUBSET Line],
         training' \in [Platform -> SUBSET Line],
         cut' \subseteq Platform, TestIsUnseen'
  PROVE  IInv'
<1> USE DEF IInv
<1>1. TypeOK'
  <2>1. shuffled' \in Seq(Line) /\ ToSet(todo') \subseteq DataSet
    BY EmptySeq DEF Ends, ToSet
  <2> QED
    BY <2>1 DEF TypeOK, Ends, Class, Platform
<1>2. /\ Running' /\ Looping' /\ Converting' /\ Converted'
      /\ Gathering' /\ Splitting' /\ InTurn' /\ Resting'
  BY DEF Ends, Running, Looping, Converting, Converted, Gathering, Splitting, InTurn, Resting
<1>3. SplitIsExact'
  BY DEF Ends, SplitIsExact
<1> QED
  BY <1>1, <1>2, <1>3

\* make builds the converter or fails,
LEMMA MakeInv ==
  ASSUME IInv, Make
  PROVE  IInv'
<1> USE DEF IInv
<1>1. CASE Ends("failed")
  <2>1. TestIsUnseen'
    BY DEF Make, files, history, TestIsUnseen
  <2> QED
    BY <1>1, <2>1, EndsInv DEF Make, files, history, TypeOK, Resting
<1>2. CASE /\ pc' = "loop"
           /\ todo' = SetsOf["Ios"] \o SetsOf["Android"]
           /\ UNCHANGED <<class, left, platform, exit>>
  <2>1. todo' \in Seq(DataSet) /\ todo' # <<>>
    BY <1>2, SetsType, ConcatProperties, EmptySeq
  <2>2. IsInjective(todo') /\ ToSet(todo') = DataSet
    BY <1>2, SetsType, DistinctConcat DEF Sets
  <2>3. TypeOK'
    BY <1>2, <2>2 DEF Make, files, history, TypeOK, Resting
  <2>4. /\ Running' /\ Looping' /\ Converting' /\ Converted'
        /\ Gathering' /\ Splitting' /\ InTurn' /\ Resting'
    BY <1>2, <2>1, <2>2 DEF Make, files, history, Running, Looping, Converting, Converted,
       Gathering, Splitting, InTurn, Resting
  <2>5. TestIsUnseen' /\ SplitIsExact'
    BY <1>2 DEF Make, files, history, TestIsUnseen, SplitIsExact, Running
  <2> QED
    BY <2>1, <2>2, <2>3, <2>4, <2>5
<1> QED
  BY <1>1, <1>2 DEF Make

\* the converter rejects a frame,
LEMMA AssertFrameInv ==
  ASSUME IInv, AssertFrame
  PROVE  IInv'
<1> USE DEF IInv
<1>1. TestIsUnseen'
  BY DEF AssertFrame, files, history, TestIsUnseen
<1> QED
  BY <1>1, EndsInv DEF AssertFrame, files, history, TypeOK, Resting

\* a capture is cut,
LEMMA ConvertCaptureInv ==
  ASSUME IInv, ConvertCapture
  PROVE  IInv'
<1> USE DEF IInv
<1> DEFINE t == Head(todo)
<1>1. /\ pc = "loop" /\ todo # <<>> /\ todo \in Seq(DataSet) /\ IsInjective(todo)
      /\ t \in DataSet /\ t \in ToSet(todo)
      /\ platform = "Ios" /\ shuffled = <<>> /\ exit = "none" /\ capture = source
      /\ UNCHANGED <<capture, shuffled, testing, training, trained, history>>
  BY TailOfDistinct DEF ConvertCapture, Looping, Running, Resting
<1>2. capture[t].frames \in SUBSET Frame /\ \A f \in capture[t].frames : f.set = t /\ f.class \in Class
  <2>1. ASSUME NEW f \in capture[t].frames
        PROVE  f \in Frame /\ f.set = t /\ f.class \in Class
    BY <1>1, FrameType DEF TypeOK
  <2> QED
    BY <2>1
<1>3. TestIsUnseen'
  BY <1>1 DEF history, TestIsUnseen
<1>4. CASE ~capture[t].regular
  <2>1. PICK written \in SUBSET capture[t].frames :
          dirs' = [dirs EXCEPT ![t] = written] /\ AfterFailure(t)
    BY <1>4 DEF ConvertCapture
  <2>2. dirs' \in [DataSet -> SUBSET Frame] /\ \A u \in DataSet : \A f \in dirs'[u] : f.set = u
    BY <1>1, <1>2, <2>1 DEF TypeOK
  <2> QED
    BY <1>1, <1>3, <2>1, <2>2, EndsInv DEF AfterFailure, history, TypeOK
<1>5. CASE capture[t].regular
  <2>1. /\ dirs' = [dirs EXCEPT ![t] = capture[t].frames]
        /\ csv' = [csv EXCEPT ![t] = <<>>]
        /\ class' = 1 /\ left' = {f \in dirs'[t] : f.class = 1}
        /\ pc' = "rows" /\ UNCHANGED <<todo, platform, exit>>
    BY <1>5 DEF ConvertCapture, OpenOutput, ReadAudioFiles
  <2>2. /\ dirs' \in [DataSet -> SUBSET Frame] /\ \A u \in DataSet : \A f \in dirs'[u] : f.set = u
        /\ dirs'[t] = source[t].frames
    BY <1>1, <1>2, <2>1 DEF TypeOK
  <2>3. csv' \in [DataSet -> {null} \cup Seq(Line)] /\ csv'[t] = <<>>
    BY <1>1, <2>1, EmptySeq DEF TypeOK
  <2>4. TypeOK'
    BY <1>1, <2>1, <2>2, <2>3 DEF TypeOK, history, Class
  <2>5. Looping'
    <3>1. \A u \in DataSet \ ToSet(todo) : csv'[u] = csv[u] /\ Lists(csv[u], SetLines(u))
      BY <1>1, <2>1 DEF Looping, TypeOK
    <3> QED
      BY <1>1, <2>1, <3>1, SameSource DEF Looping, history
  <2>6. Converting'
    <3> DEFINE done == {f \in source'[t].frames : f.class <= class' /\ f \notin left'}
    <3>1. \A f \in source[t].frames : f.class <= 1 => f.class = 1
      BY <1>1, <1>2 DEF Class
    <3>2. done = {}
      BY <1>1, <2>1, <2>2, <3>1 DEF history
    <3>3. Lists(<<>>, {})
      BY EmptySeq DEF Lists, IsInjective, ToSet
    <3>4. FrameLines({}) = {}
      BY DEF FrameLines
    <3>5. Lists(csv'[t], FrameLines(done))
      BY <2>3, <3>2, <3>3, <3>4
    <3> QED
      BY <1>1, <2>1, <2>2, <3>5 DEF Converting, history
  <2>7. Running' /\ Converted' /\ Gathering' /\ Splitting' /\ InTurn' /\ Resting'
    BY <1>1, <2>1 DEF Running, Converted, Gathering, Splitting, InTurn, Resting, history
  <2>8. SplitIsExact'
    BY <1>1, <2>1 DEF SplitIsExact
  <2> QED
    BY <1>3, <2>4, <2>5, <2>6, <2>7, <2>8
<1> QED
  BY <1>4, <1>5

\* a frame becomes a line,
LEMMA WriteRowInv ==
  ASSUME IInv, WriteRow
  PROVE  IInv'
<1> USE DEF IInv
<1> DEFINE t == Head(todo)
           done == {f \in source[t].frames : f.class <= class /\ f \notin left}
<1>1. /\ pc = "rows" /\ todo # <<>> /\ todo \in Seq(DataSet) /\ IsInjective(todo)
      /\ t \in DataSet /\ t \in ToSet(todo)
      /\ platform = "Ios" /\ shuffled = <<>> /\ exit = "none" /\ capture = source
      /\ dirs[t] = source[t].frames
      /\ left \subseteq {f \in source[t].frames : f.class = class}
      /\ Lists(csv[t], FrameLines(done))
      /\ class \in 1..3
  BY TailOfDistinct DEF WriteRow, Looping, Running, Converting, Resting, TypeOK, Class
<1>2. PICK f \in left :
        /\ csv' = [csv EXCEPT ![t] = Append(@, [label |-> f.class, frame |-> f])]
        /\ left' = left \ {f}
        /\ UNCHANGED <<capture, dirs, shuffled, testing, training, pc, todo, class, platform,
                       exit, trained, history>>
  BY DEF WriteRow, Label
<1> DEFINE x == [label |-> f.class, frame |-> f]
           done1 == {g \in source[t].frames : g.class <= class /\ g \notin left \ {f}}
<1>3. f \in source[t].frames /\ f.class = class /\ x \in Line
  BY <1>1, <1>2, FrameType DEF TypeOK
<1>4. csv'[t] = Append(csv[t], x) /\ \A u \in DataSet : u # t => csv'[u] = csv[u]
  BY <1>1, <1>2 DEF TypeOK
<1>5. FrameLines(done1) = FrameLines(done) \cup {x} /\ x \notin FrameLines(done)
  <2>1. done1 = done \cup {f} /\ f \notin done
    BY <1>1, <1>2, <1>3
  <2> HIDE DEF done, done1
  <2> QED
    BY <2>1 DEF FrameLines
<1>6. Lists(csv'[t], FrameLines(done1))
  <2> HIDE DEF done, done1, x
  <2> QED
    BY <1>1, <1>3, <1>4, <1>5, ListsAppend
<1>7. csv' \in [DataSet -> {null} \cup Seq(Line)]
  BY <1>1, <1>2, <1>4, <1>6 DEF TypeOK, Lists
<1>8. TypeOK'
  BY <1>1, <1>2, <1>7 DEF TypeOK, history
<1>9. Looping'
  <2>1. \A u \in DataSet \ ToSet(todo) : csv'[u] = csv[u] /\ Lists(csv[u], SetLines(u))
    BY <1>1, <1>4 DEF Looping
  <2> QED
    BY <1>1, <1>2, <2>1, SameSource DEF Looping, history
<1>10. Converting'
  BY <1>1, <1>2, <1>6 DEF Converting, history
<1>11. Running' /\ Converted' /\ Gathering' /\ Splitting' /\ InTurn' /\ Resting'
  BY <1>1, <1>2 DEF Running, Converted, Gathering, Splitting, InTurn, Resting, history
<1>12. TestIsUnseen' /\ SplitIsExact'
  BY <1>1, <1>2 DEF TestIsUnseen, SplitIsExact, history
<1> QED
  BY <1>8, <1>9, <1>10, <1>11, <1>12

\* the converter turns to the next directory,
LEMMA NextDirectoryInv ==
  ASSUME IInv, NextDirectory
  PROVE  IInv'
<1> USE DEF IInv
<1> DEFINE t == Head(todo)
           done == {f \in source[t].frames : f.class <= class /\ f \notin left}
<1>1. /\ pc = "rows" /\ todo # <<>> /\ todo \in Seq(DataSet) /\ IsInjective(todo)
      /\ t \in DataSet /\ t \in ToSet(todo)
      /\ platform = "Ios" /\ shuffled = <<>> /\ exit = "none" /\ capture = source
      /\ dirs[t] = source[t].frames
      /\ left = {}
      /\ Lists(csv[t], FrameLines(done))
      /\ class \in 1..3
      /\ \A f \in source[t].frames : f.class \in 1..3
      /\ UNCHANGED <<capture, csv, shuffled, testing, training, platform, exit, trained, history, dirs>>
  BY TailOfDistinct, FrameType
     DEF NextDirectory, Looping, Running, Converting, Resting, TypeOK, Class, ReadAudioFiles
<1>2. TestIsUnseen' /\ SplitIsExact'
  BY <1>1 DEF TestIsUnseen, SplitIsExact, history
<1>3. CASE class < 3
  <2>1. /\ class' = class + 1 /\ left' = {f \in dirs[t] : f.class = class + 1}
        /\ UNCHANGED <<pc, todo>>
    BY <1>1, <1>3 DEF NextDirectory, NextClass, ReadAudioFiles
  <2>2. TypeOK'
    BY <1>1, <1>3, <2>1 DEF TypeOK, Class, history
  <2>3. Looping'
    BY <1>1, <2>1, SameSource DEF Looping, history
  <2>4. Converting'
    <3>1. {f \in source[t].frames : f.class <= class + 1 /\ f \notin left'} = done
      BY <1>1, <2>1
    <3> QED
      BY <1>1, <2>1, <3>1 DEF Converting, history
  <2>5. Running' /\ Converted' /\ Gathering' /\ Splitting' /\ InTurn' /\ Resting'
    BY <1>1, <2>1 DEF Running, Converted, Gathering, Splitting, InTurn, Resting, history
  <2> QED
    BY <1>2, <2>2, <2>3, <2>4, <2>5
<1>4. CASE ~(class < 3)
  <2>1. /\ class' = 1 /\ left' = {}
        /\ \/ Tail(todo) = <<>> /\ pc' = "cat" /\ todo' = SetsOf["Ios"]
           \/ Tail(todo) # <<>> /\ pc' = "loop" /\ todo' = Tail(todo)
    BY <1>1, <1>4 DEF NextDirectory, NextClass
  <2>2. \A u \in DataSet \ ToSet(Tail(todo)) : Lists(csv[u], SetLines(u))
    <3>1. done = source[t].frames
      BY <1>1, <1>4
    <3>2. Lists(csv[t], SetLines(t))
      BY <1>1, <3>1 DEF SetLines
    <3> QED
      BY <1>1, <3>2, TailOfDistinct DEF Looping
  <2>3. CASE Tail(todo) # <<>>
    <3>0. /\ todo' = Tail(todo) /\ pc' = "loop"
          /\ Tail(todo) \in Seq(DataSet) /\ IsInjective(Tail(todo))
          /\ ToSet(Tail(todo)) \subseteq DataSet
      <4>1. ToSet(todo) \subseteq DataSet
        BY DEF TypeOK
      <4> QED
        BY <1>1, <2>1, <2>3, <4>1, TailOfDistinct
    <3>1. TypeOK'
      BY <1>1, <2>1, <3>0 DEF TypeOK, Class, history
    <3>2. Looping'
      BY <1>1, <2>2, <2>3, <3>0, SameSource DEF Looping, history
    <3>3. Running' /\ Converting' /\ Converted' /\ Gathering' /\ Splitting' /\ InTurn' /\ Resting'
      BY <1>1, <2>1, <2>3
         DEF Running, Converting, Converted, Gathering, Splitting, InTurn, Resting, history
    <3> QED
      BY <1>2, <3>1, <3>2, <3>3
  <2>4. CASE Tail(todo) = <<>>
    <3>1. todo' \in Seq(DataSet) /\ IsInjective(todo') /\ ToSet(todo') = Sets("Ios")
          /\ Sets("Ios") \subseteq DataSet
      BY <2>1, <2>4, SetsType DEF Sets
    <3>2. TypeOK'
      BY <1>1, <2>1, <2>4, <3>1 DEF TypeOK, Class, history
    <3>3. Converted'
      <4>1. ToSet(Tail(todo)) = {}
        BY <2>4 DEF ToSet
      <4> QED
        BY <1>1, <2>2, <4>1, SameSource DEF Converted, history
    <3>4. Gathering'
      <4>1. Lists(<<>>, {}) /\ LinesOfSets({}) = {}
        BY EmptySeq DEF Lists, IsInjective, ToSet, LinesOfSets
      <4>2. LinesOfSets({})' = {}
        BY DEF LinesOfSets
      <4>3. Sets("Ios") \ ToSet(todo') = {}
        BY <3>1
      <4> QED
        BY <1>1, <3>1, <4>1, <4>2, <4>3 DEF Gathering
    <3>5. Running' /\ Looping' /\ Converting' /\ Splitting' /\ InTurn' /\ Resting'
      BY <1>1, <2>1, <2>4
         DEF Running, Looping, Converting, Splitting, InTurn, Resting, history
    <3> QED
      BY <1>2, <3>2, <3>3, <3>4, <3>5
  <2> QED
    BY <2>3, <2>4
<1> QED
  BY <1>3, <1>4

\* cat appends a file,
LEMMA CatFileInv ==
  ASSUME IInv, CatFile
  PROVE  IInv'
<1> USE DEF IInv
<1> DEFINE t == Head(todo)
           behind == Sets(platform) \ ToSet(todo)
<1>1. /\ pc = "cat" /\ todo # <<>> /\ todo \in Seq(DataSet) /\ IsInjective(todo)
      /\ ToSet(todo) \subseteq Sets(platform)
      /\ t \in DataSet /\ t \in ToSet(todo)
      /\ Tail(todo) \in Seq(DataSet) /\ IsInjective(Tail(todo))
      /\ ToSet(Tail(todo)) = ToSet(todo) \ {t}
      /\ exit = "none" /\ platform \in Platform
      /\ Lists(csv[t], SetLines(t)) /\ Lists(shuffled, LinesOfSets(behind))
      /\ shuffled' = shuffled \o csv[t] /\ todo' = Tail(todo)
      /\ UNCHANGED <<capture, dirs, csv, testing, training, pc, class, left, platform, exit,
                     trained, history>>
  BY TailOfDistinct DEF CatFile, Gathering, Converted, Running, TypeOK
<1>2. Sets(platform) \subseteq DataSet
  BY <1>1, SetsType
<1>3. Sets(platform) \ ToSet(Tail(todo)) = behind \cup {t}
  BY <1>1
<1>4. Lists(shuffled', LinesOfSets(Sets(platform) \ ToSet(Tail(todo))))
  <2>1. behind \in SUBSET DataSet /\ t \in DataSet \ behind /\ source \in Captures
    BY <1>1, <1>2 DEF TypeOK
  <2> HIDE DEF behind, t
  <2>2. SetLines(t) \cap LinesOfSets(behind) = {}
    BY <2>1, LinesDisjoint
  <2>3. LinesOfSets(Sets(platform) \ ToSet(Tail(todo))) = LinesOfSets(behind) \cup SetLines(t)
    BY <1>3, LinesOfMore
  <2>4. shuffled' \in Seq(Line) /\ IsInjective(shuffled')
        /\ ToSet(shuffled') = LinesOfSets(behind) \cup SetLines(t)
    BY <1>1, <2>2, DistinctConcat DEF Lists
  <2> QED
    BY <2>3, <2>4 DEF Lists
<1>5. TypeOK'
  <2>1. shuffled' \in Seq(Line)
    BY <1>4 DEF Lists
  <2>2. left = {} /\ ToSet(todo') \subseteq DataSet
    BY <1>1, <1>2 DEF Resting
  <2> QED
    BY <1>1, <2>1, <2>2 DEF TypeOK, history
<1>6. Gathering'
  BY <1>1, <1>4, SameSource DEF Gathering, history
<1>7. Converted'
  BY <1>1, SameSource DEF Converted, history
<1>8. InTurn'
  <2>1. Exact("Ios")' = Exact("Ios")
    BY <1>1, SameSource DEF Exact, history
  <2> QED
    BY <1>1, <2>1 DEF InTurn
<1>9. Running' /\ Looping' /\ Converting' /\ Splitting' /\ Resting'
  BY <1>1 DEF Running, Looping, Converting, Splitting, Resting, history
<1>10. TestIsUnseen' /\ SplitIsExact'
  BY <1>1 DEF TestIsUnseen, SplitIsExact, history
<1> QED
  BY <1>5, <1>6, <1>7, <1>8, <1>9, <1>10

\* shuf orders the lines,
LEMMA ShuffleInv ==
  ASSUME IInv, Shuffle
  PROVE  IInv'
<1> USE DEF IInv
<1>1. /\ pc = "cat" /\ todo = <<>> /\ pc' = "head" /\ exit = "none" /\ platform \in Platform
      /\ Lists(shuffled, LinesOfSets(Sets(platform) \ ToSet(todo)))
      /\ UNCHANGED <<capture, dirs, csv, testing, training, todo, class, left, platform, exit,
                     trained, history>>
  BY DEF Shuffle, Gathering, Running, TypeOK
<1>2. Lists(shuffled, LinesOf(platform))
  <2>1. Sets(platform) \ ToSet(todo) = Sets(platform)
    BY <1>1 DEF ToSet
  <2> QED
    BY <1>1, <2>1, LinesOfPlatform
<1>3. Lists(shuffled', LinesOf(platform))
  <2>1. Len(shuffled) \in 0..MaxLines
    BY <1>2, ListsCardinality, PipelineAssumption DEF Shuffle
  <2>2. Orders[Len(shuffled)] = Injection(1..Len(shuffled), 1..Len(shuffled))
    BY <2>1 DEF Orders
  <2>3. PICK order \in Injection(1..Len(shuffled), 1..Len(shuffled)) :
          shuffled' = [i \in DOMAIN shuffled |-> shuffled[order[i]]]
    BY <2>2 DEF Shuffle
  <2> QED
    BY <1>2, <2>3, ListsPermuted
<1>4. TypeOK'
  BY <1>1, <1>3 DEF TypeOK, Lists, history
<1>5. Splitting'
  BY <1>1, <1>3, SameSource DEF Splitting, history
<1>6. Converted'
  BY <1>1, SameSource DEF Converted, history
<1>7. InTurn'
  <2>1. Exact("Ios")' = Exact("Ios")
    BY <1>1, SameSource DEF Exact, history
  <2> QED
    BY <1>1, <2>1 DEF InTurn
<1>8. Running' /\ Looping' /\ Converting' /\ Gathering' /\ Resting'
  BY <1>1 DEF Running, Looping, Converting, Gathering, Resting, history
<1>9. TestIsUnseen' /\ SplitIsExact'
  BY <1>1 DEF TestIsUnseen, SplitIsExact, history
<1> QED
  BY <1>4, <1>5, <1>6, <1>7, <1>8, <1>9

\* The parts of the shuffled lines and the prefixes a kill may leave of them.
LEMMA Parts ==
  ASSUME IInv, pc \in {"head", "tail"}
  PROVE  /\ shuffled \in Seq(Line) /\ SplitPoint \in 0..Len(shuffled)
         /\ HeadLines \in Seq(Line) /\ TailLines \in Seq(Line)
         /\ ToSet(HeadLines) \subseteq Line /\ ToSet(TailLines) \subseteq Line
         /\ \A k \in 0..Len(HeadLines) : ToSet(SubSeq(HeadLines, 1, k)) \subseteq Line
         /\ \A k \in 0..Len(TailLines) : ToSet(SubSeq(TailLines, 1, k)) \subseteq Line
<1>1. shuffled \in Seq(Line) /\ Len(shuffled) \in Nat
  BY LenProperties DEF IInv, TypeOK
<1>2. SplitPoint \in 0..Len(shuffled)
  BY <1>1, ShareOf DEF SplitPoint
<1>3. HeadLines \in Seq(Line) /\ TailLines \in Seq(Line)
  BY <1>1, <1>2 DEF HeadLines, TailLines
<1>4. ASSUME NEW s \in Seq(Line)
      PROVE  ToSet(s) \subseteq Line /\ \A k \in 0..Len(s) : ToSet(SubSeq(s, 1, k)) \subseteq Line
  <2>1. ASSUME NEW r \in Seq(Line) PROVE ToSet(r) \subseteq Line
    BY ElementOfSeq, LenProperties DEF ToSet
  <2>2. \A k \in 0..Len(s) : SubSeq(s, 1, k) \in Seq(Line)
    BY LenProperties
  <2> QED
    BY <2>1, <2>2
<1> QED
  BY <1>1, <1>2, <1>3, <1>4

\* head writes the testing lines,
LEMMA SplitHeadInv ==
  ASSUME IInv, SplitHead
  PROVE  IInv'
<1> USE DEF IInv
<1>1. /\ pc = "head" /\ pc' = "tail" /\ exit = "none" /\ platform \in Platform
      /\ testing' = [testing EXCEPT ![platform] = ToSet(HeadLines)]
      /\ cut' = cut \cup {platform}
      /\ UNCHANGED <<capture, dirs, csv, shuffled, training, todo, class, left, platform, exit,
                     trained, source, runs, kills>>
  BY DEF SplitHead, Running, TypeOK
<1>2. /\ testing'[platform] = ToSet(HeadLines)
      /\ \A p \in Platform : p # platform => testing'[p] = testing[p]
  BY <1>1 DEF TypeOK
<1>3. HeadLines' = HeadLines /\ ToSet(HeadLines) \subseteq Line
  BY <1>1, Parts DEF HeadLines, SplitPoint
<1>4. testing' \in [Platform -> SUBSET Line]
  BY <1>1, <1>3 DEF TypeOK
<1>5. TypeOK'
  BY <1>1, <1>4 DEF TypeOK
<1>6. Splitting'
  BY <1>1, <1>2, <1>3, SameSource DEF Splitting
<1>7. Converted'
  BY <1>1, SameSource DEF Converted
<1>8. InTurn'
  <2>1. CASE platform = "Android"
    <3>1. testing'["Ios"] = testing["Ios"] /\ Exact("Ios")
      BY <1>2, <2>1 DEF InTurn, Platform
    <3>2. Exact("Ios")'
      BY <1>1, <3>1, SameSource DEF Exact
    <3> QED
      BY <1>1, <3>2 DEF InTurn
  <2> QED
    BY <1>1, <2>1 DEF InTurn
<1>9. Running' /\ Looping' /\ Converting' /\ Gathering' /\ Resting'
  BY <1>1 DEF Running, Looping, Converting, Gathering, Resting
<1>10. TestIsUnseen'
  BY <1>1, <1>2 DEF TestIsUnseen
<1>11. SplitIsExact'
  BY <1>1 DEF SplitIsExact
<1> QED
  BY <1>5, <1>6, <1>7, <1>8, <1>9, <1>10, <1>11

\* tail writes the training lines,
LEMMA SplitTailInv ==
  ASSUME IInv, SplitTail
  PROVE  IInv'
<1> USE DEF IInv
<1>1. /\ pc = "tail" /\ exit = "none" /\ platform \in Platform /\ left = {} /\ todo = <<>>
      /\ Lists(shuffled, LinesOf(platform)) /\ testing[platform] = ToSet(HeadLines)
      /\ training' = [training EXCEPT ![platform] = ToSet(TailLines)]
      /\ cut' = cut \ {platform}
      /\ shuffled' = <<>>
      /\ UNCHANGED <<capture, dirs, csv, testing, trained, source, runs, kills>>
  BY DEF SplitTail, Running, TypeOK, Splitting, Resting
<1>2. /\ training'[platform] = ToSet(TailLines)
      /\ \A p \in Platform : p # platform => training'[p] = training[p]
  BY <1>1 DEF TypeOK
<1>3. \A p \in Platform : p = platform =>
        /\ testing'[p] \cup training'[p] = LinesOf(p)'
        /\ testing'[p] \cap training'[p] = {}
        /\ Cardinality(testing'[p]) = Cardinality(LinesOf(p)') \div Share
  <2> SUFFICES ASSUME NEW p \in Platform, p = platform
               PROVE  /\ testing'[p] \cup training'[p] = LinesOf(p)
                      /\ testing'[p] \cap training'[p] = {}
                      /\ Cardinality(testing'[p]) = Cardinality(LinesOf(p)) \div Share
    BY <1>1, SameSource
  <2>1. SplitPoint \in 0..Len(shuffled)
    BY <1>1, Parts
  <2>2. /\ testing'[p] = ToSet(SubSeq(shuffled, 1, SplitPoint))
        /\ training'[p] = ToSet(SubSeq(shuffled, SplitPoint + 1, Len(shuffled)))
    BY <1>1, <1>2 DEF HeadLines, TailLines
  <2>3. Cardinality(LinesOf(p)) = Len(shuffled)
    BY <1>1, ListsCardinality
  <2> QED
    BY <1>1, <2>1, <2>2, <2>3, ListsCut DEF SplitPoint
<1>4. TypeOK'
  <2>1. training' \in [Platform -> SUBSET Line]
    BY <1>1, Parts DEF TypeOK
  <2>2. Sets("Android") \subseteq DataSet
    BY SetsType
  <2>3. CASE platform = "Ios"
    <3>1. /\ platform' = "Android" /\ pc' = "cat" /\ todo' = SetsOf["Android"]
          /\ UNCHANGED <<class, left, exit>>
      BY <2>3 DEF SplitTail
    <3> QED
      BY <1>1, <2>1, <2>2, <3>1, EmptySeq DEF TypeOK, Platform, Sets
  <2>4. CASE platform # "Ios"
    <3>1. Ends("ok")
      BY <2>4 DEF SplitTail
    <3> QED
      BY <1>1, <2>1, <3>1, EmptySeq DEF TypeOK, Ends, Platform, Class, ToSet
  <2> QED
    BY <2>3, <2>4
<1>5. TestIsUnseen'
  BY <1>1, <1>2, <1>3 DEF TestIsUnseen
<1>6. CASE platform = "Ios"
  <2>1. /\ platform' = "Android" /\ pc' = "cat" /\ todo' = SetsOf["Android"]
        /\ UNCHANGED <<class, left, exit>>
    BY <1>6 DEF SplitTail
  <2>2. InTurn'
    BY <1>1, <1>3, <1>6, <2>1 DEF InTurn, Exact
  <2>3. Converted'
    BY <1>1, <2>1, SameSource DEF Converted
  <2>4. Gathering'
    <3>1. todo' \in Seq(DataSet) /\ IsInjective(todo') /\ ToSet(todo') = Sets("Android")
      BY <2>1, SetsType DEF Sets
    <3>2. Lists(<<>>, {}) /\ LinesOfSets({})' = {}
      BY EmptySeq DEF Lists, IsInjective, ToSet, LinesOfSets
    <3>3. Sets("Android") \ ToSet(todo') = {}
      BY <3>1
    <3> QED
      BY <1>1, <2>1, <3>1, <3>2, <3>3 DEF Gathering
  <2>5. Running' /\ Looping' /\ Converting' /\ Splitting' /\ Resting' /\ SplitIsExact'
    BY <1>1, <2>1 DEF Running, Looping, Converting, Splitting, Resting, SplitIsExact
  <2> QED
    BY <1>4, <1>5, <2>2, <2>3, <2>4, <2>5
<1>7. CASE platform = "Android"
  <2>1. Ends("ok")
    BY <1>7 DEF SplitTail
  <2>2. Exact("Ios")'
    <3>1. Exact("Ios") /\ training'["Ios"] = training["Ios"]
      BY <1>2, <1>7 DEF InTurn, Platform
    <3> QED
      BY <1>1, <3>1, SameSource DEF Exact
  <2>3. SplitIsExact'
    BY <1>1, <1>3, <1>7, <2>2 DEF SplitIsExact, Exact, Platform
  <2>4. /\ Running' /\ Looping' /\ Converting' /\ Converted'
        /\ Gathering' /\ Splitting' /\ InTurn' /\ Resting'
    BY <1>1, <2>1
       DEF Ends, Running, Looping, Converting, Converted, Gathering, Splitting, InTurn, Resting
  <2> QED
    BY <1>4, <1>5, <2>3, <2>4
<1> QED
  BY <1>1, <1>6, <1>7 DEF Platform

\* or the run is killed.
LEMMA KillInv ==
  ASSUME IInv, Kill
  PROVE  IInv'
<1> USE DEF IInv
<1>1. /\ kills' \in 0..MaxKills /\ Ends("killed") /\ shuffled' = <<>>
      /\ UNCHANGED <<capture, dirs, csv, trained, source, runs>>
      /\ platform \in Platform
  BY PipelineAssumption DEF Kill, TypeOK
<1>2. /\ testing' \in [Platform -> SUBSET Line]
      /\ training' \in [Platform -> SUBSET Line]
      /\ cut' \subseteq Platform /\ TestIsUnseen'
  <2>1. CASE UNCHANGED <<testing, training, cut>>
    BY <2>1 DEF TypeOK, TestIsUnseen
  <2>2. ASSUME pc = "head", NEW k \in 0..Len(HeadLines),
               testing' = [testing EXCEPT ![platform] = ToSet(SubSeq(HeadLines, 1, k))],
               cut' = cut \cup {platform}, UNCHANGED training
        PROVE  /\ testing' \in [Platform -> SUBSET Line]
               /\ training' \in [Platform -> SUBSET Line]
               /\ cut' \subseteq Platform /\ TestIsUnseen'
    <3>1. ToSet(SubSeq(HeadLines, 1, k)) \subseteq Line
      BY <2>2, Parts
    <3>2. \A p \in Platform : p # platform => testing'[p] = testing[p]
      BY <2>2 DEF TypeOK
    <3>3. TestIsUnseen'
      BY <2>2, <3>2 DEF TestIsUnseen
    <3> QED
      BY <1>1, <2>2, <3>1, <3>3 DEF TypeOK
  <2>3. ASSUME pc = "tail", NEW k \in 0..Len(TailLines),
               training' = [training EXCEPT ![platform] = ToSet(SubSeq(TailLines, 1, k))],
               UNCHANGED <<testing, cut>>
        PROVE  /\ testing' \in [Platform -> SUBSET Line]
               /\ training' \in [Platform -> SUBSET Line]
               /\ cut' \subseteq Platform /\ TestIsUnseen'
    <3>1. ToSet(SubSeq(TailLines, 1, k)) \subseteq Line
      BY <2>3, Parts
    <3>2. \A p \in Platform : p # platform => training'[p] = training[p]
      BY <2>3 DEF TypeOK
    <3>3. TestIsUnseen'
      BY <2>3, <3>2 DEF TestIsUnseen, Splitting
    <3> QED
      BY <1>1, <2>3, <3>1, <3>3 DEF TypeOK
  <2> QED
    BY <2>1, <2>2, <2>3 DEF Kill
<1> QED
  BY <1>1, <1>2, EndsInv DEF TypeOK

\* Between two runs.
LEMMA BetweenRunsInv ==
  ASSUME IInv, Capture \/ Train
  PROVE  IInv'
<1> USE DEF IInv
<1>1. /\ pc = "idle" /\ capture' \in Captures /\ trained' \in {"no", "failed", "started"}
      /\ UNCHANGED <<dirs, csv, shuffled, testing, training, pc, todo, class, left, platform,
                     exit, history>>
  BY DEF Capture, Train, TypeOK, files
<1>2. TypeOK'
  BY <1>1 DEF TypeOK, history
<1>3. /\ Running' /\ Looping' /\ Converting' /\ Converted'
      /\ Gathering' /\ Splitting' /\ InTurn' /\ Resting'
  BY <1>1 DEF Running, Looping, Converting, Converted, Gathering, Splitting, InTurn, Resting
<1>4. TestIsUnseen' /\ SplitIsExact'
  BY <1>1, SameSource DEF TestIsUnseen, SplitIsExact, history
<1> QED
  BY <1>2, <1>3, <1>4

\* Every action keeps the invariant.
LEMMA InvStep == IInv /\ [Next]_vars => IInv'
<1> SUFFICES ASSUME IInv, [Next]_vars PROVE IInv'
  OBVIOUS
<1>1. CASE UNCHANGED vars
  <2>1. source' = source /\ IInv
    BY <1>1 DEF vars
  <2> QED
    BY <1>1, <2>1, SameSource
       DEF vars, IInv, TypeOK, Running, Looping, Converting, Converted, Gathering, Splitting,
           InTurn, Exact, Resting, TestIsUnseen, SplitIsExact, HeadLines, SplitPoint
<1> QED
  BY <1>1, StartInv, MakeInv, ConvertCaptureInv, WriteRowInv, AssertFrameInv, NextDirectoryInv,
     CatFileInv, ShuffleInv, SplitHeadInv, SplitTailInv, KillInv, BetweenRunsInv DEF Next

(***************************************************************************)
(* The theorems.                                                           *)
(***************************************************************************)

\* The invariant that carries the others: at each point of a run which
\* lines the files on the disk list, each once.
THEOREM PipelineInvHolds == Spec => []IInv
BY InitInv, InvStep, PTL DEF Spec

\* createCsvFile.sh and its files keep their types, whatever fails.
THEOREM PipelineTypeCorrect == Spec => []TypeOK
<1>1. IInv => TypeOK
  BY DEF IInv
<1> QED
  BY <1>1, PipelineInvHolds, PTL

\* After a run of createCsvFile.sh that ends well, whatever the runs before
\* have left, the two files of a platform share out the frames of the
\* captures it began with.
THEOREM SplitsAreExact == Spec => []SplitIsExact
<1>1. IInv => SplitIsExact
  BY DEF IInv
<1> QED
  BY <1>1, PipelineInvHolds, PTL

\* head and tail never put a line into both files of a platform, except
\* when a kill falls between them.
THEOREM TestingIsUnseen == Spec => []TestIsUnseen
<1>1. IInv => TestIsUnseen
  BY DEF IInv
<1> QED
  BY <1>1, PipelineInvHolds, PTL

\* The lines of a platform are finitely many.
LEMMA LinesFinite ==
  ASSUME source \in Captures, NEW p \in Platform
  PROVE  IsFiniteSet(LinesOf(p))
<1>1. ASSUME NEW t \in Sets(p) PROVE IsFiniteSet(SetLines(t))
  <2> DEFINE F == source[t].frames
             f == [x \in F |-> [label |-> x.class, frame |-> x]]
  <2>1. IsFiniteSet(F)
    BY SetsType, PipelineAssumption
  <2>2. f \in Surjection(F, SetLines(t))
    BY DEF Surjection, SetLines, FrameLines
  <2> QED
    BY <2>1, <2>2, FS_Surjection
<1>2. IsFiniteSet({SetLines(t) : t \in Sets(p)})
  <2> DEFINE D == DOMAIN SetsOf[p]
             g == [i \in D |-> SetLines(SetsOf[p][i])]
  <2>1. IsFiniteSet(D)
    BY SetsType, LenProperties, FS_Interval
  <2>2. g \in Surjection(D, {SetLines(t) : t \in Sets(p)})
    BY DEF Surjection, Sets, ToSet
  <2> QED
    BY <2>1, <2>2, FS_Surjection
<1>3. IsFiniteSet(UNION {SetLines(t) : t \in Sets(p)})
  BY <1>1, <1>2, FS_UNION
<1> QED
  BY <1>3, LinesOfPlatform DEF LinesOfSets

\* Whatever order shuf has chosen, simple.py can read what a successful run
\* leaves of ample captures, and no class is missing from the lines it
\* trains with.
THEOREM EnoughForTraining == Spec => []EnoughIsUsable
<1>1. IInv => EnoughIsUsable
  <2> SUFFICES ASSUME IInv, exit = "ok", NEW p \in Platform, Ample(p)
               PROVE  CanRead(testing[p]) /\ CanRead(training[p]) /\ HasPriors(training[p])
    BY DEF EnoughIsUsable
  <2> DEFINE L == LinesOf(p)
             A == testing[p]
             Of(c) == {l \in L : l.label = c}
  <2>1. /\ A \cup training[p] = L /\ Cardinality(A) = Cardinality(L) \div Share
        /\ source \in Captures
    BY DEF IInv, SplitIsExact, TypeOK
  <2>2. IsFiniteSet(L) /\ Cardinality(L) \in Nat /\ IsFiniteSet(A)
    BY <2>1, LinesFinite, FS_CardinalityType, FS_Subset
  <2>3. Cardinality(L) >= Share /\ \A c \in Class : Cardinality(Of(c)) > Cardinality(L) \div Share
    BY DEF Ample
  <2>4. ASSUME NEW c \in Class
        PROVE  \E l \in training[p] : l.label = c
    <3>1. SUFFICES ASSUME Of(c) \subseteq A PROVE FALSE
      BY <2>1
    <3>2. Cardinality(Of(c)) <= Cardinality(A)
      BY <2>2, <3>1, FS_Subset
    <3>3. Cardinality(A) \in Nat /\ Cardinality(Of(c)) \in Nat
      BY <2>2, <3>1, FS_Subset, FS_CardinalityType
    <3> HIDE DEF A, Of, L
    <3> QED
      BY <2>1, <2>3, <3>2, <3>3
  <2>5. HasPriors(training[p])
    BY <2>4 DEF HasPriors
  <2>6. CanRead(training[p])
    BY <2>4 DEF CanRead, Class
  <2>7. CanRead(A)
    <3>1. Cardinality(L) \div Share >= 1
      BY <2>2, <2>3, PipelineAssumption
    <3>2. Cardinality(A) # 0
      BY <2>1, <3>1, ShareOf, <2>2
    <3> QED
      BY <3>2, FS_EmptySet DEF CanRead
  <2> QED
    BY <2>5, <2>6, <2>7
<1> QED
  BY <1>1, PipelineInvHolds, PTL

=============================================================================
