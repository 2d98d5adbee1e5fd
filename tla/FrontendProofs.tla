--------------------------- MODULE FrontendProofs ---------------------------
(***************************************************************************)
(* Proofs about Frontend, the features of a frame: for every table of      *)
(* buckets that covers the spectrum, and that the table of Frontend.hpp is *)
(* one.  For the transform behind it see KissFftProofs.                    *)
(*                                                                         *)
(* Where a row of the table begins is a sum over the rows before it, for   *)
(* which the provers need induction: it is used in the form that a set of  *)
(* natural numbers has a least one.                                        *)
(***************************************************************************)
EXTENDS Frontend, KissFftProofs

(***************************************************************************)
(* The walk.  The sums are given as functions, with the equations that     *)
(* make them the sums: start[k] coefficients and total[k] buckets are      *)
(* before row k.                                                           *)
(***************************************************************************)

TableFits(start, total) ==
  LET rows == Len(buckets_) IN
  /\ start \in [1..(rows + 1) -> 0..fftOutputSize_]
  /\ total \in [1..(rows + 1) -> Nat]
  /\ start[1] = 0 /\ total[1] = 0
  /\ \A k \in 1..rows :
       /\ start[k + 1] = start[k] + Count(buckets_[k]) * Width(buckets_[k])
       /\ total[k + 1] = total[k] + Count(buckets_[k])
  /\ start[rows + 1] = fftOutputSize_
  /\ Features * total[rows + 1] = FeaturesDim

\* The rows of the table.
LEMMA RowType ==
  /\ Len(buckets_) \in Nat \ {0} /\ fftOutputSize_ \in Nat
  /\ \A k \in 1..Len(buckets_) : Count(buckets_[k]) \in Nat \ {0} /\ Width(buckets_[k]) \in Nat \ {0}
<1>1. buckets_ \in Seq((Nat \ {0}) \X (Nat \ {0})) /\ buckets_ # <<>> /\ frameSize_ \in Nat
  BY FrontendAssumption
<1>2. Len(buckets_) \in Nat \ {0}
  BY <1>1
<1>3. fftOutputSize_ \in Nat
  BY <1>1 DEF fftOutputSize_
<1>4. ASSUME NEW k \in 1..Len(buckets_)
      PROVE  Count(buckets_[k]) \in Nat \ {0} /\ Width(buckets_[k]) \in Nat \ {0}
  <2>1. buckets_[k] \in (Nat \ {0}) \X (Nat \ {0})
    BY <1>1
  <2> QED
    BY <2>1 DEF Count, Width
<1> QED
  BY <1>2, <1>3, <1>4

\* Remainders of a positive divisor.
LEMMA Remainder == ASSUME NEW x \in Int, NEW b \in Nat \ {0} PROVE x % b \in 0..(b - 1)
OBVIOUS

\* The conversion of a number to short gives a short.
LEMMA ToShortType == ASSUME NEW x \in Int PROVE ToShort(x) \in Short
<1> DEFINE h == kShorts \div 2
<1>1. h \in Nat /\ kShorts = 2 * h /\ kShorts \in Nat \ {0}
  BY DEF kShorts
<1>2. (x + h) % kShorts \in 0..(kShorts - 1)
  BY <1>1, Remainder
<1> HIDE DEF h
<1> QED
  BY <1>1, <1>2 DEF ToShort, Short, h

\* The walk's place: i buckets of the row are behind it.
AtRow(start, total) ==
  /\ it = start[bucket] + i * Width(buckets_[bucket])
  /\ realBuckets = Features * (total[bucket] + i)

Place(start, total) ==
  /\ pc \in {"assert", "decode", "walk"} =>
       /\ bucket \in 1..Len(buckets_)
       /\ i \in 0..(Count(buckets_[bucket]) - 1)
       /\ AtRow(start, total)
  /\ pc \in {"end", "done"} =>
       /\ it = fftOutputSize_ /\ realBuckets = FeaturesDim
  /\ pc = "crashed" => call.size # getSampleSize
  /\ pc \in {"decode", "walk", "end", "done"} => call.size = getSampleSize

\* The coefficient has been in one bucket once the walk is past it.
Visited == hits = IF call.coefficient < it THEN 1 ELSE 0

FrontendInv(start, total) ==
  /\ TypeOK
  /\ call \in Calls
  /\ Place(start, total)
  /\ Visited

\* The walk begins at the first row.
LEMMA FrontendInvInit ==
  ASSUME NEW start, NEW total, TableFits(start, total), Init
  PROVE  FrontendInv(start, total)
<1>1. call \in Calls /\ call.coefficient \in Nat
  BY FrontendAssumption, RowType DEF Init
<1>2. Count(buckets_[1]) \in Nat \ {0} /\ Width(buckets_[1]) \in Nat \ {0} /\ Len(buckets_) \in Nat \ {0}
  BY RowType
<1>3. start[1] = 0 /\ total[1] = 0
  BY DEF TableFits
<1>4. TypeOK
  BY <1>2, RowType DEF Init, TypeOK
<1>5. 0 * Width(buckets_[1]) = 0
  BY <1>2
<1>6. Place(start, total)
  BY <1>2, <1>3, <1>5 DEF Init, Place, AtRow, Features
<1>7. Visited
  BY <1>1 DEF Init, Visited
<1> QED
  BY <1>1, <1>4, <1>6, <1>7 DEF FrontendInv

\* Products with a width.
LEMMA Times ==
  ASSUME NEW a \in Nat, NEW b \in Nat, NEW w \in Nat, a + 1 <= b
  PROVE  (a + 1) * w = a * w + w /\ a * w + w <= b * w /\ a * w \in Nat /\ b * w \in Nat
<1>1. b * w = (a + 1) * w + (b - (a + 1)) * w
  OBVIOUS
<1>2. (b - (a + 1)) * w \in Nat
  OBVIOUS
<1>3. (a + 1) * w = a * w + w /\ a * w \in Nat
  OBVIOUS
<1> QED
  BY <1>1, <1>2, <1>3

\* Every step of the walk keeps the invariant.
LEMMA FrontendInvStep ==
  ASSUME NEW start, NEW total, TableFits(start, total), FrontendInv(start, total), [Next]_vars
  PROVE  FrontendInv(start, total)'
<1> DEFINE rows == Len(buckets_)
<1>0. TypeOK /\ call \in Calls /\ Place(start, total) /\ Visited
  BY DEF FrontendInv
<1>1. CASE AssertSize
  BY <1>0, <1>1 DEF AssertSize, FrontendInv, TypeOK, Place, AtRow, Visited, walkVars, SizeFits
<1>2. CASE Decode
  <2>1. sample' \in Short
    <3>1. call.bytes[1] \in Byte /\ call.bytes[2] \in Byte
      BY <1>0, FrontendAssumption
    <3>2. call.bytes[1] * 256 + call.bytes[2] \in Int
      <4>1. \A a, b \in Byte : a * 256 + b \in Int
        BY DEF Byte
      <4> QED
        BY <3>1, <4>1
    <3> QED
      BY <1>2, <3>2, ToShortType DEF Decode, DecodeSample
  <2> QED
    BY <1>0, <1>2, <2>1 DEF Decode, FrontendInv, TypeOK, Place, AtRow, Visited, walkVars
<1>3. CASE Bucket
  <2> DEFINE c == Count(buckets_[bucket])
             w == Width(buckets_[bucket])
  <2>1. /\ pc = "walk" /\ call' = call /\ sample' = sample
        /\ it' = it + w /\ realBuckets' = realBuckets + Features
        /\ hits' = IF it <= call.coefficient /\ call.coefficient < it + w THEN hits + 1 ELSE hits
    BY <1>3 DEF Bucket
  <2>2. /\ bucket \in 1..rows /\ i \in 0..(c - 1)
        /\ it = start[bucket] + i * w /\ realBuckets = Features * (total[bucket] + i)
        /\ call.size = getSampleSize
    BY <1>0, <2>1 DEF Place, AtRow
  <2>3. /\ c \in Nat \ {0} /\ w \in Nat \ {0} /\ rows \in Nat \ {0} /\ fftOutputSize_ \in Nat
    BY <2>2, RowType
  <2>4. /\ bucket + 1 \in 1..(rows + 1)
        /\ start[bucket] \in 0..fftOutputSize_ /\ start[bucket + 1] \in 0..fftOutputSize_
        /\ total[bucket] \in Nat
        /\ start[bucket + 1] = start[bucket] + c * w /\ total[bucket + 1] = total[bucket] + c
    <3>1. bucket + 1 \in 1..(rows + 1) /\ bucket \in 1..(rows + 1)
      BY <2>2, <2>3
    <3>2. /\ start \in [1..(rows + 1) -> 0..fftOutputSize_] /\ total \in [1..(rows + 1) -> Nat]
          /\ \A k \in 1..rows : /\ start[k + 1] = start[k] + Count(buckets_[k]) * Width(buckets_[k])
                               /\ total[k + 1] = total[k] + Count(buckets_[k])
      BY DEF TableFits
    <3>3. start[bucket + 1] = start[bucket] + c * w /\ total[bucket + 1] = total[bucket] + c
      BY <2>2, <3>2
    <3> HIDE DEF c, w, rows
    <3> QED
      BY <3>1, <3>2, <3>3
  <2>5. call.coefficient \in Nat /\ call.coefficient < fftOutputSize_
    BY <1>0, <2>3, FrontendAssumption
  <2> HIDE DEF c, w, rows
  <2>6. /\ (i + 1) * w = i * w + w /\ i * w + w <= c * w /\ i * w \in Nat /\ c * w \in Nat
    BY <2>2, <2>3, Times
  <2>7. /\ it \in Nat /\ it' \in 0..fftOutputSize_ /\ it' = start[bucket] + (i + 1) * w
        /\ realBuckets' \in Nat /\ realBuckets' = Features * (total[bucket] + (i + 1))
    <3>1. it \in Nat /\ it' = start[bucket] + (i + 1) * w
      BY <2>1, <2>2, <2>3, <2>4, <2>6
    <3>2. it' \in 0..fftOutputSize_
      BY <2>3, <2>4, <2>6, <3>1
    <3>3. i \in Nat /\ total[bucket] + i \in Nat
      BY <2>2, <2>3, <2>4
    <3>4. realBuckets' = Features * (total[bucket] + (i + 1)) /\ realBuckets' \in Nat
      BY <2>1, <2>2, <2>4, <3>3 DEF Features
    <3> QED
      BY <3>1, <3>2, <3>4
  <2>8. hits' \in Nat /\ Visited'
    BY <1>0, <2>1, <2>3, <2>5, <2>7 DEF Visited
  <2>9. CASE More
    <3>1. i' = i + 1 /\ bucket' = bucket /\ pc' = "walk" /\ i + 1 < c
      BY <1>3, <2>9 DEF Bucket, More, c
    <3>2. TypeOK'
      BY <1>0, <2>1, <2>2, <2>7, <2>8, <3>1 DEF TypeOK
    <3>3. Place(start, total)'
      BY <2>1, <2>2, <2>3, <2>7, <3>1 DEF Place, AtRow, c, w, rows
    <3> QED
      BY <1>0, <2>1, <2>8, <3>2, <3>3 DEF FrontendInv
  <2>10. CASE ~More
    <3>1. i' = 0 /\ bucket' = bucket + 1 /\ i + 1 = c
          /\ pc' = IF bucket < rows THEN "walk" ELSE "end"
      BY <1>3, <2>2, <2>3, <2>10 DEF Bucket, More, c, rows
    <3>2. it' = start[bucket + 1] /\ realBuckets' = Features * total[bucket + 1]
      BY <2>4, <2>7, <3>1
    <3>3. TypeOK'
      BY <1>0, <2>1, <2>4, <2>7, <2>8, <3>1 DEF TypeOK, rows
    <3>4. CASE bucket < rows
      <4>1. bucket + 1 \in 1..rows
        BY <2>2, <2>3, <3>4
      <4>2. Count(buckets_[bucket + 1]) \in Nat \ {0} /\ Width(buckets_[bucket + 1]) \in Nat \ {0}
        BY <4>1, RowType DEF rows
      <4>3. start[bucket + 1] + 0 * Width(buckets_[bucket + 1]) = start[bucket + 1]
            /\ total[bucket + 1] + 0 = total[bucket + 1]
        BY <2>4, <2>3, <2>2, <4>2
      <4>4. pc' = "walk" /\ 0 \in 0..(Count(buckets_[bucket + 1]) - 1)
        BY <3>1, <3>4, <4>2
      <4>5. AtRow(start, total)'
        BY <3>1, <3>2, <4>3 DEF AtRow
      <4>6. Place(start, total)'
        BY <2>1, <2>2, <3>1, <4>1, <4>4, <4>5 DEF Place, rows
      <4> QED
        BY <1>0, <2>1, <2>8, <3>3, <4>6 DEF FrontendInv
    <3>5. CASE ~(bucket < rows)
      <4>1. bucket + 1 = rows + 1 /\ pc' = "end"
        BY <2>2, <2>3, <3>1, <3>5
      <4>2. it' = fftOutputSize_ /\ realBuckets' = FeaturesDim
        BY <3>2, <4>1 DEF TableFits, rows
      <4>3. Place(start, total)'
        BY <2>1, <2>2, <4>1, <4>2 DEF Place
      <4> QED
        BY <1>0, <2>1, <2>8, <3>3, <4>3 DEF FrontendInv
    <3> QED
      BY <3>4, <3>5
  <2> QED
    BY <2>9, <2>10
<1>4. CASE AssertEnd
  BY <1>0, <1>4 DEF AssertEnd, FrontendInv, TypeOK, Place, AtRow, Visited, walkVars
<1>5. CASE UNCHANGED vars
  BY <1>0, <1>5 DEF vars, FrontendInv, TypeOK, Place, AtRow, Visited
<1> QED
  BY <1>1, <1>2, <1>3, <1>4, <1>5 DEF Next

(***************************************************************************)
(* The sums over the rows.                                                 *)
(***************************************************************************)

\* Coefficients in the rows before row k, and buckets.
CoefficientsBefore[k \in 1..(Len(buckets_) + 1)] ==
  IF k = 1 THEN 0
  ELSE CoefficientsBefore[k - 1] + Count(buckets_[k - 1]) * Width(buckets_[k - 1])

BucketsBefore[k \in 1..(Len(buckets_) + 1)] ==
  IF k = 1 THEN 0 ELSE BucketsBefore[k - 1] + Count(buckets_[k - 1])

\* The rows take up the whole spectrum and give as many features as the
\* network has inputs.
AddsUp ==
  /\ CoefficientsBefore[Len(buckets_) + 1] = fftOutputSize_
  /\ Features * BucketsBefore[Len(buckets_) + 1] = FeaturesDim

\* f[k] is the sum of a[1] to a[k - 1].
IsSumOf(f, m, a) == f = [k \in 1..(m + 1) |-> IF k = 1 THEN 0 ELSE f[k - 1] + a[k - 1]]

\* Sums exist.
LEMMA PartialSums ==
  ASSUME NEW m \in Nat, NEW a \in [1..m -> Nat]
  PROVE  \E f : IsSumOf(f, m, a)
<1> DEFINE Sums(l) == {f \in [1..(l + 1) -> Nat] :
                         f[1] = 0 /\ \A k \in 1..l : f[k + 1] = f[k] + a[k]}
           Bad == {l \in 0..m : Sums(l) = {}}
<1>1. Bad = {}
  <2>1. SUFFICES ASSUME Bad # {} PROVE FALSE
    OBVIOUS
  <2>2. PICK l \in Bad : \A y \in Bad : l <= y
    <3>1. Bad \in SUBSET Nat
      OBVIOUS
    <3> HIDE DEF Bad
    <3> QED
      BY <2>1, <3>1, LeastNatural
  <2>3. l \in 0..m /\ Sums(l) = {}
    OBVIOUS
  <2>4. l # 0
    <3>1. [k \in 1..(0 + 1) |-> 0] \in Sums(0)
      OBVIOUS
    <3> HIDE DEF Sums
    <3> QED
      BY <2>3, <3>1
  <2>5. l \in 1..m /\ l - 1 \in 0..m /\ ~(l <= l - 1) /\ (l - 1) + 1 = l
    BY <2>3, <2>4
  <2>6. PICK f : f \in Sums(l - 1)
    <3>1. l - 1 \notin Bad
      BY <2>2, <2>5
    <3> HIDE DEF Sums
    <3> QED
      BY <2>5, <3>1
  <2>7. /\ f \in [1..l -> Nat] /\ f[1] = 0
        /\ \A k \in 1..(l - 1) : f[k + 1] = f[k] + a[k]
    BY <2>5, <2>6
  <2> DEFINE g == [k \in 1..(l + 1) |-> IF k = l + 1 THEN f[l] + a[l] ELSE f[k]]
  <2>8. g \in [1..(l + 1) -> Nat]
    <3>1. ASSUME NEW k \in 1..(l + 1) PROVE (IF k = l + 1 THEN f[l] + a[l] ELSE f[k]) \in Nat
      <4>1. a[l] \in Nat /\ l \in 1..l /\ f[l] \in Nat /\ (k # l + 1 => k \in 1..l)
        BY <2>5, <2>7
      <4> QED
        BY <2>7, <4>1
    <3> QED
      BY <3>1
  <2>9. g[1] = 0
    BY <2>5, <2>7
  <2>10. ASSUME NEW k \in 1..l PROVE g[k + 1] = g[k] + a[k]
    <3>1. k \in 1..(l + 1) /\ k + 1 \in 1..(l + 1) /\ k # l + 1 /\ g[k] = f[k]
      BY <2>5
    <3>2. CASE k = l
      BY <3>1, <3>2
    <3>3. CASE k # l
      <4>1. k \in 1..(l - 1) /\ g[k + 1] = f[k + 1]
        BY <2>5, <3>1, <3>3
      <4> QED
        BY <2>7, <3>1, <4>1
    <3> QED
      BY <3>2, <3>3
  <2>11. g \in Sums(l)
    BY <2>8, <2>9, <2>10
  <2> QED
    BY <2>3, <2>11
<1>2. PICK f : f \in Sums(m)
  <2>1. m \in 0..m
    OBVIOUS
  <2> HIDE DEF Sums
  <2> QED
    BY <1>1, <2>1
<1>3. f = [k \in 1..(m + 1) |-> f[k]] /\ f[1] = 0 /\ \A k \in 1..m : f[k + 1] = f[k] + a[k]
  BY <1>2
<1>4. ASSUME NEW k \in 1..(m + 1) PROVE f[k] = IF k = 1 THEN 0 ELSE f[k - 1] + a[k - 1]
  <2>1. CASE k = 1
    BY <1>3, <2>1
  <2>2. CASE k # 1
    <3>1. k - 1 \in 1..m /\ (k - 1) + 1 = k
      BY <2>2
    <3>2. f[(k - 1) + 1] = f[k - 1] + a[k - 1]
      BY <1>3, <3>1
    <3> QED
      BY <2>2, <3>1, <3>2
  <2> QED
    BY <2>1, <2>2
<1>5. IsSumOf(f, m, a)
  BY <1>3, <1>4 DEF IsSumOf
<1> QED
  BY <1>5

\* They are natural numbers and grow with the rows.
LEMMA SumsGrow ==
  ASSUME NEW m \in Nat, NEW a \in [1..m -> Nat], NEW f, IsSumOf(f, m, a)
  PROVE  /\ f \in [1..(m + 1) -> 0..f[m + 1]] /\ f[m + 1] \in Nat /\ f[1] = 0
         /\ \A k \in 1..m : f[k + 1] = f[k] + a[k]
<1>0. f = [k \in 1..(m + 1) |-> IF k = 1 THEN 0 ELSE f[k - 1] + a[k - 1]]
  BY DEF IsSumOf
<1>1. \A k \in 1..(m + 1) : f[k] = IF k = 1 THEN 0 ELSE f[k - 1] + a[k - 1]
  BY <1>0
<1>2. f[1] = 0
  BY <1>1
<1>3. ASSUME NEW k \in 1..m PROVE f[k + 1] = f[k] + a[k]
  <2>1. k + 1 \in 1..(m + 1) /\ (k + 1) - 1 = k /\ k + 1 # 1
    OBVIOUS
  <2> QED
    BY <1>1, <2>1
<1> DEFINE Bad == {k \in 1..(m + 1) : f[k] \notin Nat}
<1>4. Bad = {}
  <2>1. SUFFICES ASSUME Bad # {} PROVE FALSE
    OBVIOUS
  <2>2. PICK l \in Bad : \A y \in Bad : l <= y
    <3>1. Bad \in SUBSET Nat
      OBVIOUS
    <3> HIDE DEF Bad
    <3> QED
      BY <2>1, <3>1, LeastNatural
  <2>3. l \in 1..(m + 1) /\ f[l] \notin Nat /\ l # 1
    BY <1>2
  <2>4. l - 1 \in 1..m /\ l - 1 \in 1..(m + 1) /\ ~(l <= l - 1) /\ (l - 1) + 1 = l
    BY <2>3
  <2>5. f[l - 1] \in Nat /\ a[l - 1] \in Nat /\ f[l] = f[l - 1] + a[l - 1]
    BY <1>3, <2>2, <2>4
  <2> QED
    BY <2>3, <2>5
<1>5. \A k \in 1..(m + 1) : f[k] \in Nat
  BY <1>4
<1> DEFINE Over == {d \in 0..m : f[m + 1 - d] > f[m + 1]}
<1>6. Over = {}
  <2>1. SUFFICES ASSUME Over # {} PROVE FALSE
    OBVIOUS
  <2>2. PICK d \in Over : \A y \in Over : d <= y
    <3>1. Over \in SUBSET Nat
      OBVIOUS
    <3> HIDE DEF Over
    <3> QED
      BY <2>1, <3>1, LeastNatural
  <2>3. d \in 0..m /\ f[m + 1 - d] > f[m + 1]
    OBVIOUS
  <2>4. d # 0
    <3>1. m + 1 - 0 = m + 1 /\ m + 1 \in 1..(m + 1)
      OBVIOUS
    <3>2. f[m + 1] \in Nat
      BY <1>5, <3>1
    <3> QED
      BY <2>3, <3>1, <3>2
  <2> DEFINE k == m + 1 - d
  <2>5. k \in 1..m /\ k \in 1..(m + 1) /\ k + 1 \in 1..(m + 1) /\ m + 1 \in 1..(m + 1)
        /\ d - 1 \in 0..m /\ ~(d <= d - 1) /\ m + 1 - (d - 1) = k + 1
    BY <2>3, <2>4
  <2>6. ~(f[k + 1] > f[m + 1])
    <3>1. d - 1 \notin Over
      BY <2>2, <2>5
    <3> QED
      BY <2>5, <3>1
  <2> HIDE DEF k
  <2>7. f[k + 1] = f[k] + a[k] /\ a[k] \in Nat /\ f[k] \in Nat /\ f[k + 1] \in Nat /\ f[m + 1] \in Nat
    BY <1>3, <1>5, <2>5
  <2> QED
    BY <2>3, <2>6, <2>7 DEF k
<1>7. ASSUME NEW k \in 1..(m + 1) PROVE f[k] \in 0..f[m + 1]
  <2>1. m + 1 - k \in 0..m /\ m + 1 - (m + 1 - k) = k /\ m + 1 \in 1..(m + 1)
    OBVIOUS
  <2>2. ~(f[k] > f[m + 1])
    BY <1>6, <2>1
  <2>3. f[k] \in Nat /\ f[m + 1] \in Nat
    BY <1>5, <2>1
  <2> QED
    BY <2>2, <2>3
<1>8. f = [k \in 1..(m + 1) |-> f[k]] /\ f[m + 1] \in Nat
  BY <1>0, <1>5
<1> QED
  BY <1>2, <1>3, <1>7, <1>8

\* The sums of a table that adds up are what the walk needs.
LEMMA TableSums == ASSUME AddsUp PROVE TableFits(CoefficientsBefore, BucketsBefore)
<1> DEFINE m == Len(buckets_)
           a == [k \in 1..m |-> Count(buckets_[k]) * Width(buckets_[k])]
           b == [k \in 1..m |-> Count(buckets_[k])]
<1>1. m \in Nat /\ a \in [1..m -> Nat] /\ b \in [1..m -> Nat]
  <2>1. ASSUME NEW k \in 1..m
        PROVE  Count(buckets_[k]) \in Nat /\ Count(buckets_[k]) * Width(buckets_[k]) \in Nat
    <3>1. Count(buckets_[k]) \in Nat /\ Width(buckets_[k]) \in Nat
      BY RowType
    <3> QED
      BY <3>1, Products
  <2> QED
    BY <2>1, RowType
<1>2. \A k \in 1..(m + 1) : k = 1 \/ k - 1 \in 1..m
  BY <1>1
<1>3. IsSumOf(CoefficientsBefore, m, a)
  <2> DEFINE Rec(f) == f = [k \in 1..(m + 1) |-> IF k = 1 THEN 0
                              ELSE f[k - 1] + Count(buckets_[k - 1]) * Width(buckets_[k - 1])]
  <2>1. \A f : Rec(f) <=> IsSumOf(f, m, a)
    BY <1>2 DEF IsSumOf
  <2>2. \E f : IsSumOf(f, m, a)
    <3> HIDE DEF m, a
    <3> QED
      BY <1>1, PartialSums
  <2>3. CoefficientsBefore = CHOOSE f : Rec(f)
    BY DEF CoefficientsBefore
  <2> HIDE DEF Rec
  <2> QED
    BY <2>1, <2>2, <2>3
<1>4. IsSumOf(BucketsBefore, m, b)
  <2> DEFINE Rec(f) == f = [k \in 1..(m + 1) |-> IF k = 1 THEN 0 ELSE f[k - 1] + Count(buckets_[k - 1])]
  <2>1. \A f : Rec(f) <=> IsSumOf(f, m, b)
    BY <1>2 DEF IsSumOf
  <2>2. \E f : IsSumOf(f, m, b)
    <3> HIDE DEF m, b
    <3> QED
      BY <1>1, PartialSums
  <2>3. BucketsBefore = CHOOSE f : Rec(f)
    BY DEF BucketsBefore
  <2> HIDE DEF Rec
  <2> QED
    BY <2>1, <2>2, <2>3
<1> DEFINE start == CoefficientsBefore
           total == BucketsBefore
<1>5. /\ start \in [1..(m + 1) -> 0..start[m + 1]] /\ start[1] = 0
      /\ \A k \in 1..m : start[k + 1] = start[k] + a[k]
  <2>1. IsSumOf(start, m, a)
    BY <1>3
  <2> HIDE DEF m, a, start
  <2> QED
    BY <1>1, <2>1, SumsGrow
<1>6. /\ total \in [1..(m + 1) -> 0..total[m + 1]] /\ total[m + 1] \in Nat /\ total[1] = 0
      /\ \A k \in 1..m : total[k + 1] = total[k] + b[k]
  <2>1. IsSumOf(total, m, b)
    BY <1>4
  <2> HIDE DEF m, b, total
  <2> QED
    BY <1>1, <2>1, SumsGrow
<1>7. start[m + 1] = fftOutputSize_ /\ Features * total[m + 1] = FeaturesDim
  BY DEF AddsUp
<1>8. start \in [1..(m + 1) -> 0..fftOutputSize_] /\ total \in [1..(m + 1) -> Nat]
  <2> HIDE DEF start, total, m
  <2>1. 0..total[m + 1] \subseteq Nat
    BY <1>6
  <2>2. total \in [1..(m + 1) -> Nat]
    BY <1>6, <2>1
  <2> QED
    BY <1>5, <1>7, <2>2
<1>9. \A k \in 1..m : a[k] = Count(buckets_[k]) * Width(buckets_[k]) /\ b[k] = Count(buckets_[k])
  OBVIOUS
<1> HIDE DEF a, b, start, total
<1>10. TableFits(start, total)
  BY <1>5, <1>6, <1>7, <1>8, <1>9 DEF TableFits
<1> QED
  BY <1>10 DEF start, total

(***************************************************************************)
(* The theorems.                                                           *)
(***************************************************************************)

\* The invariant of the walk, for any sums that fit.
THEOREM FrontendInvHolds ==
  ASSUME NEW CONSTANT start, NEW CONSTANT total, TableFits(start, total)
  PROVE  Spec => []FrontendInv(start, total)
<1>1. Init => FrontendInv(start, total)
  BY FrontendInvInit
<1>2. FrontendInv(start, total) /\ [Next]_vars => FrontendInv(start, total)'
  BY FrontendInvStep
<1> QED
  BY <1>1, <1>2, PTL DEF Spec

\* What follows for a table whose sums are given.
LEMMA WalkOfSums ==
  ASSUME NEW CONSTANT start, NEW CONSTANT total, TableFits(start, total)
  PROVE  Spec => [](TypeOK /\ CoversSpectrum)
<1>1. FrontendInv(start, total) => TypeOK /\ CoversSpectrum
  <2> SUFFICES ASSUME FrontendInv(start, total) PROVE TypeOK /\ CoversSpectrum
    OBVIOUS
  <2>1. TypeOK /\ call \in Calls /\ Place(start, total) /\ Visited
    BY DEF FrontendInv
  <2>2. call.coefficient \in Nat /\ call.coefficient < fftOutputSize_
    BY <2>1, RowType, FrontendAssumption
  <2> QED
    BY <2>1, <2>2 DEF CoversSpectrum, Place, Visited
<1>2. Spec => []FrontendInv(start, total)
  BY FrontendInvHolds
<1> QED
  BY <1>1, <1>2, PTL

\* The iterator never leaves realOutput: max_element and min_element read
\* what was written.
THEOREM FrontendTypeCorrect == ASSUME AddsUp PROVE Spec => []TypeOK
<1>1. Spec => [](TypeOK /\ CoversSpectrum)
  BY TableSums, WalkOfSums
<1> QED
  BY <1>1, PTL

\* A table whose widths add up puts each coefficient into one bucket, gives
\* the network its number of features, and passes the assertion behind the
\* walk.
THEOREM WalkCoversSpectrum == ASSUME AddsUp PROVE Spec => []CoversSpectrum
<1>1. Spec => [](TypeOK /\ CoversSpectrum)
  BY TableSums, WalkOfSums
<1> QED
  BY <1>1, PTL

\* The table of Frontend.hpp with its 1103 coefficients and 78 features.
HeaderTable ==
  /\ frameSize_ = 2205 /\ FeaturesDim = 78
  /\ buckets_ = <<<<5, 1>>, <<5, 2>>, <<5, 4>>, <<5, 8>>, <<5, 16>>, <<5, 32>>,
                  <<5, 64>>, <<3, 128>>, <<1, 84>>>>

\* It is a table whose widths add up.
THEOREM HeaderTableCovers == ASSUME HeaderTable PROVE Spec => []CoversSpectrum
<1> DEFINE start == <<0, 5, 15, 35, 75, 155, 315, 635, 1019, 1103>>
           total == <<0, 5, 10, 15, 20, 25, 30, 35, 38, 39>>
<1>1. Len(buckets_) = 9 /\ fftOutputSize_ = 1103
  BY DEF HeaderTable, fftOutputSize_
<1>2. start \in [1..10 -> 0..fftOutputSize_] /\ total \in [1..10 -> Nat]
  <2>1. start \in Seq(Nat) /\ Len(start) = 10 /\ total \in Seq(Nat) /\ Len(total) = 10
    OBVIOUS
  <2>2. ASSUME NEW k \in 1..10 PROVE start[k] \in Nat /\ start[k] <= 1103
    <3>1. k = 1 \/ k = 2 \/ k = 3 \/ k = 4 \/ k = 5 \/ k = 6 \/ k = 7 \/ k = 8 \/ k = 9 \/ k = 10
      OBVIOUS
    <3> QED
      BY <3>1
  <2> DEFINE S == 0..fftOutputSize_
             i10 == 1..10
  <2> HIDE DEF start, total
  <2>3. \A k \in i10 : start[k] \in S
    <3>1. fftOutputSize_ \in Nat /\ \A k \in i10 : start[k] \in Nat /\ start[k] <= fftOutputSize_
      BY <1>1, <2>2
    <3> QED
      BY <3>1
  <2>4. start = [k \in i10 |-> start[k]] /\ total \in [i10 -> Nat]
    <3>1. 1..Len(start) = i10 /\ 1..Len(total) = i10
      BY <2>1
    <3>2. start \in [1..Len(start) -> Nat] /\ total \in [1..Len(total) -> Nat]
      BY <2>1, LenProperties
    <3> HIDE DEF i10
    <3> QED
      BY <3>1, <3>2
  <2> HIDE DEF S, i10
  <2>5. start \in [i10 -> S]
    BY <2>3, <2>4
  <2> QED
    BY <2>4, <2>5 DEF S, i10
<1>3. ASSUME NEW k \in 1..9
      PROVE  /\ start[k + 1] = start[k] + Count(buckets_[k]) * Width(buckets_[k])
             /\ total[k + 1] = total[k] + Count(buckets_[k])
  <2>1. k = 1 \/ k = 2 \/ k = 3 \/ k = 4 \/ k = 5 \/ k = 6 \/ k = 7 \/ k = 8 \/ k = 9
    OBVIOUS
  <2> QED
    BY <2>1 DEF HeaderTable, Count, Width
<1>4. start[1] = 0 /\ total[1] = 0 /\ start[10] = fftOutputSize_ /\ Features * total[10] = 78
  BY <1>1 DEF Features
<1> HIDE DEF start, total
<1>5. Len(buckets_) + 1 = 10 /\ 1..Len(buckets_) = 1..9 /\ FeaturesDim = 78
  BY <1>1 DEF HeaderTable
<1>6. TableFits(start, total)
  BY <1>1, <1>2, <1>3, <1>4, <1>5 DEF TableFits
<1>7. Spec => [](TypeOK /\ CoversSpectrum)
  BY <1>6, WalkOfSums
<1> QED
  BY <1>7, PTL
=============================================================================
