------------------------------ MODULE Frontend ------------------------------
(***************************************************************************)
(* util/Frontend.cpp: one call of calculate().  It decodes the bytes of a  *)
(* frame into samples, transforms them, and walks over the coefficients in *)
(* buckets of the widths of a table; each bucket gives two features.       *)
(*                                                                         *)
(* The samples are decoded alike and the coefficients are visited alike,   *)
(* so the module follows one sample and one coefficient, any one of them.  *)
(* For the transform itself see KissFft.                                   *)
(***************************************************************************)
EXTENDS Integers, Sequences

CONSTANTS
  frameSize_,   \* samples per frame (2205 in the code)
  buckets_,     \* the table: <<number of buckets, width>>, ...
  FeaturesDim,  \* features the network is trained for (78)
  Calls,        \* calls: [size, bytes of the sample, the coefficient]
  null

Byte == 0..255

\* How many values a short has, and which.
kShorts == 65536
Short == -(kShorts \div 2)..(kShorts \div 2 - 1)

fftOutputSize_ == frameSize_ \div 2 + 1

getSampleSize == 2 * frameSize_

ASSUME FrontendAssumption ==
  /\ frameSize_ \in Nat \ {0}
  /\ buckets_ \in Seq((Nat \ {0}) \X (Nat \ {0})) /\ buckets_ # <<>>
  /\ FeaturesDim \in Nat
  /\ \A c \in Calls : /\ c.size \in Nat
                      /\ c.bytes \in Byte \X Byte
                      /\ c.coefficient \in 0..(fftOutputSize_ - 1)

VARIABLES
  call,         \* the argument and what is followed in it
  pc,           \* "assert", "decode", "walk", "end", "done", "crashed"
  sample,       \* fin_[i].r * 32768
  bucket,       \* number of the row of buckets_
  i,            \* the inner loop's counter
  it,           \* the iterator, as an index of realOutput
  realBuckets,  \* number of features so far
  hits          \* history: buckets the coefficient has been in

vars == <<call, pc, sample, bucket, i, it, realBuckets, hits>>
walkVars == <<bucket, i, it, realBuckets, hits>>

Count(row) == row[1]
Width(row) == row[2]

\* The value a C short has after the conversion of an int.
ToShort(n) == ((n + kShorts \div 2) % kShorts) - kShorts \div 2

Init ==
  /\ call \in Calls
  /\ pc = "assert"
  /\ sample = null
  /\ bucket = 1
  /\ i = 0
  /\ it = 0
  /\ realBuckets = 0
  /\ hits = 0

\* Mutant of SizeFits: the size counted in samples.
SamplesFit == call.size = frameSize_

SizeFits == call.size = getSampleSize

\* assert(samples.size() == getSampleSize())
AssertSize ==
  /\ pc = "assert"
  /\ pc' = IF SizeFits THEN "decode" ELSE "crashed"
  /\ UNCHANGED <<call, sample, walkVars>>

\* (lsb << 8) | msb, with lsb the byte that comes first.
DecodeSample(lsb, msb) == ToShort(lsb * 256 + msb)

Decode ==
  /\ pc = "decode"
  /\ sample' = DecodeSample(call.bytes[1], call.bytes[2])
  /\ pc' = "walk"
  /\ UNCHANGED <<call, walkVars>>

\* Mutant of More: one bucket too many of every width.
OneMore == i < Count(buckets_[bucket])

\* There is another bucket of the same width.
More == i + 1 < Count(buckets_[bucket])

\* The maximum and the minimum.
Features == 2

\* One bucket: [it, it + bucket.second).
Bucket ==
  LET end == it + Width(buckets_[bucket]) IN
  /\ pc = "walk"
  /\ hits' = IF it <= call.coefficient /\ call.coefficient < end
             THEN hits + 1 ELSE hits
  /\ realBuckets' = realBuckets + Features
  /\ it' = end
  /\ i' = IF More THEN i + 1 ELSE 0
  /\ bucket' = IF More THEN bucket ELSE bucket + 1
  /\ pc' = IF More \/ bucket < Len(buckets_) THEN "walk" ELSE "end"
  /\ UNCHANGED <<call, sample>>

\* assert(it == realOutput.end())
AssertEnd ==
  /\ pc = "end"
  /\ pc' = IF it = fftOutputSize_ THEN "done" ELSE "crashed"
  /\ UNCHANGED <<call, sample, walkVars>>

Next == AssertSize \/ Decode \/ Bucket \/ AssertEnd

Spec == Init /\ [][Next]_vars

-----------------------------------------------------------------------------
(***************************************************************************)
(* Properties.                                                             *)
(***************************************************************************)

\* The types, with the iterator inside realOutput: max_element and
\* min_element never read behind its end.
TypeOK ==
  /\ pc \in {"assert", "decode", "walk", "end", "done", "crashed"}
  /\ sample \in Short \cup {null}
  /\ bucket \in 1..(Len(buckets_) + 1)
  /\ i \in Nat
  /\ it \in 0..fftOutputSize_
  /\ realBuckets \in Nat /\ hits \in Nat

\* The walk covers the spectrum: each coefficient is in exactly one bucket,
\* and there are as many features as the network takes; and the assertion
\* behind the walk is never what ends a call, only a frame of another size.
CoversSpectrum ==
  /\ pc = "done" => hits = 1 /\ realBuckets = FeaturesDim
  /\ pc = "crashed" => call.size # getSampleSize
=============================================================================
