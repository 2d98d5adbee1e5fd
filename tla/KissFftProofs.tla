--------------------------- MODULE KissFftProofs ---------------------------
(***************************************************************************)
(* Proofs about KissFft: that kf_factor splits every length an int can     *)
(* hold, and that kiss_fft computes the transform of every input, of every *)
(* length up to 2^30, in both directions.                                  *)
(*                                                                         *)
(* The way to the second: the pairs modulo P are a ring with roots of      *)
(* unity; the sum over a sequence is the sum of the sums over every        *)
(* radix-th of it (Decimation); each butterfly gives the sums of its       *)
(* column, turned (EveryButterfly, from a lemma Rows... for each radix);   *)
(* so a level of kf_work gives the transform when the next one does        *)
(* (LevelStep).                                                            *)
(*                                                                         *)
(* Sums, powers and the recursive functions of KissFft are functions on    *)
(* natural numbers, for which the provers need induction: it is used in    *)
(* the form that a set of natural numbers has a least one.                 *)
(***************************************************************************)
EXTENDS KissFft, SequenceTheorems, FiniteSetTheorems, WellFoundedInduction, TLAPS

(***************************************************************************)
(* Numbers.                                                                *)
(***************************************************************************)

\* A set of natural numbers has a least one.
LEMMA LeastNatural ==
  ASSUME NEW S \in SUBSET Nat, S # {}
  PROVE  \E x \in S : \A y \in S : x <= y
<1> DEFINE R == {ss \in Nat \X Nat : ss[1] < ss[2]}
<1>1. OpToRel(<, Nat) = R
  BY DEF OpToRel
<1>2. IsWellFoundedOn(R, Nat)
  BY <1>1, NatLessThanWellFounded
<1>3. \E x \in S : \A y \in S : ~(<<y, x>> \in R)
  BY <1>2, WFMin
<1>4. PICK x \in S : \A y \in S : ~(<<y, x>> \in R)
  BY <1>3
<1>5. ASSUME NEW y \in S PROVE x <= y
  <2>1. x \in Nat /\ y \in Nat
    OBVIOUS
  <2>2. <<y, x>> \in Nat \X Nat /\ <<y, x>>[1] = y /\ <<y, x>>[2] = x
    BY <2>1
  <2>3. ~(y < x)
    BY <1>4, <2>2
  <2> QED
    BY <2>1, <2>3
<1> QED
  BY <1>5

\* Products that grow with their factors.
LEMMA Products ==
  /\ \A a \in Nat, b \in Nat : a * b \in Nat /\ a * b = b * a
  /\ \A a \in Nat, b \in Nat, c \in Nat : (a * b) * c = a * (b * c)
  /\ \A a \in Nat, b \in Nat, c \in Nat : a <= b => a * c <= b * c
  /\ \A a \in Nat, b \in Nat, c \in Nat, e \in Nat : a <= b /\ c <= e => a * c <= b * e
<1>1. ASSUME NEW a \in Nat, NEW b \in Nat PROVE a * b \in Nat /\ a * b = b * a
  OBVIOUS
<1>2. ASSUME NEW a \in Nat, NEW b \in Nat, NEW c \in Nat PROVE (a * b) * c = a * (b * c)
  OBVIOUS
<1>3. ASSUME NEW a \in Nat, NEW b \in Nat, NEW c \in Nat, a <= b PROVE a * c <= b * c
  <2>1. (b - a) * c \in Nat
    BY <1>1, <1>3
  <2>2. b * c = a * c + (b - a) * c
    OBVIOUS
  <2> QED
    BY <1>1, <2>1, <2>2
<1>4. ASSUME NEW a \in Nat, NEW b \in Nat, NEW c \in Nat, NEW e \in Nat, a <= b, c <= e
      PROVE  a * c <= b * e
  <2>1. a * c <= b * c
    BY <1>3, <1>4
  <2>2. c * b <= e * b
    BY <1>3, <1>4
  <2>3. b * c = c * b /\ b * e = e * b /\ a * c \in Nat /\ b * c \in Nat /\ b * e \in Nat
    BY <1>1
  <2> QED
    BY <2>1, <2>2, <2>3
<1> QED
  BY <1>1, <1>2, <1>3, <1>4

(***************************************************************************)
(* The transform: kf_factor, for every length a C int can hold.            *)
(***************************************************************************)

\* Division with a remainder.
LEMMA Euclid ==
  ASSUME NEW a \in Nat, NEW d \in Nat \ {0}
  PROVE  \E e \in Int, r \in 0..(d - 1) : a = d * e + r /\ e = a \div d /\ r = a % d
<1> DEFINE e == a \div d
           r == a % d
<1>1. e \in Int /\ r \in 0..(d - 1)
  OBVIOUS
<1>2. e = a \div d /\ r = a % d
  OBVIOUS
<1> HIDE DEF e, r
<1>3. a = d * e + r
  BY <1>1, <1>2
<1> QED
  BY <1>1, <1>2, <1>3

\* What % and \div say of a divisor.
LEMMA Exact ==
  ASSUME NEW a \in Nat \ {0}, NEW d \in Nat \ {0}, a % d = 0
  PROVE  a = d * (a \div d) /\ a \div d \in Nat \ {0} /\ a \div d <= a
<1>1. PICK q \in Int, r \in 0..(d - 1) : a = d * q + r /\ q = a \div d /\ r = a % d
  BY Euclid
<1>2. a = d * q
  BY <1>1
<1>3. q > 0
  <2>1. SUFFICES ASSUME q <= 0 PROVE FALSE
    BY <1>2
  <2>2. -q \in Nat /\ d * (-q) \in Nat /\ d * (-q) = -(d * q)
    BY <1>2, <2>1
  <2> QED
    BY <1>2, <2>2
<1>4. 1 * q <= d * q
  BY <1>2, <1>3, Products
<1> QED
  BY <1>1, <1>2, <1>3, <1>4

\* A multiple leaves no remainder.
LEMMA Multiple ==
  ASSUME NEW d \in Nat \ {0}, NEW q \in Nat
  PROVE  (d * q) % d = 0
<1> DEFINE a == d * q
<1>1. a \in Nat
  BY Products
<1>2. a = d * q
  OBVIOUS
<1> HIDE DEF a
<1>3. PICK e \in Int, r \in 0..(d - 1) : a = d * e + r /\ e = a \div d /\ r = a % d
  BY <1>1, Euclid
<1>4. d * (q - e) = r
  <2>1. d * (q - e) = d * q - d * e
    BY <1>3
  <2> QED
    BY <1>1, <1>3, <1>2, <2>1
<1>5. CASE q - e >= 1
  <2>1. q - e \in Nat /\ 1 * d <= (q - e) * d
    BY <1>3, <1>5, Products
  <2>2. (q - e) * d = r
    BY <1>3, <1>4
  <2> QED
    BY <1>3, <2>1, <2>2
<1>6. CASE q - e <= -1
  <2>1. e - q \in Nat /\ 1 * d <= (e - q) * d
    BY <1>3, <1>6, Products
  <2>2. (e - q) * d = -r
    BY <1>3, <1>4
  <2> QED
    BY <1>3, <2>1, <2>2
<1>7. CASE q - e = 0
  BY <1>3, <1>2, <1>4, <1>7
<1> QED
  BY <1>5, <1>6, <1>7

\* A divisor of a divisor.
LEMMA DividesThrough ==
  ASSUME NEW a \in Nat \ {0}, NEW b \in Nat \ {0}, NEW d \in Nat \ {0}, a % b = 0, b % d = 0
  PROVE  a % d = 0
<1>1. a = b * (a \div b) /\ a \div b \in Nat /\ b = d * (b \div d) /\ b \div d \in Nat
  BY Exact
<1> DEFINE q == a \div b
           r == b \div d
<1>2. a = b * q /\ q \in Nat /\ b = d * r /\ r \in Nat
  BY <1>1
<1> HIDE DEF q, r
<1>3. a = (d * r) * q
  BY <1>2
<1>4. (d * r) * q = d * (r * q) /\ r * q \in Nat
  BY <1>2, Products
<1> QED
  BY <1>3, <1>4, Multiple

\* The integer root.
LEMMA Root2 ==
  ASSUME NEW x \in Nat
  PROVE  /\ FloorSqrt(x) \in Nat /\ FloorSqrt(x) * FloorSqrt(x) <= x
         /\ x < (FloorSqrt(x) + 1) * (FloorSqrt(x) + 1)
<1> DEFINE S == {e \in Nat : x < e * e}
<1>1. x + 1 \in S
  <2>1. (x + 1) * (x + 1) = (x + 1) * x + (x + 1) /\ (x + 1) * x \in Nat
    BY Products
  <2> QED
    BY <2>1
<1>2. PICK e \in S : \A y \in S : e <= y
  <2>1. S \in SUBSET Nat /\ S # {}
    BY <1>1
  <2> HIDE DEF S
  <2> QED
    BY <2>1, LeastNatural
<1>3. e \in Nat /\ x < e * e
  OBVIOUS
<1>4. e # 0
  BY <1>3
<1>5. e - 1 \in Nat /\ ~(x < (e - 1) * (e - 1))
  <2>1. e - 1 \in Nat /\ ~(e <= e - 1)
    BY <1>3, <1>4
  <2> QED
    BY <1>2, <2>1
<1>6. (e - 1) * (e - 1) \in Nat /\ (e - 1) * (e - 1) <= x
  BY <1>5, Products
<1>7. e - 1 <= x
  <2>1. CASE e - 1 = 0
    BY <2>1
  <2>2. CASE e - 1 # 0
    <3>1. 1 * (e - 1) <= (e - 1) * (e - 1)
      BY <1>5, <2>2, Products
    <3> QED
      BY <1>5, <1>6, <3>1
  <2> QED
    BY <2>1, <2>2
<1>8. \E d \in 0..x : d * d <= x /\ x < (d + 1) * (d + 1)
  <2>1. e - 1 \in 0..x /\ (e - 1) + 1 = e
    BY <1>3, <1>5, <1>7
  <2> QED
    BY <1>3, <1>6, <2>1
<1>9. FloorSqrt(x) \in 0..x /\ FloorSqrt(x) * FloorSqrt(x) <= x
      /\ x < (FloorSqrt(x) + 1) * (FloorSqrt(x) + 1)
  BY <1>8 DEF FloorSqrt
<1> QED
  BY <1>9

\* 2 ^ (31 - k) - 1 at k: what is left of an int when one bit after the
\* other is shifted out.
Halved ==
  <<2147483647, 1073741823, 536870911, 268435455, 134217727, 67108863, 33554431,
    16777215, 8388607, 4194303, 2097151, 1048575, 524287, 262143, 131071, 65535,
    32767, 16383, 8191, 4095, 2047, 1023, 511, 255, 127, 63, 31, 15, 7, 3, 1>>

Positive == Nat \ {0}

\* The array holds the quotients of nfft one after the other, and n is the
\* last.
Chain ==
  /\ factors \in Seq(Positive \X Positive)
  /\ \A k \in DOMAIN factors :
       /\ factors[k][1] * factors[k][2] = IF k = 1 THEN job.nfft ELSE factors[k - 1][2]
       /\ factors[k][1] = 4 \/ Prime(factors[k][1]) \/ job.nfft = 1
  /\ n = IF factors = <<>> THEN job.nfft ELSE factors[Len(factors)][2]
  /\ n \in Positive /\ n <= job.nfft

NoDivisorBelow(q) == \A d \in 2..(q - 1) : n % d # 0

\* The candidates go up to the root, then to n itself: what has been tried
\* does not divide what is left.
Tried ==
  /\ p \in Positive
  /\ p # 4 => NoDivisorBelow(p)
  /\ stage \in {"alloc", "factor"} => p \in {2, 4} \/ (p % 2 = 1 /\ p >= 3) \/ p = n

\* Each radix takes a bit or more of nfft.
Shrinks == Len(factors) + 1 \in 1..Len(Halved) /\ n <= Halved[Len(factors) + 1]

Staged ==
  /\ stage \in {"alloc", "factor", "work", "done"}
  /\ stage \in {"alloc", "factor"} => factors = <<>> \/ n > 1
  /\ stage \in {"work", "done"} => factors # <<>> /\ n = 1

FactorInv == job \in Jobs /\ Chain /\ Tried /\ Shrinks /\ Staged

\* The length is a positive int.
LEMMA JobType == ASSUME NEW j \in Jobs PROVE j.nfft \in Positive /\ j.nfft <= INT_MAX
BY KissFftAssumption DEF Positive

\* The table's numbers, out of the provers' sight.
LEMMA HalvedFacts ==
  /\ Len(Halved) = 31 /\ Halved[1] = INT_MAX /\ Halved[31] = 1 /\ Halved[1] >= 2
  /\ \A k \in 1..31 : Halved[k] \in Nat
  /\ \A k \in 1..30 : \A x \in Nat : 2 * x <= Halved[k] => x <= Halved[k + 1]
<1>1. Len(Halved) = 31 /\ Halved[1] = INT_MAX /\ Halved[31] = 1 /\ Halved[1] >= 2
  BY SMT DEF Halved, INT_MAX
<1>2. ASSUME NEW k \in 1..31 PROVE Halved[k] \in Nat
  BY SMT DEF Halved
<1>3. ASSUME NEW k \in 1..30 PROVE Halved[k] = 2 * Halved[k + 1] + 1
  BY SMT DEF Halved
<1>4. ASSUME NEW k \in 1..30, NEW x \in Nat, 2 * x <= Halved[k] PROVE x <= Halved[k + 1]
  <2>1. k + 1 \in 1..31
    OBVIOUS
  <2>2. Halved[k] = 2 * Halved[k + 1] + 1 /\ Halved[k + 1] \in Nat
    BY <1>2, <1>3, <2>1
  <2> QED
    BY <1>4, <2>2
<1> QED
  BY <1>1, <1>2, <1>4

\* Nothing is split off yet.
LEMMA FactorInit == FftInit => FactorInv
<1> SUFFICES ASSUME FftInit PROVE FactorInv
  OBVIOUS
<1>1. /\ job \in Jobs /\ stage = "alloc" /\ factors = <<>> /\ p = 4 /\ n = job.nfft
  BY DEF FftInit
<1>2. n \in Positive /\ n <= INT_MAX /\ p \in Positive
  BY <1>1, JobType DEF Positive
<1>3. factors \in Seq(Positive \X Positive) /\ Len(factors) = 0 /\ DOMAIN factors = {}
  BY <1>1
<1>4. Chain
  BY <1>1, <1>2, <1>3 DEF Chain, Positive
<1>5. Shrinks
  BY <1>2, <1>3, HalvedFacts DEF Shrinks
<1> QED
  BY <1>1, <1>2, <1>4, <1>5 DEF FactorInv, Tried, Staged

\* The steps around the loop.
LEMMA FactorElse ==
  ASSUME FactorInv, Alloc \/ Transform \/ UNCHANGED fftVars
  PROVE  FactorInv'
<1>1. /\ UNCHANGED <<job, factors, p, n>>
      /\ \/ stage' = stage
         \/ stage = "alloc" /\ stage' = "factor"
         \/ stage = "work" /\ stage' = "done"
  BY DEF Alloc, Transform, fftVars
<1>2. Chain' /\ Shrinks'
  BY <1>1 DEF FactorInv, Chain, Shrinks, Prime
<1>3. Tried'
  BY <1>1 DEF FactorInv, Tried, NoDivisorBelow, Staged
<1>4. Staged'
  BY <1>1 DEF FactorInv, Staged
<1> QED
  BY <1>1, <1>2, <1>3, <1>4 DEF FactorInv

\* What has no divisor up to the root of nfft has none at all.
LEMMA NoneLeft ==
  ASSUME job.nfft \in Positive, n \in Positive, n <= job.nfft,
         NEW q \in Nat, q > FloorSqrt(job.nfft), NoDivisorBelow(q)
  PROVE  NoDivisorBelow(n)
<1> DEFINE s == FloorSqrt(job.nfft)
<1>1. s \in Nat /\ job.nfft < (s + 1) * (s + 1) /\ job.nfft \in Nat
  BY Root2 DEF Positive
<1>2. q > s
  OBVIOUS
<1> HIDE DEF s
<1>3. \A d \in 2..s : n % d # 0
  BY <1>1, <1>2 DEF NoDivisorBelow
<1>4. SUFFICES ASSUME NEW d \in 2..(n - 1), n % d = 0 PROVE FALSE
  BY DEF NoDivisorBelow
<1>5. d \in Nat \ {0} /\ n \in Nat \ {0} /\ d >= 2 /\ d < n
  BY DEF Positive
<1> DEFINE e == n \div d
<1>6. n = d * e /\ e \in Nat \ {0}
  BY <1>4, <1>5, Exact
<1> HIDE DEF e
<1>7. n = e * d
  BY <1>5, <1>6, Products
<1>8. n % e = 0
  BY <1>5, <1>6, <1>7, Multiple
<1>9. e # 1
  BY <1>5, <1>6
<1>10. d > s /\ e > s
  <2>1. d \notin 2..s /\ e \notin 2..s
    BY <1>3, <1>4, <1>8
  <2>2. e \in Nat /\ e >= 2
    BY <1>6, <1>9
  <2> QED
    BY <1>1, <1>5, <2>1, <2>2
<1>11. (s + 1) * (s + 1) <= d * e
  BY <1>1, <1>5, <1>6, <1>10, Products
<1> QED
  BY <1>1, <1>5, <1>6, <1>11, Products

\* The next candidate, with the one before ruled out.
LEMMA CandidateStep ==
  ASSUME FactorInv, TryNextRadix
  PROVE  FactorInv'
<1> DEFINE next == CASE p = 4 -> 2 [] p = 2 -> 3 [] OTHER -> p + 2
<1>1. /\ stage = "factor" /\ n % p # 0 /\ UNCHANGED <<job, stage, factors, n>>
      /\ p' = IF next > FloorSqrt(job.nfft) THEN n ELSE next
  BY DEF TryNextRadix, NextRadix
<1>2. /\ n \in Positive /\ n <= job.nfft /\ job.nfft \in Positive /\ p \in Positive
      /\ p # 4 => NoDivisorBelow(p)
  BY JobType DEF FactorInv, Chain, Tried
<1>3. n % n = 0
  BY <1>2 DEF Positive
<1>4. p \in {2, 4} \/ (p % 2 = 1 /\ p >= 3)
  BY <1>1, <1>3 DEF FactorInv, Tried
<1>5. next \in Positive /\ NoDivisorBelow(next) /\ (next = 2 \/ (next % 2 = 1 /\ next >= 3))
  <2>1. CASE p = 4
    BY <2>1 DEF NoDivisorBelow, Positive
  <2>2. CASE p = 2
    BY <1>1, <2>2 DEF NoDivisorBelow, Positive
  <2>3. CASE p # 2 /\ p # 4
    <3>1. next = p + 2 /\ p % 2 = 1 /\ p >= 3 /\ p \in Nat
      BY <1>2, <1>4, <2>3 DEF Positive
    <3>2. NoDivisorBelow(p) /\ n % 2 # 0
      BY <1>2, <2>3, <3>1 DEF NoDivisorBelow
    <3>3. n % (p + 1) # 0
      <4>1. SUFFICES ASSUME n % (p + 1) = 0 PROVE FALSE
        OBVIOUS
      <4>2. (p + 1) % 2 = 0 /\ p + 1 \in Nat \ {0} /\ 2 \in Nat \ {0} /\ n \in Nat \ {0}
        BY <1>2, <3>1 DEF Positive
      <4> QED
        BY <3>2, <4>1, <4>2, DividesThrough
    <3>4. NoDivisorBelow(p + 2)
      <4>1. ASSUME NEW d \in 2..(p + 1) PROVE n % d # 0
        <5>1. d \in 2..(p - 1) \/ d = p \/ d = p + 1
          BY <3>1
        <5> QED
          BY <1>1, <3>2, <3>3, <5>1 DEF NoDivisorBelow
      <4>2. (p + 2) - 1 = p + 1
        BY <3>1
      <4> QED
        BY <4>1, <4>2 DEF NoDivisorBelow
    <3>5. (p + 2) % 2 = 1 /\ p + 2 >= 3 /\ p + 2 \in Positive
      BY <3>1 DEF Positive
    <3> QED
      BY <3>1, <3>4, <3>5
  <2> QED
    BY <2>1, <2>2, <2>3
<1> HIDE DEF next
<1>6. NoDivisorBelow(p') /\ p' \in Positive
      /\ (p' \in {2, 4} \/ (p' % 2 = 1 /\ p' >= 3) \/ p' = n)
  <2>1. CASE next > FloorSqrt(job.nfft)
    <3>1. p' = n /\ next \in Nat
      BY <1>1, <1>5, <2>1 DEF Positive
    <3>2. NoDivisorBelow(n)
      BY <1>2, <1>5, <2>1, <3>1, NoneLeft
    <3> QED
      BY <1>2, <3>1, <3>2
  <2>2. CASE ~(next > FloorSqrt(job.nfft))
    BY <1>1, <1>5, <2>2
  <2> QED
    BY <2>1, <2>2
<1>7. Tried'
  BY <1>1, <1>6 DEF Tried, NoDivisorBelow
<1>8. Chain' /\ Shrinks' /\ Staged'
  BY <1>1 DEF FactorInv, Chain, Shrinks, Staged, Prime
<1> QED
  BY <1>1, <1>7, <1>8 DEF FactorInv

\* What divides n and has been tried from 2 on is a prime.
LEMMA RadixIsPrime ==
  ASSUME n \in Positive, NEW q \in Nat, q >= 2, n % q = 0, NoDivisorBelow(q)
  PROVE  Prime(q)
<1> DEFINE s == FloorSqrt(q)
<1>1. s \in Nat /\ s * s <= q
  BY Root2
<1>2. SUFFICES ASSUME NEW d \in 2..s, q % d = 0 PROVE FALSE
  BY DEF Prime
<1> HIDE DEF s
<1>3. s < q
  <2>1. SUFFICES ASSUME q <= s PROVE FALSE
    BY <1>1
  <2>2. q * q <= s * s /\ 2 * q <= q * q /\ q * q \in Nat /\ s * s \in Nat
    BY <1>1, <2>1, Products
  <2> QED
    BY <1>1, <2>2
<1>4. d \in 2..(q - 1) /\ d \in Nat \ {0} /\ q \in Nat \ {0} /\ n \in Nat \ {0}
  BY <1>1, <1>3 DEF Positive
<1>5. n % d = 0
  BY <1>2, <1>4, DividesThrough
<1> QED
  BY <1>4, <1>5 DEF NoDivisorBelow

\* One radix more.
LEMMA SplitStep ==
  ASSUME FactorInv, SplitOff
  PROVE  FactorInv'
<1> DEFINE r == n \div p
           len == Len(factors)
<1>1. /\ stage = "factor" /\ n % p = 0 /\ UNCHANGED <<job, p>>
      /\ n' = r /\ factors' = Append(factors, <<p, r>>)
      /\ stage' = IF r > 1 THEN "factor" ELSE "work"
  BY DEF SplitOff
<1>2. /\ n \in Positive /\ n <= job.nfft /\ job.nfft \in Positive /\ p \in Positive
      /\ p # 4 => NoDivisorBelow(p)
      /\ factors \in Seq(Positive \X Positive) /\ len \in Nat
  BY JobType, LenProperties DEF FactorInv, Chain, Tried
<1>3. n = p * r /\ r \in Positive /\ r <= n
  BY <1>1, <1>2, Exact DEF Positive
<1> HIDE DEF r, len
<1>nat. r \in Nat /\ n \in Nat /\ job.nfft \in Nat /\ len \in Nat /\ r # 0
  BY <1>2, <1>3 DEF Positive
<1>4. /\ factors' \in Seq(Positive \X Positive) /\ len = Len(factors) /\ Len(factors') = len + 1
      /\ factors'[len + 1] = <<p, r>>
      /\ \A k \in 1..len : factors'[k] = factors[k]
      /\ DOMAIN factors' = 1..(len + 1) /\ DOMAIN factors = 1..len
  <2>1. <<p, r>> \in Positive \X Positive
    BY <1>2, <1>3
  <2> QED
    BY <1>1, <1>2, <2>1, AppendProperties, LenProperties DEF len
<1>5. p = 4 \/ Prime(p) \/ job.nfft = 1
  <2>1. CASE p = 1
    <3>1. n = 1
      BY <1>1, <2>1 DEF FactorInv, Tried
    <3>2. job.nfft = 1
      BY <1>1, <3>1 DEF FactorInv, Staged, Chain
    <3> QED
      BY <3>2
  <2>2. CASE p # 1 /\ p # 4
    BY <1>1, <1>2, <2>2, RadixIsPrime DEF Positive
  <2> QED
    BY <2>1, <2>2
<1>6. n = IF len + 1 = 1 THEN job.nfft ELSE factors'[len][2]
  <2>1. CASE factors = <<>>
    BY <1>2, <2>1 DEF FactorInv, Chain, len
  <2>2. CASE factors # <<>>
    <3>1. len # 0 /\ len \in 1..len /\ len + 1 # 1
      BY <1>2, <2>2, EmptySeq DEF len
    <3>2. n = factors[len][2]
      BY <2>2 DEF FactorInv, Chain, len
    <3> QED
      BY <1>4, <3>1, <3>2
  <2> QED
    BY <2>1, <2>2
<1>7. Chain'
  <2>1. ASSUME NEW k \in 1..(len + 1)
        PROVE  /\ factors'[k][1] * factors'[k][2] = IF k = 1 THEN job.nfft ELSE factors'[k - 1][2]
               /\ factors'[k][1] = 4 \/ Prime(factors'[k][1]) \/ job.nfft = 1
    <3>1. CASE k = len + 1
      <4>1. factors'[k][1] = p /\ factors'[k][2] = r /\ k - 1 = len
        BY <1>2, <1>4, <3>1
      <4> QED
        BY <1>3, <1>5, <1>6, <3>1, <4>1
    <3>2. CASE k # len + 1
      <4>1. k \in 1..len /\ (k # 1 => k - 1 \in 1..len)
        BY <1>2, <3>2
      <4>2. factors'[k] = factors[k] /\ (k # 1 => factors'[k - 1] = factors[k - 1])
        BY <1>4, <4>1
      <4>3. /\ factors[k][1] * factors[k][2] = IF k = 1 THEN job.nfft ELSE factors[k - 1][2]
            /\ factors[k][1] = 4 \/ Prime(factors[k][1]) \/ job.nfft = 1
        BY <1>4, <4>1 DEF FactorInv, Chain
      <4> QED
        BY <4>2, <4>3
    <3> QED
      BY <3>1, <3>2
  <2>2. factors' # <<>> /\ factors'[Len(factors')][2] = r
    BY <1>2, <1>4
  <2>3. r \in Positive /\ r <= job.nfft
    <3>1. r <= n /\ n <= job.nfft
      BY <1>2, <1>3
    <3> QED
      BY <1>nat, <3>1 DEF Positive
  <2> QED
    BY <1>1, <1>4, <2>1, <2>2, <2>3 DEF Chain, Prime
<1>8. Tried'
  <2>1. ASSUME p # 4, NEW d \in 2..(p - 1) PROVE r % d # 0
    <3>1. SUFFICES ASSUME r % d = 0 PROVE FALSE
      OBVIOUS
    <3>2. d \in Nat \ {0} /\ r \in Nat \ {0} /\ n \in Nat \ {0} /\ p \in Nat
      BY <1>2, <1>3 DEF Positive
    <3>3. n % r = 0
      <4>1. n = r * p
        BY <1>3, <3>2, Products
      <4> QED
        BY <3>2, <4>1, Multiple
    <3>4. n % d = 0
      BY <3>1, <3>2, <3>3, DividesThrough
    <3> QED
      BY <1>2, <2>1, <3>4 DEF NoDivisorBelow
  <2>2. r > 1 => p # n
    <3>1. ASSUME p = n PROVE r = 1
      <4>1. r >= 1 /\ p >= 1 /\ r \in Nat /\ p \in Nat /\ p = p * r
        BY <1>2, <1>3, <3>1 DEF Positive
      <4>2. CASE r >= 2
        <5>1. 2 * p <= r * p /\ r * p = p * r
          BY <4>1, <4>2, Products
        <5> QED
          BY <4>1, <5>1
      <4> QED
        BY <4>1, <4>2
    <3> QED
      BY <3>1
  <2>3. stage' \in {"alloc", "factor"} => r > 1
    BY <1>1
  <2>4. stage' \in {"alloc", "factor"} => p \in {2, 4} \/ (p % 2 = 1 /\ p >= 3)
    BY <1>1, <2>2, <2>3 DEF FactorInv, Tried
  <2> QED
    BY <1>1, <1>2, <2>1, <2>4 DEF Tried, NoDivisorBelow
<1>9. Shrinks'
  <2>1. len + 1 \in 1..31 /\ n <= Halved[len + 1] /\ Halved[len + 1] \in Nat
    BY HalvedFacts DEF FactorInv, Shrinks, len
  <2>2. CASE p = 1
    <3>1. n = 1
      BY <1>1, <2>2 DEF FactorInv, Tried
    <3>2. len = 0
      BY <1>1, <3>1 DEF FactorInv, Staged, len
    <3>3. r = 1 /\ 1 \in 1..30 /\ 2 * 1 <= Halved[1]
      BY <1>3, <3>1, HalvedFacts DEF Positive
    <3>4. r <= Halved[1 + 1]
      BY <3>3, HalvedFacts
    <3> QED
      BY <1>1, <1>4, <3>2, <3>4, HalvedFacts DEF Shrinks
  <2>3. CASE p # 1
    <3>1. 2 * r <= p * r /\ p >= 2 /\ r >= 1 /\ r \in Nat
      BY <1>2, <1>3, <2>3, Products DEF Positive
    <3>2. 2 * r <= Halved[len + 1]
      <4>1. 2 * r <= n
        BY <1>3, <3>1
      <4> QED
        BY <1>nat, <2>1, <4>1
    <3>3. len + 1 # 31
      BY <2>1, <3>1, <3>2, HalvedFacts
    <3>4. len + 1 \in 1..30 /\ (len + 1) + 1 \in 1..31
      BY <1>nat, <2>1, <3>3
    <3>5. r <= Halved[(len + 1) + 1]
      BY <3>1, <3>2, <3>4, HalvedFacts
    <3> QED
      BY <1>1, <1>4, <3>4, <3>5, HalvedFacts DEF Shrinks
  <2> QED
    BY <2>2, <2>3
<1>10. Staged'
  <2>1. factors' # <<>>
    BY <1>2, <1>4
  <2>2. r > 1 \/ r = 1
    BY <1>3 DEF Positive
  <2> QED
    BY <1>1, <2>1, <2>2 DEF Staged
<1> QED
  BY <1>1, <1>7, <1>8, <1>9, <1>10 DEF FactorInv

\* The invariant of kf_factor for every length and both directions.
THEOREM FactorInvHolds == FftSpec => []FactorInv
<1>1. FactorInv /\ [FftNext]_fftVars => FactorInv'
  BY FactorElse, CandidateStep, SplitStep DEF FftNext
<1> QED
  BY <1>1, FactorInit, PTL DEF FftSpec

\* kf_factor gives kf_work what it needs for every length an int can hold:
\* factors that multiply to the length, each 4 or a prime, down to a last
\* remainder of 1, and never more than the array has room for.
THEOREM FactorsAlwaysCompose == FftSpec => []FactorsCompose
<1>1. ASSUME FactorInv PROVE FactorsCompose
  <2>1. Len(factors) <= MAXFACTORS
    <3>1. Len(factors) \in Nat
      BY <1>1, LenProperties DEF FactorInv, Chain
    <3>2. Len(factors) + 1 \in 1..31
      BY <1>1, HalvedFacts DEF FactorInv, Shrinks
    <3>3. \A l \in Nat : l + 1 \in 1..31 => l <= MAXFACTORS
      BY DEF MAXFACTORS
    <3> QED
      BY <3>1, <3>2, <3>3
  <2>2. stage \in {"work", "done"} => factors[Len(factors)][2] = 1
    BY <1>1 DEF FactorInv, Chain, Staged
  <2> QED
    BY <1>1, <2>1, <2>2 DEF FactorInv, Chain, FactorsCompose
<1> QED
  BY <1>1, FactorInvHolds, PTL

(***************************************************************************)
(* The numbers modulo P.                                                   *)
(***************************************************************************)

\* A remainder is the only number of its kind.
LEMMA RemainderIs ==
  ASSUME NEW b \in Nat \ {0}, NEW e \in Int, NEW r \in 0..(b - 1), NEW x \in Int, x = b * e + r
  PROVE  x % b = r /\ x \div b = e
<1> DEFINE f == x \div b
           s == x % b
<1>1. f \in Int /\ s \in 0..(b - 1)
  OBVIOUS
<1>2. x = b * f + s
  <2>1. \A a \in Int, d \in Nat \ {0} : a = d * (a \div d) + (a % d)
    OBVIOUS
  <2> QED
    BY <2>1
<1> HIDE DEF f, s
<1>3. b * (e - f) = s - r
  <2>1. b * (e - f) = b * e - b * f
    BY <1>1
  <2> QED
    BY <1>1, <1>2, <2>1
<1>4. e = f
  <2>1. CASE e - f >= 1
    <3>1. 1 * b <= (e - f) * b /\ (e - f) * b = b * (e - f)
      BY <1>1, <2>1, Products
    <3> QED
      BY <1>1, <1>3, <3>1
  <2>2. CASE e - f <= -1
    <3>1. 1 * b <= (f - e) * b /\ (f - e) * b = -(b * (e - f))
      BY <1>1, <2>2, Products
    <3> QED
      BY <1>1, <1>3, <3>1
  <2> QED
    BY <1>1, <2>1, <2>2
<1>5. r = s
  BY <1>1, <1>2, <1>4
<1> QED
  BY <1>4, <1>5 DEF f, s

\* P is odd, so that it has a half for HALF_OF.
LEMMA ModulusOdd ==
  P \in Nat \ {0} /\ P >= 3 /\ (P + 1) \div 2 \in Nat /\ 2 * ((P + 1) \div 2) = P + 1
<1>1. P \in Nat /\ P % 4 = 3
  BY KissFftAssumption
<1>2. PICK q \in Int : P = 4 * q + 3
  <2>1. \E e \in Int, r \in 0..(4 - 1) : P = 4 * e + r /\ e = P \div 4 /\ r = P % 4
    BY <1>1, Euclid
  <2> QED
    BY <1>1, <2>1
<1> QED
  BY <1>1, <1>2

\* What Mod does ...
LEMMA ModIs == ASSUME NEW x \in Int PROVE Mod(x) \in 0..(P - 1) /\ \E q \in Int : x = P * q + Mod(x)
<1>1. P \in Nat \ {0}
  BY ModulusOdd
<1>2. \A a \in Int, d \in Nat \ {0} : a = d * (a \div d) + (a % d) /\ a % d \in 0..(d - 1) /\ a \div d \in Int
  OBVIOUS
<1> QED
  BY <1>1, <1>2 DEF Mod

\* ... leaves a small number alone ...
LEMMA ModOfSmall == ASSUME NEW x \in 0..(P - 1) PROVE Mod(x) = x
<1>1. P \in Nat \ {0} /\ x \in Int /\ x = P * 0 + x
  BY ModulusOdd
<1> QED
  BY <1>1, RemainderIs DEF Mod

\* Congruent numbers.
LEMMA ModShift == ASSUME NEW x \in Int, NEW q \in Int PROVE Mod(x + P * q) = Mod(x)
<1>1. PICK e \in Int : x = P * e + Mod(x)
  BY ModIs
<1>2. P \in Nat \ {0} /\ Mod(x) \in 0..(P - 1)
  BY ModIs, ModulusOdd
<1> DEFINE y == x + P * q
           m == Mod(x)
<1>3. y \in Int /\ y = P * (e + q) + m /\ e + q \in Int /\ m \in 0..(P - 1)
  BY <1>1, <1>2
<1> HIDE DEF y, m
<1>4. y % P = m
  BY <1>2, <1>3, RemainderIs
<1> QED
  BY <1>4 DEF y, m, Mod

\* It may be applied early or late, to one operand ...
LEMMA ModOps ==
  ASSUME NEW x \in Int, NEW y \in Int
  PROVE  /\ Mod(Mod(x) + y) = Mod(x + y) /\ Mod(x + Mod(y)) = Mod(x + y)
         /\ Mod(Mod(x) - y) = Mod(x - y) /\ Mod(x - Mod(y)) = Mod(x - y)
         /\ Mod(Mod(x) * y) = Mod(x * y) /\ Mod(x * Mod(y)) = Mod(x * y)
<1>1. PICK e \in Int : x = P * e + Mod(x)
  BY ModIs
<1>2. PICK f \in Int : y = P * f + Mod(y)
  BY ModIs
<1> DEFINE m == Mod(x)
           n0 == Mod(y)
<1>3. P \in Int /\ m \in Int /\ n0 \in Int
  BY ModIs, ModulusOdd
<1>4. x = P * e + m /\ y = P * f + n0
  BY <1>1, <1>2
<1> HIDE DEF m, n0
<1>5. /\ m + y = (x + y) + P * (-e) /\ x + n0 = (x + y) + P * (-f)
      /\ m - y = (x - y) + P * (-e) /\ x - n0 = (x - y) + P * f
  BY <1>3, <1>4
<1>6. m * y = x * y + P * (-(e * y)) /\ x * n0 = x * y + P * (-(x * f))
  <2>1. m = x - P * e /\ n0 = y - P * f
    BY <1>3, <1>4
  <2>2. (x - P * e) * y = x * y + P * (-(e * y))
    BY <1>3
  <2>3. x * (y - P * f) = x * y + P * (-(x * f))
    BY <1>3
  <2> QED
    BY <2>1, <2>2, <2>3
<1>7. /\ x + y \in Int /\ x - y \in Int /\ x * y \in Int /\ -e \in Int /\ -f \in Int
      /\ -(e * y) \in Int /\ -(x * f) \in Int
  OBVIOUS
<1>8. Mod(m + y) = Mod(x + y) /\ Mod(x + n0) = Mod(x + y)
  BY <1>5, <1>7, ModShift
<1>9. Mod(m - y) = Mod(x - y) /\ Mod(x - n0) = Mod(x - y)
  BY <1>5, <1>7, ModShift
<1>10. Mod(m * y) = Mod(x * y) /\ Mod(x * n0) = Mod(x * y)
  BY <1>6, <1>7, ModShift
<1> QED
  BY <1>8, <1>9, <1>10 DEF m, n0

\* The same with both sides reduced.
LEMMA ModBoth ==
  ASSUME NEW s \in Int, NEW t \in Int
  PROVE  /\ Mod(Mod(s) + Mod(t)) = Mod(s + t) /\ Mod(Mod(s) - Mod(t)) = Mod(s - t)
         /\ Mod(Mod(s) * Mod(t)) = Mod(s * t)
<1>1. Mod(s) \in Int
  BY ModIs
<1>2. /\ Mod(Mod(s) + Mod(t)) = Mod(Mod(s) + t) /\ Mod(Mod(s) - Mod(t)) = Mod(Mod(s) - t)
      /\ Mod(Mod(s) * Mod(t)) = Mod(Mod(s) * t)
  BY <1>1, ModOps
<1>3. Mod(Mod(s) + t) = Mod(s + t) /\ Mod(Mod(s) - t) = Mod(s - t) /\ Mod(Mod(s) * t) = Mod(s * t)
  BY ModOps
<1> QED
  BY <1>2, <1>3

\* ... and to all four of a product of complex numbers.
LEMMA ModDot ==
  ASSUME NEW s \in Int, NEW t \in Int, NEW u \in Int, NEW v \in Int
  PROVE  /\ Mod(Mod(s) * Mod(t) + Mod(u) * Mod(v)) = Mod(s * t + u * v)
         /\ Mod(Mod(s) * Mod(t) - Mod(u) * Mod(v)) = Mod(s * t - u * v)
<1> DEFINE w == Mod(s) * Mod(t)
           w1 == Mod(u) * Mod(v)
           z == s * t
           z1 == u * v
<1>1. w \in Int /\ w1 \in Int
  <2>1. Mod(s) \in Int /\ Mod(t) \in Int /\ Mod(u) \in Int /\ Mod(v) \in Int
    BY ModIs
  <2> QED
    BY <2>1
<1>2. Mod(w) = Mod(z) /\ Mod(w1) = Mod(z1)
  BY ModBoth
<1>3. z \in Int /\ z1 \in Int
  OBVIOUS
<1> HIDE DEF w, w1, z, z1
<1>4. Mod(w + w1) = Mod(Mod(w) + Mod(w1)) /\ Mod(w - w1) = Mod(Mod(w) - Mod(w1))
  BY <1>1, ModBoth
<1>5. Mod(z + z1) = Mod(Mod(z) + Mod(z1)) /\ Mod(z - z1) = Mod(Mod(z) - Mod(z1))
  BY <1>3, ModBoth
<1>6. Mod(w + w1) = Mod(z + z1) /\ Mod(w - w1) = Mod(z - z1)
  BY <1>2, <1>4, <1>5
<1> QED
  BY <1>6 DEF w, w1, z, z1

(***************************************************************************)
(* kiss_fft_cpx: every operation is one on integers, reduced in the end.   *)
(***************************************************************************)

\* The two parts of a number.
LEMMA CpxIs ==
  /\ \A c \in Complex : c.r \in Int /\ c.i \in Int /\ Cpx(c.r, c.i) = c
  /\ \A x, y \in Int : Cpx(x, y) \in Complex /\ Cpx(x, y).r = Mod(x) /\ Cpx(x, y).i = Mod(y)
<1>1. ASSUME NEW c \in Complex PROVE c.r \in Int /\ c.i \in Int /\ Cpx(c.r, c.i) = c
  <2>1. c.r \in 0..(P - 1) /\ c.i \in 0..(P - 1) /\ c = [r |-> c.r, i |-> c.i]
    BY DEF Complex
  <2>2. Mod(c.r) = c.r /\ Mod(c.i) = c.i
    BY <2>1, ModOfSmall
  <2> QED
    BY <2>1, <2>2 DEF Cpx
<1>2. ASSUME NEW x \in Int, NEW y \in Int
      PROVE  Cpx(x, y) \in Complex /\ Cpx(x, y).r = Mod(x) /\ Cpx(x, y).i = Mod(y)
  <2>1. Mod(x) \in 0..(P - 1) /\ Mod(y) \in 0..(P - 1)
    BY ModIs
  <2> QED
    BY <2>1 DEF Cpx, Complex
<1> QED
  BY <1>1, <1>2

\* Every operation on reduced parts is the one on the parts, reduced.
LEMMA CpxOps ==
  ASSUME NEW x \in Int, NEW y \in Int, NEW u \in Int, NEW v \in Int
  PROVE  /\ C_ADD(Cpx(x, y), Cpx(u, v)) = Cpx(x + u, y + v)
         /\ C_SUB(Cpx(x, y), Cpx(u, v)) = Cpx(x - u, y - v)
         /\ C_MUL(Cpx(x, y), Cpx(u, v)) = Cpx(x * u - y * v, x * v + y * u)
         /\ PlusI(Cpx(x, y), Cpx(u, v)) = Cpx(x - v, y + u)
         /\ MinusI(Cpx(x, y), Cpx(u, v)) = Cpx(x + v, y - u)
         /\ C_MULBYSCALAR(Cpx(x, y), u) = Cpx(x * u, y * u)
<1> DEFINE a == Cpx(x, y)
           b == Cpx(u, v)
<1>1. a.r = Mod(x) /\ a.i = Mod(y) /\ b.r = Mod(u) /\ b.i = Mod(v)
  BY CpxIs
<1>2. Mod(x) \in Int /\ Mod(y) \in Int /\ Mod(u) \in Int /\ Mod(v) \in Int
  BY ModIs
<1> HIDE DEF a, b
<1>4. C_ADD(a, b) = Cpx(x + u, y + v) /\ C_SUB(a, b) = Cpx(x - u, y - v)
  BY <1>1, ModBoth DEF C_ADD, C_SUB, Cpx
<1>5. PlusI(a, b) = Cpx(x - v, y + u) /\ MinusI(a, b) = Cpx(x + v, y - u)
  BY <1>1, ModBoth DEF PlusI, MinusI, Cpx
<1>6. C_MULBYSCALAR(a, u) = Cpx(x * u, y * u)
  BY <1>1, ModOps DEF C_MULBYSCALAR, Cpx
<1>8. C_MUL(a, b) = Cpx(x * u - y * v, x * v + y * u)
  <2>1. /\ Mod(Mod(x) * Mod(u) - Mod(y) * Mod(v)) = Mod(x * u - y * v)
        /\ Mod(Mod(x) * Mod(v) + Mod(y) * Mod(u)) = Mod(x * v + y * u)
    BY ModDot
  <2> QED
    BY <1>1, <2>1 DEF C_MUL, Cpx
<1> QED
  BY <1>4, <1>5, <1>6, <1>8 DEF a, b

Zero == Cpx(0, 0)
One  == Cpx(1, 0)
Conj(c) == Cpx(c.r, -c.i)

\* 0 and 1 are numbers.
LEMMA Constants == Zero \in Complex /\ One \in Complex
BY CpxIs DEF Zero, One

\* The laws of a commutative ring.
LEMMA Closed ==
  ASSUME NEW a \in Complex, NEW b \in Complex
  PROVE  /\ C_ADD(a, b) \in Complex /\ C_SUB(a, b) \in Complex /\ C_MUL(a, b) \in Complex
         /\ PlusI(a, b) \in Complex /\ MinusI(a, b) \in Complex /\ Conj(a) \in Complex
         /\ C_MULBYSCALAR(a, b.r) \in Complex /\ C_MULBYSCALAR(a, b.i) \in Complex
<1>1. a.r \in Int /\ a.i \in Int /\ b.r \in Int /\ b.i \in Int
  BY CpxIs
<1>2. \A x, y \in Int : Cpx(x, y) \in Complex
  BY CpxIs
<1>3. a.r * b.r - a.i * b.i \in Int /\ a.r * b.i + a.i * b.r \in Int
  BY <1>1
<1>4. a.r * b.r \in Int /\ a.i * b.r \in Int /\ a.r * b.i \in Int /\ a.i * b.i \in Int
  BY <1>1
<1> QED
  BY <1>1, <1>2, <1>3, <1>4 DEF C_ADD, C_SUB, C_MUL, PlusI, MinusI, Conj, C_MULBYSCALAR

\* The laws of a ring: commutativity,
LEMMA Commutes ==
  ASSUME NEW a \in Complex, NEW b \in Complex
  PROVE  C_ADD(a, b) = C_ADD(b, a) /\ C_MUL(a, b) = C_MUL(b, a)
<1>1. a.r \in Int /\ a.i \in Int /\ b.r \in Int /\ b.i \in Int
  BY CpxIs
<1>2. a.r + b.r = b.r + a.r /\ a.i + b.i = b.i + a.i
  BY <1>1
<1>3. a.r * b.r - a.i * b.i = b.r * a.r - b.i * a.i /\ a.r * b.i + a.i * b.r = b.r * a.i + b.i * a.r
  BY <1>1
<1> QED
  BY <1>2, <1>3 DEF C_ADD, C_MUL

\* 0 and 1,
LEMMA Neutral ==
  ASSUME NEW a \in Complex
  PROVE  /\ C_ADD(a, Zero) = a /\ C_ADD(Zero, a) = a
         /\ C_MUL(a, One) = a /\ C_MUL(One, a) = a
         /\ C_MUL(a, Zero) = Zero /\ C_MUL(Zero, a) = Zero
<1>1. a.r \in Int /\ a.i \in Int /\ a = Cpx(a.r, a.i)
  BY CpxIs
<1> DEFINE x == a.r  y == a.i
<1> HIDE DEF x, y
<1>0. x \in Int /\ y \in Int /\ a = Cpx(x, y)
  BY <1>1 DEF x, y
<1>2. C_ADD(Cpx(x, y), Cpx(0, 0)) = Cpx(x + 0, y + 0)
  BY <1>0, CpxOps
<1>3. C_MUL(Cpx(x, y), Cpx(1, 0)) = Cpx(x * 1 - y * 0, x * 0 + y * 1)
  BY <1>0, CpxOps
<1>4. C_MUL(Cpx(x, y), Cpx(0, 0)) = Cpx(x * 0 - y * 0, x * 0 + y * 0)
  BY <1>0, CpxOps
<1>5. /\ x + 0 = x /\ y + 0 = y /\ x * 0 - y * 0 = 0 /\ x * 0 + y * 0 = 0
      /\ x * 1 - y * 0 = x /\ x * 0 + y * 1 = y
  BY <1>0
<1>6. C_ADD(a, Zero) = a /\ C_MUL(a, One) = a /\ C_MUL(a, Zero) = Zero
  BY <1>0, <1>2, <1>3, <1>4, <1>5 DEF Zero, One
<1> QED
  BY <1>6, Commutes, Constants

\* associativity,
LEMMA Associates ==
  ASSUME NEW a \in Complex, NEW b \in Complex, NEW c \in Complex
  PROVE  /\ C_ADD(C_ADD(a, b), c) = C_ADD(a, C_ADD(b, c))
         /\ C_MUL(C_MUL(a, b), c) = C_MUL(a, C_MUL(b, c))
<1> DEFINE x == a.r  y == a.i  u == b.r  v == b.i  w == c.r  z == c.i
<1>1. /\ x \in Int /\ y \in Int /\ u \in Int /\ v \in Int /\ w \in Int /\ z \in Int
      /\ a = Cpx(x, y) /\ b = Cpx(u, v) /\ c = Cpx(w, z)
  BY CpxIs
<1> HIDE DEF x, y, u, v, w, z
<1>2. C_ADD(a, b) = Cpx(x + u, y + v) /\ C_ADD(b, c) = Cpx(u + w, v + z)
  <2>1. C_ADD(Cpx(x, y), Cpx(u, v)) = Cpx(x + u, y + v)
    BY <1>1, CpxOps
  <2>2. C_ADD(Cpx(u, v), Cpx(w, z)) = Cpx(u + w, v + z)
    BY <1>1, CpxOps
  <2> QED
    BY <1>1, <2>1, <2>2
<1>3. C_ADD(C_ADD(a, b), c) = Cpx((x + u) + w, (y + v) + z)
  <2>1. x + u \in Int /\ y + v \in Int
    BY <1>1
  <2> QED
    BY <1>1, <1>2, <2>1, CpxOps
<1>4. C_ADD(a, C_ADD(b, c)) = Cpx(x + (u + w), y + (v + z))
  <2>1. u + w \in Int /\ v + z \in Int
    BY <1>1
  <2> QED
    BY <1>1, <1>2, <2>1, CpxOps
<1>5. (x + u) + w = x + (u + w) /\ (y + v) + z = y + (v + z)
  BY <1>1
<1> DEFINE m == x * u - y * v
           k == x * v + y * u
           q == u * w - v * z
           s == u * z + v * w
<1>6. C_MUL(a, b) = Cpx(m, k) /\ C_MUL(b, c) = Cpx(q, s)
  <2>1. C_MUL(Cpx(x, y), Cpx(u, v)) = Cpx(m, k)
    BY <1>1, CpxOps
  <2>2. C_MUL(Cpx(u, v), Cpx(w, z)) = Cpx(q, s)
    BY <1>1, CpxOps
  <2> QED
    BY <1>1, <2>1, <2>2
<1>7. m \in Int /\ k \in Int /\ q \in Int /\ s \in Int
  BY <1>1
<1>8. m * w - k * z = x * q - y * s /\ m * z + k * w = x * s + y * q
  BY <1>1
<1> HIDE DEF m, k, q, s
<1>9. C_MUL(C_MUL(a, b), c) = Cpx(m * w - k * z, m * z + k * w)
  BY <1>1, <1>6, <1>7, CpxOps
<1>10. C_MUL(a, C_MUL(b, c)) = Cpx(x * q - y * s, x * s + y * q)
  BY <1>1, <1>6, <1>7, CpxOps
<1> QED
  BY <1>3, <1>4, <1>5, <1>8, <1>9, <1>10

\* and distributivity.
LEMMA Distributes ==
  ASSUME NEW a \in Complex, NEW b \in Complex, NEW c \in Complex
  PROVE  C_MUL(a, C_ADD(b, c)) = C_ADD(C_MUL(a, b), C_MUL(a, c))
<1> DEFINE x == a.r  y == a.i  u == b.r  v == b.i  w == c.r  z == c.i
<1>1. /\ x \in Int /\ y \in Int /\ u \in Int /\ v \in Int /\ w \in Int /\ z \in Int
      /\ a = Cpx(x, y) /\ b = Cpx(u, v) /\ c = Cpx(w, z)
  BY CpxIs
<1> HIDE DEF x, y, u, v, w, z
<1>2. C_ADD(b, c) = Cpx(u + w, v + z) /\ u + w \in Int /\ v + z \in Int
  BY <1>1, CpxOps
<1>3. C_MUL(a, C_ADD(b, c)) = Cpx(x * (u + w) - y * (v + z), x * (v + z) + y * (u + w))
  BY <1>1, <1>2, CpxOps
<1> DEFINE m == x * u - y * v
           k == x * v + y * u
           q == x * w - y * z
           s == x * z + y * w
<1>4. C_MUL(a, b) = Cpx(m, k) /\ C_MUL(a, c) = Cpx(q, s)
  <2>1. C_MUL(Cpx(x, y), Cpx(u, v)) = Cpx(m, k)
    BY <1>1, CpxOps
  <2>2. C_MUL(Cpx(x, y), Cpx(w, z)) = Cpx(q, s)
    BY <1>1, CpxOps
  <2> QED
    BY <1>1, <2>1, <2>2
<1>5. m \in Int /\ k \in Int /\ q \in Int /\ s \in Int
  BY <1>1
<1>6. x * (u + w) - y * (v + z) = m + q /\ x * (v + z) + y * (u + w) = k + s
  BY <1>1
<1> HIDE DEF m, k, q, s
<1>7. C_ADD(C_MUL(a, b), C_MUL(a, c)) = Cpx(m + q, k + s)
  BY <1>4, <1>5, CpxOps
<1> QED
  BY <1>3, <1>6, <1>7

\* Four terms in another order.
LEMMA Swaps ==
  ASSUME NEW a \in Complex, NEW b \in Complex, NEW c \in Complex, NEW d \in Complex
  PROVE  /\ C_ADD(C_ADD(a, b), C_ADD(c, d)) = C_ADD(C_ADD(a, c), C_ADD(b, d))
         /\ C_MUL(C_MUL(a, b), C_MUL(c, d)) = C_MUL(C_MUL(a, c), C_MUL(b, d))
<1>1. C_ADD(C_ADD(a, b), C_ADD(c, d)) = C_ADD(a, C_ADD(b, C_ADD(c, d)))
  <2> DEFINE e == C_ADD(c, d)
  <2>1. e \in Complex
    BY Closed
  <2> HIDE DEF e
  <2>2. C_ADD(C_ADD(a, b), e) = C_ADD(a, C_ADD(b, e))
    BY <2>1, Associates
  <2> QED
    BY <2>2 DEF e
<1>2. C_ADD(b, C_ADD(c, d)) = C_ADD(c, C_ADD(b, d))
  <2>1. C_ADD(C_ADD(b, c), d) = C_ADD(b, C_ADD(c, d)) /\ C_ADD(C_ADD(c, b), d) = C_ADD(c, C_ADD(b, d))
    BY Associates
  <2> QED
    BY <2>1, Commutes
<1>3. C_ADD(C_ADD(a, c), C_ADD(b, d)) = C_ADD(a, C_ADD(c, C_ADD(b, d)))
  <2> DEFINE e == C_ADD(b, d)
  <2>1. e \in Complex
    BY Closed
  <2> HIDE DEF e
  <2>2. C_ADD(C_ADD(a, c), e) = C_ADD(a, C_ADD(c, e))
    BY <2>1, Associates
  <2> QED
    BY <2>2 DEF e
<1>4. C_MUL(C_MUL(a, b), C_MUL(c, d)) = C_MUL(a, C_MUL(b, C_MUL(c, d)))
  <2> DEFINE e == C_MUL(c, d)
  <2>1. e \in Complex
    BY Closed
  <2> HIDE DEF e
  <2>2. C_MUL(C_MUL(a, b), e) = C_MUL(a, C_MUL(b, e))
    BY <2>1, Associates
  <2> QED
    BY <2>2 DEF e
<1>5. C_MUL(b, C_MUL(c, d)) = C_MUL(c, C_MUL(b, d))
  <2>1. C_MUL(C_MUL(b, c), d) = C_MUL(b, C_MUL(c, d)) /\ C_MUL(C_MUL(c, b), d) = C_MUL(c, C_MUL(b, d))
    BY Associates
  <2> QED
    BY <2>1, Commutes
<1>6. C_MUL(C_MUL(a, c), C_MUL(b, d)) = C_MUL(a, C_MUL(c, C_MUL(b, d)))
  <2> DEFINE e == C_MUL(b, d)
  <2>1. e \in Complex
    BY Closed
  <2> HIDE DEF e
  <2>2. C_MUL(C_MUL(a, c), e) = C_MUL(a, C_MUL(c, e))
    BY <2>1, Associates
  <2> QED
    BY <2>2 DEF e
<1> QED
  BY <1>1, <1>2, <1>3, <1>4, <1>5, <1>6

\* Conjugation respects products.
LEMMA ConjIs == \A s, t \in Int : Conj(Cpx(s, t)) = Cpx(s, -t)
<1>1. ASSUME NEW s \in Int, NEW t \in Int PROVE Conj(Cpx(s, t)) = Cpx(s, -t)
  <2>1. Cpx(s, t).r = Mod(s) /\ Cpx(s, t).i = Mod(t)
    BY CpxIs
  <2>2. Mod(Mod(s) + 0) = Mod(s + 0) /\ Mod(0 - Mod(t)) = Mod(0 - t) /\ Mod(s) \in Int /\ Mod(t) \in Int
    BY ModOps, ModIs
  <2>3. Mod(Mod(s)) = Mod(s) /\ Mod(-Mod(t)) = Mod(-t)
    BY <2>2
  <2> QED
    BY <2>1, <2>3 DEF Conj, Cpx
<1> QED
  BY <1>1

\* The conjugate of a product, and of a conjugate.
LEMMA ConjProduct ==
  ASSUME NEW a \in Complex, NEW b \in Complex
  PROVE  Conj(C_MUL(a, b)) = C_MUL(Conj(a), Conj(b)) /\ Conj(Conj(a)) = a
<1> DEFINE x == a.r  y == a.i  u == b.r  v == b.i
<1>1. /\ x \in Int /\ y \in Int /\ u \in Int /\ v \in Int
      /\ a = Cpx(x, y) /\ b = Cpx(u, v) /\ Conj(a) = Cpx(x, -y) /\ Conj(b) = Cpx(u, -v)
  BY CpxIs DEF Conj
<1> HIDE DEF x, y, u, v
<1>2. \A s, t \in Int : Conj(Cpx(s, t)) = Cpx(s, -t)
  BY ConjIs
<1> DEFINE m == x * u - y * v
           k == x * v + y * u
<1>3. C_MUL(a, b) = Cpx(m, k) /\ m \in Int /\ k \in Int
  BY <1>1, CpxOps
<1>4. -y \in Int /\ -v \in Int
  BY <1>1
<1>5. C_MUL(Conj(a), Conj(b)) = Cpx(x * u - (-y) * (-v), x * (-v) + (-y) * u)
  BY <1>1, <1>4, CpxOps
<1>6. x * u - (-y) * (-v) = m /\ x * (-v) + (-y) * u = -k
  BY <1>1
<1> HIDE DEF m, k
<1>7. Conj(C_MUL(a, b)) = Cpx(m, -k)
  BY <1>2, <1>3
<1>8. Conj(Conj(a)) = a
  <2>1. Conj(Cpx(x, -y)) = Cpx(x, -(-y)) /\ -(-y) = y
    BY <1>1, <1>2, <1>4
  <2> QED
    BY <1>1, <2>1
<1> QED
  BY <1>5, <1>6, <1>7, <1>8

(***************************************************************************)
(* Recursion over the natural numbers.                                     *)
(***************************************************************************)

\* Induction, for a set.
LEMMA Inductive ==
  ASSUME NEW S \in SUBSET Nat, 0 \in S, \A n0 \in S : n0 + 1 \in S
  PROVE  \A n0 \in Nat : n0 \in S
<1> SUFFICES ASSUME NEW n0 \in Nat, n0 \notin S PROVE FALSE
  OBVIOUS
<1> DEFINE Out == {k \in Nat : k \notin S}
<1>1. Out \in SUBSET Nat /\ Out # {}
  OBVIOUS
<1>2. PICK k \in Out : \A y \in Out : k <= y
  <2> HIDE DEF Out
  <2> QED
    BY <1>1, LeastNatural
<1>3. k \in Nat /\ k \notin S /\ k # 0
  OBVIOUS
<1>4. k - 1 \in Nat /\ ~(k <= k - 1)
  BY <1>3
<1>5. k - 1 \in S
  BY <1>2, <1>4
<1>6. (k - 1) + 1 \in S /\ (k - 1) + 1 = k
  BY <1>3, <1>5
<1> QED
  BY <1>3, <1>6

\* f begins with a and goes on with h up to l.
Iterates(f, l, X, a, h) ==
  f \in [0..l -> X] /\ f[0] = a /\ \A k \in 0..(l - 1) : f[k + 1] = h[k][f[k]]

\* Values up to a limit are determined, whatever the limit.
LEMMA IteratesOnce ==
  ASSUME NEW X, NEW a \in X, NEW h \in [Nat -> [X -> X]], NEW l \in Nat,
         NEW f, Iterates(f, l, X, a, h), NEW m0 \in Nat, l <= m0, NEW g, Iterates(g, m0, X, a, h)
  PROVE  f[l] = g[l]
<1> DEFINE S == {k \in Nat : k <= l => f[k] = g[k]}
<1>1. 0 \in S
  BY DEF Iterates
<1>2. ASSUME NEW k \in S PROVE k + 1 \in S
  <2>1. k \in Nat
    OBVIOUS
  <2>2. CASE k + 1 <= l
    <3>1. k <= l /\ k \in 0..(l - 1) /\ k \in 0..(m0 - 1)
      BY <2>1, <2>2
    <3>2. f[k] = g[k]
      BY <3>1
    <3>3. f[k + 1] = h[k][f[k]] /\ g[k + 1] = h[k][g[k]]
      BY <3>1 DEF Iterates
    <3> QED
      BY <2>1, <3>2, <3>3
  <2>3. CASE ~(k + 1 <= l)
    BY <2>1, <2>3
  <2> QED
    BY <2>2, <2>3
<1>3. l \in S
  <2>1. S \in SUBSET Nat
    OBVIOUS
  <2> HIDE DEF S
  <2> QED
    BY <1>1, <1>2, <2>1, Inductive
<1> QED
  BY <1>3

\* There are values up to every limit.
LEMMA IteratesExist ==
  ASSUME NEW X, NEW a \in X, NEW h \in [Nat -> [X -> X]]
  PROVE  \A l \in Nat : \E f : Iterates(f, l, X, a, h)
<1> DEFINE S == {l \in Nat : \E f : Iterates(f, l, X, a, h)}
<1>1. 0 \in S
  <2> DEFINE f == [k \in 0..0 |-> a]
  <2>1. Iterates(f, 0, X, a, h)
    BY DEF Iterates
  <2> HIDE DEF f
  <2> QED
    BY <2>1
<1>2. ASSUME NEW l \in S PROVE l + 1 \in S
  <2>1. l \in Nat
    OBVIOUS
  <2>2. PICK f : Iterates(f, l, X, a, h)
    OBVIOUS
  <2>3. f \in [0..l -> X] /\ f[0] = a /\ \A k \in 0..(l - 1) : f[k + 1] = h[k][f[k]]
    BY <2>2 DEF Iterates
  <2> DEFINE g == [k \in 0..(l + 1) |-> IF k = l + 1 THEN h[l][f[l]] ELSE f[k]]
  <2>4. h[l][f[l]] \in X
    <3>1. f[l] \in X /\ h[l] \in [X -> X]
      BY <2>1, <2>3
    <3> QED
      BY <3>1
  <2>5. g \in [0..(l + 1) -> X]
    <3>1. ASSUME NEW k \in 0..(l + 1) PROVE (IF k = l + 1 THEN h[l][f[l]] ELSE f[k]) \in X
      <4>1. k = l + 1 \/ k \in 0..l
        BY <2>1
      <4> QED
        BY <2>3, <2>4, <4>1
    <3> QED
      BY <3>1
  <2>6. g[0] = a
    BY <2>1, <2>3
  <2>7. ASSUME NEW k \in 0..((l + 1) - 1) PROVE g[k + 1] = h[k][g[k]]
    <3>1. k \in 0..l /\ k \in 0..(l + 1) /\ k + 1 \in 0..(l + 1) /\ k # l + 1
      BY <2>1
    <3>2. g[k] = f[k]
      BY <3>1
    <3>3. CASE k = l
      BY <3>1, <3>2, <3>3
    <3>4. CASE k # l
      <4>1. k \in 0..(l - 1) /\ k + 1 # l + 1
        BY <2>1, <3>1, <3>4
      <4>2. g[k + 1] = f[k + 1]
        BY <3>1, <4>1
      <4> QED
        BY <2>3, <3>2, <4>1, <4>2
    <3> QED
      BY <3>3, <3>4
  <2> HIDE DEF g
  <2>8. Iterates(g, l + 1, X, a, h)
    BY <2>5, <2>6, <2>7 DEF Iterates
  <2> QED
    BY <2>1, <2>8
<1>3. \A l \in Nat : l \in S
  <2>1. S \in SUBSET Nat
    OBVIOUS
  <2> HIDE DEF S
  <2> QED
    BY <1>1, <1>2, <2>1, Inductive
<1> QED
  BY <1>3

\* A function can be defined by where it begins and how it goes on.
Recursive(f, X, a, h) ==
  f \in [Nat -> X] /\ f[0] = a /\ \A k \in Nat : f[k + 1] = h[k][f[k]]

\* A function can be defined by its first value and the step to the next.
LEMMA Recursion ==
  ASSUME NEW X, NEW a \in X, NEW h \in [Nat -> [X -> X]]
  PROVE  \E f : Recursive(f, X, a, h)
<1> DEFINE Upto(l) == CHOOSE f : Iterates(f, l, X, a, h)
           g == [l \in Nat |-> Upto(l)[l]]
<1>1. \A l \in Nat : Iterates(Upto(l), l, X, a, h)
  BY IteratesExist
<1> HIDE DEF Upto
<1>2. g \in [Nat -> X]
  <2>1. ASSUME NEW l \in Nat PROVE Upto(l)[l] \in X
    <3>1. Upto(l) \in [0..l -> X] /\ l \in 0..l
      BY <1>1 DEF Iterates
    <3> QED
      BY <3>1
  <2> QED
    BY <2>1
<1>3. g[0] = a
  BY <1>1 DEF Iterates
<1>4. ASSUME NEW k \in Nat PROVE g[k + 1] = h[k][g[k]]
  <2>1. Iterates(Upto(k), k, X, a, h) /\ Iterates(Upto(k + 1), k + 1, X, a, h) /\ k <= k + 1 /\ k + 1 \in Nat
    BY <1>1
  <2>2. Upto(k)[k] = Upto(k + 1)[k]
    BY <2>1, IteratesOnce
  <2>3. k \in 0..((k + 1) - 1)
    OBVIOUS
  <2>4. Upto(k + 1)[k + 1] = h[k][Upto(k + 1)[k]]
    BY <2>1, <2>3 DEF Iterates
  <2> QED
    BY <2>1, <2>2, <2>4
<1> HIDE DEF g
<1> QED
  BY <1>2, <1>3, <1>4 DEF Recursive

(***************************************************************************)
(* Powers.                                                                 *)
(***************************************************************************)

\* The powers of c, by multiplication.
PowersOf(c) ==
  CHOOSE f \in [Nat -> Complex] : f[0] = One /\ \A k \in Nat : f[k + 1] = C_MUL(f[k], c)

\* There is such a function.
LEMMA PowersExist ==
  ASSUME NEW c \in Complex
  PROVE  /\ PowersOf(c) \in [Nat -> Complex] /\ PowersOf(c)[0] = One
         /\ \A k \in Nat : PowersOf(c)[k + 1] = C_MUL(PowersOf(c)[k], c)
<1> DEFINE h == [k \in Nat |-> [x \in Complex |-> C_MUL(x, c)]]
<1>1. h \in [Nat -> [Complex -> Complex]]
  BY Closed
<1>2. \A k \in Nat : \A x \in Complex : h[k][x] = C_MUL(x, c)
  OBVIOUS
<1> HIDE DEF h
<1>3. PICK f : Recursive(f, Complex, One, h)
  BY <1>1, Constants, Recursion
<1>4. \A k \in Nat : f[k + 1] = C_MUL(f[k], c)
  BY <1>2, <1>3 DEF Recursive
<1>5. \E g \in [Nat -> Complex] : g[0] = One /\ \A k \in Nat : g[k + 1] = C_MUL(g[k], c)
  BY <1>3, <1>4 DEF Recursive
<1> QED
  BY <1>5, Zenon DEF PowersOf

\* Exponents add.
LEMMA PowersAdd ==
  ASSUME NEW c \in Complex, NEW a \in Nat, NEW b \in Nat
  PROVE  PowersOf(c)[a + b] = C_MUL(PowersOf(c)[a], PowersOf(c)[b])
<1> DEFINE f == PowersOf(c)
           S == {k \in Nat : f[a + k] = C_MUL(f[a], f[k])}
<1>0. f \in [Nat -> Complex] /\ f[0] = One /\ \A k \in Nat : f[k + 1] = C_MUL(f[k], c)
  BY PowersExist
<1> HIDE DEF f
<1>1. 0 \in S
  BY <1>0, Neutral
<1>2. ASSUME NEW k \in S PROVE k + 1 \in S
  <2>1. k \in Nat /\ f[a + k] = C_MUL(f[a], f[k]) /\ a + k \in Nat /\ a + (k + 1) = (a + k) + 1
    OBVIOUS
  <2>2. f[(a + k) + 1] = C_MUL(f[a + k], c) /\ f[k + 1] = C_MUL(f[k], c)
    BY <1>0, <2>1
  <2>3. C_MUL(C_MUL(f[a], f[k]), c) = C_MUL(f[a], C_MUL(f[k], c))
    BY <1>0, <2>1, Associates
  <2> QED
    BY <2>1, <2>2, <2>3
<1>3. b \in S
  <2>1. S \in SUBSET Nat
    OBVIOUS
  <2> HIDE DEF S
  <2> QED
    BY <1>1, <1>2, <2>1, Inductive
<1> QED
  BY <1>3 DEF f

\* What Power does with an exponent.
LEMMA Halving ==
  ASSUME NEW k \in Nat \ {0}
  PROVE  /\ k \div 2 \in Nat /\ k \div 2 < k
         /\ k % 2 = 0 => k = k \div 2 + k \div 2
         /\ k % 2 # 0 => k = (k \div 2 + k \div 2) + 1
OBVIOUS

\* Squaring gives the same.
LEMMA PowerIs ==
  ASSUME NEW c \in Complex, NEW j \in Nat
  PROVE  Power(c, j) = PowersOf(c)[j]
<1> DEFINE Next(w, k) == IF k = 0 THEN Cpx(1, 0)
                         ELSE LET half == w[k \div 2]
                                  square == C_MUL(half, half)
                              IN  IF k % 2 = 0 THEN square ELSE C_MUL(square, c)
           Rec(w) == w = [k \in Nat |-> Next(w, k)]
           f == PowersOf(c)
<1>0. f \in [Nat -> Complex] /\ f[0] = One /\ \A k \in Nat : f[k + 1] = C_MUL(f[k], c)
  BY PowersExist
<1>1. \A a, b \in Nat : f[a + b] = C_MUL(f[a], f[b])
  BY PowersAdd
<1> HIDE DEF f
<1>2. ASSUME NEW k \in Nat PROVE f[k] = Next(f, k)
  <2>1. CASE k = 0
    BY <1>0, <2>1 DEF One
  <2>2. CASE k # 0
    <3> DEFINE e == k \div 2
    <3>1. /\ e \in Nat /\ (k % 2 = 0 => k = e + e) /\ (k % 2 # 0 => k = (e + e) + 1)
      BY <2>2, Halving
    <3>2. Next(f, k) = IF k % 2 = 0 THEN C_MUL(f[e], f[e]) ELSE C_MUL(C_MUL(f[e], f[e]), c)
      BY <2>2
    <3> HIDE DEF e, Next
    <3>3. f[e + e] = C_MUL(f[e], f[e]) /\ e + e \in Nat
      BY <1>1, <3>1
    <3>4. f[(e + e) + 1] = C_MUL(f[e + e], c)
      BY <1>0, <3>3
    <3> QED
      BY <3>1, <3>2, <3>3, <3>4
  <2> QED
    BY <2>1, <2>2
<1>3. Rec(f)
  <2>1. f = [k \in Nat |-> f[k]]
    BY <1>0
  <2> HIDE DEF Next
  <2> QED
    BY <1>2, <2>1
<1>4. Power(c, j) = (CHOOSE w : Rec(w))[j]
  BY DEF Power
<1>5. PICK w : Rec(w) /\ Power(c, j) = w[j]
  <2> HIDE DEF Rec
  <2> QED
    BY <1>3, <1>4 DEF Recursive
<1>6. \A k \in Nat : w[k] = Next(w, k)
  <2> HIDE DEF Next
  <2> QED
    BY <1>5
<1> DEFINE Bad == {k \in Nat : w[k] # f[k]}
<1>7. Bad = {}
  <2> SUFFICES ASSUME Bad # {} PROVE FALSE
    OBVIOUS
  <2>1. PICK k \in Bad : \A y \in Bad : k <= y
    <3>1. Bad \in SUBSET Nat
      OBVIOUS
    <3> HIDE DEF Bad
    <3> QED
      BY <3>1, LeastNatural
  <2>2. k \in Nat /\ w[k] # f[k]
    OBVIOUS
  <2>3. CASE k = 0
    BY <1>2, <1>6, <2>2, <2>3
  <2>4. CASE k # 0
    <3>1. k \div 2 \in Nat /\ k \div 2 < k
      BY <2>2, <2>4, Halving
    <3>2. k \div 2 \notin Bad
      BY <2>1, <2>2, <3>1
    <3>3. w[k \div 2] = f[k \div 2]
      BY <3>1, <3>2
    <3>4. Next(w, k) = Next(f, k)
      BY <2>4, <3>3
    <3> HIDE DEF Next
    <3> QED
      BY <1>2, <1>6, <2>2, <3>4
  <2> QED
    BY <2>3, <2>4
<1> QED
  BY <1>5, <1>7 DEF f

(***************************************************************************)
(* Sums.                                                                   *)
(***************************************************************************)

SumsOf(t) ==
  CHOOSE f \in [Nat -> Complex] : f[0] = Zero /\ \A k \in Nat : f[k + 1] = C_ADD(f[k], t[k])

\* t[0] + ... + t[len - 1]
Sum(t, len) == SumsOf(t)[len]

\* A sum, one summand after the other.
LEMMA SumIs ==
  ASSUME NEW t \in [Nat -> Complex]
  PROVE  /\ Sum(t, 0) = Zero
         /\ \A k \in Nat : Sum(t, k) \in Complex /\ Sum(t, k + 1) = C_ADD(Sum(t, k), t[k])
<1> DEFINE h == [k \in Nat |-> [x \in Complex |-> C_ADD(x, t[k])]]
<1>1. h \in [Nat -> [Complex -> Complex]]
  BY Closed
<1>2. \A k \in Nat : \A x \in Complex : h[k][x] = C_ADD(x, t[k])
  OBVIOUS
<1> HIDE DEF h
<1>3. PICK f : Recursive(f, Complex, Zero, h)
  BY <1>1, Constants, Recursion
<1>4. \A k \in Nat : f[k + 1] = C_ADD(f[k], t[k])
  BY <1>2, <1>3 DEF Recursive
<1>5. \E g \in [Nat -> Complex] : g[0] = Zero /\ \A k \in Nat : g[k + 1] = C_ADD(g[k], t[k])
  BY <1>3, <1>4 DEF Recursive
<1>6. /\ SumsOf(t) \in [Nat -> Complex] /\ SumsOf(t)[0] = Zero
      /\ \A k \in Nat : SumsOf(t)[k + 1] = C_ADD(SumsOf(t)[k], t[k])
  BY <1>5, Zenon DEF SumsOf
<1> QED
  BY <1>6 DEF Sum

\* Equal summands, equal sums.
LEMMA SumSame ==
  ASSUME NEW t \in [Nat -> Complex], NEW t1 \in [Nat -> Complex], NEW len \in Nat,
         \A k \in 0..(len - 1) : t[k] = t1[k]
  PROVE  Sum(t, len) = Sum(t1, len)
<1> DEFINE S == {k \in Nat : k <= len => Sum(t, k) = Sum(t1, k)}
<1>1. 0 \in S
  BY SumIs
<1>2. ASSUME NEW k \in S PROVE k + 1 \in S
  <2>1. k \in Nat
    OBVIOUS
  <2>2. CASE k + 1 <= len
    <3>1. Sum(t, k) = Sum(t1, k) /\ k \in 0..(len - 1)
      BY <2>1, <2>2
    <3> QED
      BY <2>1, <3>1, SumIs
  <2>3. CASE ~(k + 1 <= len)
    BY <2>1, <2>3
  <2> QED
    BY <2>2, <2>3
<1>3. len \in S
  <2>1. S \in SUBSET Nat
    OBVIOUS
  <2> HIDE DEF S
  <2> QED
    BY <1>1, <1>2, <2>1, Inductive
<1> QED
  BY <1>3

\* A sum of sums.
LEMMA SumAdds ==
  ASSUME NEW t \in [Nat -> Complex], NEW t1 \in [Nat -> Complex], NEW len \in Nat
  PROVE  Sum([k \in Nat |-> C_ADD(t[k], t1[k])], len) = C_ADD(Sum(t, len), Sum(t1, len))
<1> DEFINE s == [k \in Nat |-> C_ADD(t[k], t1[k])]
           S == {k \in Nat : Sum(s, k) = C_ADD(Sum(t, k), Sum(t1, k))}
<1>0. s \in [Nat -> Complex] /\ \A k \in Nat : s[k] = C_ADD(t[k], t1[k])
  BY Closed
<1> HIDE DEF s
<1>1. 0 \in S
  BY <1>0, SumIs, Neutral, Constants
<1>2. ASSUME NEW k \in S PROVE k + 1 \in S
  <2>1. k \in Nat /\ Sum(s, k) = C_ADD(Sum(t, k), Sum(t1, k))
    OBVIOUS
  <2>2. /\ Sum(s, k + 1) = C_ADD(Sum(s, k), s[k]) /\ Sum(t, k + 1) = C_ADD(Sum(t, k), t[k])
        /\ Sum(t1, k + 1) = C_ADD(Sum(t1, k), t1[k])
        /\ Sum(t, k) \in Complex /\ Sum(t1, k) \in Complex /\ t[k] \in Complex /\ t1[k] \in Complex
    BY <1>0, <2>1, SumIs
  <2>3. C_ADD(C_ADD(Sum(t, k), Sum(t1, k)), C_ADD(t[k], t1[k]))
          = C_ADD(C_ADD(Sum(t, k), t[k]), C_ADD(Sum(t1, k), t1[k]))
    BY <2>2, Swaps
  <2> QED
    BY <1>0, <2>1, <2>2, <2>3
<1>3. len \in S
  <2>1. S \in SUBSET Nat
    OBVIOUS
  <2> HIDE DEF S
  <2> QED
    BY <1>1, <1>2, <2>1, Inductive
<1> QED
  BY <1>3 DEF s

\* A factor in front of a sum.
LEMMA SumScales ==
  ASSUME NEW c \in Complex, NEW t \in [Nat -> Complex], NEW len \in Nat
  PROVE  Sum([k \in Nat |-> C_MUL(c, t[k])], len) = C_MUL(c, Sum(t, len))
<1> DEFINE s == [k \in Nat |-> C_MUL(c, t[k])]
           S == {k \in Nat : Sum(s, k) = C_MUL(c, Sum(t, k))}
<1>0. s \in [Nat -> Complex] /\ \A k \in Nat : s[k] = C_MUL(c, t[k])
  BY Closed
<1> HIDE DEF s
<1>1. 0 \in S
  BY <1>0, SumIs, Neutral, Constants
<1>2. ASSUME NEW k \in S PROVE k + 1 \in S
  <2>1. k \in Nat /\ Sum(s, k) = C_MUL(c, Sum(t, k))
    OBVIOUS
  <2>2. /\ Sum(s, k + 1) = C_ADD(Sum(s, k), s[k]) /\ Sum(t, k + 1) = C_ADD(Sum(t, k), t[k])
        /\ Sum(t, k) \in Complex /\ t[k] \in Complex
    BY <1>0, <2>1, SumIs
  <2>3. C_MUL(c, C_ADD(Sum(t, k), t[k])) = C_ADD(C_MUL(c, Sum(t, k)), C_MUL(c, t[k]))
    BY <2>2, Distributes
  <2> QED
    BY <1>0, <2>1, <2>2, <2>3
<1>3. len \in S
  <2>1. S \in SUBSET Nat
    OBVIOUS
  <2> HIDE DEF S
  <2> QED
    BY <1>1, <1>2, <2>1, Inductive
<1> QED
  BY <1>3 DEF s

\* A sum in two pieces.
LEMMA SumAppends ==
  ASSUME NEW t \in [Nat -> Complex], NEW a \in Nat, NEW b \in Nat
  PROVE  Sum(t, a + b) = C_ADD(Sum(t, a), Sum([k \in Nat |-> t[a + k]], b))
<1> DEFINE s == [k \in Nat |-> t[a + k]]
           S == {k \in Nat : Sum(t, a + k) = C_ADD(Sum(t, a), Sum(s, k))}
<1>0. s \in [Nat -> Complex] /\ \A k \in Nat : s[k] = t[a + k]
  OBVIOUS
<1> HIDE DEF s
<1>1. 0 \in S
  BY <1>0, SumIs, Neutral, Constants
<1>2. ASSUME NEW k \in S PROVE k + 1 \in S
  <2>1. k \in Nat /\ Sum(t, a + k) = C_ADD(Sum(t, a), Sum(s, k)) /\ a + k \in Nat
        /\ a + (k + 1) = (a + k) + 1
    OBVIOUS
  <2>2. /\ Sum(t, (a + k) + 1) = C_ADD(Sum(t, a + k), t[a + k])
        /\ Sum(s, k + 1) = C_ADD(Sum(s, k), s[k])
        /\ Sum(t, a) \in Complex /\ Sum(s, k) \in Complex /\ t[a + k] \in Complex
    BY <1>0, <2>1, SumIs
  <2>3. C_ADD(C_ADD(Sum(t, a), Sum(s, k)), t[a + k]) = C_ADD(Sum(t, a), C_ADD(Sum(s, k), t[a + k]))
    BY <2>2, Associates
  <2> QED
    BY <1>0, <2>1, <2>2, <2>3
<1>3. b \in S
  <2>1. S \in SUBSET Nat
    OBVIOUS
  <2> HIDE DEF S
  <2> QED
    BY <1>1, <1>2, <2>1, Inductive
<1> QED
  BY <1>3 DEF s

\* A sum of nothing but zeros.
LEMMA SumOfZeros ==
  ASSUME NEW t \in [Nat -> Complex], NEW len \in Nat, \A k \in 0..(len - 1) : t[k] = Zero
  PROVE  Sum(t, len) = Zero
<1> DEFINE S == {k \in Nat : k <= len => Sum(t, k) = Zero}
<1>1. 0 \in S
  BY SumIs
<1>2. ASSUME NEW k \in S PROVE k + 1 \in S
  <2>1. k \in Nat
    OBVIOUS
  <2>2. CASE k + 1 <= len
    <3>1. Sum(t, k) = Zero /\ t[k] = Zero
      BY <2>1, <2>2
    <3> QED
      BY <2>1, <3>1, SumIs, Neutral, Constants
  <2>3. CASE ~(k + 1 <= len)
    BY <2>1, <2>3
  <2> QED
    BY <2>2, <2>3
<1>3. len \in S
  <2>1. S \in SUBSET Nat
    OBVIOUS
  <2> HIDE DEF S
  <2> QED
    BY <1>1, <1>2, <2>1, Inductive
<1> QED
  BY <1>3

\* Every radix-th of the summands, from the q-th on.
Every(t, radix, q) == [j \in Nat |-> t[j * radix + q]]
\* Their sums, for each q.
Parts(t, radix, m) == [q \in Nat |-> Sum(Every(t, radix, q), m)]

\* These are numbers.
LEMMA EveryType ==
  ASSUME NEW t \in [Nat -> Complex], NEW radix \in Nat
  PROVE  /\ \A q \in Nat : Every(t, radix, q) \in [Nat -> Complex]
         /\ \A m \in Nat : Parts(t, radix, m) \in [Nat -> Complex]
<1>1. ASSUME NEW q \in Nat PROVE Every(t, radix, q) \in [Nat -> Complex]
  <2>1. \A j \in Nat : j * radix + q \in Nat
    OBVIOUS
  <2> QED
    BY <2>1 DEF Every
<1>2. ASSUME NEW m \in Nat PROVE Parts(t, radix, m) \in [Nat -> Complex]
  BY <1>1, SumIs DEF Parts
<1> QED
  BY <1>1, <1>2

\* Decimation in time: a sum is the sum of the sums over every radix-th.
LEMMA Decimation ==
  ASSUME NEW t \in [Nat -> Complex], NEW radix \in Nat, NEW m \in Nat
  PROVE  Sum(t, radix * m) = Sum(Parts(t, radix, m), radix)
<1> DEFINE S == {k \in Nat : Sum(t, radix * k) = Sum(Parts(t, radix, k), radix)}
<1>1. 0 \in S
  <2>1. \A q \in 0..(radix - 1) : Parts(t, radix, 0)[q] = Zero
    <3>1. ASSUME NEW q \in 0..(radix - 1) PROVE Parts(t, radix, 0)[q] = Zero
      <4>1. q \in Nat /\ Every(t, radix, q) \in [Nat -> Complex]
        BY EveryType
      <4> QED
        BY <4>1, SumIs DEF Parts
    <3> QED
      BY <3>1
  <2>2. Sum(Parts(t, radix, 0), radix) = Zero
    BY <2>1, EveryType, SumOfZeros
  <2>3. radix * 0 = 0
    OBVIOUS
  <2> QED
    BY <2>2, <2>3, SumIs
<1>2. ASSUME NEW k \in S PROVE k + 1 \in S
  <2>1. k \in Nat /\ Sum(t, radix * k) = Sum(Parts(t, radix, k), radix)
    OBVIOUS
  <2> DEFINE a == radix * k
             last == [q \in Nat |-> t[a + q]]
             old == Parts(t, radix, k)
             new == Parts(t, radix, k + 1)
             both == [q \in Nat |-> C_ADD(old[q], last[q])]
  <2>2. a \in Nat /\ radix * (k + 1) = a + radix
    BY <2>1
  <2>3. last \in [Nat -> Complex] /\ \A q \in Nat : last[q] = t[a + q]
    <3> HIDE DEF a
    <3> QED
      BY <2>2
  <2>4. old \in [Nat -> Complex] /\ new \in [Nat -> Complex]
    BY <2>1, EveryType
  <2>5. ASSUME NEW q \in Nat PROVE new[q] = both[q]
    <3> DEFINE e == Every(t, radix, q)
    <3>1. e \in [Nat -> Complex] /\ e[k] = t[a + q]
      <4>1. k * radix + q = a + q
        BY <2>1
      <4>2. e[k] = t[k * radix + q]
        BY <2>1 DEF Every
      <4>3. e \in [Nat -> Complex]
        BY EveryType
      <4> HIDE DEF e, a
      <4> QED
        BY <4>1, <4>2, <4>3
    <3>2. new[q] = Sum(e, k + 1) /\ old[q] = Sum(e, k)
      BY DEF Parts
    <3>3. Sum(e, k + 1) = C_ADD(Sum(e, k), e[k])
      <4> HIDE DEF e
      <4> QED
        BY <2>1, <3>1, SumIs
    <3>4. both[q] = C_ADD(old[q], t[a + q])
      BY <2>3
    <3> HIDE DEF e, new, old, both, a
    <3> QED
      BY <3>1, <3>2, <3>3, <3>4
  <2>6. both \in [Nat -> Complex]
    <3> HIDE DEF old, last
    <3> QED
      BY <2>3, <2>4, Closed
  <2>7. Sum(new, radix) = Sum(both, radix)
    <3>1. \A q \in 0..(radix - 1) : new[q] = both[q]
      BY <2>5
    <3> HIDE DEF new, both
    <3> QED
      BY <2>4, <2>6, <3>1, SumSame
  <2>8. Sum(both, radix) = C_ADD(Sum(old, radix), Sum(last, radix))
    <3> HIDE DEF old, last
    <3> QED
      BY <2>3, <2>4, SumAdds
  <2>9. Sum(t, a + radix) = C_ADD(Sum(t, a), Sum(last, radix))
    <3> HIDE DEF a
    <3> QED
      BY <2>2, SumAppends
  <2> HIDE DEF a, new, old, last, both
  <2>10. Sum(t, a) = Sum(old, radix)
    BY <2>1 DEF a, old
  <2>11. Sum(t, radix * (k + 1)) = Sum(new, radix)
    BY <2>2, <2>7, <2>8, <2>9, <2>10
  <2> QED
    BY <2>1, <2>11 DEF new
<1>3. m \in S
  <2>1. S \in SUBSET Nat
    OBVIOUS
  <2> HIDE DEF S
  <2> QED
    BY <1>1, <1>2, <2>1, Inductive
<1> QED
  BY <1>3

(***************************************************************************)
(* Roots of unity.                                                         *)
(***************************************************************************)

\* Conjugates, with the sign given as a sum.
LEMMA ConjOf ==
  ASSUME NEW s \in Int, NEW t \in Int, NEW v \in Int, v + t = 0
  PROVE  Conj(Cpx(s, t)) = Cpx(s, v)
<1>1. -t = v
  OBVIOUS
<1> QED
  BY <1>1, ConjIs

\* Conjugates of the numbers the butterflies turn by.
LEMMA ConjOfUnits ==
  /\ Conj(One) = One /\ Conj(Cpx(-1, 0)) = Cpx(-1, 0)
  /\ Conj(Cpx(0, -1)) = Cpx(0, 1) /\ Conj(Cpx(0, 1)) = Cpx(0, -1)
<1>1. 0 \in Int /\ 1 \in Int /\ -1 \in Int /\ 0 + 0 = 0 /\ 1 + (-1) = 0 /\ (-1) + 1 = 0
  OBVIOUS
<1> QED
  BY <1>1, ConjOf DEF One

\* The powers of the conjugate.
LEMMA PowersConj ==
  ASSUME NEW c \in Complex, NEW j \in Nat
  PROVE  PowersOf(Conj(c))[j] = Conj(PowersOf(c)[j])
<1> DEFINE d == Conj(c)
           f == PowersOf(c)
           g == PowersOf(d)
           S == {k \in Nat : g[k] = Conj(f[k])}
<1>0. /\ d \in Complex
      /\ f \in [Nat -> Complex] /\ f[0] = One /\ \A k \in Nat : f[k + 1] = C_MUL(f[k], c)
  BY PowersExist, Closed
<1>a. g \in [Nat -> Complex] /\ g[0] = One /\ \A k \in Nat : g[k + 1] = C_MUL(g[k], d)
  <2> HIDE DEF d
  <2> QED
    BY <1>0, PowersExist
<1> HIDE DEF f, g
<1>1. 0 \in S
  <2>2. Conj(One) = One
    BY ConjOfUnits
  <2> QED
    BY <1>0, <1>a, <2>2
<1>2. ASSUME NEW k \in S PROVE k + 1 \in S
  <2>1. k \in Nat /\ g[k] = Conj(f[k]) /\ f[k] \in Complex
    BY <1>0
  <2>2. Conj(C_MUL(f[k], c)) = C_MUL(Conj(f[k]), Conj(c))
    BY <2>1, ConjProduct
  <2>3. g[k + 1] = C_MUL(g[k], d) /\ f[k + 1] = C_MUL(f[k], c)
    BY <1>0, <1>a, <2>1
  <2> QED
    BY <2>1, <2>2, <2>3
<1>3. j \in S
  <2>1. S \in SUBSET Nat
    OBVIOUS
  <2> HIDE DEF S
  <2> QED
    BY <1>1, <1>2, <2>1, Inductive
<1> QED
  BY <1>3 DEF f, g, d

\* What the butterflies need of the number w whose powers are the table.
IsRoot(w, len, inverse) ==
  /\ w \in Complex /\ C_MUL(w, Conj(w)) = One
  /\ PowersOf(w)[len] = One
  /\ len % 2 = 0 => PowersOf(w)[len \div 2] = Cpx(-1, 0)
  /\ len % 4 = 0 => PowersOf(w)[len \div 4] = IF inverse THEN Cpx(0, 1) ELSE Cpx(0, -1)
  /\ len % 3 = 0 => Mod(2 * PowersOf(w)[len \div 3].r) = Mod(-1)

\* A number times its conjugate.
LEMMA NormIs ==
  ASSUME NEW c \in Complex
  PROVE  C_MUL(c, Conj(c)) = Cpx(c.r * c.r + c.i * c.i, 0)
<1> DEFINE x == c.r  y == c.i  z == -y
<1>1. x \in Int /\ y \in Int /\ z \in Int /\ c = Cpx(x, y) /\ Conj(c) = Cpx(x, z)
  BY CpxIs DEF Conj
<1>2. z = -y
  OBVIOUS
<1> HIDE DEF x, y, z
<1>3. C_MUL(Cpx(x, y), Cpx(x, z)) = Cpx(x * x - y * z, x * z + y * x)
  BY <1>1, CpxOps
<1>4. x * x - y * z = x * x + y * y /\ x * z + y * x = 0
  BY <1>1, <1>2
<1>5. C_MUL(c, Conj(c)) = Cpx(x * x + y * y, 0)
  BY <1>1, <1>3, <1>4
<1> QED
  BY <1>5 DEF x, y

\* A quotient is a natural number.
LEMMA Divided ==
  ASSUME NEW len \in Nat \ {0}, NEW d \in Nat \ {0}
  PROVE  len \div d \in Nat
BY Euclid

\* The roots the program tabulates.
LEMMA RootIsRoot ==
  ASSUME job \in Jobs, job.fin # none
  PROVE  IsRoot(Root, job.nfft, job.inverse)
<1> DEFINE c == Unit[job.nfft]
           len == job.nfft
<1>1. len \in Nat \ {0} /\ IsUnit(c, len) /\ job.inverse \in BOOLEAN
  BY KissFftAssumption
<1> HIDE DEF c, len
<1>2. /\ c \in Complex /\ Mod(c.r * c.r + c.i * c.i) = Mod(1)
      /\ PowersOf(c)[len] = Cpx(1, 0)
      /\ len % 2 = 0 => PowersOf(c)[len \div 2] = Cpx(-1, 0)
      /\ len % 4 = 0 => PowersOf(c)[len \div 4] = Cpx(0, -1)
      /\ len % 3 = 0 => Mod(2 * PowersOf(c)[len \div 3].r) = Mod(-1)
  <2>1. c \in Complex
    BY <1>1 DEF IsUnit
  <2>2. len \in Nat /\ len \div 2 \in Nat /\ len \div 3 \in Nat /\ len \div 4 \in Nat
    BY <1>1, Divided
  <2>3. /\ Power(c, len) = PowersOf(c)[len] /\ Power(c, len \div 2) = PowersOf(c)[len \div 2]
        /\ Power(c, len \div 3) = PowersOf(c)[len \div 3] /\ Power(c, len \div 4) = PowersOf(c)[len \div 4]
    BY <2>1, <2>2, PowerIs
  <2> QED
    BY <1>1, <2>3 DEF IsUnit
<1>3. C_MUL(c, Conj(c)) = One
  BY <1>2, NormIs DEF Cpx, One
<1>4. CASE ~job.inverse
  <2>1. Root = c
    BY <1>4 DEF Root, c
  <2> QED
    BY <1>2, <1>3, <1>4, <2>1 DEF IsRoot, One, len
<1>5. CASE job.inverse
  <2>1. Root = Conj(c)
    BY <1>5 DEF Root, c, Conj
  <2>2. Conj(c) \in Complex /\ Conj(Conj(c)) = c
    BY <1>2, Closed, ConjProduct
  <2>3. C_MUL(Conj(c), Conj(Conj(c))) = One
    BY <1>2, <1>3, <2>2, Commutes
  <2>4. \A k \in Nat : PowersOf(Conj(c))[k] = Conj(PowersOf(c)[k])
    BY <1>2, PowersConj
  <2>6. len \in Nat /\ len \div 2 \in Nat /\ len \div 3 \in Nat /\ len \div 4 \in Nat
    BY <1>1, Divided
  <2>7. Conj(Cpx(1, 0)) = Cpx(1, 0) /\ Conj(Cpx(-1, 0)) = Cpx(-1, 0) /\ Conj(Cpx(0, -1)) = Cpx(0, 1)
    BY ConjOfUnits DEF One
  <2>8. PowersOf(Conj(c))[len \div 3].r = PowersOf(c)[len \div 3].r
    <3>1. PowersOf(c)[len \div 3] \in Complex
      BY <1>2, <2>6, PowersExist
    <3>2. \A e \in Complex : Conj(e).r = e.r
      BY CpxIs, ModOfSmall DEF Conj, Cpx, Complex
    <3> QED
      BY <2>4, <2>6, <3>1, <3>2
  <2>9. /\ PowersOf(Conj(c))[len] = One
        /\ len % 2 = 0 => PowersOf(Conj(c))[len \div 2] = Cpx(-1, 0)
        /\ len % 4 = 0 => PowersOf(Conj(c))[len \div 4] = Cpx(0, 1)
    BY <1>2, <2>4, <2>6, <2>7 DEF One
  <2> QED
    BY <1>2, <1>5, <2>1, <2>2, <2>3, <2>8, <2>9 DEF IsRoot, len
<1> QED
  BY <1>4, <1>5

\* Everything turns around with period len, and stays on the circle.
LEMMA Turns ==
  ASSUME NEW w, NEW len \in Nat \ {0}, NEW inverse, IsRoot(w, len, inverse)
  PROVE  /\ w \in Complex /\ PowersOf(w) \in [Nat -> Complex] /\ PowersOf(w)[0] = One
         /\ \A a, b \in Nat : PowersOf(w)[a + b] = C_MUL(PowersOf(w)[a], PowersOf(w)[b])
         /\ \A k \in Nat : C_MUL(PowersOf(w)[k], Conj(PowersOf(w)[k])) = One
         /\ \A a, b \in Nat : PowersOf(w)[a + len * b] = PowersOf(w)[a]
         /\ \A a \in Nat : PowersOf(w)[a % len] = PowersOf(w)[a]
<1> DEFINE f == PowersOf(w)
<1>1. w \in Complex /\ C_MUL(w, Conj(w)) = One /\ f[len] = One
  BY DEF IsRoot
<1>2. f \in [Nat -> Complex] /\ f[0] = One /\ \A k \in Nat : f[k + 1] = C_MUL(f[k], w)
  BY <1>1, PowersExist
<1>3. \A a, b \in Nat : f[a + b] = C_MUL(f[a], f[b])
  BY <1>1, PowersAdd
<1> HIDE DEF f
<1>4. ASSUME NEW j \in Nat PROVE C_MUL(f[j], Conj(f[j])) = One
  <2> DEFINE S == {k \in Nat : C_MUL(f[k], Conj(f[k])) = One}
  <2>1. 0 \in S
    <3>1. Conj(One) = One
      BY ConjOfUnits
    <3> QED
      BY <1>2, <3>1, Neutral, Constants
  <2>2. ASSUME NEW k \in S PROVE k + 1 \in S
    <3>1. k \in Nat /\ C_MUL(f[k], Conj(f[k])) = One /\ f[k] \in Complex
      BY <1>2
    <3>2. f[k + 1] = C_MUL(f[k], w) /\ Conj(f[k]) \in Complex /\ Conj(w) \in Complex
      BY <1>1, <1>2, <3>1, Closed
    <3>3. Conj(C_MUL(f[k], w)) = C_MUL(Conj(f[k]), Conj(w))
      BY <1>1, <3>1, ConjProduct
    <3>4. C_MUL(C_MUL(f[k], w), C_MUL(Conj(f[k]), Conj(w))) = C_MUL(C_MUL(f[k], Conj(f[k])), C_MUL(w, Conj(w)))
      BY <1>1, <3>1, <3>2, Swaps
    <3>5. C_MUL(f[k + 1], Conj(f[k + 1])) = One
      BY <1>1, <3>1, <3>2, <3>3, <3>4, Neutral, Constants
    <3> QED
      BY <3>1, <3>5
  <2>3. j \in S
    <3>1. S \in SUBSET Nat
      OBVIOUS
    <3> HIDE DEF S
    <3> QED
      BY <2>1, <2>2, <3>1, Inductive
  <2> QED
    BY <2>3
<1>5. ASSUME NEW a \in Nat, NEW b \in Nat PROVE f[a + len * b] = f[a]
  <2> DEFINE S == {k \in Nat : f[a + len * k] = f[a]}
  <2>1. 0 \in S
    <3>1. a + len * 0 = a
      OBVIOUS
    <3> QED
      BY <3>1
  <2>2. ASSUME NEW k \in S PROVE k + 1 \in S
    <3> DEFINE e == a + len * k
    <3>1. k \in Nat /\ f[e] = f[a] /\ e \in Nat /\ a + len * (k + 1) = e + len
      OBVIOUS
    <3> HIDE DEF e
    <3>2. f[e + len] = C_MUL(f[a], One) /\ f[a] \in Complex
      BY <1>1, <1>2, <1>3, <3>1
    <3>3. f[a + len * (k + 1)] = f[a]
      BY <3>1, <3>2, Neutral
    <3> QED
      BY <3>1, <3>3
  <2>3. b \in S
    <3>1. S \in SUBSET Nat
      OBVIOUS
    <3> HIDE DEF S
    <3> QED
      BY <2>1, <2>2, <3>1, Inductive
  <2> QED
    BY <2>3
<1>6. ASSUME NEW a \in Nat PROVE f[a % len] = f[a]
  <2>1. PICK e \in Int, r \in 0..(len - 1) : a = len * e + r /\ e = a \div len /\ r = a % len
    BY Euclid
  <2>2. e \in Nat /\ r \in Nat /\ a = r + len * e
    BY <2>1, Divided
  <2> QED
    BY <1>5, <2>1, <2>2
<1> QED
  BY <1>1, <1>2, <1>3, <1>4, <1>5, <1>6 DEF f

(***************************************************************************)
(* The butterflies.                                                        *)
(***************************************************************************)

\* The q-th value turned by q times e.
Spin(y, e) == [q \in Nat |-> C_MUL(y[q], PowersOf(Root)[q * e])]

\* The table is filled and there is an input.
Tabulated ==
  /\ job \in Jobs /\ job.fin # none
  /\ twiddles = [j \in 0..(job.nfft - 1) |-> Power(Root, j)]

\* What the butterflies find in the table: the powers of a root of unity.
LEMMA TableIs ==
  ASSUME Tabulated
  PROVE  /\ job.nfft \in Nat \ {0} /\ IsRoot(Root, job.nfft, job.inverse) /\ Root \in Complex
         /\ PowersOf(Root) \in [Nat -> Complex] /\ PowersOf(Root)[0] = One
         /\ \A a, b \in Nat : PowersOf(Root)[a + b] = C_MUL(PowersOf(Root)[a], PowersOf(Root)[b])
         /\ \A a, b \in Nat : PowersOf(Root)[a + job.nfft * b] = PowersOf(Root)[a]
         /\ \A a \in Nat : PowersOf(Root)[a % job.nfft] = PowersOf(Root)[a]
         /\ \A j \in 0..(job.nfft - 1) : Tw(j) = PowersOf(Root)[j]
<1>1. job.nfft \in Nat \ {0} /\ IsRoot(Root, job.nfft, job.inverse)
  BY RootIsRoot, KissFftAssumption DEF Tabulated
<1>2. Root \in Complex
  BY <1>1 DEF IsRoot
<1>3. \A j \in 0..(job.nfft - 1) : Tw(j) = PowersOf(Root)[j]
  <2>1. ASSUME NEW j \in 0..(job.nfft - 1) PROVE Tw(j) = PowersOf(Root)[j]
    <3>1. Tw(j) = Power(Root, j)
      BY DEF Tabulated, Tw
    <3>2. j \in Nat
      BY <1>1
    <3> QED
      BY <1>2, <3>1, <3>2, PowerIs
  <2> QED
    BY <2>1
<1> QED
  BY <1>1, <1>2, <1>3, Turns

\* Spin is a sequence of numbers again.
LEMMA SpinIs ==
  ASSUME Tabulated, NEW y \in [Nat -> Complex], NEW e \in Nat
  PROVE  /\ Spin(y, e) \in [Nat -> Complex] /\ Spin(y, e)[0] = y[0]
         /\ \A q \in Nat : q * e \in Nat /\ PowersOf(Root)[q * e] \in Complex
         /\ \A q \in Nat : Spin(y, e)[q] = C_MUL(y[q], PowersOf(Root)[q * e])
<1> DEFINE f == PowersOf(Root)
<1>1. f \in [Nat -> Complex] /\ f[0] = One
  BY TableIs
<1> HIDE DEF f
<1>2. ASSUME NEW q \in Nat PROVE q * e \in Nat /\ f[q * e] \in Complex
  <2>1. q * e \in Nat
    OBVIOUS
  <2> QED
    BY <1>1, <2>1
<1>3. Spin(y, e) \in [Nat -> Complex] /\ \A q \in Nat : Spin(y, e)[q] = C_MUL(y[q], f[q * e])
  BY <1>2, Closed DEF Spin, f
<1>4. Spin(y, e)[0] = y[0]
  <2>1. 0 * e = 0 /\ y[0] \in Complex /\ Spin(y, e)[0] = C_MUL(y[0], f[0 * e])
    BY <1>3
  <2>2. C_MUL(y[0], One) = y[0]
    BY <2>1, Neutral
  <2> QED
    BY <1>1, <2>1, <2>2
<1> QED
  BY <1>2, <1>3, <1>4 DEF f

\* Turns add.
LEMMA SpinAdds ==
  ASSUME Tabulated, NEW y \in [Nat -> Complex], NEW a \in Nat, NEW b \in Nat
  PROVE  Spin(y, a + b) = Spin(Spin(y, a), b)
<1> DEFINE f == PowersOf(Root)
           z == Spin(y, a)
<1>1. \A i, j \in Nat : f[i + j] = C_MUL(f[i], f[j])
  BY TableIs
<1>2. z \in [Nat -> Complex] /\ \A q \in Nat : z[q] = C_MUL(y[q], f[q * a])
  BY SpinIs
<1>3. \A q \in Nat : q * a \in Nat /\ q * b \in Nat /\ f[q * a] \in Complex /\ f[q * b] \in Complex
  BY SpinIs
<1>4. a + b \in Nat
  OBVIOUS
<1>5. Spin(y, a + b) \in [Nat -> Complex] /\ \A q \in Nat : Spin(y, a + b)[q] = C_MUL(y[q], f[q * (a + b)])
  BY <1>4, SpinIs
<1>6. Spin(z, b) \in [Nat -> Complex] /\ \A q \in Nat : Spin(z, b)[q] = C_MUL(z[q], f[q * b])
  <2> HIDE DEF z
  <2> QED
    BY <1>2, SpinIs
<1> HIDE DEF f, z
<1>7. ASSUME NEW q \in Nat PROVE Spin(y, a + b)[q] = Spin(z, b)[q]
  <2>1. q * (a + b) = q * a + q * b
    OBVIOUS
  <2>2. f[q * (a + b)] = C_MUL(f[q * a], f[q * b])
    BY <1>1, <1>3, <2>1
  <2>3. y[q] \in Complex /\ f[q * a] \in Complex /\ f[q * b] \in Complex
    BY <1>3
  <2>4. C_MUL(C_MUL(y[q], f[q * a]), f[q * b]) = C_MUL(y[q], C_MUL(f[q * a], f[q * b]))
    BY <2>3, Associates
  <2> QED
    BY <1>2, <1>5, <1>6, <2>2, <2>4
<1> QED
  BY <1>5, <1>6, <1>7 DEF z

\* Short sums.
LEMMA SumsOfFew ==
  ASSUME NEW t \in [Nat -> Complex]
  PROVE  /\ Sum(t, 1) = t[0]
         /\ Sum(t, 2) = C_ADD(t[0], t[1])
         /\ Sum(t, 3) = C_ADD(C_ADD(t[0], t[1]), t[2])
         /\ Sum(t, 4) = C_ADD(C_ADD(C_ADD(t[0], t[1]), t[2]), t[3])
         /\ Sum(t, 5) = C_ADD(C_ADD(C_ADD(C_ADD(t[0], t[1]), t[2]), t[3]), t[4])
<1>1. /\ Sum(t, 0 + 1) = C_ADD(Sum(t, 0), t[0]) /\ Sum(t, 1 + 1) = C_ADD(Sum(t, 1), t[1])
      /\ Sum(t, 2 + 1) = C_ADD(Sum(t, 2), t[2]) /\ Sum(t, 3 + 1) = C_ADD(Sum(t, 3), t[3])
      /\ Sum(t, 4 + 1) = C_ADD(Sum(t, 4), t[4]) /\ Sum(t, 0) = Zero
  BY SumIs
<1>2. 0 + 1 = 1 /\ 1 + 1 = 2 /\ 2 + 1 = 3 /\ 3 + 1 = 4 /\ 4 + 1 = 5
  OBVIOUS
<1>3. C_ADD(Zero, t[0]) = t[0]
  BY Neutral
<1> QED
  BY <1>1, <1>2, <1>3

\* Multiplication by the units.
LEMMA UnitProducts ==
  ASSUME NEW x \in Int, NEW y \in Int, NEW v \in Int, NEW w \in Int, v + x = 0, w + y = 0
  PROVE  /\ C_MUL(Cpx(x, y), Cpx(-1, 0)) = Cpx(v, w)
         /\ C_MUL(Cpx(x, y), Cpx(0, -1)) = Cpx(y, v)
         /\ C_MUL(Cpx(x, y), Cpx(0, 1)) = Cpx(w, x)
<1> DEFINE mi == -1
<1>1. mi \in Int
  OBVIOUS
<1>2. /\ x * mi - y * 0 = v /\ x * 0 + y * mi = w /\ x * 0 - y * mi = y /\ x * mi + y * 0 = v
      /\ x * 0 - y * 1 = w /\ x * 1 + y * 0 = x
  OBVIOUS
<1> HIDE DEF mi
<1>3. C_MUL(Cpx(x, y), Cpx(mi, 0)) = Cpx(x * mi - y * 0, x * 0 + y * mi)
  BY <1>1, CpxOps
<1>4. C_MUL(Cpx(x, y), Cpx(0, mi)) = Cpx(x * 0 - y * mi, x * mi + y * 0)
  BY <1>1, CpxOps
<1>5. C_MUL(Cpx(x, y), Cpx(0, 1)) = Cpx(x * 0 - y * 1, x * 1 + y * 0)
  BY CpxOps
<1> QED
  BY <1>2, <1>3, <1>4, <1>5 DEF mi

MinusOne == Cpx(-1, 0)
UnitI    == Cpx(0, 1)
UnitMI   == Cpx(0, -1)

\* Turns by a half and a quarter.
LEMMA Units ==
  /\ MinusOne \in Complex /\ UnitI \in Complex /\ UnitMI \in Complex
  /\ C_MUL(UnitI, MinusOne) = UnitMI /\ C_MUL(UnitMI, MinusOne) = UnitI
<1>1. 0 \in Int /\ 1 \in Int /\ -1 \in Int /\ 0 + 0 = 0 /\ (-1) + 1 = 0 /\ 1 + (-1) = 0
  OBVIOUS
<1> QED
  BY <1>1, CpxIs, UnitProducts DEF MinusOne, UnitI, UnitMI

\* Subtracting, and the turns of the butterflies, as products with units.
LEMMA UnitTurns ==
  ASSUME NEW a \in Complex, NEW b \in Complex
  PROVE  /\ C_SUB(a, b) = C_ADD(a, C_MUL(b, MinusOne))
         /\ PlusI(a, b) = C_ADD(a, C_MUL(b, UnitI))
         /\ MinusI(a, b) = C_ADD(a, C_MUL(b, UnitMI))
<1> DEFINE x == a.r  y == a.i  v == b.r  w == b.i
<1>1. /\ x \in Int /\ y \in Int /\ v \in Int /\ w \in Int
      /\ a = Cpx(x, y) /\ b = Cpx(v, w)
  BY CpxIs
<1> HIDE DEF x, y, v, w
<1> DEFINE v1 == -v  w1 == -w
<1>2. /\ v1 \in Int /\ w1 \in Int /\ x + v1 = x - v /\ y + w1 = y - w /\ x + w1 = x - w /\ y + v1 = y - v
      /\ v1 + v = 0 /\ w1 + w = 0
  BY <1>1
<1> HIDE DEF v1, w1
<1>3. C_MUL(b, MinusOne) = Cpx(v1, w1) /\ C_MUL(b, UnitMI) = Cpx(w, v1) /\ C_MUL(b, UnitI) = Cpx(w1, v)
  BY <1>1, <1>2, UnitProducts DEF MinusOne, UnitI, UnitMI
<1>4. C_ADD(Cpx(x, y), Cpx(v1, w1)) = Cpx(x + v1, y + w1)
  BY <1>1, <1>2, CpxOps
<1>5. C_ADD(Cpx(x, y), Cpx(w, v1)) = Cpx(x + w, y + v1)
  BY <1>1, <1>2, CpxOps
<1>6. C_ADD(Cpx(x, y), Cpx(w1, v)) = Cpx(x + w1, y + v)
  BY <1>1, <1>2, CpxOps
<1>7. C_SUB(Cpx(x, y), Cpx(v, w)) = Cpx(x - v, y - w)
  BY <1>1, CpxOps
<1>8. PlusI(Cpx(x, y), Cpx(v, w)) = Cpx(x - w, y + v)
  BY <1>1, CpxOps
<1>9. MinusI(Cpx(x, y), Cpx(v, w)) = Cpx(x + w, y - v)
  BY <1>1, CpxOps
<1> QED
  BY <1>1, <1>2, <1>3, <1>4, <1>5, <1>6, <1>7, <1>8, <1>9

\* Radix 2: half a turn is -1.
LEMMA Rows2 ==
  ASSUME Tabulated, NEW s \in [Nat -> Complex], NEW g \in Nat, 2 * g = job.nfft
  PROVE  /\ Sum(Spin(s, 0 * g), 2) = C_ADD(s[0], s[1])
         /\ Sum(Spin(s, 1 * g), 2) = C_SUB(s[0], s[1])
<1> DEFINE f == PowersOf(Root)
<1>1. f[0] = One /\ f[g] = Cpx(-1, 0)
  <2>1. job.nfft % 2 = 0 /\ job.nfft \div 2 = g
    OBVIOUS
  <2> QED
    BY <2>1, TableIs DEF IsRoot
<1>2. /\ Spin(s, 0) \in [Nat -> Complex] /\ Spin(s, 0)[0] = s[0] /\ Spin(s, 0)[1] = C_MUL(s[1], f[1 * 0])
      /\ Spin(s, g) \in [Nat -> Complex] /\ Spin(s, g)[0] = s[0] /\ Spin(s, g)[1] = C_MUL(s[1], f[1 * g])
  <2>1. \A e \in Nat : /\ Spin(s, e) \in [Nat -> Complex] /\ Spin(s, e)[0] = s[0]
                       /\ \A q \in Nat : Spin(s, e)[q] = C_MUL(s[q], f[q * e])
    BY SpinIs
  <2> HIDE DEF f
  <2> QED
    BY <2>1
<1>3. 0 * g = 0 /\ 1 * g = g /\ 1 * 0 = 0
  OBVIOUS
<1> HIDE DEF f
<1>4. Sum(Spin(s, 0), 2) = C_ADD(s[0], C_MUL(s[1], One)) /\ Sum(Spin(s, g), 2) = C_ADD(s[0], C_MUL(s[1], Cpx(-1, 0)))
  BY <1>1, <1>2, <1>3, SumsOfFew
<1>5. C_MUL(s[1], One) = s[1]
  BY Neutral
<1>6. C_SUB(s[0], s[1]) = C_ADD(s[0], C_MUL(s[1], Cpx(-1, 0)))
  BY UnitTurns DEF MinusOne
<1> QED
  BY <1>3, <1>4, <1>5, <1>6

\* Radix 4: a quarter of a turn is -i, or i for the inverse.
LEMMA FourTurned ==
  ASSUME NEW a \in Complex, NEW b \in Complex, NEW c \in Complex, NEW d \in Complex
  PROVE  /\ C_ADD(C_ADD(C_ADD(a, b), c), d) = C_ADD(C_ADD(a, c), C_ADD(b, d))
         /\ C_ADD(C_ADD(C_ADD(a, C_MUL(b, MinusOne)), c), C_MUL(d, MinusOne))
              = C_SUB(C_ADD(a, c), C_ADD(b, d))
         /\ C_ADD(C_ADD(C_ADD(a, C_MUL(b, UnitMI)), C_MUL(c, MinusOne)), C_MUL(d, UnitI))
              = MinusI(C_SUB(a, c), C_SUB(b, d))
         /\ C_ADD(C_ADD(C_ADD(a, C_MUL(b, UnitI)), C_MUL(c, MinusOne)), C_MUL(d, UnitMI))
              = PlusI(C_SUB(a, c), C_SUB(b, d))
<1>1. ASSUME NEW e \in Complex, NEW e1 \in Complex, NEW e2 \in Complex, NEW e3 \in Complex
      PROVE  C_ADD(C_ADD(C_ADD(e, e1), e2), e3) = C_ADD(C_ADD(e, e2), C_ADD(e1, e3))
  <2> DEFINE h == C_ADD(e, e1)
  <2>1. h \in Complex
    BY Closed
  <2>2. C_ADD(C_ADD(h, e2), e3) = C_ADD(h, C_ADD(e2, e3))
    <3> HIDE DEF h
    <3> QED
      BY <2>1, Associates
  <2>3. C_ADD(h, C_ADD(e2, e3)) = C_ADD(C_ADD(e, e2), C_ADD(e1, e3))
    BY Swaps
  <2> QED
    BY <2>2, <2>3
\* A common factor.
<1>2. ASSUME NEW u \in Complex, NEW e1 \in Complex, NEW e3 \in Complex
      PROVE  C_ADD(C_MUL(e1, u), C_MUL(e3, u)) = C_MUL(C_ADD(e1, e3), u)
  <2>0. C_ADD(e1, e3) \in Complex
    BY Closed
  <2>1. C_MUL(u, C_ADD(e1, e3)) = C_ADD(C_MUL(u, e1), C_MUL(u, e3))
    BY Distributes
  <2>2. C_MUL(u, e1) = C_MUL(e1, u) /\ C_MUL(u, e3) = C_MUL(e3, u)
    BY Commutes
  <2>3. C_MUL(u, C_ADD(e1, e3)) = C_MUL(C_ADD(e1, e3), u)
    <3> DEFINE h == C_ADD(e1, e3)
    <3> HIDE DEF h
    <3> QED
      BY <2>0, Commutes DEF h
  <2> QED
    BY <2>1, <2>2, <2>3
<1>3. MinusOne \in Complex /\ UnitI \in Complex /\ UnitMI \in Complex
  BY Units
<1> DEFINE u == MinusOne
           cu == C_MUL(c, u)  bu == C_MUL(b, u)  du == C_MUL(d, u)
           ac == C_ADD(a, c)  bd == C_ADD(b, d)  ac1 == C_SUB(a, c)  bd1 == C_SUB(b, d)
<1>4. /\ cu \in Complex /\ bu \in Complex /\ du \in Complex /\ ac \in Complex /\ bd \in Complex
      /\ ac1 \in Complex /\ bd1 \in Complex
  BY <1>3, Closed
<1>5. ac1 = C_ADD(a, cu) /\ bd1 = C_ADD(b, du)
  BY UnitTurns
<1>6. C_ADD(C_ADD(C_ADD(a, b), c), d) = C_ADD(ac, bd)
  BY <1>1
<1>7. C_ADD(C_ADD(C_ADD(a, bu), c), du) = C_SUB(ac, bd)
  <2>1. C_ADD(C_ADD(C_ADD(a, bu), c), du) = C_ADD(ac, C_ADD(bu, du))
    <3> HIDE DEF bu, du
    <3> QED
      BY <1>1, <1>4
  <2>2. C_ADD(bu, du) = C_MUL(bd, u)
    BY <1>2, <1>3
  <2>3. C_SUB(ac, bd) = C_ADD(ac, C_MUL(bd, u))
    <3> HIDE DEF ac, bd
    <3> QED
      BY <1>4, UnitTurns
  <2> QED
    BY <2>1, <2>2, <2>3
<1>8. ASSUME NEW v \in Complex, NEW v1 \in Complex, v1 = C_MUL(v, u)
      PROVE  C_ADD(C_ADD(C_ADD(a, C_MUL(b, v)), cu), C_MUL(d, v1)) = C_ADD(ac1, C_MUL(bd1, v))
  <2> DEFINE bv == C_MUL(b, v)  dv == C_MUL(d, v1)
  <2>1. bv \in Complex /\ dv \in Complex
    BY Closed
  <2>2. C_ADD(C_ADD(C_ADD(a, bv), cu), dv) = C_ADD(C_ADD(a, cu), C_ADD(bv, dv))
    <3> HIDE DEF bv, dv, cu
    <3> QED
      BY <1>1, <1>4, <2>1
  <2>3. dv = C_MUL(du, v)
    <3>1. C_MUL(v, u) = C_MUL(u, v) /\ C_MUL(C_MUL(d, u), v) = C_MUL(d, C_MUL(u, v))
      BY <1>3, Commutes, Associates
    <3> QED
      BY <1>8, <3>1
  <2>4. C_ADD(C_MUL(b, v), C_MUL(du, v)) = C_MUL(C_ADD(b, du), v)
    <3> HIDE DEF du
    <3> QED
      BY <1>2, <1>4
  <2> QED
    BY <1>5, <2>2, <2>3, <2>4
<1>9. C_MUL(UnitI, u) = UnitMI /\ C_MUL(UnitMI, u) = UnitI
  BY Units
<1>10. /\ C_ADD(C_ADD(C_ADD(a, C_MUL(b, UnitMI)), cu), C_MUL(d, UnitI)) = C_ADD(ac1, C_MUL(bd1, UnitMI))
       /\ C_ADD(C_ADD(C_ADD(a, C_MUL(b, UnitI)), cu), C_MUL(d, UnitMI)) = C_ADD(ac1, C_MUL(bd1, UnitI))
  <2> HIDE DEF u, cu, ac1, bd1
  <2> QED
    BY <1>3, <1>8, <1>9
<1>11. MinusI(ac1, bd1) = C_ADD(ac1, C_MUL(bd1, UnitMI)) /\ PlusI(ac1, bd1) = C_ADD(ac1, C_MUL(bd1, UnitI))
  <2> HIDE DEF ac1, bd1
  <2> QED
    BY <1>4, UnitTurns
<1> QED
  BY <1>6, <1>7, <1>10, <1>11

\* Radix 4: a quarter of a turn is -i, or i for the inverse.
LEMMA Rows4 ==
  ASSUME Tabulated, NEW s \in [Nat -> Complex], NEW g \in Nat, 4 * g = job.nfft
  PROVE  /\ Sum(Spin(s, 0 * g), 4) = C_ADD(C_ADD(s[0], s[2]), C_ADD(s[1], s[3]))
         /\ Sum(Spin(s, 1 * g), 4) = HalfTurn(C_SUB(s[0], s[2]), C_SUB(s[1], s[3]))[1]
         /\ Sum(Spin(s, 2 * g), 4) = C_SUB(C_ADD(s[0], s[2]), C_ADD(s[1], s[3]))
         /\ Sum(Spin(s, 3 * g), 4) = HalfTurn(C_SUB(s[0], s[2]), C_SUB(s[1], s[3]))[2]
<1> DEFINE f == PowersOf(Root)
           len == job.nfft
           quarter == IF job.inverse THEN UnitI ELSE UnitMI
           other == IF job.inverse THEN UnitMI ELSE UnitI
<1>1. /\ f \in [Nat -> Complex] /\ f[0] = One
      /\ \A i, j \in Nat : f[i + j] = C_MUL(f[i], f[j])
      /\ \A i, j \in Nat : f[i + len * j] = f[i]
      /\ f[g] = quarter /\ f[2 * g] = MinusOne
  <2>1. job.nfft % 2 = 0 /\ job.nfft \div 2 = 2 * g /\ job.nfft % 4 = 0 /\ job.nfft \div 4 = g
    OBVIOUS
  <2> QED
    BY <2>1, TableIs DEF IsRoot, MinusOne, UnitI, UnitMI
<1>2. \A e \in Nat : /\ Spin(s, e) \in [Nat -> Complex] /\ Spin(s, e)[0] = s[0]
                     /\ \A q \in Nat : Spin(s, e)[q] = C_MUL(s[q], f[q * e])
  BY SpinIs
<1>0. len \in Nat /\ 4 * g = len
  BY TableIs
<1> HIDE DEF f, len
<1>3. f[3 * g] = other
  <2>1. f[g + 2 * g] = C_MUL(f[g], f[2 * g]) /\ g + 2 * g = 3 * g
    BY <1>1
  <2>2. C_MUL(UnitI, MinusOne) = UnitMI /\ C_MUL(UnitMI, MinusOne) = UnitI
    BY Units
  <2> QED
    BY <1>1, <2>1, <2>2
<1> DEFINE a == s[0]  b == s[1]  c == s[2]  d == s[3]  u == MinusOne
<1>4. a \in Complex /\ b \in Complex /\ c \in Complex /\ d \in Complex
  OBVIOUS
<1>5. C_MUL(b, One) = b /\ C_MUL(c, One) = c /\ C_MUL(d, One) = d
  <2> HIDE DEF b, c, d
  <2> QED
    BY <1>4, Neutral
<1>6. ASSUME NEW e \in Nat, NEW v1, NEW v2, NEW v3, f[1 * e] = v1, f[2 * e] = v2, f[3 * e] = v3
      PROVE  Sum(Spin(s, e), 4) = C_ADD(C_ADD(C_ADD(a, C_MUL(b, v1)), C_MUL(c, v2)), C_MUL(d, v3))
  <2>1. Spin(s, e) \in [Nat -> Complex] /\ Spin(s, e)[0] = a
    BY <1>2
  <2>2. Spin(s, e)[1] = C_MUL(b, v1) /\ Spin(s, e)[2] = C_MUL(c, v2) /\ Spin(s, e)[3] = C_MUL(d, v3)
    BY <1>2, <1>6
  <2> QED
    BY <2>1, <2>2, SumsOfFew
<1>7. Sum(Spin(s, 0 * g), 4) = C_ADD(C_ADD(C_ADD(a, b), c), d)
  <2>1. 0 * g = 0 /\ 1 * 0 = 0 /\ 2 * 0 = 0 /\ 3 * 0 = 0
    OBVIOUS
  <2>2. Sum(Spin(s, 0), 4) = C_ADD(C_ADD(C_ADD(a, C_MUL(b, One)), C_MUL(c, One)), C_MUL(d, One))
    BY <1>1, <1>6, <2>1
  <2> QED
    BY <1>5, <2>1, <2>2
<1>8. Sum(Spin(s, 1 * g), 4) = C_ADD(C_ADD(C_ADD(a, C_MUL(b, quarter)), C_MUL(c, u)), C_MUL(d, other))
  <2>1. 1 * g = g
    OBVIOUS
  <2>2. f[1 * g] = quarter /\ f[2 * g] = u /\ f[3 * g] = other
    BY <1>1, <1>3, <2>1
  <2>3. Sum(Spin(s, g), 4) = C_ADD(C_ADD(C_ADD(a, C_MUL(b, quarter)), C_MUL(c, u)), C_MUL(d, other))
    <3> HIDE DEF quarter, other, u, a, b, c, d
    <3> QED
      BY <1>6, <2>2
  <2> QED
    BY <2>1, <2>3
<1>9. Sum(Spin(s, 2 * g), 4) = C_ADD(C_ADD(C_ADD(a, C_MUL(b, u)), c), C_MUL(d, u))
  <2> DEFINE e == 2 * g
  <2>1. e \in Nat /\ 1 * e = 2 * g /\ 2 * e = 0 + len * 1 /\ 3 * e = 2 * g + len * 1
    BY <1>0
  <2>2. f[1 * e] = u /\ f[2 * e] = One /\ f[3 * e] = u
    <3>1. f[0 + len * 1] = f[0] /\ f[2 * g + len * 1] = f[2 * g]
      <4>1. 0 \in Nat /\ 1 \in Nat /\ 2 * g \in Nat
        OBVIOUS
      <4> QED
        BY <1>1, <4>1
    <3> HIDE DEF e
    <3> QED
      BY <1>1, <2>1, <3>1
  <2>3. Sum(Spin(s, e), 4) = C_ADD(C_ADD(C_ADD(a, C_MUL(b, u)), C_MUL(c, One)), C_MUL(d, u))
    <3> HIDE DEF u, a, b, c, d, e
    <3> QED
      BY <1>6, <2>1, <2>2
  <2> QED
    BY <1>5, <2>3
<1>10. Sum(Spin(s, 3 * g), 4) = C_ADD(C_ADD(C_ADD(a, C_MUL(b, other)), C_MUL(c, u)), C_MUL(d, quarter))
  <2> DEFINE e == 3 * g
  <2>1. e \in Nat /\ 1 * e = 3 * g /\ 2 * e = 2 * g + len * 1 /\ 3 * e = g + len * 2
    BY <1>0
  <2>2. f[1 * e] = other /\ f[2 * e] = u /\ f[3 * e] = quarter
    <3>1. f[2 * g + len * 1] = f[2 * g] /\ f[g + len * 2] = f[g]
      <4>1. 2 \in Nat /\ 1 \in Nat /\ 2 * g \in Nat
        OBVIOUS
      <4> QED
        BY <1>1, <4>1
    <3> HIDE DEF e
    <3> QED
      BY <1>1, <1>3, <2>1, <3>1
  <2>3. Sum(Spin(s, e), 4) = C_ADD(C_ADD(C_ADD(a, C_MUL(b, other)), C_MUL(c, u)), C_MUL(d, quarter))
    <3> HIDE DEF quarter, other, u, a, b, c, d, e
    <3> QED
      BY <1>6, <2>1, <2>2
  <2> QED
    BY <2>3
<1> HIDE DEF a, b, c, d
<1>11. HalfTurn(C_SUB(a, c), C_SUB(b, d))[1] = C_ADD(C_ADD(C_ADD(a, C_MUL(b, quarter)), C_MUL(c, u)), C_MUL(d, other))
  BY <1>4, FourTurned DEF HalfTurn
<1>12. HalfTurn(C_SUB(a, c), C_SUB(b, d))[2] = C_ADD(C_ADD(C_ADD(a, C_MUL(b, other)), C_MUL(c, u)), C_MUL(d, quarter))
  BY <1>4, FourTurned DEF HalfTurn
<1>13. /\ C_ADD(C_ADD(C_ADD(a, b), c), d) = C_ADD(C_ADD(a, c), C_ADD(b, d))
       /\ C_ADD(C_ADD(C_ADD(a, C_MUL(b, u)), c), C_MUL(d, u)) = C_SUB(C_ADD(a, c), C_ADD(b, d))
  BY <1>4, FourTurned
<1> HIDE DEF quarter, other, u
<1> QED
  BY <1>7, <1>8, <1>9, <1>10, <1>11, <1>12, <1>13 DEF a, b, c, d

\* A number by its real and its imaginary part.
Re(c) == Cpx(c.r, 0)
Im(c) == Cpx(0, c.i)

\* Scaling by a real number is a product.
LEMMA Scaling ==
  ASSUME NEW c \in Complex, NEW k \in Int
  PROVE  /\ Cpx(k, 0) \in Complex /\ C_MULBYSCALAR(c, k) = C_MUL(c, Cpx(k, 0))
<1> DEFINE x == c.r  y == c.i
<1>1. x \in Int /\ y \in Int /\ c = Cpx(x, y)
  BY CpxIs
<1> HIDE DEF x, y
<1>2. C_MUL(Cpx(x, y), Cpx(k, 0)) = Cpx(x * k - y * 0, x * 0 + y * k)
  BY <1>1, CpxOps
<1>3. C_MULBYSCALAR(Cpx(x, y), k) = Cpx(x * k, y * k)
  BY <1>1, CpxOps
<1>4. x * k - y * 0 = x * k /\ x * 0 + y * k = y * k
  BY <1>1
<1>5. Cpx(k, 0) \in Complex
  BY CpxIs
<1> QED
  BY <1>1, <1>2, <1>3, <1>4, <1>5

\* A number is the sum of its real and its imaginary part.
LEMMA ReIm ==
  ASSUME NEW c \in Complex
  PROVE  /\ Re(c) \in Complex /\ Im(c) \in Complex
         /\ c = C_ADD(Re(c), Im(c))
         /\ Im(c) = C_MUL(Cpx(c.i, 0), UnitI)
         /\ Conj(c) = C_ADD(Re(c), C_MUL(Im(c), MinusOne))
         /\ Re(Conj(c)) = Re(c) /\ Im(Conj(c)) = C_MUL(Im(c), MinusOne)
<1> DEFINE x == c.r  y == c.i  w == -y
<1>1. x \in Int /\ y \in Int /\ c = Cpx(x, y) /\ w \in Int /\ w + y = 0
  BY CpxIs
<1>2. Re(c) = Cpx(x, 0) /\ Im(c) = Cpx(0, y)
  BY DEF Re, Im
<1>3. Conj(c) = Cpx(x, w) /\ c.r = x /\ c.i = y
  BY DEF Conj
<1> HIDE DEF x, y, w
<1>4. 0 \in Int /\ 0 + 0 = 0 /\ x + 0 = x /\ 0 + y = y /\ 0 + w = w
  BY <1>1
<1>5. C_ADD(Cpx(x, 0), Cpx(0, y)) = Cpx(x + 0, 0 + y)
  BY <1>1, <1>4, CpxOps
<1>6. C_ADD(Cpx(x, 0), Cpx(0, w)) = Cpx(x + 0, 0 + w)
  BY <1>1, <1>4, CpxOps
<1>7. C_MUL(Cpx(0, y), Cpx(-1, 0)) = Cpx(0, w)
  BY <1>1, <1>4, UnitProducts
<1>8. C_MUL(Cpx(y, 0), Cpx(0, 1)) = Cpx(0, y)
  BY <1>1, <1>4, UnitProducts
<1>9. Re(c) \in Complex /\ Im(c) \in Complex
  BY <1>1, <1>2, CpxIs
<1>10. Re(Conj(c)) = Cpx(x, 0) /\ Im(Conj(c)) = Cpx(0, w)
  <2>1. Conj(c).r = Mod(x) /\ Conj(c).i = Mod(w)
    BY <1>1, <1>3, CpxIs
  <2>2. \A k \in Int : Mod(Mod(k)) = Mod(k)
    BY ModIs, ModOfSmall
  <2>3. Mod(Mod(x)) = Mod(x) /\ Mod(Mod(w)) = Mod(w)
    BY <1>1, <2>2
  <2> QED
    BY <2>1, <2>3 DEF Re, Im, Cpx
<1> QED
  BY <1>1, <1>2, <1>3, <1>4, <1>5, <1>6, <1>7, <1>8, <1>9, <1>10 DEF MinusOne, UnitI

\* A common factor on the right.
LEMMA Factors ==
  ASSUME NEW u \in Complex, NEW a \in Complex, NEW b \in Complex
  PROVE  C_ADD(C_MUL(a, u), C_MUL(b, u)) = C_MUL(C_ADD(a, b), u)
<1>0. C_ADD(a, b) \in Complex
  BY Closed
<1>1. C_MUL(u, C_ADD(a, b)) = C_ADD(C_MUL(u, a), C_MUL(u, b))
  BY Distributes
<1>2. C_MUL(u, a) = C_MUL(a, u) /\ C_MUL(u, b) = C_MUL(b, u)
  BY Commutes
<1>3. C_MUL(u, C_ADD(a, b)) = C_MUL(C_ADD(a, b), u)
  <2> DEFINE h == C_ADD(a, b)
  <2> HIDE DEF h
  <2> QED
    BY <1>0, Commutes DEF h
<1> QED
  BY <1>1, <1>2, <1>3

\* Two values turned in opposite directions.
LEMMA Opposed ==
  ASSUME NEW a \in Complex, NEW b \in Complex, NEW c \in Complex
  PROVE  C_ADD(C_MUL(a, c), C_MUL(b, Conj(c)))
           = C_ADD(C_MUL(C_ADD(a, b), Re(c)), C_MUL(C_SUB(a, b), Im(c)))
<1> DEFINE u == MinusOne  x == Re(c)  y == Im(c)  y1 == C_MUL(y, u)  b1 == C_MUL(b, u)
<1>1. /\ u \in Complex /\ x \in Complex /\ y \in Complex /\ c = C_ADD(x, y) /\ Conj(c) = C_ADD(x, y1)
  BY Units, ReIm
<1> HIDE DEF u, x, y
<1>2. y1 \in Complex /\ b1 \in Complex
  BY <1>1, Closed
<1>3. C_MUL(a, c) = C_ADD(C_MUL(a, x), C_MUL(a, y))
  BY <1>1, Distributes
<1>4. C_MUL(b, C_ADD(x, y1)) = C_ADD(C_MUL(b, x), C_MUL(b, y1))
  <2> HIDE DEF y1
  <2> QED
    BY <1>1, <1>2, Distributes
<1>5. C_MUL(b, y1) = C_MUL(b1, y)
  <2>1. C_MUL(y, u) = C_MUL(u, y)
    BY <1>1, Commutes
  <2>2. C_MUL(b, C_MUL(u, y)) = C_MUL(C_MUL(b, u), y)
    BY <1>1, Associates
  <2> QED
    BY <2>1, <2>2
<1>6. C_SUB(a, b) = C_ADD(a, b1)
  BY UnitTurns DEF u
<1>7. /\ C_ADD(C_MUL(a, x), C_MUL(b, x)) = C_MUL(C_ADD(a, b), x)
  BY <1>1, Factors
<1>8. C_ADD(C_MUL(a, y), C_MUL(b1, y)) = C_MUL(C_ADD(a, b1), y)
  <2> HIDE DEF b1
  <2> QED
    BY <1>1, <1>2, Factors
<1> DEFINE ax == C_MUL(a, x)  ay == C_MUL(a, y)  bx == C_MUL(b, x)  by == C_MUL(b1, y)
<1>9. ax \in Complex /\ ay \in Complex /\ bx \in Complex /\ by \in Complex
  <2> HIDE DEF b1
  <2> QED
    BY <1>1, <1>2, Closed
<1>10. C_ADD(C_ADD(ax, ay), C_ADD(bx, by)) = C_ADD(C_ADD(ax, bx), C_ADD(ay, by))
  <2> HIDE DEF ax, ay, bx, by
  <2> QED
    BY <1>9, Swaps
<1> QED
  BY <1>1, <1>3, <1>4, <1>5, <1>6, <1>7, <1>8, <1>10 DEF u, x, y

\* A turn and the rest of it.
LEMMA RestOfTurn ==
  ASSUME Tabulated, NEW a \in Nat, NEW b \in Nat, a + b = job.nfft
  PROVE  PowersOf(Root)[a] = Conj(PowersOf(Root)[b])
<1> DEFINE f == PowersOf(Root)
           len == job.nfft
<1>1. /\ f \in [Nat -> Complex] /\ f[0] = One
      /\ \A i, j \in Nat : f[i + j] = C_MUL(f[i], f[j])
      /\ \A i, j \in Nat : f[i + len * j] = f[i]
      /\ C_MUL(f[b], Conj(f[b])) = One /\ len \in Nat
  BY TableIs, Turns
<1> HIDE DEF f, len
<1>2. C_MUL(f[a], f[b]) = One
  <2>1. a + b = 0 + len * 1 /\ 0 \in Nat /\ 1 \in Nat
    BY <1>1 DEF len
  <2>2. f[0 + len * 1] = f[0] /\ f[a + b] = C_MUL(f[a], f[b])
    BY <1>1, <2>1
  <2> QED
    BY <1>1, <2>1, <2>2
<1> DEFINE x == f[a]  y == f[b]  z == Conj(y)
<1>3. x \in Complex /\ y \in Complex /\ z \in Complex
  BY <1>1, Closed
<1>4. C_MUL(C_MUL(x, y), z) = C_MUL(x, C_MUL(y, z))
  <2> HIDE DEF x, y, z
  <2> QED
    BY <1>3, Associates
<1>5. C_MUL(One, z) = z /\ C_MUL(x, One) = x
  <2> HIDE DEF x, y, z
  <2> QED
    BY <1>3, Neutral
<1>6. x = z
  BY <1>1, <1>2, <1>4, <1>5
<1> QED
  BY <1>6 DEF f

\* Radix 3: the real part of a third of a turn is -1/2.
LEMMA MinusHalf ==
  ASSUME NEW c \in Complex, Mod(2 * c.r) = Mod(-1), NEW b \in Complex, NEW a \in Complex
  PROVE  Cpx(a.r - HALF_OF(b.r), a.i - HALF_OF(b.i)) = C_ADD(a, C_MUL(b, Re(c)))
<1> DEFINE h == (P + 1) \div 2
           x == b.r  y == b.i  k == c.r  mh == -h
           xh == x * h  yh == y * h
<1>1. h \in Int /\ 2 * h = P + 1 /\ P \in Int
  BY ModulusOdd
<1>2. x \in Int /\ y \in Int /\ k \in 0..(P - 1) /\ k \in Int /\ b = Cpx(x, y) /\ a.r \in Int /\ a.i \in Int
  <2>1. k \in 0..(P - 1)
    BY DEF Complex
  <2> QED
    BY <2>1, CpxIs
<1>3. Mod(mh) = Mod(k)
  <2> HIDE DEF h, k
  <2>1. mh \in Int /\ 2 * k \in Int /\ -1 \in Int /\ h * (2 * k) = k + P * k /\ h * (-1) = mh
    <3>1. (2 * h) * k = (P + 1) * k
      BY <1>1
    <3>2. h * (2 * k) = (2 * h) * k /\ (P + 1) * k = k + P * k
      BY <1>1, <1>2
    <3> QED
      BY <1>1, <1>2, <3>1, <3>2
  <2>2. Mod(h * Mod(2 * k)) = Mod(h * (2 * k)) /\ Mod(h * Mod(-1)) = Mod(h * (-1))
    BY <1>1, <2>1, ModOps
  <2>3. Mod(k + P * k) = Mod(k)
    BY <1>2, ModShift
  <2>4. Mod(2 * k) = Mod(-1)
    BY DEF k
  <2> QED
    BY <2>1, <2>2, <2>3, <2>4
<1>4. Re(c) = Cpx(mh, 0)
  BY <1>3 DEF Re, Cpx
<1>5. HALF_OF(b.r) = Mod(xh) /\ HALF_OF(b.i) = Mod(yh)
  BY DEF HALF_OF
<1> HIDE DEF h, x, y, k
<1>6. xh \in Int /\ yh \in Int /\ mh \in Int /\ mh + h = 0
  BY <1>1, <1>2
<1>7. Cpx(a.r - Mod(xh), a.i - Mod(yh)) = C_SUB(a, Cpx(xh, yh))
  <2> HIDE DEF xh, yh
  <2>1. Cpx(xh, yh).r = Mod(xh) /\ Cpx(xh, yh).i = Mod(yh)
    BY <1>6, CpxIs
  <2> QED
    BY <2>1 DEF C_SUB
<1>8. Cpx(xh, yh) = C_MUL(b, Cpx(h, 0))
  <2>1. C_MULBYSCALAR(Cpx(x, y), h) = Cpx(x * h, y * h)
    BY <1>1, <1>2, CpxOps
  <2> QED
    BY <1>1, <1>2, <2>1, Scaling
<1>9. C_MUL(C_MUL(b, Cpx(h, 0)), MinusOne) = C_MUL(b, Cpx(mh, 0))
  <2>1. C_MUL(Cpx(h, 0), Cpx(-1, 0)) = Cpx(mh, 0)
    <3>1. 0 \in Int /\ 0 + 0 = 0
      OBVIOUS
    <3> HIDE DEF mh
    <3> QED
      BY <1>1, <1>6, <3>1, UnitProducts
  <2> DEFINE e == Cpx(h, 0)
  <2>2. e \in Complex /\ MinusOne \in Complex
    BY <1>1, CpxIs, Units
  <2>3. C_MUL(C_MUL(b, e), MinusOne) = C_MUL(b, C_MUL(e, MinusOne))
    <3> HIDE DEF e
    <3> QED
      BY <2>2, Associates
  <2> QED
    BY <2>1, <2>3 DEF MinusOne
<1>10. C_SUB(a, C_MUL(b, Cpx(h, 0))) = C_ADD(a, C_MUL(C_MUL(b, Cpx(h, 0)), MinusOne))
  <2> DEFINE e == C_MUL(b, Cpx(h, 0))
  <2>1. e \in Complex
    <3> DEFINE hh == Cpx(h, 0)
    <3>1. hh \in Complex
      BY <1>1, CpxIs
    <3> HIDE DEF hh
    <3>2. C_MUL(b, hh) \in Complex
      BY <3>1, Closed
    <3> QED
      BY <3>2 DEF hh
  <2> HIDE DEF e
  <2> QED
    BY <2>1, UnitTurns DEF e
<1> HIDE DEF xh, yh, mh
<1> QED
  BY <1>4, <1>5, <1>7, <1>8, <1>9, <1>10

\* Radix 3: a third of a turn has the real part -1/2, and the other third is
\* its conjugate.
LEMMA Rows3 ==
  ASSUME Tabulated, NEW s \in [Nat -> Complex], NEW g \in Nat, 3 * g = job.nfft,
         NEW s3, s3 = C_ADD(s[1], s[2]),
         NEW s0, s0 = C_MULBYSCALAR(C_SUB(s[1], s[2]), PowersOf(Root)[g].i),
         NEW f1, f1 = Cpx(s[0].r - HALF_OF(s3.r), s[0].i - HALF_OF(s3.i))
  PROVE  /\ Sum(Spin(s, 0 * g), 3) = C_ADD(s[0], s3)
         /\ Sum(Spin(s, 1 * g), 3) = PlusI(f1, s0)
         /\ Sum(Spin(s, 2 * g), 3) = MinusI(f1, s0)
<1> DEFINE f == PowersOf(Root)
           len == job.nfft
           e == f[g]
           e1 == Conj(e)
           a == s[0]  b == s[1]  c == s[2]  d == C_SUB(b, c)
<1>1. /\ f \in [Nat -> Complex] /\ f[0] = One
      /\ \A i, j \in Nat : f[i + len * j] = f[i]
      /\ e \in Complex /\ Mod(2 * e.r) = Mod(-1) /\ f[2 * g] = e1 /\ len \in Nat
  <2>1. job.nfft % 3 = 0 /\ job.nfft \div 3 = g /\ 2 * g \in Nat /\ 2 * g + g = job.nfft
    OBVIOUS
  <2>2. f[2 * g] = e1
    BY <2>1, RestOfTurn
  <2> QED
    BY <2>1, <2>2, TableIs DEF IsRoot
<1>2. /\ a \in Complex /\ b \in Complex /\ c \in Complex /\ d \in Complex /\ s3 \in Complex /\ e1 \in Complex
  BY <1>1, Closed
<1>3. \A k \in Nat : /\ Spin(s, k) \in [Nat -> Complex] /\ Spin(s, k)[0] = s[0]
                     /\ \A q \in Nat : Spin(s, k)[q] = C_MUL(s[q], f[q * k])
  BY SpinIs
<1>0. len \in Nat /\ 3 * g = len
  BY <1>1
<1>4. ASSUME NEW k \in Nat, NEW v1, NEW v2, f[1 * k] = v1, f[2 * k] = v2
      PROVE  Sum(Spin(s, k), 3) = C_ADD(C_ADD(a, C_MUL(b, v1)), C_MUL(c, v2))
  <2> HIDE DEF f
  <2>1. Spin(s, k) \in [Nat -> Complex] /\ Spin(s, k)[0] = a
    BY <1>3
  <2>2. Spin(s, k)[1] = C_MUL(b, v1) /\ Spin(s, k)[2] = C_MUL(c, v2)
    BY <1>3, <1>4
  <2> QED
    BY <2>1, <2>2, SumsOfFew
<1> HIDE DEF f, len
<1>5. \A v1, v2 \in Complex : C_ADD(C_ADD(a, C_MUL(b, v1)), C_MUL(c, v2)) = C_ADD(a, C_ADD(C_MUL(b, v1), C_MUL(c, v2)))
  <2>1. ASSUME NEW v1 \in Complex, NEW v2 \in Complex
        PROVE C_ADD(C_ADD(a, C_MUL(b, v1)), C_MUL(c, v2)) = C_ADD(a, C_ADD(C_MUL(b, v1), C_MUL(c, v2)))
    <3> DEFINE x == C_MUL(b, v1)  y == C_MUL(c, v2)
    <3>1. x \in Complex /\ y \in Complex
      BY <1>2, Closed
    <3> HIDE DEF x, y, a
    <3> QED
      BY <1>2, <3>1, Associates DEF x, y
  <2> QED
    BY <2>1
<1>6. Sum(Spin(s, 0 * g), 3) = C_ADD(a, s3)
  <2>1. 0 * g = 0 /\ 1 * 0 = 0 /\ 2 * 0 = 0
    OBVIOUS
  <2>2. Sum(Spin(s, 0), 3) = C_ADD(C_ADD(a, C_MUL(b, One)), C_MUL(c, One))
    BY <1>1, <1>4, <2>1
  <2>3. C_MUL(b, One) = b /\ C_MUL(c, One) = c
    <3> HIDE DEF b, c
    <3> QED
      BY <1>2, Neutral
  <2>4. C_ADD(C_ADD(a, C_MUL(b, One)), C_MUL(c, One)) = C_ADD(a, C_ADD(C_MUL(b, One), C_MUL(c, One)))
    BY <1>5, Constants
  <2> QED
    BY <2>1, <2>2, <2>3, <2>4
<1>7. Sum(Spin(s, 1 * g), 3) = C_ADD(C_ADD(a, C_MUL(b, e)), C_MUL(c, e1))
  <2>1. 1 * g = g
    OBVIOUS
  <2> HIDE DEF e1, a, b, c
  <2>2. Sum(Spin(s, g), 3) = C_ADD(C_ADD(a, C_MUL(b, e)), C_MUL(c, e1))
    BY <1>1, <1>4, <2>1
  <2> QED
    BY <2>1, <2>2
<1>8. Sum(Spin(s, 2 * g), 3) = C_ADD(C_ADD(a, C_MUL(b, e1)), C_MUL(c, e))
  <2> DEFINE k == 2 * g
  <2>1. k \in Nat /\ 1 * k = 2 * g /\ 2 * k = g + len * 1
    BY <1>0
  <2>2. f[1 * k] = e1 /\ f[2 * k] = e
    <3>1. f[g + len * 1] = f[g]
      BY <1>1
    <3> HIDE DEF k
    <3> QED
      BY <1>1, <2>1, <3>1
  <2>3. Sum(Spin(s, k), 3) = C_ADD(C_ADD(a, C_MUL(b, e1)), C_MUL(c, e))
    <3> HIDE DEF k, e, e1, a, b, c
    <3> QED
      BY <1>4, <2>1, <2>2
  <2> QED
    BY <2>3
<1>9. C_ADD(C_MUL(b, e), C_MUL(c, e1)) = C_ADD(C_MUL(s3, Re(e)), C_MUL(d, Im(e)))
  <2> HIDE DEF e
  <2> QED
    BY <1>1, <1>2, Opposed
<1>10. C_ADD(C_MUL(b, e1), C_MUL(c, e)) = C_ADD(C_MUL(s3, Re(e)), C_MUL(d, C_MUL(Im(e), MinusOne)))
  <2>1. Conj(e1) = e /\ Re(e1) = Re(e) /\ Im(e1) = C_MUL(Im(e), MinusOne)
    <3> HIDE DEF e
    <3> QED
      BY <1>1, ConjProduct, ReIm
  <2>2. C_ADD(C_MUL(b, e1), C_MUL(c, Conj(e1))) = C_ADD(C_MUL(s3, Re(e1)), C_MUL(d, Im(e1)))
    <3> HIDE DEF e1
    <3> QED
      BY <1>2, Opposed
  <2> QED
    BY <2>1, <2>2
<1> DEFINE x == C_MUL(s3, Re(e))
<1>11. f1 = C_ADD(a, x) /\ x \in Complex /\ f1 \in Complex
  <2>1. Cpx(a.r - HALF_OF(s3.r), a.i - HALF_OF(s3.i)) = C_ADD(a, C_MUL(s3, Re(e)))
    <3> HIDE DEF e, a
    <3> QED
      BY <1>1, <1>2, MinusHalf
  <2>2. f1 = C_ADD(a, x)
    BY <2>1
  <2>3. x \in Complex
    <3>1. Re(e) \in Complex
      <4> HIDE DEF e
      <4> QED
        BY <1>1, ReIm
    <3> QED
      BY <1>2, <3>1, Closed
  <2>4. f1 \in Complex
    <3> HIDE DEF x, a
    <3> QED
      BY <1>2, <2>2, <2>3, Closed
  <2> QED
    BY <2>2, <2>3, <2>4
<1> DEFINE k == Cpx(e.i, 0)
<1>12. k \in Complex /\ s0 = C_MUL(d, k) /\ s0 \in Complex /\ Im(e) = C_MUL(k, UnitI)
  <2>1. e.i \in Int /\ Im(e) = C_MUL(k, UnitI)
    <3> HIDE DEF e
    <3> QED
      BY <1>1, CpxIs, ReIm
  <2>2. s0 = C_MULBYSCALAR(d, e.i)
    BY DEF f
  <2>3. k \in Complex /\ C_MULBYSCALAR(d, e.i) = C_MUL(d, k)
    <3> HIDE DEF d, e
    <3> QED
      BY <1>2, <2>1, Scaling
  <2>4. C_MUL(d, k) \in Complex
    <3> HIDE DEF d, k
    <3> QED
      BY <1>2, <2>3, Closed
  <2> QED
    BY <2>1, <2>2, <2>3, <2>4
<1> HIDE DEF k, d
<1>13. C_MUL(d, Im(e)) = C_MUL(s0, UnitI)
  BY <1>2, <1>12, Associates, Units
<1>14. C_MUL(d, C_MUL(Im(e), MinusOne)) = C_MUL(s0, UnitMI)
  <2> DEFINE y == Im(e)
  <2>1. y \in Complex
    <3> HIDE DEF e
    <3> QED
      BY <1>1, ReIm
  <2> HIDE DEF y
  <2>2. C_MUL(d, C_MUL(y, MinusOne)) = C_MUL(C_MUL(d, y), MinusOne)
    BY <1>2, <2>1, Associates, Units
  <2>3. C_MUL(C_MUL(s0, UnitI), MinusOne) = C_MUL(s0, C_MUL(UnitI, MinusOne))
    BY <1>12, Associates, Units
  <2> QED
    BY <1>13, <2>2, <2>3, Units DEF y
<1>15. ASSUME NEW v \in Complex PROVE C_ADD(f1, C_MUL(s0, v)) = C_ADD(a, C_ADD(x, C_MUL(s0, v)))
  <2> DEFINE y == C_MUL(s0, v)
  <2>1. y \in Complex
    BY <1>12, Closed
  <2> HIDE DEF y, x, a
  <2>2. C_ADD(C_ADD(a, x), y) = C_ADD(a, C_ADD(x, y))
    BY <1>2, <1>11, <2>1, Associates
  <2> QED
    BY <1>11, <2>2 DEF y
<1>16. PlusI(f1, s0) = C_ADD(f1, C_MUL(s0, UnitI)) /\ MinusI(f1, s0) = C_ADD(f1, C_MUL(s0, UnitMI))
  BY <1>11, <1>12, UnitTurns
<1>17. Sum(Spin(s, 1 * g), 3) = PlusI(f1, s0)
  <2>1. C_ADD(f1, C_MUL(s0, UnitI)) = C_ADD(a, C_ADD(x, C_MUL(s0, UnitI)))
    BY <1>15, Units
  <2>2. C_ADD(C_ADD(a, C_MUL(b, e)), C_MUL(c, e1)) = C_ADD(a, C_ADD(C_MUL(b, e), C_MUL(c, e1)))
    BY <1>1, <1>2, <1>5
  <2> QED
    BY <1>7, <1>9, <1>13, <1>16, <2>1, <2>2
<1>18. Sum(Spin(s, 2 * g), 3) = MinusI(f1, s0)
  <2>1. C_ADD(f1, C_MUL(s0, UnitMI)) = C_ADD(a, C_ADD(x, C_MUL(s0, UnitMI)))
    BY <1>15, Units
  <2>2. C_ADD(C_ADD(a, C_MUL(b, e1)), C_MUL(c, e)) = C_ADD(a, C_ADD(C_MUL(b, e1), C_MUL(c, e)))
    BY <1>1, <1>2, <1>5
  <2> QED
    BY <1>8, <1>10, <1>14, <1>16, <2>1, <2>2
<1> QED
  BY <1>6, <1>17, <1>18

\* Radix 5: the sums of the butterfly in parts.
LEMMA Blends ==
  ASSUME NEW a \in Complex, NEW b \in Complex, NEW k \in Int, NEW l \in Int
  PROVE  /\ Cpx(a.r * k + b.r * l, a.i * k + b.i * l)
              = C_ADD(C_MUL(a, Cpx(k, 0)), C_MUL(b, Cpx(l, 0)))
         /\ Cpx(a.i * k + b.i * l, -(a.r * k) - b.r * l)
              = C_MUL(C_ADD(C_MUL(a, Cpx(0, k)), C_MUL(b, Cpx(0, l))), MinusOne)
         /\ Cpx(-(a.i * k) + b.i * l, a.r * k - b.r * l)
              = C_ADD(C_MUL(a, Cpx(0, k)), C_MUL(b, C_MUL(Cpx(0, l), MinusOne)))
<1> DEFINE x == a.r  y == a.i  v == b.r  w == b.i
           xk == x * k  yk == y * k  vl == v * l  wl == w * l
<1>1. /\ x \in Int /\ y \in Int /\ v \in Int /\ w \in Int
      /\ a = Cpx(x, y) /\ b = Cpx(v, w)
  BY CpxIs
<1> HIDE DEF x, y, v, w
<1>2. xk \in Int /\ yk \in Int /\ vl \in Int /\ wl \in Int
  BY <1>1
<1>3. C_MUL(a, Cpx(k, 0)) = Cpx(xk, yk) /\ C_MUL(b, Cpx(l, 0)) = Cpx(vl, wl)
  <2>1. C_MULBYSCALAR(Cpx(x, y), k) = Cpx(xk, yk)
    BY <1>1, CpxOps
  <2>2. C_MULBYSCALAR(Cpx(v, w), l) = Cpx(vl, wl)
    BY <1>1, CpxOps
  <2> QED
    BY <1>1, <2>1, <2>2, Scaling
<1> DEFINE yk1 == -yk  wl1 == -wl  vl1 == -vl  l1 == -l
<1>4. yk1 \in Int /\ wl1 \in Int /\ vl1 \in Int /\ l1 \in Int /\ l1 + l = 0
  BY <1>2
<1>5. C_MUL(a, Cpx(0, k)) = Cpx(yk1, xk)
  <2>1. C_MUL(Cpx(x, y), Cpx(0, k)) = Cpx(x * 0 - y * k, x * k + y * 0)
    BY <1>1, CpxOps
  <2>2. x * 0 - y * k = yk1 /\ x * k + y * 0 = xk
    BY <1>1, <1>2
  <2> QED
    BY <1>1, <2>1, <2>2
<1>6. C_MUL(b, Cpx(0, l)) = Cpx(wl1, vl)
  <2>1. C_MUL(Cpx(v, w), Cpx(0, l)) = Cpx(v * 0 - w * l, v * l + w * 0)
    BY <1>1, CpxOps
  <2>2. v * 0 - w * l = wl1 /\ v * l + w * 0 = vl
    BY <1>1, <1>2
  <2> QED
    BY <1>1, <2>1, <2>2
<1>7. C_MUL(b, C_MUL(Cpx(0, l), MinusOne)) = Cpx(wl, vl1)
  <2>1. C_MUL(Cpx(0, l), Cpx(-1, 0)) = Cpx(0, l1)
    <3>1. 0 \in Int /\ 0 + 0 = 0
      OBVIOUS
    <3> HIDE DEF l1
    <3> QED
      BY <1>4, <3>1, UnitProducts
  <2>2. v * 0 - w * l1 = wl /\ v * l1 + w * 0 = vl1
    BY <1>1, <1>2
  <2>3. C_MUL(Cpx(v, w), Cpx(0, l1)) = Cpx(v * 0 - w * l1, v * l1 + w * 0)
    <3> HIDE DEF l1
    <3> QED
      BY <1>1, <1>4, CpxOps
  <2> QED
    BY <1>1, <2>1, <2>2, <2>3 DEF MinusOne
<1> DEFINE k1 == -(x * k)
<1>8. k1 - v * l = -xk - vl /\ -(y * k) + w * l = yk1 + wl /\ x * k - v * l = xk + vl1
      /\ x * k + v * l = xk + vl /\ y * k + w * l = yk + wl
  BY <1>1, <1>2
<1> DEFINE e == -xk - vl
<1>9. e \in Int /\ e + (xk + vl) = 0 /\ (yk + wl) + (yk1 + wl1) = 0
  BY <1>2
<1> HIDE DEF xk, yk, vl, wl, yk1, wl1, vl1, l1, e
<1>10. C_ADD(Cpx(xk, yk), Cpx(vl, wl)) = Cpx(xk + vl, yk + wl)
  BY <1>2, CpxOps
<1>11. C_ADD(Cpx(yk1, xk), Cpx(wl1, vl)) = Cpx(yk1 + wl1, xk + vl)
  BY <1>2, <1>4, CpxOps
<1>12. C_ADD(Cpx(yk1, xk), Cpx(wl, vl1)) = Cpx(yk1 + wl, xk + vl1)
  BY <1>2, <1>4, CpxOps
<1>13. C_MUL(Cpx(yk1 + wl1, xk + vl), MinusOne) = Cpx(yk + wl, e)
  <2> DEFINE s == yk1 + wl1  t == xk + vl  s1 == yk + wl
  <2>1. s \in Int /\ t \in Int /\ s1 \in Int /\ s1 + s = 0 /\ e + t = 0
    BY <1>2, <1>4, <1>9
  <2> HIDE DEF s, t, s1
  <2>2. C_MUL(Cpx(s, t), Cpx(-1, 0)) = Cpx(s1, e)
    BY <1>9, <2>1, UnitProducts
  <2> QED
    BY <2>2 DEF s, t, s1, MinusOne
<1>14. Cpx(x * k + v * l, y * k + w * l) = C_ADD(C_MUL(a, Cpx(k, 0)), C_MUL(b, Cpx(l, 0)))
  BY <1>3, <1>8, <1>10
<1>15. Cpx(y * k + w * l, k1 - v * l) = C_MUL(C_ADD(C_MUL(a, Cpx(0, k)), C_MUL(b, Cpx(0, l))), MinusOne)
  BY <1>5, <1>6, <1>8, <1>11, <1>13 DEF e
<1>16. Cpx(-(y * k) + w * l, x * k - v * l) = C_ADD(C_MUL(a, Cpx(0, k)), C_MUL(b, C_MUL(Cpx(0, l), MinusOne)))
  BY <1>5, <1>7, <1>8, <1>12
<1> QED
  BY <1>14, <1>15, <1>16 DEF x, y, v, w

FiveTerms(s, v, w) ==
  C_ADD(C_ADD(C_ADD(C_ADD(s[0], C_MUL(s[1], v)), C_MUL(s[2], w)), C_MUL(s[3], Conj(w))), C_MUL(s[4], Conj(v)))

FiveRow(s, v, w) ==
  C_ADD(C_ADD(s[0], C_ADD(C_MUL(C_ADD(s[1], s[4]), Re(v)), C_MUL(C_ADD(s[2], s[3]), Re(w)))),
        C_ADD(C_MUL(C_SUB(s[1], s[4]), Im(v)), C_MUL(C_SUB(s[2], s[3]), Im(w))))

\* The rows of radix 5 for any two factors.
LEMMA FiveTurned ==
  ASSUME NEW s \in [Nat -> Complex], NEW v \in Complex, NEW w \in Complex
  PROVE  FiveTerms(s, v, w) = FiveRow(s, v, w)
<1> DEFINE a == s[0]  b == s[1]  c == s[2]  d == s[3]  e == s[4]
<1>0. a \in Complex /\ b \in Complex /\ c \in Complex /\ d \in Complex /\ e \in Complex
  OBVIOUS
<1> HIDE DEF a, b, c, d, e
<1> DEFINE bv == C_MUL(b, v)  cw == C_MUL(c, w)  dw == C_MUL(d, Conj(w))  ev == C_MUL(e, Conj(v))
           r1 == C_MUL(C_ADD(b, e), Re(v))  r2 == C_MUL(C_ADD(c, d), Re(w))
           i1 == C_MUL(C_SUB(b, e), Im(v))  i2 == C_MUL(C_SUB(c, d), Im(w))
<1>1. bv \in Complex /\ cw \in Complex /\ dw \in Complex /\ ev \in Complex
  BY <1>0, Closed
<1>2. r1 \in Complex /\ r2 \in Complex /\ i1 \in Complex /\ i2 \in Complex
  <2>1. Re(v) \in Complex /\ Re(w) \in Complex /\ Im(v) \in Complex /\ Im(w) \in Complex
    BY ReIm
  <2>2. C_ADD(b, e) \in Complex /\ C_ADD(c, d) \in Complex /\ C_SUB(b, e) \in Complex /\ C_SUB(c, d) \in Complex
    BY <1>0, Closed
  <2> QED
    BY <2>1, <2>2, Closed
<1>3. C_ADD(bv, ev) = C_ADD(r1, i1)
  BY <1>0, Opposed
<1>4. C_ADD(cw, dw) = C_ADD(r2, i2)
  BY <1>0, Opposed
<1> HIDE DEF bv, cw, dw, ev, r1, r2, i1, i2
<1> DEFINE be == C_ADD(bv, ev)  cd == C_ADD(cw, dw)
<1>5. C_ADD(C_ADD(C_ADD(C_ADD(a, bv), cw), dw), ev) = C_ADD(a, C_ADD(be, cd))
  <2>1. be \in Complex /\ cd \in Complex /\ C_ADD(a, bv) \in Complex
    BY <1>0, <1>1, Closed
  <2>2. C_ADD(C_ADD(C_ADD(a, bv), cw), dw) = C_ADD(C_ADD(a, bv), cd)
    BY <1>0, <1>1, <2>1, Associates
  <2>3. C_ADD(C_ADD(C_ADD(a, bv), cd), ev) = C_ADD(C_ADD(a, bv), C_ADD(cd, ev))
    <3> DEFINE h == C_ADD(a, bv)
    <3> HIDE DEF h, cd
    <3> QED
      BY <1>0, <1>1, <2>1, Associates DEF h
  <2>4. C_ADD(C_ADD(a, bv), C_ADD(cd, ev)) = C_ADD(a, C_ADD(bv, C_ADD(cd, ev)))
    <3> DEFINE h == C_ADD(cd, ev)
    <3>1. h \in Complex
      <4> HIDE DEF cd
      <4> QED
        BY <1>1, <2>1, Closed
    <3> HIDE DEF h
    <3> QED
      BY <1>0, <1>1, <3>1, Associates DEF h
  <2>5. C_ADD(bv, C_ADD(cd, ev)) = C_ADD(be, cd)
    <3> HIDE DEF cd
    <3>1. C_ADD(cd, ev) = C_ADD(ev, cd)
      BY <1>1, <2>1, Commutes
    <3>2. C_ADD(C_ADD(bv, ev), cd) = C_ADD(bv, C_ADD(ev, cd))
      BY <1>0, <1>1, <2>1, Associates
    <3> QED
      BY <3>1, <3>2
  <2> QED
    BY <2>2, <2>3, <2>4, <2>5
<1>6. C_ADD(be, cd) = C_ADD(C_ADD(r1, r2), C_ADD(i1, i2))
  BY <1>2, <1>3, <1>4, Swaps
<1>7. C_ADD(a, C_ADD(C_ADD(r1, r2), C_ADD(i1, i2))) = C_ADD(C_ADD(a, C_ADD(r1, r2)), C_ADD(i1, i2))
  <2> DEFINE h == C_ADD(r1, r2)  h1 == C_ADD(i1, i2)
  <2>1. h \in Complex /\ h1 \in Complex
    BY <1>2, Closed
  <2> HIDE DEF h, h1
  <2> QED
    BY <1>0, <2>1, Associates DEF h, h1
<1> QED
  BY <1>5, <1>6, <1>7 DEF FiveTerms, FiveRow, a, b, c, d, e, bv, cw, dw, ev, r1, r2, i1, i2

\* Radix 5: a fifth of a turn and two, and their conjugates.
LEMMA Rows5 ==
  ASSUME Tabulated, NEW s \in [Nat -> Complex], NEW g \in Nat, 5 * g = job.nfft,
         NEW ya, ya = PowersOf(Root)[g], NEW yb, yb = PowersOf(Root)[2 * g],
         NEW s7, s7 = C_ADD(s[1], s[4]), NEW s10, s10 = C_SUB(s[1], s[4]),
         NEW s8, s8 = C_ADD(s[2], s[3]), NEW s9, s9 = C_SUB(s[2], s[3]),
         NEW s5, s5 = C_ADD(s[0], Cpx(s7.r * ya.r + s8.r * yb.r, s7.i * ya.r + s8.i * yb.r)),
         NEW s6, s6 = Cpx(s10.i * ya.i + s9.i * yb.i, -(s10.r * ya.i) - s9.r * yb.i),
         NEW s11, s11 = C_ADD(s[0], Cpx(s7.r * yb.r + s8.r * ya.r, s7.i * yb.r + s8.i * ya.r)),
         NEW s12, s12 = Cpx(-(s10.i * yb.i) + s9.i * ya.i, s10.r * yb.i - s9.r * ya.i)
  PROVE  /\ Sum(Spin(s, 0 * g), 5) = C_ADD(s[0], C_ADD(s7, s8))
         /\ Sum(Spin(s, 1 * g), 5) = C_SUB(s5, s6)
         /\ Sum(Spin(s, 2 * g), 5) = C_ADD(s11, s12)
         /\ Sum(Spin(s, 3 * g), 5) = C_SUB(s11, s12)
         /\ Sum(Spin(s, 4 * g), 5) = C_ADD(s5, s6)
<1> DEFINE f == PowersOf(Root)
           len == job.nfft
           a == s[0]  b == s[1]  c == s[2]  d == s[3]  e == s[4]
           u == MinusOne
           ya1 == Conj(ya)  yb1 == Conj(yb)
<1>1. /\ f \in [Nat -> Complex] /\ f[0] = One
      /\ \A i, j \in Nat : f[i + len * j] = f[i]
      /\ f[3 * g] = yb1 /\ f[4 * g] = ya1 /\ len \in Nat
  <2>1. 2 * g \in Nat /\ 3 * g \in Nat /\ 4 * g \in Nat /\ 3 * g + 2 * g = job.nfft /\ 4 * g + g = job.nfft
    OBVIOUS
  <2>2. f[3 * g] = yb1 /\ f[4 * g] = ya1
    BY <2>1, RestOfTurn
  <2> QED
    BY <2>2, TableIs
<1>2. a \in Complex /\ b \in Complex /\ c \in Complex /\ d \in Complex /\ e \in Complex /\ u \in Complex
  BY Units
<1>3. \A k \in Nat : /\ Spin(s, k) \in [Nat -> Complex] /\ Spin(s, k)[0] = s[0]
                     /\ \A q \in Nat : Spin(s, k)[q] = C_MUL(s[q], f[q * k])
  BY SpinIs
<1>4. len \in Nat /\ 5 * g = len /\ f[g] = ya /\ f[2 * g] = yb
  BY <1>1
<1> HIDE DEF f, len
<1>5. ya \in Complex /\ yb \in Complex
  <2>1. 2 * g \in Nat
    OBVIOUS
  <2> QED
    BY <1>1, <1>4, <2>1
<1> HIDE DEF a, b, c, d, e, u
<1>6. ASSUME NEW k \in Nat, NEW v, NEW w, NEW w1, NEW v1, f[1 * k] = v, f[2 * k] = w, f[3 * k] = w1, f[4 * k] = v1
      PROVE  Sum(Spin(s, k), 5) = C_ADD(C_ADD(C_ADD(C_ADD(a, C_MUL(b, v)), C_MUL(c, w)), C_MUL(d, w1)), C_MUL(e, v1))
  <2>1. Spin(s, k) \in [Nat -> Complex] /\ Spin(s, k)[0] = a
    BY <1>3 DEF a
  <2>2. /\ Spin(s, k)[1] = C_MUL(b, v) /\ Spin(s, k)[2] = C_MUL(c, w)
        /\ Spin(s, k)[3] = C_MUL(d, w1) /\ Spin(s, k)[4] = C_MUL(e, v1)
    BY <1>3, <1>6 DEF b, c, d, e
  <2> QED
    BY <2>1, <2>2, SumsOfFew
<1> DEFINE Row(v, w) == C_ADD(C_ADD(a, C_ADD(C_MUL(s7, Re(v)), C_MUL(s8, Re(w)))),
                              C_ADD(C_MUL(s10, Im(v)), C_MUL(s9, Im(w))))
<1>7. ASSUME NEW k \in Nat, NEW v \in Complex, NEW w \in Complex,
             f[1 * k] = v, f[2 * k] = w, f[3 * k] = Conj(w), f[4 * k] = Conj(v)
      PROVE  Sum(Spin(s, k), 5) = Row(v, w)
  <2>1. Sum(Spin(s, k), 5)
          = C_ADD(C_ADD(C_ADD(C_ADD(a, C_MUL(b, v)), C_MUL(c, w)), C_MUL(d, Conj(w))), C_MUL(e, Conj(v)))
    BY <1>6, <1>7
  <2>2. s7 = C_ADD(b, e) /\ s10 = C_SUB(b, e) /\ s8 = C_ADD(c, d) /\ s9 = C_SUB(c, d)
    BY DEF b, c, d, e
  <2>3. FiveTerms(s, v, w) = FiveRow(s, v, w)
    BY FiveTurned
  <2> QED
    BY <2>1, <2>2, <2>3 DEF FiveTerms, FiveRow, a, b, c, d, e
<1>8. s7 \in Complex /\ s8 \in Complex /\ s9 \in Complex /\ s10 \in Complex
  BY <1>2, Closed DEF b, c, d, e
<1>9. ya1 \in Complex /\ yb1 \in Complex /\ Conj(ya1) = ya /\ Conj(yb1) = yb
  BY <1>5, Closed, ConjProduct
<1>10. /\ Re(ya1) = Re(ya) /\ Im(ya1) = C_MUL(Im(ya), u) /\ Re(yb1) = Re(yb) /\ Im(yb1) = C_MUL(Im(yb), u)
       /\ Re(ya) \in Complex /\ Im(ya) \in Complex /\ Re(yb) \in Complex /\ Im(yb) \in Complex
  BY <1>5, ReIm DEF u
<1> HIDE DEF ya1, yb1
<1>11. Sum(Spin(s, 1 * g), 5) = Row(ya, yb)
  <2>1. 1 * g = g
    OBVIOUS
  <2>2. f[1 * g] = ya /\ f[2 * g] = yb /\ f[3 * g] = Conj(yb) /\ f[4 * g] = Conj(ya)
    BY <1>1, <1>4, <2>1 DEF ya1, yb1
  <2> HIDE DEF Row
  <2>3. Sum(Spin(s, g), 5) = Row(ya, yb)
    BY <1>5, <1>7, <2>2
  <2> QED
    BY <2>1, <2>3
<1>12. Sum(Spin(s, 2 * g), 5) = Row(yb, ya1)
  <2> DEFINE k == 2 * g
  <2>1. k \in Nat /\ 1 * k = 2 * g /\ 2 * k = 4 * g /\ 3 * k = g + len * 1 /\ 4 * k = 3 * g + len * 1 /\ 3 * g \in Nat
    BY <1>4
  <2>2. f[g + len * 1] = f[g] /\ f[3 * g + len * 1] = f[3 * g]
    <3>1. 1 \in Nat
      OBVIOUS
    <3> QED
      BY <1>1, <2>1, <3>1
  <2> HIDE DEF k
  <2>3. f[1 * k] = yb /\ f[2 * k] = ya1 /\ f[3 * k] = Conj(ya1) /\ f[4 * k] = Conj(yb)
    BY <1>1, <1>4, <1>9, <2>1, <2>2 DEF yb1
  <2> HIDE DEF Row
  <2>4. Sum(Spin(s, k), 5) = Row(yb, ya1)
    BY <1>5, <1>7, <1>9, <2>1, <2>3
  <2> QED
    BY <2>4 DEF k
<1>13. Sum(Spin(s, 3 * g), 5) = Row(yb1, ya)
  <2> DEFINE k == 3 * g
  <2>1. /\ k \in Nat /\ 1 * k = 3 * g /\ 2 * k = g + len * 1 /\ 3 * k = 4 * g + len * 1 /\ 4 * k = 2 * g + len * 2
        /\ 2 * g \in Nat /\ 4 * g \in Nat
    BY <1>4
  <2>2. f[g + len * 1] = f[g] /\ f[4 * g + len * 1] = f[4 * g] /\ f[2 * g + len * 2] = f[2 * g]
    <3>1. 1 \in Nat /\ 2 \in Nat
      OBVIOUS
    <3> QED
      BY <1>1, <2>1, <3>1
  <2> HIDE DEF k
  <2>3. f[1 * k] = yb1 /\ f[2 * k] = ya /\ f[3 * k] = Conj(ya) /\ f[4 * k] = Conj(yb1)
    BY <1>1, <1>4, <1>9, <2>1, <2>2 DEF ya1
  <2> HIDE DEF Row
  <2>4. Sum(Spin(s, k), 5) = Row(yb1, ya)
    BY <1>5, <1>7, <1>9, <2>1, <2>3
  <2> QED
    BY <2>4 DEF k
<1>14. Sum(Spin(s, 4 * g), 5) = Row(ya1, yb1)
  <2> DEFINE k == 4 * g
  <2>1. /\ k \in Nat /\ 1 * k = 4 * g /\ 2 * k = 3 * g + len * 1 /\ 3 * k = 2 * g + len * 2 /\ 4 * k = g + len * 3
        /\ 2 * g \in Nat /\ 3 * g \in Nat
    BY <1>4
  <2>2. f[3 * g + len * 1] = f[3 * g] /\ f[2 * g + len * 2] = f[2 * g] /\ f[g + len * 3] = f[g]
    <3>1. 1 \in Nat /\ 2 \in Nat /\ 3 \in Nat
      OBVIOUS
    <3> QED
      BY <1>1, <2>1, <3>1
  <2> HIDE DEF k
  <2>3. f[1 * k] = ya1 /\ f[2 * k] = yb1 /\ f[3 * k] = Conj(yb1) /\ f[4 * k] = Conj(ya1)
    BY <1>1, <1>4, <1>9, <2>1, <2>2
  <2> HIDE DEF Row
  <2>4. Sum(Spin(s, k), 5) = Row(ya1, yb1)
    BY <1>7, <1>9, <2>1, <2>3
  <2> QED
    BY <2>4 DEF k
<1>15. Sum(Spin(s, 0 * g), 5) = C_ADD(a, C_ADD(s7, s8))
  <2>1. 0 * g = 0 /\ 0 \in Nat /\ 1 * 0 = 0 /\ 2 * 0 = 0 /\ 3 * 0 = 0 /\ 4 * 0 = 0
    OBVIOUS
  <2>2. Sum(Spin(s, 0), 5) = C_ADD(C_ADD(C_ADD(C_ADD(a, C_MUL(b, One)), C_MUL(c, One)), C_MUL(d, One)), C_MUL(e, One))
    BY <1>1, <1>6, <2>1
  <2>3. C_MUL(b, One) = b /\ C_MUL(c, One) = c /\ C_MUL(d, One) = d /\ C_MUL(e, One) = e
    BY <1>2, Neutral
  <2>4. C_ADD(C_ADD(C_ADD(C_ADD(a, b), c), d), e) = C_ADD(a, C_ADD(s7, s8))
    <3> DEFINE ab == C_ADD(a, b)  cd == C_ADD(c, d)  cde == C_ADD(cd, e)
    <3>1. ab \in Complex /\ cd \in Complex
      BY <1>2, Closed
    <3>2. C_ADD(C_ADD(ab, c), d) = C_ADD(ab, cd)
      <4> HIDE DEF ab
      <4> QED
        BY <1>2, <3>1, Associates
    <3>3. C_ADD(C_ADD(ab, cd), e) = C_ADD(ab, cde) /\ cde \in Complex
      <4> HIDE DEF ab, cd
      <4>1. cde \in Complex
        BY <1>2, <3>1, Closed
      <4>2. C_ADD(C_ADD(ab, cd), e) = C_ADD(ab, cde)
        BY <1>2, <3>1, Associates
      <4> QED
        BY <4>1, <4>2
    <3>4. C_ADD(ab, cde) = C_ADD(a, C_ADD(b, cde))
      <4> HIDE DEF cde
      <4> QED
        BY <1>2, <3>3, Associates
    <3>5. cde = C_ADD(e, cd) /\ C_ADD(b, C_ADD(e, cd)) = C_ADD(C_ADD(b, e), cd)
      <4> HIDE DEF cd
      <4>1. C_ADD(cd, e) = C_ADD(e, cd)
        BY <1>2, <3>1, Commutes
      <4>2. C_ADD(C_ADD(b, e), cd) = C_ADD(b, C_ADD(e, cd))
        BY <1>2, <3>1, Associates
      <4> QED
        BY <4>1, <4>2
    <3>6. s7 = C_ADD(b, e) /\ s8 = cd
      BY DEF b, c, d, e
    <3> QED
      BY <3>2, <3>3, <3>4, <3>5, <3>6
  <2> QED
    BY <2>1, <2>2, <2>3, <2>4
<1> DEFINE x == C_ADD(C_MUL(s10, Im(ya)), C_MUL(s9, Im(yb)))
           z == C_ADD(C_MUL(s10, Im(yb)), C_MUL(s9, C_MUL(Im(ya), u)))
<1>16. /\ s5 = C_ADD(a, C_ADD(C_MUL(s7, Re(ya)), C_MUL(s8, Re(yb))))
       /\ s11 = C_ADD(a, C_ADD(C_MUL(s7, Re(yb)), C_MUL(s8, Re(ya))))
       /\ s6 = C_MUL(x, u) /\ s12 = z
  <2>1. ya.r \in Int /\ ya.i \in Int /\ yb.r \in Int /\ yb.i \in Int
    BY <1>5, CpxIs
  <2>2. Cpx(s7.r * ya.r + s8.r * yb.r, s7.i * ya.r + s8.i * yb.r) = C_ADD(C_MUL(s7, Re(ya)), C_MUL(s8, Re(yb)))
    BY <1>8, <2>1, Blends DEF Re
  <2>3. Cpx(s7.r * yb.r + s8.r * ya.r, s7.i * yb.r + s8.i * ya.r) = C_ADD(C_MUL(s7, Re(yb)), C_MUL(s8, Re(ya)))
    BY <1>8, <2>1, Blends DEF Re
  <2>4. Cpx(s10.i * ya.i + s9.i * yb.i, -(s10.r * ya.i) - s9.r * yb.i) = C_MUL(x, u)
    BY <1>8, <2>1, Blends DEF Im, u
  <2>5. Cpx(-(s10.i * yb.i) + s9.i * ya.i, s10.r * yb.i - s9.r * ya.i) = z
    BY <1>8, <2>1, Blends DEF Im, u
  <2>6. /\ s5 = C_ADD(a, Cpx(s7.r * ya.r + s8.r * yb.r, s7.i * ya.r + s8.i * yb.r))
        /\ s11 = C_ADD(a, Cpx(s7.r * yb.r + s8.r * ya.r, s7.i * yb.r + s8.i * ya.r))
    BY DEF a
  <2> QED
    BY <2>2, <2>3, <2>4, <2>5, <2>6
\* Turning round twice.
<1>17. /\ \A t \in Complex : C_MUL(C_MUL(t, u), u) = t
  <2>1. C_MUL(u, u) = One
    <3> DEFINE mi == -1
    <3>1. mi \in Int /\ 0 \in Int /\ 0 + 0 = 0 /\ 1 + mi = 0 /\ 1 \in Int
      OBVIOUS
    <3>2. C_MUL(Cpx(mi, 0), Cpx(-1, 0)) = Cpx(1, 0)
      <4> HIDE DEF mi
      <4> QED
        BY <3>1, UnitProducts
    <3> QED
      BY <3>2 DEF u, MinusOne, One
  <2> QED
    BY <1>2, <2>1, Associates, Neutral
<1>23. \A t, t1 \in Complex : C_MUL(C_MUL(t, t1), u) = C_MUL(t, C_MUL(t1, u))
  BY <1>2, Associates
<1>18. s5 \in Complex /\ s6 \in Complex /\ s11 \in Complex /\ s12 \in Complex /\ x \in Complex /\ z \in Complex
  <2>1. /\ C_MUL(s7, Re(ya)) \in Complex /\ C_MUL(s8, Re(yb)) \in Complex
        /\ C_MUL(s7, Re(yb)) \in Complex /\ C_MUL(s8, Re(ya)) \in Complex
        /\ C_MUL(s10, Im(ya)) \in Complex /\ C_MUL(s9, Im(yb)) \in Complex
        /\ C_MUL(s10, Im(yb)) \in Complex /\ C_MUL(Im(ya), u) \in Complex
    BY <1>2, <1>8, <1>10, Closed
  <2>2. C_MUL(s9, C_MUL(Im(ya), u)) \in Complex
    BY <1>8, <2>1, Closed
  <2>3. x \in Complex /\ z \in Complex
    BY <2>1, <2>2, Closed
  <2>4. s6 \in Complex
    <3> HIDE DEF x
    <3> QED
      BY <1>2, <1>16, <2>3, Closed
  <2>5. C_ADD(C_MUL(s7, Re(ya)), C_MUL(s8, Re(yb))) \in Complex /\ C_ADD(C_MUL(s7, Re(yb)), C_MUL(s8, Re(ya))) \in Complex
    BY <2>1, Closed
  <2>6. s5 \in Complex /\ s11 \in Complex
    <3>1. \A t \in Complex : C_ADD(a, t) \in Complex
      BY <1>2, Closed
    <3> QED
      BY <1>16, <2>5, <3>1
  <2> QED
    BY <1>16, <2>3, <2>4, <2>6
<1>19. C_SUB(s5, s6) = Row(ya, yb)
  <2>1. C_SUB(s5, s6) = C_ADD(s5, C_MUL(s6, u))
    BY <1>18, UnitTurns DEF u
  <2>2. C_MUL(s6, u) = x
    <3> HIDE DEF x
    <3> QED
      BY <1>16, <1>17, <1>18
  <2> QED
    BY <1>16, <2>1, <2>2
<1>20. C_ADD(s5, s6) = Row(ya1, yb1)
  <2>1. C_MUL(x, u) = C_ADD(C_MUL(C_MUL(s10, Im(ya)), u), C_MUL(C_MUL(s9, Im(yb)), u))
    <3> DEFINE t == C_MUL(s10, Im(ya))  t1 == C_MUL(s9, Im(yb))
    <3>1. t \in Complex /\ t1 \in Complex
      BY <1>8, <1>10, Closed
    <3> HIDE DEF t, t1
    <3>2. C_ADD(C_MUL(t, u), C_MUL(t1, u)) = C_MUL(C_ADD(t, t1), u)
      BY <1>2, <3>1, Factors
    <3> QED
      BY <3>2 DEF t, t1
  <2>2. C_MUL(C_MUL(s10, Im(ya)), u) = C_MUL(s10, C_MUL(Im(ya), u))
    BY <1>8, <1>10, <1>23
  <2>3. C_MUL(C_MUL(s9, Im(yb)), u) = C_MUL(s9, C_MUL(Im(yb), u))
    BY <1>8, <1>10, <1>23
  <2> HIDE DEF x
  <2> QED
    BY <1>10, <1>16, <2>1, <2>2, <2>3
<1>21. C_ADD(s11, s12) = Row(yb, ya1)
  BY <1>10, <1>16
<1>22. C_SUB(s11, s12) = Row(yb1, ya)
  <2>1. C_SUB(s11, s12) = C_ADD(s11, C_MUL(s12, u))
    BY <1>18, UnitTurns DEF u
  <2> DEFINE t == C_MUL(s10, Im(yb))  t1 == C_MUL(s9, C_MUL(Im(ya), u))
  <2>2. t \in Complex /\ t1 \in Complex /\ z = C_ADD(t, t1)
    <3>1. C_MUL(Im(ya), u) \in Complex
      BY <1>2, <1>10, Closed
    <3> QED
      BY <1>8, <1>10, <3>1, Closed
  <2>3. C_MUL(z, u) = C_ADD(C_MUL(t, u), C_MUL(t1, u))
    <3> HIDE DEF t, t1
    <3> QED
      BY <1>2, <2>2, Factors
  <2>4. C_MUL(t, u) = C_MUL(s10, C_MUL(Im(yb), u))
    BY <1>8, <1>10, <1>23
  <2>5. C_MUL(t1, u) = C_MUL(s9, Im(ya))
    <3> DEFINE y == C_MUL(Im(ya), u)
    <3>1. y \in Complex /\ C_MUL(y, u) = Im(ya)
      BY <1>2, <1>10, <1>17, Closed
    <3> HIDE DEF y
    <3>2. C_MUL(C_MUL(s9, y), u) = C_MUL(s9, C_MUL(y, u))
      BY <1>2, <1>8, <3>1, Associates
    <3> QED
      BY <3>1, <3>2 DEF y
  <2> HIDE DEF z, t, t1
  <2> QED
    BY <1>10, <1>16, <2>1, <2>3, <2>4, <2>5
<1> HIDE DEF Row
<1> QED
  BY <1>11, <1>12, <1>13, <1>14, <1>15, <1>19, <1>20, <1>21, <1>22 DEF a

(***************************************************************************)
(* A butterfly turns and sums its column.                                  *)
(***************************************************************************)

Column(y, radix) == [q \in 1..radix |-> y[q - 1]]

\* A part of the transform with stride fstride, of radix times m values.
PartOf(fstride, radix, m) ==
  /\ fstride \in Nat \ {0} /\ radix \in Nat \ {0} /\ m \in Nat \ {0}
  /\ fstride * (radix * m) = job.nfft

\* The indices into the table stay inside.
LEMMA Strides ==
  ASSUME Tabulated, NEW fstride, NEW radix, NEW m, PartOf(fstride, radix, m), NEW u \in 0..(m - 1)
  PROVE  /\ fstride * m \in Nat /\ radix * (fstride * m) = job.nfft /\ u * fstride \in Nat
         /\ \A q \in 0..(radix - 1) : q * (u * fstride) \in 0..(job.nfft - 1)
         /\ \A q \in 0..(radix - 1) : q * (fstride * m) \in 0..(job.nfft - 1)
         /\ \A q \in 0..(radix - 1) : /\ u + q * m \in 0..(radix * m - 1)
                                      /\ fstride * (u + q * m) \in 0..(job.nfft - 1)
                                      /\ fstride * (u + q * m) = u * fstride + q * (fstride * m)
<1> DEFINE len == job.nfft
           rm == radix * m
           g == fstride * m
           e == u * fstride
<1>1. /\ fstride \in Nat /\ radix \in Nat /\ m \in Nat /\ fstride >= 1 /\ radix >= 1 /\ m >= 1
      /\ fstride * rm = len /\ len \in Nat /\ u \in Nat /\ u <= m - 1
  BY TableIs DEF PartOf
<1>2. g \in Nat /\ e \in Nat /\ rm \in Nat
  BY <1>1
<1>3. radix * g = len
  BY <1>1
\* What stays below radix * m stays below nfft when it is taken by strides.
<1>4. ASSUME NEW k \in Nat, k <= rm - 1 PROVE fstride * k \in 0..(len - 1)
  <2> HIDE DEF rm, len
  <2>1. k * fstride <= (rm - 1) * fstride
    <3>1. k \in Nat /\ rm - 1 \in Nat /\ fstride \in Nat /\ k <= rm - 1
      BY <1>1, <1>2, <1>4
    <3> QED
      BY <3>1, Products
  <2>2. (rm - 1) * fstride = fstride * rm - fstride /\ k * fstride = fstride * k /\ fstride * k \in Nat
    BY <1>1, <1>2
  <2> QED
    BY <1>1, <2>1, <2>2
<1>5. ASSUME NEW q \in 0..(radix - 1) PROVE q * u \in Nat /\ q * u <= rm - 1 /\ q * m \in Nat /\ q * m <= rm - 1
                                           /\ u + q * m \in Nat /\ u + q * m <= rm - 1
  <2>1. q \in Nat /\ q <= radix - 1 /\ radix - 1 \in Nat
    BY <1>1
  <2>2. q * m <= (radix - 1) * m
    BY <1>1, <2>1, Products
  <2>3. (radix - 1) * m = rm - m
    BY <1>1
  <2>4. q * u <= q * m
    <3>1. u * q <= m * q
      BY <1>1, <2>1, Products
    <3>2. u * q = q * u /\ m * q = q * m
      BY <1>1, <2>1
    <3> QED
      BY <3>1, <3>2
  <2>5. q * u \in Nat /\ q * m \in Nat
    BY <1>1, <2>1
  <2> DEFINE qu == q * u  qm == q * m  rm1 == (radix - 1) * m
  <2>6. rm1 \in Int
    BY <1>1
  <2> HIDE DEF qu, qm, rm, rm1
  <2> QED
    BY <1>1, <1>2, <2>2, <2>3, <2>4, <2>5, <2>6 DEF qu, qm, rm1
<1>6. ASSUME NEW q \in 0..(radix - 1)
      PROVE  /\ q * e = fstride * (q * u) /\ q * g = fstride * (q * m)
             /\ fstride * (u + q * m) = e + q * g
  <2>1. q \in Nat
    BY <1>1
  <2> QED
    BY <1>1, <2>1
<1> HIDE DEF len, rm, g, e
<1>7. ASSUME NEW q \in 0..(radix - 1)
      PROVE  /\ q * e \in 0..(len - 1) /\ q * g \in 0..(len - 1) /\ fstride * (u + q * m) \in 0..(len - 1)
             /\ u + q * m \in 0..(rm - 1)
  <2>1. fstride * (q * u) \in 0..(len - 1) /\ fstride * (q * m) \in 0..(len - 1) /\ fstride * (u + q * m) \in 0..(len - 1)
    BY <1>4, <1>5
  <2>2. u + q * m \in 0..(rm - 1)
    BY <1>2, <1>5
  <2> QED
    BY <1>6, <2>1, <2>2
<1> QED
  BY <1>2, <1>3, <1>6, <1>7 DEF len, rm, g, e

\* Evaluated changes nothing.
LEMMA EvaluatedIs ==
  ASSUME NEW S, NEW s \in Seq(S)
  PROVE  Evaluated(s) = s
BY DEF Evaluated

\* if (twidx >= Norig) twidx -= Norig is the remainder, and the sum fits.
LEMMA WrapIs ==
  ASSUME Tabulated, job.nfft <= INT_MAX \div 2 + 1, NEW a \in Nat, NEW e \in 0..(job.nfft - 1)
  PROVE  Wrapped(AsInt((a % job.nfft) + e)) = (a + e) % job.nfft
<1> DEFINE len == job.nfft
           half == INT_MAX \div 2
<1>0. INT_MAX \in Nat /\ half \in Nat /\ 2 * half + 1 = INT_MAX
  BY SMT DEF INT_MAX
<1>1. len \in Nat \ {0} /\ len <= half + 1
  BY TableIs
<1> HIDE DEF half
<1>2. PICK d \in Int, r \in 0..(len - 1) : a = len * d + r /\ r = a % len
  BY <1>1, Euclid
<1> HIDE DEF len
<1>3. AsInt(r + e) = r + e /\ r + e \in Nat
  <2>1. r + e <= INT_MAX /\ r + e \in Nat
    BY <1>0, <1>1 DEF len
  <2> QED
    BY <1>0, <2>1 DEF AsInt
<1> DEFINE x == r + e  y == a + e
<1>4. AsInt((a % len) + e) = x /\ Wrapped(x) = (IF x >= len THEN x - len ELSE x)
  BY <1>2, <1>3 DEF Wrapped, len
<1>5. y = len * d + x /\ x \in Int /\ y \in Int /\ x <= 2 * (len - 1) /\ x >= 0
  BY <1>1, <1>2, <1>3 DEF len
<1> HIDE DEF x, y
<1>6. CASE x >= len
  <2> DEFINE r1 == x - len  d1 == d + 1
  <2>0. len * d1 = len * d + len /\ d1 \in Int /\ len * d \in Int
    BY <1>1, <1>2
  <2>a. r1 \in 0..(len - 1) /\ x \in Int /\ len \in Int /\ x = r1 + len
    BY <1>1, <1>5, <1>6
  <2> DEFINE ld == len * d  ld1 == len * d1
  <2>b. ld1 = ld + len /\ ld \in Int /\ y = ld + x /\ d1 \in Int
    BY <1>5, <2>0
  <2> HIDE DEF d1, ld, ld1, r1
  <2>c. y = ld1 + r1
    <3>1. r1 \in Int
      BY <2>a
    <3> QED
      BY <2>a, <2>b, <3>1
  <2>1. y = len * d1 + r1 /\ r1 \in 0..(len - 1) /\ d1 \in Int
    BY <2>a, <2>b, <2>c DEF ld1
  <2>2. y % len = r1
    <3>1. y \in Int /\ len \in Nat \ {0}
      BY <1>1, <1>5
    <3> QED
      BY <2>1, <3>1, RemainderIs
  <2> QED
    BY <1>4, <1>6, <2>2 DEF r1, y, len
<1>7. CASE ~(x >= len)
  <2>1. x \in 0..(len - 1)
    BY <1>1, <1>5, <1>7
  <2>2. y % len = x
    BY <1>1, <1>5, <2>1, RemainderIs
  <2> QED
    BY <1>4, <1>7, <2>2 DEF y, len
<1> QED
  BY <1>6, <1>7

\* kf_bfly_generic: the recursion over scratch[q] is the sum, and twidx is
\* the multiple of fstride * k reduced to the table.
GenericNext(w, y, e, q) ==
  IF q = 1 THEN <<0, y[0]>>
  ELSE LET before == w[q - 1]
           j == Wrapped(AsInt(before[1] + e))
       IN  <<j, C_ADD(before[2], C_MUL(y[q - 1], Tw(j)))>>

\* What the code has in twidx and Fout[k] after q summands.
GenericTrace(radix, y, e) == [q \in 1..radix |-> <<((q - 1) * e) % job.nfft, Sum(Spin(y, e), q)>>]

\* The trace is the recursion.
LEMMA GenericTurns ==
  ASSUME Tabulated, job.nfft <= INT_MAX \div 2 + 1, NEW radix \in Nat \ {0}, NEW y \in [Nat -> Complex],
         NEW e \in 0..(job.nfft - 1)
  PROVE  \A q \in 1..radix : GenericTrace(radix, y, e)[q] = GenericNext(GenericTrace(radix, y, e), y, e, q)
<1> DEFINE len == job.nfft
           f == PowersOf(Root)
           S == Spin(y, e)
           c == GenericTrace(radix, y, e)
<1>1. /\ len \in Nat \ {0} /\ e \in Nat /\ f \in [Nat -> Complex]
      /\ \A k \in Nat : f[k % len] = f[k]
      /\ \A j \in 0..(len - 1) : Tw(j) = f[j]
  <2>1. len \in Nat \ {0} /\ f \in [Nat -> Complex] /\ \A k \in Nat : f[k % len] = f[k]
    BY TableIs
  <2>2. e \in Nat
    BY <2>1
  <2>3. \A j \in 0..(len - 1) : Tw(j) = f[j]
    BY TableIs
  <2> HIDE DEF f, len
  <2> QED
    BY <2>1, <2>2, <2>3
<1>2. S \in [Nat -> Complex] /\ S[0] = y[0] /\ \A q \in Nat : S[q] = C_MUL(y[q], f[q * e])
  BY <1>1, SpinIs
<1>3. \A q \in 1..radix : c[q] = <<((q - 1) * e) % len, Sum(S, q)>>
  BY DEF GenericTrace
<1> HIDE DEF len, f, S, c
<1>4. ASSUME NEW q \in 1..radix PROVE c[q] = GenericNext(c, y, e, q)
  <2>3. CASE q = 1
    <3>1. (0 * e) % len = 0
      <4>1. 0 * e = 0 /\ 0 = len * 0 + 0 /\ 0 \in 0..(len - 1)
        BY <1>1
      <4>2. 0 % len = 0
        BY <1>1, <4>1, RemainderIs
      <4> QED
        BY <4>1, <4>2
    <3>2. Sum(S, 1) = y[0]
      BY <1>2, SumsOfFew
    <3>3. GenericNext(c, y, e, q) = <<0, y[0]>>
      BY <2>3 DEF GenericNext
    <3>4. c[1] = <<((1 - 1) * e) % len, Sum(S, 1)>> /\ 1 - 1 = 0
      BY <1>3
    <3> QED
      BY <2>3, <3>1, <3>2, <3>3, <3>4
  <2>4. CASE q # 1
    <3> DEFINE k == q - 1  a == (k - 1) * e  j == Wrapped(AsInt((a % len) + e))
    <3>1. k \in 1..radix /\ k \in Nat /\ k - 1 \in Nat /\ q = k + 1
      BY <2>4
    <3>2. c[k] = <<a % len, Sum(S, k)>>
      BY <1>3, <3>1
    <3>4. a \in Nat /\ a + e = k * e
      BY <1>1, <3>1
    <3>5. j = (k * e) % len
      <4>1. Wrapped(AsInt((a % len) + e)) = (a + e) % len
        <5> HIDE DEF a
        <5> QED
          BY <3>4, WrapIs DEF len
      <4> QED
        BY <3>4, <4>1
    <3>6. Tw(j) = f[k * e]
      <4>1. k * e \in Nat
        BY <1>1, <3>1
      <4> DEFINE ke == k * e
      <4>2. ke % len \in 0..(len - 1)
        <5> HIDE DEF ke
        <5> QED
          BY <1>1, <4>1, Euclid DEF ke
      <4> HIDE DEF ke, j
      <4> QED
        BY <1>1, <3>5, <4>1, <4>2 DEF ke
    <3>7. GenericNext(c, y, e, q)
            = <<Wrapped(AsInt(c[k][1] + e)), C_ADD(c[k][2], C_MUL(y[k], Tw(Wrapped(AsInt(c[k][1] + e)))))>>
      BY <2>4 DEF GenericNext
    <3>8. c[k][1] = a % len /\ c[k][2] = Sum(S, k)
      <4> DEFINE v == c[k]  r == a % len  t == Sum(S, k)
      <4>1. v = <<r, t>>
        BY <3>2
      <4> HIDE DEF v, r, t
      <4>2. v[1] = r /\ v[2] = t
        BY <4>1
      <4> QED
        BY <4>2 DEF v, r, t
    <3>9. GenericNext(c, y, e, q) = <<(k * e) % len, C_ADD(Sum(S, k), C_MUL(y[k], f[k * e]))>>
      BY <3>5, <3>6, <3>7, <3>8
    <3>10. Sum(S, q) = C_ADD(Sum(S, k), C_MUL(y[k], f[k * e]))
      <4>1. Sum(S, k + 1) = C_ADD(Sum(S, k), S[k])
        BY <1>2, <3>1, SumIs
      <4>2. S[k] = C_MUL(y[k], f[k * e])
        BY <1>2, <3>1
      <4> QED
        BY <3>1, <4>1, <4>2
    <3>11. c[q] = <<(k * e) % len, Sum(S, q)>>
      BY <1>3
    <3> HIDE DEF k
    <3> QED
      BY <3>9, <3>10, <3>11
  <2> QED
    BY <2>3, <2>4
<1> QED
  BY <1>4 DEF c

\* The recursion determines it.
GoesOn(w, radix, y, e) == \A q \in 1..radix : w[q] = GenericNext(w, y, e, q)

\* Two solutions have the same end.
LEMMA GenericOnce ==
  ASSUME NEW radix \in Nat \ {0}, NEW y, NEW e, NEW w, GoesOn(w, radix, y, e), NEW v, GoesOn(v, radix, y, e)
  PROVE  w[radix] = v[radix]
<1>0. /\ \A q \in 1..radix : w[q] = GenericNext(w, y, e, q)
      /\ \A q \in 1..radix : v[q] = GenericNext(v, y, e, q)
  BY DEF GoesOn
<1> DEFINE Bad == {q \in 1..radix : w[q] # v[q]}
<1>1. Bad = {}
  <2> SUFFICES ASSUME Bad # {} PROVE FALSE
    OBVIOUS
  <2>1. PICK q \in Bad : \A k \in Bad : q <= k
    <3>1. Bad \in SUBSET Nat
      OBVIOUS
    <3> HIDE DEF Bad
    <3> QED
      BY <3>1, LeastNatural
  <2>2. q \in 1..radix /\ w[q] # v[q]
    OBVIOUS
  <2>3. CASE q = 1
    <3>1. GenericNext(w, y, e, q) = GenericNext(v, y, e, q)
      BY <2>3 DEF GenericNext
    <3> QED
      BY <1>0, <2>2, <3>1
  <2>4. CASE q # 1
    <3>1. q - 1 \in 1..radix /\ q - 1 \notin Bad
      BY <2>1, <2>2, <2>4
    <3>2. w[q - 1] = v[q - 1]
      BY <3>1
    <3>3. GenericNext(w, y, e, q) = GenericNext(v, y, e, q)
      BY <2>4, <3>2 DEF GenericNext
    <3> QED
      BY <1>0, <2>2, <3>3
  <2> QED
    BY <2>3, <2>4
<1> QED
  BY <1>1

\* So kf_bfly_generic computes the sum.
LEMMA GenericRow ==
  ASSUME Tabulated, job.nfft <= INT_MAX \div 2 + 1, NEW radix \in Nat \ {0}, NEW y \in [Nat -> Complex],
         NEW e \in 0..(job.nfft - 1)
  PROVE  /\ \E w : w = [q \in 1..radix |-> GenericNext(w, y, e, q)]
         /\ \A w : w = [q \in 1..radix |-> GenericNext(w, y, e, q)] => w[radix][2] = Sum(Spin(y, e), radix)
<1> DEFINE c == GenericTrace(radix, y, e)
           r == ((radix - 1) * e) % job.nfft
           t == Sum(Spin(y, e), radix)
<1>1. \A q \in 1..radix : c[q] = GenericNext(c, y, e, q)
  BY GenericTurns
<1>2. c = [q \in 1..radix |-> c[q]] /\ c[radix] = <<r, t>>
  BY DEF GenericTrace
<1> HIDE DEF c, r, t
<1>3. c = [q \in 1..radix |-> GenericNext(c, y, e, q)]
  BY <1>1, <1>2
<1>4. ASSUME NEW w, w = [q \in 1..radix |-> GenericNext(w, y, e, q)] PROVE w[radix][2] = t
  <2> DEFINE G(q) == GenericNext(w, y, e, q)
  <2>1. w = [q \in 1..radix |-> G(q)]
    BY <1>4
  <2>2. \A q \in 1..radix : w[q] = G(q)
    <3> HIDE DEF G
    <3> QED
      BY <2>1
  <2>a. GoesOn(w, radix, y, e) /\ GoesOn(c, radix, y, e)
    BY <1>1, <2>2 DEF GoesOn
  <2>b. w[radix] = c[radix]
    BY <2>a, GenericOnce
  <2>3. w[radix] = <<r, t>>
    BY <1>2, <2>b
  <2> DEFINE v == w[radix]
  <2>4. v = <<r, t>>
    BY <2>3
  <2> HIDE DEF v
  <2>5. v[2] = t
    BY <2>4
  <2> QED
    BY <2>5 DEF v
<1> QED
  BY <1>3, <1>4 DEF t

\* The column with its factors is Spin(y, u * fstride), and the rows of the
\* butterfly turn it by multiples of fstride * m.
LEMMA TurnedColumn ==
  ASSUME Tabulated, NEW fstride, NEW radix, NEW m, PartOf(fstride, radix, m), NEW u \in 0..(m - 1),
         NEW y \in [Nat -> Complex]
  PROVE  /\ Spin(y, u * fstride) \in [Nat -> Complex] /\ Spin(y, u * fstride)[0] = y[0]
         /\ \A q \in 0..(radix - 1) : Spin(y, u * fstride)[q] = C_MUL(y[q], Tw(q * (u * fstride)))
         /\ \A q \in 0..(radix - 1) : Tw(q * (fstride * m)) = PowersOf(Root)[q * (fstride * m)]
         /\ \A q \in 0..(radix - 1) :
              Spin(y, fstride * (u + q * m)) = Spin(Spin(y, u * fstride), q * (fstride * m))
<1> DEFINE g == fstride * m
           e == u * fstride
           f == PowersOf(Root)
<1>1. /\ g \in Nat /\ e \in Nat /\ radix \in Nat
      /\ \A q \in 0..(radix - 1) : q * e \in 0..(job.nfft - 1)
      /\ \A q \in 0..(radix - 1) : q * g \in 0..(job.nfft - 1)
      /\ \A q \in 0..(radix - 1) : fstride * (u + q * m) = e + q * g
  BY Strides DEF PartOf
<1>2. \A j \in 0..(job.nfft - 1) : Tw(j) = f[j]
  BY TableIs
<1> HIDE DEF g, e, f
<1>3. Spin(y, e) \in [Nat -> Complex] /\ Spin(y, e)[0] = y[0] /\ \A q \in Nat : Spin(y, e)[q] = C_MUL(y[q], f[q * e])
  BY <1>1, SpinIs DEF f
<1>4. ASSUME NEW q \in 0..(radix - 1)
      PROVE  /\ Spin(y, e)[q] = C_MUL(y[q], Tw(q * e)) /\ Tw(q * g) = f[q * g]
             /\ Spin(y, fstride * (u + q * m)) = Spin(Spin(y, e), q * g)
  <2>1. q \in Nat
    BY <1>1
  <2>2. Tw(q * g) = f[q * g] /\ Tw(q * e) = f[q * e]
    BY <1>1, <1>2
  <2>3. Spin(y, e)[q] = C_MUL(y[q], f[q * e])
    BY <1>3, <2>1
  <2> DEFINE b == q * g
  <2>4. b \in Nat /\ fstride * (u + q * m) = e + b
    BY <1>1, <2>1
  <2> HIDE DEF b
  <2>5. Spin(y, e + b) = Spin(Spin(y, e), b)
    BY <1>1, <2>4, SpinAdds
  <2> QED
    BY <2>2, <2>3, <2>4, <2>5 DEF b
<1> QED
  BY <1>3, <1>4 DEF e, g, f

\* The rows of radix 2.
LEMMA Bfly2Turns ==
  ASSUME Tabulated, NEW fstride, NEW m, PartOf(fstride, 2, m), NEW u \in 0..(m - 1), NEW y \in [Nat -> Complex]
  PROVE  \A q \in 0..1 : Bfly2(Column(y, 2), fstride, u)[q + 1] = Sum(Spin(y, fstride * (u + q * m)), 2)
<1> DEFINE g == fstride * m
           e == u * fstride
           s == Spin(y, e)
           x == Column(y, 2)
<1>1. g \in Nat /\ 2 * g = job.nfft /\ e \in Nat /\ 1 * e = e
  BY Strides
<1>2. /\ s \in [Nat -> Complex] /\ s[0] = y[0]
      /\ \A q \in 0..(2 - 1) : s[q] = C_MUL(y[q], Tw(q * e))
      /\ \A q \in 0..(2 - 1) : Spin(y, fstride * (u + q * m)) = Spin(s, q * g)
  BY TurnedColumn
<1>3. x[1] = y[0] /\ x[2] = y[1]
  BY DEF Column
<1> HIDE DEF g, s, x
<1>4. s[1] = C_MUL(y[1], Tw(e))
  <2> HIDE DEF e
  <2> QED
    BY <1>1, <1>2
<1>5. Sum(Spin(s, 0 * g), 2) = C_ADD(s[0], s[1]) /\ Sum(Spin(s, 1 * g), 2) = C_SUB(s[0], s[1])
  BY <1>1, <1>2, Rows2
<1>6. Bfly2(x, fstride, u) = <<C_ADD(s[0], s[1]), C_SUB(s[0], s[1])>>
  BY <1>2, <1>3, <1>4 DEF Bfly2
<1>7. ASSUME NEW q \in 0..1 PROVE Bfly2(x, fstride, u)[q + 1] = Sum(Spin(y, fstride * (u + q * m)), 2)
  <2> DEFINE z == Bfly2(x, fstride, u)  a == C_ADD(s[0], s[1])  b == C_SUB(s[0], s[1])
  <2>0. z = <<a, b>>
    BY <1>6
  <2>1. Spin(y, fstride * (u + q * m)) = Spin(s, q * g)
    BY <1>2
  <2> HIDE DEF z, a, b
  <2>2. z[1] = a /\ z[2] = b
    BY <2>0
  <2>3. CASE q = 0
    BY <1>5, <2>1, <2>2, <2>3 DEF z, a, b
  <2>4. CASE q = 1
    BY <1>5, <2>1, <2>2, <2>4 DEF z, a, b
  <2> QED
    BY <2>3, <2>4
<1> QED
  BY <1>7 DEF x

\* The rows of radix 4.
LEMMA Bfly4Turns ==
  ASSUME Tabulated, NEW fstride, NEW m, PartOf(fstride, 4, m), NEW u \in 0..(m - 1), NEW y \in [Nat -> Complex]
  PROVE  \A q \in 0..3 : Bfly4(Column(y, 4), fstride, u)[q + 1] = Sum(Spin(y, fstride * (u + q * m)), 4)
<1> DEFINE g == fstride * m
           e == u * fstride
           s == Spin(y, e)
           x == Column(y, 4)
           f0 == C_ADD(s[0], s[2])
           s3 == C_ADD(s[1], s[3])
           turned == HalfTurn(C_SUB(s[0], s[2]), C_SUB(s[1], s[3]))
<1>1. g \in Nat /\ 4 * g = job.nfft /\ e \in Nat /\ 1 * e = e /\ 2 * e = e * 2 /\ 3 * e = e * 3
  BY Strides
<1>2. /\ s \in [Nat -> Complex] /\ s[0] = y[0]
      /\ \A q \in 0..(4 - 1) : s[q] = C_MUL(y[q], Tw(q * e))
      /\ \A q \in 0..(4 - 1) : Spin(y, fstride * (u + q * m)) = Spin(s, q * g)
  BY TurnedColumn
<1>3. x[1] = y[0] /\ x[2] = y[1] /\ x[3] = y[2] /\ x[4] = y[3]
  BY DEF Column
<1> HIDE DEF g, s, x
<1>4. s[1] = C_MUL(y[1], Tw(e)) /\ s[2] = C_MUL(y[2], Tw(e * 2)) /\ s[3] = C_MUL(y[3], Tw(e * 3))
  <2> HIDE DEF e
  <2> QED
    BY <1>1, <1>2
<1>5. /\ Sum(Spin(s, 0 * g), 4) = C_ADD(f0, s3) /\ Sum(Spin(s, 1 * g), 4) = turned[1]
      /\ Sum(Spin(s, 2 * g), 4) = C_SUB(f0, s3) /\ Sum(Spin(s, 3 * g), 4) = turned[2]
  BY <1>1, <1>2, Rows4
<1>6. Bfly4(x, fstride, u) = <<C_ADD(f0, s3), turned[1], C_SUB(f0, s3), turned[2]>>
  BY <1>2, <1>3, <1>4 DEF Bfly4
<1>7. ASSUME NEW q \in 0..3 PROVE Bfly4(x, fstride, u)[q + 1] = Sum(Spin(y, fstride * (u + q * m)), 4)
  <2> DEFINE z == Bfly4(x, fstride, u)
             a == C_ADD(f0, s3)  b == turned[1]  c == C_SUB(f0, s3)  d == turned[2]
  <2>0. z = <<a, b, c, d>>
    BY <1>6
  <2>1. Spin(y, fstride * (u + q * m)) = Spin(s, q * g)
    BY <1>2
  <2> HIDE DEF z, a, b, c, d
  <2>2. z[1] = a /\ z[2] = b /\ z[3] = c /\ z[4] = d
    BY <2>0
  <2>3. CASE q = 0
    BY <1>5, <2>1, <2>2, <2>3 DEF z, a
  <2>4. CASE q = 1
    BY <1>5, <2>1, <2>2, <2>4 DEF z, b
  <2>5. CASE q = 2
    BY <1>5, <2>1, <2>2, <2>5 DEF z, c
  <2>6. CASE q = 3
    BY <1>5, <2>1, <2>2, <2>6 DEF z, d
  <2> QED
    BY <2>3, <2>4, <2>5, <2>6
<1> QED
  BY <1>7 DEF x

\* The rows of radix 3.
LEMMA Bfly3Turns ==
  ASSUME Tabulated, NEW fstride, NEW m, PartOf(fstride, 3, m), NEW u \in 0..(m - 1), NEW y \in [Nat -> Complex]
  PROVE  \A q \in 0..2 : Bfly3(Column(y, 3), fstride, m, u)[q + 1] = Sum(Spin(y, fstride * (u + q * m)), 3)
<1> DEFINE g == fstride * m
           e == u * fstride
           s == Spin(y, e)
           x == Column(y, 3)
           s3 == C_ADD(s[1], s[2])
           s0 == C_MULBYSCALAR(C_SUB(s[1], s[2]), PowersOf(Root)[g].i)
           f1 == Cpx(s[0].r - HALF_OF(s3.r), s[0].i - HALF_OF(s3.i))
<1>1. g \in Nat /\ 3 * g = job.nfft /\ e \in Nat /\ 1 * e = e /\ 2 * e = e * 2 /\ 1 * g = g
  BY Strides
<1>2. /\ s \in [Nat -> Complex] /\ s[0] = y[0]
      /\ \A q \in 0..(3 - 1) : s[q] = C_MUL(y[q], Tw(q * e))
      /\ \A q \in 0..(3 - 1) : Tw(q * g) = PowersOf(Root)[q * g]
      /\ \A q \in 0..(3 - 1) : Spin(y, fstride * (u + q * m)) = Spin(s, q * g)
  BY TurnedColumn
<1>3. x[1] = y[0] /\ x[2] = y[1] /\ x[3] = y[2]
  BY DEF Column
<1>0. Tw(fstride * m) = PowersOf(Root)[g]
  <2>1. Tw(1 * g) = PowersOf(Root)[1 * g]
    <3> HIDE DEF g
    <3> QED
      BY <1>2
  <2> QED
    BY <1>1, <2>1
<1> HIDE DEF g, s, x
<1>4. s[1] = C_MUL(y[1], Tw(e)) /\ s[2] = C_MUL(y[2], Tw(e * 2))
  <2> HIDE DEF e
  <2> QED
    BY <1>1, <1>2
<1>5. /\ Sum(Spin(s, 0 * g), 3) = C_ADD(s[0], s3) /\ Sum(Spin(s, 1 * g), 3) = PlusI(f1, s0)
      /\ Sum(Spin(s, 2 * g), 3) = MinusI(f1, s0)
  BY <1>1, <1>2, Rows3
<1>6. Bfly3(x, fstride, m, u) = <<C_ADD(s[0], s3), PlusI(f1, s0), MinusI(f1, s0)>>
  BY <1>0, <1>2, <1>3, <1>4 DEF Bfly3
<1>7. ASSUME NEW q \in 0..2 PROVE Bfly3(x, fstride, m, u)[q + 1] = Sum(Spin(y, fstride * (u + q * m)), 3)
  <2> DEFINE z == Bfly3(x, fstride, m, u)
             a == C_ADD(s[0], s3)  b == PlusI(f1, s0)  c == MinusI(f1, s0)
  <2>0. z = <<a, b, c>>
    BY <1>6
  <2>1. Spin(y, fstride * (u + q * m)) = Spin(s, q * g)
    BY <1>2
  <2> HIDE DEF z, a, b, c
  <2>2. z[1] = a /\ z[2] = b /\ z[3] = c
    BY <2>0
  <2>3. CASE q = 0
    BY <1>5, <2>1, <2>2, <2>3 DEF z, a
  <2>4. CASE q = 1
    BY <1>5, <2>1, <2>2, <2>4 DEF z, b
  <2>5. CASE q = 2
    BY <1>5, <2>1, <2>2, <2>5 DEF z, c
  <2> QED
    BY <2>3, <2>4, <2>5
<1> QED
  BY <1>7 DEF x

\* The rows of radix 5.
LEMMA Bfly5Turns ==
  ASSUME Tabulated, NEW fstride, NEW m, PartOf(fstride, 5, m), NEW u \in 0..(m - 1), NEW y \in [Nat -> Complex]
  PROVE  \A q \in 0..4 : Bfly5(Column(y, 5), fstride, m, u)[q + 1] = Sum(Spin(y, fstride * (u + q * m)), 5)
<1> DEFINE g == fstride * m
           e == u * fstride
           t == Spin(y, e)
           x == Column(y, 5)
           ya == Tw(fstride * m)
           yb == Tw(fstride * 2 * m)
           s == [q \in 1..4 |-> C_MUL(x[q + 1], Tw(q * u * fstride))]
           s7 == C_ADD(s[1], s[4])   s10 == C_SUB(s[1], s[4])
           s8 == C_ADD(s[2], s[3])   s9  == C_SUB(s[2], s[3])
           s5 == C_ADD(x[1], Cpx(s7.r * ya.r + s8.r * yb.r, s7.i * ya.r + s8.i * yb.r))
           s6 == Cpx(s10.i * ya.i + s9.i * yb.i, -(s10.r * ya.i) - s9.r * yb.i)
           s11 == C_ADD(x[1], Cpx(s7.r * yb.r + s8.r * ya.r, s7.i * yb.r + s8.i * ya.r))
           s12 == Cpx(-(s10.i * yb.i) + s9.i * ya.i, s10.r * yb.i - s9.r * ya.i)
<1>1. g \in Nat /\ 5 * g = job.nfft /\ e \in Nat /\ 1 * g = g /\ 2 * g = fstride * 2 * m
  BY Strides DEF PartOf
<1>2. \A q \in 1..4 : q * u * fstride = q * e
  BY DEF PartOf
<1>3. /\ t \in [Nat -> Complex] /\ t[0] = y[0]
      /\ \A q \in 0..(5 - 1) : t[q] = C_MUL(y[q], Tw(q * e))
      /\ \A q \in 0..(5 - 1) : Tw(q * g) = PowersOf(Root)[q * g]
      /\ \A q \in 0..(5 - 1) : Spin(y, fstride * (u + q * m)) = Spin(t, q * g)
  BY TurnedColumn
<1>4. x[1] = y[0] /\ \A q \in 1..4 : x[q + 1] = y[q]
  BY DEF Column
<1>5. ya = PowersOf(Root)[g] /\ yb = PowersOf(Root)[2 * g]
  <2>1. Tw(1 * g) = PowersOf(Root)[1 * g] /\ Tw(2 * g) = PowersOf(Root)[2 * g]
    <3> HIDE DEF g
    <3> QED
      BY <1>3
  <2>2. ya = Tw(1 * g) /\ yb = Tw(2 * g)
    BY <1>1
  <2> HIDE DEF g, ya, yb
  <2> QED
    BY <1>1, <2>1, <2>2
<1> HIDE DEF g, t, x
<1>6. s[1] = t[1] /\ s[2] = t[2] /\ s[3] = t[3] /\ s[4] = t[4]
  <2>1. ASSUME NEW q \in 1..4 PROVE s[q] = t[q]
    <3>1. s[q] = C_MUL(x[q + 1], Tw(q * u * fstride))
      OBVIOUS
    <3>2. q * u * fstride = q * e /\ x[q + 1] = y[q]
      BY <1>2, <1>4
    <3>3. q \in 0..(5 - 1)
      OBVIOUS
    <3>4. t[q] = C_MUL(y[q], Tw(q * e))
      BY <1>3, <3>3
    <3> QED
      BY <3>1, <3>2, <3>4
  <2> HIDE DEF s
  <2> QED
    BY <2>1
<1>7. Bfly5(x, fstride, m, u)
        = <<C_ADD(x[1], C_ADD(s7, s8)), C_SUB(s5, s6), C_ADD(s11, s12), C_SUB(s11, s12), C_ADD(s5, s6)>>
  BY DEF Bfly5
<1>8. x[1] = t[0]
  BY <1>3, <1>4
<1> HIDE DEF s, ya, yb
<1>9. /\ s7 = C_ADD(t[1], t[4]) /\ s10 = C_SUB(t[1], t[4]) /\ s8 = C_ADD(t[2], t[3]) /\ s9 = C_SUB(t[2], t[3])
  BY <1>6
<1> HIDE DEF s7, s8, s9, s10
<1>10. /\ s5 = C_ADD(t[0], Cpx(s7.r * ya.r + s8.r * yb.r, s7.i * ya.r + s8.i * yb.r))
       /\ s6 = Cpx(s10.i * ya.i + s9.i * yb.i, -(s10.r * ya.i) - s9.r * yb.i)
       /\ s11 = C_ADD(t[0], Cpx(s7.r * yb.r + s8.r * ya.r, s7.i * yb.r + s8.i * ya.r))
       /\ s12 = Cpx(-(s10.i * yb.i) + s9.i * ya.i, s10.r * yb.i - s9.r * ya.i)
  BY <1>8
<1> HIDE DEF s5, s6, s11, s12
<1>11. /\ Sum(Spin(t, 0 * g), 5) = C_ADD(t[0], C_ADD(s7, s8))
       /\ Sum(Spin(t, 1 * g), 5) = C_SUB(s5, s6)
       /\ Sum(Spin(t, 2 * g), 5) = C_ADD(s11, s12)
       /\ Sum(Spin(t, 3 * g), 5) = C_SUB(s11, s12)
       /\ Sum(Spin(t, 4 * g), 5) = C_ADD(s5, s6)
  BY <1>1, <1>3, <1>5, <1>9, <1>10, Rows5
<1>12. ASSUME NEW q \in 0..4 PROVE Bfly5(x, fstride, m, u)[q + 1] = Sum(Spin(y, fstride * (u + q * m)), 5)
  <2> DEFINE z == Bfly5(x, fstride, m, u)
             a == C_ADD(t[0], C_ADD(s7, s8))  b == C_SUB(s5, s6)  c == C_ADD(s11, s12)
             d == C_SUB(s11, s12)  h == C_ADD(s5, s6)
  <2>0. z = <<a, b, c, d, h>>
    BY <1>7, <1>8
  <2>1. Spin(y, fstride * (u + q * m)) = Spin(t, q * g)
    BY <1>3
  <2> HIDE DEF z, a, b, c, d, h
  <2>2. z[1] = a /\ z[2] = b /\ z[3] = c /\ z[4] = d /\ z[5] = h
    BY <2>0
  <2>3. CASE q = 0
    BY <1>11, <2>1, <2>2, <2>3 DEF z, a
  <2>4. CASE q = 1
    BY <1>11, <2>1, <2>2, <2>4 DEF z, b
  <2>5. CASE q = 2
    BY <1>11, <2>1, <2>2, <2>5 DEF z, c
  <2>6. CASE q = 3
    BY <1>11, <2>1, <2>2, <2>6 DEF z, d
  <2>7. CASE q = 4
    BY <1>11, <2>1, <2>2, <2>7 DEF z, h
  <2> QED
    BY <2>3, <2>4, <2>5, <2>6, <2>7
<1> QED
  BY <1>12 DEF x

\* The rows of any other radix.
LEMMA BflyGenericTurns ==
  ASSUME Tabulated, job.nfft <= INT_MAX \div 2 + 1, NEW fstride, NEW radix, NEW m, PartOf(fstride, radix, m),
         NEW u \in 0..(m - 1), NEW y \in [Nat -> Complex]
  PROVE  \A q \in 0..(radix - 1) :
           BflyGeneric(Column(y, radix), fstride, m, u)[q + 1] = Sum(Spin(y, fstride * (u + q * m)), radix)
<1> DEFINE x == Column(y, radix)
           Next(w, k, q) == IF q = 1 THEN <<0, x[1]>>
                            ELSE LET before == w[q - 1]
                                     j == Wrapped(AsInt(before[1] + fstride * k))
                                 IN  <<j, C_ADD(before[2], C_MUL(x[q], Tw(j)))>>
           Rec(w, k) == w = [q \in 1..Len(x) |-> Next(w, k, q)]
           Row(k) == (CHOOSE w : Rec(w, k))[Len(x)][2]
           rows == [q1 \in 1..radix |-> Row(u + (q1 - 1) * m)]
<1>0. radix \in Nat \ {0} /\ m \in Nat \ {0} /\ u \in Nat /\ fstride \in Nat
  BY DEF PartOf
<1>1. Len(x) = radix /\ \A q \in 1..radix : x[q] = y[q - 1]
  <2>1. x \in Seq({y[q] : q \in Nat}) /\ DOMAIN x = 1..radix
    BY <1>0 DEF Column
  <2>2. Len(x) = radix
    <3> HIDE DEF x
    <3> QED
      BY <1>0, <2>1
  <2> QED
    BY <2>2 DEF Column
<1>2. BflyGeneric(x, fstride, m, u) = Evaluated([q1 \in 1..Len(x) |-> Row(u + (q1 - 1) * m)])
  BY DEF BflyGeneric
<1> HIDE DEF x
<1>3. ASSUME NEW k \in Nat, fstride * k \in 0..(job.nfft - 1) PROVE Row(k) = Sum(Spin(y, fstride * k), radix)
  <2> DEFINE e == fstride * k
  <2>1. ASSUME NEW w, NEW q \in 1..radix PROVE Next(w, k, q) = GenericNext(w, y, e, q)
    <3>1. x[q] = y[q - 1] /\ (q = 1 => x[1] = y[0])
      BY <1>1
    <3> QED
      BY <3>1 DEF GenericNext
  <2> HIDE DEF Next
  <2>2. ASSUME NEW w PROVE Rec(w, k) <=> w = [q \in 1..radix |-> GenericNext(w, y, e, q)]
    <3>1. Rec(w, k) <=> w = [q \in 1..radix |-> Next(w, k, q)]
      BY <1>1
    <3>2. [q \in 1..radix |-> Next(w, k, q)] = [q \in 1..radix |-> GenericNext(w, y, e, q)]
      BY <2>1
    <3> QED
      BY <3>1, <3>2
  <2> HIDE DEF Rec, e
  <2>3. /\ \E w : w = [q \in 1..radix |-> GenericNext(w, y, e, q)]
        /\ \A w : w = [q \in 1..radix |-> GenericNext(w, y, e, q)] => w[radix][2] = Sum(Spin(y, e), radix)
    <3>1. e \in 0..(job.nfft - 1)
      BY <1>3 DEF e
    <3> QED
      BY <1>0, <3>1, GenericRow
  <2>4. \E w : Rec(w, k)
    BY <2>2, <2>3
  <2>5. \A w : Rec(w, k) => w[radix][2] = Sum(Spin(y, e), radix)
    BY <2>2, <2>3
  <2>6. Rec(CHOOSE w : Rec(w, k), k)
    BY <2>4, Zenon
  <2>7. (CHOOSE w : Rec(w, k))[radix][2] = Sum(Spin(y, e), radix)
    BY <2>5, <2>6
  <2> QED
    BY <1>1, <2>7 DEF e
<1> HIDE DEF Row
<1>4. ASSUME NEW q \in 0..(radix - 1) PROVE Row(u + q * m) = Sum(Spin(y, fstride * (u + q * m)), radix)
  <2>1. u + q * m \in Nat
    BY <1>0
  <2>2. fstride * (u + q * m) \in 0..(job.nfft - 1)
    BY Strides
  <2> DEFINE k == u + q * m
  <2> HIDE DEF k
  <2>3. Row(k) = Sum(Spin(y, fstride * k), radix)
    BY <1>3, <2>1, <2>2 DEF k
  <2> QED
    BY <2>3 DEF k
<1>5. Evaluated(rows) = rows
  <2> DEFINE S == {Row(k) : k \in Nat}
  <2>1. rows \in Seq(S)
    <3>1. \A q1 \in 1..radix : u + (q1 - 1) * m \in Nat
      BY <1>0
    <3>2. rows \in [1..radix -> S] /\ radix \in Nat
      BY <1>0, <3>1
    <3> HIDE DEF rows, S
    <3> QED
      BY <3>2
  <2> HIDE DEF rows, S
  <2> QED
    BY <2>1, EvaluatedIs
<1>6. ASSUME NEW q \in 0..(radix - 1)
      PROVE  BflyGeneric(x, fstride, m, u)[q + 1] = Sum(Spin(y, fstride * (u + q * m)), radix)
  <2>1. q + 1 \in 1..radix /\ (q + 1) - 1 = q
    BY <1>0
  <2>2. rows[q + 1] = Row(u + ((q + 1) - 1) * m)
    BY <2>1
  <2>3. BflyGeneric(x, fstride, m, u) = rows
    BY <1>1, <1>2, <1>5
  <2> QED
    BY <1>4, <2>1, <2>2, <2>3
<1> QED
  BY <1>6 DEF x

\* Every butterfly gives, at row q of column u, the sum of its column with
\* the factors of frequency u + q * m.
THEOREM EveryButterfly ==
  ASSUME Tabulated, job.nfft <= INT_MAX \div 2 + 1, NEW fstride, NEW radix, NEW m, PartOf(fstride, radix, m),
         NEW u \in 0..(m - 1), NEW y \in [Nat -> Complex]
  PROVE  \A q \in 0..(radix - 1) :
           Bfly(Column(y, radix), fstride, m, u)[q + 1] = Sum(Spin(y, fstride * (u + q * m)), radix)
<1> DEFINE x == Column(y, radix)
<1>1. Len(x) = radix
  <2>1. x \in Seq({y[q] : q \in Nat}) /\ DOMAIN x = 1..radix /\ radix \in Nat
    BY DEF Column, PartOf
  <2> HIDE DEF x
  <2> QED
    BY <2>1
<1> HIDE DEF x
<1>2. CASE radix = 2
  <2>1. Bfly(x, fstride, m, u) = Bfly2(x, fstride, u)
    BY <1>1, <1>2 DEF Bfly
  <2>2. \A q \in 0..1 : Bfly2(x, fstride, u)[q + 1] = Sum(Spin(y, fstride * (u + q * m)), 2)
    BY <1>2, Bfly2Turns DEF x
  <2> QED
    BY <1>2, <2>1, <2>2 DEF x
<1>3. CASE radix = 3
  <2>1. Bfly(x, fstride, m, u) = Bfly3(x, fstride, m, u)
    BY <1>1, <1>3 DEF Bfly
  <2>2. \A q \in 0..2 : Bfly3(x, fstride, m, u)[q + 1] = Sum(Spin(y, fstride * (u + q * m)), 3)
    BY <1>3, Bfly3Turns DEF x
  <2> QED
    BY <1>3, <2>1, <2>2 DEF x
<1>4. CASE radix = 4
  <2>1. Bfly(x, fstride, m, u) = Bfly4(x, fstride, u)
    BY <1>1, <1>4 DEF Bfly
  <2>2. \A q \in 0..3 : Bfly4(x, fstride, u)[q + 1] = Sum(Spin(y, fstride * (u + q * m)), 4)
    BY <1>4, Bfly4Turns DEF x
  <2> QED
    BY <1>4, <2>1, <2>2 DEF x
<1>5. CASE radix = 5
  <2>1. Bfly(x, fstride, m, u) = Bfly5(x, fstride, m, u)
    BY <1>1, <1>5 DEF Bfly
  <2>2. \A q \in 0..4 : Bfly5(x, fstride, m, u)[q + 1] = Sum(Spin(y, fstride * (u + q * m)), 5)
    BY <1>5, Bfly5Turns DEF x
  <2> QED
    BY <1>5, <2>1, <2>2 DEF x
<1>6. CASE radix \notin {2, 3, 4, 5}
  <2>1. Bfly(x, fstride, m, u) = BflyGeneric(x, fstride, m, u)
    BY <1>1, <1>6 DEF Bfly
  <2>2. \A q \in 0..(radix - 1) : BflyGeneric(x, fstride, m, u)[q + 1] = Sum(Spin(y, fstride * (u + q * m)), radix)
    BY BflyGenericTurns DEF x
  <2> QED
    BY <2>1, <2>2 DEF x
<1> QED
  BY <1>2, <1>3, <1>4, <1>5, <1>6

(***************************************************************************)
(* kf_work.                                                                *)
(***************************************************************************)

\* A list that is written down as a function is a sequence.
LEMMA ListIs ==
  ASSUME NEW len \in Nat, NEW S, NEW s \in [1..len -> S]
  PROVE  Len(s) = len /\ Evaluated(s) = s
<1>1. s \in Seq(S)
  OBVIOUS
<1>2. Len(s) = len
  BY <1>1
<1> QED
  BY <1>1, <1>2, EvaluatedIs

\* The values of the parts, counted from 0, and the u-th values of all.
PartsOf(G, radix, m) == [q \in 1..radix |-> [u \in 1..m |-> G[q - 1][u - 1]]]
Across(G, u) == [q \in Nat |-> G[q][u]]

\* Value k of a recombination: the u-th values of all parts, turned.
Recombined(G, fstride, radix, m) ==
  [k \in 1..(radix * m) |-> Sum(Spin(Across(G, (k - 1) % m), fstride * (k - 1)), radix)]

\* The switch at the end of kf_work gives these values.
LEMMA RecombineIs ==
  ASSUME Tabulated, job.nfft <= INT_MAX \div 2 + 1, NEW fstride, NEW radix, NEW m, PartOf(fstride, radix, m),
         NEW G \in [Nat -> [Nat -> Complex]]
  PROVE  Recombine(PartsOf(G, radix, m), fstride, m) = Recombined(G, fstride, radix, m)
<1> DEFINE parts == PartsOf(G, radix, m)
           Col(u) == [q \in 1..radix |-> parts[q][u + 1]]
           B(u) == Bfly(Col(u), fstride, m, u)
           columns == [u \in 1..m |-> B(u - 1)]
           out == [k \in 1..(radix * m) |-> columns[((k - 1) % m) + 1][((k - 1) \div m) + 1]]
<1>0. radix \in Nat \ {0} /\ m \in Nat \ {0} /\ fstride \in Nat \ {0} /\ radix * m \in Nat
  BY DEF PartOf
<1>1. Len(parts) = radix
  <2> DEFINE S == {parts[q] : q \in 1..radix}
  <2>1. parts \in [1..radix -> S]
    BY DEF PartsOf
  <2> HIDE DEF parts, S
  <2> QED
    BY <1>0, <2>1, ListIs
<1>2. Recombine(parts, fstride, m)
        = Evaluated([k \in 1..(radix * m) |->
            Evaluated([u \in 1..m |-> B(u - 1)])[((k - 1) % m) + 1][((k - 1) \div m) + 1]])
  BY <1>1 DEF Recombine
<1>3. ASSUME NEW u \in 0..(m - 1) PROVE Across(G, u) \in [Nat -> Complex] /\ Col(u) = Column(Across(G, u), radix)
  <2>1. u \in Nat /\ u + 1 \in 1..m /\ (u + 1) - 1 = u
    BY <1>0
  <2>2. ASSUME NEW q \in 1..radix PROVE parts[q][u + 1] = Across(G, u)[q - 1]
    <3>1. parts[q] = [v \in 1..m |-> G[q - 1][v - 1]] /\ q - 1 \in Nat
      BY <1>0 DEF PartsOf
    <3>2. parts[q][u + 1] = G[q - 1][(u + 1) - 1]
      BY <2>1, <3>1
    <3> QED
      BY <2>1, <3>1, <3>2 DEF Across
  <2>3. Across(G, u) \in [Nat -> Complex]
    BY <2>1 DEF Across
  <2> HIDE DEF parts
  <2> QED
    BY <2>2, <2>3 DEF Column
<1> HIDE DEF parts, Col
<1>4. ASSUME NEW u \in 0..(m - 1), NEW q \in 0..(radix - 1)
      PROVE  B(u)[q + 1] = Sum(Spin(Across(G, u), fstride * (u + q * m)), radix)
  <2>1. Across(G, u) \in [Nat -> Complex]
    BY <1>3
  <2>2. Bfly(Column(Across(G, u), radix), fstride, m, u)[q + 1]
          = Sum(Spin(Across(G, u), fstride * (u + q * m)), radix)
    BY <2>1, EveryButterfly
  <2> QED
    BY <1>3, <2>2
<1> HIDE DEF B
<1>5. Evaluated(columns) = columns
  <2> DEFINE S == {B(u - 1) : u \in 1..m}
  <2>1. columns \in [1..m -> S] /\ m \in Nat
    BY <1>0
  <2> HIDE DEF columns, S
  <2> QED
    BY <2>1, ListIs
<1>6. Evaluated(out) = out
  <2> DEFINE S == {out[k] : k \in 1..(radix * m)}
  <2>1. out \in [1..(radix * m) -> S]
    OBVIOUS
  <2> HIDE DEF out, S
  <2> QED
    BY <1>0, <2>1, ListIs
<1>7. ASSUME NEW k \in 1..(radix * m)
      PROVE  out[k] = Sum(Spin(Across(G, (k - 1) % m), fstride * (k - 1)), radix)
  <2> DEFINE x == k - 1  u == x % m  q == x \div m
  <2>1. x \in Nat /\ x < radix * m
    BY <1>0
  <2>2. u \in 0..(m - 1) /\ q \in Int /\ x = m * q + u
    <3> HIDE DEF x
    <3> QED
      BY <1>0, <2>1, Euclid
  <2>3. q \in 0..(radix - 1) /\ x = u + q * m
    <3> HIDE DEF x, u, q
    <3>1. q >= 0
      <4>1. CASE q <= -1
        <5>1. m * q <= -m
          BY <1>0, <2>2, <4>1
        <5> DEFINE mq == m * q
        <5>2. mq \in Int /\ x = mq + u /\ mq <= -m
          BY <1>0, <2>2, <5>1
        <5> HIDE DEF mq
        <5> QED
          BY <1>0, <2>1, <2>2, <5>2
      <4> QED
        BY <2>2, <4>1
    <3>2. q <= radix - 1
      <4>1. CASE q >= radix
        <5>1. radix * m <= q * m
          BY <1>0, <2>2, <4>1, Products
        <5> DEFINE mq == m * q  rm == radix * m
        <5>2. mq \in Int /\ x = mq + u /\ rm <= mq /\ rm \in Int /\ x < rm
          BY <1>0, <2>1, <2>2, <5>1
        <5> HIDE DEF mq, rm
        <5> QED
          BY <1>0, <2>1, <2>2, <5>2
      <4> QED
        BY <1>0, <2>2, <4>1
    <3> QED
      BY <1>0, <2>2, <3>1, <3>2
  <2>4. u + 1 \in 1..m /\ (u + 1) - 1 = u
    <3> HIDE DEF u
    <3> QED
      BY <1>0, <2>2
  <2>5. out[k] = columns[u + 1][q + 1] /\ columns[u + 1] = B((u + 1) - 1)
    BY <2>4
  <2>6. B(u)[q + 1] = Sum(Spin(Across(G, u), fstride * (u + q * m)), radix)
    <3> HIDE DEF u, q
    <3> QED
      BY <1>4, <2>2, <2>3
  <2>7. out[k] = Sum(Spin(Across(G, u), fstride * x), radix)
    <3> HIDE DEF out, columns, x, u, q
    <3> QED
      BY <2>3, <2>4, <2>5, <2>6
  <2> QED
    BY <2>7
<1>8. Recombine(parts, fstride, m) = out
  <2>1. Recombine(parts, fstride, m)
          = Evaluated([k \in 1..(radix * m) |-> columns[((k - 1) % m) + 1][((k - 1) \div m) + 1]])
    BY <1>2, <1>5
  <2> QED
    BY <1>6, <2>1
<1>9. out = Recombined(G, fstride, radix, m)
  <2> DEFINE h(k) == columns[((k - 1) % m) + 1][((k - 1) \div m) + 1]
             v(k) == Sum(Spin(Across(G, (k - 1) % m), fstride * (k - 1)), radix)
  <2>1. \A k \in 1..(radix * m) : h(k) = v(k)
    BY <1>7
  <2>2. out = [k \in 1..(radix * m) |-> h(k)] /\ Recombined(G, fstride, radix, m) = [k \in 1..(radix * m) |-> v(k)]
    BY DEF Recombined
  <2> HIDE DEF h, v
  <2> QED
    BY <2>1, <2>2
<1> QED
  BY <1>8, <1>9 DEF parts

\* The input, with zeros behind it, and its values from start on with a
\* stride.
Input == [j \in Nat |-> IF j < job.nfft THEN job.fin[j] ELSE Zero]
Strided(start, fstride) == [j \in Nat |-> Input[start + j * fstride]]

\* The transform of len values with a stride, at frequency k.
Dft(start, fstride, len, k) == Sum(Spin(Strided(start, fstride), fstride * k), len)

\* The transforms of the radix parts.
PartDfts(start, fstride, radix, m) ==
  [q \in Nat |-> [u \in Nat |-> Dft(start + q * fstride, fstride * radix, m, u)]]

\* The input, with or without a stride, consists of numbers.
LEMMA InputIs ==
  ASSUME Tabulated
  PROVE  /\ Input \in [Nat -> Complex]
         /\ \A start, fstride \in Nat : Strided(start, fstride) \in [Nat -> Complex]
<1>1. job.nfft \in Nat /\ job.fin \in [0..(job.nfft - 1) -> Complex]
  BY TableIs, KissFftAssumption DEF Tabulated
<1>2. ASSUME NEW j \in Nat PROVE Input[j] \in Complex
  <2>1. Input[j] = IF j < job.nfft THEN job.fin[j] ELSE Zero
    BY DEF Input
  <2>2. j < job.nfft => job.fin[j] \in Complex
    BY <1>1
  <2> QED
    BY <2>1, <2>2, Constants
<1>3. Input \in [Nat -> Complex]
  BY <1>2 DEF Input
<1>4. ASSUME NEW start \in Nat, NEW fstride \in Nat PROVE Strided(start, fstride) \in [Nat -> Complex]
  <2>1. \A j \in Nat : start + j * fstride \in Nat
    OBVIOUS
  <2> QED
    BY <1>2, <2>1 DEF Strided
<1> QED
  BY <1>3, <1>4

\* Its transforms, too.
LEMMA DftIs ==
  ASSUME Tabulated, NEW start \in Nat, NEW fstride \in Nat, NEW len \in Nat, NEW k \in Nat
  PROVE  Dft(start, fstride, len, k) \in Complex
<1>1. fstride * k \in Nat /\ Strided(start, fstride) \in [Nat -> Complex]
  BY InputIs
<1> DEFINE e == fstride * k
<1> HIDE DEF e
<1>2. Spin(Strided(start, fstride), e) \in [Nat -> Complex]
  BY <1>1, SpinIs DEF e
<1> QED
  BY <1>2, SumIs DEF Dft, e

\* A turn by the factors of the parts and a turn inside a part make up the
\* turn of the whole.
LEMMA TurnsMakeUp ==
  ASSUME Tabulated, NEW fstride, NEW radix, NEW m, PartOf(fstride, radix, m), NEW j \in Nat, NEW q \in Nat,
         NEW x \in Nat
  PROVE  PowersOf(Root)[(j * radix + q) * (fstride * x)]
           = C_MUL(PowersOf(Root)[j * ((fstride * radix) * (x % m))], PowersOf(Root)[q * (fstride * x)])
<1> DEFINE len == job.nfft
           f == PowersOf(Root)
           u == x % m
           d == x \div m
<1>1. /\ fstride \in Nat /\ radix \in Nat /\ m \in Nat \ {0} /\ fstride * (radix * m) = len
  BY DEF PartOf
<1>2. u \in Nat /\ d \in Int /\ x = m * d + u /\ u <= m - 1
  BY <1>1, Euclid
<1>2a. d \in Nat
  <2> HIDE DEF u, d
  <2>1. CASE d <= -1
    <3>1. m * d <= -m
      BY <1>1, <1>2, <2>1
    <3> DEFINE md == m * d
    <3>2. md \in Int /\ x = md + u /\ md <= -m
      BY <1>1, <1>2, <3>1
    <3> HIDE DEF md
    <3> QED
      BY <1>1, <1>2, <3>2
  <2> QED
    BY <1>2, <2>1
<1>3. /\ \A a, b \in Nat : f[a + b] = C_MUL(f[a], f[b])
      /\ \A a, b \in Nat : f[a + len * b] = f[a]
  BY TableIs
<1> HIDE DEF u, d, len, f
<1>4. (j * radix) * (fstride * x) = j * ((fstride * radix) * u) + len * (j * d)
  <2>1. (j * radix) * (fstride * (m * d + u)) = j * ((fstride * radix) * u) + (fstride * (radix * m)) * (j * d)
    BY <1>1, <1>2, <1>2a
  <2> QED
    BY <1>1, <1>2, <2>1
<1> DEFINE a == j * ((fstride * radix) * u)
           b == j * d
           c == q * (fstride * x)
           jx == (j * radix) * (fstride * x)
<1>5. a \in Nat /\ b \in Nat /\ c \in Nat /\ jx \in Nat
  BY <1>1, <1>2, <1>2a
<1>6. (j * radix + q) * (fstride * x) = jx + c
  BY <1>1
<1>7. jx = a + len * b
  BY <1>4
<1> HIDE DEF a, b, c, jx
<1>8. f[jx] = f[a]
  BY <1>3, <1>5, <1>7
<1>9. f[jx + c] = C_MUL(f[jx], f[c])
  BY <1>3, <1>5
<1> QED
  BY <1>6, <1>8, <1>9 DEF f, u, a, c

\* Every radix-th summand of the transform, from q on: the transform of
\* part q, turned.
LEMMA PartTurned ==
  ASSUME Tabulated, NEW fstride, NEW radix, NEW m, PartOf(fstride, radix, m), NEW start \in Nat, NEW q \in Nat,
         NEW x \in Nat
  PROVE  Sum(Every(Spin(Strided(start, fstride), fstride * x), radix, q), m)
           = C_MUL(Dft(start + q * fstride, fstride * radix, m, x % m), PowersOf(Root)[q * (fstride * x)])
<1> DEFINE f == PowersOf(Root)
           e == fstride * x
           a == start + q * fstride
           F == fstride * radix
           u == x % m
           E == F * u
           Y == Strided(start, fstride)
           Z == Strided(a, F)
           t == Spin(Y, e)
           v == Every(t, radix, q)
           w == Spin(Z, E)
           c == f[q * e]
           cw == [j \in Nat |-> C_MUL(c, w[j])]
<1>1. fstride \in Nat /\ radix \in Nat /\ m \in Nat /\ m \in Nat \ {0}
  BY DEF PartOf
<1>2. u \in Nat
  BY <1>1, Euclid
<1>3. e \in Nat /\ a \in Nat /\ F \in Nat
  BY <1>1
<1>4. E \in Nat
  <2> HIDE DEF F, u
  <2> QED
    BY <1>2, <1>3
<1>5. f \in [Nat -> Complex]
  BY TableIs
<1>6. Y \in [Nat -> Complex] /\ Z \in [Nat -> Complex]
  <2> HIDE DEF a, F
  <2> QED
    BY <1>1, <1>3, InputIs
<1>7. ASSUME NEW j \in Nat PROVE j * radix + q \in Nat /\ Y[j * radix + q] = Z[j]
  <2>1. j * radix + q \in Nat /\ start + (j * radix + q) * fstride = a + j * F
    BY <1>1
  <2>2. Y[j * radix + q] = Input[start + (j * radix + q) * fstride]
    BY <2>1 DEF Strided
  <2>3. Z[j] = Input[a + j * F]
    BY DEF Strided
  <2> QED
    BY <2>1, <2>2, <2>3
<1>8. ASSUME NEW j \in Nat PROVE f[(j * radix + q) * e] = C_MUL(f[j * E], c)
  BY TurnsMakeUp
<1>9. c \in Complex
  <2>1. q * e \in Nat
    BY <1>1
  <2> HIDE DEF f, e
  <2> QED
    BY <1>5, <2>1
<1> HIDE DEF f, e, a, F, u, Y, Z, c
<1>10. t \in [Nat -> Complex] /\ \A j \in Nat : t[j] = C_MUL(Y[j], f[j * e])
  BY <1>3, <1>6, SpinIs DEF f
<1> HIDE DEF E
<1>11. /\ w \in [Nat -> Complex]
       /\ \A j \in Nat : w[j] = C_MUL(Z[j], f[j * E]) /\ f[j * E] \in Complex
  BY <1>4, <1>6, SpinIs DEF f
<1> HIDE DEF t, w
<1>12. v \in [Nat -> Complex] /\ \A j \in Nat : v[j] = t[j * radix + q]
  <2>1. v \in [Nat -> Complex]
    BY <1>1, <1>10, EveryType
  <2>2. \A j \in Nat : v[j] = t[j * radix + q]
    BY DEF Every
  <2> QED
    BY <2>1, <2>2
<1> HIDE DEF v
<1>13. cw \in [Nat -> Complex] /\ \A j \in Nat : cw[j] = C_MUL(c, w[j])
  BY <1>9, <1>11, Closed
<1> HIDE DEF cw
<1>14. ASSUME NEW j \in Nat PROVE v[j] = cw[j]
  <2> DEFINE i == j * radix + q
             b == f[j * E]
             y == Z[j]
  <2>1. v[j] = C_MUL(y, C_MUL(b, c))
    <3>1. i \in Nat /\ Y[i] = y /\ f[i * e] = C_MUL(b, c)
      BY <1>7, <1>8
    <3>2. v[j] = t[i]
      BY <1>12
    <3> HIDE DEF i, b, y
    <3>3. t[i] = C_MUL(Y[i], f[i * e])
      BY <1>10, <3>1
    <3> QED
      BY <3>1, <3>2, <3>3
  <2>2. cw[j] = C_MUL(c, C_MUL(y, b))
    BY <1>11, <1>13
  <2>3. y \in Complex /\ b \in Complex
    BY <1>6, <1>11
  <2> HIDE DEF b, y
  <2>4. C_MUL(C_MUL(y, b), c) = C_MUL(y, C_MUL(b, c))
    BY <1>9, <2>3, Associates
  <2>5. C_MUL(y, b) \in Complex
    BY <2>3, Closed
  <2> DEFINE yb == C_MUL(y, b)
  <2> HIDE DEF yb
  <2>6. C_MUL(yb, c) = C_MUL(c, yb)
    BY <1>9, <2>5, Commutes DEF yb
  <2> QED
    BY <2>1, <2>2, <2>4, <2>6 DEF yb
<1>15. Sum(v, m) = Sum(cw, m)
  <2>1. \A j \in 0..(m - 1) : v[j] = cw[j]
    BY <1>14
  <2> QED
    BY <1>1, <1>12, <1>13, <2>1, SumSame
<1>16. Sum(cw, m) = C_MUL(c, Sum(w, m))
  BY <1>1, <1>9, <1>11, SumScales DEF cw
<1>17. C_MUL(c, Sum(w, m)) = C_MUL(Sum(w, m), c)
  <2>1. Sum(w, m) \in Complex
    BY <1>1, <1>11, SumIs
  <2> DEFINE s == Sum(w, m)
  <2> HIDE DEF s
  <2>2. C_MUL(c, s) = C_MUL(s, c)
    BY <1>9, <2>1, Commutes DEF s
  <2> QED
    BY <2>2 DEF s
<1>18. Sum(w, m) = Dft(a, F, m, u)
  BY DEF Dft, w, Z, E
<1> QED
  BY <1>15, <1>16, <1>17, <1>18 DEF v, t, Y, e, a, F, u, c, f

\* Decimation in time: the transform of the parts, recombined.
LEMMA Recombines ==
  ASSUME Tabulated, NEW fstride, NEW radix, NEW m, PartOf(fstride, radix, m), NEW start \in Nat, NEW x \in Nat
  PROVE  Sum(Spin(Across(PartDfts(start, fstride, radix, m), x % m), fstride * x), radix)
           = Dft(start, fstride, radix * m, x)
<1> DEFINE G == PartDfts(start, fstride, radix, m)
           u == x % m
           e == fstride * x
           y == Across(G, u)
           t == Spin(Strided(start, fstride), e)
           f == PowersOf(Root)
<1>1. fstride \in Nat /\ radix \in Nat /\ m \in Nat /\ m \in Nat \ {0} /\ fstride * radix \in Nat
  BY DEF PartOf
<1>2. u \in Nat
  BY <1>1, Euclid
<1>3. e \in Nat
  BY <1>1
<1> HIDE DEF u, e
<1>4. ASSUME NEW q \in Nat
      PROVE y[q] = Dft(start + q * fstride, fstride * radix, m, u) /\ y[q] \in Complex
  <2> DEFINE a == start + q * fstride  F == fstride * radix
  <2>1. a \in Nat /\ F \in Nat
    BY <1>1
  <2>2. y[q] = Dft(a, F, m, u)
    BY <1>2 DEF Across, PartDfts
  <2> HIDE DEF a, F
  <2> QED
    BY <1>1, <1>2, <2>1, <2>2, DftIs DEF a, F
<1>5. y \in [Nat -> Complex]
  BY <1>4 DEF Across
<1>6. t \in [Nat -> Complex]
  BY <1>1, <1>3, InputIs, SpinIs
<1> HIDE DEF y, t
<1> DEFINE z == Spin(y, e)
           parts == Parts(t, radix, m)
<1>7. z \in [Nat -> Complex] /\ \A q \in Nat : z[q] = C_MUL(y[q], f[q * e])
  BY <1>3, <1>5, SpinIs
<1>8. parts \in [Nat -> Complex]
  BY <1>1, <1>6, EveryType
<1>9. ASSUME NEW q \in Nat PROVE z[q] = parts[q]
  <2>1. parts[q] = Sum(Every(t, radix, q), m)
    BY DEF Parts
  <2>2. Sum(Every(t, radix, q), m)
          = C_MUL(Dft(start + q * fstride, fstride * radix, m, u), f[q * e])
    BY PartTurned DEF t, u, e
  <2> HIDE DEF f, z, parts
  <2> QED
    BY <1>4, <1>7, <2>1, <2>2
<1>10. Sum(z, radix) = Sum(parts, radix)
  <2>1. \A q \in 0..(radix - 1) : z[q] = parts[q]
    BY <1>1, <1>9
  <2> HIDE DEF z, parts
  <2> QED
    BY <1>1, <1>7, <1>8, <2>1, SumSame
<1>11. Sum(t, radix * m) = Sum(parts, radix)
  BY <1>1, <1>6, Decimation
<1> QED
  BY <1>10, <1>11 DEF Dft, t, y, u, e

\* What kf_factor leaves for kf_work.
Factored ==
  /\ Len(factors) \in Nat \ {0} /\ DOMAIN factors = 1..Len(factors)
  /\ \A k \in 1..Len(factors) :
       /\ factors[k][1] \in Nat \ {0} /\ factors[k][2] \in Nat \ {0}
       /\ factors[k][1] * factors[k][2] = IF k = 1 THEN job.nfft ELSE factors[k - 1][2]
  /\ factors[Len(factors)][2] = 1

\* The calls from level l of the recursion on, and what a call returns, with
\* w for the calls that it makes.
CallsFrom(l) == (l..Len(factors)) \X Nat \X Nat

WorkBody(w, call) ==
  LET start   == call[2]
      fstride == call[3]
      radix   == factors[call[1]][1]
      m       == factors[call[1]][2]
      Part(q) == IF m = 1 THEN <<job.fin[start + q * fstride]>>
                 ELSE w[<<call[1] + 1, start + q * fstride, fstride * radix>>]
  IN  Recombine(Evaluated([q \in 1..radix |-> Part(q - 1)]), fstride, m)

Agree(v, w, l) == \A c \in CallsFrom(l) : v[c] = w[c]
Works(w, l) == w = [call \in CallsFrom(l) |-> WorkBody(w, call)]

\* A call depends on the calls of the next level only, and the last level
\* makes none.
LEMMA CallsNext ==
  ASSUME Factored, NEW l \in Nat \ {0}, NEW v, NEW w, Agree(v, w, l + 1), NEW call \in CallsFrom(l)
  PROVE  WorkBody(v, call) = WorkBody(w, call)
<1> DEFINE i == call[1]
           start == call[2]
           fstride == call[3]
           radix == factors[i][1]
           m == factors[i][2]
           PartIn(z, q) == IF m = 1 THEN <<job.fin[start + q * fstride]>>
                           ELSE z[<<i + 1, start + q * fstride, fstride * radix>>]
<1>1. i \in l..Len(factors) /\ start \in Nat /\ fstride \in Nat
  BY DEF CallsFrom
<1>2. i \in 1..Len(factors) /\ Len(factors) \in Nat
  BY <1>1 DEF Factored
<1>3. radix \in Nat /\ m \in Nat /\ (i = Len(factors) => m = 1)
  BY <1>2 DEF Factored
<1>4. WorkBody(v, call) = Recombine(Evaluated([q \in 1..radix |-> PartIn(v, q - 1)]), fstride, m)
  BY DEF WorkBody
<1>5. WorkBody(w, call) = Recombine(Evaluated([q \in 1..radix |-> PartIn(w, q - 1)]), fstride, m)
  BY DEF WorkBody
<1> HIDE DEF i, start, fstride, radix, m
<1>6. ASSUME NEW q \in 1..radix PROVE PartIn(v, q - 1) = PartIn(w, q - 1)
  <2>1. CASE m = 1
    BY <2>1
  <2>2. CASE m # 1
    <3> DEFINE c == <<i + 1, start + (q - 1) * fstride, fstride * radix>>
    <3>1. i + 1 \in (l + 1)..Len(factors)
      BY <1>1, <1>2, <1>3, <2>2
    <3>2. start + (q - 1) * fstride \in Nat /\ fstride * radix \in Nat
      BY <1>1, <1>3
    <3>3. c \in CallsFrom(l + 1)
      BY <3>1, <3>2 DEF CallsFrom
    <3>4. v[c] = w[c]
      BY <3>3 DEF Agree
    <3> QED
      BY <2>2, <3>4
  <2> QED
    BY <2>1, <2>2
<1>7. [q \in 1..radix |-> PartIn(v, q - 1)] = [q \in 1..radix |-> PartIn(w, q - 1)]
  <2> HIDE DEF PartIn
  <2> QED
    BY <1>6
<1> QED
  BY <1>4, <1>5, <1>7

\* The recursion of kf_work is a function: level by level, from the last.
LEMMA WorksExist ==
  ASSUME Factored
  PROVE  \E w : Works(w, 1)
<1> DEFINE len == Len(factors)
           S == {k \in Nat : k < len => \E w : Works(w, len - k)}
<1>0. len \in Nat \ {0}
  BY DEF Factored
<1>1. ASSUME NEW l \in 1..len, NEW v, l < len => Works(v, l + 1) PROVE \E w : Works(w, l)
  <2> DEFINE w == [call \in CallsFrom(l) |-> IF call[1] = l THEN WorkBody(v, call) ELSE v[call]]
  <2>0. l \in Nat \ {0} /\ l + 1 \in Nat \ {0} /\ l + 1 # l
    BY <1>0
  <2>1. ASSUME NEW c \in CallsFrom(l + 1) PROVE c \in CallsFrom(l) /\ c[1] # l /\ l < len
    <3>1. c[1] \in (l + 1)..len /\ c[2] \in Nat /\ c[3] \in Nat /\ c = <<c[1], c[2], c[3]>>
      BY DEF CallsFrom
    <3>2. c[1] \in l..len /\ c[1] # l /\ l < len
      BY <1>0, <3>1
    <3> QED
      BY <3>1, <3>2 DEF CallsFrom
  <2>2. Agree(w, v, l + 1)
    BY <2>1 DEF Agree
  <2>3. ASSUME NEW call \in CallsFrom(l) PROVE w[call] = WorkBody(w, call)
    <3>1. WorkBody(w, call) = WorkBody(v, call)
      <4> HIDE DEF w
      <4> QED
        BY <2>0, <2>2, CallsNext
    <3>2. CASE call[1] = l
      BY <3>1, <3>2
    <3>3. CASE call[1] # l
      <4>1. call \in CallsFrom(l + 1)
        <5>1. call[1] \in l..len /\ call[2] \in Nat /\ call[3] \in Nat /\ call = <<call[1], call[2], call[3]>>
          BY DEF CallsFrom
        <5>2. call[1] \in (l + 1)..len
          BY <1>0, <3>3, <5>1
        <5> QED
          BY <5>1, <5>2 DEF CallsFrom
      <4>2. l < len
        BY <2>1, <4>1
      <4>3. v = [c \in CallsFrom(l + 1) |-> WorkBody(v, c)]
        BY <1>1, <4>2 DEF Works
      <4>4. v[call] = WorkBody(v, call)
        <5> DEFINE B(c) == WorkBody(v, c)
        <5>1. v = [c \in CallsFrom(l + 1) |-> B(c)]
          BY <4>3
        <5> HIDE DEF B
        <5>2. v[call] = B(call)
          BY <4>1, <5>1
        <5> QED
          BY <5>2 DEF B
      <4>5. w[call] = v[call]
        BY <3>3
      <4> QED
        BY <3>1, <4>4, <4>5
    <3> QED
      BY <3>2, <3>3
  <2>4. Works(w, l)
    <3>1. w = [call \in CallsFrom(l) |-> w[call]]
      OBVIOUS
    <3> HIDE DEF w
    <3> QED
      BY <2>3, <3>1 DEF Works
  <2> HIDE DEF w
  <2> QED
    BY <2>4
<1>2. 0 \in S
  <2>1. len \in 1..len /\ ~(len < len) /\ len - 0 = len
    BY <1>0
  <2>2. \E w : Works(w, len)
    BY <1>1, <2>1
  <2> QED
    BY <2>1, <2>2
<1>3. ASSUME NEW k \in S PROVE k + 1 \in S
  <2>1. k \in Nat /\ (k < len => \E w : Works(w, len - k))
    OBVIOUS
  <2>2. ASSUME k + 1 < len PROVE \E w : Works(w, len - (k + 1))
    <3> DEFINE l == len - (k + 1)
    <3>1. l \in 1..len /\ l + 1 = len - k /\ k < len
      BY <1>0, <2>1, <2>2
    <3>2. PICK v : Works(v, len - k)
      BY <2>1, <3>1
    <3> HIDE DEF l
    <3> QED
      BY <1>1, <3>1, <3>2 DEF l
  <2> QED
    BY <2>1, <2>2
<1>4. len - 1 \in Nat /\ len - 1 < len /\ len - (len - 1) = 1
  BY <1>0
<1>5. len - 1 \in S
  <2>1. S \in SUBSET Nat
    OBVIOUS
  <2> HIDE DEF S
  <2> QED
    BY <1>2, <1>3, <1>4, <2>1, Inductive
<1> QED
  BY <1>4, <1>5

\* Work is a solution of its own equation.
LEMMA WorkIs ==
  ASSUME Factored, NEW call \in CallsFrom(1)
  PROVE  Work[call] = WorkBody(Work, call)
<1>1. CallsFrom(1) = (DOMAIN factors) \X Nat \X Nat
  BY DEF CallsFrom, Factored
<1>2. Work = CHOOSE w : Works(w, 1)
  BY <1>1 DEF Work, Works, WorkBody
<1>3. Works(Work, 1)
  BY <1>2, WorksExist, Zenon
<1> DEFINE B(c) == WorkBody(Work, c)
<1>4. Work = [c \in CallsFrom(1) |-> B(c)]
  BY <1>3 DEF Works
<1> HIDE DEF B
<1>5. Work[call] = B(call)
  BY <1>4
<1> QED
  BY <1>5 DEF B

\* The transform of the len values from start on with a stride, as kf_work
\* leaves it in Fout.
Transformed(start, fstride, len) == [k \in 1..len |-> Dft(start, fstride, len, k - 1)]

\* The transform of one value.
LEMMA OneValue ==
  ASSUME Tabulated, NEW a \in 0..(job.nfft - 1), NEW fstride \in Nat
  PROVE  <<job.fin[a]>> = Transformed(a, fstride, 1)
<1> DEFINE y == Strided(a, fstride)
           e == fstride * 0
           t == Spin(y, e)
<1>1. a \in Nat /\ e = 0 /\ job.nfft \in Nat
  BY TableIs
<1>2. y \in [Nat -> Complex]
  BY <1>1, InputIs
<1>3. y[0] = job.fin[a]
  <2>1. a + 0 * fstride = a /\ a < job.nfft
    BY <1>1
  <2>2. y[0] = Input[a + 0 * fstride]
    BY DEF Strided
  <2> QED
    BY <1>1, <2>1, <2>2 DEF Input
<1> HIDE DEF y, e
<1>4. t \in [Nat -> Complex] /\ t[0] = y[0]
  BY <1>1, <1>2, SpinIs
<1> HIDE DEF t
<1>5. Sum(t, 1) = job.fin[a]
  BY <1>3, <1>4, SumsOfFew
<1>6. Dft(a, fstride, 1, 0) = job.fin[a]
  BY <1>5 DEF Dft, t, y, e
<1>7. Transformed(a, fstride, 1) = [k \in 1..1 |-> Dft(a, fstride, 1, k - 1)]
  BY DEF Transformed
<1>8. \A k \in 1..1 : Dft(a, fstride, 1, k - 1) = job.fin[a]
  <2>1. ASSUME NEW k \in 1..1 PROVE Dft(a, fstride, 1, k - 1) = job.fin[a]
    <3>1. k - 1 = 0
      OBVIOUS
    <3> QED
      BY <1>6, <3>1
  <2> QED
    BY <2>1
<1> DEFINE x == job.fin[a]
           D(k) == Dft(a, fstride, 1, k - 1)
<1> HIDE DEF x, D
<1>9. [k \in 1..1 |-> D(k)] = [k \in 1..1 |-> x]
  BY <1>8 DEF D, x
<1>10. <<x>> = [k \in 1..1 |-> x]
  OBVIOUS
<1> QED
  BY <1>7, <1>9, <1>10 DEF x, D

\* The calls of one level are right when those of the next are.

StartsIn(start, fstride, l) ==
  /\ start \in Nat /\ fstride \in Nat \ {0} /\ start < fstride
  /\ fstride * (factors[l][1] * factors[l][2]) = job.nfft

LevelTransforms(l) ==
  \A start, fstride \in Nat : StartsIn(start, fstride, l) =>
    Work[<<l, start, fstride>>] = Transformed(start, fstride, factors[l][1] * factors[l][2])

\* A level recombines what the next has transformed.
LEMMA LevelStep ==
  ASSUME Tabulated, job.nfft <= INT_MAX \div 2 + 1, Factored, NEW l \in 1..Len(factors),
         l < Len(factors) => LevelTransforms(l + 1)
  PROVE  LevelTransforms(l)
<1> SUFFICES ASSUME NEW start \in Nat, NEW fstride \in Nat, StartsIn(start, fstride, l)
             PROVE  Work[<<l, start, fstride>>] = Transformed(start, fstride, factors[l][1] * factors[l][2])
  BY DEF LevelTransforms
<1> DEFINE radix == factors[l][1]
           m == factors[l][2]
           call == <<l, start, fstride>>
           Part(q) == IF m = 1 THEN <<job.fin[start + q * fstride]>>
                      ELSE Work[<<l + 1, start + q * fstride, fstride * radix>>]
           G == PartDfts(start, fstride, radix, m)
           list == [q \in 1..radix |-> Part(q - 1)]
<1>1. /\ radix \in Nat \ {0} /\ m \in Nat \ {0} /\ Len(factors) \in Nat /\ l \in Nat \ {0}
      /\ (l = Len(factors) => m = 1)
      /\ (l < Len(factors) => factors[l + 1][1] * factors[l + 1][2] = m)
  <2>1. radix \in Nat \ {0} /\ m \in Nat \ {0} /\ Len(factors) \in Nat /\ l \in Nat \ {0}
    BY DEF Factored
  <2>2. l = Len(factors) => m = 1
    BY DEF Factored
  <2>3. ASSUME l < Len(factors) PROVE factors[l + 1][1] * factors[l + 1][2] = m
    <3>1. l + 1 \in 1..Len(factors) /\ l + 1 # 1 /\ (l + 1) - 1 = l
      BY <2>1, <2>3
    <3> QED
      BY <3>1 DEF Factored
  <2> QED
    BY <2>1, <2>2, <2>3
<1>2. Work[call] = Recombine(Evaluated(list), fstride, m)
  <2>1. call \in CallsFrom(1)
    BY <1>1 DEF CallsFrom
  <2>2. call[1] = l /\ call[2] = start /\ call[3] = fstride
    OBVIOUS
  <2>3. Work[call] = WorkBody(Work, call)
    <3> HIDE DEF call
    <3> QED
      BY <2>1, WorkIs
  <2> HIDE DEF call
  <2> QED
    BY <2>2, <2>3 DEF WorkBody
<1>3. /\ fstride \in Nat \ {0} /\ start < fstride /\ fstride * (radix * m) = job.nfft
      /\ PartOf(fstride, radix, m)
  BY <1>1 DEF StartsIn, PartOf
<1> HIDE DEF radix, m, call
\* A value of part q is a value of the input.
<1>4. ASSUME NEW q \in 1..radix
      PROVE /\ start + (q - 1) * fstride \in Nat /\ fstride * radix \in Nat \ {0}
            /\ start + (q - 1) * fstride < fstride * radix
            /\ (fstride * radix) * m = job.nfft
  <2>1. (q - 1) * fstride <= (radix - 1) * fstride
    <3>1. q - 1 \in Nat /\ radix - 1 \in Nat /\ q - 1 <= radix - 1
      BY <1>1
    <3> QED
      BY <3>1, Products
  <2>2. (radix - 1) * fstride = fstride * radix - fstride
    BY <1>1
  <2>3. (q - 1) * fstride \in Nat /\ fstride * radix \in Nat
    BY <1>1
  <2> DEFINE a == (q - 1) * fstride  b == (radix - 1) * fstride  F == fstride * radix
  <2>4. F * m = fstride * (radix * m)
    BY <1>1
  <2>5. b \in Int
    BY <1>1
  <2>6. start + a \in Nat /\ F \in Nat \ {0} /\ start + a < F
    <3> HIDE DEF a, b, F
    <3> QED
      BY <1>3, <2>1, <2>2, <2>3, <2>5 DEF a, b, F
  <2> QED
    BY <1>3, <2>4, <2>6
<1>5. ASSUME NEW q \in 1..radix PROVE Part(q - 1) = Transformed(start + (q - 1) * fstride, fstride * radix, m)
  <2> DEFINE a == start + (q - 1) * fstride  F == fstride * radix
  <2>0. a \in Nat /\ F \in Nat \ {0} /\ a < F /\ F * m = job.nfft
    BY <1>4
  <2> HIDE DEF a, F
  <2>1. CASE m = 1
    <3>1. Part(q - 1) = <<job.fin[a]>>
      BY <2>1 DEF a
    <3>2. a \in 0..(job.nfft - 1) /\ F \in Nat
      BY <2>0, <2>1
    <3>3. <<job.fin[a]>> = Transformed(a, F, 1)
      BY <3>2, OneValue
    <3> QED
      BY <2>1, <3>1, <3>3 DEF a, F
  <2>2. CASE m # 1
    <3>1. l < Len(factors)
      BY <1>1, <2>2
    <3>2. StartsIn(a, F, l + 1)
      BY <1>1, <2>0, <3>1 DEF StartsIn
    <3>3. Work[<<l + 1, a, F>>] = Transformed(a, F, factors[l + 1][1] * factors[l + 1][2])
      BY <2>0, <3>1, <3>2 DEF LevelTransforms
    <3>4. Part(q - 1) = Work[<<l + 1, a, F>>]
      BY <2>2 DEF a, F
    <3> QED
      BY <1>1, <3>1, <3>3, <3>4 DEF a, F
  <2> QED
    BY <2>1, <2>2
<1> HIDE DEF Part
<1>6. list = PartsOf(G, radix, m)
  <2>1. ASSUME NEW q \in 1..radix PROVE Part(q - 1) = [u \in 1..m |-> G[q - 1][u - 1]]
    <3> DEFINE a == start + (q - 1) * fstride  F == fstride * radix
               D(u) == Dft(a, F, m, u - 1)
    <3>1. ASSUME NEW u \in 1..m PROVE G[q - 1][u - 1] = D(u)
      <4>1. q - 1 \in Nat /\ u - 1 \in Nat
        BY <1>1
      <4> QED
        BY <4>1 DEF PartDfts
    <3>2. Part(q - 1) = [u \in 1..m |-> D(u)]
      BY <1>5 DEF Transformed
    <3> HIDE DEF D, G
    <3> QED
      BY <3>1, <3>2
  <2> HIDE DEF G
  <2> QED
    BY <2>1 DEF PartsOf
<1>7. Evaluated(list) = list
  <2> DEFINE S == {list[q] : q \in 1..radix}
  <2>1. list \in [1..radix -> S] /\ radix \in Nat
    BY <1>1
  <2> HIDE DEF list, S
  <2> QED
    BY <2>1, ListIs
<1>8. G \in [Nat -> [Nat -> Complex]]
  <2>1. ASSUME NEW q \in Nat, NEW u \in Nat PROVE Dft(start + q * fstride, fstride * radix, m, u) \in Complex
    <3> DEFINE a == start + q * fstride  F == fstride * radix
    <3>1. a \in Nat /\ F \in Nat /\ m \in Nat
      BY <1>1
    <3> HIDE DEF a, F
    <3> QED
      BY <3>1, DftIs DEF a, F
  <2> DEFINE D(q, u) == Dft(start + q * fstride, fstride * radix, m, u)
  <2>2. G = [q \in Nat |-> [u \in Nat |-> D(q, u)]]
    BY DEF PartDfts
  <2>3. \A q, u \in Nat : D(q, u) \in Complex
    BY <2>1
  <2> HIDE DEF D, G
  <2> QED
    BY <2>2, <2>3
<1>9. Recombine(PartsOf(G, radix, m), fstride, m) = Recombined(G, fstride, radix, m)
  <2> HIDE DEF G
  <2> QED
    BY <1>3, <1>8, RecombineIs
<1>10. Recombined(G, fstride, radix, m) = Transformed(start, fstride, radix * m)
  <2> DEFINE v(k) == Sum(Spin(Across(G, (k - 1) % m), fstride * (k - 1)), radix)
             w(k) == Dft(start, fstride, radix * m, k - 1)
             len == radix * m
  <2>1. ASSUME NEW k \in 1..len PROVE v(k) = w(k)
    <3> DEFINE x == k - 1
    <3>1. x \in Nat
      BY <1>1
    <3> HIDE DEF x
    <3>2. Sum(Spin(Across(PartDfts(start, fstride, radix, m), x % m), fstride * x), radix)
           = Dft(start, fstride, radix * m, x)
      BY <1>3, <3>1, Recombines
    <3> QED
      BY <3>2 DEF x
  <2>2. Recombined(G, fstride, radix, m) = [k \in 1..len |-> v(k)]
    BY DEF Recombined
  <2>3. Transformed(start, fstride, radix * m) = [k \in 1..len |-> w(k)]
    BY DEF Transformed
  <2> HIDE DEF v, w, len
  <2> QED
    BY <2>1, <2>2, <2>3
<1> QED
  BY <1>2, <1>6, <1>7, <1>9, <1>10 DEF call, radix, m

\* The whole recursion.
LEMMA WorkTransforms ==
  ASSUME Tabulated, job.nfft <= INT_MAX \div 2 + 1, Factored
  PROVE  Work[<<1, 0, 1>>] = Transformed(0, 1, job.nfft)
<1> DEFINE len == Len(factors)
           S == {k \in Nat : k < len => LevelTransforms(len - k)}
<1>0. len \in Nat \ {0}
  BY DEF Factored
<1>1. 0 \in S
  <2>1. len \in 1..len /\ ~(len < len) /\ len - 0 = len
    BY <1>0
  <2>2. LevelTransforms(len)
    BY <2>1, LevelStep
  <2> QED
    BY <2>1, <2>2
<1>2. ASSUME NEW k \in S PROVE k + 1 \in S
  <2>1. k \in Nat /\ (k < len => LevelTransforms(len - k))
    OBVIOUS
  <2>2. ASSUME k + 1 < len PROVE LevelTransforms(len - (k + 1))
    <3> DEFINE l == len - (k + 1)
    <3>1. l \in 1..len /\ l + 1 = len - k /\ k < len
      BY <1>0, <2>1, <2>2
    <3>2. LevelTransforms(l + 1)
      BY <2>1, <3>1
    <3> HIDE DEF l
    <3> QED
      BY <3>1, <3>2, LevelStep DEF l
  <2> QED
    BY <2>1, <2>2
<1>3. len - 1 \in Nat /\ len - 1 < len /\ len - (len - 1) = 1
  BY <1>0
<1>4. len - 1 \in S
  <2>1. S \in SUBSET Nat
    OBVIOUS
  <2> HIDE DEF S
  <2> QED
    BY <1>1, <1>2, <1>3, <2>1, Inductive
<1>5. LevelTransforms(1)
  BY <1>3, <1>4
<1>6. factors[1][1] * factors[1][2] = job.nfft /\ job.nfft \in Nat
  <2>1. 1 \in 1..len
    BY <1>0
  <2> QED
    BY <2>1, TableIs DEF Factored
<1>7. StartsIn(0, 1, 1)
  <2> DEFINE d == factors[1][1] * factors[1][2]
  <2>1. d = job.nfft
    BY <1>6
  <2> HIDE DEF d
  <2>2. 1 * d = job.nfft
    BY <1>6, <2>1
  <2> QED
    BY <2>2 DEF StartsIn, d
<1>8. 0 \in Nat /\ 1 \in Nat
  OBVIOUS
<1> QED
  BY <1>5, <1>6, <1>7, <1>8 DEF LevelTransforms

(***************************************************************************)
(* The definition of the transform.                                        *)
(***************************************************************************)

\* A sum with one summand that is not zero.
LEMMA SumOfOne ==
  ASSUME NEW c \in Complex, NEW j \in Nat, NEW len \in Nat, j < len
  PROVE  Sum([i \in Nat |-> IF i = j THEN c ELSE Zero], len) = c
<1> DEFINE t == [i \in Nat |-> IF i = j THEN c ELSE Zero]
           S == {i \in Nat : Sum(t, i) = IF j < i THEN c ELSE Zero}
<1>1. t \in [Nat -> Complex] /\ \A i \in Nat : t[i] = IF i = j THEN c ELSE Zero
  BY Constants
<1> HIDE DEF t
<1>2. 0 \in S
  BY <1>1, SumIs
<1>3. ASSUME NEW i \in S PROVE i + 1 \in S
  <2>1. i \in Nat /\ Sum(t, i) = IF j < i THEN c ELSE Zero
    OBVIOUS
  <2>2. Sum(t, i + 1) = C_ADD(Sum(t, i), t[i])
    BY <1>1, <2>1, SumIs
  <2>3. /\ C_ADD(c, Zero) = c /\ C_ADD(Zero, c) = c
    BY Neutral
  <2>4. C_ADD(Zero, Zero) = Zero
    BY Neutral, Constants
  <2>5. Sum(t, i + 1) = IF j < i + 1 THEN c ELSE Zero
    <3>1. CASE j < i
      BY <1>1, <2>1, <2>2, <2>3, <3>1
    <3>2. CASE j = i
      BY <1>1, <2>1, <2>2, <2>3, <3>2
    <3>3. CASE j > i
      BY <1>1, <2>1, <2>2, <2>4, <3>3
    <3> QED
      BY <2>1, <3>1, <3>2, <3>3
  <2> QED
    BY <2>1, <2>5
<1>4. len \in S
  <2>1. S \in SUBSET Nat
    OBVIOUS
  <2> HIDE DEF S
  <2> QED
    BY <1>2, <1>3, <2>1, Inductive
<1> QED
  BY <1>4 DEF t

\* The summands at js.
At(t, js) == [i \in Nat |-> IF i \in js THEN t[i] ELSE Zero]

\* One summand can be taken out of a sum.
LEMMA SumTakesOut ==
  ASSUME NEW t \in [Nat -> Complex], NEW len \in Nat, NEW js \in SUBSET (0..(len - 1)), NEW j \in js
  PROVE  Sum(At(t, js), len) = C_ADD(t[j], Sum(At(t, js \ {j}), len))
<1> DEFINE a == At(t, js)
           b == At(t, js \ {j})
           c == t[j]
           one == [i \in Nat |-> IF i = j THEN c ELSE Zero]
           both == [i \in Nat |-> C_ADD(one[i], b[i])]
<1>0. j \in Nat /\ j < len /\ c \in Complex
  OBVIOUS
<1>1. ASSUME NEW X PROVE At(t, X) \in [Nat -> Complex]
  BY Constants DEF At
<1>2. a \in [Nat -> Complex] /\ b \in [Nat -> Complex]
  BY <1>1
<1>3. one \in [Nat -> Complex]
  BY <1>0, Constants
<1>4. ASSUME NEW i \in Nat PROVE a[i] = both[i]
  <2>1. a[i] = (IF i \in js THEN t[i] ELSE Zero) /\ b[i] = (IF i \in js \ {j} THEN t[i] ELSE Zero)
    BY DEF At
  <2>2. both[i] = C_ADD(one[i], b[i]) /\ one[i] = IF i = j THEN c ELSE Zero
    OBVIOUS
  <2>3. C_ADD(c, Zero) = c /\ C_ADD(Zero, t[i]) = t[i]
    BY <1>0, Neutral
  <2>4. C_ADD(Zero, Zero) = Zero
    BY Neutral, Constants
  <2> HIDE DEF a, b, one, both
  <2>5. CASE i = j
    BY <2>1, <2>2, <2>3, <2>5
  <2>6. CASE i # j
    BY <2>1, <2>2, <2>3, <2>4, <2>6
  <2> QED
    BY <2>5, <2>6
<1>5. both \in [Nat -> Complex]
  <2> HIDE DEF one, b
  <2> QED
    BY <1>2, <1>3, Closed
<1>6. Sum(a, len) = Sum(both, len)
  <2>1. \A i \in 0..(len - 1) : a[i] = both[i]
    BY <1>4
  <2> HIDE DEF a, both
  <2> QED
    BY <1>2, <1>5, <2>1, SumSame
<1>7. Sum(both, len) = C_ADD(Sum(one, len), Sum(b, len))
  <2> HIDE DEF one, b
  <2> QED
    BY <1>2, <1>3, SumAdds
<1>8. Sum(one, len) = c
  <2> HIDE DEF c
  <2> QED
    BY <1>0, SumOfOne
<1> QED
  BY <1>6, <1>7, <1>8

\* The definition in Coefficient is this sum.
LEMMA CoefficientIs ==
  ASSUME Tabulated, NEW k \in Nat
  PROVE  Coefficient(k) = Dft(0, 1, job.nfft, k)
<1> DEFINE len == job.nfft
           D == 0..(len - 1)
           f == PowersOf(Root)
           t == Spin(Input, k)
           Next(w, js) == IF js = {} THEN Cpx(0, 0)
                          ELSE LET j == CHOOSE x \in js : TRUE
                               IN  C_ADD(C_MUL(job.fin[j], Power(Root, (j * k) % job.nfft)), w[js \ {j}])
           Rec(w) == w = [js \in SUBSET (DOMAIN job.fin) |-> Next(w, js)]
           v == [js \in SUBSET D |-> Sum(At(t, js), len)]
           J == {j \in DOMAIN job.fin : job.fin[j] # Cpx(0, 0)}
<1>0. len \in Nat \ {0} /\ job.fin \in [D -> Complex] /\ DOMAIN job.fin = D
  BY TableIs, KissFftAssumption DEF Tabulated
<1>1. Coefficient(k) = (CHOOSE w : Rec(w))[J]
  BY DEF Coefficient
<1>2. t \in [Nat -> Complex] /\ \A j \in Nat : t[j] = C_MUL(Input[j], f[j * k])
  BY InputIs, SpinIs
<1> HIDE DEF t
<1>3. ASSUME NEW j \in D PROVE C_MUL(job.fin[j], Power(Root, (j * k) % len)) = t[j]
  <2>1. j \in Nat /\ j < len /\ j * k \in Nat
    BY <1>0
  <2>2. Input[j] = job.fin[j]
    BY <2>1 DEF Input
  <2> DEFINE jk == j * k
  <2>3. Power(Root, jk % len) = f[jk]
    <3>1. jk % len \in Nat
      <4> HIDE DEF jk
      <4> QED
        BY <1>0, <2>1, Euclid DEF jk
    <3>2. Root \in Complex /\ f[jk % len] = f[jk]
      <4> HIDE DEF jk
      <4> QED
        BY <2>1, TableIs DEF jk
    <3> HIDE DEF jk, len
    <3> QED
      BY <3>1, <3>2, PowerIs
  <2> QED
    BY <1>2, <2>1, <2>2, <2>3
<1> HIDE DEF len
<1>4. ASSUME NEW js \in SUBSET D PROVE v[js] = Next(v, js)
  <2>1. v[js] = Sum(At(t, js), len)
    OBVIOUS
  <2>2. CASE js = {}
    <3>1. At(t, js) \in [Nat -> Complex] /\ \A i \in 0..(len - 1) : At(t, js)[i] = Zero
      BY <2>2, Constants DEF At
    <3>2. Sum(At(t, js), len) = Zero
      BY <1>0, <3>1, SumOfZeros
    <3> QED
      BY <2>1, <2>2, <3>2 DEF Zero
  <2>3. CASE js # {}
    <3> DEFINE j == CHOOSE x \in js : TRUE
               rest == js \ {j}
    <3>1. j \in js /\ j \in D
      BY <2>3
    <3>2. Next(v, js) = C_ADD(C_MUL(job.fin[j], Power(Root, (j * k) % job.nfft)), v[rest])
      BY <2>3
    <3>3. rest \in SUBSET D
      OBVIOUS
    <3>4. v[rest] = Sum(At(t, rest), len)
      BY <3>3
    <3> HIDE DEF j, v, Next
    <3>5. Sum(At(t, js), len) = C_ADD(t[j], Sum(At(t, js \ {j}), len))
      <4>1. len \in Nat /\ js \in SUBSET (0..(len - 1)) /\ j \in js /\ t \in [Nat -> Complex]
        BY <1>0, <1>2, <3>1
      <4> QED
        BY <4>1, SumTakesOut, Zenon
    <3>6. C_MUL(job.fin[j], Power(Root, (j * k) % job.nfft)) = t[j]
      BY <1>3, <3>1 DEF len
    <3> QED
      BY <2>1, <3>2, <3>4, <3>5, <3>6
  <2> QED
    BY <2>2, <2>3
<1>5. Rec(v)
  <2>1. v = [js \in SUBSET (DOMAIN job.fin) |-> v[js]]
    BY <1>0
  <2> HIDE DEF v, Next
  <2> QED
    BY <1>0, <1>4, <2>1
<1> DEFINE w == CHOOSE w : Rec(w)
<1>6. Rec(w)
  <2> HIDE DEF Rec
  <2> QED
    BY <1>5, Zenon
<1> HIDE DEF w
<1>7. ASSUME NEW js \in SUBSET D PROVE w[js] = Next(w, js)
  <2> HIDE DEF Next
  <2> QED
    BY <1>0, <1>6
<1>8. ASSUME NEW js \in SUBSET D PROVE w[js] = v[js]
  <2> DEFINE Bad == {c \in Nat : \E X \in SUBSET D : Cardinality(X) = c /\ w[X] # v[X]}
  <2>0. \A X \in SUBSET D : IsFiniteSet(X) /\ Cardinality(X) \in Nat
    <3>1. IsFiniteSet(D)
      BY <1>0, FS_Interval
    <3> QED
      BY <3>1, FS_Subset, FS_CardinalityType
  <2>1. Bad = {}
    <3> SUFFICES ASSUME Bad # {} PROVE FALSE
      OBVIOUS
    <3>1. PICK c \in Bad : \A y \in Bad : c <= y
      <4>1. Bad \in SUBSET Nat
        OBVIOUS
      <4> HIDE DEF Bad
      <4> QED
        BY <4>1, LeastNatural
    <3>2. PICK X \in SUBSET D : Cardinality(X) = c /\ w[X] # v[X]
      OBVIOUS
    <3>3. w[X] = Next(w, X) /\ v[X] = Next(v, X)
      BY <1>4, <1>7
    <3>4. X # {}
      <4> HIDE DEF w, v
      <4> QED
        BY <3>2, <3>3
    <3> DEFINE j == CHOOSE x \in X : TRUE
               rest == X \ {j}
    <3>5. j \in X
      BY <3>4
    <3>6. rest \in SUBSET D /\ IsFiniteSet(X) /\ c \in Nat
      BY <2>0
    <3>7. Cardinality(rest) = c - 1
      <4> HIDE DEF j
      <4> QED
        BY <3>2, <3>5, <3>6, FS_RemoveElement
    <3>8. w[rest] = v[rest]
      <4>1. Cardinality(rest) \in Nat
        BY <2>0, <3>6
      <4>2. Cardinality(rest) \notin Bad
        <5> HIDE DEF Bad, rest
        <5> QED
          BY <3>1, <3>6, <3>7, <4>1
      <4> HIDE DEF rest, v
      <4> QED
        BY <3>6, <4>1, <4>2
    <3>9. Next(w, X) = Next(v, X)
      <4> HIDE DEF v
      <4> QED
        BY <3>4, <3>8
    <3> QED
      BY <3>2, <3>3, <3>9
  <2> HIDE DEF v
  <2> QED
    BY <2>0, <2>1
<1>9. J \in SUBSET D
  BY <1>0
<1>10. Coefficient(k) = Sum(At(t, J), len)
  <2>1. v[J] = Sum(At(t, J), len)
    BY <1>9
  <2> HIDE DEF v, J, Rec
  <2> QED
    BY <1>1, <1>8, <1>9, <2>1 DEF w
<1>11. ASSUME NEW i \in D PROVE At(t, J)[i] = t[i]
  <2>1. i \in Nat /\ i < len
    BY <1>0
  <2>2. At(t, J)[i] = IF i \in J THEN t[i] ELSE Zero
    BY <2>1 DEF At
  <2>3. CASE i \in J
    BY <2>2, <2>3
  <2>4. CASE i \notin J
    <3>1. Input[i] = Zero
      BY <1>0, <2>1, <2>4 DEF Input, Zero, len
    <3>2. f[i * k] \in Complex
      <4> DEFINE ik == i * k
      <4>1. ik \in Nat
        BY <2>1
      <4> HIDE DEF ik
      <4> QED
        BY <4>1, TableIs DEF ik
    <3> DEFINE c == f[i * k]
    <3> HIDE DEF c
    <3>3. C_MUL(Zero, c) = Zero
      BY <3>2, Neutral DEF c
    <3>4. t[i] = C_MUL(Input[i], c)
      BY <1>2, <2>1 DEF c
    <3> QED
      BY <2>2, <2>4, <3>1, <3>3, <3>4
  <2> QED
    BY <2>3, <2>4
<1>12. Sum(At(t, J), len) = Sum(t, len)
  <2>1. At(t, J) \in [Nat -> Complex]
    BY <1>2, Constants DEF At
  <2> HIDE DEF J
  <2> QED
    BY <1>0, <1>2, <1>11, <2>1, SumSame
<1>13. Dft(0, 1, len, k) = Sum(t, len)
  <2>1. Strided(0, 1) = Input
    <3>1. \A j \in Nat : Input[0 + j * 1] = Input[j]
      OBVIOUS
    <3>2. Input = [j \in Nat |-> Input[j]]
      BY DEF Input
    <3>3. Strided(0, 1) = [j \in Nat |-> Input[0 + j * 1]]
      BY DEF Strided
    <3> QED
      BY <3>1, <3>2, <3>3
  <2>2. 1 * k = k
    OBVIOUS
  <2> QED
    BY <2>1, <2>2 DEF Dft, t
<1> QED
  BY <1>10, <1>12, <1>13 DEF len

(***************************************************************************)
(* The invariant.                                                          *)
(***************************************************************************)

\* The transform of a given input does not change.
LEMMA CoefficientSame ==
  ASSUME NEW k, UNCHANGED job
  PROVE  Coefficient(k)' = Coefficient(k)
<1>1. Root' = Root
  BY DEF Root
<1> QED
  BY <1>1 DEF Coefficient

\* The table is filled as long as there is an input, and what kiss_fft has
\* left in fout is the transform of the input.
TableFilled ==
  stage # "alloc" /\ job.fin # none => twiddles = [j \in 0..(job.nfft - 1) |-> Power(Root, j)]

DftInv == FactorInv /\ TableFilled /\ ComputesDFT

\* kf_factor leaves kf_work the factors that its recursion needs.
LEMMA FactoredAtWork ==
  ASSUME FactorInv, stage = "work"
  PROVE  Factored
<1>1. factors \in Seq(Positive \X Positive) /\ factors # <<>> /\ n = 1
  BY DEF FactorInv, Chain, Staged
<1>2. Len(factors) \in Nat \ {0} /\ DOMAIN factors = 1..Len(factors)
  BY <1>1, LenProperties, EmptySeq
<1>3. ASSUME NEW k \in 1..Len(factors)
      PROVE  /\ factors[k][1] \in Nat \ {0} /\ factors[k][2] \in Nat \ {0}
             /\ factors[k][1] * factors[k][2] = IF k = 1 THEN job.nfft ELSE factors[k - 1][2]
  <2>1. factors[k] \in Positive \X Positive
    BY <1>1, <1>2, ElementOfSeq
  <2>2. factors[k][1] * factors[k][2] = IF k = 1 THEN job.nfft ELSE factors[k - 1][2]
    BY <1>2 DEF FactorInv, Chain
  <2> QED
    BY <2>1, <2>2 DEF Positive
<1>4. factors[Len(factors)][2] = 1
  BY <1>1 DEF FactorInv, Chain
<1> QED
  BY <1>2, <1>3, <1>4 DEF Factored

\* There is no output yet.
LEMMA DftInit == FftInit => DftInv
<1> SUFFICES ASSUME FftInit PROVE DftInv
  OBVIOUS
<1>1. FactorInv
  BY FactorInit
<1>2. stage = "alloc"
  BY DEF FftInit
<1> QED
  BY <1>1, <1>2 DEF DftInv, TableFilled, ComputesDFT

\* kiss_fft leaves the transform.
LEMMA TransformStep ==
  ASSUME DftInv, Transform
  PROVE  (TableFilled /\ ComputesDFT)'
<1>1. /\ FactorInv /\ stage = "work" /\ job.fin # none
      /\ job' = job /\ twiddles' = twiddles /\ fout' = Work[<<1, 0, 1>>] /\ stage' = "done"
  BY DEF DftInv, Transform
<1>2. job \in Jobs /\ twiddles = [j \in 0..(job.nfft - 1) |-> Power(Root, j)]
  BY <1>1 DEF DftInv, TableFilled, FactorInv
<1>3. Tabulated
  BY <1>1, <1>2 DEF Tabulated
<1>4. Root' = Root
  BY <1>1 DEF Root
<1>5. TableFilled'
  BY <1>1, <1>2, <1>4 DEF TableFilled
<1>6. ASSUME job.nfft <= INT_MAX \div 2 + 1, NEW k \in 1..job.nfft
      PROVE  fout'[k] = Coefficient(k - 1)'
  <2>1. Work[<<1, 0, 1>>] = Transformed(0, 1, job.nfft)
    BY <1>1, <1>3, <1>6, FactoredAtWork, WorkTransforms
  <2>2. k - 1 \in Nat
    BY <1>3, TableIs
  <2> DEFINE x == k - 1
  <2>3. fout'[k] = Dft(0, 1, job.nfft, x)
    BY <1>1, <2>1 DEF Transformed
  <2> HIDE DEF x
  <2>4. Coefficient(x) = Dft(0, 1, job.nfft, x)
    BY <1>3, <2>2, CoefficientIs DEF x
  <2>5. Coefficient(x)' = Coefficient(x)
    BY <1>1, CoefficientSame
  <2> QED
    BY <2>3, <2>4, <2>5 DEF x
<1>7. ComputesDFT'
  BY <1>1, <1>6 DEF ComputesDFT
<1> QED
  BY <1>5, <1>7

\* Every step keeps the invariant.
LEMMA DftStep ==
  ASSUME DftInv, [FftNext]_fftVars
  PROVE  DftInv'
<1>1. FactorInv'
  BY FactorElse, CandidateStep, SplitStep DEF FftNext, DftInv
<1>2. CASE Alloc
  <2>1. stage' = "factor" /\ job' = job
    BY <1>2 DEF Alloc
  <2>2. Root' = Root
    BY <2>1 DEF Root
  <2>3. TableFilled'
    BY <1>2, <2>1, <2>2 DEF Alloc, TableFilled
  <2> QED
    BY <1>1, <2>1, <2>3 DEF DftInv, ComputesDFT
<1>3. CASE TryNextRadix \/ SplitOff
  <2>1. stage = "factor" /\ stage' # "done" /\ job' = job /\ twiddles' = twiddles
    BY <1>3 DEF TryNextRadix, SplitOff
  <2>2. Root' = Root
    BY <2>1 DEF Root
  <2>3. TableFilled'
    BY <2>1, <2>2 DEF DftInv, TableFilled
  <2> QED
    BY <1>1, <2>1, <2>3 DEF DftInv, ComputesDFT
<1>4. CASE Transform
  BY <1>1, <1>4, TransformStep DEF DftInv
<1>5. CASE UNCHANGED fftVars
  <2>1. stage' = stage /\ job' = job /\ twiddles' = twiddles /\ fout' = fout
    BY <1>5 DEF fftVars
  <2>2. Root' = Root
    BY <2>1 DEF Root
  <2>3. TableFilled'
    BY <2>1, <2>2 DEF DftInv, TableFilled
  <2>4. \A k : Coefficient(k)' = Coefficient(k)
    BY <2>1, CoefficientSame
  <2>5. ComputesDFT'
    BY <2>1, <2>4 DEF DftInv, ComputesDFT
  <2> QED
    BY <1>1, <2>3, <2>5 DEF DftInv
<1> QED
  BY <1>2, <1>3, <1>4, <1>5 DEF FftNext

\* The invariant holds: factors, table and output.
THEOREM DftInvHolds == FftSpec => []DftInv
<1>1. DftInv /\ [FftNext]_fftVars => DftInv'
  BY DftStep
<1> QED
  BY <1>1, DftInit, PTL DEF FftSpec

\* kiss_fft computes the discrete Fourier transform of every input, of every
\* length up to 2^30, in both directions: the recursion of kf_work over the
\* factors that kf_factor found, and the butterfly of each radix.
THEOREM ComputesTheDFT == FftSpec => []ComputesDFT
<1>1. DftInv => ComputesDFT
  BY DEF DftInv
<1> QED
  BY <1>1, DftInvHolds, PTL
=============================================================================
