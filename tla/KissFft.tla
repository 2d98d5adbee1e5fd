------------------------------ MODULE KissFft ------------------------------
(***************************************************************************)
(* util/kiss_fft130/kiss_fft.c, the transform behind Frontend: the life of *)
(* one kiss_fft_cfg.  kiss_fft_alloc tabulates the twiddle factors and     *)
(* splits nfft into radices (kf_factor, one division per step here);       *)
(* kiss_fft runs kf_work on an input.                                      *)
(*                                                                         *)
(* The floats are replaced by the integers modulo a prime P, so that sums  *)
(* and products are exact and the algorithm can be compared with the       *)
(* definition of the transform.  With P % 4 = 3 the pairs [r, i] behave as *)
(* complex numbers (-1 has no square root), and for each n that divides    *)
(* P + 1 there are n-th roots of unity of length 1 among them, which stand *)
(* for the cosines and sines.  Rounding is left out.  The code without     *)
(* FIXED_POINT and _OPENMP is modelled, which is what the Makefile builds. *)
(***************************************************************************)
EXTENDS Integers, Sequences

CONSTANTS
  P,       \* the modulus
  Unit,    \* for each nfft that is transformed, exp(-2*pi*i/nfft)
  Jobs,    \* arguments [nfft, inverse, fin]; fin = none: no call of kiss_fft
  none

\* nfft is a C int, and what does not fit one wraps around.
INT_MAX == 2147483647
AsInt(x) == IF x > INT_MAX THEN x - 2 * (INT_MAX + 1) ELSE x

\* The factors array of a kiss_fft_cfg has 2 * MAXFACTORS elements.
MAXFACTORS == 32

VARIABLES
  job,       \* the arguments of kiss_fft_alloc and kiss_fft
  stage,     \* "alloc", "factor", "work", "done"
  twiddles,  \* st->twiddles, counted from 0; none before kiss_fft_alloc
  factors,   \* st->factors as pairs <<p, m>>
  p, n,      \* the locals of kf_factor
  fout       \* the output, counted from 1

fftVars == <<job, stage, twiddles, factors, p, n, fout>>

-----------------------------------------------------------------------------
(* Numbers, and the macros of _kiss_fft_guts.h. *)
Mod(x) == x % P
HALF_OF(x) == Mod(x * ((P + 1) \div 2))

Cpx(r, i) == [r |-> Mod(r), i |-> Mod(i)]
C_ADD(a, b) == Cpx(a.r + b.r, a.i + b.i)
C_SUB(a, b) == Cpx(a.r - b.r, a.i - b.i)
C_MUL(a, b) == Cpx(a.r * b.r - a.i * b.i, a.r * b.i + a.i * b.r)
C_MULBYSCALAR(a, s) == Cpx(a.r * s, a.i * s)

\* a + i * b and a - i * b, written out in parts by the butterflies.
PlusI(a, b)  == Cpx(a.r - b.i, a.i + b.r)
MinusI(a, b) == Cpx(a.r + b.i, a.i - b.r)

\* c to the j, by squaring, and the same sequence with its values at hand.
Power(c, j) ==
  LET pow[k \in Nat] ==
        IF k = 0 THEN Cpx(1, 0)
        ELSE LET half == pow[k \div 2]
                 square == C_MUL(half, half)
             IN  IF k % 2 = 0 THEN square ELSE C_MUL(square, c)
  IN  pow[j]
Evaluated(seq) == seq \o <<>>

\* The greatest d with d * d <= x.
FloorSqrt(x) == CHOOSE d \in 0..x : d * d <= x /\ x < (d + 1) * (d + 1)

\* kiss_fft_cpx
Complex == [r : 0..(P - 1), i : 0..(P - 1)]

\* What exp(-2*pi*i/nfft) is like, and what the butterflies of the radices
\* 2, 3 and 4 take for granted of it: a number of length 1 that is back at
\* 1 after nfft turns, at -1 half way and at -i after a quarter, and a third
\* of the way at the real part -1/2.
IsUnit(c, len) ==
  /\ c \in Complex
  /\ Mod(c.r * c.r + c.i * c.i) = Mod(1)
  /\ Power(c, len) = Cpx(1, 0)
  /\ len % 2 = 0 => Power(c, len \div 2) = Cpx(-1, 0)
  /\ len % 4 = 0 => Power(c, len \div 4) = Cpx(0, -1)
  /\ len % 3 = 0 => Mod(2 * Power(c, len \div 3).r) = Mod(-1)

ASSUME KissFftAssumption ==
  /\ P \in Nat /\ P % 4 = 3
  /\ \A len \in DOMAIN Unit : len \in Nat \ {0} /\ IsUnit(Unit[len], len)
  /\ \A j \in Jobs :
       /\ j.nfft \in 1..INT_MAX /\ j.inverse \in BOOLEAN
       /\ j.fin = none \/ (j.nfft \in DOMAIN Unit /\ j.fin \in [0..(j.nfft - 1) -> Complex])

-----------------------------------------------------------------------------
(* The butterflies.  Each takes the column x of the p values Fout[u],      *)
(* Fout[u + m], ... and gives their new values; tw(j) is the factor at     *)
(* index j of the table.                                                   *)
Tw(j) == twiddles[j]

Bfly2(x, fstride, u) ==
  LET t == C_MUL(x[2], Tw(u * fstride))
  IN  <<C_ADD(x[1], t), C_SUB(x[1], t)>>

\* Mutant of HalfTurn: the sign of the imaginary unit for both directions.
HalfTurnForward(a, b) == <<MinusI(a, b), PlusI(a, b)>>

\* The two branches on st->inverse.
HalfTurn(a, b) ==
  IF job.inverse THEN <<PlusI(a, b), MinusI(a, b)>> ELSE <<MinusI(a, b), PlusI(a, b)>>

Bfly4(x, fstride, u) ==
  LET s0 == C_MUL(x[2], Tw(u * fstride))
      s1 == C_MUL(x[3], Tw(u * fstride * 2))
      s2 == C_MUL(x[4], Tw(u * fstride * 3))
      s3 == C_ADD(s0, s2)
      f0 == C_ADD(x[1], s1)
      turned == HalfTurn(C_SUB(x[1], s1), C_SUB(s0, s2))
  IN  <<C_ADD(f0, s3), turned[1], C_SUB(f0, s3), turned[2]>>

Bfly3(x, fstride, m, u) ==
  LET epi3 == Tw(fstride * m)
      s1 == C_MUL(x[2], Tw(u * fstride))
      s2 == C_MUL(x[3], Tw(u * fstride * 2))
      s3 == C_ADD(s1, s2)
      s0 == C_MULBYSCALAR(C_SUB(s1, s2), epi3.i)
      f1 == Cpx(x[1].r - HALF_OF(s3.r), x[1].i - HALF_OF(s3.i))
  IN  <<C_ADD(x[1], s3), PlusI(f1, s0), MinusI(f1, s0)>>

Bfly5(x, fstride, m, u) ==
  LET ya == Tw(fstride * m)
      yb == Tw(fstride * 2 * m)
      s == [q \in 1..4 |-> C_MUL(x[q + 1], Tw(q * u * fstride))]
      s7 == C_ADD(s[1], s[4])   s10 == C_SUB(s[1], s[4])
      s8 == C_ADD(s[2], s[3])   s9  == C_SUB(s[2], s[3])
      s5 == C_ADD(x[1], Cpx(s7.r * ya.r + s8.r * yb.r, s7.i * ya.r + s8.i * yb.r))
      s6 == Cpx(s10.i * ya.i + s9.i * yb.i, -(s10.r * ya.i) - s9.r * yb.i)
      s11 == C_ADD(x[1], Cpx(s7.r * yb.r + s8.r * ya.r, s7.i * yb.r + s8.i * ya.r))
      s12 == Cpx(-(s10.i * yb.i) + s9.i * ya.i, s10.r * yb.i - s9.r * ya.i)
  IN  <<C_ADD(x[1], C_ADD(s7, s8)), C_SUB(s5, s6), C_ADD(s11, s12),
        C_SUB(s11, s12), C_ADD(s5, s6)>>

\* Mutant of Wrapped: no reduction of an index that runs over the table end.
Stuck(j) == IF j >= job.nfft THEN 0 ELSE j

\* if (twidx >= Norig) twidx -= Norig
Wrapped(j) == IF j >= job.nfft THEN j - job.nfft ELSE j

\* kf_bfly_generic: row q1 is the sum of scratch[q] times its factor.  The
\* index twidx is an int.
BflyGeneric(x, fstride, m, u) ==
  LET Row(k) ==
        LET sum[q \in 1..Len(x)] ==   \* <<twidx, Fout[k]>> after q summands
              IF q = 1 THEN <<0, x[1]>>
              ELSE LET before == sum[q - 1]
                       j == Wrapped(AsInt(before[1] + fstride * k))
                   IN  <<j, C_ADD(before[2], C_MUL(x[q], Tw(j)))>>
        IN  sum[Len(x)][2]
  IN  Evaluated([q1 \in 1..Len(x) |-> Row(u + (q1 - 1) * m)])

Bfly(x, fstride, m, u) ==
  CASE Len(x) = 2 -> Bfly2(x, fstride, u)
    [] Len(x) = 3 -> Bfly3(x, fstride, m, u)
    [] Len(x) = 4 -> Bfly4(x, fstride, u)
    [] Len(x) = 5 -> Bfly5(x, fstride, m, u)
    [] OTHER      -> BflyGeneric(x, fstride, m, u)

\* The switch at the end of kf_work: part q holds the transform of every
\* radix-th value, and the butterflies go over the columns of these parts.
Recombine(parts, fstride, m) ==
  LET radix == Len(parts)
      Column(u) == [q \in 1..radix |-> parts[q][u + 1]]
      columns == Evaluated([u \in 1..m |-> Bfly(Column(u - 1), fstride, m, u - 1)])
  IN  Evaluated([k \in 1..(radix * m) |->
                   columns[((k - 1) % m) + 1][((k - 1) \div m) + 1]])

\* A call of kf_work is <<level of the recursion, start, fstride>>, for the
\* part of the input that begins at fin[start] and takes every fstride-th.
Work[call \in (DOMAIN factors) \X Nat \X Nat] ==
  LET start   == call[2]
      fstride == call[3]
      radix   == factors[call[1]][1]
      m       == factors[call[1]][2]
      Part(q) == IF m = 1 THEN <<job.fin[start + q * fstride]>>
                 ELSE Work[<<call[1] + 1, start + q * fstride, fstride * radix>>]
  IN  Recombine(Evaluated([q \in 1..radix |-> Part(q - 1)]), fstride, m)

-----------------------------------------------------------------------------
FftInit ==
  /\ job \in Jobs
  /\ stage = "alloc"
  /\ twiddles = none
  /\ factors = <<>>
  /\ p = 4
  /\ n = job.nfft
  /\ fout = <<>>

\* The table of kiss_fft_alloc; the phase has the other sign for the inverse.
Root == IF job.inverse THEN Cpx(Unit[job.nfft].r, -Unit[job.nfft].i) ELSE Unit[job.nfft]

Alloc ==
  /\ stage = "alloc"
  /\ stage' = "factor"
  /\ twiddles' = IF job.fin = none THEN none
                 ELSE [j \in 0..(job.nfft - 1) |-> Power(Root, j)]
  /\ UNCHANGED <<job, factors, p, n, fout>>

\* Mutant of NextRadix: the root of nfft itself is skipped.
NextRadixEarly(q) == LET next == CASE q = 4 -> 2 [] q = 2 -> 3 [] OTHER -> q + 2
                     IN  IF next >= FloorSqrt(job.nfft) THEN n ELSE next

\* One turn of while (n % p); n that has no divisor up to the root of nfft
\* is a radix itself.
NextRadix(q) == LET next == CASE q = 4 -> 2 [] q = 2 -> 3 [] OTHER -> q + 2
                IN  IF next > FloorSqrt(job.nfft) THEN n ELSE next

TryNextRadix ==
  /\ stage = "factor" /\ n % p # 0
  /\ p' = NextRadix(p)
  /\ UNCHANGED <<job, stage, twiddles, factors, n, fout>>

SplitOff ==
  /\ stage = "factor" /\ n % p = 0
  /\ n' = n \div p
  /\ factors' = Append(factors, <<p, n'>>)
  /\ stage' = IF n' > 1 THEN "factor" ELSE "work"
  /\ UNCHANGED <<job, twiddles, p, fout>>

Transform ==
  /\ stage = "work" /\ job.fin # none
  /\ fout' = Work[<<1, 0, 1>>]
  /\ stage' = "done"
  /\ UNCHANGED <<job, twiddles, factors, p, n>>

FftNext == Alloc \/ TryNextRadix \/ SplitOff \/ Transform

FftSpec == FftInit /\ [][FftNext]_fftVars

-----------------------------------------------------------------------------
(* Properties. *)

Prime(q) == q > 1 /\ \A d \in 2..FloorSqrt(q) : q % d # 0

\* What kf_work needs of the factors, as the comment before kf_factor has
\* it: "p[i] * m[i] = m[i-1], m0 = n", and it must end with m = 1, where
\* kf_work ends its recursion.  They fit into the array, which kf_factor
\* does not check, and no factor that has a divisor is left to the generic
\* butterfly: the composite radices are 4 and, for a transform of one value,
\* 1.
FactorsCompose ==
  /\ Len(factors) <= MAXFACTORS
  /\ \A k \in DOMAIN factors :
       /\ factors[k][1] * factors[k][2] = IF k = 1 THEN job.nfft ELSE factors[k - 1][2]
       /\ factors[k][1] = 4 \/ Prime(factors[k][1]) \/ job.nfft = 1
  /\ stage \in {"work", "done"} => factors[Len(factors)][2] = 1

\* The definition of the transform at frequency k: the sum over the values
\* that are not 0 of fin[j] * root^(j * k).
Coefficient(k) ==
  LET sum[js \in SUBSET (DOMAIN job.fin)] ==
        IF js = {} THEN Cpx(0, 0)
        ELSE LET j == CHOOSE x \in js : TRUE
             IN  C_ADD(C_MUL(job.fin[j], Power(Root, (j * k) % job.nfft)), sum[js \ {j}])
  IN  sum[{j \in DOMAIN job.fin : job.fin[j] # Cpx(0, 0)}]

\* kiss_fft computes the transform: decimation, recursion, the butterflies
\* of each radix in each combination, both directions.  The butterflies are
\* linear, so for a length whose unit inputs are all in Jobs it holds of all
\* inputs of that length.  Beyond 2^30 twidx, the sum of two numbers below
\* nfft, may not fit an int.
ComputesDFT ==
  stage = "done" /\ job.nfft <= INT_MAX \div 2 + 1 =>
    \A k \in 1..job.nfft : fout[k] = Coefficient(k - 1)
=============================================================================
