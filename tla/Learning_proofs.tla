--------------------------- MODULE Learning_proofs ---------------------------
(***************************************************************************)
(* Proofs about Learning, for any threads, speeds, benchmarks left over in *)
(* memory, warm-up and NUMA period, whichever threads are active when.     *)
(* The model checker shows on a small instance what is proved here for     *)
(* every one.                                                              *)
(***************************************************************************)
EXTENDS Learning, WellFoundedInduction, TLAPS

\* The types of the variables that hold no fraction, and the bound on iterations
\* inside one.
CountsTyped ==
    /\ phase \in Phases /\ iter \in 0 .. MaxIter + 1 /\ active \in SUBSET Threads
    /\ performance \in [Threads -> Nat]
    /\ random_switch \in [Threads -> BOOLEAN] /\ action_change \in [Threads -> BOOLEAN]
    /\ slowest \in [Threads -> Speeds \cup {0}] /\ fastest \in [Threads -> Nat]
    /\ reached \in SUBSET Threads /\ late \in SUBSET Threads /\ steep \in BOOLEAN
    /\ active # {}
    /\ phase # "measure" => iter <= MaxIter

FractionsTyped ==
    /\ Fraction(step_size)
    /\ \A t \in Threads : /\ Fraction(run_average[t])
                          /\ Fraction(low_benchmark[t]) /\ Fraction(high_benchmark[t])
                          /\ Fraction(last[t]) /\ Fraction(best[t])

Between(lo, r, hi) == lo * r[2] <= r[1] /\ r[1] <= hi * r[2]

\* What was measured in this iteration lies within the thread's history.
MeasuredInv ==
    phase # "measure" =>
        \A t \in active : /\ performance[t] \in Speeds /\ slowest[t] \in Speeds
                         /\ slowest[t] <= performance[t]
                         /\ performance[t] <= fastest[t]

\* The average of a thread has followed its measurements: it has been measured,
\* and is not about to take the plain performance.
Settled(t) == slowest[t] # 0 /\ ~(phase = "preprocess" /\ t \in active /\ iter <= WarmUp)

\* An average is never negative and never above the history; that of a settled
\* thread that started in time is never below it.
AverageInv ==
    \A t \in Threads :
        /\ Between(0, run_average[t], fastest[t])
        /\ Settled(t) /\ t \notin late => Between(slowest[t], run_average[t], fastest[t])

\* A reached thread's low benchmark is 7/10 of the high one, which is attainable.
BandInv ==
    \A t \in reached : /\ Leq(high_benchmark[t], best[t])
                       /\ Leq(Times(10, 7, low_benchmark[t]), high_benchmark[t])

\* A switched thread's low benchmark is 19/20 of its run average of that turn.
SwitchInv ==
    \A t \in Threads : last[t] # Whole(0) /\ random_switch[t]
                       => low_benchmark[t] = LowFrom(last[t])

\* What holds until a step has left the range from 0 to 1.
FlatInv == FractionsTyped /\ StepWithin(step_size) /\ AverageInv /\ BandInv

LearnInv == CountsTyped /\ MeasuredInv /\ SwitchInv /\ (~steep => FlatInv)

-----------------------------------------------------------------------------
(* Fractions *)

\* Multiplying an inequality, and dividing one.
LEMMA Scale ==
    ASSUME NEW a \in Int, NEW b \in Int, NEW c \in Int
    PROVE  /\ c >= 0 /\ a <= b => a * c <= b * c
           /\ c > 0 /\ a * c <= b * c => a <= b
<1>1. ASSUME c >= 0, a <= b PROVE a * c <= b * c
  BY <1>1
<1>2. ASSUME c > 0, a * c <= b * c PROVE a <= b
  BY <1>2
<1> QED
  BY <1>1, <1>2

\* Reducing a fraction does not change its value.
LEMMA RatioValue ==
    ASSUME NEW n \in Int, NEW d \in Int, d > 0
    PROVE  /\ Fraction(Ratio(n, d))
           /\ Ratio(n, d)[1] * d = n * Ratio(n, d)[2]
<1> DEFINE g == Gcd[<<IF n < 0 THEN -n ELSE n, d>>]
<1> HIDE DEF g
<1>0. Ratio(n, d) = IF Exact(g, n, d) THEN <<n \div g, d \div g>> ELSE <<n, d>>
  BY DEF Ratio, g
<1>1. CASE ~Exact(g, n, d)
  BY <1>0, <1>1 DEF Fraction
<1>2. CASE Exact(g, n, d)
  <2>1. g \in Int /\ g > 0 /\ n % g = 0 /\ d % g = 0
    BY <1>2 DEF Exact
  <2> DEFINE x == n \div g
             y == d \div g
  <2>2. x \in Int /\ y \in Int /\ n = g * x + (n % g) /\ d = g * y + (d % g)
    BY <2>1
  <2>3. Ratio(n, d) = <<x, y>>
    BY <1>0, <1>2
  <2> HIDE DEF x, y
  <2>4. n = g * x /\ d = g * y
    BY <2>1, <2>2
  <2>5. y > 0
    BY <2>1, <2>2, <2>4
  <2>6. x * d = n * y
    BY <2>1, <2>2, <2>4
  <2> QED
    BY <2>2, <2>3, <2>5, <2>6 DEF Fraction
<1> QED
  BY <1>1, <1>2

LEMMA TimesValue ==
    ASSUME NEW k \in Int, NEW d \in Int, d > 0, NEW a, Fraction(a)
    PROVE  /\ Fraction(Times(k, d, a))
           /\ Times(k, d, a)[1] * (d * a[2]) = (k * a[1]) * Times(k, d, a)[2]
<1>1. a[1] \in Int /\ a[2] \in Int /\ a[2] > 0
  BY DEF Fraction
<1>2. k * a[1] \in Int /\ d * a[2] \in Int /\ d * a[2] > 0
  BY <1>1
<1> QED
  BY <1>2, RatioValue DEF Times

\* The order of fractions is total and transitive.
LEMMA LeqTransitive ==
    ASSUME NEW a, NEW b, NEW c, Fraction(a), Fraction(b), Fraction(c), Leq(a, b), Leq(b, c)
    PROVE  Leq(a, c)
<1>1. /\ a[1] \in Int /\ a[2] \in Int /\ b[1] \in Int /\ b[2] \in Int
      /\ c[1] \in Int /\ c[2] \in Int /\ a[2] > 0 /\ b[2] > 0 /\ c[2] > 0
  BY DEF Fraction
<1>2. (a[1] * b[2]) * c[2] <= (b[1] * a[2]) * c[2]
  BY <1>1, Scale DEF Leq
<1>3. (b[1] * c[2]) * a[2] <= (c[1] * b[2]) * a[2]
  BY <1>1, Scale DEF Leq
<1>4. (a[1] * c[2]) * b[2] <= (c[1] * a[2]) * b[2]
  BY <1>1, <1>2, <1>3
<1> QED
  BY <1>1, <1>4, Scale DEF Leq

LEMMA GreaterFacts ==
    ASSUME NEW a, NEW b, Fraction(a), Fraction(b)
    PROVE  /\ Fraction(Greater(a, b))
           /\ Leq(a, Greater(a, b)) /\ Leq(b, Greater(a, b)) /\ Leq(a, a)
<1>1. a[1] \in Int /\ a[2] \in Int /\ b[1] \in Int /\ b[2] \in Int
  BY DEF Fraction
<1>2. a[1] * b[2] \in Int /\ b[1] * a[2] \in Int /\ a[1] * a[2] \in Int
  BY <1>1
<1>3. Leq(a, b) \/ Leq(b, a)
  BY <1>2 DEF Leq
<1>4. Leq(a, a) /\ Leq(b, b)
  BY <1>1 DEF Leq
<1> QED
  BY <1>3, <1>4 DEF Greater

\* Multiplying by a positive constant keeps the order; by 19/20, lowers a positive
\* number; by 7/10 and then 10/7, changes nothing.
LEMMA TimesMonotone ==
    ASSUME NEW k \in Int, NEW d \in Int, k > 0, d > 0,
           NEW a, NEW b, Fraction(a), Fraction(b), Leq(a, b)
    PROVE  Leq(Times(k, d, a), Times(k, d, b))
<1> DEFINE A == Times(k, d, a)
           B == Times(k, d, b)
<1>1. /\ A[1] \in Int /\ A[2] \in Int /\ A[2] > 0 /\ B[1] \in Int /\ B[2] \in Int /\ B[2] > 0
      /\ A[1] * (d * a[2]) = (k * a[1]) * A[2] /\ B[1] * (d * b[2]) = (k * b[1]) * B[2]
  BY TimesValue DEF Fraction
<1>2. /\ a[1] \in Int /\ a[2] \in Int /\ a[2] > 0 /\ b[1] \in Int /\ b[2] \in Int /\ b[2] > 0
      /\ a[1] * b[2] <= b[1] * a[2]
  BY DEF Fraction, Leq
<1> HIDE DEF A, B
<1> DEFINE c == (d * k) * (A[2] * B[2])
           e == (d * a[2]) * (d * b[2])
<1>3. c \in Int /\ c >= 0
  <2>1. d * k \in Int /\ d * k > 0 /\ A[2] * B[2] \in Int /\ A[2] * B[2] > 0
    BY <1>1
  <2> QED
    BY <2>1
<1>4. e \in Int /\ e > 0
  <2>1. d * a[2] \in Int /\ d * a[2] > 0 /\ d * b[2] \in Int /\ d * b[2] > 0
    BY <1>2
  <2> QED
    BY <2>1
<1>5. (a[1] * b[2]) * c <= (b[1] * a[2]) * c
  <2>1. a[1] * b[2] \in Int /\ b[1] * a[2] \in Int
    BY <1>2
  <2> HIDE DEF c
  <2> QED
    BY <1>2, <1>3, <2>1, Scale
<1>6. (A[1] * B[2]) * e = (a[1] * b[2]) * c
  <2>1. (A[1] * B[2]) * e = (A[1] * (d * a[2])) * (B[2] * (d * b[2]))
    BY <1>1, <1>2
  <2>2. ((k * a[1]) * A[2]) * (B[2] * (d * b[2])) = (a[1] * b[2]) * c
    BY <1>1, <1>2
  <2> QED
    BY <1>1, <2>1, <2>2
<1>7. (B[1] * A[2]) * e = (b[1] * a[2]) * c
  <2>1. (B[1] * A[2]) * e = (B[1] * (d * b[2])) * (A[2] * (d * a[2]))
    BY <1>1, <1>2
  <2>2. ((k * b[1]) * B[2]) * (A[2] * (d * a[2])) = (b[1] * a[2]) * c
    BY <1>1, <1>2
  <2> QED
    BY <1>1, <2>1, <2>2
<1>8. (A[1] * B[2]) * e <= (B[1] * A[2]) * e
  BY <1>5, <1>6, <1>7
<1>9. A[1] * B[2] \in Int /\ B[1] * A[2] \in Int
  BY <1>1
<1>10. A[1] * B[2] <= B[1] * A[2]
  <2> HIDE DEF e
  <2> QED
    BY <1>4, <1>8, <1>9, Scale
<1> QED
  BY <1>10 DEF Leq, A, B

LEMMA TimesLower ==
    ASSUME NEW a, Fraction(a), a[1] >= 0 PROVE Leq(Times(19, 20, a), a)
<1> DEFINE A == Times(19, 20, a)
<1>1. /\ A[1] \in Int /\ A[2] \in Int /\ A[2] > 0 /\ a[1] \in Int /\ a[2] \in Int /\ a[2] > 0
      /\ A[1] * (20 * a[2]) = (19 * a[1]) * A[2]
  BY TimesValue DEF Fraction
<1> HIDE DEF A
<1>2. a[1] * A[2] >= 0 /\ a[1] * A[2] \in Int /\ A[1] * a[2] \in Int
  BY <1>1
<1>3. 20 * (A[1] * a[2]) = 19 * (a[1] * A[2])
  BY <1>1
<1>4. A[1] * a[2] <= a[1] * A[2]
  BY <1>2, <1>3
<1> QED
  BY <1>4 DEF Leq, A

LEMMA TimesBack ==
    ASSUME NEW a, Fraction(a) PROVE Leq(Times(10, 7, Times(7, 10, a)), a)
<1> DEFINE A == Times(7, 10, a)
           B == Times(10, 7, A)
<1>1. /\ A[1] \in Int /\ A[2] \in Int /\ A[2] > 0 /\ a[1] \in Int /\ a[2] \in Int /\ a[2] > 0
      /\ A[1] * (10 * a[2]) = (7 * a[1]) * A[2] /\ Fraction(A)
  BY TimesValue DEF Fraction
<1> HIDE DEF A
<1>2. B[1] \in Int /\ B[2] \in Int /\ B[2] > 0 /\ B[1] * (7 * A[2]) = (10 * A[1]) * B[2]
  BY <1>1, TimesValue DEF Fraction
<1> HIDE DEF B
<1>3. (7 * (B[1] * a[2])) * A[2] = (7 * (a[1] * B[2])) * A[2]
  <2>1. (7 * (B[1] * a[2])) * A[2] = (B[1] * (7 * A[2])) * a[2]
    BY <1>1, <1>2
  <2>2. ((10 * A[1]) * B[2]) * a[2] = (A[1] * (10 * a[2])) * B[2]
    BY <1>1, <1>2
  <2>3. ((7 * a[1]) * A[2]) * B[2] = (7 * (a[1] * B[2])) * A[2]
    BY <1>1, <1>2
  <2> QED
    BY <1>1, <1>2, <2>1, <2>2, <2>3
<1>4. B[1] * a[2] \in Int /\ a[1] * B[2] \in Int
  BY <1>1, <1>2
<1>5. 7 * (B[1] * a[2]) <= 7 * (a[1] * B[2])
  BY <1>1, <1>3, <1>4, Scale
<1>6. B[1] * a[2] <= a[1] * B[2]
  BY <1>4, <1>5
<1> QED
  BY <1>6 DEF Leq, A, B

-----------------------------------------------------------------------------
(* The running average and its step *)

\* A step between 0 and 1 from a number within bounds towards another stays there.
LEMMA SmoothedBetween ==
    ASSUME NEW r, NEW s, Fraction(r), Fraction(s), StepWithin(s),
           NEW p \in Nat, NEW lo \in Nat, NEW hi \in Nat, lo <= p, p <= hi,
           Between(lo, r, hi)
    PROVE  Fraction(Smoothed(r, s, p)) /\ Between(lo, Smoothed(r, s, p), hi)
<1> DEFINE n == r[1] * s[2] + s[1] * (p * r[2] - r[1])
           d == r[2] * s[2]
           q == Ratio(n, d)
<1>1. /\ r[1] \in Int /\ r[2] \in Int /\ r[2] > 0 /\ s[1] \in Int /\ s[2] \in Int /\ s[2] > 0
      /\ 0 < s[1] /\ s[1] <= s[2]
      /\ lo * r[2] <= r[1] /\ r[1] <= hi * r[2]
  BY DEF Fraction, StepWithin, Between
<1>2. /\ n \in Int /\ d \in Int /\ d > 0 /\ p * r[2] \in Int
      /\ lo * r[2] \in Int /\ hi * r[2] \in Int
  BY <1>1
<1>3. Fraction(q) /\ q[1] * d = n * q[2] /\ Smoothed(r, s, p) = q
  <2> HIDE DEF n, d
  <2>1. Fraction(q) /\ q[1] * d = n * q[2]
    BY <1>2, RatioValue
  <2> QED
    BY <2>1 DEF Smoothed, n, d
<1>4. q[1] \in Int /\ q[2] \in Int /\ q[2] > 0
  BY <1>3 DEF Fraction
<1> HIDE DEF q
<1> DEFINE u == s[2] - s[1]
<1>5. u \in Int /\ u >= 0 /\ n = r[1] * u + (p * r[2]) * s[1]
  BY <1>1
<1>6. lo * d <= n
  <2>1. (lo * r[2]) * u <= r[1] * u
    BY <1>1, <1>2, <1>5, Scale
  <2>2. lo * r[2] <= p * r[2]
    BY <1>1, Scale
  <2>3. (lo * r[2]) * s[1] <= (p * r[2]) * s[1]
    BY <1>1, <1>2, <2>2, Scale
  <2>4. lo * d = (lo * r[2]) * u + (lo * r[2]) * s[1]
    BY <1>1
  <2> HIDE DEF n, u
  <2>5. (lo * r[2]) * u \in Int /\ r[1] * u \in Int /\ (lo * r[2]) * s[1] \in Int
        /\ (p * r[2]) * s[1] \in Int
    BY <1>1, <1>2, <1>5
  <2> QED
    BY <1>5, <2>1, <2>3, <2>4, <2>5
<1>7. n <= hi * d
  <2>1. r[1] * u <= (hi * r[2]) * u
    BY <1>1, <1>2, <1>5, Scale
  <2>2. p * r[2] <= hi * r[2]
    BY <1>1, Scale
  <2>3. (p * r[2]) * s[1] <= (hi * r[2]) * s[1]
    BY <1>1, <1>2, <2>2, Scale
  <2>4. hi * d = (hi * r[2]) * u + (hi * r[2]) * s[1]
    BY <1>1
  <2> HIDE DEF n, u
  <2>5. (hi * r[2]) * u \in Int /\ r[1] * u \in Int /\ (hi * r[2]) * s[1] \in Int
        /\ (p * r[2]) * s[1] \in Int
    BY <1>1, <1>2, <1>5
  <2> QED
    BY <1>5, <2>1, <2>3, <2>4, <2>5
<1> HIDE DEF n, d, u
<1>8. lo * q[2] <= q[1]
  <2>1. (lo * d) * q[2] <= n * q[2]
    BY <1>2, <1>4, <1>6, Scale
  <2>2. (lo * q[2]) * d <= q[1] * d
    BY <1>2, <1>3, <1>4, <2>1
  <2>3. lo * q[2] \in Int
    BY <1>4
  <2> QED
    BY <1>2, <1>4, <2>2, <2>3, Scale
<1>9. q[1] <= hi * q[2]
  <2>1. n * q[2] <= (hi * d) * q[2]
    BY <1>2, <1>4, <1>7, Scale
  <2>2. q[1] * d <= (hi * q[2]) * d
    BY <1>2, <1>3, <1>4, <2>1
  <2>3. hi * q[2] \in Int
    BY <1>4
  <2> QED
    BY <1>2, <1>4, <2>2, <2>3, Scale
<1> QED
  BY <1>3, <1>8, <1>9 DEF Between

\* The step from an average that is not below Gain is between 0 and 1.
LEMMA StepOfWithin ==
    ASSUME NEW r, Fraction(r), Gain * r[2] <= r[1]
    PROVE  Fraction(StepOf(r)) /\ StepWithin(StepOf(r))
<1> DEFINE n == Gain * r[2]
           q == Ratio(n, r[1])
<1>1. Gain \in Int /\ Gain > 0 /\ r[1] \in Int /\ r[2] \in Int /\ r[2] > 0
  BY LearningAssumption DEF Fraction
<1>2. n \in Int /\ n > 0 /\ r[1] > 0 /\ n <= r[1]
  BY <1>1
<1>3. StepOf(r) = q
  BY <1>1, <1>2 DEF StepOf
<1> HIDE DEF n
<1>4. Fraction(q) /\ q[1] * r[1] = n * q[2]
  BY <1>1, <1>2, RatioValue
<1>5. q[1] \in Int /\ q[2] \in Int /\ q[2] > 0
  BY <1>4 DEF Fraction
<1> HIDE DEF q
<1>6. n * q[2] > 0 /\ n * q[2] <= r[1] * q[2]
  BY <1>1, <1>2, <1>5, Scale
<1>7. q[1] > 0
  BY <1>1, <1>2, <1>4, <1>5, <1>6
<1>8. q[1] <= q[2]
  <2>1. q[1] * r[1] <= q[2] * r[1]
    BY <1>1, <1>4, <1>5, <1>6
  <2> QED
    BY <1>1, <1>2, <1>5, <2>1, Scale
<1> QED
  BY <1>3, <1>4, <1>7, <1>8 DEF StepWithin

\* A step between 0 and 1 is a fraction: it was not computed from an average of 0.
LEMMA StepOfTyped ==
    ASSUME NEW r, Fraction(r), StepWithin(StepOf(r)) PROVE Fraction(StepOf(r))
<1> DEFINE n == Gain * r[2]
<1>1. /\ Gain \in Int /\ Gain > 0 /\ r[1] \in Int /\ r[2] \in Int /\ r[2] > 0
      /\ n \in Int /\ n > 0 /\ -Gain * r[2] \in Int
  BY LearningAssumption DEF Fraction
<1> HIDE DEF n
<1>2. CASE r[1] > 0
  BY <1>1, <1>2, RatioValue DEF StepOf, n
<1>3. CASE r[1] < 0
  BY <1>1, <1>3, RatioValue DEF StepOf
<1>4. CASE r[1] = 0
  <2>1. StepOf(r) = <<n, 0>>
    BY <1>1, <1>4 DEF StepOf, Ratio, Exact, n
  <2> QED
    BY <1>1, <2>1 DEF StepWithin
<1> QED
  BY <1>1, <1>2, <1>3, <1>4

\* There is a last active thread.
LEMMA LastActiveExists ==
    ASSUME active \in SUBSET Threads, active # {} PROVE LastActive \in active
<1> DEFINE S == {NumThreads - t : t \in active}
<1>1. S \subseteq Nat /\ S # {}
  <2>1. \A t \in active : NumThreads - t \in Nat
    BY LearningAssumption DEF Threads
  <2> QED
    BY <2>1
<1>2. PICK x \in S : \A y \in S : ~ (<<y, x>> \in OpToRel(<, Nat))
  BY <1>1, NatLessThanWellFounded, WFMin
<1>3. PICK t \in active : x = NumThreads - t
  BY <1>2
<1>4. \A u \in active : u <= t
  <2> TAKE u \in active
  <2>1. NumThreads - u \in S
    OBVIOUS
  <2>2. ~ (NumThreads - u < x)
    BY <1>1, <1>2, <2>1 DEF OpToRel
  <2> QED
    BY <1>3, <2>2, LearningAssumption DEF Threads
<1>5. \E v \in active : \A u \in active : u <= v
  BY <1>4
<1> QED
  BY <1>5 DEF LastActive

-----------------------------------------------------------------------------
(* Each action preserves the invariant. *)

LEMMA ConstantFacts ==
    /\ NumThreads \in Nat /\ NumThreads # 0 /\ 0 \in Threads
    /\ \A s \in Speeds : s \in Nat /\ s > 0
    /\ Gain \in Nat /\ WarmUp \in Nat /\ MaxIter \in Nat
BY LearningAssumption DEF Threads

\* Whole numbers are fractions.
LEMMA WholeFraction == \A n \in Int : Fraction(Whole(n))
BY DEF Fraction, Whole

LEMMA InitLearn == Init => LearnInv
<1> SUFFICES ASSUME Init PROVE LearnInv
  OBVIOUS
<1>1. CountsTyped
  <2>1. random_switch \in [Threads -> BOOLEAN] /\ action_change \in [Threads -> BOOLEAN]
    BY DEF Init
  <2>2. /\ performance \in [Threads -> Nat] /\ slowest \in [Threads -> Speeds \cup {0}]
        /\ fastest \in [Threads -> Nat]
    BY DEF Init
  <2>3. iter \in 0 .. MaxIter + 1 /\ active # {} /\ phase = "measure"
    BY ConstantFacts DEF Init
  <2> QED
    BY <2>1, <2>2, <2>3 DEF Init, CountsTyped, Phases
<1>2. FractionsTyped
  <2>1. PICK low \in Garbage, high \in Garbage :
            /\ low_benchmark = [t \in Threads |-> Whole(low)]
            /\ high_benchmark = [t \in Threads |-> Whole(high)]
    BY DEF Init
  <2>2. low \in Int /\ high \in Int
    BY LearningAssumption
  <2>3. \A t \in Threads : /\ Fraction(run_average[t])
                           /\ Fraction(low_benchmark[t]) /\ Fraction(high_benchmark[t])
                           /\ Fraction(last[t]) /\ Fraction(best[t])
    BY <2>1, <2>2, WholeFraction DEF Init
  <2>4. Fraction(step_size)
    BY DEF Init, Fraction
  <2> QED
    BY <2>3, <2>4 DEF FractionsTyped
<1>3. AverageInv
  BY DEF Init, AverageInv, Settled, Between, Whole
<1>4. MeasuredInv /\ SwitchInv /\ StepWithin(step_size) /\ BandInv
  BY DEF Init, MeasuredInv, SwitchInv, StepWithin, BandInv
<1> QED
  BY <1>1, <1>2, <1>3, <1>4 DEF LearnInv, FlatInv

\* A measurement widens the history of its thread to hold it.
LEMMA MeasureStep == LearnInv /\ Measure => LearnInv'
<1> SUFFICES ASSUME LearnInv, Measure PROVE LearnInv'
  OBVIOUS
<1>0. CountsTyped /\ SwitchInv
  BY DEF LearnInv
<1>1. /\ phase = "measure" /\ iter <= MaxIter /\ phase' = "preprocess"
      /\ active' \in (SUBSET Threads) \ {{}}
      /\ late' = late \cup {t \in active' : iter > WarmUp /\ slowest[t] = 0}
      /\ UNCHANGED <<iter, run_average, step_size, low_benchmark, high_benchmark,
                     random_switch, action_change, last, best, reached, steep>>
  BY DEF Measure, alVars, alHistory
<1>2. PICK p \in [active' -> Speeds] :
          /\ performance' = [t \in Threads |-> IF t \in active' THEN p[t] ELSE 0]
          /\ slowest' = [t \in Threads |->
                            IF t \in active' THEN Slowest(t, p[t]) ELSE slowest[t]]
          /\ fastest' = [t \in Threads |->
                            IF t \in active' THEN Fastest(t, p[t]) ELSE fastest[t]]
  BY DEF Measure
<1>3. iter \in Nat /\ WarmUp \in Nat
  BY <1>0, ConstantFacts DEF CountsTyped
<1>4. \A t \in active' : p[t] \in Speeds /\ p[t] \in Nat /\ p[t] > 0 /\ t \in Threads
  BY <1>1, ConstantFacts
<1>5. \A t \in active' :
          /\ performance'[t] = p[t]
          /\ slowest'[t] \in Speeds /\ fastest'[t] \in Nat
          /\ slowest'[t] <= p[t] /\ p[t] <= fastest'[t]
          /\ slowest[t] # 0 => slowest'[t] <= slowest[t]
          /\ fastest[t] <= fastest'[t]
  <2>1. \A t \in active' : slowest[t] \in Nat /\ fastest[t] \in Nat
    BY <1>0, <1>4, ConstantFacts DEF CountsTyped
  <2> QED
    BY <1>0, <1>2, <1>4, <2>1 DEF CountsTyped, Slowest, Fastest
<1>6. \A t \in Threads \ active' : slowest'[t] = slowest[t] /\ fastest'[t] = fastest[t]
  BY <1>2
<1>7. CountsTyped'
  <2>1. performance' \in [Threads -> Nat]
    BY <1>2, <1>4
  <2>2. slowest' \in [Threads -> Speeds \cup {0}] /\ fastest' \in [Threads -> Nat]
    <3>1. \A t \in Threads : slowest'[t] \in Speeds \cup {0} /\ fastest'[t] \in Nat
      BY <1>0, <1>5, <1>6 DEF CountsTyped
    <3> QED
      BY <1>2, <3>1
  <2>3. late' \in SUBSET Threads
    BY <1>0, <1>1 DEF CountsTyped
  <2> QED
    BY <1>0, <1>1, <2>1, <2>2, <2>3 DEF CountsTyped, Phases
<1>8. MeasuredInv'
  BY <1>1, <1>4, <1>5 DEF MeasuredInv
<1>9. SwitchInv'
  BY <1>0, <1>1 DEF SwitchInv, LowFrom, Times, Whole
<1>10. ASSUME ~steep' PROVE FlatInv'
  <2>1. FractionsTyped /\ StepWithin(step_size) /\ AverageInv /\ BandInv
    BY <1>1, <1>10 DEF LearnInv, FlatInv
  <2>2. FractionsTyped' /\ StepWithin(step_size)' /\ BandInv'
    BY <1>1, <2>1 DEF FractionsTyped, StepWithin, BandInv, Leq, Times
  <2>3. ASSUME NEW t \in Threads
        PROVE  /\ Between(0, run_average'[t], fastest'[t])
               /\ Settled(t)' /\ t \notin late' => Between(slowest'[t], run_average'[t], fastest'[t])
    <3>1. /\ slowest[t] \in Nat /\ slowest'[t] \in Nat
          /\ fastest[t] \in Nat /\ fastest'[t] \in Nat
          /\ fastest[t] <= fastest'[t]
      BY <1>0, <1>5, <1>6, <1>7, ConstantFacts DEF CountsTyped
    <3>2. run_average[t][1] \in Int /\ run_average[t][2] \in Int /\ run_average[t][2] > 0
      BY <2>1 DEF FractionsTyped, Fraction
    <3>3. fastest[t] * run_average[t][2] <= fastest'[t] * run_average[t][2]
      BY <3>1, <3>2, Scale
    <3>4. /\ fastest[t] * run_average[t][2] \in Int /\ fastest'[t] * run_average[t][2] \in Int
          /\ slowest[t] * run_average[t][2] \in Int /\ slowest'[t] * run_average[t][2] \in Int
      BY <3>1, <3>2
    <3>5. Between(0, run_average[t], fastest'[t])
      BY <2>1, <3>2, <3>3, <3>4 DEF AverageInv, Between
    <3>6. ASSUME Settled(t)', t \notin late'
          PROVE  Between(slowest'[t], run_average[t], fastest'[t])
      <4>1. slowest[t] # 0 /\ t \notin late
        BY <1>1, <1>3, <1>6, <3>6 DEF Settled
      <4>2. Between(slowest[t], run_average[t], fastest[t])
        BY <1>1, <2>1, <4>1 DEF AverageInv, Settled
      <4>3. slowest'[t] <= slowest[t]
        BY <1>5, <1>6, <3>1, <4>1
      <4>4. slowest'[t] * run_average[t][2] <= slowest[t] * run_average[t][2]
        BY <3>1, <3>2, <4>3, Scale
      <4> QED
        BY <3>2, <3>3, <3>4, <4>2, <4>4 DEF Between
    <3> QED
      BY <1>1, <3>5, <3>6
  <2>4. AverageInv'
    BY <2>3 DEF AverageInv
  <2> QED
    BY <2>2, <2>4 DEF FlatInv
<1> QED
  BY <1>7, <1>8, <1>9, <1>10 DEF LearnInv

\* An average follows a measurement of its thread's history by a step of at most 1.
LEMMA PreprocessStep == LearnInv /\ Preprocess => LearnInv'
<1> SUFFICES ASSUME LearnInv, Preprocess PROVE LearnInv'
  OBVIOUS
<1>0. CountsTyped /\ MeasuredInv /\ SwitchInv
  BY DEF LearnInv
<1>1. /\ phase = "preprocess" /\ phase' = "estimate"
      /\ run_average' = [t \in Threads |->
                            IF t \in active THEN Averaged(t) ELSE run_average[t]]
      /\ UNCHANGED <<iter, active, performance, step_size, low_benchmark, high_benchmark,
                     random_switch, action_change, slowest, fastest, last, best, reached,
                     late, steep>>
  BY DEF Preprocess, alVars, alHistory
<1>2. iter \in Nat /\ WarmUp \in Nat
  BY <1>0, ConstantFacts DEF CountsTyped
<1>3. CountsTyped' /\ MeasuredInv'
  BY <1>0, <1>1 DEF CountsTyped, MeasuredInv, Phases
<1>4. SwitchInv'
  BY <1>0, <1>1 DEF SwitchInv, LowFrom, Times, Whole
<1>5. ASSUME ~steep' PROVE FlatInv'
  <2>1. FractionsTyped /\ StepWithin(step_size) /\ AverageInv /\ BandInv
    BY <1>1, <1>5 DEF LearnInv, FlatInv
  <2>2. ASSUME NEW t \in Threads
        PROVE  /\ Fraction(run_average'[t])
               /\ Between(0, run_average'[t], fastest[t])
               /\ slowest[t] # 0 /\ t \notin late => Between(slowest[t], run_average'[t], fastest[t])
    <3>1. /\ slowest[t] \in Nat /\ fastest[t] \in Nat /\ performance[t] \in Nat
          /\ Fraction(run_average[t]) /\ Fraction(step_size)
          /\ Between(0, run_average[t], fastest[t])
      BY <1>0, <2>1, ConstantFacts DEF CountsTyped, FractionsTyped, AverageInv
    <3>2. t \in active => slowest[t] <= performance[t] /\ performance[t] <= fastest[t]
      BY <1>0, <1>1 DEF MeasuredInv
    <3>3. CASE t \in active /\ iter > WarmUp
      <4>1. run_average'[t] = Smoothed(run_average[t], step_size, performance[t])
        BY <1>1, <3>3 DEF Averaged
      <4>2. Fraction(run_average'[t]) /\ Between(0, run_average'[t], fastest[t])
        BY <2>1, <3>1, <3>2, <3>3, <4>1, SmoothedBetween
      <4>3. ASSUME slowest[t] # 0, t \notin late
            PROVE  Between(slowest[t], run_average'[t], fastest[t])
        <5>1. Between(slowest[t], run_average[t], fastest[t])
          BY <1>2, <2>1, <3>3, <4>3 DEF AverageInv, Settled
        <5> QED
          BY <2>1, <3>1, <3>2, <3>3, <4>1, <5>1, SmoothedBetween
      <4> QED
        BY <4>2, <4>3
    <3>4. CASE t \in active /\ ~ (iter > WarmUp)
      <4>1. run_average'[t] = <<performance[t], 1>>
        BY <1>1, <3>4 DEF Averaged, Whole
      <4> QED
        BY <3>1, <3>2, <3>4, <4>1 DEF Fraction, Between
    <3>5. CASE t \notin active
      BY <1>1, <2>1, <3>1, <3>5 DEF AverageInv, Settled
    <3> QED
      BY <3>3, <3>4, <3>5
  <2>3. FractionsTyped' /\ StepWithin(step_size)' /\ BandInv'
    BY <1>1, <2>1, <2>2 DEF FractionsTyped, StepWithin, BandInv, Leq, Times
  <2>4. AverageInv'
    BY <1>1, <2>2 DEF AverageInv, Settled
  <2> QED
    BY <2>3, <2>4 DEF FlatInv
<1> QED
  BY <1>3, <1>4, <1>5 DEF LearnInv

\* Where the benchmarks of a thread are in a NUMA turn, if they were where they
\* belong before: the case of a switch is the one that needs a positive average.
LEMMA BenchmarksKept ==
    ASSUME CountsTyped, FlatInv, NEW t \in Threads, t \in reached \/ Content(t)
    PROVE  LET high == Benchmarks(t).high
               low == Benchmarks(t).low
           IN  /\ Fraction(high) /\ Fraction(low)
               /\ Leq(high, Greater(best[t], run_average[t]))
               /\ Leq(Times(10, 7, low), high)
<1> DEFINE r == run_average[t]
<1>1. /\ Fraction(r) /\ Fraction(low_benchmark[t]) /\ Fraction(high_benchmark[t])
      /\ Fraction(best[t])
  BY DEF FlatInv, FractionsTyped
<1>2. r[1] >= 0
  <2>1. 0 * r[2] <= r[1]
    BY DEF FlatInv, AverageInv, Between
  <2>2. r[1] \in Int /\ r[2] \in Int
    BY <1>1 DEF Fraction
  <2> QED
    BY <2>1, <2>2
<1> HIDE DEF r
<1>3. /\ Fraction(Greater(best[t], r)) /\ Leq(best[t], Greater(best[t], r))
      /\ Leq(r, Greater(best[t], r))
  BY <1>1, GreaterFacts
<1>4. CASE Content(t)
  <2>1. Benchmarks(t).high = r /\ Benchmarks(t).low = Times(7, 10, r)
    BY <1>4 DEF Benchmarks, HighFrom, LowOf, r
  <2>2. Fraction(Times(7, 10, r))
    <3>1. \A a : Fraction(a) => Fraction(Times(7, 10, a))
      BY TimesValue
    <3> QED
      BY <1>1, <3>1
  <2> QED
    BY <1>1, <1>3, <2>1, <2>2, TimesBack DEF r
<1>5. CASE t \in reached /\ Poor(t)
  <2> DEFINE l == Times(19, 20, r)
             h == Times(10, 7, l)
  <2>1. Benchmarks(t).low = l /\ Benchmarks(t).high = h
    BY <1>5 DEF Benchmarks, Poor, LowFrom, HighOf, r
  <2>2. Fraction(l)
    BY <1>1, TimesValue
  <2>3. Leq(l, r)
    BY <1>1, <1>2, TimesLower
  <2>4. Leq(r, low_benchmark[t])
    BY <1>5 DEF Poor, r
  <2> HIDE DEF l
  <2>5. Leq(l, low_benchmark[t])
    BY <1>1, <2>2, <2>3, <2>4, LeqTransitive
  <2>6. Leq(h, Times(10, 7, low_benchmark[t]))
    BY <1>1, <2>2, <2>5, TimesMonotone
  <2>7. /\ Leq(Times(10, 7, low_benchmark[t]), high_benchmark[t])
        /\ Leq(high_benchmark[t], best[t])
    BY <1>5 DEF FlatInv, BandInv
  <2>8. Fraction(h) /\ Fraction(Times(10, 7, low_benchmark[t])) /\ Leq(h, h)
    <3>1. Fraction(h) /\ Fraction(Times(10, 7, low_benchmark[t]))
      BY <1>1, <2>2, TimesValue
    <3> HIDE DEF h
    <3> QED
      BY <3>1, GreaterFacts
  <2> HIDE DEF h
  <2>9. Leq(h, high_benchmark[t])
    BY <1>1, <2>6, <2>7, <2>8, LeqTransitive
  <2>10. Leq(h, best[t])
    BY <1>1, <2>7, <2>8, <2>9, LeqTransitive
  <2>11. Leq(h, Greater(best[t], r))
    BY <1>1, <1>3, <2>8, <2>10, LeqTransitive
  <2> QED
    BY <2>1, <2>2, <2>8, <2>11 DEF r, h
<1>6. CASE t \in reached /\ ~Content(t) /\ ~Poor(t)
  <2>1. Benchmarks(t).high = high_benchmark[t] /\ Benchmarks(t).low = low_benchmark[t]
    BY <1>6 DEF Benchmarks
  <2>2. /\ Leq(Times(10, 7, low_benchmark[t]), high_benchmark[t])
        /\ Leq(high_benchmark[t], best[t])
    BY <1>6 DEF FlatInv, BandInv
  <2>3. Leq(high_benchmark[t], Greater(best[t], r))
    BY <1>1, <1>3, <2>2, LeqTransitive
  <2> QED
    BY <1>1, <2>1, <2>2, <2>3 DEF r
<1> QED
  BY <1>4, <1>5, <1>6

LEMMA BenchmarksTyped ==
    ASSUME FractionsTyped, NEW t \in Threads
    PROVE  Fraction(Benchmarks(t).low) /\ Fraction(Benchmarks(t).high)
<1>1. /\ Fraction(run_average[t]) /\ Fraction(low_benchmark[t])
      /\ Fraction(high_benchmark[t])
  BY DEF FractionsTyped
<1>2. Fraction(Times(7, 10, run_average[t])) /\ Fraction(Times(19, 20, run_average[t]))
  BY <1>1, TimesValue
<1>3. Fraction(Times(10, 7, Times(19, 20, run_average[t])))
  <2> DEFINE l == Times(19, 20, run_average[t])
  <2> HIDE DEF l
  <2>1. Fraction(l) => Fraction(Times(10, 7, l))
    BY TimesValue
  <2> QED
    BY <1>2, <2>1 DEF l
<1> QED
  BY <1>1, <1>2, <1>3 DEF Benchmarks, HighFrom, LowFrom, LowOf, HighOf

\* The benchmarks of a thread move only in a turn of its own.
LEMMA EstimateStep == LearnInv /\ Estimate => LearnInv'
<1> SUFFICES ASSUME LearnInv, Estimate PROVE LearnInv'
  OBVIOUS
<1>0. CountsTyped /\ MeasuredInv /\ SwitchInv
  BY DEF LearnInv
<1>1. /\ phase = "estimate" /\ phase' = "measure" /\ iter' = iter + 1
      /\ UNCHANGED <<active, performance, run_average, slowest, fastest, late>>
      /\ step_size' = StepOf(run_average[LastActive])
      /\ steep' = (steep \/ ~StepWithin(step_size'))
      /\ reached' = reached \cup {t \in Threads : Turn(t) /\ Content(t)}
  BY DEF Estimate
<1>2. /\ low_benchmark' = [t \in Threads |->
                              IF Turn(t) THEN Benchmarks(t).low ELSE low_benchmark[t]]
      /\ high_benchmark' = [t \in Threads |->
                               IF Turn(t) THEN Benchmarks(t).high ELSE high_benchmark[t]]
      /\ random_switch' = [t \in Threads |-> IF Turn(t) THEN Poor(t) ELSE random_switch[t]]
      /\ action_change' = [t \in Threads |->
                              IF Turn(t) THEN ~Content(t) ELSE action_change[t]]
      /\ last' = [t \in Threads |-> IF Turn(t) THEN run_average[t] ELSE last[t]]
      /\ best' = [t \in Threads |->
                     IF Turn(t) THEN Greater(best[t], run_average[t]) ELSE best[t]]
  BY DEF Estimate
<1>3. iter \in Nat /\ iter <= MaxIter /\ MaxIter \in Nat
  BY <1>0, <1>1, ConstantFacts DEF CountsTyped
<1>4. CountsTyped'
  <2>1. iter' \in 0 .. MaxIter + 1 /\ phase' \in Phases
    BY <1>1, <1>3 DEF Phases
  <2>2. random_switch' \in [Threads -> BOOLEAN] /\ action_change' \in [Threads -> BOOLEAN]
    <3>1. \A t \in Threads : random_switch[t] \in BOOLEAN /\ action_change[t] \in BOOLEAN
      BY <1>0 DEF CountsTyped
    <3>2. \A t \in Threads : Poor(t) \in BOOLEAN /\ (~Content(t)) \in BOOLEAN
      BY Zenon DEF Poor
    <3> QED
      BY <1>2, <3>1, <3>2
  <2>3. steep' \in BOOLEAN
    BY <1>1, Zenon
  <2>4. reached' \in SUBSET Threads
    BY <1>0, <1>1 DEF CountsTyped
  <2> QED
    BY <1>0, <1>1, <2>1, <2>2, <2>3, <2>4 DEF CountsTyped
<1>5. MeasuredInv'
  BY <1>1 DEF MeasuredInv
<1>6. SwitchInv'
  <2> SUFFICES ASSUME NEW t \in Threads, last'[t] # Whole(0), random_switch'[t]
               PROVE  low_benchmark'[t] = LowFrom(last'[t])
    BY DEF SwitchInv, LowFrom, Times, Whole
  <2>1. CASE Turn(t)
    <3>1. Poor(t)
      BY <1>2, <2>1
    <3> QED
      BY <1>2, <2>1, <3>1 DEF Poor, Benchmarks
  <2>2. CASE ~Turn(t)
    BY <1>0, <1>2, <2>2 DEF SwitchInv
  <2> QED
    BY <2>1, <2>2
<1>7. ASSUME ~steep' PROVE FlatInv'
  <2>1. FlatInv /\ FractionsTyped /\ AverageInv /\ BandInv
    BY <1>1, <1>7 DEF LearnInv, FlatInv
  <2>2. Fraction(step_size') /\ StepWithin(step_size')
    <3>1. PICK t \in Threads : t = LastActive
      BY <1>0, LastActiveExists DEF CountsTyped
    <3>2. Fraction(run_average[t]) /\ StepWithin(StepOf(run_average[t]))
      BY <1>1, <1>7, <2>1, <3>1 DEF FractionsTyped
    <3> QED
      BY <1>1, <3>1, <3>2, StepOfTyped
  <2>3. FractionsTyped'
    <3>1. \A t \in Threads : Fraction(low_benchmark'[t]) /\ Fraction(high_benchmark'[t])
      BY <1>2, <2>1, BenchmarksTyped DEF FractionsTyped
    <3>2. \A t \in Threads : Fraction(last'[t]) /\ Fraction(best'[t])
      BY <1>2, <2>1, GreaterFacts DEF FractionsTyped
    <3> QED
      BY <1>1, <2>1, <2>2, <3>1, <3>2 DEF FractionsTyped
  <2>4. AverageInv'
    BY <1>1, <2>1 DEF AverageInv, Settled
  <2>5. BandInv'
    <3> SUFFICES ASSUME NEW t \in reached'
                 PROVE  /\ Leq(high_benchmark'[t], best'[t])
                        /\ Leq(Times(10, 7, low_benchmark'[t]), high_benchmark'[t])
      BY DEF BandInv, Leq, Times
    <3>1. t \in Threads /\ (t \in reached \/ Content(t)) /\ (~Turn(t) => t \in reached)
      BY <1>0, <1>1 DEF CountsTyped
    <3>2. CASE Turn(t)
      BY <1>0, <1>2, <2>1, <3>1, <3>2, BenchmarksKept
    <3>3. CASE ~Turn(t)
      BY <1>2, <2>1, <3>1, <3>3 DEF BandInv
    <3> QED
      BY <3>2, <3>3
  <2> QED
    BY <2>2, <2>3, <2>4, <2>5 DEF FlatInv, StepWithin
<1> QED
  BY <1>4, <1>5, <1>6, <1>7 DEF LearnInv

LEMMA LearnInductive == LearnInv /\ [Next]_vars => LearnInv'
<1>1. LearnInv /\ UNCHANGED vars => LearnInv'
  <2> SUFFICES ASSUME LearnInv, UNCHANGED vars PROVE LearnInv'
    OBVIOUS
  <2>1. UNCHANGED <<phase, iter, active, performance, run_average, step_size,
                    low_benchmark, high_benchmark, random_switch, action_change,
                    slowest, fastest, last, best, reached, late, steep>>
    BY DEF vars, alVars, alHistory
  <2>2. CountsTyped' /\ MeasuredInv' /\ SwitchInv'
    BY <2>1 DEF LearnInv, CountsTyped, MeasuredInv, SwitchInv, LowFrom, Times, Whole
  <2>3. ASSUME ~steep' PROVE FlatInv'
    <3>1. FlatInv
      BY <2>1, <2>3 DEF LearnInv
    <3> QED
      BY <2>1, <3>1 DEF FlatInv, FractionsTyped, StepWithin, AverageInv, Settled, BandInv,
                        Leq, Times
  <2> QED
    BY <2>2, <2>3 DEF LearnInv
<1> QED
  BY <1>1, MeasureStep, PreprocessStep, EstimateStep DEF Next

LEMMA Learned == Spec => []LearnInv
<1>1. QED
  BY InitLearn, LearnInductive, PTL DEF Spec
-----------------------------------------------------------------------------
\* The run average of a thread that was measured in the warm-up stays within what
\* has been measured of it, although the step is left by another thread
\* (MethodsOptimize.h:185), until a step leaves the range from 0 to 1.  Which
\* threads are active when, and how slow they are, is free.
THEOREM AverageStaysWithin == Spec => []AverageWithinHistory
<1>1. LearnInv => AverageWithinHistory
  <2> SUFFICES ASSUME LearnInv, phase = "estimate", ~steep,
                      NEW t \in Threads \ late, slowest[t] > 0
               PROVE  /\ Leq(Whole(slowest[t]), run_average[t])
                      /\ Leq(run_average[t], Whole(fastest[t]))
    BY DEF AverageWithinHistory
  <2>1. slowest[t] # 0
    BY ConstantFacts DEF LearnInv, CountsTyped
  <2>2. Between(slowest[t], run_average[t], fastest[t])
    BY <2>1 DEF LearnInv, FlatInv, AverageInv, Settled
  <2>3. run_average[t][1] \in Int
    BY DEF LearnInv, FlatInv, FractionsTyped, Fraction
  <2> QED
    BY <2>2, <2>3 DEF Between, Leq, Whole
<1> QED
  BY <1>1, Learned, PTL

\* A thread that once reached its high benchmark is never asked for more than it
\* has reached (AL_update, MethodsEstimate.h:364-388), also when it started late,
\* until a step leaves the range from 0 to 1.
THEOREM BenchmarkAttainable == Spec => []AspirationAttainable
<1>1. LearnInv => AspirationAttainable
  BY DEF LearnInv, FlatInv, BandInv, AspirationAttainable
<1> QED
  BY <1>1, Learned, PTL

\* A thread switched in two turns in a row has lost five percent in between,
\* whatever the steps.
THEOREM SwitchGetsAChance == Spec => NoRepeatedSwitch
<1> DEFINE Chance == \A t \in Threads :
             /\ phase = "estimate" /\ Turn(t) /\ last[t] # Whole(0)
             /\ random_switch[t] /\ random_switch'[t]
             => Leq(run_average[t], Times(19, 20, last[t]))
<1>1. LearnInv /\ [Next]_vars => [Chance]_vars
  <2> SUFFICES ASSUME LearnInv, Next, NEW t \in Threads, phase = "estimate",
                      Turn(t), last[t] # Whole(0), random_switch[t], random_switch'[t]
               PROVE  Leq(run_average[t], Times(19, 20, last[t]))
    OBVIOUS
  <2>1. Estimate
    BY DEF Next, Measure, Preprocess
  <2>2. Poor(t)
    BY <2>1 DEF Estimate
  <2>3. low_benchmark[t] = Times(19, 20, last[t])
    BY DEF LearnInv, SwitchInv, LowFrom
  <2> QED
    BY <2>2, <2>3 DEF Poor
<1> QED
  BY <1>1, Learned, PTL DEF Spec, NoRepeatedSwitch
-----------------------------------------------------------------------------
(* What keeps the step below 1 *)

\* No thread is so slow that its own performance makes the step exceed 1.
Fast == \A s \in Speeds : Gain <= s

InTime == Fast /\ (late = {} => ~steep)

LEMMA InTimeKept == LearnInv /\ InTime /\ [Next]_vars => InTime'
<1> SUFFICES ASSUME LearnInv, InTime, [Next]_vars, late' = {} PROVE ~steep'
  BY DEF InTime, Fast
<1>1. CASE ~Estimate
  <2>1. late \subseteq late' /\ steep' = steep
    BY <1>1 DEF Next, Measure, Preprocess, vars
  <2> QED
    BY <2>1 DEF InTime
<1>2. CASE Estimate
  <2>1. /\ phase = "estimate" /\ late = {} /\ ~steep
        /\ step_size' = StepOf(run_average[LastActive])
        /\ steep' = (steep \/ ~StepWithin(step_size'))
    BY <1>2 DEF Estimate, InTime
  <2>2. CountsTyped /\ MeasuredInv /\ FractionsTyped /\ AverageInv
    BY <2>1 DEF LearnInv, FlatInv
  <2>3. PICK t \in active : t = LastActive
    BY <2>2, LastActiveExists DEF CountsTyped
  <2>4. /\ t \in Threads /\ Fraction(run_average[t]) /\ slowest[t] \in Speeds
        /\ slowest[t] \in Nat /\ slowest[t] # 0 /\ Gain \in Nat /\ Gain <= slowest[t]
    BY <2>1, <2>2, ConstantFacts DEF InTime, CountsTyped, FractionsTyped, MeasuredInv, Fast
  <2>5. slowest[t] * run_average[t][2] <= run_average[t][1]
    BY <2>1, <2>2, <2>4 DEF AverageInv, Settled, Between
  <2>6. run_average[t][1] \in Int /\ run_average[t][2] \in Int /\ run_average[t][2] > 0
    BY <2>4 DEF Fraction
  <2>7. /\ Gain * run_average[t][2] <= slowest[t] * run_average[t][2]
        /\ Gain * run_average[t][2] \in Int /\ slowest[t] * run_average[t][2] \in Int
    BY <2>4, <2>6, Scale
  <2>8. Gain * run_average[t][2] <= run_average[t][1]
    BY <2>5, <2>6, <2>7
  <2> QED
    BY <2>1, <2>3, <2>4, <2>8, StepOfWithin
<1> QED
  BY <1>1, <1>2

\* If no thread is slower than Gain, only a late start brings about a step above 1,
\* so that the two theorems above then hold of programs whose threads all run
\* during the warm-up without any condition on the steps (RL_update,
\* MethodsEstimate.h:255).
THEOREM OnlyLateStartsSteepen == Fast /\ Spec => [](steep => late # {})
<1>1. Fast /\ Init => InTime
  BY DEF Init, InTime
<1>2. InTime => (steep => late # {})
  BY DEF InTime
<1> QED
  BY <1>1, <1>2, InTimeKept, Learned, PTL DEF Spec

\* Type correctness; without a late start no fraction has a zero denominator, so
\* that RL_update does not divide by a run average of zero, if no thread is slower
\* than Gain.
THEOREM LearningTyped == Fast /\ Spec => []TypeOK
<1>1. LearnInv /\ (steep => late # {}) => TypeOK
  BY DEF LearnInv, FlatInv, CountsTyped, FractionsTyped, TypeOK
<1> QED
  BY <1>1, Learned, OnlyLateStartsSteepen, PTL
=============================================================================
