------------------------------ MODULE Learning ------------------------------
(***************************************************************************)
(* What the scheduler learns from the measurements: the running average    *)
(* performance of each thread, the step size with which it is computed,    *)
(* and the two benchmarks of aspiration learning, which decide whether the *)
(* thread keeps its NUMA node, may be perturbed, or is switched.           *)
(*                                                                         *)
(* The code computes with doubles; here with exact fractions.  gamma_ is 0 *)
(* in the constructor, so the balanced performance is the performance.     *)
(* Only the resource NUMA_PROCESSING is updated.                           *)
(***************************************************************************)
EXTENDS Integers, FiniteSets

CONSTANTS
    NumThreads,  \* num_threads_
    Speeds,      \* the performances that can be measured
    Gain,        \* the 0.1 of RL_update, in the unit of Speeds
    WarmUp,      \* iterations without averaging (10 in the code)
    NumaPeriod,  \* numa_sched_period_ (10 in the code)
    Garbage,     \* what the uninitialised benchmarks may hold
    MaxIter      \* bound on sched_iteration_

ASSUME LearningAssumption ==
    /\ NumThreads \in Nat \ {0} /\ Speeds \subseteq Nat \ {0} /\ Gain \in Nat \ {0}
    /\ WarmUp \in Nat /\ NumaPeriod \in Nat \ {0} /\ MaxIter \in Nat
    /\ Garbage \subseteq Int

Threads == 0 .. NumThreads - 1

\* Fractions: <<numerator, denominator>>, the denominator positive.  Ratio keeps
\* them in lowest terms; it divides by Gcd only after looking that this is exact,
\* so that its value is n / d whatever Gcd computes.
Gcd[p \in Nat \X Nat] == IF p[2] = 0 THEN p[1] ELSE Gcd[<<p[2], p[1] % p[2]>>]
Exact(g, n, d) == g \in 1 .. d /\ n % g = 0 /\ d % g = 0
Ratio(n, d) == LET g == Gcd[<<IF n < 0 THEN -n ELSE n, d>>]
               IN  IF Exact(g, n, d) THEN <<n \div g, d \div g>> ELSE <<n, d>>
Whole(n) == <<n, 1>>
Times(k, d, a) == Ratio(k * a[1], d * a[2])
Leq(a, b) == a[1] * b[2] <= b[1] * a[2]
Greater(a, b) == IF Leq(a, b) THEN b ELSE a

VARIABLES
    phase,                      \* where the iteration of run() is
    iter,                       \* sched_iteration_
    active,                     \* threads with vec_active_threads_ set
    performance,                \* balanced_performance_
    run_average,                \* run_average_balanced_performance_
    step_size,                  \* step_size_, one for all threads
    low_benchmark, high_benchmark, random_switch, action_change,
    slowest, fastest,           \* history: extremes of each thread's performance
    last,                       \* history: run average at the last AL_update
    best,                       \* history: the best of them
    reached,                    \* history: threads that ever reached a benchmark
    late,                       \* history: threads first measured after the warm-up
    steep                       \* history: whether a step ever left 0 to 1

alVars == <<low_benchmark, high_benchmark, random_switch, action_change>>
alHistory == <<last, best, reached>>
vars == <<phase, iter, active, performance, run_average, step_size, alVars,
          slowest, fastest, alHistory, late, steep>>

Phases == {"measure", "preprocess", "estimate"}

\* initialize_w_child initialises neither the benchmarks nor the two flags of
\* the main resource.
Init ==
    /\ phase = "measure" /\ iter = 0 /\ active = Threads
    /\ performance = [t \in Threads |-> 0]
    /\ run_average = [t \in Threads |-> Whole(0)]
    /\ step_size = <<1, 200>>
    /\ \E low, high \in Garbage :
          /\ low_benchmark = [t \in Threads |-> Whole(low)]
          /\ high_benchmark = [t \in Threads |-> Whole(high)]
    /\ \E switch, change \in BOOLEAN :
          /\ random_switch = [t \in Threads |-> switch]
          /\ action_change = [t \in Threads |-> change]
    /\ slowest = performance /\ fastest = performance
    /\ last = run_average /\ best = run_average
    /\ reached = {} /\ late = {} /\ steep = FALSE

-----------------------------------------------------------------------------
\* retrieve_performances: any threads are active (module SchedulerLoop), each
\* with a performance other than zero; with none the loop ends.
Slowest(t, p) == IF slowest[t] = 0 \/ p < slowest[t] THEN p ELSE slowest[t]
Fastest(t, p) == IF p > fastest[t] THEN p ELSE fastest[t]

Measure ==
    /\ phase = "measure" /\ iter <= MaxIter
    /\ active' \in (SUBSET Threads) \ {{}}
    /\ \E p \in [active' -> Speeds] :
          /\ performance' = [t \in Threads |-> IF t \in active' THEN p[t] ELSE 0]
          /\ slowest' = [t \in Threads |->
                            IF t \in active' THEN Slowest(t, p[t]) ELSE slowest[t]]
          /\ fastest' = [t \in Threads |->
                            IF t \in active' THEN Fastest(t, p[t]) ELSE fastest[t]]
    /\ late' = late \cup {t \in active' : iter > WarmUp /\ slowest[t] = 0}
    /\ phase' = "preprocess"
    /\ UNCHANGED <<iter, run_average, step_size, alVars, alHistory, steep>>

\* update_run_average_balanced_performance: the plain performance in the first
\* iterations, then r + step_size * (p - r).
Smoothed_Away(r, s, p) == Ratio(r[1] * s[2] - s[1] * (p * r[2] - r[1]), r[2] * s[2])
Smoothed(r, s, p) == Ratio(r[1] * s[2] + s[1] * (p * r[2] - r[1]), r[2] * s[2])

Averaged_FromZero(t) == Smoothed(run_average[t], step_size, performance[t])
Averaged(t) ==
    IF iter > WarmUp THEN Smoothed(run_average[t], step_size, performance[t])
    ELSE Whole(performance[t])

Preprocess ==
    /\ phase = "preprocess"
    /\ run_average' = [t \in Threads |-> IF t \in active THEN Averaged(t) ELSE run_average[t]]
    /\ phase' = "estimate"
    /\ UNCHANGED <<iter, active, performance, step_size, alVars, slowest, fastest, alHistory,
                   late, steep>>

\* RL_update takes step_size_ by reference and sets it from the run average of
\* its own thread; what the next iteration uses is left by the last active one.
StepOf(r) == IF r[1] >= 0 THEN Ratio(Gain * r[2], r[1]) ELSE Ratio(-Gain * r[2], -r[1])
LastActive == CHOOSE t \in active : \A u \in active : u <= t

\* A number between 0 and 1: the step by which averages follow.
StepWithin(s) == 0 < s[1] /\ s[1] <= s[2]

\* AL_update of one thread.  At or above the high benchmark the thread keeps its
\* node and the benchmarks follow it.  Below, its node may be perturbed; at or
\* below the low benchmark it is switched and the benchmarks are lowered.
Turn(t) == t \in active /\ iter % NumaPeriod = 0
Content(t) == Leq(high_benchmark[t], run_average[t])
Poor(t) == ~Content(t) /\ Leq(run_average[t], low_benchmark[t])

HighFrom_Original(r) == Times(11, 10, r)
HighFrom(r) == r
LowFrom_Equal(r) == r
LowFrom(r) == Times(19, 20, r)
LowOf(h) == Times(7, 10, h)
HighOf(l) == Times(10, 7, l)

Benchmarks(t) ==
    IF Content(t)
    THEN [low |-> LowOf(HighFrom(run_average[t])), high |-> HighFrom(run_average[t])]
    ELSE IF Poor(t)
    THEN [low |-> LowFrom(run_average[t]), high |-> HighOf(LowFrom(run_average[t]))]
    ELSE [low |-> low_benchmark[t], high |-> high_benchmark[t]]

Estimate ==
    /\ phase = "estimate"
    /\ low_benchmark' = [t \in Threads |->
                            IF Turn(t) THEN Benchmarks(t).low ELSE low_benchmark[t]]
    /\ high_benchmark' = [t \in Threads |->
                            IF Turn(t) THEN Benchmarks(t).high ELSE high_benchmark[t]]
    /\ random_switch' = [t \in Threads |-> IF Turn(t) THEN Poor(t) ELSE random_switch[t]]
    /\ action_change' = [t \in Threads |-> IF Turn(t) THEN ~Content(t) ELSE action_change[t]]
    /\ step_size' = StepOf(run_average[LastActive])
    /\ steep' = (steep \/ ~StepWithin(step_size'))
    /\ last' = [t \in Threads |-> IF Turn(t) THEN run_average[t] ELSE last[t]]
    /\ best' = [t \in Threads |->
                   IF Turn(t) THEN Greater(best[t], run_average[t]) ELSE best[t]]
    /\ reached' = reached \cup {t \in Threads : Turn(t) /\ Content(t)}
    /\ phase' = "measure" /\ iter' = iter + 1
    /\ UNCHANGED <<active, performance, run_average, slowest, fastest, late>>

Next == Measure \/ Preprocess \/ Estimate

Spec == Init /\ [][Next]_vars

-----------------------------------------------------------------------------
(* Properties *)

Fraction(a) == a \in Int \X Int /\ a[2] > 0

\* The types of the variables.  As long as no thread starts late, no average is
\* zero, and so no step has a zero denominator.
TypeOK ==
    /\ phase \in Phases /\ iter \in 0 .. MaxIter + 1 /\ active \in SUBSET Threads
    /\ performance \in [Threads -> Nat]
    /\ late = {} \/ ~steep =>
           /\ Fraction(step_size)
           /\ \A t \in Threads : /\ Fraction(run_average[t])
                                 /\ Fraction(low_benchmark[t]) /\ Fraction(high_benchmark[t])
    /\ random_switch \in [Threads -> BOOLEAN] /\ action_change \in [Threads -> BOOLEAN]
    /\ late \in SUBSET Threads /\ steep \in BOOLEAN

\* "this is a running average performance over the history"
\* (MethodsOptimize.h:185): it lies between the slowest and the fastest
\* performance the thread has had, although each thread is averaged with the
\* step that another one left.  The code keeps this only in part.  A thread first
\* measured after the warm-up is averaged from the initial zero and is below its
\* history for a while; and once a run average has been below Gain, that is 10^7
\* instructions per second, which a slow or a late thread brings about, the step
\* it leaves exceeds 1 and the average of any thread can leave its history.
AverageWithinHistory ==
    phase = "estimate" /\ ~steep =>
        \A t \in Threads \ late : slowest[t] > 0 =>
            /\ Leq(Whole(slowest[t]), run_average[t])
            /\ Leq(run_average[t], Whole(fastest[t]))

\* A thread that reached its high benchmark once is from then on held against
\* one it can reach: whatever switches lower the benchmarks in between, the high
\* one never exceeds the best of its run averages (MethodsEstimate.h:364-388).
\* A step above 1 could make an average negative, which a switch would raise.
AspirationAttainable ==
    ~steep => \A t \in reached : Leq(high_benchmark[t], best[t])

\* A switch is given a chance: a thread switched in two turns in a row, from its
\* second turn on, has lost at least five percent of its run average in between
\* (MethodsEstimate.h:381-387).
NoRepeatedSwitch ==
    [][\A t \in Threads :
          /\ phase = "estimate" /\ Turn(t) /\ last[t] # Whole(0)
          /\ random_switch[t] /\ random_switch'[t]
          => Leq(run_average[t], Times(19, 20, last[t]))]_vars
=============================================================================
