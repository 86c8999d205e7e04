---------------------------- MODULE ParsecBarrier ----------------------------
(***************************************************************************)
(* parsec_barrier.cpp, the barrier of fluidanimate: a counter, a phase     *)
(* flag, a mutex and one condition variable shared by both phases, with    *)
(* ENABLE_SPIN_BARRIER as parsec_barrier.hpp defines it.  The flag is read *)
(* outside the mutex while a thread spins.                                 *)
(*                                                                         *)
(* A thread waits twice in parsec_barrier_wait, first for the arrival      *)
(* phase and then for the departure phase, by the same steps: `want' is    *)
(* the value of is_arrival_phase it waits for.                             *)
(***************************************************************************)
EXTENDS Naturals, FiniteSets

CONSTANTS
    Threads,
    None,         \* nobody holds the mutex
    MaxRounds,    \* bound: calls of parsec_barrier_wait by each thread
    MaxSpurious   \* bound: spurious returns of pthread_cond_wait

ASSUME ThreadsAssumption == IsFiniteSet(Threads) /\ Threads # {} /\ None \notin Threads
ASSUME BoundAssumption == MaxRounds \in Nat /\ MaxSpurious \in Nat

VARIABLES
    n, is_arrival_phase, mutex,   \* parsec_barrier_t
    pc, want,                     \* each thread: where it is in the call
    master,                       \* each thread: its local variable
    entered, left, served,        \* history: the rounds counted by the barrier
    spurious                      \* spurious wake-ups so far

historyVars == <<entered, left, served>>
vars == <<n, is_arrival_phase, mutex, pc, want, master, historyVars, spurious>>

Max == Cardinality(Threads)   \* parsec_barrier_init is called with the threads

\* out: not in the call; lock: before the first lock; check: the first test of
\* the flag; spin: polling it without the mutex; try: pthread_mutex_trylock;
\* loop: the test of the while around pthread_cond_wait; wait: blocked on the
\* condition variable; relock: woken, before it has the mutex again; pass: the
\* flag has the value wanted.
Stages == {"out", "lock", "check", "spin", "try", "loop", "wait", "relock", "pass"}
Holding == {"check", "loop", "pass"}

Init ==
    /\ n = 0 /\ is_arrival_phase = TRUE /\ mutex = None
    /\ pc = [t \in Threads |-> "out"]
    /\ want = [t \in Threads |-> TRUE]
    /\ master = [t \in Threads |-> FALSE]
    /\ entered = [t \in Threads |-> 0]
    /\ left = [t \in Threads |-> 0]
    /\ served = {}
    /\ spurious = 0

\* pthread_cond_broadcast: whoever is blocked goes for the mutex.
Woken_Nobody(stages) == stages
Woken_OnlyOne(stages) ==
    LET blocked == {t \in Threads : stages[t] = "wait"}
    IN  IF blocked = {} THEN stages
        ELSE [stages EXCEPT ![CHOOSE t \in blocked : TRUE] = "relock"]
Woken(stages) == [t \in Threads |-> IF stages[t] = "wait" THEN "relock" ELSE stages[t]]

Goto(t, stage) == pc' = [pc EXCEPT ![t] = stage]

-----------------------------------------------------------------------------
(* parsec_barrier_wait *)

Call(t) ==
    /\ pc[t] = "out" /\ left[t] < MaxRounds
    /\ Goto(t, "lock")
    /\ want' = [want EXCEPT ![t] = TRUE]
    /\ UNCHANGED <<n, is_arrival_phase, mutex, master, historyVars, spurious>>

Lock(t) ==
    /\ pc[t] \in {"lock", "try", "relock"} /\ mutex = None
    /\ mutex' = t
    /\ Goto(t, IF pc[t] = "lock" THEN "check" ELSE "loop")
    /\ UNCHANGED <<n, is_arrival_phase, want, master, historyVars, spurious>>

PhaseCome_ReuseAtOnce(t) == want[t] \/ ~is_arrival_phase
PhaseCome(t) == is_arrival_phase = want[t]

\* The first test, with the mutex held; the thread that waits lets go of it.
Check(t) ==
    /\ pc[t] = "check"
    /\ IF PhaseCome(t)
       THEN Goto(t, "pass") /\ UNCHANGED mutex
       ELSE Goto(t, "spin") /\ mutex' = None
    /\ UNCHANGED <<n, is_arrival_phase, want, master, historyVars, spurious>>

\* Polling ends when the flag is seen to change or after SPIN_COUNTER_MAX reads.
SpinEnd_NoLock(t) ==
    /\ pc[t] = "spin"
    /\ Goto(t, "loop")
    /\ UNCHANGED <<n, is_arrival_phase, mutex, want, master, historyVars, spurious>>

SpinEnd(t) ==
    /\ pc[t] = "spin"
    /\ Goto(t, "try")
    /\ UNCHANGED <<n, is_arrival_phase, mutex, want, master, historyVars, spurious>>

\* The fall back: pthread_cond_wait in a loop.
Loop(t) ==
    /\ pc[t] = "loop"
    /\ IF PhaseCome(t)
       THEN Goto(t, "pass") /\ UNCHANGED mutex
       ELSE Goto(t, "wait") /\ mutex' = None
    /\ UNCHANGED <<n, is_arrival_phase, want, master, historyVars, spurious>>

SpuriousWake(t) ==
    /\ pc[t] = "wait" /\ spurious < MaxSpurious
    /\ spurious' = spurious + 1
    /\ Goto(t, "relock")
    /\ UNCHANGED <<n, is_arrival_phase, mutex, want, master, historyVars>>

\* The thread is counted.  The last one starts the departure phase, wakes the
\* others and waits no more.
FirstIn_Sticky(t) == n = 0 \/ master[t]
FirstIn(t) == n = 0

Arrive(t) ==
    /\ pc[t] = "pass" /\ want[t]
    /\ master' = [master EXCEPT ![t] = FirstIn(t)]
    /\ n' = n + 1
    /\ want' = [want EXCEPT ![t] = FALSE]
    /\ entered' = [entered EXCEPT ![t] = @ + 1]
    /\ IF n + 1 >= Max
       THEN is_arrival_phase' = FALSE /\ pc' = Woken(pc)
       ELSE UNCHANGED is_arrival_phase /\ Goto(t, "check")
    /\ UNCHANGED <<mutex, left, served, spurious>>

\* The thread leaves, the last one after starting the next arrival phase.
LastOut == n - 1 = 0

Depart(t) ==
    /\ pc[t] = "pass" /\ ~want[t]
    /\ n' = n - 1
    /\ IF LastOut
       THEN is_arrival_phase' = TRUE /\ pc' = Woken([pc EXCEPT ![t] = "out"])
       ELSE UNCHANGED is_arrival_phase /\ Goto(t, "out")
    /\ mutex' = None
    /\ left' = [left EXCEPT ![t] = @ + 1]
    /\ served' = IF master[t] THEN served \cup {<<left[t] + 1, t>>} ELSE served
    /\ UNCHANGED <<want, master, entered, spurious>>

Step(t) == Lock(t) \/ Check(t) \/ SpinEnd(t) \/ Loop(t) \/ Arrive(t) \/ Depart(t)

Next == \E t \in Threads : Call(t) \/ Step(t) \/ SpuriousWake(t)

Spec == Init /\ [][Next]_vars

\* Within the call a thread that can move does; nothing forces it to call.
FairSpec == Spec /\ \A t \in Threads : WF_vars(Step(t))

-----------------------------------------------------------------------------
(* Properties *)

\* Types, and mutual exclusion: the mutex is with the one thread that is in a
\* critical section.
TypeOK ==
    /\ n \in 0 .. Max /\ is_arrival_phase \in BOOLEAN
    /\ mutex \in Threads \cup {None}
    /\ pc \in [Threads -> Stages]
    /\ want \in [Threads -> BOOLEAN]
    /\ master \in [Threads -> BOOLEAN]
    /\ entered \in [Threads -> Nat]
    /\ left \in [Threads -> Nat]
    /\ served \subseteq Nat \X Threads
    /\ spurious \in Nat
    /\ \A t \in Threads : pc[t] \in Holding <=> mutex = t

\* No lost wake-up: a thread blocked on the condition variable waits for a
\* phase that has not come, although both phases share the variable and the
\* flag may have changed while the thread spun without the mutex.
NoMissedWakeup ==
    \A t \in Threads : pc[t] = "wait" => is_arrival_phase # want[t]

\* A thread that comes back early for the next round is not counted in the
\* round that is still being left: the counter is the number of threads inside
\* one and the same round.
Inside == {t \in Threads : entered[t] # left[t]}

CountsOneRound ==
    /\ n = Cardinality(Inside)
    /\ \A t, u \in Inside : entered[t] = entered[u]

\* The abstract barrier, over the history of entering and leaving.
Abstract == INSTANCE Barrier

\* parsec_barrier_wait is a barrier (parsec_barrier.cpp:127-208): nobody leaves a
\* round that somebody has not entered, and PARSEC_BARRIER_SERIAL_THREAD is
\* returned to one thread of each round.
RefinesBarrier == Abstract!BarrierSpec

\* Whoever may leave does, in spite of the spinning, the one condition variable
\* of two phases and spurious wake-ups (parsec_barrier.cpp:133-165, 181-196).
RefinesLeaving == Abstract!LeaveFairness
=============================================================================
