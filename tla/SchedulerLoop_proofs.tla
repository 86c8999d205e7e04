------------------------ MODULE SchedulerLoop_proofs ------------------------
(***************************************************************************)
(* Proofs about SchedulerLoop, for any number of application threads and   *)
(* both variants of their routine and of main.                             *)
(*                                                                         *)
(* The argument.  A pass of retrieve_performances rebuilds the flags one   *)
(* thread at a time, so active_threads is always the disjunction of the    *)
(* flags rebuilt so far.  A thread flagged inactive had status set or a    *)
(* zero performance when it was looked at, and neither is undone before    *)
(* run() returns: only the next pass writes performance again.  The number *)
(* of active threads is compared, doubled, with a doubled number, except   *)
(* in the first iteration.                                                 *)
(***************************************************************************)
EXTENDS SchedulerLoop, FiniteSetTheorems, TLAPS

\* While main creates the threads, all are assumed active.
AssumedActive == mpc = "create" => \A t \in Threads : vec_active[t]

\* A thread has set its status only at its end; main ends nothing before.
StatusAtEnd ==
    \A t \in Threads :
        /\ status[t] # 0 => wpc[t] \in {"exited", "killed"}
        /\ wpc[t] = "killed" => mpc = "ended"

\* Threads found inactive in the current pass are done or showed no progress.
InactiveIsQuiet ==
    \A t \in Classified : ~vec_active[t] => status[t] # 0 \/ ~performance[t]

ReturnedWhenQuiet == mpc \in {"returned", "written", "ended"} => ~active_threads

\* The two numbers that update() compares.
CountsDoubled ==
    /\ mpc = "update" => num_active = 2 * Cardinality(ActiveSet)
    /\ ~first /\ (mpc \in {"loop", "apply"} => active_threads)
              /\ mpc \notin {"returned", "written", "ended"}
          => num_active_before = 2 * Cardinality(last_active)
    /\ mpc = "apply" /\ active_threads => num_active_before = 2 * Cardinality(last_active)

LoopInv ==
    /\ TypeOK /\ AssumedActive /\ ActiveFlagExact /\ StatusAtEnd
    /\ InactiveIsQuiet /\ ReturnedWhenQuiet /\ CountsDoubled
-----------------------------------------------------------------------------
\* No set of threads has more than NumThreads elements.
LEMMA CountBound ==
  ASSUME NEW S \in SUBSET Threads
  PROVE  Cardinality(S) \in Nat /\ Cardinality(S) <= NumThreads
<1>1. NumThreads - 1 \in Int /\ 0 \in Int /\ ~ 0 > NumThreads - 1
  BY NumThreadsAssumption
<1>2. IsFiniteSet(Threads) /\ Cardinality(Threads) = NumThreads
  BY <1>1, NumThreadsAssumption, FS_Interval DEF Threads
<1>3. QED
  BY <1>2, FS_Subset, FS_CardinalityType

\* When run() is entered every thread is assumed active.
LEMMA InitLoop == Init => LoopInv
<1> SUFFICES ASSUME Init PROVE LoopInv
  OBVIOUS
<1> USE NumThreadsAssumption DEF Init, Threads
<1>1. TypeOK
  <2>1. 0 \in Threads /\ NumThreads \in 0 .. 2 * NumThreads
    OBVIOUS
  <2>2. QED
    BY <2>1 DEF TypeOK, MainStates, WorkerStates
<1>2. AssumedActive /\ StatusAtEnd /\ InactiveIsQuiet
  BY DEF AssumedActive, StatusAtEnd, InactiveIsQuiet, Classified
<1>3. ActiveFlagExact
  BY DEF ActiveFlagExact, Classified
<1>4. ReturnedWhenQuiet /\ CountsDoubled
  BY DEF ReturnedWhenQuiet, CountsDoubled
<1>5. QED
  BY <1>1, <1>2, <1>3, <1>4 DEF LoopInv

\* The application threads touch none of the scheduler's flags and counts, and
\* the only performance they write is a zero.
LEMMA WorkerKeeps ==
  ASSUME LoopInv, NEW t \in Threads, Worker(t)
  PROVE  LoopInv'
<1> USE DEF LoopInv, TypeOK, AssumedActive, ActiveFlagExact, StatusAtEnd, InactiveIsQuiet,
            ReturnedWhenQuiet, CountsDoubled, Classified, ActiveSet, loopVars,
            MainStates, WorkerStates
<1>1. CASE InitCounters(t)
  BY <1>1 DEF InitCounters
<1>2. CASE Work(t)
  BY <1>2 DEF Work
<1>3. CASE Complete(t)
  BY <1>3 DEF Complete
<1>4. CASE Exit(t)
  BY <1>4 DEF Exit
<1> HIDE DEF LoopInv
<1>5. QED
  BY <1>1, <1>2, <1>3, <1>4 DEF Worker

\* The steps of a pass over the threads, one thread at a time.
LEMMA PassKeeps ==
  ASSUME LoopInv, CreateThread \/ LoopTest \/ Record \/ Classify
  PROVE  LoopInv'
<1> USE NumThreadsAssumption
    DEF LoopInv, TypeOK, AssumedActive, ActiveFlagExact, StatusAtEnd, InactiveIsQuiet,
        ReturnedWhenQuiet, CountsDoubled, Classified, loopVars, workerVars, Threads,
        MainStates, WorkerStates
<1>1. CASE CreateThread
  BY <1>1 DEF CreateThread, ActiveSet
<1>2. CASE LoopTest
  <2>1. TypeOK'
    <3>1. mpc' \in MainStates /\ active_threads' \in BOOLEAN
      BY <1>2 DEF LoopTest
    <3>2. idx' \in Threads
      BY <1>2 DEF LoopTest
    <3>3. QED
      BY <1>2, <3>1, <3>2 DEF LoopTest
  <2>2. AssumedActive' /\ StatusAtEnd' /\ ReturnedWhenQuiet'
    BY <1>2 DEF LoopTest
  <2>3. ActiveFlagExact' /\ InactiveIsQuiet'
    BY <1>2 DEF LoopTest
  <2>4. CountsDoubled'
    BY <1>2 DEF LoopTest
  <2>5. QED
    BY <2>1, <2>2, <2>3, <2>4
<1>3. CASE Record
  <2>1. performance' \in [Threads -> BOOLEAN] /\ progress' \in [Threads -> BOOLEAN]
    <3>1. \A sample \in Sample(idx) : sample \in BOOLEAN
      BY DEF Sample
    <3>2. performance' \in [Threads -> BOOLEAN]
      BY <1>3, <3>1 DEF Record
    <3>3. progress' \in [Threads -> BOOLEAN]
      BY <1>3 DEF Record, SampledUpTo
    <3>4. QED
      BY <3>2, <3>3
  <2>2. \A t \in Threads \ {idx} : performance'[t] = performance[t]
    BY <1>3 DEF Record, Sample, SampledUpTo
  <2>3. InactiveIsQuiet' /\ ActiveFlagExact'
    BY <1>3, <2>2 DEF Record
  <2>4. QED
    BY <1>3, <2>1, <2>3 DEF Record
<1>4. CASE Classify
  BY <1>4 DEF Classify, StillActive, SeenActive
<1> HIDE DEF LoopInv
<1>5. QED
  BY <1>1, <1>2, <1>3, <1>4

\* The steps between two passes, and those after run().
LEMMA UpdateKeeps ==
  ASSUME LoopInv, Preprocess \/ Update \/ Apply \/ WriteOutput \/ EndMain
  PROVE  LoopInv'
<1>1. ActiveSet \in SUBSET Threads
  BY DEF ActiveSet
<1>2. Cardinality(ActiveSet) \in Nat /\ Cardinality(ActiveSet) <= NumThreads
  BY <1>1, CountBound
<1> USE <1>1, <1>2, NumThreadsAssumption
    DEF LoopInv, TypeOK, AssumedActive, ActiveFlagExact, StatusAtEnd, InactiveIsQuiet,
        ReturnedWhenQuiet, CountsDoubled, Classified, loopVars, workerVars,
        MainStates, WorkerStates
<1>3. CASE Preprocess
  BY <1>3 DEF Preprocess, CountedActive, ActiveSet
<1>4. CASE Update
  BY <1>4 DEF Update, Remembered
<1>5. CASE Apply
  BY <1>5 DEF Apply
<1>6. CASE WriteOutput
  BY <1>6 DEF WriteOutput
<1>7. CASE EndMain
  BY <1>7 DEF EndMain
<1> HIDE DEF LoopInv
<1>8. QED
  BY <1>3, <1>4, <1>5, <1>6, <1>7

\* The invariant holds in every behaviour.
LEMMA LoopInvariant == Spec => []LoopInv
<1>1. LoopInv /\ [Next]_vars => LoopInv'
  <2> SUFFICES ASSUME LoopInv, [Next]_vars PROVE LoopInv'
    OBVIOUS
  <2>1. CASE Main
    BY <2>1, PassKeeps, UpdateKeeps DEF Main
  <2>2. ASSUME NEW t \in Threads, Worker(t) PROVE LoopInv'
    BY <2>2, WorkerKeeps
  <2>3. CASE UNCHANGED vars
    BY <2>3 DEF vars, workerVars, loopVars, LoopInv, TypeOK, AssumedActive,
       ActiveFlagExact, StatusAtEnd, InactiveIsQuiet, ReturnedWhenQuiet,
       CountsDoubled, Classified, ActiveSet
  <2>4. QED
    BY <2>1, <2>2, <2>3 DEF Next
<1>2. QED
  BY InitLoop, <1>1, PTL DEF Spec

-----------------------------------------------------------------------------
\* Type correctness; in particular num_active_threads_ never exceeds twice the
\* number of threads.
THEOREM LoopTyped == Spec => []TypeOK
<1>1. LoopInv => TypeOK
  BY DEF LoopInv
<1>2. QED
  BY LoopInvariant, <1>1, PTL

\* The flag that keeps run() going is the disjunction of the per-thread flags.
THEOREM FlagIsExact == Spec => []ActiveFlagExact
<1>1. LoopInv => ActiveFlagExact
  BY DEF LoopInv
<1>2. QED
  BY LoopInvariant, <1>1, PTL

\* run() never returns while a thread that its last pass saw making progress is
\* still at work.
THEOREM ReturnsWhenQuiet == Spec => []QuietAtReturn
<1>1. LoopInv => QuietAtReturn
  <2> SUFFICES ASSUME LoopInv, mpc = "returned", NEW t \in Threads
               PROVE  WorkDone(t) \/ ~performance[t]
    BY DEF QuietAtReturn
  <2>1. ~vec_active[t] /\ t \in Classified
    BY DEF LoopInv, ReturnedWhenQuiet, ActiveFlagExact, Classified
  <2>2. status[t] # 0 \/ ~performance[t]
    BY <2>1 DEF LoopInv, InactiveIsQuiet
  <2>3. status[t] # 0 => wpc[t] = "exited"
    BY DEF LoopInv, StatusAtEnd
  <2>4. QED
    BY <2>2, <2>3 DEF WorkDone
<1>2. QED
  BY LoopInvariant, <1>1, PTL

\* From the second iteration on, update() is told exactly when fewer threads are
\* active than at its previous call, although each is counted twice.
THEOREM LaterDropsAreSeen == Spec => []DropDetectedLater
<1>1. LoopInv => DropDetectedLater
  <2> SUFFICES ASSUME LoopInv, mpc = "update", ~first PROVE DropSeen
    BY DEF DropDetectedLater
  <2>1. Cardinality(ActiveSet) \in Nat
    BY CountBound DEF ActiveSet
  <2>2. Cardinality(last_active) \in Nat
    BY CountBound DEF LoopInv, TypeOK
  <2>3. num_active = 2 * Cardinality(ActiveSet)
        /\ num_active_before = 2 * Cardinality(last_active)
    BY DEF LoopInv, CountsDoubled
  <2>4. QED
    BY <2>1, <2>2, <2>3 DEF DropSeen, ActiveThreadsChange
<1>2. QED
  BY LoopInvariant, <1>1, PTL
=============================================================================
