--------------------------- MODULE SchedulerLoop ---------------------------
(***************************************************************************)
(* The control loop Scheduler::run of PaRLSched 3.0, interleaved with the  *)
(* application threads it supervises and with the application's main       *)
(* thread, which calls run() and carries on when run() returns.            *)
(*                                                                         *)
(* Data abstraction.  The performance of a thread is                       *)
(*     (values[0] - performance_before) / (time - time_before)             *)
(* and the loop only asks whether it is zero, that is whether the thread's *)
(* instruction counter moved since the previous sample: `progress' is that *)
(* bit.  A sample taken before thd_init_counters has reset the record      *)
(* reads an uninitialised array (PAPI_read fails on the zeroed EVENT_SET)  *)
(* or somebody else's event set, so its outcome is arbitrary.              *)
(***************************************************************************)
EXTENDS Naturals, FiniteSets

CONSTANTS
    NumThreads,   \* number of application threads handed to the scheduler
    SetsStatus,   \* how a routine may end; TRUE: with info->status = 1 (blackscholes,
                  \* ant colony), FALSE: with pthread_exit before that (charmap)
    MainReturns   \* how main may end after run(); TRUE: by returning, which ends
                  \* the process (blackscholes), FALSE: by pthread_exit (charmap)

ASSUME NumThreadsAssumption == NumThreads \in Nat \ {0}
ASSUME VariantAssumption ==
    /\ SetsStatus \in SUBSET BOOLEAN \ {{}}
    /\ MainReturns \in SUBSET BOOLEAN \ {{}}

Threads == 0 .. NumThreads - 1

VARIABLES
    mpc,              \* where main is: creating threads, inside run(), after it
    idx,              \* the thread the current per-thread loop of main is at
    wpc,              \* where each application thread is
    status,           \* thread_info.status
    progress,         \* the counter has moved since performance_before was set
    performance,      \* thread_info.performance # 0
    vec_active,       \* vec_active_threads_
    active_threads,   \* active_threads_
    num_active,       \* num_active_threads_
    num_active_before,\* num_active_threads_before_
    first,            \* sched_iteration_ = 0
    last_active,      \* history: the threads that were active at the last update
    written           \* threads whose results were complete when main wrote the
                      \* output file (meaningful from "written" on)

workerVars == <<wpc, status, progress>>
loopVars   == <<vec_active, active_threads, num_active, num_active_before,
                first, last_active>>
vars == <<mpc, idx, workerVars, performance, loopVars, written>>

MainStates == {"create", "loop", "record", "classify", "preprocess", "update",
               "apply", "returned", "written", "ended"}

\* none: not created; created: pthread_create done, counters not initialised;
\* working; completed: work done, status not yet set; exited; killed: the
\* process ended first.
WorkerStates == {"none", "created", "working", "completed", "exited", "killed"}

Started(t) == wpc[t] \notin {"none", "created"}
WorkDone(t) == wpc[t] \in {"completed", "exited"}
ActiveSet == {t \in Threads : vec_active[t]}

\* The constructor: all records are zeroed by calloc and "all threads are
\* assumed active"; main then enters the creation loop.
Init ==
    /\ mpc = "create" /\ idx = 0
    /\ wpc = [t \in Threads |-> "none"]
    /\ status = [t \in Threads |-> 0]
    /\ progress = [t \in Threads |-> FALSE]
    /\ performance = [t \in Threads |-> FALSE]
    /\ vec_active = [t \in Threads |-> TRUE]
    /\ active_threads = TRUE
    /\ num_active = NumThreads
    /\ num_active_before = NumThreads
    /\ first = TRUE
    /\ last_active = Threads
    /\ written = {}

-----------------------------------------------------------------------------
(* Application threads *)

\* thd_init_counters: counters start at zero and the record is reset.
InitCounters(t) ==
    /\ wpc[t] = "created"
    /\ wpc' = [wpc EXCEPT ![t] = "working"]
    /\ progress' = [progress EXCEPT ![t] = FALSE]
    /\ performance' = [performance EXCEPT ![t] = FALSE]
    /\ UNCHANGED <<mpc, idx, status, written, loopVars>>

\* The thread retires instructions of its task.
Work(t) ==
    /\ wpc[t] = "working" /\ ~progress[t]
    /\ progress' = [progress EXCEPT ![t] = TRUE]
    /\ UNCHANGED <<mpc, idx, wpc, status, performance, written, loopVars>>

\* The last instruction of the task.
Complete(t) ==
    /\ wpc[t] = "working"
    /\ wpc' = [wpc EXCEPT ![t] = "completed"]
    /\ progress' = [progress EXCEPT ![t] = TRUE]
    /\ UNCHANGED <<mpc, idx, status, performance, written, loopVars>>

\* The end of the routine: charmap leaves through pthread_exit and never
\* reaches the assignment of status.
Exit(t) ==
    /\ wpc[t] = "completed"
    /\ wpc' = [wpc EXCEPT ![t] = "exited"]
    /\ \E sets \in SetsStatus :
          status' = [status EXCEPT ![t] = IF sets THEN 1 ELSE @]
    /\ UNCHANGED <<mpc, idx, progress, performance, written, loopVars>>

-----------------------------------------------------------------------------
(* Main: creation of the threads and Scheduler::run *)

\* tinfo[i].status = 0 and pthread_create for the next thread; after the last
\* one main calls run().
CreateThread ==
    /\ mpc = "create"
    /\ wpc' = [wpc EXCEPT ![idx] = "created"]
    /\ status' = [status EXCEPT ![idx] = 0]
    /\ IF idx = NumThreads - 1
       THEN mpc' = "loop" /\ idx' = 0
       ELSE mpc' = mpc /\ idx' = idx + 1
    /\ UNCHANGED <<progress, performance, written, loopVars>>

\* The while condition: leave run(), or sleep for a scheduling period and
\* clear active_threads_ before sampling.
LoopTest ==
    /\ mpc = "loop"
    /\ IF active_threads
       THEN mpc' = "record" /\ active_threads' = FALSE
       ELSE mpc' = "returned" /\ UNCHANGED active_threads
    /\ idx' = 0
    /\ UNCHANGED <<workerVars, performance, vec_active, num_active,
                   num_active_before, first, last_active, written>>

\* thd_record_counters for thread idx: nothing once status is set, otherwise
\* the counter is read and compared with the previous reading.
\* performance_before is set to the value just read.
SampledUpTo_KeepingBefore(t) == progress
SampledUpTo(t) == [progress EXCEPT ![t] = FALSE]

Sample(t) == IF Started(t) THEN {progress[t]} ELSE BOOLEAN

Record ==
    /\ mpc = "record"
    /\ mpc' = "classify"
    /\ IF status[idx] # 0
       THEN UNCHANGED <<performance, progress>>
       ELSE /\ \E sample \in Sample(idx) :
                  performance' = [performance EXCEPT ![idx] = sample]
            /\ progress' = SampledUpTo(idx)
    /\ UNCHANGED <<idx, wpc, status, written, loopVars>>

\* The rest of retrieve_performances for thread idx.  status is read again:
\* the thread may have finished since thd_record_counters looked at it.
StillActive_IgnoringStatus(t) == performance[t]
StillActive(t) == status[t] = 0 /\ performance[t]

SeenActive_LastThreadOnly(t) == StillActive(t)
SeenActive(t) == active_threads \/ StillActive(t)

Classify ==
    /\ mpc = "classify"
    /\ vec_active' = [vec_active EXCEPT ![idx] = StillActive(idx)]
    /\ active_threads' = SeenActive(idx)
    /\ IF idx = NumThreads - 1
       THEN mpc' = "preprocess" /\ idx' = 0
       ELSE mpc' = "record" /\ idx' = idx + 1
    /\ UNCHANGED <<workerVars, performance, num_active, num_active_before,
                   first, last_active, written>>

\* performance_preprocessing adds one per active thread in its first loop
\* (line 987) and one more in its last (line 1057).
CountedActive_OnTopOfOld == num_active + 2 * Cardinality(ActiveSet)
CountedActive == 2 * Cardinality(ActiveSet)

Preprocess ==
    /\ mpc = "preprocess"
    /\ num_active' = CountedActive
    /\ mpc' = IF active_threads THEN "update" ELSE "apply"
    /\ UNCHANGED <<idx, workerVars, performance, vec_active, active_threads,
                   num_active_before, first, last_active, written>>

\* update(): estimation and optimisation (module Placement) see the flag
\* active_threads_change; then the number of active threads is remembered.
ActiveThreadsChange == num_active_before > num_active

Remembered_Initial == num_active_before
Remembered == num_active

Update ==
    /\ mpc = "update"
    /\ num_active_before' = Remembered
    /\ last_active' = ActiveSet
    /\ mpc' = "apply"
    /\ UNCHANGED <<idx, workerVars, performance, vec_active, active_threads,
                   num_active, first, written>>

\* apply_scheduling_policy: what it does to a thread (affinity, or the line
\* "FINISHED!") does not feed back into the loop; then sched_iteration_++.
Apply ==
    /\ mpc = "apply"
    /\ mpc' = "loop"
    /\ first' = FALSE
    /\ UNCHANGED <<idx, workerVars, performance, vec_active, active_threads,
                   num_active, num_active_before, last_active, written>>

\* After run(): main writes the results of all threads to the output file ...
WriteOutput ==
    /\ mpc = "returned"
    /\ mpc' = "written"
    /\ written' = {t \in Threads : WorkDone(t)}
    /\ UNCHANGED <<idx, workerVars, performance, loopVars>>

\* ... and ends: by returning, which ends the process and every thread still
\* in it, or by pthread_exit, which lets the other threads run on.
EndMain ==
    /\ mpc = "written"
    /\ mpc' = "ended"
    /\ \E returns \in MainReturns :
          wpc' = IF returns
                 THEN [t \in Threads |-> IF wpc[t] = "exited" THEN "exited" ELSE "killed"]
                 ELSE wpc
    /\ UNCHANGED <<idx, status, progress, performance, written, loopVars>>

-----------------------------------------------------------------------------
Worker(t) == InitCounters(t) \/ Work(t) \/ Complete(t) \/ Exit(t)

Main == \/ CreateThread \/ LoopTest \/ Record \/ Classify \/ Preprocess
        \/ Update \/ Apply \/ WriteOutput \/ EndMain

Next == Main \/ \E t \in Threads : Worker(t)

\* Main is never blocked (nanosleep ends), and the operating system gives every
\* application thread the time to start, to finish its task and to exit.
Fairness ==
    /\ WF_vars(Main)
    /\ \A t \in Threads : WF_vars(InitCounters(t)) /\ WF_vars(Complete(t))
                          /\ WF_vars(Exit(t))

Spec == Init /\ [][Next]_vars
FairSpec == Spec /\ Fairness

-----------------------------------------------------------------------------
(* Properties *)

\* The types of the variables.
TypeOK ==
    /\ mpc \in MainStates /\ idx \in Threads
    /\ wpc \in [Threads -> WorkerStates]
    /\ status \in [Threads -> 0 .. 1]
    /\ progress \in [Threads -> BOOLEAN]
    /\ performance \in [Threads -> BOOLEAN]
    /\ vec_active \in [Threads -> BOOLEAN]
    /\ active_threads \in BOOLEAN
    /\ num_active \in 0 .. 2 * NumThreads
    /\ num_active_before \in 0 .. 2 * NumThreads
    /\ first \in BOOLEAN
    /\ last_active \in SUBSET Threads
    /\ written \in SUBSET Threads

\* active_threads_, which alone decides whether run() goes on, agrees at every
\* moment with the per-thread flags it summarises: while a pass is under way
\* with those of the threads already classified (run() and
\* retrieve_performances, Scheduler.cpp:482-501 and 942-948).
Classified == IF mpc \in {"record", "classify"} THEN 0 .. idx - 1 ELSE Threads

ActiveFlagExact == active_threads <=> \E t \in Classified : vec_active[t]

\* When run() has returned, every thread that the last pass still saw making
\* progress has finished its task since: the loop never abandons a thread that
\* was observed to run (Scheduler.cpp:483, 942-948).  Threads that only stalled
\* for a sampling period are abandoned; see AllResultsWritten.
QuietAtReturn ==
    mpc = "returned" => \A t \in Threads : WorkDone(t) \/ ~performance[t]

\* From the second iteration on, estimate() is told active_threads_change
\* exactly when fewer threads are active than at the previous update, although
\* num_active_threads_ counts every active thread twice (Scheduler.cpp:624-627,
\* 987, 1057, 567).  In the first iteration that count is compared with
\* num_threads_, so an inactive thread may go unnoticed.
DropSeen == ActiveThreadsChange <=> Cardinality(ActiveSet) < Cardinality(last_active)

DropDetectedLater == mpc = "update" /\ ~first => DropSeen

\* What main writes after run() are the results of all threads (blackscholes:
\* "The output benchmark will output the price of the options").  It fails: one
\* pass in which no unfinished thread had progressed ends run().
AllResultsWritten == mpc \in {"written", "ended"} => written = Threads

\* run() eventually returns, whether the threads announce their end with status
\* or just stop retiring instructions (Scheduler.cpp:483).
RunReturns == <>(mpc \in {"returned", "written", "ended"})
=============================================================================
