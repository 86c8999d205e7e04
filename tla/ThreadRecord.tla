---------------------------- MODULE ThreadRecord ----------------------------
(***************************************************************************)
(* One thread_info record, shared without any lock by the application      *)
(* thread that owns it (thd_init_counters at its start, status and         *)
(* termination_time at its end) and by the scheduler, which calls          *)
(* thd_record_counters on it once per iteration.  Every access to a field  *)
(* is a step, so the two run in every interleaving of their statements.    *)
(*                                                                         *)
(* Times are gettimeofday readings, in ticks; the zero of the calloc'ed    *)
(* record is the epoch, long before Start, where the run begins.           *)
(***************************************************************************)
EXTENDS Integers

CONSTANTS
    Start,        \* the time at which the scheduler allocates the record
    MaxTime,      \* bound on the clock
    WaitsForInit  \* TRUE: the first iteration of run() begins only after the
                  \* thread has initialised its counters, what the scheduling
                  \* period is there for; FALSE: nothing enforces it

ASSUME TimeAssumption == Start \in Nat \ {0} /\ MaxTime \in Nat /\ Start <= MaxTime
ASSUME WaitsAssumption == WaitsForInit \in BOOLEAN

VARIABLES
    now,               \* the clock
    wpc,               \* the application thread
    rpc,               \* the scheduler, inside thd_record_counters
    status, time_init, time_before, time, termination_time,  \* the record
    current_time,      \* the scheduler's local copy of the clock
    sum,               \* the value it is about to store in termination_time
    printed            \* the last time printed with "FINISHED!", -1 if none

record == <<status, time_init, time_before, time, termination_time>>
locals == <<current_time, sum>>
vars == <<now, wpc, rpc, record, locals, printed>>

WorkerStates == {"created", "init", "working", "status", "done"}
RecordStates == {"idle", "stamp", "elapsed", "store", "last"}

Init ==
    /\ now = Start
    /\ wpc = "created" /\ rpc = "idle"
    /\ status = 0
    /\ time_init = 0 /\ time_before = 0 /\ time = 0 /\ termination_time = 0
    /\ current_time = 0 /\ sum = 0
    /\ printed = -1

Tick ==
    /\ now < MaxTime
    /\ now' = now + 1
    /\ UNCHANGED <<wpc, rpc, record, locals, printed>>

-----------------------------------------------------------------------------
(* The application thread *)

\* thd_init_counters, first time field.
SetTimeInit ==
    /\ wpc = "created"
    /\ wpc' = "init"
    /\ time_init' = now
    /\ UNCHANGED <<now, rpc, status, time_before, time, termination_time, locals, printed>>

\* thd_init_counters, second time field: info->time_before = info->time_init.
SetTimeBefore ==
    /\ wpc = "init"
    /\ wpc' = "working"
    /\ time_before' = time_init
    /\ UNCHANGED <<now, rpc, status, time_init, time, termination_time, locals, printed>>

\* The task is done: info->status = 1.
SetStatus ==
    /\ wpc = "working"
    /\ wpc' = "status"
    /\ status' = 1
    /\ UNCHANGED <<now, rpc, time_init, time_before, time, termination_time, locals, printed>>

\* info->termination_time = info->time_before - info->time_init.
FinalTime == time_before - time_init

SetTermination ==
    /\ wpc = "status"
    /\ wpc' = "done"
    /\ termination_time' = FinalTime
    /\ UNCHANGED <<now, rpc, status, time_init, time_before, time, locals, printed>>

-----------------------------------------------------------------------------
(* The scheduler: thd_record_counters, and the report of a finished thread *)

Initialised == wpc \notin {"created", "init"}

\* Once status is set, thd_record_counters returns at once and
\* apply_scheduling_policy prints termination_time with "FINISHED!", in every
\* iteration that is left.
ReportFinished ==
    /\ rpc = "idle" /\ status # 0
    /\ printed' = termination_time
    /\ UNCHANGED <<now, wpc, rpc, record, locals>>

\* A call that finds status clear goes on to read the counters and the clock.
ReadClock ==
    /\ rpc = "idle" /\ status = 0
    /\ WaitsForInit => Initialised
    /\ rpc' = "stamp"
    /\ current_time' = now
    /\ UNCHANGED <<now, wpc, record, sum, printed>>

\* info->time = current_time, and the performance over time - time_before.
StoreTime ==
    /\ rpc = "stamp"
    /\ rpc' = "elapsed"
    /\ time' = current_time
    /\ UNCHANGED <<now, wpc, status, time_init, time_before, termination_time,
                   locals, printed>>

\* info->termination_time += info->time - info->time_before, which loads and
\* stores: the thread may write termination_time in between.
Elapsed_WholeTime == time
Elapsed == time - time_before

LoadElapsed ==
    /\ rpc = "elapsed"
    /\ rpc' = "store"
    /\ sum' = termination_time + Elapsed
    /\ UNCHANGED <<now, wpc, record, current_time, printed>>

StoreElapsed ==
    /\ rpc = "store"
    /\ rpc' = "last"
    /\ termination_time' = sum
    /\ UNCHANGED <<now, wpc, status, time_init, time_before, time, locals, printed>>

\* info->time_before = current_time; the call returns.
LastTime_Unchanged == time_before
LastTime_Projected == current_time + 1
LastTime == current_time

StoreLast ==
    /\ rpc = "last"
    /\ rpc' = "idle"
    /\ time_before' = LastTime
    /\ UNCHANGED <<now, wpc, status, time_init, time, termination_time, locals, printed>>

-----------------------------------------------------------------------------
ThreadStep == SetTimeInit \/ SetTimeBefore \/ SetStatus \/ SetTermination
RecordStep == \/ ReportFinished \/ ReadClock \/ StoreTime \/ LoadElapsed
              \/ StoreElapsed \/ StoreLast

Next == Tick \/ ThreadStep \/ RecordStep

Spec == Init /\ [][Next]_vars

-----------------------------------------------------------------------------
(* Properties *)

\* The types of the variables; no recorded time lies in the future.
TypeOK ==
    /\ now \in Nat
    /\ wpc \in WorkerStates /\ rpc \in RecordStates
    /\ status \in 0 .. 1
    /\ time_init \in 0 .. now /\ time_before \in 0 .. now
    /\ time \in 0 .. now /\ current_time \in 0 .. now
    /\ termination_time \in Int /\ sum \in Int /\ printed \in Int

\* The samples of a running thread add up: between two calls of
\* thd_record_counters the accumulated time is exactly the time from the
\* thread's initialisation to its last sample (ThreadControl.cpp:347-355).
ElapsedTelescopes ==
    rpc = "idle" /\ wpc \in {"working", "status"}
        => termination_time = time_before - time_init

\* "Updating the elapsed time" (ThreadControl.cpp:348): the recorded time of an
\* initialised thread is never negative and never longer than its life, in spite
\* of the thread's own assignment racing the scheduler's +=.
TimeWithinLife ==
    Initialised => 0 <= termination_time /\ termination_time <= now - time_init

\* The time printed for a finished thread (Scheduler.cpp:1338) is within its
\* life too, also when it is read between status = 1 and the final assignment.
PrintedWithinLife ==
    printed # -1 => 0 <= printed /\ printed <= now - time_init

\* After the thread has stored its final time, nothing is lost or counted twice
\* but, at most, the interval of one sample that was in flight: the final time
\* never exceeds the time from initialisation to the last sample.
FinalTimeBounded ==
    wpc = "done" /\ rpc = "idle" => termination_time <= time_before - time_init
=============================================================================
