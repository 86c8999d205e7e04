------------------------- MODULE ThreadRecord_proofs -------------------------
(***************************************************************************)
(* Proofs about ThreadRecord, for every start time, every bound on the     *)
(* clock and so every number of samples, provided the scheduler first      *)
(* samples the record after thd_init_counters (WaitsForInit).              *)
(*                                                                         *)
(* The argument.  Between two samples termination_time is time_before -    *)
(* time_init; a sample moves it to current_time - time_init before it      *)
(* moves time_before to current_time.  The thread's own assignment stores  *)
(* time_before - time_init, so it disturbs a sample only between those two *)
(* stores, where it puts the old value back; that happens once, because    *)
(* no sample starts when status is set.                                    *)
(***************************************************************************)
EXTENDS ThreadRecord, TLAPS

LifeOf(t) == t - time_init

\* Before the counters are initialised nobody samples the record.
NotYetSampled ==
    ~Initialised => rpc = "idle" /\ termination_time = 0 /\ status = 0 /\ printed = -1

StatusIsLast == status = 1 <=> wpc \in {"status", "done"}

\* The times of one sample come in the order of the clock.
TimesOrdered ==
    /\ Initialised => time_init <= time_before
    /\ rpc # "idle" => time_before <= current_time
    /\ rpc \in {"elapsed", "store", "last"} => time = current_time

\* What termination_time and the scheduler's copy of it hold in a sample.
SampleAddsUp ==
    /\ rpc \in {"stamp", "elapsed", "store"} => termination_time = LifeOf(time_before)
    /\ rpc = "store" => sum = LifeOf(current_time)
    /\ rpc = "last" =>
          \/ termination_time = LifeOf(current_time)
          \/ wpc = "done" /\ termination_time = LifeOf(time_before)
    /\ rpc = "idle" /\ wpc = "done" =>
          0 <= termination_time /\ termination_time <= LifeOf(time_before)

RecordInv ==
    /\ TypeOK /\ NotYetSampled /\ StatusIsLast /\ TimesOrdered /\ SampleAddsUp
    /\ ElapsedTelescopes /\ PrintedWithinLife

\* Initially the record is empty and nobody has sampled it.
LEMMA InitRecord == Init => RecordInv
  BY TimeAssumption
  DEF Init, RecordInv, TypeOK, NotYetSampled, StatusIsLast, TimesOrdered, SampleAddsUp,
      ElapsedTelescopes, PrintedWithinLife, Initialised, WorkerStates, RecordStates

\* Every step of the thread, of the scheduler and of the clock keeps the
\* invariant, if a sample starts only after the initialisation.
LEMMA NextRecord ==
  ASSUME WaitsForInit, RecordInv, [Next]_vars
  PROVE  RecordInv'
<1> USE DEF RecordInv, TypeOK, NotYetSampled, StatusIsLast, TimesOrdered, SampleAddsUp,
            ElapsedTelescopes, PrintedWithinLife, Initialised, LifeOf,
            WorkerStates, RecordStates, record, locals
<1>1. CASE Tick
  BY <1>1 DEF Tick
<1>2. CASE SetTimeInit
  BY <1>2 DEF SetTimeInit
<1>3. CASE SetTimeBefore
  BY <1>3 DEF SetTimeBefore
<1>4. CASE SetStatus
  BY <1>4 DEF SetStatus
<1>5. CASE SetTermination
  <2>1. TypeOK' /\ NotYetSampled' /\ StatusIsLast' /\ TimesOrdered'
    BY <1>5 DEF SetTermination, FinalTime
  <2>2. SampleAddsUp' /\ ElapsedTelescopes' /\ PrintedWithinLife'
    BY <1>5 DEF SetTermination, FinalTime
  <2>3. QED
    BY <2>1, <2>2
<1>6. CASE ReportFinished
  BY <1>6 DEF ReportFinished
<1>7. CASE ReadClock
  BY <1>7 DEF ReadClock
<1>8. CASE StoreTime
  BY <1>8 DEF StoreTime
<1>9. CASE LoadElapsed
  BY <1>9 DEF LoadElapsed, Elapsed
<1>10. CASE StoreElapsed
  BY <1>10 DEF StoreElapsed
<1>11. CASE StoreLast
  <2>1. TypeOK' /\ NotYetSampled' /\ StatusIsLast' /\ TimesOrdered'
    BY <1>11 DEF StoreLast, LastTime
  <2>2. SampleAddsUp' /\ ElapsedTelescopes' /\ PrintedWithinLife'
    BY <1>11 DEF StoreLast, LastTime
  <2>3. QED
    BY <2>1, <2>2
<1>12. CASE UNCHANGED vars
  BY <1>12 DEF vars
<1>13. QED
  BY <1>1, <1>2, <1>3, <1>4, <1>5, <1>6, <1>7, <1>8, <1>9, <1>10, <1>11, <1>12
  DEF Next, ThreadStep, RecordStep

\* The invariant holds in every behaviour.
LEMMA RecordInvariant ==
  ASSUME WaitsForInit
  PROVE  Spec => []RecordInv
<1>1. RecordInv /\ [Next]_vars => RecordInv'
  BY NextRecord
<1>2. QED
  BY InitRecord, <1>1, PTL DEF Spec

\* Type correctness of the shared record and of the scheduler's locals: no
\* recorded time lies in the future (ThreadInfo.h, ThreadControl.cpp).
THEOREM RecordTyped ==
  ASSUME WaitsForInit
  PROVE  Spec => []TypeOK
<1>1. RecordInv => TypeOK
  BY DEF RecordInv
<1>2. QED
  BY RecordInvariant, <1>1, PTL

\* The accumulated time of a running thread is exactly the time from its
\* initialisation to its last sample (thd_record_counters), whatever the
\* number and the length of the samples.
THEOREM SamplesTelescope ==
  ASSUME WaitsForInit
  PROVE  Spec => []ElapsedTelescopes
<1>1. RecordInv => ElapsedTelescopes
  BY DEF RecordInv
<1>2. QED
  BY RecordInvariant, <1>1, PTL

\* The recorded time never leaves the life of the thread, in spite of the race
\* between the thread's assignment of termination_time and the scheduler's +=.
THEOREM RaceStaysWithinLife ==
  ASSUME WaitsForInit
  PROVE  Spec => []TimeWithinLife
<1>1. RecordInv => TimeWithinLife
  BY DEF RecordInv, TimeWithinLife, TypeOK, TimesOrdered, SampleAddsUp, LifeOf,
         ElapsedTelescopes, Initialised, WorkerStates, RecordStates
<1>2. QED
  BY RecordInvariant, <1>1, PTL

\* Nor does the time printed with "FINISHED!" (apply_scheduling_policy).
THEOREM ReportStaysWithinLife ==
  ASSUME WaitsForInit
  PROVE  Spec => []PrintedWithinLife
<1>1. RecordInv => PrintedWithinLife
  BY DEF RecordInv
<1>2. QED
  BY RecordInvariant, <1>1, PTL

\* Once the thread has stored its final time and the sample in flight, if any,
\* has ended, the final time does not exceed the time to the last sample.
THEOREM FinalTimeIsBounded ==
  ASSUME WaitsForInit
  PROVE  Spec => []FinalTimeBounded
<1>1. RecordInv => FinalTimeBounded
  BY DEF RecordInv, SampleAddsUp, LifeOf, FinalTimeBounded
<1>2. QED
  BY RecordInvariant, <1>1, PTL
=============================================================================
