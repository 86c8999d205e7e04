# A TLA+ development of PaRLSched

PaRLSched is a scheduler that runs in user space, beside the threads of a parallel
application: it samples the performance counters of each thread once per
*scheduling period*, learns on which NUMA node and CPU each thread does best, and
pins the thread there. This directory models version 3.0
(`src/Scheduler/libs/PaRLSched_3.0`, called `L/` below) with the applications that
drive it, among them the two with a concurrency of their own: the task queue of evopro
and the barrier, grid and cell pools of fluidanimate. TLC checks the modules on small
instances; TLAPS proves the main safety properties for every value of the constants.

## 1. Inventory

| component | source | state | operations | concurrency and hard behaviour |
|---|---|---|---|---|
| control loop | `L/Scheduler.cpp` `run`, `retrieve_performances`, `performance_preprocessing`, `update` | `active_threads_`, `vec_active_threads_`, `num_active_threads_` and its previous value, `sched_iteration_` | one pass per period | runs in the application's main thread while the workers run; reads what they write without a lock; ends when *one* pass saw nobody progress |
| thread record | `L/ThreadInfo.h`, `L/ThreadControl.cpp` | `status`, `time_init`, `time_before`, `time`, `termination_time`, counters | `thd_init_counters` (worker), `thd_record_counters` (scheduler) | shared without a lock; nothing orders the first sample after the initialisation |
| placement | `L/MethodsActions.h`, `L/MethodsEstimate.h`, `L/MethodsOptimize.h`, `Scheduler::estimate`, `optimize`, `apply_scheduling_policy` | actions, previous action, strategies, benchmarks, affinity | initial round robin, `AL_*` (node), `RL_*` (CPU), pinning | values kept from iterations a thread missed; two-level choice; limits on nodes and CPUs |
| suspension package | `L/ThreadSuspendControl.h` | `array`, `bottom`, `sentinel`, `mut`, `inited` | `thd_suspend`, `thd_continue`, two signal handlers | signals racing `sigsuspend`, one sentinel for all targets, an array scanned without a bound |
| learning | `L/MethodsPerformanceMonitoring.h`, `L/MethodsEstimate.h` `AL_update`, `RL_update` | running averages, `step_size_`, benchmarks, strategies | one update per active thread and iteration | one step size for all threads; benchmarks kept over turns a thread missed, and not initialised |
| log files | `Scheduler::write_to_files` | none | output | none |
| applications | `examples/blackscholes`, `charmap_pthreads`, `ant_colony_pthreads`, `combs_calculation`, `matmult_pthreads` | their data | create threads, `run()`, use the results | join no thread; some set `status` at their end and some do not |
| evopro task queue | `examples/evopro/erdm_pthreads_sched/TaskQueue.cxx`, `.hxx`, the client in `RCBProc.cpp` | client queue, job counters of each client, client and sleep flag of each worker | `createThreads`, `startThreads` (`addClient`, `schedule`), `threadFunc`, `deactivateThread`, `waitForAllThreads` | two levels of locks, condition waits without predicate, counters reset and read without the lock |
| PARSEC barrier | `examples/fluidanimate/src/parsec_barrier.cpp` | counter, phase flag, mutex, condition variable | `parsec_barrier_wait` | reuse in the next round, a flag polled without the mutex, one condition variable for two phases |
| fluidanimate grid and pools | `examples/fluidanimate/src/pthreads.cpp`, `cellpool.cpp` | two arrays of cells, counts, lists of structures, a pool per thread | `InitSim`, ten phases per frame, `SaveFile`, `CleanUpSim` | mutexes only on borders, structures that migrate between threads, pairs chosen by address |
| evopro packets and filters | `SerialProtocol.cpp`, `MeasProcessor.cpp` | parser state, filters | parse, filter | none: one thread |

What makes each component correct:

* **control loop**: it goes on exactly as long as somebody was seen progressing, it
  tells the learning exactly when threads dropped out, it returns, and what main
  uses after `run()` is complete;
* **thread record**: times add up and stay within the life of the thread in every
  interleaving;
* **placement**: every action names a usable CPU, what is chosen is what is applied,
  node changes are spaced by `numa_sched_period_`, a CPU strategy is reset when and
  only when the node changed;
* **learning**: a running average stays within the performances measured, benchmarks
  can be reached again;
* **suspension**: a listed thread is stopped, a stopped thread can be resumed,
  `thd_suspend` returns;
* **task queue**: no worker sleeps beside work or runs without a client, every job of a
  round is run once, `waitForAllThreads` returns, and not before they have been;
* **barrier**: nobody leaves a round that somebody has not entered, whoever may leave
  does, one thread of each round is the serial one;
* **grid and pools**: threads touch the same datum only under its mutex, no particle
  and no structure is lost or doubled, each pair of neighbours counts once.

The hazards of the code, each at its line and with the properties that watch it, are
listed in `PROJECT.json` under `hazards`.

## 2. Modules

| module | models | theorems |
|---|---|---|
| `SchedulerLoop` | `Scheduler::run`, the workers and main of an application | `SchedulerLoop_proofs` |
| `ThreadRecord` | the unlocked accesses to one `thread_info` | `ThreadRecord_proofs` |
| `SuspendControl` | `ThreadSuspendControl.h` | `SuspendControl_proofs` |
| `Placement` (instance in `MCPlacement`) | initial placement, `estimate`, `optimize`, pinning | `Placement_proofs` |
| `Learning` | running averages, step size, benchmarks of aspiration learning | `Learning_proofs` |
| `Barrier` | what a cyclic barrier promises (abstract) | |
| `ParsecBarrier` | `parsec_barrier.cpp`, as an implementation of `Barrier` | `ParsecBarrier_proofs` |
| `TaskQueue` (instance in `MCTaskQueue`) | the task queue of evopro and its clients | `TaskQueue_proofs` |
| `Fluid` | the frames of fluidanimate, over `Barrier` | `Fluid_proofs` |

The modules of the scheduler share no variables: the loop uses the record only through "did the
counter move" and `status`, the placement only through "which threads are active",
and it affects neither. Each of them therefore takes the others' contribution as a
nondeterministic input: `Placement!Sample` lets any set of unfinished threads be
active, which includes what `SchedulerLoop` can produce, and so does `Learning!Measure`.
`Placement` draws freely among the decisions (keep, perturb, switch) that `Learning`
derives from the benchmarks. `Fluid` takes the barrier between its phases from
`Barrier`, which `ParsecBarrier` implements: its threads take the abstract steps `Enter`
and `MayLeave`. The applications use the scheduler in the way `SchedulerLoop` describes,
whatever they compute, so `TaskQueue` and `Fluid` leave it out.

### SchedulerLoop

Each statement group of `run()` that touches shared data is an action of main; `mpc`
says which comes next and `idx` at which thread the per-thread loop is. `Record` is
`thd_record_counters` (the first read of `status`), `Classify` is the rest of the
body of `retrieve_performances` (the second read), so a worker can finish between
the two. `Preprocess`, `Update` and `Apply` are the remaining calls of the pass. A
worker goes none → created → working → completed → exited; `Complete` is the end of
its task and `Exit` the end of the routine, where `status` is set or not.

`performance` is `(values[0] - performance_before) / (time - time_before)`; the loop
only asks whether it is zero, so the model keeps that one bit, and `progress` says
whether the counter moved since the last sample. A sample of a record that is not
initialised yet is arbitrary: it reads an event set that does not exist.

`SetsStatus` and `MainReturns` are the sets of endings to consider: blackscholes (and
the ant colony) set `status` and return from main; charmap leaves its routine by
`pthread_exit`, before the assignment of `status`, and main by `pthread_exit`. With
both sets equal to BOOLEAN each thread ends either way, which includes both programs.

### ThreadRecord

Every access to a field of the record is an action; `termination_time += ...` is a
load and a store. `WaitsForInit` is the assumption under which the scheduling period
works as intended: the first sample comes after `thd_init_counters`. Nothing in the
code enforces it; the run and the theorems are about `TRUE`, and section 3 says what
happens otherwise. `SetTermination` is the load of `time_before` and the store of
`termination_time` in one step (`blackscholes-pthreads.cpp:236`); apart, they would
let the thread store the time up to a sample before, which is within its life as well.

### SuspendControl

The array is accessed under `mut` only, so a scan is one action. The array is kept
as the set of listed threads, the number of slots and the number of slots spoilt by
a failed call. The scan for a free slot has no bound: with the array full it may
stop exactly at the end (the array grows) or further on (`slot = "outside"`). Signals
are sets of pending signals per target. `TakeResume` is the delivery of SIGUSR2
anywhere but in `sigsuspend`, where it has no effect. `SendSuspendExited` has both
outcomes of `pthread_kill` on a finished thread. A `realloc` that fails
(`L/ThreadSuspendControl.h:184-188`) is left out.

### Placement

One action per call of an iteration: `Sample`, `Estimate`, `Optimize`, `Apply`, and
`Finish` of a worker at any moment. The configuration is the one the constructor of
`Scheduler` sets: `RL_mapping_` and `optimize_main_resource_` true, the node chosen
by aspiration learning and the CPU by reinforcement learning, `ST_mapping_` (memory)
and suspension off. Strategies, benchmarks and performances are real numbers that
weight random draws: the model keeps which outcomes can be drawn. A
`pthread_setaffinity_np` that fails is only reported by the code (`L/Scheduler.cpp:1400`),
and left out: `PinnedAsChosen` is about calls that succeed. The node an active
thread had at its last update, whether it had any, and the iteration of its last
change of node are history variables.

### Learning

One action for each of the three calls of an iteration: `Measure`
(`retrieve_performances`), `Preprocess` (the running averages, with the step size of
the previous iteration) and `Estimate` (`AL_update` on a NUMA turn, then `RL_update`,
of which only the assignment to `step_size_` is kept). Doubles are exact fractions in
lowest terms (`Ratio`). `gamma_` is 0 in the constructor, so a balanced performance is the
performance. The benchmarks and the two flags start with anything in `Garbage` and
BOOLEAN, because the constructor leaves them uninitialised. Any threads are active in an
iteration, so one may be measured for the first time after the warm-up; the code then
averages it from the initial zero, and the step computed from a small average may exceed
1 for all threads. `late` (the threads that started so) and `steep` (a step has exceeded
1) are history variables, in which the properties say how far they hold; so are the
extremes of the performances, the run average at the last turn, the best one, and the
threads that reached a benchmark.

### Barrier and ParsecBarrier

`Barrier` counts the rounds each thread has entered and left. `ParsecBarrier` has an
action for each critical section of `parsec_barrier_wait` and for each step between:
`Check` is the first test of the flag, `SpinEnd` the end of the polling outside the
mutex (on a change of the flag or after `SPIN_COUNTER_MAX` reads, so at any time),
`Lock` also `trylock`, `Loop` the loop around `pthread_cond_wait`, `Arrive` and
`Depart` the two statements that count. The code for waiting appears twice, for the
arrival phase (`want` TRUE) and the departure phase, and is modelled once. The errors
of the pthread functions and a barrier of zero threads are left out. `entered`, `left`
and `served` are history variables, set where the counter is: through them the
refinement mapping is the identity.

### TaskQueue

A client goes through `startThreads` (`Start`, which resets its counters without the
lock, then `addClient`: `Enqueue`, `Offer` or `PassOver` for each worker, `Added`) and
`waitForAllThreads` (`Check` without the lock, `WaitLock`, `WaitLoop`). A worker goes
through the loop of `threadFunc` (`Top`, `Assign`, `Task`) and `deactivateThread`
(`Clear` outside the lock; `Count`, then `Continue` or `Sleep`). The mutex of the server
is the variable `server`; `m_scheduler[i]` is never held across a step. The field
`m_finished_jobs`, which the server reuses as the position in its queue, is `marker`
for the server and `finished` for a client. `ran` counts what each worker ran for the
current round of a client: `task` filters the chunk of the *worker* (`RCBProc.cpp:40`),
which is why `ChunksFiltered` asks for one job on each; `ids` is the set of job ids
`task` was called with in that round. The server has as many workers as the client that
creates it has threads (`TaskQueue.cxx:412`), so with `NumWorkers` given only a client of
that many jobs can come first. `WakeEarly` lets `pthread_cond_wait` return to a worker
unasked.

### Fluid

A thread sweeps the cells of its part in each of the ten phases of `AdvanceFrameMT`;
the phase is the number of barriers it has left, modulo 10. A step is the work on one
cell, except in `RebuildGridMT`, where reserving a slot (under the mutex of a border
cell) and writing it (after its release) are two steps per particle. Cells are lists of
structures: the heads are the elements of `cells` and `cells2`, the others are taken
from the pool of the thread that needs one and returned to the pool of the thread that
empties it, and all are ordered by address, on which the choice of pairs depends.
Physics is reduced to the cell of each particle, which `Advance` changes to any cell of
the grid, and to the number of neighbours added to its density and acceleration, two
particles of adjacent cells being in reach. That particles travel at most one cell per step
is assumed at `pthreads.cpp:601`, but the checks of it at 565-597 are switched off and the
comment at 994-998 says it "does not appear to be the case"; the history variable `wide`
says whether a particle has travelled further.
`cnumPars2` is uninitialised memory until the first swap clears it: -1 stands for that.

What a step of a thread reads and writes, and whether under the mutex of the cell, is
the operator `Access`, and `Race` compares the next steps of two threads. `NoRace` says
that a thread about to put a particle that travelled too far into a cell off the borders
(`Astray`) is in every race. From such a race on, the code may lose particles and
structures in ways the model does not follow, so the other properties are about
executions without such travel (`~wide`).

## 3. Runs

| run | question | bounds | result |
|---|---|---|---|
| `SchedulerLoop_core` | the loop, both endings of threads and of main | 3 threads | `TypeOK`, `ActiveFlagExact`, `QuietAtReturn`, `DropDetectedLater`, `RunReturns` hold |
| `SchedulerLoop_output` | is the output complete? | 2 threads | `AllResultsWritten` is violated |
| `ThreadRecord_ordered` | record, sampled after initialisation | clock 2..7 | `ElapsedTelescopes`, `TimeWithinLife` hold |
| `SuspendControl_core` | package under two callers | 2 targets, array 1..3 slots | `RegisteredIsStopped`, `SentinelIsForMe`, `ResumeOnlyToSuspended`, `SuspendReturns` hold |
| `SuspendControl_lost_resume` | can a stopped thread be resumed? | 1 caller, 1 target | `StoppedIsKnown` is violated |
| `Placement_core` | placement | 2 threads, 2 nodes (1 and 2 CPUs), 5 iterations | `PlacementValid`, `PinnedAsChosen`, `NoQuickSwitch`, `ReshuffledExactly` hold |
| `Learning_core` | averages and benchmarks, with late starts and steps above 1 | 2 threads, performances 1..3, 5 iterations | `AverageWithinHistory`, `AspirationAttainable`, `NoRepeatedSwitch` hold |
| `ParsecBarrier_core` | is it a barrier? | 3 threads, 3 rounds, 2 spurious wake-ups | `NoMissedWakeup`, `CountsOneRound`, `RefinesBarrier`, `RefinesLeaving` hold |
| `TaskQueue_core` | the queue under two clients; number and ids of the calls of `task` | 2 workers, 2 and 3 jobs, 2 rounds each | `NoIdleWorker`, `JobsAccounted`, `NoJobWaitsForSleeper`, `AllJobsRun`, `ChunksFiltered`, `WaitReturns` hold |
| `TaskQueue_two_clients` | rounds of two clients at once | the same | `FinishedWereRun` is violated |
| `Fluid_core` | grid and pools, particles travelling anywhere | 2 threads, 3 cells, 3 particles, 2 per structure, 2 frames | `NoRace`, `ParticlesConserved`, `BlocksAccounted`, `PairsAtMostOnce`, `FramesDone` hold |
| `Fluid_pairs` | is every pair counted? | the same with 4 particles, 1 frame | `EachPairOnce` is violated |

**Why the bounds are enough.** Three threads give the loop a first, a middle and a last index,
one thread that finishes during a pass, one that stalls and one that progresses. The state
space of the loop is finite without a bound on iterations. The clock of `ThreadRecord` leaves
room for two full samples and the end of the thread. An array of one slot and two targets
makes it overflow, grow and be spoilt. Two NUMA nodes of different size tell an index of one
node from an index of the other (with fewer threads than CPUs the initial round robin does not
come round: that it fits any machine is proved, not checked); a period of two and five
iterations contain the turns 0, 2 and 4, and iterations a thread can miss in between.
`Learning` has a warm-up of 2 iterations and turns at 0, 2 and 4 (11 iterations and turns at
0, 10, 20, ... in the code), so that a run average is raised, lowered, compared with its own
benchmark and with one kept over a missed turn; three performances put it above, inside and
below the band. `Gain` = 1 in the unit of the performances is the extreme case: the steps
range from 1/3 to 1 as long as no thread starts late, and exceed 1 when a late one has taken a
small step from zero (without `late` and `steep` in the properties the run finds both cases);
the exact fractions of more iterations exceed TLC's integers. Three threads let one come back
to the barrier while one is still leaving and another blocks; the third round is the first
that follows a reused one. Two workers and a client with three jobs make a worker take a
second job; two clients whose rounds may overlap or not make it change clients, and two rounds
meet a worker that has seen the client before. In `Fluid`, structures of two particles and
three particles make a list of two structures, and make it grow, shrink and wander between the
pools; both cells next to the boundary of the two parts are borders and the third is not, so
that a particle can travel from one end of the grid into a cell without a mutex (without the
exception in `NoRace` the run finds that race); the first frame fills the array that held
garbage and the second empties one that was filled by both threads. `MaxBlocks` leaves room
for both pools to run empty and one to do so twice.

`CHECK_DEADLOCK FALSE` appears where the system may stop: the program ends, the bound
on iterations, rounds or the clock is reached, or a caller spins for ever on a thread that
has ended.

**Fairness.** `SchedulerLoop`: main is never blocked (`nanosleep` returns), and the
operating system lets each thread start, finish its task and exit; nothing obliges a
thread to make progress within a given period. `SuspendControl`: a caller inside the
package goes on when it can, a pending signal is delivered and handlers run on;
nobody is obliged to call, and targets may exit. `ParsecBarrier` and `TaskQueue`: a thread
inside the code that can take a step does (the scheduler of the operating system), and a
free mutex is taken by somebody who wants it for ever; nothing obliges a thread to call the
barrier or a client to start a round. Weak fairness of each thread is enough in these
instances because rounds and spurious wake-ups are bounded, so that no thread can be
overtaken for ever. `Fluid`: main loads the particles, and each thread sweeps its cells and
passes its barriers. Safety properties use no fairness.

### What the violations say

* `AllResultsWritten`: `run()` ends after one pass in which no unfinished thread had
  progressed, for instance because they had not run yet. Main joins no thread: it
  writes the prices and returns, which ends the process.
* `StoppedIsKnown`: SIGUSR2 is not blocked in the handler of SIGUSR1, and
  `thd_suspend` returns as soon as the handler has set the sentinel. A `thd_continue`
  that comes before the handler has reached `sigsuspend` is lost, and removes the
  thread from the array, so that later calls do nothing.
* `FinishedWereRun`: `deactivateThread` goes on with a job of the next client but takes its
  number from the counter of the client it has just served. That counter then passes the
  number of jobs early, and a worker that comes for the last number skips the task, and
  counts it as finished.
* `EachPairOnce`: the list of neighbours holds cells of lower index, and within it only
  particles at lower addresses are paired. A structure from a pool lies behind the array,
  so a particle in it is paired with no particle in the first structure of a cell with a
  higher index. Densities and forces of cells with more than `PARTICLES_PER_CELL` particles
  lack those terms; with no long cell every pair is counted (`PairsAtMostOnce`).

Met while modelling, without a run:

* scheduler: AL_optimize's draw of another node includes the current one
  (`L/MethodsOptimize.h:206`, against `ConfigurationExamples.txt:17`), and
  in the first iteration `active_threads_change` compares a count initialised to one
  per thread with one that counts each active thread twice (`L/Scheduler.cpp:425`,
  `987`, `1057`); this is why `DropDetectedLater` starts at the second iteration.
* thread record: without `WaitsForInit` = TRUE, a sample of the zeroed record adds the time since
  the epoch to `termination_time` (`L/ThreadControl.cpp:350`), and `TimeWithinLife` fails.
* suspension: with every slot in use the scan for a free one runs past the array
  (`L/ThreadSuspendControl.h:177`); unless the word there is zero the array does not grow
  and the thread is recorded outside of it.
* placement: the initial placement counts through the nodes of the machine and ignores a
  limit on them (`L/MethodsActions.h:149`), so `PlacementValid` needs `MaxMain` not below
  their number; `action_main_old_` is set to 0 by the initialisation of the memory
  resource and overwritten with the current node in the second iteration
  (`L/Scheduler.cpp:605`), so `ReshuffledExactly` starts at the third.
* learning: a thread inactive during the warm-up is averaged from the initial
  zero (`L/MethodsPerformanceMonitoring.h:236`), so for a while its average is below anything
  measured of it. The step computed from such an average, or from one below `Gain` (10^7
  instructions per second), may exceed 1 for all threads; the averages then overshoot and can
  become negative (`L/MethodsEstimate.h:255`). `Learning_core` reaches these states; they are
  what `late` and `steep` leave out of `AverageWithinHistory`.
* task queue: a spurious wake-up of a worker fails the assertion of line 244 (`NoIdleWorker`
  with `WakeEarly`); `resume` signals one waiting client, which need not be the one that is
  done, so `WaitReturns` needs rounds that do not overlap (lines 296-305); from the second
  round on the tag of the client is known to the worker, which skips lines 245-254 and
  passes job number -1 to `task`, against `TaskQueue.hxx:127` and `145` ("for each job task()
  will be called with job id"), which is why `AllJobsRun` compares the ids only in the first
  round of a client (without that condition `TaskQueue_core` finds the -1; the client in
  `RCBProc.cpp:33` ignores the id); every worker initialises the counters of record 0 (line
  224); the remainder of the data by the number of threads is never filtered
  (`RCBProc.cpp:34`).
* fluidanimate: a particle that travels more than one cell into a cell off the borders is
  stored there without a mutex, while the thread of that cell may store another one, and a
  slot or a particle is lost (`pthreads.cpp:600-615`). The test for cells at a wall compares
  two of its conditions with each other (`(iy==(ny-1))==(iz==(nz-1))`, `pthreads.cpp:927`), so
  that wall cells are skipped; the scheduler variant does not call `InitSim`
  (`pthreads_scheduler.cpp:1271`, commented out).

## 4. Proofs

All theorems have the form `Spec => []P` or `Spec => [][A]_vars`, for every value of the
constants allowed by the assumptions of the module, and follow from an inductive
invariant. TLC checks the properties themselves on the instances above. Every invariant
and every action property of a passing run is such a theorem, `RefinesBarrier` too; the
conditions some of them need are said below.

* `SchedulerLoop_proofs` (assumes `NumThreadsAssumption`, `VariantAssumption`). A pass
  rebuilds the flags one thread at a time, so `ActiveFlagExact` speaks of the threads
  classified so far. `QuietAtReturn` needs more: a thread found inactive had `status`
  set or a zero performance when it was looked at (`InactiveIsQuiet`), `status` is set
  only at the end of the task (`StatusAtEnd`), and only the next pass writes
  `performance` again. `DropDetectedLater` needs `CountsDoubled`: both numbers compared
  are twice the number of active threads, at the right places of the iteration.
  `LoopInv` is the conjunction.
* `ThreadRecord_proofs` (assumes in addition `WaitsForInit`). Between two samples
  `termination_time = time_before - time_init`; inside a sample `SampleAddsUp` says what
  the field and the scheduler's copy hold. The thread's assignment stores
  `time_before - time_init`, so it disturbs a sample only between the store to
  `termination_time` and the store to `time_before`, where it puts the old value back;
  that happens at most once, because no sample starts after `status` is set.
* `SuspendControl_proofs`. One caller at a time is between SIGUSR1 and the recording of
  its target, and leaves only when the sentinel is set; so at most one target is on its
  way to setting the sentinel, and that one is the caller's (`SummonedIsAwaited`).
  SIGUSR2 is only sent to a listed target, which cannot leave the handler without
  taking it (`ListedIsHeld`, `AnsweredIsHeld`). `SlotInv` adds that a slot found or
  appended is still free. `SuspendInv` is the conjunction.

* `ParsecBarrier_proofs`. `ControlInv` ties each thread to the mutex and says what a thread
  about to pass a wait has seen. `RoundInv`: in the arrival phase all threads have left the
  same number of rounds, in the departure phase all have entered the same number, and the
  counter is the number of threads inside; by the cardinality theorems of
  `FiniteSetTheorems` the thread that makes it `max` is the last to enter. `MasterInv`: as
  long as a thread is inside, either the one master still is or it has been served. The
  refinement (`BarrierRefined`) maps
  `Arrive` to `Enter`, `Depart` to `Leave` and every other step to stuttering.
* `TaskQueue_proofs`, for workers woken only by a signal, in six parts.
  1. *The queue.* Every assertion of the code about the client of a worker follows from where
     the worker is (`WorkerInv`). A worker goes to sleep with the server's mutex and an empty
     queue, and the mutex is then held from the moment a client is queued until every sleeper
     has been looked at: so a worker can sleep beside a waiting client only while `addClient`
     still has it ahead (`SleeperInv`). `LeastElement` and `EverySlotVisited` show that the
     search round the queue finds a slot if there is one.
  2. *The jobs*, for rounds that overlap in any way: `NoJobLost`. For a client that has been
     added, the jobs counted, with workers and left in its slot add up to all of them; for any
     other client nothing is queued or with a worker (`Balance`), because its last wait returned
     only with all jobs counted. A slot in use has a job left (`StillLeft`), so the last job
     empties it (`HandStep`), and a client is queued once (`OnceQueued`).
  3. *Sums over workers.* `SumFunction` is recursive: that a sum has the value its set
     gives, and what a change of one term does to it, is shown by the least set size at which it
     would fail (`LeastElement`, `SumExists`, `SumStep`).
  4. *Rounds that do not overlap*, the number of calls in `AllJobsRun`. While a client is
     being served it is the only one, a worker tags its job with the client it took it from
     (`TagInv`), and there is a number for each job still without one (`NumberInv`), so that
     none is dropped for a number out of range; the tasks run are the jobs counted and those
     about to be (`TaskInv`).
  5. *The job ids* of a client's first round, to which no worker comes with its tag: every
     worker that takes a job takes a number, so that jobs and numbers run out together, and
     the ids passed and the numbers taken and not passed are those below `m_assigned_jobs`.
  6. *One job per worker*: `ChunksFiltered`. `addClient` finds all workers asleep, hands each of
     them one job and leaves the queue empty (`ChunkInv`).
* `Placement_proofs`. The round robin of `compute_initial_action` gives every thread a slot:
  `Place` is one to one into as many places as there are slots (`PlacesDiffer`), hence onto
  (`InitialActionInSlots`). The CPU of a thread belongs to its node (`ChildInNode`) because
  both are drawn together. Nodes change in NUMA turns only, not twice in one
  (`SwitchedInTurns`), and two turns are a period apart (`TurnsApart`). `OldIsUsed` says
  what `ReshuffledExactly` is about: the node remembered is the one last updated.
  `ActionsInBounds` alone supposes that `MaxMain` is not below the number of nodes.
* `Learning_proofs`. `LearnInv` has a part that holds until a step exceeds 1 (`FlatInv`): a
  step between 0 and 1 towards a performance within the history does not leave it
  (`SmoothedBetween`), from zero it stays between zero and the fastest, and a thread that
  started in time is not below its slowest (`AverageInv`). A switch sets the high benchmark to
  19/14 of the run average, which is at most 7/10 of the old one (`BenchmarksKept`); it needs
  averages that are not negative. `SwitchInv` needs neither. `OnlyLateStartsSteepen` and
  `LearningTyped` suppose `Fast`, no speed below `Gain`: the average of a thread in time is
  then at least `Gain`, and the step it leaves between 0 and 1 (`StepOfWithin`). The
  arithmetic on fractions needs only that `Ratio` keeps the value.

* `Fluid_proofs` (assumes `GridAssumption`, `SizesAssumption`, `NullAssumption`), for a grid
  of any size, any division among threads and any number of particles and frames, until a
  particle travels more than one cell (`~wide`): the theorem about `NoRace` shows that there is
  then no race at all, and that a wider journey is needed for one is model-checked. `FluidInv`
  is of these parts.
  1. *Rounds.* The barrier keeps threads at most one phase apart (`RoundInv`), and how far a
     thread is in its sweep says how far each cell is in the frame (`Stage`).
  2. *Lists.* Every structure is in one list, of a cell or of a pool, once (`Lists`); the
     heads are the elements of the two arrays (`HeadsFirst`).
  3. *Contents.* Every particle is in one place of one list (`Contents`).
  4. *Grid.* The state is that of these lists and contents, depending on the stage of the cell:
     while `RebuildGridMT` empties a source the destination fills, and a slot may be reserved
     whose particle is still to be written (`SourcesOk`, `ReservedOk`). After `SaveFile` the
     lists have been returned.

  The lists and the contents are quantified existentially: the program does not store them, and
  for that reason `FluidInv` is not an invariant TLC could enumerate. Each step is shown to have
  new ones. `ParticlesConserved` and `BlocksAccounted` follow, the latter by the least place
  in a list at which `ListFrom` would differ from it. `NoRace` needs the rounds and which cells
  two threads can both reach: a structure belongs to one cell or pool (`BelongsTo`), a step
  accesses only those of its own cell, the neighbours and the thread's pool (`RebuildTouches` for
  the copying), and a cell that two threads can reach is a border cell, which has a mutex.
  `PairsAtMostOnce` rests on a second invariant, `SumsInv`: once the grid is complete, the
  densities and accelerations of a particle are the number of pairs counted for it, by the
  cells swept so far. A pair of places is compared in one direction only, the order of the
  addresses (`BelowOrder`); the pairs of a particle are mapped one to one into the particles
  in reach of it (`PairsReach`, `PairsDistinct`), and onto them when no cell has a second
  structure (`ReachPaired`).

Only model-checked: liveness (`RunReturns`, `SuspendReturns`, `RefinesLeaving`,
`WaitReturns`, `FramesDone`), which is out of the prover's reach with `ENABLED`. The
violations are TLC's too, and so is `NoRace` once a particle has travelled too far. The theorems about `TaskQueue` suppose `~WakeEarly`, as the run
that checks these properties does, and `LearningTyped` supposes `Fast`, which holds of its
run.

## 5. Not modelled

* The strategies of `RL_update` (vectors of estimates): only the choices they can
  produce. Rounding of doubles.
* The memory policy (`assign_memory_node*`, `mbind`): off in the constructor.
* `thd_init_counters`/`thd_record_counters` with a mutex: the same statements in a lock.
* The memory lifetime of `tids` and of the scheduler object after `run()`.
* evopro: `THREAD_EXIT`, `clean()` and `setMaxNumberOfThreads` (unused), the packet parser
  and the numeric filters.
* fluidanimate: file formats, the visualisation, the serial and TBB variants; what becomes of the
  grid after two threads have raced for a cell (see `NoRace`).
* The other examples: numeric kernels, FastFlow and OpenMP programs that use the scheduler
  as the applications modelled do, or not at all.
* PaRLSched 1.0 to 2.2, `PerformanceCounters` and `Scheduler_backup.cpp`, which version 3.0
  does not use, and the vendored PAPI 5.4.3 (nearly all of the repository's C): the
  scheduler sees a counter that moves or not. This is why the share of the repository's
  lines that is modelled stays small.

## 6. Plan

Done, in this order: control loop, thread record, suspension package, placement, learning and
the theorems of the first three; barrier and its refinement, task queue, grid and pools of
fluidanimate; and the theorems of barrier, task queue, placement, learning and the grid, so
that every safety property the passing runs check is proved, with the conditions of section 4.

1. `SuspendService`: the package as an atomic service (a set of suspended threads),
   refined by `SuspendControl` when the array is large enough.
2. `Strategies`: the vectors of `RL_update` as fixed-point numbers; that they keep their sum,
   and when an estimate leaves the interval from 0 to 1.
3. `MemoryBinding`: `apply_scheduling_policy` with `ST_mapping_`, `reallocate_memory_`, the
   popularity counts and the node mask of `mbind`.
4. `SerialProtocol`: escaping, length and check sum of the packets of evopro, and that the
   parser finds every packet again after garbage.
