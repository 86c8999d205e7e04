------------------------------ MODULE TaskQueue ------------------------------
(***************************************************************************)
(* The task queue of evopro (TaskQueue.cxx, TaskQueue.hxx): clients start  *)
(* a round of jobs with startThreads and wait for it with                  *)
(* waitForAllThreads; one server owns the worker threads and a queue of    *)
(* clients with jobs left to hand out.                                     *)
(*                                                                         *)
(* A worker's own mutex (m_scheduler[i]) is held only while it goes to     *)
(* sleep and while addClient looks at it, so both are one step here.  The  *)
(* server's mutex is held over several steps.                              *)
(***************************************************************************)
EXTENDS Integers, FiniteSets, Functions

CONSTANTS
    Clients,
    NumWorkers,   \* threads of the server: the jobs of the client that creates it
    Jobs,         \* m_threads of each client: the jobs of a round
    QueueSize,    \* queuesize, 4 in the code
    NULL,
    WakeEarly,    \* TRUE: pthread_cond_wait may return to a worker unasked
    MaxRounds     \* bound: rounds started by each client

ASSUME WorkersAssumption == NumWorkers \in Nat \ {0} /\ QueueSize \in Nat \ {0}
ASSUME JobsAssumption == Jobs \in [Clients -> Nat \ {0}]
ASSUME NamesAssumption == NULL \notin Clients /\ (Clients \cup {NULL}) \cap (0 .. NumWorkers) = {}
ASSUME SettingsAssumption == WakeEarly \in BOOLEAN /\ MaxRounds \in Nat

Workers == 0 .. NumWorkers - 1
Slots == 0 .. QueueSize - 1

VARIABLES
    server,                            \* who holds the mutex of m_server
    created,                           \* the server's threads exist
    waitingClients, scheduledJobs, marker,   \* marker: m_finished_jobs of m_server
    assigned, finished,                \* m_assigned_jobs, m_finished_jobs
    cpc, next,                         \* each client thread; next worker of addClient
    m_client, suspended,               \* m_client[i], m_scheduler[i].m_suspended
    wpc, tag, seqn, client, done,      \* each worker and its local variables
    rounds, overlap,       \* history: rounds started; whether two were under way at once
    ran, ids               \* history: of each round, the calls of task() by each worker
                           \* and the job ids they were given

queueVars  == <<waitingClients, scheduledJobs, marker>>
countVars  == <<assigned, finished>>
localVars  == <<tag, seqn, client, done>>
historyVars == <<rounds, overlap, ran, ids>>
vars == <<server, created, queueVars, countVars, cpc, next,
          m_client, suspended, wpc, localVars, historyVars>>

\* create, spinup: createThreads; idle: between rounds; add, offer: addClient;
\* check: the unlocked test of waitForAllThreads; lock, loop: its slow path;
\* asleep, relock: blocked on the server's condition variable, and woken.
ClientStates == {"create", "spinup", "idle", "add", "offer",
                 "check", "lock", "loop", "asleep", "relock"}

\* none: not created; start: before its first suspend; asleep: in suspend;
\* woken: signalled; top: the head of the loop; assign: about to take a job
\* number; task: in task(); clear, count, next: deactivateThread; failed: an
\* assertion did not hold.
WorkerStates == {"none", "start", "asleep", "woken", "top", "assign",
                 "task", "clear", "count", "next", "failed"}

Init ==
    /\ server = NULL /\ created = FALSE
    /\ waitingClients = [j \in Slots |-> NULL]
    /\ scheduledJobs = [j \in Slots |-> 0]
    /\ marker = 0
    /\ assigned = [c \in Clients |-> 0]
    /\ finished = [c \in Clients |-> 0]
    /\ cpc = [c \in Clients |-> "create"]
    /\ next = 0
    /\ m_client = [w \in Workers |-> NULL]
    /\ suspended = [w \in Workers |-> FALSE]
    /\ wpc = [w \in Workers |-> "none"]
    /\ tag = [w \in Workers |-> NULL]
    /\ seqn = [w \in Workers |-> -1]
    /\ client = [w \in Workers |-> NULL]
    /\ done = [w \in Workers |-> FALSE]
    /\ rounds = [c \in Clients |-> 0]
    /\ overlap = FALSE
    /\ ran = [c \in Clients |-> [w \in Workers |-> 0]]
    /\ ids = [c \in Clients |-> {}]

ClientTo(c, state) == cpc' = [cpc EXCEPT ![c] = state]
WorkerTo(w, state) == wpc' = [wpc EXCEPT ![w] = state]

-----------------------------------------------------------------------------
(* The queue of clients *)

\* getNextClientIndex and the search of addClient go round the slots from the
\* marker on.
SlotAt(i) == IF marker + i < QueueSize THEN marker + i ELSE marker + i - QueueSize

FirstSlot(wanted) ==
    LET found == {i \in Slots : SlotAt(i) \in wanted}
    IN  IF found = {} THEN -1
        ELSE SlotAt(CHOOSE i \in found : \A k \in found : i <= k)

FreeSlot == FirstSlot({j \in Slots : waitingClients[j] = NULL})
NextClientIndex == FirstSlot({j \in Slots : waitingClients[j] # NULL})

\* schedule(w) for a worker without a client: a job of the first client in the
\* queue, which leaves it with its last job.
LastJob_OneTooMany(j) == scheduledJobs[j] = Jobs[waitingClients[j]]
LastJob(j) == scheduledJobs[j] + 1 = Jobs[waitingClients[j]]

Given_AfterRemoval(j) == IF LastJob(j) THEN NULL ELSE waitingClients[j]
Given(j) == waitingClients[j]

Schedule(w) ==
    LET j == NextClientIndex
    IN  /\ m_client' = [m_client EXCEPT ![w] = Given(j)]
        /\ scheduledJobs' = [scheduledJobs EXCEPT ![j] = @ + 1]
        /\ waitingClients' = IF LastJob(j)
                             THEN [waitingClients EXCEPT ![j] = NULL]
                             ELSE waitingClients
        /\ UNCHANGED marker

\* m_server.resume: pthread_cond_signal wakes one client that waits, if any.
Asleep == {c \in Clients : cpc[c] = "asleep"}

ResumeServer == IF Asleep = {} THEN UNCHANGED cpc
                ELSE \E c \in Asleep : ClientTo(c, "relock")
-----------------------------------------------------------------------------
(* A client: createThreads, startThreads, waitForAllThreads *)

\* The first call makes the server's threads, as many as the caller has jobs,
\* under the lock, and waits for all of them to have gone to sleep.
CreateServer(c) ==
    /\ cpc[c] = "create" /\ server = NULL /\ ~created
    /\ Jobs[c] = NumWorkers
    /\ server' = c /\ created' = TRUE
    /\ wpc' = [w \in Workers |-> "start"]
    /\ ClientTo(c, "spinup")
    /\ UNCHANGED <<queueVars, countVars, next, m_client, suspended, localVars, historyVars>>

ServerReady(c) ==
    /\ cpc[c] = "spinup" /\ \A w \in Workers : suspended[w]
    /\ server' = NULL
    /\ ClientTo(c, "idle")
    /\ UNCHANGED <<created, queueVars, countVars, next, m_client, suspended, wpc,
                   localVars, historyVars>>

FindServer(c) ==
    /\ cpc[c] = "create" /\ server = NULL /\ created
    /\ ClientTo(c, "idle")
    /\ UNCHANGED <<server, created, queueVars, countVars, next, m_client, suspended,
                   wpc, localVars, historyVars>>

InRound(c) == cpc[c] \notin {"create", "spinup", "idle"}

\* startThreads resets the counters without the lock.
ResetCounters(c) ==
    finished' = [finished EXCEPT ![c] = 0] /\ assigned' = [assigned EXCEPT ![c] = 0]

Start(c) ==
    /\ cpc[c] = "idle" /\ rounds[c] < MaxRounds
    /\ ResetCounters(c)
    /\ ran' = [ran EXCEPT ![c] = [w \in Workers |-> 0]]
    /\ ids' = [ids EXCEPT ![c] = {}]
    /\ overlap' = (overlap \/ \E d \in Clients \ {c} : InRound(d))
    /\ rounds' = [rounds EXCEPT ![c] = @ + 1]
    /\ ClientTo(c, "add")
    /\ UNCHANGED <<server, created, queueVars, next, m_client, suspended, wpc, localVars>>

\* addClient: lock, try again later while the queue is full, take a slot.
MarkerAfter_NoWrap(j) == j + 1
MarkerAfter(j) == IF j + 1 = QueueSize THEN 0 ELSE j + 1

TakeSlot(c, holder) ==
    /\ cpc[c] = "add" /\ server = NULL /\ FreeSlot # -1
    /\ server' = holder
    /\ waitingClients' = [waitingClients EXCEPT ![FreeSlot] = c]
    /\ scheduledJobs' = [scheduledJobs EXCEPT ![FreeSlot] = 0]
    /\ marker' = MarkerAfter(FreeSlot)
    /\ next' = 0
    /\ ClientTo(c, "offer")
    /\ UNCHANGED <<created, countVars, m_client, suspended, wpc, localVars, historyVars>>

Enqueue_LetsGo(c) == TakeSlot(c, NULL)
Enqueue(c) == TakeSlot(c, c)

\* Its loop over the workers: each that sleeps is given a job and signalled.
Offer(c) ==
    /\ cpc[c] = "offer" /\ next < NumWorkers
    /\ suspended[next] /\ NextClientIndex # -1
    /\ next' = next + 1
    /\ Schedule(next)
    /\ suspended' = [suspended EXCEPT ![next] = FALSE]
    /\ WorkerTo(next, "woken")
    /\ UNCHANGED <<server, created, countVars, cpc, localVars, historyVars>>

PassOver(c) ==
    /\ cpc[c] = "offer" /\ next < NumWorkers /\ ~suspended[next]
    /\ next' = next + 1
    /\ UNCHANGED <<server, created, queueVars, countVars, cpc, m_client, suspended,
                   wpc, localVars, historyVars>>

\* It ends with the last worker, or at a sleeper for which no job is left.
NoMoreOffers_AtRunning == ~suspended[next] \/ NextClientIndex = -1
NoMoreOffers == suspended[next] /\ NextClientIndex = -1

Added(c) ==
    /\ cpc[c] = "offer"
    /\ next < NumWorkers => NoMoreOffers
    /\ server' = NULL
    /\ ClientTo(c, "check")
    /\ UNCHANGED <<created, queueVars, countVars, next, m_client, suspended, wpc,
                   localVars, historyVars>>

\* waitForAllThreads reads the counter without the lock first.
Check(c) ==
    /\ cpc[c] = "check"
    /\ ClientTo(c, IF finished[c] = Jobs[c] THEN "idle" ELSE "lock")
    /\ UNCHANGED <<server, created, queueVars, countVars, next, m_client, suspended,
                   wpc, localVars, historyVars>>

WaitLock(c) ==
    /\ cpc[c] \in {"lock", "relock"} /\ server = NULL
    /\ server' = c
    /\ ClientTo(c, "loop")
    /\ UNCHANGED <<created, queueVars, countVars, next, m_client, suspended, wpc,
                   localVars, historyVars>>

WaitLoop(c) ==
    /\ cpc[c] = "loop"
    /\ server' = NULL
    /\ ClientTo(c, IF finished[c] < Jobs[c] THEN "asleep" ELSE "idle")
    /\ UNCHANGED <<created, queueVars, countVars, next, m_client, suspended, wpc,
                   localVars, historyVars>>
-----------------------------------------------------------------------------
(* A worker: threadFunc, deactivateThread *)

\* The first suspend.
Begin(w) ==
    /\ wpc[w] = "start"
    /\ suspended' = [suspended EXCEPT ![w] = TRUE]
    /\ WorkerTo(w, "asleep")
    /\ UNCHANGED <<server, created, queueVars, countVars, cpc, next, m_client,
                   localVars, historyVars>>

\* suspend waits once, whatever wakes it.
Wakes(w) == wpc[w] = "woken" \/ (WakeEarly /\ wpc[w] = "asleep")

WakeUp(w) ==
    /\ Wakes(w)
    /\ WorkerTo(w, "top")
    /\ UNCHANGED <<server, created, queueVars, countVars, cpc, next, m_client,
                   suspended, localVars, historyVars>>

\* The head of the loop: a new tag means a job number has to be taken.
Top(w) ==
    /\ wpc[w] = "top"
    /\ tag' = IF m_client[w] = NULL THEN tag ELSE [tag EXCEPT ![w] = m_client[w]]
    /\ WorkerTo(w, IF m_client[w] = NULL THEN "failed"
                   ELSE IF tag[w] = m_client[w] THEN "task" ELSE "assign")
    /\ UNCHANGED <<server, created, queueVars, countVars, cpc, next, m_client,
                   suspended, seqn, client, done, historyVars>>

\* m_assigned_jobs++: the number of the next job.
Number_AfterIncrement(c) == assigned[c] + 1
Number(c) == assigned[c]

Assign(w) ==
    /\ wpc[w] = "assign" /\ server = NULL
    /\ LET c == m_client[w]
       IN  IF assigned[c] >= Jobs[c]
           THEN WorkerTo(w, "clear") /\ UNCHANGED <<assigned, seqn>>
           ELSE /\ seqn' = [seqn EXCEPT ![w] = Number(c)]
                /\ assigned' = [assigned EXCEPT ![c] = @ + 1]
                /\ WorkerTo(w, "task")
    /\ UNCHANGED <<server, created, queueVars, finished, cpc, next, m_client,
                   suspended, tag, client, done, historyVars>>

\* client->task(seqn, id)
Task(w) ==
    /\ wpc[w] = "task"
    /\ ran' = [ran EXCEPT ![m_client[w]][w] = @ + 1]
    /\ ids' = [ids EXCEPT ![m_client[w]] = @ \cup {seqn[w]}]
    /\ WorkerTo(w, "clear")
    /\ UNCHANGED <<server, created, queueVars, countVars, cpc, next, m_client,
                   suspended, localVars, rounds, overlap>>

\* deactivateThread forgets the client before it takes the lock ...
Clear(w) ==
    /\ wpc[w] = "clear"
    /\ client' = [client EXCEPT ![w] = m_client[w]]
    /\ m_client' = [m_client EXCEPT ![w] = NULL]
    /\ WorkerTo(w, "count")
    /\ UNCHANGED <<server, created, queueVars, countVars, cpc, next, suspended,
                   tag, seqn, done, historyVars>>

\* ... counts the job ...
IsDone_OneEarly(c) == finished[c] + 2 = Jobs[c]
IsDone(c) == finished[c] + 1 = Jobs[c]

Count(w) ==
    /\ wpc[w] = "count" /\ server = NULL
    /\ server' = w
    /\ finished' = [finished EXCEPT ![client[w]] = @ + 1]
    /\ done' = [done EXCEPT ![w] = IsDone(client[w])]
    /\ WorkerTo(w, "next")
    /\ UNCHANGED <<created, queueVars, assigned, cpc, next, m_client, suspended,
                   tag, seqn, client, historyVars>>

\* ... and goes on with another job, its number taken from the client of the
\* last one, or goes to sleep.
Continue(w) ==
    /\ wpc[w] = "next" /\ NextClientIndex # -1
    /\ Schedule(w)
    /\ IF done[w]
       THEN /\ ResumeServer
            /\ seqn' = [seqn EXCEPT ![w] = -1]
            /\ UNCHANGED assigned
       ELSE /\ seqn' = [seqn EXCEPT ![w] = Number(client[w])]
            /\ assigned' = [assigned EXCEPT ![client[w]] = @ + 1]
            /\ UNCHANGED cpc
    /\ server' = NULL
    /\ WorkerTo(w, "top")
    /\ UNCHANGED <<created, finished, next, suspended, tag, client, done, historyVars>>

Sleep(w) ==
    /\ wpc[w] = "next" /\ NextClientIndex = -1
    /\ IF done[w] THEN ResumeServer ELSE UNCHANGED cpc
    /\ seqn' = [seqn EXCEPT ![w] = -1]
    /\ server' = NULL
    /\ suspended' = [suspended EXCEPT ![w] = TRUE]
    /\ WorkerTo(w, "asleep")
    /\ UNCHANGED <<created, queueVars, countVars, next, m_client, tag, client, done,
                   historyVars>>
-----------------------------------------------------------------------------
ClientStep(c) ==
    \/ CreateServer(c) \/ ServerReady(c) \/ FindServer(c)
    \/ Enqueue(c) \/ Offer(c) \/ PassOver(c) \/ Added(c)
    \/ Check(c) \/ WaitLock(c) \/ WaitLoop(c)

WorkerStep(w) ==
    \/ Begin(w) \/ WakeUp(w) \/ Top(w) \/ Assign(w) \/ Task(w)
    \/ Clear(w) \/ Count(w) \/ Continue(w) \/ Sleep(w)

Next ==
    \/ \E c \in Clients : Start(c) \/ ClientStep(c)
    \/ \E w \in Workers : WorkerStep(w)

Spec == Init /\ [][Next]_vars

\* Every thread that can move does; nothing forces a client to start a round.
FairSpec ==
    /\ Spec
    /\ \A c \in Clients : WF_vars(ClientStep(c))
    /\ \A w \in Workers : WF_vars(WorkerStep(w))
-----------------------------------------------------------------------------
(* Properties *)

\* The types of the variables.
TypeOK ==
    /\ server \in Clients \cup Workers \cup {NULL} /\ created \in BOOLEAN
    /\ waitingClients \in [Slots -> Clients \cup {NULL}]
    /\ scheduledJobs \in [Slots -> Nat] /\ marker \in Slots
    /\ assigned \in [Clients -> Nat] /\ finished \in [Clients -> Nat]
    /\ cpc \in [Clients -> ClientStates] /\ next \in 0 .. NumWorkers
    /\ m_client \in [Workers -> Clients \cup {NULL}]
    /\ suspended \in [Workers -> BOOLEAN]
    /\ wpc \in [Workers -> WorkerStates]
    /\ tag \in [Workers -> Clients \cup {NULL}]
    /\ seqn \in [Workers -> Nat \cup {-1}]
    /\ client \in [Workers -> Clients \cup {NULL}] /\ done \in [Workers -> BOOLEAN]
    /\ rounds \in [Clients -> 0 .. MaxRounds] /\ overlap \in BOOLEAN
    /\ ran \in [Clients -> [Workers -> Nat]]
    /\ ids \in [Clients -> SUBSET (Nat \cup {-1})]

TasksRun(c) == SumFunction(ran[c])

\* A worker never runs the loop of threadFunc without a client, whatever the
\* clients do at the same time (the assertions of threadFunc and deactivateThread).
NoIdleWorker == \A w \in Workers : wpc[w] # "failed"

\* Each job of a round is in one place: left in the queue, given to a worker
\* that has not counted it, or counted; and a client is in the queue once.
JobsLeft(c) ==
    LET mine == {j \in Slots : waitingClients[j] = c}
    IN  IF mine = {} THEN 0 ELSE Jobs[c] - scheduledJobs[CHOOSE j \in mine : TRUE]

JobsGiven(c) ==
    Cardinality({w \in Workers : m_client[w] = c \/ (wpc[w] = "count" /\ client[w] = c)})

JobsAccounted ==
    \A c \in Clients : InRound(c) /\ cpc[c] # "add" =>
        /\ finished[c] + JobsGiven(c) + JobsLeft(c) = Jobs[c]
        /\ Cardinality({j \in Slots : waitingClients[j] = c}) <= 1

\* No worker sleeps through work: with the server's lock free and a client in
\* the queue every worker has a job or is on its way to look for one.
NoJobWaitsForSleeper ==
    server = NULL /\ NextClientIndex # -1 => \A w \in Workers : ~suspended[w]

\* When waitForAllThreads returns and no two clients had rounds at the same
\* time, task() has been called as many times as the round has jobs; in the
\* client's first round it was called with every job id, and so with each of
\* them once.  In later rounds a worker that has kept the client's tag takes no
\* number for its first job (TaskQueue.cxx:245) and passes the -1 with which
\* deactivateThread put it to sleep (310), although task() is to be called with
\* the job's id (TaskQueue.hxx:145) in every round (127): of such a round only
\* the number of calls is right.
RoundOver(c) == cpc[c] = "idle" /\ rounds[c] > 0
FirstRound(c) == rounds[c] = 1
JobIds(c) == 0 .. Jobs[c] - 1

AllJobsRun ==
    ~overlap => \A c \in Clients : RoundOver(c) =>
        /\ TasksRun(c) = Jobs[c]
        /\ FirstRound(c) => ids[c] = JobIds(c)

\* RCBProc filters the chunk of the worker, not of the job: with as many jobs
\* as workers the data is complete only if each worker ran one of them.
ChunksFiltered ==
    ~overlap => \A c \in Clients : RoundOver(c) /\ Jobs[c] = NumWorkers =>
                    \A w \in Workers : ran[c][w] = 1

\* waitForAllThreads returns, if no other round overlaps (TaskQueue.cxx:425-439).
WaitReturns ==
    []~overlap => \A c \in Clients : cpc[c] = "add" ~> cpc[c] = "idle"

\* "Request nthreads from server and execute task() in each" (TaskQueue.hxx:125):
\* a task counted as finished has been run.  It fails with two clients: a worker
\* that goes on with a job of one takes its number from the other
\* (TaskQueue.cxx:299), whose last worker then skips its task (248-251).
FinishedWereRun == \A c \in Clients : finished[c] <= TasksRun(c)
=============================================================================
