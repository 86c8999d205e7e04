-------------------------- MODULE TaskQueue_proofs --------------------------
(***************************************************************************)
(* Proofs about TaskQueue, for any clients, workers, jobs and queue size,  *)
(* as long as pthread_cond_wait returns only when signalled.  The first    *)
(* two parts allow any number of rounds at the same time.                  *)
(*                                                                         *)
(* 1. The queue.  The server's mutex is held from the moment a client is   *)
(* put into the queue until every worker has been looked at, and a worker  *)
(* goes to sleep under it only when the queue is empty.  So a worker can   *)
(* sleep beside a waiting client only while addClient still has it ahead.  *)
(*                                                                         *)
(* 2. The jobs.  Between startThreads and addClient nothing of a client    *)
(* is in the queue or with a worker, because its last wait returned only   *)
(* with all jobs counted.  addClient puts all its jobs into one slot;      *)
(* schedule() moves one to a worker without a client, and the slot is      *)
(* given up with the last; deactivateThread moves one to the counter.      *)
(*                                                                         *)
(* 3. Sums.  What SumFunction gives, by the least counterexample.          *)
(*                                                                         *)
(* 4. The rounds, as long as no two overlap.  A client never runs out of   *)
(* job numbers before its jobs, so that each worker that takes a job runs  *)
(* its task; the tasks run are then the jobs counted and those about to    *)
(* be.                                                                     *)
(*                                                                         *)
(* 5. The job ids of a client's first round, to which no worker comes with *)
(* its tag.  Every worker that addClient wakes takes a number, so that     *)
(* numbers and jobs run out together; the ids passed and the numbers that  *)
(* workers have taken and not passed are those below m_assigned_jobs.      *)
(*                                                                         *)
(* 6. One job for each worker.  addClient finds all workers asleep, gives  *)
(* each a job and leaves the queue empty, so that none takes a second.     *)
(***************************************************************************)
EXTENDS TaskQueue, FiniteSetTheorems, WellFoundedInduction, TLAPS

(* 1. The queue *)

\* Who holds the server's mutex.
HolderInv ==
    /\ \A c \in Clients : cpc[c] \in {"spinup", "offer", "loop"} => server = c
    /\ \A w \in Workers : wpc[w] = "next" => server = w

\* Before all workers have slept for the first time nothing is queued.
StartInv ==
    /\ ~created => \A c \in Clients : cpc[c] = "create"
    /\ \A w \in Workers : wpc[w] = "none" <=> ~created
    /\ (\E w \in Workers : wpc[w] = "start") => \E c \in Clients : cpc[c] = "spinup"
    /\ (~created \/ \E c \in Clients : cpc[c] = "spinup")
           => \A s \in Slots : waitingClients[s] = NULL

\* A worker has a client from the signal that wakes it to the job's end.
HasClient == {"woken", "top", "assign", "task", "clear"}

WorkerInv ==
    \A w \in Workers :
        /\ wpc[w] # "failed"
        /\ wpc[w] \in HasClient <=> m_client[w] # NULL
        /\ suspended[w] <=> wpc[w] = "asleep"
        /\ wpc[w] \in {"count", "next"} => client[w] \in Clients

\* A worker that sleeps beside a waiting client is still ahead of addClient.
SleeperInv ==
    \A w \in Workers, s \in Slots :
        suspended[w] /\ waitingClients[s] # NULL
            => \E c \in Clients : cpc[c] = "offer" /\ next <= w

QueueInv == ~WakeEarly /\ TypeOK /\ HolderInv /\ StartInv /\ WorkerInv /\ SleeperInv
-----------------------------------------------------------------------------
\* A non-empty set of naturals has a least element.
LEMMA LeastElement ==
    ASSUME NEW S \in SUBSET Nat, S # {}
    PROVE  \E x \in S : \A y \in S : x <= y
<1>1. PICK x \in S : \A y \in S : ~ (<<y, x>> \in OpToRel(<, Nat))
  BY NatLessThanWellFounded, WFMin
<1>2. \A y \in S : ~ (y < x)
  BY <1>1 DEF OpToRel
<1> QED
  BY <1>2

\* Going round the queue from the marker visits every slot.
LEMMA EverySlotVisited ==
    ASSUME marker \in Slots
    PROVE  /\ \A i \in Slots : SlotAt(i) \in Slots
           /\ \A s \in Slots : \E i \in Slots : SlotAt(i) = s
<1>1. \A i \in Slots : SlotAt(i) \in Slots
  BY WorkersAssumption DEF Slots, SlotAt
<1>2. ASSUME NEW s \in Slots, s >= marker PROVE \E i \in Slots : SlotAt(i) = s
  <2>1. s - marker \in Slots /\ SlotAt(s - marker) = s
    BY <1>2, WorkersAssumption DEF Slots, SlotAt
  <2> QED BY <2>1
<1>3. ASSUME NEW s \in Slots, s < marker PROVE \E i \in Slots : SlotAt(i) = s
  <2>1. s - marker + QueueSize \in Slots /\ SlotAt(s - marker + QueueSize) = s
    BY <1>3, WorkersAssumption DEF Slots, SlotAt
  <2> QED BY <2>1
<1> QED
  BY <1>1, <1>2, <1>3, WorkersAssumption DEF Slots

\* The search finds a wanted slot if there is one, and says so if not.
LEMMA FirstSlotFinds ==
    ASSUME marker \in Slots, NEW wanted \in SUBSET Slots
    PROVE  IF wanted = {} THEN FirstSlot(wanted) = -1
           ELSE FirstSlot(wanted) \in wanted /\ FirstSlot(wanted) # -1
<1> DEFINE found == {i \in Slots : SlotAt(i) \in wanted}
<1>1. found = {} <=> wanted = {}
  BY EverySlotVisited
<1>2. CASE wanted = {}
  BY <1>1, <1>2 DEF FirstSlot
<1>3. CASE wanted # {}
  <2>1. found \in SUBSET Nat
    BY DEF Slots
  <2>2. found # {}
    BY <1>1, <1>3
  <2> DEFINE first == CHOOSE i \in found : \A k \in found : i <= k
  <2>3. \E i \in found : \A k \in found : i <= k
    <3> HIDE DEF found
    <3> QED BY <2>1, <2>2, LeastElement
  <2>4. first \in found
    <3> HIDE DEF found
    <3> QED BY <2>3
  <2>5. FirstSlot(wanted) = SlotAt(first)
    BY <2>2 DEF FirstSlot
  <2>6. SlotAt(first) \in wanted
    <3> HIDE DEF first
    <3> QED BY <2>4
  <2>7. \A s \in Slots : s # -1
    BY DEF Slots
  <2> QED
    BY <1>3, <2>5, <2>6, <2>7
<1> QED
  BY <1>2, <1>3

\* getNextClientIndex and the search of addClient.
LEMMA SearchesFind ==
    ASSUME TypeOK
    PROVE  /\ IF \E s \in Slots : waitingClients[s] # NULL
              THEN NextClientIndex \in Slots /\ waitingClients[NextClientIndex] \in Clients
              ELSE NextClientIndex = -1
           /\ FreeSlot # -1 => FreeSlot \in Slots
<1>1. marker \in Slots /\ waitingClients \in [Slots -> Clients \cup {NULL}]
  BY DEF TypeOK
<1> DEFINE Queued == {s \in Slots : waitingClients[s] # NULL}
           Unused == {s \in Slots : waitingClients[s] = NULL}
<1>2. IF Queued = {} THEN NextClientIndex = -1 ELSE NextClientIndex \in Queued
  <2>1. Queued \in SUBSET Slots /\ NextClientIndex = FirstSlot(Queued)
    BY DEF NextClientIndex
  <2> QED BY <1>1, <2>1, FirstSlotFinds
<1>3. FreeSlot = -1 \/ FreeSlot \in Unused
  <2>1. Unused \in SUBSET Slots /\ FreeSlot = FirstSlot(Unused)
    BY DEF FreeSlot
  <2> QED BY <1>1, <2>1, FirstSlotFinds
<1> QED
  BY <1>1, <1>2, <1>3
-----------------------------------------------------------------------------
(* Each action preserves each part of the invariant. *)

\* What the steps below use of a state that satisfies the invariant.
LEMMA StateFacts ==
    ASSUME QueueInv
    PROVE  /\ IF \E s \in Slots : waitingClients[s] # NULL
              THEN NextClientIndex \in Slots /\ waitingClients[NextClientIndex] \in Clients
              ELSE NextClientIndex = -1
           /\ FreeSlot # -1 => FreeSlot \in Slots
           /\ -1 \notin Slots
           /\ \A w \in Workers :
                /\ wpc[w] \in HasClient => m_client[w] \in Clients
                /\ wpc[w] \in {"count", "next"} => client[w] \in Clients
           /\ \A c \in Clients, w \in Workers : c # w /\ c # NULL /\ w # NULL
           /\ \A w \in Workers : w + 1 \in 0 .. NumWorkers
           /\ \A i \in 0 .. NumWorkers : i < NumWorkers => i \in Workers
<1>1. TypeOK /\ WorkerInv
  BY DEF QueueInv
<1>2. \A w \in Workers : /\ wpc[w] \in HasClient => m_client[w] \in Clients
                         /\ wpc[w] \in {"count", "next"} => client[w] \in Clients
  BY <1>1 DEF TypeOK, WorkerInv
<1>3. \A c \in Clients, w \in Workers : c # w /\ c # NULL /\ w # NULL
  BY NamesAssumption, WorkersAssumption DEF Workers
<1>4. /\ \A w \in Workers : w + 1 \in 0 .. NumWorkers
      /\ \A i \in 0 .. NumWorkers : i < NumWorkers => i \in Workers
      /\ -1 \notin Slots
  BY WorkersAssumption DEF Workers, Slots
<1> QED
  BY <1>1, <1>2, <1>3, <1>4, SearchesFind

\* The types.
LEMMA TypeStep ==
    ASSUME QueueInv, Next PROVE TypeOK'
<1> USE DEF queueVars, countVars, localVars, historyVars, TypeOK, ClientStates,
            WorkerStates
<1>0. ~WakeEarly /\ TypeOK /\ HolderInv /\ StartInv /\ WorkerInv /\ SleeperInv
  BY DEF QueueInv
<1>1. ASSUME NEW c \in Clients, CreateServer(c) PROVE TypeOK'
  BY <1>0, <1>1, StateFacts, NamesAssumption, WorkersAssumption
  DEF CreateServer, ClientTo
<1>2. ASSUME NEW c \in Clients, ServerReady(c) PROVE TypeOK'
  BY <1>0, <1>2, StateFacts, NamesAssumption, WorkersAssumption
  DEF ServerReady, ClientTo
<1>3. ASSUME NEW c \in Clients, FindServer(c) PROVE TypeOK'
  BY <1>0, <1>3, StateFacts, NamesAssumption, WorkersAssumption
  DEF FindServer, ClientTo
<1>4. ASSUME NEW c \in Clients, Start(c) PROVE TypeOK'
  <2>1. (/\ assigned \in [Clients -> Nat]
         /\ finished \in [Clients -> Nat]
         /\ cpc \in [Clients -> ClientStates])'
    BY <1>0, <1>4, StateFacts, WorkersAssumption, SettingsAssumption
    DEF Start, ClientTo, ResetCounters, InRound, HasClient
  <2>2. (/\ rounds \in [Clients -> 0 .. MaxRounds]
         /\ overlap \in BOOLEAN
         /\ ran \in [Clients -> [Workers -> Nat]])'
    BY <1>0, <1>4, StateFacts, WorkersAssumption, SettingsAssumption
    DEF Start, ClientTo, ResetCounters, InRound, HasClient
  <2>3. (/\ server \in Clients \cup Workers \cup {NULL} /\ created \in BOOLEAN
         /\ waitingClients \in [Slots -> Clients \cup {NULL}]
         /\ scheduledJobs \in [Slots -> Nat]
         /\ marker \in Slots
         /\ next \in 0 .. NumWorkers
         /\ m_client \in [Workers -> Clients \cup {NULL}]
         /\ suspended \in [Workers -> BOOLEAN]
         /\ wpc \in [Workers -> WorkerStates]
         /\ tag \in [Workers -> Clients \cup {NULL}]
         /\ seqn \in [Workers -> Nat \cup {-1}]
         /\ client \in [Workers -> Clients \cup {NULL}]
         /\ done \in [Workers -> BOOLEAN])'
    BY <1>0, <1>4 DEF Start, ClientTo, ResetCounters, InRound
  <2>4. (/\ ids \in [Clients -> SUBSET (Nat \cup {-1})])'
    BY <1>0, <1>4 DEF Start
  <2> QED
    BY <2>1, <2>2, <2>3, <2>4
<1>5. ASSUME NEW c \in Clients, Enqueue(c) PROVE TypeOK'
  <2>1. (/\ server \in Clients \cup Workers \cup {NULL} /\ created \in BOOLEAN
         /\ waitingClients \in [Slots -> Clients \cup {NULL}]
         /\ scheduledJobs \in [Slots -> Nat])'
    BY <1>0, <1>5, StateFacts, WorkersAssumption, SettingsAssumption
    DEF Enqueue, ClientTo, TakeSlot, MarkerAfter, HasClient
  <2>2. (marker \in Slots)'
    BY <1>0, <1>5, StateFacts, WorkersAssumption
    DEF Enqueue, TakeSlot, MarkerAfter, Slots
  <2>3. (/\ cpc \in [Clients -> ClientStates]
         /\ next \in 0 .. NumWorkers)'
    BY <1>0, <1>5, StateFacts, WorkersAssumption, SettingsAssumption
    DEF Enqueue, ClientTo, TakeSlot, MarkerAfter, HasClient
  <2>4. (/\ assigned \in [Clients -> Nat]
         /\ finished \in [Clients -> Nat]
         /\ m_client \in [Workers -> Clients \cup {NULL}]
         /\ suspended \in [Workers -> BOOLEAN]
         /\ wpc \in [Workers -> WorkerStates]
         /\ tag \in [Workers -> Clients \cup {NULL}]
         /\ seqn \in [Workers -> Nat \cup {-1}]
         /\ client \in [Workers -> Clients \cup {NULL}]
         /\ done \in [Workers -> BOOLEAN]
         /\ rounds \in [Clients -> 0 .. MaxRounds]
         /\ overlap \in BOOLEAN
         /\ ran \in [Clients -> [Workers -> Nat]]
         /\ ids \in [Clients -> SUBSET (Nat \cup {-1})])'
    BY <1>0, <1>5 DEF Enqueue, ClientTo, TakeSlot, MarkerAfter
  <2> QED
    BY <2>1, <2>2, <2>3, <2>4
<1>6. ASSUME NEW c \in Clients, Offer(c) PROVE TypeOK'
  <2>1. (/\ waitingClients \in [Slots -> Clients \cup {NULL}]
         /\ scheduledJobs \in [Slots -> Nat])'
    BY <1>0, <1>6, StateFacts, WorkersAssumption, SettingsAssumption
    DEF Offer, ClientTo, WorkerTo, Schedule, Given, HasClient
  <2>2. (/\ next \in 0 .. NumWorkers
         /\ m_client \in [Workers -> Clients \cup {NULL}]
         /\ suspended \in [Workers -> BOOLEAN]
         /\ wpc \in [Workers -> WorkerStates])'
    BY <1>0, <1>6, StateFacts, WorkersAssumption, SettingsAssumption
    DEF Offer, ClientTo, WorkerTo, Schedule, Given, HasClient
  <2>3. (/\ server \in Clients \cup Workers \cup {NULL} /\ created \in BOOLEAN
         /\ marker \in Slots
         /\ assigned \in [Clients -> Nat]
         /\ finished \in [Clients -> Nat]
         /\ cpc \in [Clients -> ClientStates]
         /\ tag \in [Workers -> Clients \cup {NULL}]
         /\ seqn \in [Workers -> Nat \cup {-1}]
         /\ client \in [Workers -> Clients \cup {NULL}]
         /\ done \in [Workers -> BOOLEAN]
         /\ rounds \in [Clients -> 0 .. MaxRounds]
         /\ overlap \in BOOLEAN
         /\ ran \in [Clients -> [Workers -> Nat]]
         /\ ids \in [Clients -> SUBSET (Nat \cup {-1})])'
    BY <1>0, <1>6 DEF Offer, ClientTo, WorkerTo, Schedule, Given
  <2> QED
    BY <2>1, <2>2, <2>3
<1>7. ASSUME NEW c \in Clients, PassOver(c) PROVE TypeOK'
  BY <1>0, <1>7, StateFacts, NamesAssumption, WorkersAssumption
  DEF PassOver, ClientTo
<1>8. ASSUME NEW c \in Clients, Added(c) PROVE TypeOK'
  BY <1>0, <1>8, StateFacts, NamesAssumption, WorkersAssumption
  DEF Added, ClientTo, NoMoreOffers
<1>9. ASSUME NEW c \in Clients, Check(c) PROVE TypeOK'
  BY <1>0, <1>9, StateFacts, NamesAssumption, WorkersAssumption
  DEF Check, ClientTo
<1>10. ASSUME NEW c \in Clients, WaitLock(c) PROVE TypeOK'
  BY <1>0, <1>10, StateFacts, NamesAssumption, WorkersAssumption
  DEF WaitLock, ClientTo
<1>11. ASSUME NEW c \in Clients, WaitLoop(c) PROVE TypeOK'
  BY <1>0, <1>11, StateFacts, NamesAssumption, WorkersAssumption
  DEF WaitLoop, ClientTo
<1>12. ASSUME NEW w \in Workers, Begin(w) PROVE TypeOK'
  BY <1>0, <1>12, StateFacts, NamesAssumption, WorkersAssumption
  DEF Begin, WorkerTo
<1>13. ASSUME NEW w \in Workers, WakeUp(w) PROVE TypeOK'
  BY <1>0, <1>13, StateFacts, NamesAssumption, WorkersAssumption
  DEF WakeUp, WorkerTo, Wakes
<1>14. ASSUME NEW w \in Workers, Top(w) PROVE TypeOK'
  BY <1>0, <1>14, StateFacts, NamesAssumption, WorkersAssumption
  DEF Top, WorkerTo
<1>15. ASSUME NEW w \in Workers, Assign(w) PROVE TypeOK'
  <2>1. (assigned \in [Clients -> Nat])'
    <3>1. m_client[w] \in Clients /\ assigned[m_client[w]] + 1 \in Nat
      BY <1>0, <1>15, StateFacts DEF Assign, HasClient
    <3>2. CASE assigned[m_client[w]] >= Jobs[m_client[w]]
      BY <1>0, <1>15, <3>2 DEF Assign
    <3>3. CASE ~ (assigned[m_client[w]] >= Jobs[m_client[w]])
      BY <1>0, <1>15, <3>1, <3>3 DEF Assign
    <3> QED BY <3>2, <3>3
  <2>2. (wpc \in [Workers -> WorkerStates])'
    <3>1. wpc' = [wpc EXCEPT ![w] = "clear"] \/ wpc' = [wpc EXCEPT ![w] = "task"]
      BY <1>15 DEF Assign, WorkerTo
    <3> QED BY <1>0, <3>1
  <2>3. (seqn \in [Workers -> Nat \cup {-1}])'
    BY <1>0, <1>15, StateFacts, WorkersAssumption, SettingsAssumption
    DEF Assign, Number, WorkerTo, HasClient
  <2>4. (/\ server \in Clients \cup Workers \cup {NULL} /\ created \in BOOLEAN
         /\ waitingClients \in [Slots -> Clients \cup {NULL}]
         /\ scheduledJobs \in [Slots -> Nat]
         /\ marker \in Slots
         /\ finished \in [Clients -> Nat]
         /\ cpc \in [Clients -> ClientStates]
         /\ next \in 0 .. NumWorkers
         /\ m_client \in [Workers -> Clients \cup {NULL}]
         /\ suspended \in [Workers -> BOOLEAN]
         /\ tag \in [Workers -> Clients \cup {NULL}]
         /\ client \in [Workers -> Clients \cup {NULL}]
         /\ done \in [Workers -> BOOLEAN]
         /\ rounds \in [Clients -> 0 .. MaxRounds]
         /\ overlap \in BOOLEAN
         /\ ran \in [Clients -> [Workers -> Nat]]
         /\ ids \in [Clients -> SUBSET (Nat \cup {-1})])'
    BY <1>0, <1>15 DEF Assign, WorkerTo
  <2> QED
    BY <2>1, <2>2, <2>3, <2>4
<1>16. ASSUME NEW w \in Workers, Task(w) PROVE TypeOK'
  <2>1. (/\ ran \in [Clients -> [Workers -> Nat]]
         /\ wpc \in [Workers -> WorkerStates])'
    BY <1>0, <1>16, StateFacts, WorkersAssumption, SettingsAssumption
    DEF Task, WorkerTo, HasClient
  <2>2. (/\ server \in Clients \cup Workers \cup {NULL} /\ created \in BOOLEAN
         /\ waitingClients \in [Slots -> Clients \cup {NULL}]
         /\ scheduledJobs \in [Slots -> Nat]
         /\ marker \in Slots
         /\ assigned \in [Clients -> Nat]
         /\ finished \in [Clients -> Nat]
         /\ cpc \in [Clients -> ClientStates]
         /\ next \in 0 .. NumWorkers
         /\ m_client \in [Workers -> Clients \cup {NULL}]
         /\ suspended \in [Workers -> BOOLEAN]
         /\ tag \in [Workers -> Clients \cup {NULL}]
         /\ seqn \in [Workers -> Nat \cup {-1}]
         /\ client \in [Workers -> Clients \cup {NULL}]
         /\ done \in [Workers -> BOOLEAN]
         /\ rounds \in [Clients -> 0 .. MaxRounds]
         /\ overlap \in BOOLEAN)'
    BY <1>0, <1>16 DEF Task, WorkerTo
  <2>3. (ids \in [Clients -> SUBSET (Nat \cup {-1})])'
    <3>1. m_client[w] \in Clients /\ seqn[w] \in Nat \cup {-1}
      BY <1>0, <1>16, StateFacts DEF Task, HasClient
    <3> QED
      BY <1>0, <1>16, <3>1 DEF Task
  <2> QED
    BY <2>1, <2>2, <2>3
<1>17. ASSUME NEW w \in Workers, Clear(w) PROVE TypeOK'
  BY <1>0, <1>17, StateFacts, NamesAssumption, WorkersAssumption
  DEF Clear, WorkerTo
<1>18. ASSUME NEW w \in Workers, Count(w) PROVE TypeOK'
  <2>1. (/\ server \in Clients \cup Workers \cup {NULL} /\ created \in BOOLEAN
         /\ finished \in [Clients -> Nat])'
    BY <1>0, <1>18, StateFacts, WorkersAssumption, SettingsAssumption
    DEF Count, WorkerTo, IsDone, HasClient
  <2>2. (/\ done \in [Workers -> BOOLEAN]
         /\ wpc \in [Workers -> WorkerStates])'
    BY <1>0, <1>18, StateFacts, WorkersAssumption, SettingsAssumption
    DEF Count, WorkerTo, IsDone, HasClient
  <2>3. (/\ waitingClients \in [Slots -> Clients \cup {NULL}]
         /\ scheduledJobs \in [Slots -> Nat]
         /\ marker \in Slots
         /\ assigned \in [Clients -> Nat]
         /\ cpc \in [Clients -> ClientStates]
         /\ next \in 0 .. NumWorkers
         /\ m_client \in [Workers -> Clients \cup {NULL}]
         /\ suspended \in [Workers -> BOOLEAN]
         /\ tag \in [Workers -> Clients \cup {NULL}]
         /\ seqn \in [Workers -> Nat \cup {-1}]
         /\ client \in [Workers -> Clients \cup {NULL}]
         /\ rounds \in [Clients -> 0 .. MaxRounds]
         /\ overlap \in BOOLEAN
         /\ ran \in [Clients -> [Workers -> Nat]]
         /\ ids \in [Clients -> SUBSET (Nat \cup {-1})])'
    BY <1>0, <1>18 DEF Count, WorkerTo, IsDone
  <2> QED
    BY <2>1, <2>2, <2>3
<1>19. ASSUME NEW w \in Workers, Continue(w) PROVE TypeOK'
  <2>1. (/\ server \in Clients \cup Workers \cup {NULL} /\ created \in BOOLEAN
         /\ waitingClients \in [Slots -> Clients \cup {NULL}]
         /\ scheduledJobs \in [Slots -> Nat])'
    BY <1>0, <1>19, StateFacts, WorkersAssumption, SettingsAssumption
    DEF Continue, WorkerTo, ClientTo, Schedule, Given, ResumeServer, Asleep, HasClient
  <2>2. (assigned \in [Clients -> Nat])'
    <3>1. client[w] \in Clients /\ assigned[client[w]] + 1 \in Nat
      BY <1>0, <1>19, StateFacts DEF Continue
    <3>2. CASE done[w]
      BY <1>0, <1>19, <3>2 DEF Continue
    <3>3. CASE ~done[w]
      BY <1>0, <1>19, <3>1, <3>3 DEF Continue
    <3> QED BY <3>2, <3>3
  <2>3. (seqn \in [Workers -> Nat \cup {-1}])'
    <3>1. client[w] \in Clients /\ assigned[client[w]] \in Nat
      BY <1>0, <1>19, StateFacts DEF Continue, Number
    <3>2. CASE done[w]
      BY <1>0, <1>19, <3>2 DEF Continue, Number
    <3>3. CASE ~done[w]
      BY <1>0, <1>19, <3>1, <3>3 DEF Continue, Number
    <3> QED BY <3>2, <3>3
  <2>4. (/\ cpc \in [Clients -> ClientStates]
         /\ m_client \in [Workers -> Clients \cup {NULL}]
         /\ wpc \in [Workers -> WorkerStates])'
    <3>1. UNCHANGED cpc \/ \E c \in Clients : cpc' = [cpc EXCEPT ![c] = "relock"]
      BY <1>19 DEF Continue, ResumeServer, Asleep, ClientTo
    <3>2. cpc' \in [Clients -> ClientStates]
      BY <1>0, <3>1
    <3>3. m_client' = [m_client EXCEPT ![w] = waitingClients[NextClientIndex]]
          /\ waitingClients[NextClientIndex] \in Clients
      BY <1>19, StateFacts DEF Continue, Schedule, Given
    <3>4. wpc' = [wpc EXCEPT ![w] = "top"]
      BY <1>19 DEF Continue, WorkerTo
    <3> QED
      BY <1>0, <3>2, <3>3, <3>4
  <2>5. (/\ marker \in Slots
         /\ finished \in [Clients -> Nat]
         /\ next \in 0 .. NumWorkers
         /\ suspended \in [Workers -> BOOLEAN]
         /\ tag \in [Workers -> Clients \cup {NULL}]
         /\ client \in [Workers -> Clients \cup {NULL}]
         /\ done \in [Workers -> BOOLEAN]
         /\ rounds \in [Clients -> 0 .. MaxRounds]
         /\ overlap \in BOOLEAN
         /\ ran \in [Clients -> [Workers -> Nat]]
         /\ ids \in [Clients -> SUBSET (Nat \cup {-1})])'
    BY <1>0, <1>19 DEF Continue, WorkerTo, ClientTo, Schedule, Given, ResumeServer,
                       Asleep
  <2> QED
    BY <2>1, <2>2, <2>3, <2>4, <2>5
<1>20. ASSUME NEW w \in Workers, Sleep(w) PROVE TypeOK'
  <2>1. UNCHANGED cpc \/ \E c \in Clients : cpc' = [cpc EXCEPT ![c] = "relock"]
    BY <1>20 DEF Sleep, ResumeServer, Asleep, ClientTo
  <2>2. (cpc \in [Clients -> ClientStates])'
    BY <1>0, <2>1
  <2>3. (/\ server \in Clients \cup Workers \cup {NULL}
         /\ seqn \in [Workers -> Nat \cup {-1}]
         /\ suspended \in [Workers -> BOOLEAN]
         /\ wpc \in [Workers -> WorkerStates])'
    BY <1>0, <1>20 DEF Sleep, WorkerTo
  <2>4. (/\ created \in BOOLEAN
         /\ waitingClients \in [Slots -> Clients \cup {NULL}]
         /\ scheduledJobs \in [Slots -> Nat] /\ marker \in Slots
         /\ assigned \in [Clients -> Nat] /\ finished \in [Clients -> Nat]
         /\ next \in 0 .. NumWorkers
         /\ m_client \in [Workers -> Clients \cup {NULL}]
         /\ tag \in [Workers -> Clients \cup {NULL}]
         /\ client \in [Workers -> Clients \cup {NULL}]
         /\ done \in [Workers -> BOOLEAN]
         /\ rounds \in [Clients -> 0 .. MaxRounds] /\ overlap \in BOOLEAN
         /\ ran \in [Clients -> [Workers -> Nat]]
         /\ ids \in [Clients -> SUBSET (Nat \cup {-1})])'
    BY <1>0, <1>20 DEF Sleep
  <2> QED
    BY <2>2, <2>3, <2>4
<1> QED
  BY <1>1, <1>2, <1>3, <1>4, <1>5, <1>6, <1>7, <1>8, <1>9, <1>10, <1>11, <1>12, <1>13,
     <1>14, <1>15, <1>16, <1>17, <1>18, <1>19, <1>20 DEF Next, ClientStep, WorkerStep

\* The mutex of the server is taken only when it is free.
LEMMA HolderStep ==
    ASSUME QueueInv, Next PROVE HolderInv'
<1> USE DEF queueVars, countVars, localVars, historyVars, HolderInv, TypeOK
<1>0. ~WakeEarly /\ TypeOK /\ HolderInv /\ StartInv /\ WorkerInv /\ SleeperInv
  BY DEF QueueInv
<1>1. ASSUME NEW c \in Clients, CreateServer(c) PROVE HolderInv'
  BY <1>0, <1>1, StateFacts, NamesAssumption, WorkersAssumption
  DEF CreateServer, ClientTo
<1>2. ASSUME NEW c \in Clients, ServerReady(c) PROVE HolderInv'
  BY <1>0, <1>2, StateFacts, NamesAssumption, WorkersAssumption
  DEF ServerReady, ClientTo
<1>3. ASSUME NEW c \in Clients, FindServer(c) PROVE HolderInv'
  BY <1>0, <1>3, StateFacts, NamesAssumption, WorkersAssumption
  DEF FindServer, ClientTo
<1>4. ASSUME NEW c \in Clients, Start(c) PROVE HolderInv'
  BY <1>0, <1>4, StateFacts, NamesAssumption, WorkersAssumption
  DEF Start, ClientTo, ResetCounters, InRound
<1>5. ASSUME NEW c \in Clients, Enqueue(c) PROVE HolderInv'
  BY <1>0, <1>5, StateFacts, NamesAssumption, WorkersAssumption
  DEF Enqueue, ClientTo, TakeSlot, MarkerAfter
<1>6. ASSUME NEW c \in Clients, Offer(c) PROVE HolderInv'
  BY <1>0, <1>6, StateFacts, NamesAssumption, WorkersAssumption
  DEF Offer, ClientTo, WorkerTo, Schedule, Given
<1>7. ASSUME NEW c \in Clients, PassOver(c) PROVE HolderInv'
  BY <1>0, <1>7, StateFacts, NamesAssumption, WorkersAssumption
  DEF PassOver, ClientTo
<1>8. ASSUME NEW c \in Clients, Added(c) PROVE HolderInv'
  BY <1>0, <1>8, StateFacts, NamesAssumption, WorkersAssumption
  DEF Added, ClientTo, NoMoreOffers
<1>9. ASSUME NEW c \in Clients, Check(c) PROVE HolderInv'
  BY <1>0, <1>9, StateFacts, NamesAssumption, WorkersAssumption
  DEF Check, ClientTo
<1>10. ASSUME NEW c \in Clients, WaitLock(c) PROVE HolderInv'
  BY <1>0, <1>10, StateFacts, NamesAssumption, WorkersAssumption
  DEF WaitLock, ClientTo
<1>11. ASSUME NEW c \in Clients, WaitLoop(c) PROVE HolderInv'
  BY <1>0, <1>11, StateFacts, NamesAssumption, WorkersAssumption
  DEF WaitLoop, ClientTo
<1>12. ASSUME NEW w \in Workers, Begin(w) PROVE HolderInv'
  BY <1>0, <1>12, StateFacts, NamesAssumption, WorkersAssumption
  DEF Begin, WorkerTo
<1>13. ASSUME NEW w \in Workers, WakeUp(w) PROVE HolderInv'
  BY <1>0, <1>13, StateFacts, NamesAssumption, WorkersAssumption
  DEF WakeUp, WorkerTo, Wakes
<1>14. ASSUME NEW w \in Workers, Top(w) PROVE HolderInv'
  BY <1>0, <1>14, StateFacts, NamesAssumption, WorkersAssumption
  DEF Top, WorkerTo
<1>15. ASSUME NEW w \in Workers, Assign(w) PROVE HolderInv'
  BY <1>0, <1>15, StateFacts, NamesAssumption, WorkersAssumption
  DEF Assign, WorkerTo
<1>16. ASSUME NEW w \in Workers, Task(w) PROVE HolderInv'
  BY <1>0, <1>16, StateFacts, NamesAssumption, WorkersAssumption
  DEF Task, WorkerTo
<1>17. ASSUME NEW w \in Workers, Clear(w) PROVE HolderInv'
  BY <1>0, <1>17, StateFacts, NamesAssumption, WorkersAssumption
  DEF Clear, WorkerTo
<1>18. ASSUME NEW w \in Workers, Count(w) PROVE HolderInv'
  BY <1>0, <1>18, StateFacts, NamesAssumption, WorkersAssumption
  DEF Count, WorkerTo, IsDone
<1>19. ASSUME NEW w \in Workers, Continue(w) PROVE HolderInv'
  BY <1>0, <1>19, StateFacts, NamesAssumption, WorkersAssumption
  DEF Continue, WorkerTo, ClientTo, Schedule, Given, ResumeServer, Asleep
<1>20. ASSUME NEW w \in Workers, Sleep(w) PROVE HolderInv'
  BY <1>0, <1>20, StateFacts, NamesAssumption, WorkersAssumption
  DEF Sleep, WorkerTo, ClientTo, ResumeServer, Asleep
<1> QED
  BY <1>1, <1>2, <1>3, <1>4, <1>5, <1>6, <1>7, <1>8, <1>9, <1>10, <1>11, <1>12, <1>13,
     <1>14, <1>15, <1>16, <1>17, <1>18, <1>19, <1>20 DEF Next, ClientStep, WorkerStep

\* Nothing is queued before the workers have slept.
LEMMA StartStep ==
    ASSUME QueueInv, Next PROVE StartInv'
<1> USE DEF queueVars, countVars, localVars, historyVars, StartInv, HolderInv, TypeOK,
            WorkerInv
<1>0. ~WakeEarly /\ TypeOK /\ HolderInv /\ StartInv /\ WorkerInv /\ SleeperInv
  BY DEF QueueInv
<1>1. ASSUME NEW c \in Clients, CreateServer(c) PROVE StartInv'
  BY <1>0, <1>1, StateFacts, NamesAssumption, WorkersAssumption
  DEF CreateServer, ClientTo
<1>2. ASSUME NEW c \in Clients, ServerReady(c) PROVE StartInv'
  BY <1>0, <1>2, StateFacts, NamesAssumption, WorkersAssumption
  DEF ServerReady, ClientTo
<1>3. ASSUME NEW c \in Clients, FindServer(c) PROVE StartInv'
  BY <1>0, <1>3, StateFacts, NamesAssumption, WorkersAssumption
  DEF FindServer, ClientTo
<1>4. ASSUME NEW c \in Clients, Start(c) PROVE StartInv'
  BY <1>0, <1>4, StateFacts, NamesAssumption, WorkersAssumption
  DEF Start, ClientTo, ResetCounters, InRound
<1>5. ASSUME NEW c \in Clients, Enqueue(c) PROVE StartInv'
  BY <1>0, <1>5, StateFacts, NamesAssumption, WorkersAssumption
  DEF Enqueue, ClientTo, TakeSlot, MarkerAfter
<1>6. ASSUME NEW c \in Clients, Offer(c) PROVE StartInv'
  BY <1>0, <1>6, StateFacts, NamesAssumption, WorkersAssumption
  DEF Offer, ClientTo, WorkerTo, Schedule, Given
<1>7. ASSUME NEW c \in Clients, PassOver(c) PROVE StartInv'
  BY <1>0, <1>7, StateFacts, NamesAssumption, WorkersAssumption
  DEF PassOver, ClientTo
<1>8. ASSUME NEW c \in Clients, Added(c) PROVE StartInv'
  BY <1>0, <1>8, StateFacts, NamesAssumption, WorkersAssumption
  DEF Added, ClientTo, NoMoreOffers
<1>9. ASSUME NEW c \in Clients, Check(c) PROVE StartInv'
  BY <1>0, <1>9, StateFacts, NamesAssumption, WorkersAssumption
  DEF Check, ClientTo
<1>10. ASSUME NEW c \in Clients, WaitLock(c) PROVE StartInv'
  BY <1>0, <1>10, StateFacts, NamesAssumption, WorkersAssumption
  DEF WaitLock, ClientTo
<1>11. ASSUME NEW c \in Clients, WaitLoop(c) PROVE StartInv'
  BY <1>0, <1>11, StateFacts, NamesAssumption, WorkersAssumption
  DEF WaitLoop, ClientTo
<1>12. ASSUME NEW w \in Workers, Begin(w) PROVE StartInv'
  BY <1>0, <1>12, StateFacts, NamesAssumption, WorkersAssumption
  DEF Begin, WorkerTo
<1>13. ASSUME NEW w \in Workers, WakeUp(w) PROVE StartInv'
  BY <1>0, <1>13, StateFacts, NamesAssumption, WorkersAssumption
  DEF WakeUp, WorkerTo, Wakes
<1>14. ASSUME NEW w \in Workers, Top(w) PROVE StartInv'
  BY <1>0, <1>14, StateFacts, NamesAssumption, WorkersAssumption
  DEF Top, WorkerTo
<1>15. ASSUME NEW w \in Workers, Assign(w) PROVE StartInv'
  BY <1>0, <1>15, StateFacts, NamesAssumption, WorkersAssumption
  DEF Assign, WorkerTo
<1>16. ASSUME NEW w \in Workers, Task(w) PROVE StartInv'
  BY <1>0, <1>16, StateFacts, NamesAssumption, WorkersAssumption
  DEF Task, WorkerTo
<1>17. ASSUME NEW w \in Workers, Clear(w) PROVE StartInv'
  BY <1>0, <1>17, StateFacts, NamesAssumption, WorkersAssumption
  DEF Clear, WorkerTo
<1>18. ASSUME NEW w \in Workers, Count(w) PROVE StartInv'
  BY <1>0, <1>18, StateFacts, NamesAssumption, WorkersAssumption
  DEF Count, WorkerTo, IsDone
<1>19. ASSUME NEW w \in Workers, Continue(w) PROVE StartInv'
  BY <1>0, <1>19, StateFacts, NamesAssumption, WorkersAssumption
  DEF Continue, WorkerTo, ClientTo, Schedule, Given, ResumeServer, Asleep
<1>20. ASSUME NEW w \in Workers, Sleep(w) PROVE StartInv'
  BY <1>0, <1>20, StateFacts, NamesAssumption, WorkersAssumption
  DEF Sleep, WorkerTo, ClientTo, ResumeServer, Asleep
<1> QED
  BY <1>1, <1>2, <1>3, <1>4, <1>5, <1>6, <1>7, <1>8, <1>9, <1>10, <1>11, <1>12, <1>13,
     <1>14, <1>15, <1>16, <1>17, <1>18, <1>19, <1>20 DEF Next, ClientStep, WorkerStep

\* A worker is given a client exactly when it is woken or goes on.
LEMMA WorkerClientStep ==
    ASSUME QueueInv, Next PROVE WorkerInv'
<1> USE DEF queueVars, countVars, localVars, historyVars, WorkerInv, TypeOK, HasClient,
            StartInv
<1>0. ~WakeEarly /\ TypeOK /\ HolderInv /\ StartInv /\ WorkerInv /\ SleeperInv
  BY DEF QueueInv
<1>1. ASSUME NEW c \in Clients, CreateServer(c) PROVE WorkerInv'
  BY <1>0, <1>1, StateFacts, NamesAssumption, WorkersAssumption
  DEF CreateServer, ClientTo
<1>2. ASSUME NEW c \in Clients, ServerReady(c) PROVE WorkerInv'
  BY <1>0, <1>2, StateFacts, NamesAssumption, WorkersAssumption
  DEF ServerReady, ClientTo
<1>3. ASSUME NEW c \in Clients, FindServer(c) PROVE WorkerInv'
  BY <1>0, <1>3, StateFacts, NamesAssumption, WorkersAssumption
  DEF FindServer, ClientTo
<1>4. ASSUME NEW c \in Clients, Start(c) PROVE WorkerInv'
  BY <1>0, <1>4, StateFacts, NamesAssumption, WorkersAssumption
  DEF Start, ClientTo, ResetCounters, InRound
<1>5. ASSUME NEW c \in Clients, Enqueue(c) PROVE WorkerInv'
  BY <1>0, <1>5, StateFacts, NamesAssumption, WorkersAssumption
  DEF Enqueue, ClientTo, TakeSlot, MarkerAfter
<1>6. ASSUME NEW c \in Clients, Offer(c) PROVE WorkerInv'
  BY <1>0, <1>6, StateFacts, NamesAssumption, WorkersAssumption
  DEF Offer, ClientTo, WorkerTo, Schedule, Given
<1>7. ASSUME NEW c \in Clients, PassOver(c) PROVE WorkerInv'
  BY <1>0, <1>7, StateFacts, NamesAssumption, WorkersAssumption
  DEF PassOver, ClientTo
<1>8. ASSUME NEW c \in Clients, Added(c) PROVE WorkerInv'
  BY <1>0, <1>8, StateFacts, NamesAssumption, WorkersAssumption
  DEF Added, ClientTo, NoMoreOffers
<1>9. ASSUME NEW c \in Clients, Check(c) PROVE WorkerInv'
  BY <1>0, <1>9, StateFacts, NamesAssumption, WorkersAssumption
  DEF Check, ClientTo
<1>10. ASSUME NEW c \in Clients, WaitLock(c) PROVE WorkerInv'
  BY <1>0, <1>10, StateFacts, NamesAssumption, WorkersAssumption
  DEF WaitLock, ClientTo
<1>11. ASSUME NEW c \in Clients, WaitLoop(c) PROVE WorkerInv'
  BY <1>0, <1>11, StateFacts, NamesAssumption, WorkersAssumption
  DEF WaitLoop, ClientTo
<1>12. ASSUME NEW w \in Workers, Begin(w) PROVE WorkerInv'
  BY <1>0, <1>12, StateFacts, NamesAssumption, WorkersAssumption
  DEF Begin, WorkerTo
<1>13. ASSUME NEW w \in Workers, WakeUp(w) PROVE WorkerInv'
  BY <1>0, <1>13, StateFacts, NamesAssumption, WorkersAssumption
  DEF WakeUp, WorkerTo, Wakes
<1>14. ASSUME NEW w \in Workers, Top(w) PROVE WorkerInv'
  BY <1>0, <1>14, StateFacts, NamesAssumption, WorkersAssumption
  DEF Top, WorkerTo
<1>15. ASSUME NEW w \in Workers, Assign(w) PROVE WorkerInv'
  BY <1>0, <1>15, StateFacts, NamesAssumption, WorkersAssumption
  DEF Assign, WorkerTo
<1>16. ASSUME NEW w \in Workers, Task(w) PROVE WorkerInv'
  BY <1>0, <1>16, StateFacts, NamesAssumption, WorkersAssumption
  DEF Task, WorkerTo
<1>17. ASSUME NEW w \in Workers, Clear(w) PROVE WorkerInv'
  BY <1>0, <1>17, StateFacts, NamesAssumption, WorkersAssumption
  DEF Clear, WorkerTo
<1>18. ASSUME NEW w \in Workers, Count(w) PROVE WorkerInv'
  BY <1>0, <1>18, StateFacts, NamesAssumption, WorkersAssumption
  DEF Count, WorkerTo, IsDone
<1>19. ASSUME NEW w \in Workers, Continue(w) PROVE WorkerInv'
  BY <1>0, <1>19, StateFacts, NamesAssumption, WorkersAssumption
  DEF Continue, WorkerTo, ClientTo, Schedule, Given, ResumeServer, Asleep
<1>20. ASSUME NEW w \in Workers, Sleep(w) PROVE WorkerInv'
  BY <1>0, <1>20, StateFacts, NamesAssumption, WorkersAssumption
  DEF Sleep, WorkerTo, ClientTo, ResumeServer, Asleep
<1> QED
  BY <1>1, <1>2, <1>3, <1>4, <1>5, <1>6, <1>7, <1>8, <1>9, <1>10, <1>11, <1>12, <1>13,
     <1>14, <1>15, <1>16, <1>17, <1>18, <1>19, <1>20 DEF Next, ClientStep, WorkerStep

\* addClient passes no sleeper, and no worker falls asleep beside a client.
LEMMA SleeperStep ==
    ASSUME QueueInv, Next PROVE SleeperInv'
<1> USE DEF queueVars, countVars, localVars, historyVars, SleeperInv, TypeOK,
            WorkerInv, StartInv, HolderInv
<1>0. ~WakeEarly /\ TypeOK /\ HolderInv /\ StartInv /\ WorkerInv /\ SleeperInv
  BY DEF QueueInv
<1>1. ASSUME NEW c \in Clients, CreateServer(c) PROVE SleeperInv'
  BY <1>0, <1>1, StateFacts, NamesAssumption, WorkersAssumption
  DEF CreateServer, ClientTo
<1>2. ASSUME NEW c \in Clients, ServerReady(c) PROVE SleeperInv'
  BY <1>0, <1>2, StateFacts, NamesAssumption, WorkersAssumption
  DEF ServerReady, ClientTo
<1>3. ASSUME NEW c \in Clients, FindServer(c) PROVE SleeperInv'
  BY <1>0, <1>3, StateFacts, NamesAssumption, WorkersAssumption
  DEF FindServer, ClientTo
<1>4. ASSUME NEW c \in Clients, Start(c) PROVE SleeperInv'
  BY <1>0, <1>4, StateFacts, NamesAssumption, WorkersAssumption
  DEF Start, ClientTo, ResetCounters, InRound
<1>5. ASSUME NEW c \in Clients, Enqueue(c) PROVE SleeperInv'
  <2>1. cpc'[c] = "offer" /\ next' = 0
    BY <1>0, <1>5 DEF Enqueue, TakeSlot, ClientTo
  <2> QED BY <2>1 DEF Workers
<1>6. ASSUME NEW c \in Clients, Offer(c) PROVE SleeperInv'
  <2> SUFFICES ASSUME NEW x \in Workers, NEW s \in Slots, suspended'[x], waitingClients'[s] # NULL
               PROVE  \E e \in Clients : cpc'[e] = "offer" /\ next' <= x
    OBVIOUS
  <2>1. suspended[x] /\ x # next /\ waitingClients[s] # NULL
    BY <1>0, <1>6, StateFacts DEF Offer, Schedule, Given, WorkerTo
  <2>2. PICK e \in Clients : cpc[e] = "offer" /\ next <= x
    BY <1>0, <2>1
  <2>3. next + 1 <= x
    BY <1>0, <2>1, <2>2 DEF Workers
  <2> QED BY <1>6, <2>2, <2>3 DEF Offer
<1>7. ASSUME NEW c \in Clients, PassOver(c) PROVE SleeperInv'
  <2> SUFFICES ASSUME NEW x \in Workers, NEW s \in Slots, suspended'[x], waitingClients'[s] # NULL
               PROVE  \E e \in Clients : cpc'[e] = "offer" /\ next' <= x
    OBVIOUS
  <2>1. suspended[x] /\ x # next /\ waitingClients[s] # NULL
    BY <1>0, <1>7, StateFacts DEF PassOver
  <2>2. PICK e \in Clients : cpc[e] = "offer" /\ next <= x
    BY <1>0, <2>1
  <2>3. next + 1 <= x
    BY <1>0, <2>1, <2>2 DEF Workers
  <2> QED BY <1>7, <2>2, <2>3 DEF PassOver
<1>8. ASSUME NEW c \in Clients, Added(c) PROVE SleeperInv'
  <2> SUFFICES ASSUME NEW x \in Workers, NEW s \in Slots, suspended[x], waitingClients[s] # NULL
               PROVE  FALSE
    BY <1>8 DEF Added
  <2>1. next <= x
    BY <1>0
  <2>2. NextClientIndex # -1
    BY StateFacts
  <2>3. ~ (next < NumWorkers)
    BY <1>8, <2>2 DEF Added, NoMoreOffers
  <2> QED BY <1>0, <2>1, <2>3, WorkersAssumption DEF Workers
<1>9. ASSUME NEW c \in Clients, Check(c) PROVE SleeperInv'
  BY <1>0, <1>9, StateFacts, NamesAssumption, WorkersAssumption
  DEF Check, ClientTo
<1>10. ASSUME NEW c \in Clients, WaitLock(c) PROVE SleeperInv'
  BY <1>0, <1>10, StateFacts, NamesAssumption, WorkersAssumption
  DEF WaitLock, ClientTo
<1>11. ASSUME NEW c \in Clients, WaitLoop(c) PROVE SleeperInv'
  BY <1>0, <1>11, StateFacts, NamesAssumption, WorkersAssumption
  DEF WaitLoop, ClientTo
<1>12. ASSUME NEW w \in Workers, Begin(w) PROVE SleeperInv'
  BY <1>0, <1>12, StateFacts, NamesAssumption, WorkersAssumption
  DEF Begin, WorkerTo
<1>13. ASSUME NEW w \in Workers, WakeUp(w) PROVE SleeperInv'
  BY <1>0, <1>13, StateFacts, NamesAssumption, WorkersAssumption
  DEF WakeUp, WorkerTo, Wakes
<1>14. ASSUME NEW w \in Workers, Top(w) PROVE SleeperInv'
  BY <1>0, <1>14, StateFacts, NamesAssumption, WorkersAssumption
  DEF Top, WorkerTo
<1>15. ASSUME NEW w \in Workers, Assign(w) PROVE SleeperInv'
  BY <1>0, <1>15, StateFacts, NamesAssumption, WorkersAssumption
  DEF Assign, WorkerTo
<1>16. ASSUME NEW w \in Workers, Task(w) PROVE SleeperInv'
  BY <1>0, <1>16, StateFacts, NamesAssumption, WorkersAssumption
  DEF Task, WorkerTo
<1>17. ASSUME NEW w \in Workers, Clear(w) PROVE SleeperInv'
  BY <1>0, <1>17, StateFacts, NamesAssumption, WorkersAssumption
  DEF Clear, WorkerTo
<1>18. ASSUME NEW w \in Workers, Count(w) PROVE SleeperInv'
  BY <1>0, <1>18, StateFacts, NamesAssumption, WorkersAssumption
  DEF Count, WorkerTo, IsDone
<1>19. ASSUME NEW w \in Workers, Continue(w) PROVE SleeperInv'
  BY <1>0, <1>19, StateFacts, NamesAssumption, WorkersAssumption
  DEF Continue, WorkerTo, ClientTo, Schedule, Given, ResumeServer, Asleep
<1>20. ASSUME NEW w \in Workers, Sleep(w) PROVE SleeperInv'
  BY <1>0, <1>20, StateFacts, NamesAssumption, WorkersAssumption
  DEF Sleep, WorkerTo, ClientTo, ResumeServer, Asleep
<1> QED
  BY <1>1, <1>2, <1>3, <1>4, <1>5, <1>6, <1>7, <1>8, <1>9, <1>10, <1>11, <1>12, <1>13,
     <1>14, <1>15, <1>16, <1>17, <1>18, <1>19, <1>20 DEF Next, ClientStep, WorkerStep
-----------------------------------------------------------------------------
\* The invariant holds at the start.
LEMMA InitInv ==
    ASSUME ~WakeEarly, Init PROVE QueueInv
<1> USE WorkersAssumption, JobsAssumption, SettingsAssumption DEF Init
<1>1. TypeOK
  <2>1. marker \in Slots /\ next \in 0 .. NumWorkers /\ rounds \in [Clients -> 0 .. MaxRounds]
    BY DEF Slots
  <2>2. wpc \in [Workers -> WorkerStates] /\ cpc \in [Clients -> ClientStates]
    BY DEF ClientStates, WorkerStates
  <2>3. ran \in [Clients -> [Workers -> Nat]] /\ seqn \in [Workers -> Nat \cup {-1}]
    OBVIOUS
  <2> QED
    BY <2>1, <2>2, <2>3 DEF TypeOK
<1>2. HolderInv /\ StartInv /\ SleeperInv
  BY DEF HolderInv, StartInv, SleeperInv
<1>3. WorkerInv
  BY DEF WorkerInv, HasClient
<1> QED
  BY <1>1, <1>2, <1>3 DEF QueueInv

\* Every step keeps it.
LEMMA QueueInductive ==
    ASSUME QueueInv, [Next]_vars PROVE QueueInv'
<1>1. CASE Next
  BY <1>1, TypeStep, HolderStep, StartStep, WorkerClientStep, SleeperStep DEF QueueInv
<1>2. CASE UNCHANGED vars
  <2>1. UNCHANGED <<server, created, waitingClients, scheduledJobs, marker, assigned,
                    finished, cpc, next, m_client, suspended, wpc, tag, seqn, client,
                    done, rounds, overlap, ran, ids>>
    BY <1>2 DEF vars, queueVars, countVars, localVars, historyVars
  <2>2. TypeOK' /\ HolderInv' /\ StartInv'
    BY <2>1 DEF QueueInv, TypeOK, HolderInv, StartInv
  <2>3. WorkerInv' /\ SleeperInv'
    BY <2>1 DEF QueueInv, WorkerInv, SleeperInv
  <2> QED BY <2>2, <2>3 DEF QueueInv
<1> QED
  BY <1>1, <1>2

\* The invariant of the server's mutex, its queue and its sleepers (TaskQueue.cxx,
\* Server::threadFunc, deactivateThread and addClient), for any clients and
\* workers, when pthread_cond_wait returns only when signalled.
THEOREM QueueInvariant == ~WakeEarly /\ Spec => []QueueInv
<1>1. ~WakeEarly /\ Init => QueueInv
  BY InitInv
<1>2. QueueInv /\ [Next]_vars => QueueInv'
  BY QueueInductive
<1> QED
  BY <1>1, <1>2, PTL DEF Spec

\* Every variable keeps its type, the counters of jobs included.
THEOREM TypeCorrect == ~WakeEarly /\ Spec => []TypeOK
<1>1. QueueInv => TypeOK
  BY DEF QueueInv
<1> QED
  BY <1>1, QueueInvariant, PTL

\* The assertions of threadFunc and deactivateThread on the client of a running
\* worker hold.
THEOREM NoWorkerIdle == ~WakeEarly /\ Spec => []NoIdleWorker
<1>1. QueueInv => NoIdleWorker
  BY DEF QueueInv, WorkerInv, NoIdleWorker
<1> QED
  BY <1>1, QueueInvariant, PTL

\* With the server's mutex free no worker sleeps while a client has jobs left.
THEOREM NoSleeperBesideWork == ~WakeEarly /\ Spec => []NoJobWaitsForSleeper
<1>1. QueueInv => NoJobWaitsForSleeper
  <2> SUFFICES ASSUME QueueInv, server = NULL, NextClientIndex # -1, NEW w \in Workers, suspended[w]
               PROVE  FALSE
    BY DEF NoJobWaitsForSleeper, QueueInv, TypeOK
  <2>1. PICK s \in Slots : waitingClients[s] # NULL
    BY StateFacts
  <2>2. PICK c \in Clients : cpc[c] = "offer"
    BY <2>1 DEF QueueInv, SleeperInv
  <2> QED
    BY <2>2, NamesAssumption DEF QueueInv, HolderInv
<1> QED
  BY <1>1, QueueInvariant, PTL

-----------------------------------------------------------------------------
(* 2. The jobs *)

\* The queue, the jobs handed out of it, and the workers with a job of a client,
\* as operators of the variables they read.
LeftIn(queue, out, c) ==
    LET mine == {j \in Slots : queue[j] = c}
    IN  IF mine = {} THEN 0 ELSE Jobs[c] - out[CHOOSE j \in mine : TRUE]

HoldersIn(with, at, counting, c) ==
    {w \in Workers : with[w] = c \/ (at[w] = "count" /\ counting[w] = c)}

Holders(c) == HoldersIn(m_client, wpc, client, c)

Counted(c) == InRound(c) /\ cpc[c] # "add"

\* A client is in the queue once, and never without a job left.
OnceQueued ==
    \A i, j \in Slots : waitingClients[i] # NULL /\ waitingClients[i] = waitingClients[j] => i = j

StillLeft ==
    \A j \in Slots : waitingClients[j] # NULL => scheduledJobs[j] < Jobs[waitingClients[j]]

\* Outside a round, or before addClient, nothing of a client is around.
Balance(c) ==
    IF Counted(c) THEN finished[c] + JobsGiven(c) + JobsLeft(c) = Jobs[c]
    ELSE /\ JobsGiven(c) = 0
         /\ \A j \in Slots : waitingClients[j] # c
         /\ cpc[c] = "add" => finished[c] = 0

JobInv == OnceQueued /\ StillLeft /\ \A c \in Clients : Balance(c)
-----------------------------------------------------------------------------
\* The slot of a client says how many jobs are left; without one there is none.
LEMMA LeftOfQueued ==
    ASSUME NEW queue, NEW out, NEW c, NEW j \in Slots, queue[j] = c,
           \A i \in Slots : queue[i] = c => i = j
    PROVE  LeftIn(queue, out, c) = Jobs[c] - out[j]
<1>1. {i \in Slots : queue[i] = c} = {j}
  OBVIOUS
<1> QED
  BY <1>1 DEF LeftIn

\* A client without a slot has nothing left.
LEMMA LeftOfAbsent ==
    ASSUME NEW queue, NEW out, NEW c, \A i \in Slots : queue[i] # c
    PROVE  LeftIn(queue, out, c) = 0
<1>1. {i \in Slots : queue[i] = c} = {}
  OBVIOUS
<1> QED
  BY <1>1 DEF LeftIn

\* The workers with a job of a client are finitely many.
LEMMA HoldersFinite ==
    ASSUME NEW with, NEW at, NEW counting, NEW c
    PROVE  /\ IsFiniteSet(HoldersIn(with, at, counting, c))
           /\ Cardinality(HoldersIn(with, at, counting, c)) \in Nat
<1>1. IsFiniteSet(Workers)
  <2>1. 0 \in Int /\ NumWorkers - 1 \in Int
    BY WorkersAssumption
  <2> QED BY <2>1, FS_Interval DEF Workers
<1>2. HoldersIn(with, at, counting, c) \in SUBSET Workers
  BY DEF HoldersIn
<1>3. IsFiniteSet(HoldersIn(with, at, counting, c))
  BY <1>1, <1>2, FS_Subset
<1> QED
  BY <1>3, FS_CardinalityType

\* The two numbers of a client before and after a step.
LEMMA Numbers ==
    ASSUME NEW c \in Clients
    PROVE  /\ JobsLeft(c) = LeftIn(waitingClients, scheduledJobs, c)
           /\ JobsLeft(c)' = LeftIn(waitingClients', scheduledJobs', c)
           /\ JobsGiven(c) = Cardinality(HoldersIn(m_client, wpc, client, c))
           /\ JobsGiven(c)' = Cardinality(HoldersIn(m_client', wpc', client', c))
BY DEF JobsLeft, JobsGiven, LeftIn, HoldersIn

\* What is left of a client is a natural number; it is zero only outside the queue.
LEMMA LeftIsNatural ==
    ASSUME TypeOK, OnceQueued, StillLeft, NEW c \in Clients
    PROVE  /\ JobsLeft(c) \in Nat
           /\ JobsLeft(c) = 0 => \A j \in Slots : waitingClients[j] # c
<1>1. CASE \A j \in Slots : waitingClients[j] # c
  <2>1. LeftIn(waitingClients, scheduledJobs, c) = 0
    BY <1>1, LeftOfAbsent
  <2> QED
    BY <1>1, <2>1, Numbers
<1>2. CASE \E j \in Slots : waitingClients[j] = c
  <2>1. PICK j \in Slots : waitingClients[j] = c
    BY <1>2
  <2>2. c # NULL
    BY NamesAssumption
  <2>3. \A i \in Slots : waitingClients[i] = c => i = j
    BY <2>1, <2>2 DEF OnceQueued
  <2>4. JobsLeft(c) = Jobs[c] - scheduledJobs[j]
    <3>1. LeftIn(waitingClients, scheduledJobs, c) = Jobs[c] - scheduledJobs[j]
      BY <2>1, <2>3, LeftOfQueued
    <3> QED
      BY <3>1, Numbers
  <2>5. scheduledJobs[j] < Jobs[c] /\ scheduledJobs[j] \in Nat /\ Jobs[c] \in Nat
    BY <2>1, <2>2, JobsAssumption DEF StillLeft, TypeOK
  <2> QED
    BY <2>4, <2>5
<1> QED
  BY <1>1, <1>2

\* A client in the queue or with a worker is in a round, and has been added.
LEMMA BusyIsCounted ==
    ASSUME JobInv, NEW c \in Clients,
           (\E j \in Slots : waitingClients[j] = c) \/ Holders(c) # {}
    PROVE  Counted(c)
<1>1. Holders(c) # {} => JobsGiven(c) # 0
  BY Numbers, HoldersFinite, FS_EmptySet DEF Holders
<1> QED
  BY <1>1 DEF JobInv, Balance
-----------------------------------------------------------------------------
\* A step that leaves the queue and the jobs of the workers alone.
LEMMA QuietStep ==
    ASSUME JobInv, TypeOK, TypeOK',
           UNCHANGED <<waitingClients, scheduledJobs, m_client, client, finished>>,
           \A w \in Workers : wpc'[w] = "count" <=> wpc[w] = "count",
           \A c \in Clients : /\ Counted(c)' <=> Counted(c)
                              /\ cpc'[c] = "add" => cpc[c] = "add"
    PROVE  JobInv'
<1>1. OnceQueued' /\ StillLeft'
  BY DEF JobInv, OnceQueued, StillLeft
<1>2. ASSUME NEW c \in Clients PROVE Balance(c)'
  <2>1. HoldersIn(m_client', wpc', client', c) = HoldersIn(m_client, wpc, client, c)
    BY DEF HoldersIn
  <2>2. JobsGiven(c)' = JobsGiven(c) /\ JobsLeft(c)' = JobsLeft(c)
    BY <2>1, Numbers
  <2> QED
    BY <2>2 DEF JobInv, Balance
<1> QED
  BY <1>1, <1>2 DEF JobInv

\* schedule(w): a client of the queue has one job fewer to hand out.
HandsOut(w, j, d) ==
    /\ waitingClients[j] = d
    /\ m_client' = [m_client EXCEPT ![w] = d]
    /\ scheduledJobs' = [scheduledJobs EXCEPT ![j] = @ + 1]
    /\ waitingClients' = IF scheduledJobs[j] + 1 = Jobs[d]
                         THEN [waitingClients EXCEPT ![j] = NULL] ELSE waitingClients
    /\ JobsLeft(d)' = JobsLeft(d) - 1
    /\ \A c \in Clients \ {d} : JobsLeft(c)' = JobsLeft(c)

LEMMA HandedOut ==
    ASSUME JobInv, QueueInv, NEW w \in Workers, Schedule(w), NextClientIndex # -1
    PROVE  \E j \in Slots, d \in Clients : HandsOut(w, j, d)
<1>0. TypeOK /\ OnceQueued /\ StillLeft
  BY DEF QueueInv, JobInv
<1>a. PICK j \in Slots : j = NextClientIndex
  BY StateFacts
<1>b. PICK d \in Clients : d = waitingClients[j]
  BY <1>a, StateFacts
<1>1. j \in Slots /\ d \in Clients /\ d # NULL /\ waitingClients[j] = d
  BY <1>b, NamesAssumption
<1>2. /\ m_client' = [m_client EXCEPT ![w] = d]
      /\ scheduledJobs' = [scheduledJobs EXCEPT ![j] = @ + 1]
      /\ waitingClients' = IF scheduledJobs[j] + 1 = Jobs[d]
                           THEN [waitingClients EXCEPT ![j] = NULL] ELSE waitingClients
  BY <1>a, <1>b DEF Schedule, Given, LastJob
<1>3. /\ waitingClients \in [Slots -> Clients \cup {NULL}] /\ scheduledJobs \in [Slots -> Nat]
      /\ Jobs[d] \in Nat
  BY <1>0, <1>1, JobsAssumption DEF TypeOK
<1>4. \A i \in Slots : waitingClients[i] = d => i = j
  BY <1>0, <1>1 DEF OnceQueued
<1>5. JobsLeft(d)' = JobsLeft(d) - 1
  <2>2. JobsLeft(d) = Jobs[d] - scheduledJobs[j]
    <3>1. LeftIn(waitingClients, scheduledJobs, d) = Jobs[d] - scheduledJobs[j]
      BY <1>1, <1>4, LeftOfQueued
    <3> QED
      BY <3>1, Numbers
  <2>3. JobsLeft(d)' = JobsLeft(d) - 1
    <3>1. scheduledJobs[j] \in Nat /\ scheduledJobs'[j] = scheduledJobs[j] + 1
      BY <1>1, <1>2, <1>3
    <3>2. CASE scheduledJobs[j] + 1 = Jobs[d]
      <4>1. \A i \in Slots : waitingClients'[i] # d
        BY <1>1, <1>2, <1>3, <1>4, <3>2
      <4>2. JobsLeft(d)' = 0
        <5>1. LeftIn(waitingClients', scheduledJobs', d) = 0
          BY <4>1, LeftOfAbsent
        <5> QED
          BY <5>1, Numbers
      <4> QED
        BY <1>3, <2>2, <3>1, <3>2, <4>2
    <3>3. CASE scheduledJobs[j] + 1 # Jobs[d]
      <4>1. waitingClients'[j] = d /\ \A i \in Slots : waitingClients'[i] = d => i = j
        BY <1>1, <1>2, <1>4, <3>3
      <4>2. LeftIn(waitingClients', scheduledJobs', d) = Jobs[d] - scheduledJobs'[j]
        BY <4>1, LeftOfQueued
      <4>3. JobsLeft(d)' = Jobs[d] - scheduledJobs'[j]
        BY <4>2, Numbers
      <4> QED
        BY <1>3, <2>2, <3>1, <4>3
    <3> QED
      BY <3>2, <3>3
  <2> QED
    BY <2>3
<1>6. ASSUME NEW c \in Clients \ {d} PROVE JobsLeft(c)' = JobsLeft(c)
  <2>2. \A i \in Slots : waitingClients'[i] = c <=> waitingClients[i] = c
    <3>1. c # NULL
      BY NamesAssumption
    <3> QED
      BY <1>1, <1>2, <1>3, <1>6, <3>1
  <2>3. JobsLeft(c)' = JobsLeft(c)
    <3>1. CASE \A i \in Slots : waitingClients[i] # c
      <4>1. \A i \in Slots : waitingClients'[i] # c
        BY <2>2, <3>1
      <4>2. /\ LeftIn(waitingClients, scheduledJobs, c) = 0
            /\ LeftIn(waitingClients', scheduledJobs', c) = 0
        BY <3>1, <4>1, LeftOfAbsent
      <4> QED
        BY <4>2, Numbers
    <3>2. ASSUME NEW i \in Slots, waitingClients[i] = c PROVE JobsLeft(c)' = JobsLeft(c)
      <4>1. i # j /\ c # NULL
        BY <1>1, <1>6, <3>2, NamesAssumption
      <4>2. \A k \in Slots : waitingClients[k] = c => k = i
        BY <1>0, <3>2, <4>1 DEF OnceQueued
      <4>3. JobsLeft(c) = Jobs[c] - scheduledJobs[i]
        <5>1. LeftIn(waitingClients, scheduledJobs, c) = Jobs[c] - scheduledJobs[i]
          BY <3>2, <4>2, LeftOfQueued
        <5> QED
          BY <5>1, Numbers
      <4>4. JobsLeft(c)' = Jobs[c] - scheduledJobs'[i]
        <5>1. waitingClients'[i] = c /\ \A k \in Slots : waitingClients'[k] = c => k = i
          BY <2>2, <3>2, <4>2
        <5>2. LeftIn(waitingClients', scheduledJobs', c) = Jobs[c] - scheduledJobs'[i]
          BY <5>1, LeftOfQueued
        <5> QED
          BY <5>2, Numbers
      <4> QED
        BY <1>2, <1>3, <4>1, <4>3, <4>4
    <3> QED
      BY <3>1, <3>2
  <2> QED
    BY <2>3
<1> QED
  BY <1>1, <1>2, <1>5, <1>6 DEF HandsOut

\* schedule(w): one job goes from the queue to a worker that has none.
LEMMA HandStep ==
    ASSUME JobInv, QueueInv, TypeOK',
           NEW w \in Workers, Schedule(w), NextClientIndex # -1,
           m_client[w] = NULL, wpc[w] # "count",
           wpc'[w] # "count", \A v \in Workers \ {w} : wpc'[v] = wpc[v],
           UNCHANGED <<client, finished>>,
           \A c \in Clients : /\ Counted(c)' <=> Counted(c)
                              /\ cpc'[c] = "add" => cpc[c] = "add"
    PROVE  JobInv'
<1>0. TypeOK /\ OnceQueued /\ StillLeft
  BY DEF QueueInv, JobInv
<1>c. PICK j \in Slots, d \in Clients : HandsOut(w, j, d)
  BY HandedOut
<1>1. j \in Slots /\ d \in Clients /\ d # NULL /\ waitingClients[j] = d
  BY <1>c, NamesAssumption DEF HandsOut
<1>2. /\ m_client' = [m_client EXCEPT ![w] = d]
      /\ scheduledJobs' = [scheduledJobs EXCEPT ![j] = @ + 1]
      /\ waitingClients' = IF scheduledJobs[j] + 1 = Jobs[d]
                           THEN [waitingClients EXCEPT ![j] = NULL] ELSE waitingClients
  BY <1>c DEF HandsOut
<1>3. /\ waitingClients \in [Slots -> Clients \cup {NULL}] /\ scheduledJobs \in [Slots -> Nat]
      /\ m_client \in [Workers -> Clients \cup {NULL}] /\ wpc \in [Workers -> WorkerStates]
      /\ finished \in [Clients -> Nat] /\ Jobs[d] \in Nat
  BY <1>0, <1>1, JobsAssumption DEF TypeOK
<1>4. \A i \in Slots : waitingClients[i] = d => i = j
  BY <1>0, <1>1 DEF OnceQueued
<1>5. scheduledJobs[j] < Jobs[d]
  BY <1>0, <1>1 DEF StillLeft
<1>6. Counted(d)
  BY <1>1, BusyIsCounted
<1>7. OnceQueued'
  BY <1>0, <1>1, <1>2, <1>3 DEF OnceQueued
<1>8. StillLeft'
  <2> SUFFICES ASSUME NEW i \in Slots, waitingClients'[i] # NULL
               PROVE  scheduledJobs'[i] < Jobs[waitingClients'[i]]
    BY DEF StillLeft
  <2>1. CASE i = j
    <3>1. waitingClients'[i] = d /\ scheduledJobs[j] + 1 # Jobs[d]
      BY <1>1, <1>2, <1>3, <2>1
    <3>2. scheduledJobs'[i] = scheduledJobs[j] + 1 /\ scheduledJobs[j] \in Nat
      BY <1>1, <1>2, <1>3, <2>1
    <3> QED
      BY <1>3, <1>5, <3>1, <3>2
  <2>2. CASE i # j
    BY <1>0, <1>2, <1>3, <2>2 DEF StillLeft
  <2> QED
    BY <2>1, <2>2
<1>9. Balance(d)'
  <2>1. JobsGiven(d)' = JobsGiven(d) + 1 /\ JobsGiven(d) \in Nat
    <3> DEFINE H == HoldersIn(m_client, wpc, client, d)
    <3>1. HoldersIn(m_client', wpc', client', d) = H \cup {w}
      BY <1>1, <1>2, <1>3 DEF HoldersIn
    <3>2. w \notin H
      BY <1>1 DEF HoldersIn
    <3>3. IsFiniteSet(H) /\ Cardinality(H) \in Nat
      BY HoldersFinite
    <3>4. Cardinality(H \cup {w}) = Cardinality(H) + 1
      <4> HIDE DEF H
      <4> QED BY <3>2, <3>3, FS_AddElement
    <3> QED
      BY <1>1, <3>1, <3>3, <3>4, Numbers
  <2>3. JobsLeft(d)' = JobsLeft(d) - 1
    BY <1>c DEF HandsOut
  <2>4. JobsLeft(d) \in Nat /\ finished[d] \in Nat /\ finished'[d] = finished[d]
    BY <1>0, <1>1, <1>3, LeftIsNatural
  <2>5. finished[d] + JobsGiven(d) + JobsLeft(d) = Jobs[d]
    BY <1>1, <1>6 DEF JobInv, Balance
  <2>6. finished'[d] + JobsGiven(d)' + JobsLeft(d)' = Jobs[d]
    BY <1>3, <2>1, <2>3, <2>4, <2>5
  <2> QED
    BY <1>1, <1>6, <2>6 DEF Balance
<1>10. ASSUME NEW c \in Clients, c # d PROVE Balance(c)'
  <2>1. HoldersIn(m_client', wpc', client', c) = HoldersIn(m_client, wpc, client, c)
    <3>1. c # NULL
      BY NamesAssumption
    <3> QED
      BY <1>2, <1>3, <1>10, <3>1 DEF HoldersIn
  <2>2. \A i \in Slots : waitingClients'[i] = c <=> waitingClients[i] = c
    <3>1. c # NULL
      BY NamesAssumption
    <3> QED
      BY <1>1, <1>2, <1>3, <1>10, <3>1
  <2>3. JobsLeft(c)' = JobsLeft(c)
    BY <1>10, <1>c DEF HandsOut
  <2>4. JobsGiven(c)' = JobsGiven(c)
    BY <2>1, Numbers
  <2> QED
    BY <2>2, <2>3, <2>4 DEF JobInv, Balance
<1> QED
  BY <1>7, <1>8, <1>9, <1>10 DEF JobInv

\* startThreads begins with nothing of the client around.
LEMMA StartJobs ==
    ASSUME JobInv, QueueInv, TypeOK', NEW c \in Clients, Start(c) PROVE JobInv'
<1>1. /\ UNCHANGED <<waitingClients, scheduledJobs, m_client, client, wpc>>
      /\ finished' = [finished EXCEPT ![c] = 0] /\ cpc' = [cpc EXCEPT ![c] = "add"]
      /\ cpc[c] = "idle" /\ cpc \in [Clients -> ClientStates]
      /\ finished \in [Clients -> Nat]
  BY DEF Start, ResetCounters, ClientTo, queueVars, localVars, QueueInv, TypeOK
<1>2. OnceQueued' /\ StillLeft'
  BY <1>1 DEF JobInv, OnceQueued, StillLeft
<1>3. ASSUME NEW d \in Clients PROVE Balance(d)'
  <2>1. JobsGiven(d)' = JobsGiven(d) /\ JobsLeft(d)' = JobsLeft(d)
    BY <1>1, Numbers
  <2>2. Balance(d)
    BY DEF JobInv
  <2>3. CASE d = c
    <3>1. JobsGiven(d) = 0 /\ \A j \in Slots : waitingClients[j] # d
      BY <1>1, <2>2, <2>3 DEF Balance, Counted, InRound
    <3>2. cpc'[d] = "add" /\ finished'[d] = 0
      BY <1>1, <2>3
    <3> QED
      BY <1>1, <2>1, <3>1, <3>2 DEF Balance, Counted
  <2>4. CASE d # c
    <3>1. cpc'[d] = cpc[d] /\ finished'[d] = finished[d]
      BY <1>1, <2>4
    <3> QED
      BY <1>1, <2>1, <2>2, <3>1 DEF Balance, Counted, InRound
  <2> QED
    BY <2>3, <2>4
<1> QED
  BY <1>2, <1>3 DEF JobInv

\* addClient puts all jobs of the client into one free slot.
LEMMA EnqueueLeft ==
    ASSUME JobInv, QueueInv, NEW c \in Clients, Enqueue(c) PROVE JobsLeft(c)' = Jobs[c]
<1>a. marker \in Slots /\ FreeSlot # -1
  BY DEF Enqueue, TakeSlot, QueueInv, TypeOK
<1>b. FreeSlot \in {j \in Slots : waitingClients[j] = NULL}
  BY <1>a, FirstSlotFinds DEF FreeSlot
<1>c. PICK s \in Slots : s = FreeSlot
  BY <1>b
<1>1. /\ waitingClients' = [waitingClients EXCEPT ![s] = c]
      /\ scheduledJobs' = [scheduledJobs EXCEPT ![s] = 0]
      /\ \A j \in Slots : waitingClients[j] # c
  BY <1>c DEF Enqueue, TakeSlot, JobInv, Balance, Counted
<1>2. /\ waitingClients \in [Slots -> Clients \cup {NULL}] /\ scheduledJobs \in [Slots -> Nat]
      /\ Jobs[c] \in Nat
  BY JobsAssumption DEF QueueInv, TypeOK
<1>3. waitingClients'[s] = c /\ scheduledJobs'[s] = 0
      /\ \A i \in Slots : waitingClients'[i] = c => i = s
  BY <1>1, <1>2
<1>4. LeftIn(waitingClients', scheduledJobs', c) = Jobs[c] - scheduledJobs'[s]
  BY <1>3, LeftOfQueued
<1> QED
  BY <1>2, <1>3, <1>4, Numbers

\* addClient keeps the books: all jobs of the client are in its slot.
LEMMA EnqueueJobs ==
    ASSUME JobInv, QueueInv, TypeOK', NEW c \in Clients, Enqueue(c) PROVE JobInv'
<1>a. marker \in Slots /\ FreeSlot # -1
  BY DEF Enqueue, TakeSlot, QueueInv, TypeOK
<1>b. FreeSlot \in {j \in Slots : waitingClients[j] = NULL}
  BY <1>a, FirstSlotFinds DEF FreeSlot
<1>c. PICK s \in Slots : s = FreeSlot /\ waitingClients[s] = NULL
  BY <1>b
<1>1. /\ waitingClients' = [waitingClients EXCEPT ![s] = c]
      /\ scheduledJobs' = [scheduledJobs EXCEPT ![s] = 0]
      /\ cpc' = [cpc EXCEPT ![c] = "offer"] /\ cpc[c] = "add"
      /\ UNCHANGED <<m_client, client, wpc, finished>>
  BY <1>c DEF Enqueue, TakeSlot, ClientTo, countVars, localVars
<1>2. /\ waitingClients \in [Slots -> Clients \cup {NULL}] /\ scheduledJobs \in [Slots -> Nat]
      /\ cpc \in [Clients -> ClientStates] /\ finished \in [Clients -> Nat]
      /\ \A d \in Clients : Jobs[d] \in Nat \ {0} /\ d # NULL
  BY JobsAssumption, NamesAssumption DEF QueueInv, TypeOK
<1>3. /\ JobsGiven(c) = 0 /\ finished[c] = 0
      /\ \A j \in Slots : waitingClients[j] # c
  BY <1>1 DEF JobInv, Balance, Counted
<1>4. OnceQueued'
  BY <1>1, <1>2, <1>3 DEF JobInv, OnceQueued
<1>5. StillLeft'
  BY <1>1, <1>2 DEF JobInv, StillLeft
<1>6. Balance(c)'
  <2>1. JobsGiven(c)' = 0
    BY <1>1, <1>3, Numbers
  <2>4. JobsLeft(c)' = Jobs[c]
    BY EnqueueLeft
  <2>5. Counted(c)' /\ finished'[c] = 0
    BY <1>1, <1>2, <1>3 DEF Counted, InRound
  <2> QED
    BY <1>2, <2>1, <2>4, <2>5 DEF Balance
<1>7. ASSUME NEW d \in Clients, d # c PROVE Balance(d)'
  <2>1. JobsGiven(d)' = JobsGiven(d)
    BY <1>1, Numbers
  <2>2. \A i \in Slots : /\ waitingClients'[i] = d <=> waitingClients[i] = d
                         /\ waitingClients[i] = d => scheduledJobs'[i] = scheduledJobs[i]
    BY <1>1, <1>2, <1>c, <1>7
  <2>3. JobsLeft(d)' = JobsLeft(d)
    <3>1. CASE \A i \in Slots : waitingClients[i] # d
      <4>1. \A i \in Slots : waitingClients'[i] # d
        BY <2>2, <3>1
      <4>2. /\ LeftIn(waitingClients, scheduledJobs, d) = 0
            /\ LeftIn(waitingClients', scheduledJobs', d) = 0
        BY <3>1, <4>1, LeftOfAbsent
      <4> QED
        BY <4>2, Numbers
    <3>2. ASSUME NEW i \in Slots, waitingClients[i] = d PROVE JobsLeft(d)' = JobsLeft(d)
      <4>1. \A k \in Slots : waitingClients[k] = d => k = i
        BY <1>2, <3>2 DEF JobInv, OnceQueued
      <4>2. waitingClients'[i] = d /\ \A k \in Slots : waitingClients'[k] = d => k = i
        BY <2>2, <3>2, <4>1
      <4>3. LeftIn(waitingClients, scheduledJobs, d) = Jobs[d] - scheduledJobs[i]
        BY <3>2, <4>1, LeftOfQueued
      <4>4. LeftIn(waitingClients', scheduledJobs', d) = Jobs[d] - scheduledJobs'[i]
        BY <4>2, LeftOfQueued
      <4> QED
        BY <2>2, <3>2, <4>3, <4>4, Numbers
    <3> QED
      BY <3>1, <3>2
  <2>4. cpc'[d] = cpc[d] /\ finished'[d] = finished[d]
    BY <1>1, <1>2, <1>7
  <2> QED
    BY <2>1, <2>2, <2>3, <2>4 DEF JobInv, Balance, Counted, InRound
<1> QED
  BY <1>4, <1>5, <1>6, <1>7 DEF JobInv

\* waitForAllThreads returns only with all jobs counted.
LEMMA ReturnJobs ==
    ASSUME JobInv, QueueInv, NEW c \in Clients, Counted(c), finished[c] >= Jobs[c],
           UNCHANGED <<waitingClients, scheduledJobs, m_client, client, wpc, finished>>,
           cpc' = [cpc EXCEPT ![c] = "idle"]
    PROVE  JobInv'
<1>1. OnceQueued' /\ StillLeft' /\ TypeOK
  BY DEF JobInv, OnceQueued, StillLeft, QueueInv
<1>2. ASSUME NEW d \in Clients PROVE Balance(d)'
  <2>1. JobsGiven(d)' = JobsGiven(d) /\ JobsLeft(d)' = JobsLeft(d)
    BY Numbers
  <2>2. cpc \in [Clients -> ClientStates] /\ Balance(d)
    BY <1>1 DEF TypeOK, JobInv
  <2>3. CASE d = c
    <3>1. finished[c] + JobsGiven(c) + JobsLeft(c) = Jobs[c]
      BY DEF JobInv, Balance
    <3>2. finished[c] \in Nat /\ JobsGiven(c) \in Nat /\ JobsLeft(c) \in Nat /\ Jobs[c] \in Nat
      BY <1>1, LeftIsNatural, Numbers, HoldersFinite, JobsAssumption DEF JobInv, TypeOK
    <3>3. JobsGiven(c) = 0 /\ JobsLeft(c) = 0
      BY <3>1, <3>2
    <3>4. \A j \in Slots : waitingClients[j] # c
      BY <1>1, <3>3, LeftIsNatural DEF JobInv
    <3> QED
      BY <2>1, <2>2, <2>3, <3>3, <3>4 DEF Balance, Counted, InRound
  <2>4. CASE d # c
    <3>1. cpc'[d] = cpc[d]
      BY <2>2, <2>4
    <3> QED
      BY <2>1, <2>2, <3>1 DEF Balance, Counted, InRound
  <2> QED
    BY <2>3, <2>4
<1> QED
  BY <1>1, <1>2 DEF JobInv

\* deactivateThread first keeps the client of its job in a local variable ...
LEMMA ClearJobs ==
    ASSUME JobInv, QueueInv, NEW w \in Workers, Clear(w) PROVE JobInv'
<1>1. /\ client' = [client EXCEPT ![w] = m_client[w]]
      /\ m_client' = [m_client EXCEPT ![w] = NULL]
      /\ wpc' = [wpc EXCEPT ![w] = "count"] /\ wpc[w] = "clear"
      /\ UNCHANGED <<waitingClients, scheduledJobs, finished, cpc>>
  BY DEF Clear, WorkerTo, queueVars, countVars
<1>2. /\ m_client \in [Workers -> Clients \cup {NULL}] /\ wpc \in [Workers -> WorkerStates]
      /\ client \in [Workers -> Clients \cup {NULL}]
  BY DEF QueueInv, TypeOK
<1>3. OnceQueued' /\ StillLeft'
  BY <1>1 DEF JobInv, OnceQueued, StillLeft
<1>4. ASSUME NEW d \in Clients PROVE Balance(d)'
  <2>1. d # NULL
    BY NamesAssumption
  <2>2. HoldersIn(m_client', wpc', client', d) = HoldersIn(m_client, wpc, client, d)
    <3>1. ASSUME NEW v \in Workers
          PROVE  (m_client'[v] = d \/ (wpc'[v] = "count" /\ client'[v] = d))
                 <=> (m_client[v] = d \/ (wpc[v] = "count" /\ client[v] = d))
      BY <1>1, <1>2, <2>1
    <3> QED
      BY <3>1 DEF HoldersIn
  <2>3. JobsGiven(d)' = JobsGiven(d) /\ JobsLeft(d)' = JobsLeft(d)
    BY <1>1, <2>2, Numbers
  <2> QED
    BY <1>1, <2>3 DEF JobInv, Balance, Counted, InRound
<1> QED
  BY <1>3, <1>4 DEF JobInv

\* ... and then counts the job for that client.
LEMMA CountJobs ==
    ASSUME JobInv, QueueInv, TypeOK', NEW w \in Workers, Count(w) PROVE JobInv'
<1>a. PICK d \in Clients : d = client[w]
  BY StateFacts DEF Count
<1>1. /\ finished' = [finished EXCEPT ![d] = @ + 1]
      /\ wpc' = [wpc EXCEPT ![w] = "next"] /\ wpc[w] = "count"
      /\ UNCHANGED <<waitingClients, scheduledJobs, m_client, client, cpc>>
  BY <1>a DEF Count, WorkerTo, queueVars
<1>2. /\ wpc \in [Workers -> WorkerStates] /\ finished \in [Clients -> Nat]
      /\ m_client[w] = NULL /\ TypeOK
  BY <1>1 DEF QueueInv, TypeOK, WorkerInv, HasClient
<1>3. OnceQueued' /\ StillLeft'
  BY <1>1 DEF JobInv, OnceQueued, StillLeft
<1>4. \A c \in Clients : JobsLeft(c)' = JobsLeft(c) /\ c # NULL
  BY <1>1, Numbers, NamesAssumption
<1>b. \A c \in Clients : Counted(c)' <=> Counted(c)
  BY <1>1 DEF Counted, InRound
<1>5. Balance(d)'
  <2> DEFINE H == HoldersIn(m_client, wpc, client, d)
  <2>1. w \in H /\ IsFiniteSet(H) /\ Cardinality(H) \in Nat
    <3>1. w \in H
      BY <1>a, <1>1 DEF HoldersIn
    <3> QED
      BY <3>1, HoldersFinite
  <2>2. HoldersIn(m_client', wpc', client', d) = H \ {w}
    <3>1. ASSUME NEW v \in Workers
          PROVE  (m_client'[v] = d \/ (wpc'[v] = "count" /\ client'[v] = d))
                 <=> v # w /\ (m_client[v] = d \/ (wpc[v] = "count" /\ client[v] = d))
      BY <1>1, <1>2, <1>4
    <3> QED
      BY <3>1 DEF HoldersIn
  <2>3. Cardinality(H \ {w}) = Cardinality(H) - 1
    <3> HIDE DEF H
    <3> QED BY <2>1, FS_RemoveElement
  <2>4. JobsGiven(d)' = JobsGiven(d) - 1 /\ JobsGiven(d) \in Nat
    BY <2>1, <2>2, <2>3, Numbers
  <2>5. Counted(d)
    BY <2>1, BusyIsCounted DEF Holders
  <2>6. finished[d] + JobsGiven(d) + JobsLeft(d) = Jobs[d]
    BY <2>5 DEF JobInv, Balance
  <2>7. finished'[d] = finished[d] + 1 /\ finished[d] \in Nat /\ JobsLeft(d) \in Nat
    BY <1>1, <1>2, LeftIsNatural DEF JobInv
  <2>8. finished'[d] + JobsGiven(d)' + JobsLeft(d)' = Jobs[d]
    BY <1>4, <2>4, <2>6, <2>7
  <2> QED
    BY <1>b, <2>5, <2>8 DEF Balance
<1>6. ASSUME NEW c \in Clients, c # d PROVE Balance(c)'
  <2>1. HoldersIn(m_client', wpc', client', c) = HoldersIn(m_client, wpc, client, c)
    <3>1. ASSUME NEW v \in Workers
          PROVE  (m_client'[v] = c \/ (wpc'[v] = "count" /\ client'[v] = c))
                 <=> (m_client[v] = c \/ (wpc[v] = "count" /\ client[v] = c))
      BY <1>a, <1>1, <1>2, <1>6
    <3> QED
      BY <3>1 DEF HoldersIn
  <2>2. JobsGiven(c)' = JobsGiven(c) /\ finished'[c] = finished[c]
    BY <1>1, <1>2, <1>6, <2>1, Numbers
  <2> QED
    BY <1>1, <1>4, <1>b, <2>2 DEF JobInv, Balance
<1> QED
  BY <1>3, <1>5, <1>6 DEF JobInv
-----------------------------------------------------------------------------
\* Every step keeps the invariant.
LEMMA JobsInductive ==
    ASSUME JobInv, QueueInv, [Next]_vars PROVE JobInv'
<1> USE DEF queueVars, countVars, localVars, historyVars
<1>0. TypeOK /\ TypeOK' /\ ~WakeEarly
  BY QueueInductive DEF QueueInv
<1>a. cpc \in [Clients -> ClientStates] /\ wpc \in [Workers -> WorkerStates]
  BY <1>0 DEF TypeOK
<1>1. ASSUME NEW c \in Clients,
             CreateServer(c) \/ ServerReady(c) \/ FindServer(c) \/ PassOver(c) \/ Added(c)
             \/ WaitLock(c)
      PROVE  JobInv'
  <2>1. UNCHANGED <<waitingClients, scheduledJobs, m_client, client, finished>>
    BY <1>1 DEF CreateServer, ServerReady, FindServer, PassOver, Added, WaitLock
  <2>2. \A v \in Workers : wpc'[v] = "count" <=> wpc[v] = "count"
    <3>1. CASE CreateServer(c)
      BY <3>1, <1>0 DEF CreateServer, QueueInv, StartInv
    <3>2. CASE ~CreateServer(c)
      BY <1>1, <3>2 DEF ServerReady, FindServer, PassOver, Added, WaitLock
    <3> QED
      BY <3>1, <3>2
  <2>3. \A d \in Clients : /\ Counted(d)' <=> Counted(d)
                           /\ cpc'[d] = "add" => cpc[d] = "add"
    BY <1>1, <1>a DEF CreateServer, ServerReady, FindServer, PassOver, Added, WaitLock,
       ClientTo, Counted, InRound
  <2> QED
    BY <1>0, <2>1, <2>2, <2>3, QuietStep
<1>2. ASSUME NEW w \in Workers,
             Begin(w) \/ WakeUp(w) \/ Top(w) \/ Assign(w) \/ Task(w) \/ Sleep(w)
      PROVE  JobInv'
  <2>1. UNCHANGED <<waitingClients, scheduledJobs, m_client, client, finished>>
    BY <1>2 DEF Begin, WakeUp, Top, Assign, Task, Sleep
  <2>2. \A v \in Workers : wpc'[v] = "count" <=> wpc[v] = "count"
    <3>1. PICK state \in WorkerStates \ {"count"} : wpc' = [wpc EXCEPT ![w] = state]
      BY <1>2 DEF Begin, WakeUp, Top, Assign, Task, Sleep, WorkerTo, WorkerStates
    <3>2. wpc[w] # "count"
      BY <1>2 DEF Begin, WakeUp, Wakes, Top, Assign, Task, Sleep
    <3> QED
      BY <1>a, <3>1, <3>2
  <2>3. \A d \in Clients : /\ Counted(d)' <=> Counted(d)
                           /\ cpc'[d] = "add" => cpc[d] = "add"
    <3>1. CASE UNCHANGED cpc
      BY <3>1 DEF Counted, InRound
    <3>2. CASE \E c \in Clients : cpc[c] = "asleep" /\ cpc' = [cpc EXCEPT ![c] = "relock"]
      BY <1>a, <3>2 DEF Counted, InRound
    <3> QED
      BY <1>2, <3>1, <3>2 DEF Begin, WakeUp, Top, Assign, Task, Sleep, ResumeServer, Asleep,
         ClientTo
  <2> QED
    BY <1>0, <2>1, <2>2, <2>3, QuietStep
<1>3. ASSUME NEW c \in Clients, Check(c) \/ WaitLoop(c) PROVE JobInv'
  <2>1. UNCHANGED <<waitingClients, scheduledJobs, m_client, client, wpc, finished>>
        /\ Counted(c)
    BY <1>3 DEF Check, WaitLoop, Counted, InRound
  <2>2. finished[c] \in Nat /\ Jobs[c] \in Nat
    BY <1>0, JobsAssumption DEF TypeOK
  <2>3. CASE cpc' = [cpc EXCEPT ![c] = "idle"]
    <3>1. CASE finished[c] >= Jobs[c]
      BY <2>1, <2>3, <3>1, ReturnJobs
    <3>2. CASE ~ (finished[c] >= Jobs[c])
      <4>1. cpc'[c] # "idle"
        BY <1>3, <1>a, <2>2, <3>2 DEF Check, WaitLoop, ClientTo
      <4> QED
        BY <1>a, <2>3, <4>1
    <3> QED
      BY <3>1, <3>2
  <2>4. CASE cpc' = [cpc EXCEPT ![c] = "lock"] \/ cpc' = [cpc EXCEPT ![c] = "asleep"]
    <3>1. \A d \in Clients : /\ Counted(d)' <=> Counted(d)
                             /\ cpc'[d] = "add" => cpc[d] = "add"
      BY <1>a, <2>1, <2>4 DEF Counted, InRound
    <3> QED
      BY <1>0, <2>1, <3>1, QuietStep
  <2> QED
    BY <1>3, <2>3, <2>4 DEF Check, WaitLoop, ClientTo
<1>4. ASSUME NEW c \in Clients, Offer(c) PROVE JobInv'
  <2>1. PICK w \in Workers : w = next
    BY <1>4, StateFacts DEF Offer, QueueInv, TypeOK
  <2>2. Schedule(w) /\ NextClientIndex # -1 /\ UNCHANGED <<client, finished, cpc>>
        /\ wpc' = [wpc EXCEPT ![w] = "woken"] /\ suspended[w]
    BY <1>4, <2>1 DEF Offer, WorkerTo
  <2>3. wpc[w] = "asleep" /\ m_client[w] = NULL
    BY <2>2 DEF QueueInv, WorkerInv, HasClient
  <2>4. \A d \in Clients : /\ Counted(d)' <=> Counted(d)
                           /\ cpc'[d] = "add" => cpc[d] = "add"
    BY <2>2 DEF Counted, InRound
  <2>5. wpc[w] # "count" /\ wpc'[w] # "count" /\ \A v \in Workers \ {w} : wpc'[v] = wpc[v]
    BY <1>a, <2>2, <2>3
  <2> QED
    BY <1>0, <2>2, <2>3, <2>4, <2>5, HandStep
<1>5. ASSUME NEW w \in Workers, Continue(w) PROVE JobInv'
  <2>1. Schedule(w) /\ NextClientIndex # -1 /\ UNCHANGED <<client, finished>>
        /\ wpc' = [wpc EXCEPT ![w] = "top"] /\ wpc[w] = "next"
    BY <1>5 DEF Continue, WorkerTo
  <2>2. m_client[w] = NULL
    BY <2>1 DEF QueueInv, WorkerInv, HasClient
  <2>3. \A d \in Clients : /\ Counted(d)' <=> Counted(d)
                           /\ cpc'[d] = "add" => cpc[d] = "add"
    BY <1>5, <1>a DEF Continue, ResumeServer, Asleep, ClientTo, Counted, InRound
  <2>4. wpc[w] # "count" /\ wpc'[w] # "count" /\ \A v \in Workers \ {w} : wpc'[v] = wpc[v]
    BY <1>a, <2>1
  <2> QED
    BY <1>0, <2>1, <2>2, <2>3, <2>4, HandStep
<1>6. CASE UNCHANGED vars
  <2>1. UNCHANGED <<waitingClients, scheduledJobs, m_client, client, finished, wpc, cpc>>
    BY <1>6 DEF vars
  <2>2. \A d \in Clients : Counted(d)' <=> Counted(d)
    BY <2>1 DEF Counted, InRound
  <2> QED
    BY <1>0, <2>1, <2>2, QuietStep
<1> QED
  BY <1>0, <1>1, <1>2, <1>3, <1>4, <1>5, <1>6, StartJobs, EnqueueJobs, ClearJobs, CountJobs
  DEF Next, ClientStep, WorkerStep

\* Nothing is queued, handed out or counted in the beginning.
LEMMA InitJobs == Init => JobInv
<1> SUFFICES ASSUME Init PROVE JobInv
  OBVIOUS
<1>1. \A c \in Clients : c # NULL /\ cpc[c] = "create"
  BY NamesAssumption DEF Init
<1>2. \A c \in Clients : Holders(c) = {}
  BY <1>1 DEF Init, Holders, HoldersIn
<1>3. \A c \in Clients : JobsGiven(c) = 0
  BY <1>2, Numbers, FS_EmptySet DEF Holders
<1>4. \A j \in Slots : waitingClients[j] = NULL
  BY DEF Init
<1> QED
  BY <1>1, <1>3, <1>4 DEF JobInv, OnceQueued, StillLeft, Balance, Counted, InRound

\* Each job of a round is in one place, and a client in the queue once
\* (addClient, schedule, deactivateThread), whatever rounds overlap.
THEOREM NoJobLost == ~WakeEarly /\ Spec => []JobsAccounted
<1>1. JobInv => JobsAccounted
  <2> SUFFICES ASSUME JobInv, NEW c \in Clients, Counted(c)
               PROVE  /\ finished[c] + JobsGiven(c) + JobsLeft(c) = Jobs[c]
                      /\ Cardinality({j \in Slots : waitingClients[j] = c}) <= 1
    BY DEF JobsAccounted, Counted
  <2>1. finished[c] + JobsGiven(c) + JobsLeft(c) = Jobs[c]
    BY DEF JobInv, Balance
  <2> DEFINE mine == {j \in Slots : waitingClients[j] = c}
  <2>2. c # NULL
    BY NamesAssumption
  <2>3. mine = {} \/ \E j \in Slots : mine = {j}
    BY <2>2 DEF JobInv, OnceQueued
  <2>4. Cardinality(mine) = 0 \/ Cardinality(mine) = 1
    <3> HIDE DEF mine
    <3> QED BY <2>3, FS_EmptySet, FS_Singleton
  <2>5. Cardinality(mine) <= 1
    BY <2>4
  <2> QED
    BY <2>1, <2>5
<1>2. JobInv /\ QueueInv /\ [Next]_vars => JobInv'
  BY JobsInductive
<1> QED
  BY <1>1, <1>2, InitJobs, QueueInvariant, PTL DEF Spec

-----------------------------------------------------------------------------
(* 3. Sums *)

\* A set of subsets that has s whenever it has s without any of its elements has
\* every subset of a finite set.
LEMMA EverySubset ==
    ASSUME NEW D, IsFiniteSet(D), NEW Good \in SUBSET SUBSET D,
           \A s \in SUBSET D : (\A x \in s : s \ {x} \in Good) => s \in Good
    PROVE  Good = SUBSET D
<1> DEFINE Bad == {n \in Nat : \E s \in SUBSET D : s \notin Good /\ Cardinality(s) = n}
<1>1. \A s \in SUBSET D : IsFiniteSet(s) /\ Cardinality(s) \in Nat
  BY FS_Subset, FS_CardinalityType
<1>2. CASE Bad # {}
  <2>1. PICK n \in Bad : \A m \in Bad : n <= m
    <3>1. Bad \in SUBSET Nat
      OBVIOUS
    <3> HIDE DEF Bad
    <3> QED BY <1>2, <3>1, LeastElement
  <2>2. PICK s \in SUBSET D : s \notin Good /\ Cardinality(s) = n
    BY <2>1
  <2>3. PICK x \in s : s \ {x} \notin Good
    BY <2>2
  <2>4. s \ {x} \in SUBSET D /\ s \ {x} \notin Good
    BY <2>2, <2>3
  <2>5. Cardinality(s \ {x}) = n - 1
    BY <1>1, <2>2, <2>3, FS_RemoveElement
  <2>6. Cardinality(s \ {x}) \in Bad /\ n \in Nat
    BY <1>1, <2>4
  <2> HIDE DEF Bad
  <2> QED
    BY <2>1, <2>5, <2>6
<1>3. CASE Bad = {}
  <2>1. ASSUME NEW s \in SUBSET D PROVE s \in Good
    <3>1. s \notin Good => Cardinality(s) \in Bad
      BY <1>1
    <3> HIDE DEF Bad
    <3> QED BY <1>3, <3>1
  <2> QED BY <2>1
<1> QED
  BY <1>2, <1>3

\* The element that a sum over s takes out first.
Picked(s) == CHOOSE x \in s : TRUE

\* SumFunction adds up a function by going down its domain.
SumsTo(f, sum, subsets) ==
    sum = [s \in subsets |-> IF s = {} THEN 0
                             ELSE f[Picked(s)] + sum[s \ {Picked(s)}]]

\* The sum as the library defines it: a fold over the subsets of the domain.
LEMMA SumUnfolded ==
    ASSUME NEW f
    PROVE  SumFunction(f) = (CHOOSE sum : SumsTo(f, sum, SUBSET DOMAIN f))[DOMAIN f]
BY DEF SumFunction, SumFunctionOnSet, FoldFunctionOnSet, MapThenFoldSet, SumsTo, Picked

\* The recursion has a solution, for a finite domain: it is built from the
\* smaller subsets to the larger.
LEMMA SumExists ==
    ASSUME NEW f, NEW D, IsFiniteSet(D)
    PROVE  \E sum : SumsTo(f, sum, SUBSET D)
<1> DEFINE UpTo(n) == {s \in SUBSET D : Cardinality(s) <= n}
           Bad == {n \in Nat : ~ \E sum : SumsTo(f, sum, UpTo(n))}
<1>1. \A s \in SUBSET D : IsFiniteSet(s) /\ Cardinality(s) \in Nat
  BY FS_Subset, FS_CardinalityType
<1>2. CASE Bad # {}
  <2>1. PICK n \in Bad : \A m \in Bad : n <= m
    <3>1. Bad \in SUBSET Nat
      OBVIOUS
    <3> HIDE DEF Bad
    <3> QED BY <1>2, <3>1, LeastElement
  <2>2. n # 0
    <3>1. SUFFICES ASSUME n = 0 PROVE FALSE
      OBVIOUS
    <3>2. \A s \in UpTo(0) : s = {}
      BY <1>1, FS_EmptySet
    <3>3. SumsTo(f, [s \in UpTo(0) |-> 0], UpTo(0))
      <4> DEFINE U == UpTo(0)
      <4>1. \A s \in U : s = {}
        BY <3>2
      <4> HIDE DEF U
      <4>2. SumsTo(f, [s \in U |-> 0], U)
        BY <4>1 DEF SumsTo
      <4> QED BY <4>2 DEF U
    <3>4. 0 \notin Bad
      BY <3>3
    <3>5. 0 \in Bad
      <4> HIDE DEF Bad
      <4> QED BY <2>1, <3>1
    <3> HIDE DEF Bad
    <3> QED
      BY <3>4, <3>5
  <2>3. n \in Nat /\ n - 1 \in Nat /\ n - 1 \notin Bad
    <3>1. n \in Nat
      BY <2>1
    <3> HIDE DEF Bad
    <3> QED BY <2>1, <2>2, <3>1
  <2>4. PICK sum : SumsTo(f, sum, UpTo(n - 1))
    BY <2>3
  <2> DEFINE next1 == [s \in UpTo(n) |-> IF s = {} THEN 0 ELSE f[Picked(s)] + sum[s \ {Picked(s)}]]
  <2>5. ASSUME NEW s \in UpTo(n), s # {} PROVE s \ {Picked(s)} \in UpTo(n - 1)
    <3>1. Picked(s) \in s
      BY <2>5 DEF Picked
    <3>2. Cardinality(s \ {Picked(s)}) = Cardinality(s) - 1
      BY <1>1, <2>5, <3>1, FS_RemoveElement
    <3>3. s \ {Picked(s)} \in SUBSET D /\ Cardinality(s) <= n /\ Cardinality(s) \in Nat
      BY <1>1, <2>5
    <3> QED
      BY <2>3, <3>2, <3>3
  <2>6. ASSUME NEW s \in UpTo(n - 1) PROVE s \in UpTo(n) /\ next1[s] = sum[s]
    <3>1. s \in UpTo(n)
      BY <1>1, <2>3, <2>6
    <3>2. sum[s] = IF s = {} THEN 0 ELSE f[Picked(s)] + sum[s \ {Picked(s)}]
      <4> HIDE DEF UpTo
      <4> QED BY <2>4, <2>6 DEF SumsTo
    <3> HIDE DEF UpTo
    <3> QED BY <3>1, <3>2
  <2>7. SumsTo(f, next1, UpTo(n))
    <3>1. ASSUME NEW s \in UpTo(n)
          PROVE  next1[s] = IF s = {} THEN 0 ELSE f[Picked(s)] + next1[s \ {Picked(s)}]
      <4>1. s # {} => next1[s \ {Picked(s)}] = sum[s \ {Picked(s)}]
        BY <2>5, <2>6
      <4> HIDE DEF UpTo
      <4> QED BY <4>1
    <3>2. next1 = [s \in UpTo(n) |-> IF s = {} THEN 0 ELSE f[Picked(s)] + next1[s \ {Picked(s)}]]
      <4> HIDE DEF UpTo
      <4> QED BY <3>1
    <3> HIDE DEF UpTo
    <3> QED BY <3>2 DEF SumsTo
  <2> QED
    BY <2>1, <2>7
<1>3. CASE Bad = {}
  <2>1. PICK n \in Nat : n = Cardinality(D)
    BY <1>1
  <2>2. UpTo(n) = SUBSET D
    <3>1. ASSUME NEW s \in SUBSET D PROVE Cardinality(s) <= n
      BY <2>1, FS_Subset
    <3> QED BY <3>1
  <2>3. \E sum : SumsTo(f, sum, UpTo(n))
    BY <1>3
  <2> QED
    BY <2>2, <2>3
<1> QED
  BY <1>2, <1>3

\* One step of the recursion.
AddsUp(sum, f, S) ==
    /\ SumFunction(f) = sum[S] /\ sum[{}] = 0
    /\ \A s \in SUBSET S : s # {} => sum[s] = f[Picked(s)] + sum[s \ {Picked(s)}]

LEMMA SumStep ==
    ASSUME NEW S, IsFiniteSet(S), NEW f, DOMAIN f = S
    PROVE  \E sum : AddsUp(sum, f, S)
<1> DEFINE sum == CHOOSE sum : SumsTo(f, sum, SUBSET S)
<1>1. SumsTo(f, sum, SUBSET S)
  BY SumExists
<1>2. SumFunction(f) = sum[S]
  BY SumUnfolded
<1> HIDE DEF sum
<1>3. sum = [s \in SUBSET S |-> IF s = {} THEN 0
                    ELSE f[Picked(s)] + sum[s \ {Picked(s)}]]
  BY <1>1 DEF SumsTo
<1>4. /\ sum[{}] = 0
      /\ \A s \in SUBSET S : s # {} => sum[s] = f[Picked(s)] + sum[s \ {Picked(s)}]
  BY <1>3
<1> QED
  BY <1>2, <1>4 DEF AddsUp

\* The sum of zeros is zero.
LEMMA SumOfZeros ==
    ASSUME NEW D, IsFiniteSet(D), NEW f, DOMAIN f = D, \A x \in D : f[x] = 0
    PROVE  SumFunction(f) = 0
<1>1. PICK sum : AddsUp(sum, f, D)
  BY SumStep
<1> DEFINE Good == {s \in SUBSET D : sum[s] = 0}
<1>2. ASSUME NEW s \in SUBSET D, \A x \in s : s \ {x} \in Good PROVE s \in Good
  <2>1. CASE s # {}
    <3>1. PICK x \in s : x = Picked(s)
      BY <2>1 DEF Picked
    <3>2. sum[s] = f[x] + sum[s \ {x}]
      BY <1>1, <2>1, <3>1 DEF AddsUp
    <3>3. f[x] = 0 /\ sum[s \ {x}] = 0
      BY <1>2
    <3> QED
      BY <3>2, <3>3
  <2>2. CASE s = {}
    BY <1>1, <2>2 DEF AddsUp
  <2> QED
    BY <2>1, <2>2
<1>3. Good = SUBSET D
  <2>1. Good \in SUBSET SUBSET D
    OBVIOUS
  <2> HIDE DEF Good
  <2> QED BY <1>2, <2>1, EverySubset
<1> QED
  BY <1>1, <1>3 DEF AddsUp

\* One more at one place adds one to the sum.
LEMMA SumOfOneMore ==
    ASSUME NEW S, IsFiniteSet(S), NEW f \in [S -> Nat], NEW w \in S
    PROVE  SumFunction([f EXCEPT ![w] = @ + 1]) = SumFunction(f) + 1
<1> DEFINE more == [f EXCEPT ![w] = @ + 1]
<1>1. DOMAIN f = S /\ DOMAIN more = S
  OBVIOUS
<1> HIDE DEF more
<1>2. PICK sum : AddsUp(sum, f, S)
  BY <1>1, SumStep
<1>3. PICK plus : AddsUp(plus, more, S)
  BY <1>1, SumStep
<1> DEFINE Good == {s \in SUBSET S : /\ sum[s] \in Nat
                                     /\ plus[s] = IF w \in s THEN sum[s] + 1 ELSE sum[s]}
<1>4. ASSUME NEW s \in SUBSET S, \A x \in s : s \ {x} \in Good PROVE s \in Good
  <2>1. CASE s # {}
    <3>1. PICK x \in s : x = Picked(s)
      BY <2>1 DEF Picked
    <3>2. sum[s] = f[x] + sum[s \ {x}] /\ plus[s] = more[x] + plus[s \ {x}]
      BY <1>2, <1>3, <2>1, <3>1 DEF AddsUp
    <3>3. /\ sum[s \ {x}] \in Nat
          /\ plus[s \ {x}] = IF w \in s \ {x} THEN sum[s \ {x}] + 1 ELSE sum[s \ {x}]
      BY <1>4
    <3>4. f[x] \in Nat /\ more[x] = IF x = w THEN f[x] + 1 ELSE f[x]
      BY DEF more
    <3>5. w \in s <=> (w = x \/ w \in s \ {x})
      OBVIOUS
    <3>6. sum[s] \in Nat /\ plus[s] = IF w \in s THEN sum[s] + 1 ELSE sum[s]
      BY <3>2, <3>3, <3>4, <3>5
    <3> QED
      BY <3>6
  <2>2. CASE s = {}
    BY <1>2, <1>3, <2>2 DEF AddsUp
  <2> QED
    BY <2>1, <2>2
<1>5. Good = SUBSET S
  <2>1. Good \in SUBSET SUBSET S
    OBVIOUS
  <2> HIDE DEF Good
  <2> QED BY <1>4, <2>1, EverySubset
<1>6. S \in Good
  BY <1>5
<1> QED
  BY <1>2, <1>3, <1>6 DEF AddsUp, more

-----------------------------------------------------------------------------
(* 4. The rounds *)

\* The workers with a job of c that has no number yet, and those that have run
\* their task and not counted it, as operators of the variables they read.
UnnumberedIn(with, at, tags, c) ==
    {w \in Workers : with[w] = c /\ (at[w] = "assign" \/ (at[w] \in {"woken", "top"} /\ tags[w] # c))}

UncountedIn(with, at, counting, c) ==
    {w \in Workers : (with[w] = c /\ at[w] = "clear") \/ (at[w] = "count" /\ counting[w] = c)}

\* The tag of a worker with a job is the client of the job, from the head of the loop on.
TagInv ==
    \A w \in Workers :
        /\ wpc[w] \in {"assign", "task", "clear"} => tag[w] = m_client[w]
        /\ wpc[w] \in {"count", "next"} => tag[w] = client[w]

\* While a worker holds the server, what it found about its client is still true.
LastInv ==
    \A w \in Workers : wpc[w] = "next" /\ ~done[w] =>
        Counted(client[w]) /\ finished[client[w]] < Jobs[client[w]]

\* A client is in the queue, with a worker or being counted only in its round.
LEMMA HeldInRound ==
    ASSUME JobInv, QueueInv
    PROVE  /\ \A w \in Workers : m_client[w] # NULL => m_client[w] \in Clients /\ Counted(m_client[w])
           /\ \A w \in Workers : wpc[w] = "count" => client[w] \in Clients /\ Counted(client[w])
           /\ \A s \in Slots : waitingClients[s] # NULL =>
                  waitingClients[s] \in Clients /\ Counted(waitingClients[s])
<1>1. TypeOK /\ WorkerInv
  BY DEF QueueInv
<1>2. ASSUME NEW w \in Workers, m_client[w] # NULL PROVE m_client[w] \in Clients /\ Counted(m_client[w])
  <2>1. m_client[w] \in Clients
    BY <1>1, <1>2 DEF TypeOK
  <2>2. w \in Holders(m_client[w])
    BY DEF Holders, HoldersIn
  <2> QED
    BY <2>1, <2>2, BusyIsCounted
<1>3. ASSUME NEW w \in Workers, wpc[w] = "count" PROVE client[w] \in Clients /\ Counted(client[w])
  <2>1. client[w] \in Clients
    BY <1>1, <1>3 DEF WorkerInv
  <2>2. w \in Holders(client[w])
    BY <1>3 DEF Holders, HoldersIn
  <2> QED
    BY <2>1, <2>2, BusyIsCounted
<1>4. ASSUME NEW s \in Slots, waitingClients[s] # NULL
      PROVE  waitingClients[s] \in Clients /\ Counted(waitingClients[s])
  <2>1. waitingClients[s] \in Clients
    BY <1>1, <1>4 DEF TypeOK
  <2> QED
    BY <2>1, BusyIsCounted
<1> QED
  BY <1>2, <1>3, <1>4

\* Every step keeps the tags.
LEMMA TagStep ==
    ASSUME TagInv, QueueInv, [Next]_vars PROVE TagInv'
<1> USE DEF queueVars, countVars, localVars, historyVars, WorkerTo
<1>0. /\ wpc \in [Workers -> WorkerStates] /\ tag \in [Workers -> Clients \cup {NULL}]
      /\ client \in [Workers -> Clients \cup {NULL}] /\ m_client \in [Workers -> Clients \cup {NULL}]
  BY DEF QueueInv, TypeOK
<1>1. ASSUME NEW c \in Clients, Start(c) \/ ClientStep(c) PROVE TagInv'
  <2>1. CASE Offer(c)
    <3>1. PICK v \in Workers : v = next
      BY <2>1, StateFacts DEF Offer, QueueInv, TypeOK
    <3>2. /\ wpc' = [wpc EXCEPT ![v] = "woken"] /\ UNCHANGED <<tag, client>>
          /\ \A w \in Workers \ {v} : m_client'[w] = m_client[w]
      BY <1>0, <2>1, <3>1 DEF Offer, Schedule
    <3> QED
      BY <1>0, <3>2 DEF TagInv
  <2>2. CASE CreateServer(c)
    BY <1>0, <2>2 DEF CreateServer, TagInv
  <2>3. CASE ~Offer(c) /\ ~CreateServer(c)
    <3>1. UNCHANGED <<wpc, tag, client, m_client>>
      BY <1>1, <2>3 DEF Start, ClientStep, ServerReady, FindServer, Enqueue, TakeSlot, PassOver, Added,
         Check, WaitLock, WaitLoop
    <3> QED
      BY <3>1 DEF TagInv
  <2> QED
    BY <2>1, <2>2, <2>3
<1>2. ASSUME NEW w \in Workers, WorkerStep(w) PROVE TagInv'
  <2>1. CASE Begin(w) \/ WakeUp(w) \/ Task(w) \/ Assign(w) \/ Count(w) \/ Sleep(w)
    <3>1. UNCHANGED <<tag, client, m_client>> /\ \A v \in Workers \ {w} : wpc'[v] = wpc[v]
      BY <1>0, <2>1 DEF Begin, WakeUp, Task, Assign, Count, Sleep
    <3>2. \/ wpc'[w] \in {"asleep", "top"}
          \/ wpc[w] = "task" /\ wpc'[w] = "clear"
          \/ wpc[w] = "assign" /\ wpc'[w] \in {"task", "clear"}
          \/ wpc[w] = "count" /\ wpc'[w] = "next"
      BY <1>0, <2>1 DEF Begin, WakeUp, Task, Assign, Count, Sleep
    <3> QED
      BY <1>0, <3>1, <3>2 DEF TagInv
  <2>2. CASE Top(w)
    <3>1. m_client[w] # NULL
      BY <2>2 DEF Top, QueueInv, WorkerInv, HasClient
    <3> QED
      BY <1>0, <2>2, <3>1 DEF Top, TagInv
  <2>3. CASE Clear(w)
    BY <1>0, <2>3 DEF Clear, TagInv
  <2>4. CASE Continue(w)
    <3>1. /\ wpc' = [wpc EXCEPT ![w] = "top"] /\ UNCHANGED <<tag, client>>
          /\ \A v \in Workers \ {w} : m_client'[v] = m_client[v]
      BY <1>0, <2>4 DEF Continue, Schedule
    <3> QED
      BY <1>0, <3>1 DEF TagInv
  <2> QED
    BY <1>2, <2>1, <2>2, <2>3, <2>4 DEF WorkerStep
<1>3. CASE UNCHANGED vars
  BY <1>3 DEF vars, TagInv
<1> QED
  BY <1>1, <1>2, <1>3 DEF Next

\* While a worker is between counting and its next job nobody else counts.
LEMMA LastStep ==
    ASSUME LastInv, JobInv, QueueInv, [Next]_vars PROVE LastInv'
<1> USE DEF queueVars, countVars, localVars, historyVars, WorkerTo, ClientTo
<1>0. /\ wpc \in [Workers -> WorkerStates] /\ cpc \in [Clients -> ClientStates]
      /\ client \in [Workers -> Clients \cup {NULL}] /\ done \in [Workers -> BOOLEAN]
      /\ finished \in [Clients -> Nat]
  BY DEF QueueInv, TypeOK
<1>b. \A w \in Workers : wpc[w] = "next" => server = w /\ client[w] \in Clients
  BY DEF QueueInv, HolderInv, WorkerInv
<1>a. \A c \in Clients, w \in Workers : c # w /\ c # NULL /\ w # NULL
  BY StateFacts
<1>1. ASSUME NEW c \in Clients, Start(c) \/ ClientStep(c) PROVE LastInv'
  <2>1. UNCHANGED <<client, done>> /\ \A d \in Clients \ {c} : finished'[d] = finished[d] /\ cpc'[d] = cpc[d]
    BY <1>0, <1>1 DEF Start, ResetCounters, ClientStep, CreateServer, ServerReady, FindServer, Enqueue, TakeSlot,
       Offer, PassOver, Added, Check, WaitLock, WaitLoop
  <2>2. Counted(c) /\ finished[c] < Jobs[c] => Counted(c)' /\ finished'[c] = finished[c]
    BY <1>0, <1>1, JobsAssumption DEF Start, ClientStep, CreateServer, ServerReady, FindServer, Enqueue, TakeSlot,
       Offer, PassOver, Added, Check, WaitLock, WaitLoop, Counted, InRound
  <2>3. \A w \in Workers : wpc'[w] = "next" => wpc[w] = "next"
    BY <1>0, <1>1 DEF Start, ClientStep, CreateServer, ServerReady, FindServer, Enqueue, TakeSlot,
       Offer, PassOver, Added, Check, WaitLock, WaitLoop
  <2> QED
    BY <1>0, <1>b, <2>1, <2>2, <2>3 DEF LastInv, Counted, InRound
<1>2. ASSUME NEW w \in Workers, WorkerStep(w) PROVE LastInv'
  <2>1. \A d \in Clients : Counted(d)' <=> Counted(d)
    BY <1>0, <1>2 DEF WorkerStep, Begin, WakeUp, Top, Assign, Task, Clear, Count, Continue, Sleep,
       ResumeServer, Asleep, Counted, InRound
  <2>2. CASE Count(w)
    <3>1. \A v \in Workers : v # w => wpc'[v] # "next"
      BY <1>0, <1>a, <1>b, <2>2 DEF Count
    <3>2. PICK d \in Clients : d = client[w]
      BY <2>2, StateFacts DEF Count
    <3>3. Counted(d) /\ Jobs[d] \in Nat \ {0} /\ finished[d] \in Nat
      BY <1>0, <2>2, <3>2, HeldInRound, JobsAssumption DEF Count
    <3>4. finished[d] + 1 <= Jobs[d]
      <4>1. w \in HoldersIn(m_client, wpc, client, d)
        BY <2>2, <3>2 DEF Count, HoldersIn
      <4>2. JobsGiven(d) \in Nat /\ JobsGiven(d) # 0
        BY <4>1, Numbers, HoldersFinite, FS_EmptySet
      <4>3. JobsLeft(d) \in Nat
        BY LeftIsNatural DEF QueueInv, JobInv
      <4>4. finished[d] + JobsGiven(d) + JobsLeft(d) = Jobs[d]
        BY <3>3 DEF JobInv, Balance
      <4> QED
        BY <3>3, <4>2, <4>3, <4>4
    <3>5. /\ finished' = [finished EXCEPT ![d] = @ + 1] /\ client' = client
          /\ done' = [done EXCEPT ![w] = finished[d] + 1 = Jobs[d]]
      BY <2>2, <3>2 DEF Count, IsDone
    <3>6. ~done'[w] => finished'[d] < Jobs[d]
      <4>1. finished'[d] = finished[d] + 1
        BY <1>0, <3>5
      <4>2. finished[d] + 1 = Jobs[d] => done'[w]
        BY <1>0, <3>5
      <4> QED BY <3>3, <3>4, <4>1, <4>2
    <3> QED
      BY <2>1, <3>1, <3>2, <3>3, <3>5, <3>6 DEF LastInv
  <2>3. CASE ~Count(w)
    <3>1. UNCHANGED <<done, finished>>
      BY <1>2, <2>3 DEF WorkerStep, Begin, WakeUp, Top, Assign, Task, Clear, Continue, Sleep
    <3>2. \A v \in Workers : wpc'[v] = "next" => wpc[v] = "next" /\ client'[v] = client[v]
      BY <1>0, <1>2, <2>3 DEF WorkerStep, Begin, WakeUp, Top, Assign, Task, Clear, Continue, Sleep
    <3> QED
      BY <1>0, <1>b, <2>1, <3>1, <3>2 DEF LastInv
  <2> QED
    BY <2>2, <2>3
<1>3. CASE UNCHANGED vars
  BY <1>3 DEF vars, LastInv, Counted, InRound
<1> QED
  BY <1>1, <1>2, <1>3 DEF Next

\* With one round at a time ...
OneRound == \A c, d \in Clients : InRound(c) /\ InRound(d) => c = d

\* ... the worker that counted the last job finds nothing else to do ...
DoneInv ==
    \A w \in Workers : wpc[w] = "next" /\ done[w] => \A j \in Slots : waitingClients[j] = NULL

\* ... there is a number for each job that still needs one ...
NumberInv ==
    \A c \in Clients :
        /\ Counted(c) => assigned[c] + Cardinality(UnnumberedIn(m_client, wpc, tag, c)) + JobsLeft(c)
                            <= Jobs[c]
        /\ cpc[c] = "add" => assigned[c] = 0

\* ... and the tasks run are the jobs counted and those about to be.
TaskInv ==
    \A c \in Clients :
        /\ Counted(c) => TasksRun(c) = finished[c] + Cardinality(UncountedIn(m_client, wpc, client, c))
        /\ cpc[c] = "add" => TasksRun(c) = 0
        /\ RoundOver(c) => TasksRun(c) = Jobs[c]

\* No round is over before createThreads returns.
FreshInv == \A c \in Clients : cpc[c] \in {"create", "spinup"} => rounds[c] = 0

\* What holds whatever rounds overlap, and what holds of a round by itself.
Always == FreshInv /\ TagInv /\ LastInv /\ JobInv /\ QueueInv
Alone == OneRound /\ DoneInv /\ NumberInv /\ TaskInv

\* A client starts its rounds with the server there.
LEMMA FreshStep ==
    ASSUME FreshInv, QueueInv, [Next]_vars PROVE FreshInv'
<1> USE DEF historyVars, ClientTo
<1>0. cpc \in [Clients -> ClientStates] /\ rounds \in [Clients -> 0 .. MaxRounds]
  BY DEF QueueInv, TypeOK
<1>1. ASSUME NEW c \in Clients, Start(c) PROVE FreshInv'
  BY <1>0, <1>1 DEF Start, FreshInv
<1>2. ASSUME NEW c \in Clients, ClientStep(c) PROVE FreshInv'
  BY <1>0, <1>2 DEF ClientStep, CreateServer, ServerReady, FindServer, Enqueue, TakeSlot,
     Offer, PassOver, Added, Check, WaitLock, WaitLoop, FreshInv
<1>3. ASSUME NEW w \in Workers, WorkerStep(w) PROVE FreshInv'
  BY <1>0, <1>3 DEF WorkerStep, Begin, WakeUp, Top, Assign, Task, Clear, Count, Continue, Sleep,
     ResumeServer, Asleep, FreshInv
<1>4. CASE UNCHANGED vars
  BY <1>4 DEF vars, FreshInv
<1> QED
  BY <1>1, <1>2, <1>3, <1>4 DEF Next

\* What a step does to the rounds: only startThreads begins one.
LEMMA RoundStep ==
    ASSUME QueueInv, [Next]_vars, ~overlap'
    PROVE  /\ ~overlap
           /\ \A c \in Clients : Start(c) => \A d \in Clients \ {c} : ~InRound(d)
           /\ (\E c \in Clients : Start(c)) \/ \A d \in Clients : InRound(d)' => InRound(d)
<1> USE DEF historyVars, ClientTo
<1>0. cpc \in [Clients -> ClientStates] /\ overlap \in BOOLEAN
  BY DEF QueueInv, TypeOK
<1>1. ASSUME NEW c \in Clients, Start(c)
      PROVE  ~overlap /\ \A d \in Clients \ {c} : ~InRound(d)
  BY <1>1 DEF Start
<1>2. ASSUME NEW c \in Clients, ClientStep(c)
      PROVE  ~overlap /\ \A d \in Clients : InRound(d)' => InRound(d)
  <2>1. overlap' = overlap
    BY <1>2 DEF ClientStep, CreateServer, ServerReady, FindServer, Enqueue, TakeSlot,
       Offer, PassOver, Added, Check, WaitLock, WaitLoop
  <2>2. \A d \in Clients : InRound(d)' => InRound(d)
    BY <1>0, <1>2 DEF ClientStep, CreateServer, ServerReady, FindServer, Enqueue, TakeSlot,
       Offer, PassOver, Added, Check, WaitLock, WaitLoop, InRound
  <2> QED
    BY <2>1, <2>2
<1>3. ASSUME NEW w \in Workers, WorkerStep(w)
      PROVE  ~overlap /\ \A d \in Clients : InRound(d)' => InRound(d)
  <2>1. overlap' = overlap
    BY <1>3 DEF WorkerStep, Begin, WakeUp, Top, Assign, Task, Clear, Count, Continue, Sleep
  <2>2. \A d \in Clients : InRound(d)' => InRound(d)
    BY <1>0, <1>3 DEF WorkerStep, Begin, WakeUp, Top, Assign, Task, Clear, Count, Continue, Sleep,
       ResumeServer, Asleep, InRound
  <2> QED
    BY <2>1, <2>2
<1>4. ASSUME UNCHANGED vars
      PROVE  ~overlap /\ \A d \in Clients : InRound(d)' => InRound(d)
  BY <1>4 DEF vars, InRound
<1>5. (\E c \in Clients : Start(c) \/ ClientStep(c)) \/ (\E w \in Workers : WorkerStep(w))
         \/ UNCHANGED vars
  BY DEF Next
<1>6. ~overlap
  BY <1>1, <1>2, <1>3, <1>4, <1>5
<1> QED
  BY <1>1, <1>2, <1>3, <1>4, <1>5, <1>6

\* As long as the history says so, there is one round.
LEMMA OneRoundStep ==
    ASSUME OneRound, QueueInv, [Next]_vars, ~overlap' PROVE OneRound'
<1>0. cpc \in [Clients -> ClientStates]
  BY DEF QueueInv, TypeOK
<1>1. CASE \E c \in Clients : Start(c)
  <2>1. PICK c \in Clients : Start(c)
    BY <1>1
  <2>2. \A d \in Clients \ {c} : ~InRound(d) /\ cpc'[d] = cpc[d]
    BY <1>0, <2>1, RoundStep DEF Start, ClientTo
  <2> QED
    BY <2>2 DEF OneRound, InRound
<1>2. CASE \A d \in Clients : InRound(d)' => InRound(d)
  BY <1>2 DEF OneRound
<1> QED
  BY <1>1, <1>2, RoundStep

\* The job that makes the count full was the last of the queue.
LEMMA DoneStep ==
    ASSUME Always, Alone, [Next]_vars PROVE DoneInv'
<1> USE DEF queueVars, countVars, localVars, historyVars, WorkerTo, ClientTo
<1>0. /\ wpc \in [Workers -> WorkerStates] /\ done \in [Workers -> BOOLEAN]
      /\ waitingClients \in [Slots -> Clients \cup {NULL}] /\ finished \in [Clients -> Nat]
      /\ \A w \in Workers : wpc[w] = "next" => server = w /\ client[w] \in Clients
      /\ QueueInv /\ JobInv
  BY DEF Always, QueueInv, TypeOK, HolderInv, WorkerInv
<1>a. \A c \in Clients, w \in Workers : c # w /\ c # NULL /\ w # NULL
  BY <1>0, StateFacts
<1>1. ASSUME NEW c \in Clients, Start(c) \/ ClientStep(c), NEW w \in Workers, wpc'[w] = "next", done'[w]
      PROVE  \A j \in Slots : waitingClients'[j] = NULL
  <2>1. wpc[w] = "next" /\ done' = done
    BY <1>0, <1>1 DEF Start, ClientStep, CreateServer, ServerReady, FindServer, Enqueue, TakeSlot,
       Offer, PassOver, Added, Check, WaitLock, WaitLoop
  <2>2. server = w /\ w # c /\ w # NULL
    BY <1>0, <1>a, <2>1
  <2>3. cpc[c] = "offer" => server = c
    BY <1>0 DEF QueueInv, HolderInv
  <2>4. waitingClients' = waitingClients
    BY <1>1, <2>2, <2>3 DEF Start, ClientStep, CreateServer, ServerReady, FindServer, Enqueue, TakeSlot,
       Offer, PassOver, Added, Check, WaitLock, WaitLoop
  <2> QED
    BY <1>1, <2>1, <2>4 DEF Alone, DoneInv
<1>2. ASSUME NEW v \in Workers, WorkerStep(v), NEW w \in Workers, wpc'[w] = "next", done'[w]
      PROVE  \A j \in Slots : waitingClients'[j] = NULL
  <2>1. CASE Count(v)
    <3>1. v = w
      BY <1>0, <1>a, <1>2, <2>1 DEF Count
    <3>2. PICK d \in Clients : d = client[w]
      BY <1>0, <2>1, <3>1, StateFacts DEF Count
    <3>3. Counted(d) /\ Jobs[d] \in Nat /\ finished[d] \in Nat
      BY <1>0, <2>1, <3>1, <3>2, HeldInRound, JobsAssumption DEF Count
    <3>4. finished[d] + 1 = Jobs[d]
      BY <1>0, <1>2, <2>1, <3>1, <3>2 DEF Count, IsDone
    <3>5. JobsGiven(d) \in Nat /\ JobsGiven(d) # 0 /\ JobsLeft(d) \in Nat
      <4>1. w \in HoldersIn(m_client, wpc, client, d)
        BY <2>1, <3>1, <3>2 DEF Count, HoldersIn
      <4> QED
        BY <1>0, <4>1, Numbers, HoldersFinite, FS_EmptySet, LeftIsNatural DEF QueueInv, JobInv
    <3>6. finished[d] + JobsGiven(d) + JobsLeft(d) = Jobs[d]
      BY <1>0, <3>3 DEF JobInv, Balance
    <3>7. JobsLeft(d) = 0
      BY <3>3, <3>4, <3>5, <3>6
    <3>8. ASSUME NEW j \in Slots PROVE waitingClients[j] = NULL
      <4>1. waitingClients[j] # d
        BY <1>0, <3>7, LeftIsNatural DEF QueueInv, JobInv
      <4>2. waitingClients[j] # NULL => waitingClients[j] = d
        BY <1>0, <3>3, HeldInRound DEF Alone, OneRound, Counted
      <4> QED
        BY <4>1, <4>2
    <3> QED
      BY <2>1, <3>8 DEF Count
  <2>2. CASE ~Count(v)
    <3>1. wpc[w] = "next" /\ done' = done /\ v # w
      BY <1>0, <1>2, <2>2 DEF WorkerStep, Begin, WakeUp, Top, Assign, Task, Clear, Continue, Sleep
    <3>2. waitingClients' = waitingClients
      BY <1>0, <1>2, <2>2, <3>1 DEF WorkerStep, Begin, WakeUp, Top, Assign, Task, Clear, Continue, Sleep
    <3> QED
      BY <1>2, <3>1, <3>2 DEF Alone, DoneInv
  <2> QED
    BY <2>1, <2>2
<1>3. CASE UNCHANGED vars
  BY <1>3 DEF vars, Alone, DoneInv
<1> QED
  BY <1>1, <1>2, <1>3 DEF Next, DoneInv

\* Every set of workers can be counted.
LEMMA WorkersFinite ==
    ASSUME NEW S \in SUBSET Workers PROVE IsFiniteSet(S) /\ Cardinality(S) \in Nat
<1>1. IsFiniteSet(Workers)
  <2>1. 0 \in Int /\ NumWorkers - 1 \in Int
    BY WorkersAssumption
  <2> QED BY <2>1, FS_Interval DEF Workers
<1>2. IsFiniteSet(S)
  BY <1>1, FS_Subset
<1> QED
  BY <1>2, FS_CardinalityType

\* The numbers that a client has left, as sets of workers.
LEMMA SetsOfWorkers ==
    ASSUME NEW with, NEW at, NEW other, NEW c
    PROVE  /\ UnnumberedIn(with, at, other, c) \in SUBSET Workers
           /\ UncountedIn(with, at, other, c) \in SUBSET Workers
           /\ Cardinality(UnnumberedIn(with, at, other, c)) \in Nat
           /\ Cardinality(UncountedIn(with, at, other, c)) \in Nat
<1>1. /\ UnnumberedIn(with, at, other, c) \in SUBSET Workers
      /\ UncountedIn(with, at, other, c) \in SUBSET Workers
  BY DEF UnnumberedIn, UncountedIn
<1> QED
  BY <1>1, WorkersFinite

\* A step after which no more jobs need a number, and none has left the queue.
LEMMA NumberQuiet ==
    ASSUME NumberInv, TypeOK, TypeOK', NEW c \in Clients, assigned'[c] = assigned[c],
           JobsLeft(c)' = JobsLeft(c), JobsLeft(c) \in Nat,
           \A w \in UnnumberedIn(m_client', wpc', tag', c) : w \in UnnumberedIn(m_client, wpc, tag, c),
           Counted(c)' => Counted(c), cpc'[c] = "add" => cpc[c] = "add"
    PROVE  /\ Counted(c)' => assigned'[c] + Cardinality(UnnumberedIn(m_client', wpc', tag', c))
                                  + JobsLeft(c)' <= Jobs[c]
           /\ cpc'[c] = "add" => assigned'[c] = 0
<1> DEFINE U == UnnumberedIn(m_client, wpc, tag, c)
           V == UnnumberedIn(m_client', wpc', tag', c)
<1>1. U \in SUBSET Workers /\ Cardinality(U) \in Nat /\ Cardinality(V) \in Nat
  BY SetsOfWorkers
<1>2. V \subseteq U
  OBVIOUS
<1>3. IsFiniteSet(U)
  BY <1>1, WorkersFinite
<1>4. Cardinality(V) <= Cardinality(U)
  <2> HIDE DEF U, V
  <2> QED BY <1>2, <1>3, FS_Subset
<1>5. assigned[c] \in Nat /\ Jobs[c] \in Nat
  BY JobsAssumption DEF TypeOK
<1>6. Counted(c) => assigned[c] + Cardinality(U) + JobsLeft(c) <= Jobs[c]
  BY DEF NumberInv
<1>7. cpc'[c] = "add" => assigned'[c] = 0
  BY DEF NumberInv
<1>8. ASSUME Counted(c)' PROVE assigned'[c] + Cardinality(V) + JobsLeft(c)' <= Jobs[c]
  <2> HIDE DEF U, V
  <2> QED BY <1>1, <1>4, <1>5, <1>6, <1>8
<1> QED
  BY <1>7, <1>8

\* A step never leaves more jobs to be numbered than there are numbers.
LEMMA NumberStep ==
    ASSUME Always, Alone, ~overlap', [Next]_vars, TypeOK' PROVE NumberInv'
<1> USE DEF queueVars, countVars, localVars, historyVars, WorkerTo, ClientTo
<1>0. /\ QueueInv /\ JobInv /\ NumberInv /\ OneRound /\ TagInv /\ LastInv /\ DoneInv
      /\ TypeOK /\ TypeOK'
  BY DEF Always, Alone, QueueInv
<1>a. /\ wpc \in [Workers -> WorkerStates] /\ cpc \in [Clients -> ClientStates]
      /\ m_client \in [Workers -> Clients \cup {NULL}] /\ tag \in [Workers -> Clients \cup {NULL}]
      /\ assigned \in [Clients -> Nat]
  BY <1>0 DEF TypeOK
<1>b. \A c \in Clients : /\ c # NULL /\ JobsLeft(c) \in Nat /\ Jobs[c] \in Nat /\ assigned[c] \in Nat
  BY <1>0, <1>a, LeftIsNatural, NamesAssumption, JobsAssumption DEF JobInv
<1> DEFINE U(d) == UnnumberedIn(m_client, wpc, tag, d)
           Unum(d) == UnnumberedIn(m_client', wpc', tag', d)
           Good(d) == /\ Counted(d)' => assigned'[d] + Cardinality(Unum(d)) + JobsLeft(d)' <= Jobs[d]
                      /\ cpc'[d] = "add" => assigned'[d] = 0
<1>c. SUFFICES \A d \in Clients : Good(d)
  BY DEF NumberInv
<1>1. ASSUME NEW c \in Clients,
             CreateServer(c) \/ ServerReady(c) \/ FindServer(c) \/ PassOver(c) \/ Added(c)
             \/ Check(c) \/ WaitLock(c) \/ WaitLoop(c),
             NEW d \in Clients
      PROVE  Good(d)
  <2>1. UNCHANGED <<waitingClients, scheduledJobs, m_client, client, tag, assigned>>
    BY <1>1 DEF CreateServer, ServerReady, FindServer, PassOver, Added, Check, WaitLock, WaitLoop
  <2>2. ASSUME NEW w \in Workers, wpc'[w] \in {"assign", "woken", "top"} PROVE wpc'[w] = wpc[w]
    BY <1>1, <2>2 DEF CreateServer, ServerReady, FindServer, PassOver, Added, Check, WaitLock, WaitLoop
  <2>3. \A w \in Unum(d) : w \in U(d)
    BY <2>1, <2>2 DEF UnnumberedIn
  <2>4. (Counted(d)' => Counted(d)) /\ (cpc'[d] = "add" => cpc[d] = "add")
    BY <1>1, <1>a DEF CreateServer, ServerReady, FindServer, PassOver, Added, Check, WaitLock, WaitLoop,
       Counted, InRound
  <2>5. JobsLeft(d)' = JobsLeft(d)
    BY <2>1, Numbers
  <2> QED
    BY <1>0, <1>b, <2>1, <2>3, <2>4, <2>5, NumberQuiet
<1>2. ASSUME NEW w \in Workers, Begin(w) \/ WakeUp(w) \/ Top(w) \/ Task(w) \/ Clear(w) \/ Count(w) \/ Sleep(w),
             NEW d \in Clients
      PROVE  Good(d)
  <2>1. UNCHANGED <<waitingClients, scheduledJobs, assigned>>
    BY <1>2 DEF Begin, WakeUp, Top, Task, Clear, Count, Sleep
  <2>2. \A v \in Workers \ {w} : m_client'[v] = m_client[v] /\ wpc'[v] = wpc[v] /\ tag'[v] = tag[v]
    BY <1>2, <1>a DEF Begin, WakeUp, Top, Task, Clear, Count, Sleep
  <2>3. w \in Unum(d) => w \in U(d)
    BY <1>2, <1>a, <1>b DEF Begin, WakeUp, Wakes, Top, Task, Clear, Count, Sleep, UnnumberedIn, Always,
       QueueInv, WorkerInv, HasClient
  <2>4. \A v \in Unum(d) : v \in U(d)
    BY <2>2, <2>3 DEF UnnumberedIn
  <2>5. (Counted(d)' => Counted(d)) /\ (cpc'[d] = "add" => cpc[d] = "add")
    BY <1>2, <1>a DEF Begin, WakeUp, Top, Task, Clear, Count, Sleep, ResumeServer, Asleep, Counted, InRound
  <2>6. JobsLeft(d)' = JobsLeft(d)
    BY <2>1, Numbers
  <2> QED
    BY <1>0, <1>b, <2>1, <2>4, <2>5, <2>6, NumberQuiet
<1>3. ASSUME NEW c \in Clients, Start(c), NEW d \in Clients PROVE Good(d)
  <2>1. /\ UNCHANGED <<waitingClients, scheduledJobs, m_client, wpc, tag>>
        /\ assigned' = [assigned EXCEPT ![c] = 0] /\ cpc' = [cpc EXCEPT ![c] = "add"]
    BY <1>3 DEF Start, ResetCounters
  <2>2. CASE d = c
    BY <1>a, <2>1, <2>2 DEF Counted
  <2>3. CASE d # c
    <3>1. (Counted(d)' => Counted(d)) /\ (cpc'[d] = "add" => cpc[d] = "add")
          /\ assigned'[d] = assigned[d]
      BY <1>a, <2>1, <2>3 DEF Counted, InRound
    <3>2. JobsLeft(d)' = JobsLeft(d) /\ Unum(d) = U(d)
      BY <2>1, Numbers
    <3> QED
      BY <1>0, <1>b, <3>1, <3>2, NumberQuiet
  <2> QED
    BY <2>2, <2>3
<1>4. ASSUME NEW c \in Clients, Enqueue(c), NEW d \in Clients PROVE Good(d)
  <2>1. /\ UNCHANGED <<m_client, wpc, tag, assigned>> /\ cpc' = [cpc EXCEPT ![c] = "offer"]
        /\ cpc[c] = "add"
    BY <1>4 DEF Enqueue, TakeSlot
  <2>2. CASE d = c
    <3>1. U(d) = {}
      BY <1>0, <1>b, <2>1, <2>2, HeldInRound DEF UnnumberedIn, Counted
    <3>2. Cardinality(Unum(d)) = 0
      BY <2>1, <3>1, FS_EmptySet
    <3>3. assigned'[d] = 0 /\ cpc'[d] = "offer"
      BY <1>0, <1>a, <2>1, <2>2 DEF NumberInv
    <3>4. JobsLeft(d)' = Jobs[d]
      BY <1>0, <1>4, <2>2, EnqueueLeft
    <3> QED
      BY <1>b, <3>2, <3>3, <3>4
  <2>3. CASE d # c
    <3>1. ~InRound(d) /\ cpc'[d] = cpc[d]
      BY <1>0, <1>a, <2>1, <2>3 DEF OneRound, InRound
    <3> QED
      BY <3>1 DEF Counted, InRound
  <2> QED
    BY <2>2, <2>3
<1>5. ASSUME NEW w \in Workers, Assign(w), NEW d \in Clients PROVE Good(d)
  <2>1. PICK c \in Clients : c = m_client[w]
    BY <1>0, <1>5, StateFacts DEF Assign, HasClient
  <2>2. /\ UNCHANGED <<waitingClients, scheduledJobs, m_client, tag, cpc>> /\ wpc[w] = "assign"
        /\ wpc'[w] \notin {"assign", "woken", "top"} /\ \A v \in Workers \ {w} : wpc'[v] = wpc[v]
    BY <1>5, <1>a DEF Assign
  <2>3. Counted(d)' <=> Counted(d)
    BY <2>2 DEF Counted, InRound
  <2>4. JobsLeft(d)' = JobsLeft(d)
    BY <2>2, Numbers
  <2>5. CASE d = c
    <3>1. w \in U(d) /\ IsFiniteSet(U(d)) /\ Cardinality(U(d)) \in Nat
      BY <2>1, <2>2, <2>5, SetsOfWorkers, WorkersFinite DEF UnnumberedIn
    <3>2. Unum(d) = U(d) \ {w}
      BY <2>2 DEF UnnumberedIn
    <3>3. Cardinality(Unum(d)) = Cardinality(U(d)) - 1
      <4> HIDE DEF U, Unum
      <4> QED BY <3>1, <3>2, FS_RemoveElement
    <3>4. assigned'[d] = assigned[d] \/ assigned'[d] = assigned[d] + 1
      BY <1>5, <1>a, <2>1, <2>5 DEF Assign
    <3>5. Counted(d)
      BY <1>0, <1>b, <2>1, <2>5, HeldInRound
    <3>6. assigned[d] + Cardinality(U(d)) + JobsLeft(d) <= Jobs[d]
      BY <1>0, <3>5 DEF NumberInv
    <3>7. assigned'[d] + Cardinality(Unum(d)) + JobsLeft(d)' <= Jobs[d]
      <4> HIDE DEF U, Unum
      <4> QED BY <1>b, <2>4, <3>1, <3>3, <3>4, <3>6
    <3>8. cpc'[d] # "add"
      BY <2>2, <3>5 DEF Counted
    <3> QED
      BY <3>7, <3>8
  <2>6. CASE d # c
    <3>1. assigned'[d] = assigned[d]
      BY <1>5, <1>a, <2>1, <2>6 DEF Assign
    <3>2. \A v \in Unum(d) : v \in U(d)
      BY <2>2 DEF UnnumberedIn
    <3> QED
      BY <1>0, <1>b, <2>2, <2>3, <2>4, <3>1, <3>2, NumberQuiet
  <2> QED
    BY <2>5, <2>6
<1>6. ASSUME NEW c \in Clients, Offer(c), NEW d \in Clients PROVE Good(d)
  <2>1. PICK w \in Workers : w = next
    BY <1>0, <1>6, StateFacts DEF Offer, TypeOK
  <2>2. /\ Schedule(w) /\ NextClientIndex # -1 /\ UNCHANGED <<tag, assigned, cpc>>
        /\ wpc' = [wpc EXCEPT ![w] = "woken"]
    BY <1>6, <2>1 DEF Offer
  <2>3. PICK i \in Slots, e \in Clients : HandsOut(w, i, e)
    BY <1>0, <2>2, HandedOut
  <2>4. \A v \in Workers \ {w} : m_client'[v] = m_client[v] /\ wpc'[v] = wpc[v]
    BY <1>a, <2>2, <2>3 DEF HandsOut
  <2>5. CASE d = e
    <3>1. \A v \in Unum(d) : v \in U(d) \cup {w}
      BY <2>2, <2>4 DEF UnnumberedIn
    <3>2. Cardinality(Unum(d)) <= Cardinality(U(d)) + 1
      <4>1. IsFiniteSet(U(d)) /\ Cardinality(U(d)) \in Nat
        BY SetsOfWorkers, WorkersFinite
      <4> HIDE DEF U, Unum
      <4>2. /\ IsFiniteSet(U(d) \cup {w})
            /\ Cardinality(U(d) \cup {w}) = Cardinality(U(d)) \/ Cardinality(U(d) \cup {w}) = Cardinality(U(d)) + 1
        BY <4>1, FS_AddElement
      <4>3. Unum(d) \subseteq U(d) \cup {w}
        BY <3>1
      <4>4. Cardinality(Unum(d)) <= Cardinality(U(d) \cup {w}) /\ Cardinality(Unum(d)) \in Nat
        BY <4>2, <4>3, FS_Subset, FS_CardinalityType
      <4> QED BY <4>1, <4>2, <4>4
    <3>3. JobsLeft(d)' = JobsLeft(d) - 1 /\ waitingClients[i] = d
      BY <2>3, <2>5 DEF HandsOut
    <3>4. Counted(d) /\ cpc'[d] # "add"
      BY <1>0, <1>b, <2>2, <3>3, HeldInRound DEF Counted
    <3>5. assigned[d] + Cardinality(U(d)) + JobsLeft(d) <= Jobs[d]
      BY <1>0, <3>4 DEF NumberInv
    <3>6. Cardinality(U(d)) \in Nat /\ Cardinality(Unum(d)) \in Nat
      BY SetsOfWorkers
    <3>7. assigned'[d] + Cardinality(Unum(d)) + JobsLeft(d)' <= Jobs[d]
      <4> HIDE DEF U, Unum
      <4> QED BY <1>b, <2>2, <3>2, <3>3, <3>5, <3>6
    <3> QED
      BY <3>4, <3>7
  <2>6. CASE d # e
    <3>1. JobsLeft(d)' = JobsLeft(d) /\ m_client'[w] # d
      BY <1>a, <2>3, <2>6 DEF HandsOut
    <3>2. \A v \in Unum(d) : v \in U(d)
      BY <2>2, <2>4, <3>1 DEF UnnumberedIn
    <3>3. Counted(d)' <=> Counted(d)
      BY <2>2 DEF Counted, InRound
    <3> QED
      BY <1>0, <1>b, <2>2, <3>1, <3>2, <3>3, NumberQuiet
  <2> QED
    BY <2>5, <2>6
<1>7. ASSUME NEW w \in Workers, Continue(w), NEW d \in Clients PROVE Good(d)
  <2>1. /\ Schedule(w) /\ NextClientIndex # -1 /\ tag' = tag
        /\ wpc[w] = "next" /\ wpc' = [wpc EXCEPT ![w] = "top"]
    BY <1>7 DEF Continue
  <2>2. PICK i \in Slots, e \in Clients : HandsOut(w, i, e)
    BY <1>0, <2>1, HandedOut
  <2>3. ~done[w]
    BY <1>0, <1>b, <2>1, <2>2 DEF HandsOut, DoneInv
  <2>4. PICK c \in Clients : c = client[w]
    BY <1>0, <2>1, StateFacts
  <2>5. c = e
    <3>1. Counted(c) /\ Counted(e)
      BY <1>0, <1>b, <2>1, <2>2, <2>3, <2>4, HeldInRound DEF LastInv, HandsOut
    <3> QED
      BY <1>0, <3>1 DEF OneRound, Counted
  <2>6. assigned' = [assigned EXCEPT ![c] = @ + 1] /\ cpc' = cpc
    BY <1>7, <2>3, <2>4 DEF Continue
  <2>7. tag[w] = c
    BY <1>0, <2>1, <2>4 DEF TagInv
  <2>8. \A v \in Workers \ {w} : m_client'[v] = m_client[v] /\ wpc'[v] = wpc[v]
    BY <1>a, <2>1, <2>2 DEF HandsOut
  <2>9. m_client'[w] = c
    BY <1>a, <2>2, <2>5 DEF HandsOut
  <2>10. \A v \in Unum(d) : v \in U(d)
    BY <1>a, <2>1, <2>7, <2>8, <2>9 DEF UnnumberedIn
  <2>11. Counted(d)' <=> Counted(d)
    BY <2>6 DEF Counted, InRound
  <2>12. CASE d = c
    <3>1. JobsLeft(d)' = JobsLeft(d) - 1 /\ waitingClients[i] = d
      BY <2>2, <2>5, <2>12 DEF HandsOut
    <3>2. Counted(d) /\ cpc'[d] # "add"
      BY <1>0, <1>b, <2>6, <3>1, HeldInRound DEF Counted
    <3>3. assigned[d] + Cardinality(U(d)) + JobsLeft(d) <= Jobs[d]
      BY <1>0, <3>2 DEF NumberInv
    <3>4. Cardinality(Unum(d)) <= Cardinality(U(d))
      <4>1. IsFiniteSet(U(d)) /\ Unum(d) \subseteq U(d)
        BY <2>10, SetsOfWorkers, WorkersFinite
      <4> HIDE DEF U, Unum
      <4> QED BY <4>1, FS_Subset
    <3>5. Cardinality(U(d)) \in Nat /\ Cardinality(Unum(d)) \in Nat /\ assigned'[d] = assigned[d] + 1
      BY <1>a, <2>6, <2>12, SetsOfWorkers
    <3>6. assigned'[d] + Cardinality(Unum(d)) + JobsLeft(d)' <= Jobs[d]
      <4> HIDE DEF U, Unum
      <4> QED BY <1>b, <3>1, <3>3, <3>4, <3>5
    <3> QED
      BY <3>2, <3>6
  <2>13. CASE d # c
    <3>1. JobsLeft(d)' = JobsLeft(d) /\ assigned'[d] = assigned[d]
      BY <1>a, <2>2, <2>5, <2>6, <2>13 DEF HandsOut
    <3> QED
      BY <1>0, <1>b, <2>6, <2>10, <2>11, <3>1, NumberQuiet
  <2> QED
    BY <2>12, <2>13
<1>8. ASSUME UNCHANGED vars, NEW d \in Clients PROVE Good(d)
  <2>1. UNCHANGED <<waitingClients, scheduledJobs, m_client, wpc, tag, assigned, cpc>>
    BY <1>8 DEF vars
  <2>2. JobsLeft(d)' = JobsLeft(d) /\ (Counted(d)' <=> Counted(d))
    BY <2>1, Numbers DEF Counted, InRound
  <2> QED
    BY <1>0, <1>b, <2>1, <2>2, NumberQuiet
<1> HIDE DEF Good
<1> QED
  BY <1>1, <1>2, <1>3, <1>4, <1>5, <1>6, <1>7, <1>8 DEF Next, ClientStep, WorkerStep

\* The jobs of a client that have been run and not counted are among those given out.
LEMMA UncountedAreGiven ==
    ASSUME NEW c \in Clients, JobsGiven(c) = 0
    PROVE  Cardinality(UncountedIn(m_client, wpc, client, c)) = 0
<1>1. HoldersIn(m_client, wpc, client, c) = {}
  BY Numbers, HoldersFinite, FS_EmptySet
<1>2. UncountedIn(m_client, wpc, client, c) = {}
  BY <1>1 DEF HoldersIn, UncountedIn
<1> QED
  BY <1>2, FS_EmptySet

\* A step that runs and counts no task of a client.
LEMMA TaskQuiet ==
    ASSUME TaskInv, NEW c \in Clients, ran'[c] = ran[c], finished'[c] = finished[c],
           \A w \in Workers : w \in UncountedIn(m_client', wpc', client', c)
                              <=> w \in UncountedIn(m_client, wpc, client, c),
           Counted(c)' => Counted(c), cpc'[c] = "add" => cpc[c] = "add",
           RoundOver(c)' => RoundOver(c)
    PROVE  /\ Counted(c)' => TasksRun(c)' = finished'[c]
                                  + Cardinality(UncountedIn(m_client', wpc', client', c))
           /\ cpc'[c] = "add" => TasksRun(c)' = 0
           /\ RoundOver(c)' => TasksRun(c)' = Jobs[c]
<1>1. TasksRun(c)' = TasksRun(c)
  BY DEF TasksRun
<1>2. UncountedIn(m_client', wpc', client', c) = UncountedIn(m_client, wpc, client, c)
  BY SetsOfWorkers
<1> QED
  BY <1>1, <1>2 DEF TaskInv

\* With a number for every job, a worker that takes one runs its task.
LEMMA AssignRuns ==
    ASSUME Always, NumberInv, NEW w \in Workers, Assign(w)
    PROVE  wpc' = [wpc EXCEPT ![w] = "task"]
<1>0. QueueInv /\ JobInv /\ TypeOK
  BY DEF Always, QueueInv
<1>1. PICK c \in Clients : c = m_client[w]
  BY <1>0, StateFacts DEF Assign, HasClient
<1>2. c # NULL
  BY NamesAssumption
<1>3. JobsLeft(c) \in Nat /\ Jobs[c] \in Nat
  BY <1>0, LeftIsNatural, JobsAssumption DEF JobInv
<1>4. Counted(c)
  BY <1>0, <1>1, <1>2, HeldInRound
<1>5. assigned[c] + Cardinality(UnnumberedIn(m_client, wpc, tag, c)) + JobsLeft(c) <= Jobs[c]
  BY <1>4 DEF NumberInv
<1> DEFINE U == UnnumberedIn(m_client, wpc, tag, c)
<1>6. U # {} /\ IsFiniteSet(U) /\ Cardinality(U) \in Nat
  BY <1>1, SetsOfWorkers, WorkersFinite DEF UnnumberedIn, Assign
<1>7. Cardinality(U) # 0
  <2> HIDE DEF U
  <2> QED BY <1>6, FS_EmptySet
<1>8. assigned[c] \in Nat
  BY <1>0 DEF TypeOK
<1>9. ~(assigned[c] >= Jobs[c])
  <2> HIDE DEF U
  <2>1. assigned[c] + Cardinality(U) + JobsLeft(c) <= Jobs[c]
    BY <1>5 DEF U
  <2>2. \A a, n, l, j \in Nat : n # 0 /\ a + n + l <= j => ~(a >= j)
    OBVIOUS
  <2> QED BY <1>3, <1>6, <1>7, <1>8, <2>1, <2>2
<1> QED
  BY <1>1, <1>9 DEF Assign, WorkerTo

\* A step runs a task for each job that it moves on to be counted.
LEMMA TaskStep ==
    ASSUME Always, Alone, ~overlap', [Next]_vars, TypeOK' PROVE TaskInv'
<1> USE DEF queueVars, countVars, localVars, historyVars, WorkerTo, ClientTo
<1>0. /\ QueueInv /\ JobInv /\ NumberInv /\ TaskInv /\ OneRound /\ TagInv /\ LastInv /\ FreshInv
      /\ TypeOK
  BY DEF Always, Alone, QueueInv
<1>a. /\ wpc \in [Workers -> WorkerStates] /\ cpc \in [Clients -> ClientStates]
      /\ m_client \in [Workers -> Clients \cup {NULL}] /\ client \in [Workers -> Clients \cup {NULL}]
      /\ finished \in [Clients -> Nat] /\ ran \in [Clients -> [Workers -> Nat]]
      /\ rounds \in [Clients -> 0 .. MaxRounds]
  BY <1>0 DEF TypeOK
<1>b. \A c \in Clients : /\ c # NULL /\ JobsLeft(c) \in Nat /\ Jobs[c] \in Nat /\ finished[c] \in Nat
                         /\ JobsGiven(c) \in Nat
  BY <1>0, <1>a, LeftIsNatural, Numbers, HoldersFinite, NamesAssumption, JobsAssumption DEF JobInv
<1> DEFINE R(d) == UncountedIn(m_client, wpc, client, d)
           Run(d) == UncountedIn(m_client', wpc', client', d)
           Good(d) == /\ Counted(d)' => TasksRun(d)' = finished'[d] + Cardinality(Run(d))
                      /\ cpc'[d] = "add" => TasksRun(d)' = 0
                      /\ RoundOver(d)' => TasksRun(d)' = Jobs[d]
<1>c. SUFFICES \A d \in Clients : Good(d)
  BY DEF TaskInv
<1>d. IsFiniteSet(Workers)
  <2>1. Workers \in SUBSET Workers
    OBVIOUS
  <2> QED BY <2>1, WorkersFinite
<1>1. ASSUME NEW c \in Clients,
             CreateServer(c) \/ ServerReady(c) \/ FindServer(c) \/ PassOver(c) \/ Added(c) \/ WaitLock(c)
             \/ Offer(c) \/ ((Check(c) \/ WaitLoop(c)) /\ cpc'[c] # "idle"),
             NEW d \in Clients
      PROVE  Good(d)
  <2>1. UNCHANGED <<ran, finished, client, rounds>>
    BY <1>1 DEF CreateServer, ServerReady, FindServer, PassOver, Added, Check, WaitLock, WaitLoop, Offer
  <2>2. ASSUME NEW w \in Workers PROVE w \in Run(d) <=> w \in R(d)
    <3>1. CASE Offer(c)
      <4>1. PICK v \in Workers : v = next
        BY <1>0, <3>1, StateFacts DEF Offer, TypeOK
      <4>2. /\ wpc' = [wpc EXCEPT ![v] = "woken"] /\ wpc[v] = "asleep"
            /\ m_client' = [m_client EXCEPT ![v] = Given(NextClientIndex)]
        BY <1>0, <3>1, <4>1 DEF Offer, Schedule, QueueInv, WorkerInv
      <4> QED
        BY <1>a, <2>1, <4>2 DEF UncountedIn
    <3>2. CASE CreateServer(c)
      <4>1. wpc[w] = "none" /\ wpc'[w] = "start"
        BY <1>0, <3>2 DEF CreateServer, QueueInv, StartInv
      <4> QED
        BY <4>1 DEF UncountedIn
    <3>3. CASE ~Offer(c) /\ ~CreateServer(c)
      <4>1. UNCHANGED <<wpc, m_client>>
        BY <1>1, <3>3 DEF ServerReady, FindServer, PassOver, Added, Check, WaitLock, WaitLoop
      <4> QED
        BY <2>1, <4>1 DEF UncountedIn
    <3> QED
      BY <3>1, <3>2, <3>3
  <2>3. (Counted(d)' => Counted(d)) /\ (cpc'[d] = "add" => cpc[d] = "add")
    BY <1>1, <1>a DEF CreateServer, ServerReady, FindServer, PassOver, Added, Check, WaitLock, WaitLoop, Offer,
       Counted, InRound
  <2>4. RoundOver(d)' => RoundOver(d)
    <3>1. cpc'[d] = "idle" => cpc[d] \in {"idle", "create", "spinup"}
      BY <1>1, <1>a DEF CreateServer, ServerReady, FindServer, PassOver, Added, Check, WaitLock, WaitLoop, Offer
    <3> QED
      BY <1>0, <1>a, <2>1, <3>1 DEF RoundOver, FreshInv
  <2> QED
    BY <1>0, <2>1, <2>2, <2>3, <2>4, TaskQuiet
<1>2. ASSUME NEW c \in Clients, Check(c) \/ WaitLoop(c), cpc'[c] = "idle", NEW d \in Clients PROVE Good(d)
  <2>1. /\ UNCHANGED <<ran, finished, client, wpc, m_client, rounds>> /\ cpc' = [cpc EXCEPT ![c] = "idle"]
        /\ Counted(c)
    BY <1>2, <1>a DEF Check, WaitLoop, Counted, InRound
  <2>2. finished[c] >= Jobs[c]
    BY <1>2, <1>a, <1>b DEF Check, WaitLoop
  <2>3. Run(d) = R(d) /\ TasksRun(d)' = TasksRun(d)
    BY <2>1 DEF TasksRun
  <2>4. CASE d = c
    <3>1. finished[c] + JobsGiven(c) + JobsLeft(c) = Jobs[c]
      BY <1>0, <2>1 DEF JobInv, Balance
    <3>2. JobsGiven(c) = 0 /\ finished[c] = Jobs[c]
      BY <1>b, <2>2, <3>1
    <3>3. Cardinality(R(d)) = 0
      BY <2>4, <3>2, UncountedAreGiven
    <3>4. TasksRun(d) = finished[d] + Cardinality(R(d))
      BY <1>0, <2>1, <2>4 DEF TaskInv
    <3>5. TasksRun(d)' = Jobs[d]
      BY <1>b, <2>3, <2>4, <3>2, <3>3, <3>4
    <3>6. cpc'[d] = "idle"
      BY <1>2, <2>4
    <3> QED
      BY <3>5, <3>6 DEF Counted, InRound
  <2>5. CASE d # c
    <3>1. cpc'[d] = cpc[d] /\ rounds'[d] = rounds[d]
      BY <1>a, <2>1, <2>5
    <3>2. \A w \in Workers : w \in Run(d) <=> w \in R(d)
      BY <2>3
    <3> QED
      BY <1>0, <2>1, <3>1, <3>2, TaskQuiet DEF Counted, InRound, RoundOver
  <2> QED
    BY <2>4, <2>5
<1>3. ASSUME NEW c \in Clients, Start(c), NEW d \in Clients PROVE Good(d)
  <2>1. /\ UNCHANGED <<client, wpc, m_client>> /\ cpc' = [cpc EXCEPT ![c] = "add"]
        /\ ran' = [ran EXCEPT ![c] = [w \in Workers |-> 0]]
        /\ finished' = [finished EXCEPT ![c] = 0]
        /\ rounds' = [rounds EXCEPT ![c] = @ + 1]
    BY <1>3 DEF Start, ResetCounters
  <2>2. CASE d = c
    <3>1. cpc'[d] = "add" /\ ran'[d] = [w \in Workers |-> 0]
      BY <1>a, <2>1, <2>2
    <3>2. DOMAIN ran'[d] = Workers /\ \A w \in Workers : ran'[d][w] = 0
      BY <3>1
    <3>3. TasksRun(d)' = 0
      BY <1>d, <3>2, SumOfZeros DEF TasksRun
    <3> QED
      BY <3>1, <3>3 DEF Counted, RoundOver
  <2>3. CASE d # c
    <3>1. /\ cpc'[d] = cpc[d] /\ rounds'[d] = rounds[d] /\ ran'[d] = ran[d] /\ finished'[d] = finished[d]
      BY <1>a, <2>1, <2>3
    <3>2. \A w \in Workers : w \in Run(d) <=> w \in R(d)
      BY <2>1
    <3> QED
      BY <1>0, <3>1, <3>2, TaskQuiet DEF Counted, InRound, RoundOver
  <2> QED
    BY <2>2, <2>3
<1>4. ASSUME NEW c \in Clients, Enqueue(c), NEW d \in Clients PROVE Good(d)
  <2>1. /\ UNCHANGED <<client, wpc, m_client, ran, finished, rounds>> /\ cpc' = [cpc EXCEPT ![c] = "offer"]
        /\ cpc[c] = "add"
    BY <1>4 DEF Enqueue, TakeSlot
  <2>2. CASE d = c
    <3>1. JobsGiven(d) = 0 /\ finished[d] = 0 /\ TasksRun(d) = 0
      BY <1>0, <2>1, <2>2 DEF JobInv, Balance, Counted, TaskInv
    <3>2. Cardinality(Run(d)) = 0 /\ TasksRun(d)' = TasksRun(d) /\ finished'[d] = finished[d]
      BY <2>1, <3>1, UncountedAreGiven DEF TasksRun
    <3>3. cpc'[d] = "offer"
      BY <1>a, <2>1, <2>2
    <3> QED
      BY <3>1, <3>2, <3>3 DEF RoundOver
  <2>3. CASE d # c
    <3>1. /\ cpc'[d] = cpc[d] /\ rounds'[d] = rounds[d] /\ ran'[d] = ran[d] /\ finished'[d] = finished[d]
      BY <1>a, <2>1, <2>3
    <3>2. \A w \in Workers : w \in Run(d) <=> w \in R(d)
      BY <2>1
    <3> QED
      BY <1>0, <3>1, <3>2, TaskQuiet DEF Counted, InRound, RoundOver
  <2> QED
    BY <2>2, <2>3
<1>5. ASSUME NEW w \in Workers, Assign(w) PROVE wpc'[w] = "task"
  BY <1>0, <1>5, <1>a, AssignRuns
<1>6. ASSUME NEW w \in Workers,
             Begin(w) \/ WakeUp(w) \/ Top(w) \/ Assign(w) \/ Clear(w) \/ Continue(w) \/ Sleep(w),
             NEW d \in Clients
      PROVE  Good(d)
  <2>1. UNCHANGED <<ran, finished, rounds>>
    BY <1>6 DEF Begin, WakeUp, Top, Assign, Clear, Continue, Sleep
  <2>2. /\ Counted(d)' <=> Counted(d)
        /\ cpc'[d] = "add" => cpc[d] = "add"
        /\ cpc'[d] = "idle" => cpc[d] = "idle"
    BY <1>6, <1>a DEF Begin, WakeUp, Top, Assign, Clear, Continue, Sleep, ResumeServer, Asleep, Counted, InRound
  <2>3. ASSUME NEW v \in Workers PROVE v \in Run(d) <=> v \in R(d)
    <3>1. CASE v # w
      <4>1. m_client'[v] = m_client[v] /\ wpc'[v] = wpc[v] /\ client'[v] = client[v]
        BY <1>6, <1>a, <3>1 DEF Begin, WakeUp, Top, Assign, Clear, Continue, Sleep, Schedule
      <4> QED
        BY <4>1 DEF UncountedIn
    <3>2. CASE v = w /\ Clear(w)
      BY <1>a, <1>b, <3>2 DEF Clear, UncountedIn
    <3>3. CASE v = w /\ ~Clear(w)
      <4>1. wpc[w] \notin {"clear", "count"}
        BY <1>6, <3>3 DEF Begin, WakeUp, Wakes, Top, Assign, Continue, Sleep
      <4>2. wpc'[w] \notin {"clear", "count"}
        BY <1>5, <1>6, <1>a, <3>3 DEF Begin, WakeUp, Top, Continue, Sleep
      <4> QED
        BY <3>3, <4>1, <4>2 DEF UncountedIn
    <3> QED
      BY <3>1, <3>2, <3>3
  <2> QED
    BY <1>0, <2>1, <2>2, <2>3, TaskQuiet DEF RoundOver
<1>7. ASSUME NEW w \in Workers, Task(w), NEW d \in Clients PROVE Good(d)
  <2>1. PICK c \in Clients : c = m_client[w]
    BY <1>0, <1>7, StateFacts DEF Task, HasClient
  <2>2. /\ UNCHANGED <<m_client, client, finished, cpc, rounds>> /\ wpc[w] = "task"
        /\ wpc' = [wpc EXCEPT ![w] = "clear"]
        /\ ran' = [ran EXCEPT ![c][w] = @ + 1]
    BY <1>7, <2>1 DEF Task
  <2>3. CASE d = c
    <3>1. w \notin R(d) /\ Run(d) = R(d) \cup {w}
      BY <1>a, <2>1, <2>2, <2>3 DEF UncountedIn
    <3>2. R(d) \in SUBSET Workers
      BY SetsOfWorkers
    <3>3. IsFiniteSet(R(d)) /\ Cardinality(R(d)) \in Nat
      BY <3>2, WorkersFinite
    <3>4. Cardinality(Run(d)) = Cardinality(R(d)) + 1
      <4> HIDE DEF R, Run
      <4> QED BY <3>1, <3>3, FS_AddElement
    <3>5. TasksRun(d)' = TasksRun(d) + 1
      <4>1. ran[d] \in [Workers -> Nat] /\ ran'[d] = [ran[d] EXCEPT ![w] = @ + 1]
        BY <1>a, <2>2, <2>3
      <4> QED
        BY <1>d, <4>1, SumOfOneMore DEF TasksRun
    <3>6. Counted(d)
      BY <1>0, <1>b, <2>1, <2>3, HeldInRound
    <3>7. TasksRun(d) = finished[d] + Cardinality(R(d))
      BY <1>0, <3>6 DEF TaskInv
    <3>8. TasksRun(d)' = finished'[d] + Cardinality(Run(d))
      <4> HIDE DEF R, Run
      <4> QED BY <1>b, <2>2, <3>3, <3>4, <3>5, <3>7
    <3>9. cpc'[d] # "add" /\ cpc'[d] # "idle"
      BY <2>2, <3>6 DEF Counted, InRound
    <3> QED
      BY <3>8, <3>9 DEF RoundOver
  <2>4. CASE d # c
    <3>1. ran'[d] = ran[d]
      BY <1>a, <2>2, <2>4
    <3>2. \A v \in Workers : v \in Run(d) <=> v \in R(d)
      BY <1>a, <2>1, <2>2, <2>4 DEF UncountedIn
    <3> QED
      BY <1>0, <2>2, <3>1, <3>2, TaskQuiet DEF Counted, InRound, RoundOver
  <2> QED
    BY <2>3, <2>4
<1>8. ASSUME NEW w \in Workers, Count(w), NEW d \in Clients PROVE Good(d)
  <2>1. PICK c \in Clients : c = client[w]
    BY <1>0, <1>8, StateFacts DEF Count
  <2>2. /\ UNCHANGED <<m_client, client, ran, cpc, rounds>> /\ wpc[w] = "count"
        /\ wpc' = [wpc EXCEPT ![w] = "next"]
        /\ finished' = [finished EXCEPT ![c] = @ + 1]
    BY <1>8, <2>1 DEF Count
  <2>3. m_client[w] = NULL
    BY <1>0, <2>2 DEF QueueInv, WorkerInv, HasClient
  <2>4. CASE d = c
    <3>1. w \in R(d) /\ Run(d) = R(d) \ {w}
      BY <1>a, <1>b, <2>1, <2>2, <2>3, <2>4 DEF UncountedIn
    <3>2. R(d) \in SUBSET Workers
      BY SetsOfWorkers
    <3>3. IsFiniteSet(R(d)) /\ Cardinality(R(d)) \in Nat
      BY <3>2, WorkersFinite
    <3>4. Cardinality(Run(d)) = Cardinality(R(d)) - 1
      <4> HIDE DEF R, Run
      <4> QED BY <3>1, <3>3, FS_RemoveElement
    <3>5. TasksRun(d)' = TasksRun(d) /\ finished'[d] = finished[d] + 1
      BY <1>a, <2>2, <2>4 DEF TasksRun
    <3>6. Counted(d)
      BY <1>0, <2>1, <2>2, <2>4, HeldInRound
    <3>7. TasksRun(d) = finished[d] + Cardinality(R(d))
      BY <1>0, <3>6 DEF TaskInv
    <3>8. TasksRun(d)' = finished'[d] + Cardinality(Run(d))
      <4> HIDE DEF R, Run
      <4> QED BY <1>b, <3>3, <3>4, <3>5, <3>7
    <3>9. cpc'[d] # "add" /\ cpc'[d] # "idle"
      BY <2>2, <3>6 DEF Counted, InRound
    <3> QED
      BY <3>8, <3>9 DEF RoundOver
  <2>5. CASE d # c
    <3>1. finished'[d] = finished[d]
      BY <1>a, <2>2, <2>5
    <3>2. \A v \in Workers : v \in Run(d) <=> v \in R(d)
      BY <1>a, <1>b, <2>1, <2>2, <2>3, <2>5 DEF UncountedIn
    <3> QED
      BY <1>0, <2>2, <3>1, <3>2, TaskQuiet DEF Counted, InRound, RoundOver
  <2> QED
    BY <2>4, <2>5
<1>9. ASSUME UNCHANGED vars, NEW d \in Clients PROVE Good(d)
  <2>1. UNCHANGED <<m_client, wpc, client, ran, finished, cpc, rounds>>
    BY <1>9 DEF vars
  <2> QED
    BY <1>0, <2>1, TaskQuiet DEF Counted, InRound, RoundOver
<1> HIDE DEF Good
<1> QED
  BY <1>1, <1>2, <1>3, <1>4, <1>6, <1>7, <1>8, <1>9 DEF Next, ClientStep, WorkerStep

-----------------------------------------------------------------------------
(* 5. The job ids *)

\* A worker that has a number for the job of a client, and has not passed it to task().
HasNumber(w, c) == m_client[w] = c /\ (wpc[w] = "task" \/ (wpc[w] = "top" /\ tag[w] = c))

\* Numbers and jobs run out together, and the numbers taken are passed on.
Handed(c) ==
    /\ assigned[c] + Cardinality(UnnumberedIn(m_client, wpc, tag, c)) + JobsLeft(c) = Jobs[c]
    /\ \A n \in Int : 0 <= n /\ n < assigned[c]
                          <=> n \in ids[c] \/ \E w \in Workers : HasNumber(w, c) /\ seqn[w] = n

\* Before a client's first round no worker has its tag ...
Newcomer(c) == rounds[c] = 0 => ~InRound(c) /\ \A w \in Workers : tag[w] # c

\* ... in it workers take the tag only with a number ...
TagsOf(c) ==
    FirstRound(c) =>
        /\ cpc[c] = "add" => \A w \in Workers : tag[w] # c
        /\ cpc[c] = "offer" => \A w \in Workers : tag[w] = c => wpc[w] = "assign"
        /\ \A w \in Workers : m_client[w] = c /\ wpc[w] = "woken" => tag[w] # c

\* ... and all numbers are those of its jobs.
IdsOf(c) ==
    FirstRound(c) =>
        /\ cpc[c] = "add" => ids[c] = {}
        /\ Counted(c) => Handed(c)
        /\ RoundOver(c) => ids[c] = JobIds(c)

IdInv == \A c \in Clients : Newcomer(c) /\ TagsOf(c) /\ IdsOf(c)

\* A worker takes the tag of a client only with one of its jobs, in a round.
LEMMA NewcomerStep ==
    ASSUME Always, Alone, IdInv, [Next]_vars, NEW d \in Clients PROVE Newcomer(d)'
<1> USE DEF queueVars, countVars, localVars, historyVars, WorkerTo, ClientTo
<1>0. /\ QueueInv /\ JobInv /\ WorkerInv /\ Newcomer(d)
      /\ cpc \in [Clients -> ClientStates] /\ tag \in [Workers -> Clients \cup {NULL}]
      /\ rounds \in [Clients -> 0 .. MaxRounds] /\ d # NULL
  BY NamesAssumption DEF Always, Alone, QueueInv, TypeOK, IdInv
<1>1. ASSUME NEW c \in Clients, Start(c) PROVE Newcomer(d)'
  <2>1. tag' = tag /\ cpc' = [cpc EXCEPT ![c] = "add"] /\ rounds' = [rounds EXCEPT ![c] = @ + 1]
    BY <1>1 DEF Start
  <2> QED
    BY <1>0, <2>1 DEF Newcomer, InRound
<1>2. ASSUME NEW c \in Clients, ClientStep(c) PROVE Newcomer(d)'
  <2>1. UNCHANGED <<tag, rounds>>
    BY <1>2 DEF ClientStep, CreateServer, ServerReady, FindServer, Enqueue, TakeSlot, Offer, PassOver, Added,
       Check, WaitLock, WaitLoop
  <2>2. InRound(d)' => InRound(d)
    BY <1>0, <1>2 DEF ClientStep, CreateServer, ServerReady, FindServer, Enqueue, TakeSlot, Offer, PassOver,
       Added, Check, WaitLock, WaitLoop, InRound
  <2> QED
    BY <1>0, <2>1, <2>2 DEF Newcomer
<1>3. ASSUME NEW w \in Workers, WorkerStep(w) PROVE Newcomer(d)'
  <2>1. rounds' = rounds /\ (InRound(d)' => InRound(d))
    BY <1>0, <1>3 DEF WorkerStep, Begin, WakeUp, Top, Assign, Task, Clear, Count, Continue, Sleep,
       ResumeServer, Asleep, InRound
  <2>2. ASSUME NEW v \in Workers, tag'[v] = d PROVE tag[v] = d \/ InRound(d)
    <3>1. CASE Top(w)
      <4>1. wpc[w] = "top" /\ m_client[w] # NULL
        BY <1>0, <3>1 DEF Top, WorkerInv, HasClient
      <4>2. tag' = [tag EXCEPT ![w] = m_client[w]]
        BY <3>1, <4>1 DEF Top
      <4>3. InRound(m_client[w])
        BY <1>0, <4>1, HeldInRound DEF Counted
      <4> QED
        BY <1>0, <2>2, <4>2, <4>3
    <3>2. CASE ~Top(w)
      <4>1. tag' = tag
        BY <1>3, <3>2 DEF WorkerStep, Begin, WakeUp, Assign, Task, Clear, Count, Continue, Sleep
      <4> QED
        BY <2>2, <4>1
    <3> QED
      BY <3>1, <3>2
  <2> QED
    BY <1>0, <2>1, <2>2 DEF Newcomer
<1>4. CASE UNCHANGED vars
  BY <1>0, <1>4 DEF vars, Newcomer, InRound
<1> QED
  BY <1>1, <1>2, <1>3, <1>4 DEF Next

\* A worker is given the tag at the head of its loop, and never while it sleeps.
LEMMA TagsOfStep ==
    ASSUME Always, Alone, IdInv, [Next]_vars, NEW d \in Clients PROVE TagsOf(d)'
<1> USE DEF queueVars, countVars, localVars, historyVars, WorkerTo, ClientTo, FirstRound
<1>0. /\ QueueInv /\ JobInv /\ OneRound /\ TypeOK /\ HolderInv /\ WorkerInv /\ TagsOf(d) /\ Newcomer(d)
      /\ wpc \in [Workers -> WorkerStates] /\ cpc \in [Clients -> ClientStates]
      /\ m_client \in [Workers -> Clients \cup {NULL}] /\ tag \in [Workers -> Clients \cup {NULL}]
      /\ rounds \in [Clients -> 0 .. MaxRounds] /\ d # NULL
  BY NamesAssumption DEF Always, Alone, QueueInv, TypeOK, IdInv
<1>1. ASSUME NEW c \in Clients, Start(c) PROVE TagsOf(d)'
  <2>1. /\ UNCHANGED <<m_client, wpc, tag>> /\ cpc' = [cpc EXCEPT ![c] = "add"]
        /\ rounds' = [rounds EXCEPT ![c] = @ + 1]
    BY <1>1 DEF Start
  <2>2. CASE d = c
    BY <1>0, <2>1, <2>2 DEF TagsOf, Newcomer
  <2>3. CASE d # c
    BY <1>0, <2>1, <2>3 DEF TagsOf
  <2> QED
    BY <2>2, <2>3
<1>2. ASSUME NEW c \in Clients, Enqueue(c) PROVE TagsOf(d)'
  <2>1. /\ UNCHANGED <<m_client, wpc, tag, rounds>> /\ cpc' = [cpc EXCEPT ![c] = "offer"]
        /\ cpc[c] = "add"
    BY <1>2 DEF Enqueue, TakeSlot
  <2> QED
    BY <1>0, <2>1 DEF TagsOf
<1>3. ASSUME NEW c \in Clients, Offer(c) PROVE TagsOf(d)'
  <2>1. PICK w \in Workers : w = next
    BY <1>0, <1>3, StateFacts DEF Offer, TypeOK
  <2>2. /\ Schedule(w) /\ NextClientIndex # -1 /\ UNCHANGED <<tag, cpc, rounds>>
        /\ wpc' = [wpc EXCEPT ![w] = "woken"] /\ suspended[w] /\ cpc[c] = "offer"
    BY <1>3, <2>1 DEF Offer
  <2>3. wpc[w] = "asleep"
    BY <1>0, <2>2 DEF WorkerInv
  <2>4. PICK i \in Slots, e \in Clients : HandsOut(w, i, e)
    BY <1>0, <2>2, HandedOut
  <2>5. \A v \in Workers \ {w} : m_client'[v] = m_client[v] /\ wpc'[v] = wpc[v]
    BY <1>0, <2>2, <2>4 DEF HandsOut
  <2>6. FirstRound(d) /\ m_client'[w] = d => tag[w] # d
    <3>1. SUFFICES ASSUME FirstRound(d), m_client'[w] = d PROVE tag[w] # d
      OBVIOUS
    <3>2. waitingClients[i] = d
      BY <1>0, <2>4, <3>1 DEF HandsOut
    <3>3. InRound(d)
      BY <1>0, <3>2, HeldInRound DEF Counted
    <3>4. d = c
      BY <1>0, <2>2, <3>3 DEF OneRound, InRound
    <3> QED
      BY <1>0, <2>2, <2>3, <3>1, <3>4 DEF TagsOf
  <2> QED
    BY <1>0, <2>2, <2>3, <2>5, <2>6 DEF TagsOf
<1>4. ASSUME NEW c \in Clients,
             ServerReady(c) \/ FindServer(c) \/ PassOver(c) \/ Added(c) \/ Check(c) \/ WaitLock(c) \/ WaitLoop(c)
      PROVE  TagsOf(d)'
  <2>1. UNCHANGED <<m_client, wpc, tag, rounds>>
    BY <1>4 DEF ServerReady, FindServer, PassOver, Added, Check, WaitLock, WaitLoop
  <2>2. cpc'[d] \in {"add", "offer"} => cpc'[d] = cpc[d]
    BY <1>0, <1>4 DEF ServerReady, FindServer, PassOver, Added, Check, WaitLock, WaitLoop
  <2> QED
    BY <2>1, <2>2 DEF TagsOf, IdInv
<1>5. ASSUME NEW c \in Clients, CreateServer(c) PROVE TagsOf(d)'
  <2>1. /\ UNCHANGED <<m_client, tag, rounds>> /\ cpc' = [cpc EXCEPT ![c] = "spinup"]
        /\ wpc' = [w \in Workers |-> "start"] /\ server = NULL
    BY <1>5 DEF CreateServer
  <2>2. cpc[d] # "offer"
    BY <1>0, <2>1 DEF HolderInv
  <2>3. cpc'[d] \in {"add", "offer"} => cpc'[d] = cpc[d]
    BY <1>0, <2>1
  <2> QED
    BY <1>0, <2>1, <2>2, <2>3 DEF TagsOf
<1>6. ASSUME NEW w \in Workers, Top(w) PROVE TagsOf(d)'
  <2>1. /\ UNCHANGED <<m_client, cpc, rounds>> /\ wpc[w] = "top" /\ m_client[w] # NULL
    BY <1>0, <1>6 DEF Top, WorkerInv, HasClient
  <2>2. /\ tag' = [tag EXCEPT ![w] = m_client[w]]
        /\ wpc' = [wpc EXCEPT ![w] = IF tag[w] = m_client[w] THEN "task" ELSE "assign"]
    BY <1>6, <2>1 DEF Top
  <2>3. m_client[w] = d => cpc[d] # "add"
    BY <1>0, <2>1, HeldInRound DEF Counted
  <2>4. m_client[w] = d /\ FirstRound(d) /\ cpc[d] = "offer" => wpc'[w] = "assign"
    BY <1>0, <2>1, <2>2 DEF TagsOf
  <2> QED
    BY <1>0, <2>1, <2>2, <2>3, <2>4 DEF TagsOf
<1>7. ASSUME NEW w \in Workers,
             Begin(w) \/ WakeUp(w) \/ Assign(w) \/ Task(w) \/ Clear(w) \/ Count(w) \/ Continue(w) \/ Sleep(w)
      PROVE  TagsOf(d)'
  <2>1. /\ UNCHANGED <<tag, rounds>> /\ wpc'[w] # "woken"
        /\ \A v \in Workers \ {w} : m_client'[v] = m_client[v] /\ wpc'[v] = wpc[v]
    BY <1>0, <1>7 DEF Begin, WakeUp, Assign, Task, Clear, Count, Continue, Sleep, Schedule
  <2>2. cpc'[d] \in {"add", "offer"} => cpc'[d] = cpc[d]
    BY <1>0, <1>7 DEF Begin, WakeUp, Assign, Task, Clear, Count, Continue, Sleep, ResumeServer, Asleep
  <2>3. wpc[w] = "assign" => server = NULL
    BY <1>7 DEF Begin, WakeUp, Wakes, Assign, Task, Clear, Count, Continue, Sleep
  <2>4. wpc[w] = "assign" => cpc[d] # "offer"
    BY <1>0, <2>3 DEF HolderInv
  <2> QED
    BY <1>0, <2>1, <2>2, <2>4 DEF TagsOf
<1>8. CASE UNCHANGED vars
  BY <1>0, <1>8 DEF vars, TagsOf
<1> QED
  BY <1>1, <1>2, <1>3, <1>4, <1>5, <1>6, <1>7, <1>8 DEF Next, ClientStep, WorkerStep

\* A step that passes no number of a client and hands out none.
LEMMA IdsQuiet ==
    ASSUME NEW c \in Clients, IdsOf(c), rounds'[c] = rounds[c], ids'[c] = ids[c],
           assigned'[c] = assigned[c], JobsLeft(c)' = JobsLeft(c),
           FirstRound(c) => \A w \in Workers :
               /\ w \in UnnumberedIn(m_client', wpc', tag', c) <=> w \in UnnumberedIn(m_client, wpc, tag, c)
               /\ HasNumber(w, c)' <=> HasNumber(w, c)
               /\ HasNumber(w, c) => seqn'[w] = seqn[w],
           Counted(c)' => Counted(c), cpc'[c] = "add" => cpc[c] = "add", RoundOver(c)' => RoundOver(c)
    PROVE  IdsOf(c)'
<1> USE DEF FirstRound
<1>1. SUFFICES ASSUME FirstRound(c)
               PROVE  /\ cpc'[c] = "add" => ids'[c] = {}
                      /\ Counted(c)' => Handed(c)'
                      /\ RoundOver(c)' => ids'[c] = JobIds(c)
  BY DEF IdsOf, JobIds
<1>2. UnnumberedIn(m_client', wpc', tag', c) = UnnumberedIn(m_client, wpc, tag, c)
  BY <1>1, SetsOfWorkers
<1>3. ASSUME Counted(c)' PROVE Handed(c)'
  <2>1. Handed(c)
    BY <1>1, <1>3 DEF IdsOf
  <2>2. \A n \in Int : (\E w \in Workers : HasNumber(w, c)' /\ seqn'[w] = n)
                          <=> (\E w \in Workers : HasNumber(w, c) /\ seqn[w] = n)
    BY <1>1
  <2> QED
    BY <1>2, <2>1, <2>2 DEF Handed
<1> QED
  BY <1>1, <1>3 DEF IdsOf

\* waitForAllThreads returns only with every number passed on.
LEMMA AllPassed ==
    ASSUME JobInv, TypeOK, NEW c \in Clients, Counted(c), finished[c] >= Jobs[c], Handed(c)
    PROVE  ids[c] = JobIds(c)
<1>1. /\ finished[c] \in Nat /\ JobsGiven(c) \in Nat /\ JobsLeft(c) \in Nat /\ Jobs[c] \in Nat
      /\ assigned[c] \in Nat /\ ids[c] \in SUBSET (Nat \cup {-1})
  BY LeftIsNatural, Numbers, HoldersFinite, JobsAssumption DEF JobInv, TypeOK
<1>2. JobsGiven(c) = 0 /\ JobsLeft(c) = 0
  BY <1>1 DEF JobInv, Balance
<1>3. HoldersIn(m_client, wpc, client, c) = {}
  BY <1>2, Numbers, HoldersFinite, FS_EmptySet
<1>4. \A w \in Workers : m_client[w] # c
  BY <1>3 DEF HoldersIn
<1>5. Cardinality(UnnumberedIn(m_client, wpc, tag, c)) = 0
  <2>1. UnnumberedIn(m_client, wpc, tag, c) = {}
    BY <1>4 DEF UnnumberedIn
  <2> QED BY <2>1, FS_EmptySet
<1>6. assigned[c] = Jobs[c]
  BY <1>1, <1>2, <1>5 DEF Handed
<1>7. \A n \in Int : 0 <= n /\ n < Jobs[c] <=> n \in ids[c]
  BY <1>4, <1>6 DEF Handed, HasNumber
<1>8. \A n \in Int : n \in JobIds(c) <=> 0 <= n /\ n < Jobs[c]
  BY <1>1 DEF JobIds
<1>9. ids[c] \subseteq Int /\ JobIds(c) \subseteq Int
  BY <1>1 DEF JobIds
<1> HIDE DEF JobIds
<1> QED
  BY <1>7, <1>8, <1>9

\* Every number that a step hands out is the next one, and every number it passes
\* to task() was one that the worker had.
LEMMA IdsOfStep ==
    ASSUME Always, Alone, IdInv, [Next]_vars, ~overlap', NEW d \in Clients PROVE IdsOf(d)'
<1> USE DEF queueVars, countVars, localVars, historyVars, WorkerTo, ClientTo, FirstRound
<1>0. /\ QueueInv /\ JobInv /\ NumberInv /\ OneRound /\ TagInv /\ LastInv /\ DoneInv /\ FreshInv /\ TypeOK
      /\ TagsOf(d) /\ IdsOf(d)
  BY DEF Always, Alone, QueueInv, IdInv
<1>a. /\ wpc \in [Workers -> WorkerStates] /\ cpc \in [Clients -> ClientStates]
      /\ m_client \in [Workers -> Clients \cup {NULL}] /\ tag \in [Workers -> Clients \cup {NULL}]
      /\ assigned \in [Clients -> Nat] /\ seqn \in [Workers -> Nat \cup {-1}]
      /\ ids \in [Clients -> SUBSET (Nat \cup {-1})]
      /\ rounds \in [Clients -> 0 .. MaxRounds]
  BY <1>0 DEF TypeOK
<1>b. /\ d # NULL /\ JobsLeft(d) \in Nat /\ Jobs[d] \in Nat /\ assigned[d] \in Nat
  BY <1>0, <1>a, LeftIsNatural, NamesAssumption, JobsAssumption DEF JobInv
<1> DEFINE U == UnnumberedIn(m_client, wpc, tag, d)
           Unum == UnnumberedIn(m_client', wpc', tag', d)
<1>c. /\ IsFiniteSet(U) /\ Cardinality(U) \in Nat /\ Cardinality(Unum) \in Nat
  BY SetsOfWorkers, WorkersFinite
<1>1. ASSUME NEW c \in Clients,
             CreateServer(c) \/ ServerReady(c) \/ FindServer(c) \/ PassOver(c) \/ Added(c) \/ WaitLock(c)
             \/ ((Check(c) \/ WaitLoop(c)) /\ cpc'[c] # "idle")
      PROVE  IdsOf(d)'
  <2>1. UNCHANGED <<waitingClients, scheduledJobs, m_client, tag, seqn, assigned, ids, rounds>>
    BY <1>1 DEF CreateServer, ServerReady, FindServer, PassOver, Added, Check, WaitLock, WaitLoop
  <2>2. ASSUME NEW w \in Workers
        PROVE  wpc'[w] = wpc[w] \/ (wpc[w] = "none" /\ wpc'[w] = "start")
    <3>1. CASE CreateServer(c)
      BY <1>0, <3>1 DEF CreateServer, QueueInv, StartInv
    <3>2. CASE ~CreateServer(c)
      BY <1>1, <3>2 DEF ServerReady, FindServer, PassOver, Added, Check, WaitLock, WaitLoop
    <3> QED
      BY <3>1, <3>2
  <2>3. \A w \in Workers : (w \in Unum <=> w \in U) /\ (HasNumber(w, d)' <=> HasNumber(w, d))
    BY <2>1, <2>2 DEF UnnumberedIn, HasNumber
  <2>4. (Counted(d)' => Counted(d)) /\ (cpc'[d] = "add" => cpc[d] = "add")
    BY <1>1, <1>a DEF CreateServer, ServerReady, FindServer, PassOver, Added, Check, WaitLock, WaitLoop,
       Counted, InRound
  <2>5. RoundOver(d)' => RoundOver(d)
    <3>1. cpc'[d] = "idle" => cpc[d] \in {"idle", "create", "spinup"}
      BY <1>1, <1>a DEF CreateServer, ServerReady, FindServer, PassOver, Added, Check, WaitLock, WaitLoop
    <3> QED
      BY <1>0, <1>a, <2>1, <3>1 DEF RoundOver, FreshInv
  <2>6. JobsLeft(d)' = JobsLeft(d)
    BY <2>1, Numbers
  <2> QED
    BY <1>0, <2>1, <2>3, <2>4, <2>5, <2>6, IdsQuiet
<1>2. ASSUME NEW c \in Clients, Check(c) \/ WaitLoop(c), cpc'[c] = "idle" PROVE IdsOf(d)'
  <2>1. /\ UNCHANGED <<waitingClients, scheduledJobs, wpc, m_client, tag, seqn, assigned, ids, rounds>>
        /\ cpc' = [cpc EXCEPT ![c] = "idle"] /\ Counted(c)
    BY <1>2, <1>a DEF Check, WaitLoop, Counted, InRound
  <2>2. finished[c] >= Jobs[c]
    BY <1>0, <1>2, <1>a, JobsAssumption DEF Check, WaitLoop, TypeOK
  <2>3. CASE d = c
    <3>1. FirstRound(d) => ids[d] = JobIds(d)
      BY <1>0, <2>1, <2>2, <2>3, AllPassed DEF IdsOf
    <3>2. cpc'[d] = "idle"
      BY <1>a, <2>1, <2>3
    <3> QED
      BY <2>1, <3>1, <3>2 DEF IdsOf, Counted, InRound, JobIds
  <2>4. CASE d # c
    <3>1. cpc'[d] = cpc[d]
      BY <1>a, <2>1, <2>4
    <3>2. JobsLeft(d)' = JobsLeft(d)
      BY <2>1, Numbers
    <3> QED
      BY <1>0, <2>1, <3>1, <3>2, IdsQuiet DEF Counted, InRound, RoundOver, HasNumber
  <2> QED
    BY <2>3, <2>4
<1>3. ASSUME NEW c \in Clients, Start(c) PROVE IdsOf(d)'
  <2>1. /\ UNCHANGED <<waitingClients, scheduledJobs, m_client, wpc, tag, seqn>>
        /\ assigned' = [assigned EXCEPT ![c] = 0] /\ cpc' = [cpc EXCEPT ![c] = "add"]
        /\ ids' = [ids EXCEPT ![c] = {}] /\ rounds' = [rounds EXCEPT ![c] = @ + 1]
    BY <1>3, <1>a DEF Start, ResetCounters
  <2>2. CASE d = c
    BY <1>a, <2>1, <2>2 DEF IdsOf, Counted, RoundOver
  <2>3. CASE d # c
    <3>1. cpc'[d] = cpc[d] /\ ids'[d] = ids[d] /\ assigned'[d] = assigned[d] /\ rounds'[d] = rounds[d]
      BY <1>a, <2>1, <2>3
    <3>2. JobsLeft(d)' = JobsLeft(d)
      BY <2>1, Numbers
    <3> QED
      BY <1>0, <2>1, <3>1, <3>2, IdsQuiet DEF Counted, InRound, RoundOver, HasNumber
  <2> QED
    BY <2>2, <2>3
<1>4. ASSUME NEW c \in Clients, Enqueue(c) PROVE IdsOf(d)'
  <2>1. /\ UNCHANGED <<m_client, wpc, tag, seqn, assigned, ids, rounds>>
        /\ cpc' = [cpc EXCEPT ![c] = "offer"] /\ cpc[c] = "add"
    BY <1>4 DEF Enqueue, TakeSlot
  <2>2. CASE d = c
    <3>1. \A w \in Workers : m_client[w] # d
      BY <1>0, <1>b, <2>1, <2>2, HeldInRound DEF Counted
    <3>2. Cardinality(Unum) = 0
      <4>1. Unum = {}
        BY <2>1, <3>1 DEF UnnumberedIn
      <4> QED BY <4>1, FS_EmptySet
    <3>3. assigned'[d] = 0 /\ cpc'[d] = "offer" /\ JobsLeft(d)' = Jobs[d]
      BY <1>0, <1>4, <1>a, <2>1, <2>2, EnqueueLeft DEF NumberInv
    <3>4. \A w \in Workers : ~HasNumber(w, d)'
      BY <2>1, <3>1 DEF HasNumber
    <3>5. FirstRound(d) => ids'[d] = {}
      BY <1>0, <2>1, <2>2 DEF IdsOf
    <3>6. FirstRound(d) => Handed(d)'
      BY <1>b, <3>2, <3>3, <3>4, <3>5 DEF Handed
    <3> QED
      BY <2>1, <3>3, <3>6 DEF IdsOf, RoundOver
  <2>3. CASE d # c
    <3>1. ~InRound(d) /\ cpc'[d] = cpc[d]
      BY <1>0, <1>a, <2>1, <2>3 DEF OneRound, InRound
    <3>2. ~Counted(d)' /\ cpc'[d] # "add"
      BY <3>1 DEF Counted, InRound
    <3> QED
      BY <1>0, <2>1, <3>1, <3>2 DEF IdsOf, RoundOver, JobIds
  <2> QED
    BY <2>2, <2>3
<1>5. ASSUME NEW c \in Clients, Offer(c) PROVE IdsOf(d)'
  <2>1. PICK w \in Workers : w = next
    BY <1>0, <1>5, StateFacts DEF Offer, TypeOK
  <2>2. /\ Schedule(w) /\ NextClientIndex # -1 /\ cpc[c] = "offer" /\ suspended[w]
        /\ UNCHANGED <<tag, seqn, assigned, cpc, ids, rounds>>
        /\ wpc' = [wpc EXCEPT ![w] = "woken"]
    BY <1>5, <2>1 DEF Offer
  <2>3. PICK i \in Slots, e \in Clients : HandsOut(w, i, e)
    BY <1>0, <2>2, HandedOut
  <2>4. /\ \A v \in Workers \ {w} : m_client'[v] = m_client[v] /\ wpc'[v] = wpc[v]
        /\ m_client'[w] = e /\ wpc'[w] = "woken" /\ wpc[w] = "asleep"
    BY <1>0, <1>a, <2>2, <2>3 DEF HandsOut, QueueInv, WorkerInv
  <2>5. \A v \in Workers : HasNumber(v, d)' <=> HasNumber(v, d)
    BY <2>2, <2>4 DEF HasNumber
  <2>6. (Counted(d)' <=> Counted(d)) /\ (RoundOver(d)' <=> RoundOver(d))
    BY <2>2 DEF Counted, InRound, RoundOver
  <2>7. CASE d = e
    <3>1. JobsLeft(d)' = JobsLeft(d) - 1 /\ waitingClients[i] = d
      BY <2>3, <2>7 DEF HandsOut
    <3>2. Counted(d) /\ cpc'[d] # "add"
      BY <1>0, <1>b, <2>2, <3>1, HeldInRound DEF Counted
    <3>3. ~RoundOver(d)'
      BY <2>6, <3>2 DEF RoundOver, Counted, InRound
    <3>4. ASSUME FirstRound(d) PROVE Handed(d)'
      <4>1. Handed(d) /\ tag[w] # d
        <5>1. d = c
          BY <1>0, <2>2, <3>2 DEF OneRound, Counted, InRound
        <5> QED
          BY <1>0, <2>2, <2>4, <3>2, <3>4, <5>1 DEF IdsOf, TagsOf
      <4>2. w \notin U /\ Unum = U \cup {w}
        BY <1>a, <2>2, <2>4, <2>7, <4>1 DEF UnnumberedIn
      <4>3. Cardinality(Unum) = Cardinality(U) + 1
        <5> HIDE DEF U, Unum
        <5> QED BY <1>c, <4>2, FS_AddElement
      <4>4. assigned[d] + Cardinality(U) + JobsLeft(d) = Jobs[d]
        BY <4>1 DEF Handed
      <4>5. assigned'[d] + Cardinality(Unum) + JobsLeft(d)' = Jobs[d]
        <5> HIDE DEF U, Unum
        <5> QED BY <1>b, <1>c, <2>2, <3>1, <4>3, <4>4
      <4> QED
        BY <2>2, <2>5, <4>1, <4>5 DEF Handed
    <3> QED
      BY <2>2, <3>2, <3>3, <3>4 DEF IdsOf
  <2>8. CASE d # e
    <3>1. JobsLeft(d)' = JobsLeft(d) /\ m_client[w] # d
      <4>1. m_client[w] = NULL
        BY <1>0, <2>4 DEF QueueInv, WorkerInv, HasClient
      <4> QED
        BY <1>b, <2>3, <2>8, <4>1 DEF HandsOut
    <3>2. \A v \in Workers : v \in Unum <=> v \in U
      BY <2>2, <2>4, <2>8, <3>1 DEF UnnumberedIn
    <3> QED
      BY <1>0, <2>2, <2>5, <2>6, <3>1, <3>2, IdsQuiet
  <2> QED
    BY <2>7, <2>8
<1>6. ASSUME NEW w \in Workers, Begin(w) \/ WakeUp(w) \/ Top(w) \/ Clear(w) \/ Count(w) \/ Sleep(w)
      PROVE  IdsOf(d)'
  <2>1. UNCHANGED <<waitingClients, scheduledJobs, assigned, ids, rounds>>
    BY <1>6 DEF Begin, WakeUp, Top, Clear, Count, Sleep
  <2>2. \A v \in Workers \ {w} : /\ m_client'[v] = m_client[v] /\ wpc'[v] = wpc[v]
                                 /\ tag'[v] = tag[v] /\ seqn'[v] = seqn[v]
    BY <1>6, <1>a DEF Begin, WakeUp, Top, Clear, Count, Sleep
  <2>3. ASSUME FirstRound(d)
        PROVE  (w \in Unum <=> w \in U) /\ (HasNumber(w, d)' <=> HasNumber(w, d))
    <3>1. CASE Top(w)
      <4>1. m_client[w] # NULL
        BY <1>0, <3>1 DEF Top, QueueInv, WorkerInv, HasClient
      <4> QED
        BY <1>a, <3>1, <4>1 DEF Top, UnnumberedIn, HasNumber
    <3>2. CASE WakeUp(w)
      <4>1. /\ wpc[w] = "woken" /\ wpc' = [wpc EXCEPT ![w] = "top"] /\ UNCHANGED <<m_client, tag>>
        BY <1>0, <3>2 DEF WakeUp, Wakes, QueueInv
      <4>2. m_client[w] = d => tag[w] # d
        BY <1>0, <2>3, <4>1 DEF TagsOf
      <4> QED
        BY <1>a, <4>1, <4>2 DEF UnnumberedIn, HasNumber
    <3>3. CASE Begin(w) \/ Clear(w) \/ Count(w) \/ Sleep(w)
      BY <1>a, <3>3 DEF Begin, Clear, Count, Sleep, UnnumberedIn, HasNumber
    <3> QED
      BY <1>6, <3>1, <3>2, <3>3
  <2>4. HasNumber(w, d) => seqn'[w] = seqn[w]
    BY <1>6, <1>a DEF Begin, WakeUp, Top, Clear, Count, Sleep, HasNumber
  <2>5. ASSUME FirstRound(d), NEW v \in Workers
        PROVE  /\ v \in Unum <=> v \in U
               /\ HasNumber(v, d)' <=> HasNumber(v, d)
               /\ HasNumber(v, d) => seqn'[v] = seqn[v]
    BY <2>2, <2>3, <2>4, <2>5 DEF UnnumberedIn, HasNumber
  <2>6. (Counted(d)' => Counted(d)) /\ (cpc'[d] = "add" => cpc[d] = "add") /\ (cpc'[d] = "idle" => cpc[d] = "idle")
    BY <1>6, <1>a DEF Begin, WakeUp, Top, Clear, Count, Sleep, ResumeServer, Asleep, Counted, InRound
  <2>7. JobsLeft(d)' = JobsLeft(d) /\ (RoundOver(d)' => RoundOver(d))
    BY <2>1, <2>6, Numbers DEF RoundOver
  <2> QED
    BY <1>0, <2>1, <2>5, <2>6, <2>7, IdsQuiet
<1>7. ASSUME NEW w \in Workers, Assign(w) PROVE IdsOf(d)'
  <2>1. PICK c \in Clients : c = m_client[w]
    BY <1>0, <1>7, StateFacts DEF Assign, HasClient
  <2>2. wpc' = [wpc EXCEPT ![w] = "task"]
    BY <1>0, <1>7, AssignRuns
  <2>3. /\ UNCHANGED <<waitingClients, scheduledJobs, m_client, tag, cpc, ids, rounds>>
        /\ wpc[w] = "assign" /\ tag[w] = c
    BY <1>0, <1>7, <2>1 DEF Assign, TagInv
  <2>4. /\ seqn' = [seqn EXCEPT ![w] = assigned[c]] /\ assigned' = [assigned EXCEPT ![c] = @ + 1]
    <3>1. ~(assigned[c] >= Jobs[c])
      BY <1>7, <1>a, <2>1, <2>2 DEF Assign
    <3> QED
      BY <1>7, <2>1, <3>1 DEF Assign, Number
  <2>5. JobsLeft(d)' = JobsLeft(d) /\ (Counted(d)' <=> Counted(d)) /\ (RoundOver(d)' <=> RoundOver(d))
    BY <2>3, Numbers DEF Counted, InRound, RoundOver
  <2>6. CASE d = c
    <3>1. Counted(d) /\ cpc'[d] # "add" /\ ~RoundOver(d)'
      BY <1>0, <1>b, <2>1, <2>3, <2>5, <2>6, HeldInRound DEF Counted, InRound, RoundOver
    <3>2. ASSUME FirstRound(d) PROVE Handed(d)'
      <4>1. Handed(d)
        BY <1>0, <3>1, <3>2 DEF IdsOf
      <4>2. w \in U /\ Unum = U \ {w}
        BY <1>a, <2>1, <2>2, <2>3, <2>6 DEF UnnumberedIn
      <4>3. Cardinality(Unum) = Cardinality(U) - 1
        <5> HIDE DEF U, Unum
        <5> QED BY <1>c, <4>2, FS_RemoveElement
      <4>4. assigned[d] + Cardinality(U) + JobsLeft(d) = Jobs[d]
        BY <4>1 DEF Handed
      <4>5. assigned'[d] = assigned[d] + 1
        BY <1>a, <2>4, <2>6
      <4>6. assigned'[d] + Cardinality(Unum) + JobsLeft(d)' = Jobs[d]
        <5> HIDE DEF U, Unum
        <5> QED BY <1>b, <1>c, <2>5, <4>3, <4>4, <4>5
      <4>7. /\ HasNumber(w, d)' /\ ~HasNumber(w, d) /\ seqn'[w] = assigned[d]
            /\ \A v \in Workers \ {w} : (HasNumber(v, d)' <=> HasNumber(v, d)) /\ seqn'[v] = seqn[v]
        BY <1>a, <2>1, <2>2, <2>3, <2>4, <2>6 DEF HasNumber
      <4>8. ASSUME NEW n \in Int
            PROVE  0 <= n /\ n < assigned'[d]
                       <=> n \in ids'[d] \/ \E v \in Workers : HasNumber(v, d)' /\ seqn'[v] = n
        <5>1. 0 <= n /\ n < assigned'[d] <=> (0 <= n /\ n < assigned[d]) \/ n = assigned[d]
          BY <1>b, <4>5
        <5>2. (\E v \in Workers : HasNumber(v, d)' /\ seqn'[v] = n)
                  <=> (\E v \in Workers : HasNumber(v, d) /\ seqn[v] = n) \/ n = assigned[d]
          BY <4>7
        <5> QED
          BY <2>3, <4>1, <5>1, <5>2 DEF Handed
      <4> QED
        BY <4>6, <4>8 DEF Handed
    <3> QED
      BY <2>3, <3>1, <3>2 DEF IdsOf
  <2>7. CASE d # c
    <3>1. /\ assigned'[d] = assigned[d]
          /\ \A v \in Workers : /\ v \in Unum <=> v \in U
                                /\ HasNumber(v, d)' <=> HasNumber(v, d)
                                /\ HasNumber(v, d) => seqn'[v] = seqn[v]
      BY <1>a, <2>1, <2>2, <2>3, <2>4, <2>7 DEF UnnumberedIn, HasNumber
    <3> QED
      BY <1>0, <2>3, <2>5, <3>1, IdsQuiet
  <2> QED
    BY <2>6, <2>7
<1>8. ASSUME NEW w \in Workers, Task(w) PROVE IdsOf(d)'
  <2>1. PICK c \in Clients : c = m_client[w]
    BY <1>0, <1>8, StateFacts DEF Task, HasClient
  <2>2. /\ UNCHANGED <<waitingClients, scheduledJobs, m_client, tag, seqn, assigned, cpc, rounds>>
        /\ wpc[w] = "task" /\ wpc' = [wpc EXCEPT ![w] = "clear"]
        /\ ids' = [ids EXCEPT ![c] = @ \cup {seqn[w]}]
    BY <1>8, <2>1 DEF Task
  <2>3. JobsLeft(d)' = JobsLeft(d) /\ (Counted(d)' <=> Counted(d)) /\ (RoundOver(d)' <=> RoundOver(d))
    BY <2>2, Numbers DEF Counted, InRound, RoundOver
  <2>4. \A v \in Workers : v \in Unum <=> v \in U
    BY <1>a, <2>2 DEF UnnumberedIn
  <2>5. CASE d = c
    <3>1. Counted(d) /\ cpc'[d] # "add" /\ ~RoundOver(d)'
      BY <1>0, <1>b, <2>1, <2>2, <2>3, <2>5, HeldInRound DEF Counted, InRound, RoundOver
    <3>2. ASSUME FirstRound(d) PROVE Handed(d)'
      <4>1. Handed(d) /\ Unum = U
        BY <1>0, <2>4, <3>1, <3>2, SetsOfWorkers DEF IdsOf
      <4>2. /\ HasNumber(w, d) /\ ~HasNumber(w, d)' /\ ids'[d] = ids[d] \cup {seqn[w]}
            /\ \A v \in Workers \ {w} : HasNumber(v, d)' <=> HasNumber(v, d)
        BY <1>a, <2>1, <2>2, <2>5 DEF HasNumber
      <4>3. ASSUME NEW n \in Int
            PROVE  n \in ids'[d] \/ (\E v \in Workers : HasNumber(v, d)' /\ seqn'[v] = n)
                       <=> n \in ids[d] \/ (\E v \in Workers : HasNumber(v, d) /\ seqn[v] = n)
        BY <2>2, <4>2
      <4> QED
        BY <2>2, <2>3, <4>1, <4>3 DEF Handed
    <3> QED
      BY <2>2, <3>1, <3>2 DEF IdsOf
  <2>6. CASE d # c
    <3>1. ids'[d] = ids[d] /\ \A v \in Workers : HasNumber(v, d)' <=> HasNumber(v, d)
      BY <1>a, <2>1, <2>2, <2>6 DEF HasNumber
    <3> QED
      BY <1>0, <2>2, <2>3, <2>4, <3>1, IdsQuiet
  <2> QED
    BY <2>5, <2>6
<1>9. ASSUME NEW w \in Workers, Continue(w) PROVE IdsOf(d)'
  <2>1. /\ Schedule(w) /\ NextClientIndex # -1 /\ UNCHANGED <<tag, ids, rounds>>
        /\ wpc[w] = "next" /\ wpc' = [wpc EXCEPT ![w] = "top"]
    BY <1>9 DEF Continue
  <2>2. PICK i \in Slots, e \in Clients : HandsOut(w, i, e)
    BY <1>0, <2>1, HandedOut
  <2>3. ~done[w]
    BY <1>0, <2>1, <2>2, NamesAssumption DEF HandsOut, DoneInv
  <2>4. PICK c \in Clients : c = client[w]
    BY <1>0, <2>1, StateFacts
  <2>5. c = e
    <3>1. Counted(c) /\ Counted(e)
      BY <1>0, <2>1, <2>2, <2>3, <2>4, HeldInRound, NamesAssumption DEF LastInv, HandsOut
    <3> QED
      BY <1>0, <3>1 DEF OneRound, Counted
  <2>6. /\ assigned' = [assigned EXCEPT ![c] = @ + 1] /\ cpc' = cpc
        /\ seqn' = [seqn EXCEPT ![w] = assigned[c]]
    BY <1>9, <2>3, <2>4 DEF Continue, Number
  <2>7. tag[w] = c /\ m_client'[w] = c
    BY <1>0, <1>a, <2>1, <2>2, <2>4, <2>5 DEF TagInv, HandsOut
  <2>8. \A v \in Workers \ {w} : m_client'[v] = m_client[v] /\ wpc'[v] = wpc[v]
    BY <1>a, <2>1, <2>2 DEF HandsOut
  <2>9. \A v \in Workers : v \in Unum <=> v \in U
    BY <1>a, <2>1, <2>7, <2>8 DEF UnnumberedIn
  <2>10. (Counted(d)' <=> Counted(d)) /\ (RoundOver(d)' <=> RoundOver(d))
    BY <2>1, <2>6 DEF Counted, InRound, RoundOver
  <2>11. CASE d = c
    <3>1. JobsLeft(d)' = JobsLeft(d) - 1 /\ waitingClients[i] = d
      BY <2>2, <2>5, <2>11 DEF HandsOut
    <3>2. Counted(d) /\ cpc'[d] # "add" /\ ~RoundOver(d)'
      BY <1>0, <1>b, <2>6, <2>10, <3>1, HeldInRound DEF Counted, InRound, RoundOver
    <3>3. ASSUME FirstRound(d) PROVE Handed(d)'
      <4>1. Handed(d) /\ Unum = U
        BY <1>0, <2>9, <3>2, <3>3, SetsOfWorkers DEF IdsOf
      <4>2. assigned'[d] = assigned[d] + 1
        BY <1>a, <2>6, <2>11
      <4>3. assigned[d] + Cardinality(U) + JobsLeft(d) = Jobs[d]
        BY <4>1 DEF Handed
      <4>4. assigned'[d] + Cardinality(Unum) + JobsLeft(d)' = Jobs[d]
        <5> HIDE DEF U, Unum
        <5> QED BY <1>b, <1>c, <3>1, <4>1, <4>2, <4>3
      <4>5. /\ HasNumber(w, d)' /\ ~HasNumber(w, d) /\ seqn'[w] = assigned[d]
            /\ \A v \in Workers \ {w} : (HasNumber(v, d)' <=> HasNumber(v, d)) /\ seqn'[v] = seqn[v]
        BY <1>a, <2>1, <2>6, <2>7, <2>8, <2>11 DEF HasNumber
      <4>6. ASSUME NEW n \in Int
            PROVE  0 <= n /\ n < assigned'[d]
                       <=> n \in ids'[d] \/ \E v \in Workers : HasNumber(v, d)' /\ seqn'[v] = n
        <5>1. 0 <= n /\ n < assigned'[d] <=> (0 <= n /\ n < assigned[d]) \/ n = assigned[d]
          BY <1>b, <4>2
        <5>2. (\E v \in Workers : HasNumber(v, d)' /\ seqn'[v] = n)
                  <=> (\E v \in Workers : HasNumber(v, d) /\ seqn[v] = n) \/ n = assigned[d]
          BY <4>5
        <5> QED
          BY <2>1, <4>1, <5>1, <5>2 DEF Handed
      <4> QED
        BY <4>4, <4>6 DEF Handed
    <3> QED
      BY <2>1, <3>2, <3>3 DEF IdsOf
  <2>12. CASE d # c
    <3>1. JobsLeft(d)' = JobsLeft(d) /\ assigned'[d] = assigned[d]
      BY <1>a, <2>2, <2>5, <2>6, <2>12 DEF HandsOut
    <3>2. \A v \in Workers : /\ HasNumber(v, d)' <=> HasNumber(v, d)
                             /\ HasNumber(v, d) => seqn'[v] = seqn[v]
      BY <1>a, <2>1, <2>6, <2>7, <2>8, <2>12 DEF HasNumber
    <3> QED
      BY <1>0, <2>1, <2>6, <2>9, <2>10, <3>1, <3>2, IdsQuiet
  <2> QED
    BY <2>11, <2>12
<1>10. CASE UNCHANGED vars
  <2>1. UNCHANGED <<waitingClients, scheduledJobs, m_client, wpc, tag, seqn, assigned, cpc, ids, rounds>>
    BY <1>10 DEF vars
  <2>2. JobsLeft(d)' = JobsLeft(d) /\ (Counted(d)' <=> Counted(d)) /\ (RoundOver(d)' <=> RoundOver(d))
    BY <2>1, Numbers DEF Counted, InRound, RoundOver
  <2> QED
    BY <1>0, <2>1, <2>2, IdsQuiet DEF HasNumber
<1> QED
  BY <1>1, <1>2, <1>3, <1>4, <1>5, <1>6, <1>7, <1>8, <1>9, <1>10 DEF Next, ClientStep, WorkerStep

LEMMA IdStep ==
    ASSUME Always, Alone, IdInv, [Next]_vars, ~overlap' PROVE IdInv'
BY NewcomerStep, TagsOfStep, IdsOfStep DEF IdInv

-----------------------------------------------------------------------------
(* 6. One job for each worker *)

\* A worker of a round with a job each has its task still to run ...
ToRun(c, w) ==
    \/ m_client[w] = c /\ wpc[w] \in {"woken", "top", "assign", "task"}
    \/ cpc[c] = "add"
    \/ cpc[c] = "offer" /\ next <= w

RanOnce(c) == \A w \in Workers : ran[c][w] = IF ToRun(c, w) THEN 0 ELSE 1

\* ... since addClient finds all of them asleep and wakes them in turn ...
Offered(c) ==
    cpc[c] = "offer" =>
        /\ \A w \in Workers : IF w < next THEN wpc[w] \in HasClient \cup {"count"} ELSE wpc[w] = "asleep"
        /\ JobsLeft(c) = NumWorkers - next

\* ... which leaves nothing in the queue.
Emptied(c) == Counted(c) /\ cpc[c] # "offer" => \A j \in Slots : waitingClients[j] = NULL

ChunkInv ==
    \A c \in Clients : Jobs[c] = NumWorkers =>
        /\ Offered(c) /\ Emptied(c)
        /\ rounds[c] > 0 => RanOnce(c)

\* With one round, the queue and the workers hold no client but its own.
LEMMA OnlyClient ==
    ASSUME JobInv, QueueInv, OneRound, NEW d \in Clients, InRound(d)
    PROVE  /\ \A j \in Slots : waitingClients[j] # NULL => waitingClients[j] = d
           /\ \A w \in Workers : m_client[w] # NULL => m_client[w] = d
           /\ \A w \in Workers : wpc[w] = "count" => client[w] = d
BY HeldInRound DEF OneRound, Counted

\* addClient with one round finds every worker asleep.
LEMMA AllAsleep ==
    ASSUME JobInv, QueueInv, OneRound, NEW d \in Clients, Enqueue(d), NEW w \in Workers
    PROVE  wpc[w] = "asleep"
<1>1. cpc[d] = "add" /\ server = NULL /\ wpc[w] \in WorkerStates
  BY DEF Enqueue, TakeSlot, QueueInv, TypeOK
<1>2. wpc[w] \notin HasClient \cup {"count"}
  <2>1. InRound(d) /\ ~Counted(d)
    BY <1>1 DEF InRound, Counted
  <2>2. wpc[w] \in HasClient => m_client[w] = d /\ m_client[w] # NULL
    BY <2>1, OnlyClient DEF QueueInv, WorkerInv
  <2>3. wpc[w] = "count" => client[w] = d
    BY <2>1, OnlyClient
  <2> QED
    BY <2>1, <2>2, <2>3, HeldInRound
<1>3. wpc[w] # "next" /\ wpc[w] # "none" /\ wpc[w] # "failed"
  BY <1>1, StateFacts DEF QueueInv, HolderInv, StartInv, WorkerInv
<1>4. wpc[w] # "start"
  BY <1>1, StateFacts, NamesAssumption DEF QueueInv, HolderInv, StartInv
<1> QED
  BY <1>1, <1>2, <1>3, <1>4 DEF WorkerStates, HasClient

\* addClient goes on from one sleeping worker to the next, with a job for each.
LEMMA OfferedStep ==
    ASSUME Always, Alone, ChunkInv, [Next]_vars, ~overlap',
           NEW d \in Clients, Jobs[d] = NumWorkers
    PROVE  Offered(d)'
<1> USE DEF queueVars, countVars, localVars, historyVars, WorkerTo, ClientTo
<1>0. /\ QueueInv /\ JobInv /\ NumberInv /\ OneRound /\ TypeOK /\ Offered(d)
      /\ NumWorkers \in Nat /\ next \in 0 .. NumWorkers
  BY WorkersAssumption DEF Always, Alone, QueueInv, TypeOK, ChunkInv
<1>a. /\ wpc \in [Workers -> WorkerStates] /\ cpc \in [Clients -> ClientStates]
  BY <1>0 DEF TypeOK
<1>1. SUFFICES ASSUME cpc'[d] = "offer"
               PROVE  /\ \A w \in Workers : IF w < next' THEN wpc'[w] \in HasClient \cup {"count"}
                                            ELSE wpc'[w] = "asleep"
                      /\ JobsLeft(d)' = NumWorkers - next'
  BY DEF Offered
<1>2. CASE Enqueue(d)
  <2>1. next' = 0 /\ wpc' = wpc
    BY <1>2 DEF Enqueue, TakeSlot
  <2>2. \A w \in Workers : wpc'[w] = "asleep" /\ ~(w < 0)
    BY <1>0, <1>2, <2>1, AllAsleep DEF Workers
  <2>3. JobsLeft(d)' = NumWorkers
    BY <1>0, <1>2, EnqueueLeft
  <2> QED
    BY <1>0, <2>1, <2>2, <2>3
<1>3. CASE cpc[d] = "offer"
  <2>1. /\ \A w \in Workers : IF w < next THEN wpc[w] \in HasClient \cup {"count"} ELSE wpc[w] = "asleep"
        /\ JobsLeft(d) = NumWorkers - next
        /\ server = d /\ InRound(d)
    BY <1>0, <1>3 DEF Offered, QueueInv, HolderInv, InRound
  <2>2. server # NULL /\ \A w \in Workers : server # w
    BY <1>0, <2>1, StateFacts, NamesAssumption
  <2>3. CASE Offer(d)
    <3>1. PICK v \in Workers : v = next
      BY <1>0, <2>3, StateFacts DEF Offer
    <3>2. /\ next' = v + 1 /\ Schedule(v) /\ NextClientIndex # -1 /\ wpc' = [wpc EXCEPT ![v] = "woken"]
      BY <2>3, <3>1 DEF Offer
    <3>3. PICK j \in Slots, e \in Clients : HandsOut(v, j, e)
      BY <1>0, <3>2, HandedOut
    <3>4. e = d
      BY <1>0, <2>1, <3>3, OnlyClient, NamesAssumption DEF HandsOut
    <3>5. JobsLeft(d)' = NumWorkers - next'
      BY <1>0, <2>1, <3>1, <3>2, <3>3, <3>4 DEF HandsOut
    <3>6. \A w \in Workers : w < v + 1 <=> w < v \/ w = v
      BY DEF Workers
    <3>7. ASSUME NEW w \in Workers
          PROVE  IF w < next' THEN wpc'[w] \in HasClient \cup {"count"} ELSE wpc'[w] = "asleep"
      BY <1>a, <2>1, <3>1, <3>2, <3>6 DEF HasClient
    <3> QED
      BY <3>5, <3>7
  <2>4. ASSUME NEW w \in Workers, WakeUp(w) \/ Top(w) \/ Task(w) \/ Clear(w)
        PROVE  /\ next' = next /\ waitingClients' = waitingClients /\ scheduledJobs' = scheduledJobs
               /\ \A v \in Workers \ {w} : wpc'[v] = wpc[v]
               /\ wpc[w] \in HasClient /\ wpc'[w] \in HasClient \cup {"count"}
    <3>1. ~Wakes(w) \/ wpc[w] = "woken"
      BY <1>0 DEF Wakes, QueueInv
    <3>2. wpc[w] \in HasClient
      BY <2>4, <3>1 DEF WakeUp, Top, Task, Clear, HasClient
    <3>3. m_client[w] # NULL
      BY <1>0, <3>2 DEF QueueInv, WorkerInv
    <3> QED
      BY <1>a, <2>4, <3>2, <3>3 DEF WakeUp, Top, Task, Clear, HasClient
  <2>5. ASSUME NEW w \in Workers, WakeUp(w) \/ Top(w) \/ Task(w) \/ Clear(w)
        PROVE  /\ \A v \in Workers : IF v < next' THEN wpc'[v] \in HasClient \cup {"count"}
                                     ELSE wpc'[v] = "asleep"
               /\ JobsLeft(d)' = NumWorkers - next'
    <3>1. JobsLeft(d)' = JobsLeft(d)
      BY <2>4, <2>5, Numbers
    <3>2. w < next
      BY <2>1, <2>4, <2>5 DEF HasClient
    <3> QED
      BY <2>1, <2>4, <2>5, <3>1, <3>2
  <2>6. ASSUME NEW c \in Clients, Start(c) \/ ClientStep(c), ~Offer(d)
        PROVE  UNCHANGED <<next, wpc, waitingClients, scheduledJobs>>
    <3>1. c # d => ~Enqueue(c) /\ ~Offer(c) /\ ~PassOver(c)
      BY <1>0, <2>1, <2>2 DEF Enqueue, TakeSlot, Offer, PassOver, QueueInv, HolderInv
    <3>2. ~Enqueue(d) /\ ~PassOver(d)
      <4>1. next < NumWorkers => suspended[next]
        BY <1>0, <2>1, StateFacts DEF QueueInv, WorkerInv
      <4> QED
        BY <1>3, <4>1 DEF Enqueue, TakeSlot, PassOver
    <3>3. ~CreateServer(c)
      BY <2>1, <2>2 DEF CreateServer
    <3> QED
      BY <2>6, <3>1, <3>2, <3>3 DEF Start, ClientStep, ServerReady, FindServer, Added, Check,
         WaitLock, WaitLoop
  <2>7. ASSUME NEW w \in Workers, Begin(w) \/ Assign(w) \/ Count(w) \/ Continue(w) \/ Sleep(w)
        PROVE  FALSE
    BY <1>0, <2>1, <2>2, <2>7 DEF Begin, Assign, Count, Continue, Sleep, HasClient, QueueInv, HolderInv
  <2>8. ASSUME UNCHANGED <<next, wpc, waitingClients, scheduledJobs>>
        PROVE  /\ \A v \in Workers : IF v < next' THEN wpc'[v] \in HasClient \cup {"count"}
                                     ELSE wpc'[v] = "asleep"
               /\ JobsLeft(d)' = NumWorkers - next'
    <3>1. JobsLeft(d)' = JobsLeft(d)
      BY <2>8, Numbers
    <3> QED
      BY <2>1, <2>8, <3>1
  <2>9. UNCHANGED vars => UNCHANGED <<next, wpc, waitingClients, scheduledJobs>>
    BY DEF vars
  <2> QED
    BY <2>3, <2>5, <2>6, <2>7, <2>8, <2>9 DEF Next, WorkerStep
<1>4. cpc[d] = "offer" \/ Enqueue(d)
  <2>1. ASSUME NEW c \in Clients, Start(c) \/ ClientStep(c) PROVE cpc[d] = "offer" \/ Enqueue(d)
    BY <1>1, <1>a, <2>1 DEF Start, ClientStep, CreateServer, ServerReady, FindServer, Enqueue, TakeSlot, Offer,
       PassOver, Added, Check, WaitLock, WaitLoop
  <2>2. ASSUME NEW w \in Workers, WorkerStep(w) PROVE cpc[d] = "offer"
    BY <1>1, <1>a, <2>2 DEF WorkerStep, Begin, WakeUp, Top, Assign, Task, Clear, Count, Continue, Sleep,
       ResumeServer, Asleep
  <2>3. UNCHANGED vars => cpc[d] = "offer"
    BY <1>1 DEF vars
  <2> QED
    BY <2>1, <2>2, <2>3 DEF Next
<1> QED
  BY <1>2, <1>3, <1>4

\* After addClient the queue stays empty until the next round.
LEMMA EmptiedStep ==
    ASSUME Always, Alone, ChunkInv, [Next]_vars, ~overlap', TypeOK',
           NEW d \in Clients, Jobs[d] = NumWorkers
    PROVE  Emptied(d)'
<1> USE DEF queueVars, countVars, localVars, historyVars, WorkerTo, ClientTo
<1>0. /\ QueueInv /\ JobInv /\ OneRound /\ TypeOK /\ Offered(d) /\ Emptied(d)
      /\ NumWorkers \in Nat /\ next \in 0 .. NumWorkers
  BY WorkersAssumption DEF Always, Alone, QueueInv, TypeOK, ChunkInv
<1>a. /\ wpc \in [Workers -> WorkerStates] /\ cpc \in [Clients -> ClientStates]
      /\ waitingClients \in [Slots -> Clients \cup {NULL}]
  BY <1>0 DEF TypeOK
<1>1. SUFFICES ASSUME Counted(d)', cpc'[d] # "offer" PROVE \A j \in Slots : waitingClients'[j] = NULL
  BY DEF Emptied
<1>2. CASE Added(d)
  <2>1. cpc[d] = "offer" /\ InRound(d) /\ waitingClients' = waitingClients
    BY <1>2 DEF Added, InRound
  <2>2. JobsLeft(d) = NumWorkers - next
    BY <1>0, <2>1 DEF Offered
  <2>3. CASE next < NumWorkers
    <3>1. NextClientIndex = -1
      BY <1>2, <2>3 DEF Added, NoMoreOffers
    <3> QED
      BY <1>0, <2>1, <3>1, StateFacts
  <2>4. CASE ~(next < NumWorkers)
    <3>1. JobsLeft(d) = 0
      BY <1>0, <2>2, <2>4
    <3>2. \A j \in Slots : waitingClients[j] # d
      BY <1>0, <3>1, LeftIsNatural DEF JobInv
    <3> QED
      BY <1>0, <2>1, <3>2, OnlyClient
  <2> QED
    BY <2>3, <2>4
<1>3. CASE Counted(d) /\ cpc[d] # "offer"
  <2>1. (\A j \in Slots : waitingClients[j] = NULL) /\ InRound(d) /\ ~Enqueue(d)
    BY <1>0, <1>3 DEF Emptied, Counted, Enqueue, TakeSlot
  <2>2. NextClientIndex = -1
    BY <1>0, <2>1, StateFacts
  <2>3. \A c \in Clients : ~Enqueue(c)
    BY <1>0, <2>1 DEF OneRound, InRound, Enqueue, TakeSlot
  <2>4. waitingClients' = waitingClients
    <3>1. ASSUME NEW c \in Clients, Start(c) \/ ClientStep(c) PROVE waitingClients' = waitingClients
      BY <2>2, <2>3, <3>1 DEF Start, ClientStep, CreateServer, ServerReady, FindServer, Offer,
         PassOver, Added, Check, WaitLock, WaitLoop
    <3>2. ASSUME NEW w \in Workers, WorkerStep(w) PROVE waitingClients' = waitingClients
      BY <2>2, <3>2 DEF WorkerStep, Begin, WakeUp, Top, Assign, Task, Clear, Count, Continue, Sleep
    <3>3. UNCHANGED vars => waitingClients' = waitingClients
      BY DEF vars
    <3> QED
      BY <3>1, <3>2, <3>3 DEF Next
  <2> QED
    BY <2>1, <2>4
<1>4. Added(d) \/ (Counted(d) /\ cpc[d] # "offer")
  <2>1. ASSUME NEW c \in Clients, Start(c) \/ ClientStep(c) PROVE Added(d) \/ (Counted(d) /\ cpc[d] # "offer")
    BY <1>1, <1>a, <2>1 DEF Start, ClientStep, CreateServer, ServerReady, FindServer, Enqueue, TakeSlot, Offer,
       PassOver, Added, Check, WaitLock, WaitLoop, Counted, InRound
  <2>2. ASSUME NEW w \in Workers, WorkerStep(w) PROVE Counted(d) /\ cpc[d] # "offer"
    BY <1>1, <1>a, <2>2 DEF WorkerStep, Begin, WakeUp, Top, Assign, Task, Clear, Count, Continue, Sleep,
       ResumeServer, Asleep, Counted, InRound
  <2>3. UNCHANGED vars => Counted(d) /\ cpc[d] # "offer"
    BY <1>1 DEF vars, Counted, InRound
  <2> QED
    BY <2>1, <2>2, <2>3 DEF Next
<1> QED
  BY <1>2, <1>3, <1>4

\* A step that runs no task of a round, and takes none from its workers.
LEMMA RanQuiet ==
    ASSUME NEW c \in Clients, rounds[c] > 0 => RanOnce(c), ran'[c] = ran[c], rounds'[c] = rounds[c],
           \A w \in Workers : ToRun(c, w)' <=> ToRun(c, w)
    PROVE  rounds'[c] > 0 => RanOnce(c)'
BY DEF RanOnce

\* Every worker runs the task that it was woken for, and no other.
LEMMA RanStep ==
    ASSUME Always, Alone, ChunkInv, [Next]_vars, ~overlap', TypeOK',
           NEW d \in Clients, Jobs[d] = NumWorkers
    PROVE  rounds'[d] > 0 => RanOnce(d)'
<1> USE DEF queueVars, countVars, localVars, historyVars, WorkerTo, ClientTo
<1>0. /\ QueueInv /\ JobInv /\ OneRound /\ NumberInv /\ TypeOK /\ Offered(d) /\ Emptied(d)
      /\ rounds[d] > 0 => RanOnce(d)
      /\ NumWorkers \in Nat /\ next \in 0 .. NumWorkers /\ d # NULL
  BY WorkersAssumption, NamesAssumption DEF Always, Alone, QueueInv, TypeOK, ChunkInv
<1>a. /\ wpc \in [Workers -> WorkerStates] /\ cpc \in [Clients -> ClientStates]
      /\ m_client \in [Workers -> Clients \cup {NULL}]
      /\ ran \in [Clients -> [Workers -> Nat]] /\ rounds \in [Clients -> 0 .. MaxRounds]
  BY <1>0 DEF TypeOK
<1>1. ASSUME NEW c \in Clients,
             CreateServer(c) \/ ServerReady(c) \/ FindServer(c) \/ Check(c) \/ WaitLock(c) \/ WaitLoop(c)
      PROVE  rounds'[d] > 0 => RanOnce(d)'
  <2>1. UNCHANGED <<ran, rounds, m_client, next>>
    BY <1>1 DEF CreateServer, ServerReady, FindServer, Check, WaitLock, WaitLoop
  <2>2. (cpc'[d] = "add" <=> cpc[d] = "add") /\ (cpc'[d] = "offer" <=> cpc[d] = "offer")
    BY <1>1, <1>a DEF CreateServer, ServerReady, FindServer, Check, WaitLock, WaitLoop
  <2>3. ASSUME NEW w \in Workers
        PROVE  wpc'[w] \in {"woken", "top", "assign", "task"} <=> wpc[w] \in {"woken", "top", "assign", "task"}
    BY <1>0, <1>1 DEF CreateServer, ServerReady, FindServer, Check, WaitLock, WaitLoop, QueueInv, StartInv
  <2> QED
    BY <1>0, <2>1, <2>2, <2>3, RanQuiet DEF ToRun
<1>2. ASSUME NEW c \in Clients, Start(c) PROVE rounds'[d] > 0 => RanOnce(d)'
  <2>1. /\ UNCHANGED <<wpc, m_client, next>> /\ cpc' = [cpc EXCEPT ![c] = "add"]
        /\ ran' = [ran EXCEPT ![c] = [w \in Workers |-> 0]]
        /\ rounds' = [rounds EXCEPT ![c] = @ + 1]
    BY <1>2 DEF Start
  <2>2. CASE d = c
    BY <1>a, <2>1, <2>2 DEF RanOnce, ToRun
  <2>3. CASE d # c
    <3>1. cpc'[d] = cpc[d] /\ ran'[d] = ran[d] /\ rounds'[d] = rounds[d]
      BY <1>a, <2>1, <2>3
    <3> QED
      BY <1>0, <2>1, <3>1, RanQuiet DEF ToRun
  <2> QED
    BY <2>2, <2>3
<1>3. ASSUME NEW c \in Clients, Enqueue(c) \/ PassOver(c) \/ Added(c) PROVE rounds'[d] > 0 => RanOnce(d)'
  <2>1. UNCHANGED <<ran, rounds, m_client, wpc>> /\ InRound(c)
    BY <1>3 DEF Enqueue, TakeSlot, PassOver, Added, InRound
  <2>2. CASE d # c
    <3>1. cpc'[d] = cpc[d] /\ ~InRound(d)
      BY <1>0, <1>3, <1>a, <2>1, <2>2 DEF Enqueue, TakeSlot, PassOver, Added, OneRound
    <3>2. \A w \in Workers : ToRun(d, w)' <=> ToRun(d, w)
      BY <2>1, <3>1 DEF ToRun, InRound
    <3> QED
      BY <1>0, <2>1, <3>2, RanQuiet
  <2>3. CASE d = c
    <3>1. ASSUME Enqueue(c), NEW w \in Workers PROVE ToRun(d, w)' <=> ToRun(d, w)
      <4>1. cpc[d] = "add" /\ cpc'[d] = "offer" /\ next' = 0 /\ 0 <= w
        BY <1>a, <2>3, <3>1 DEF Enqueue, TakeSlot, Workers
      <4> QED
        BY <4>1 DEF ToRun
    <3>2. ~PassOver(c)
      <4>1. ASSUME PassOver(c) PROVE FALSE
        <5>1. cpc[d] = "offer" /\ next < NumWorkers /\ ~suspended[next]
          BY <2>3, <4>1 DEF PassOver
        <5>2. PICK v \in Workers : v = next
          BY <1>0, <5>1, StateFacts
        <5>3. wpc[v] = "asleep"
          BY <1>0, <5>1, <5>2 DEF Offered
        <5> QED
          BY <1>0, <5>1, <5>2, <5>3 DEF QueueInv, WorkerInv
      <4> QED BY <4>1
    <3>3. ASSUME Added(c), NEW w \in Workers PROVE ToRun(d, w)' <=> ToRun(d, w)
      <4>1. cpc[d] = "offer" /\ cpc'[d] = "check"
        BY <1>a, <2>3, <3>3 DEF Added
      <4>2. ~(next <= w)
        <5>1. JobsLeft(d) = NumWorkers - next
          BY <1>0, <4>1 DEF Offered
        <5>2. ASSUME next < NumWorkers PROVE FALSE
          <6>1. JobsLeft(d) # 0
            BY <1>0, <5>1, <5>2
          <6>2. NextClientIndex = -1
            BY <3>3, <5>2 DEF Added, NoMoreOffers
          <6>3. \A j \in Slots : waitingClients[j] # d
            BY <1>0, <6>2, StateFacts
          <6>4. JobsLeft(d) = 0
            BY <6>3, LeftOfAbsent, Numbers
          <6> QED
            BY <6>1, <6>4
        <5> QED
          BY <1>0, <5>2 DEF Workers
      <4> QED
        BY <2>1, <4>1, <4>2 DEF ToRun
    <3> QED
      BY <1>0, <1>3, <2>1, <3>1, <3>2, <3>3, RanQuiet
  <2> QED
    BY <2>2, <2>3
<1>4. ASSUME NEW c \in Clients, Offer(c) PROVE rounds'[d] > 0 => RanOnce(d)'
  <2>1. PICK v \in Workers : v = next
    BY <1>0, <1>4, StateFacts DEF Offer
  <2>2. /\ next' = v + 1 /\ Schedule(v) /\ NextClientIndex # -1 /\ wpc' = [wpc EXCEPT ![v] = "woken"]
        /\ UNCHANGED <<ran, rounds, cpc>> /\ cpc[c] = "offer" /\ suspended[v] /\ InRound(c)
    BY <1>4, <2>1 DEF Offer, InRound
  <2>3. PICK j \in Slots, e \in Clients : HandsOut(v, j, e)
    BY <1>0, <2>2, HandedOut
  <2>4. e = c
    BY <1>0, <2>2, <2>3, OnlyClient, NamesAssumption DEF HandsOut
  <2>5. m_client' = [m_client EXCEPT ![v] = c]
    BY <2>3, <2>4 DEF HandsOut
  <2>6. wpc[v] = "asleep"
    BY <1>0, <2>2 DEF QueueInv, WorkerInv
  <2>7. ASSUME NEW w \in Workers PROVE ToRun(d, w)' <=> ToRun(d, w)
    <3>1. CASE w = v
      <4>1. m_client'[w] = c /\ wpc'[w] = "woken" /\ ~(next' <= w) /\ next <= w
        BY <1>a, <2>1, <2>2, <2>5, <3>1 DEF Workers
      <4>2. d # c => cpc[d] \notin {"add", "offer"}
        BY <1>0, <2>2 DEF OneRound, InRound
      <4> QED
        BY <2>2, <2>6, <3>1, <4>1, <4>2 DEF ToRun
    <3>2. CASE w # v
      <4>1. m_client'[w] = m_client[w] /\ wpc'[w] = wpc[w] /\ (next' <= w <=> next <= w)
        BY <1>a, <2>1, <2>2, <2>5, <3>2 DEF Workers
      <4> QED
        BY <2>2, <4>1 DEF ToRun
    <3> QED
      BY <3>1, <3>2
  <2> QED
    BY <1>0, <2>2, <2>7, RanQuiet
<1>5. ASSUME NEW w \in Workers,
             Begin(w) \/ WakeUp(w) \/ Top(w) \/ Assign(w) \/ Clear(w) \/ Count(w) \/ Continue(w) \/ Sleep(w)
      PROVE  rounds'[d] > 0 => RanOnce(d)'
  <2>1. UNCHANGED <<ran, rounds, next>>
    BY <1>5 DEF Begin, WakeUp, Top, Assign, Clear, Count, Continue, Sleep
  <2>2. (cpc'[d] = "add" <=> cpc[d] = "add") /\ (cpc'[d] = "offer" <=> cpc[d] = "offer")
    BY <1>5, <1>a DEF Begin, WakeUp, Top, Assign, Clear, Count, Continue, Sleep, ResumeServer, Asleep
  <2>3. ASSUME NEW v \in Workers, v # w PROVE wpc'[v] = wpc[v] /\ m_client'[v] = m_client[v]
    BY <1>5, <1>a, <2>3 DEF Begin, WakeUp, Top, Assign, Clear, Count, Continue, Sleep, Schedule
  <2>4. m_client'[w] = d /\ wpc'[w] \in {"woken", "top", "assign", "task"}
            <=> m_client[w] = d /\ wpc[w] \in {"woken", "top", "assign", "task"}
    <3>1. CASE Assign(w)
      <4>1. wpc'[w] = "task" /\ m_client' = m_client /\ wpc[w] = "assign"
        BY <1>0, <1>a, <3>1, AssignRuns DEF Assign
      <4> QED BY <4>1
    <3>2. CASE Begin(w) \/ Clear(w) \/ Count(w) \/ Sleep(w)
      BY <1>a, <1>0, <3>2 DEF Begin, Clear, Count, Sleep
    <3>3. CASE WakeUp(w) \/ Top(w)
      <4>1. wpc[w] \in {"woken", "top"} /\ m_client' = m_client
        BY <1>0, <3>3 DEF WakeUp, Wakes, Top, QueueInv
      <4>2. m_client[w] # NULL
        BY <1>0, <4>1 DEF QueueInv, WorkerInv, HasClient
      <4> QED
        BY <1>a, <3>3, <4>1, <4>2 DEF WakeUp, Top
    <3>4. CASE Continue(w)
      <4>1. wpc[w] = "next" /\ NextClientIndex # -1 /\ Schedule(w) /\ server = w
        BY <1>0, <3>4 DEF Continue, QueueInv, HolderInv
      <4>2. PICK j \in Slots, e \in Clients : HandsOut(w, j, e)
        BY <1>0, <4>1, HandedOut
      <4>3. e # d
        <5>1. ASSUME e = d PROVE FALSE
          <6>1. waitingClients[j] = d /\ Counted(d)
            BY <1>0, <4>2, <5>1, HeldInRound DEF HandsOut
          <6>2. cpc[d] # "offer"
            BY <1>0, <4>1, StateFacts DEF QueueInv, HolderInv
          <6> QED
            BY <1>0, <6>1, <6>2 DEF Emptied
        <5> QED BY <5>1
      <4>4. m_client'[w] # d
        BY <1>a, <4>2, <4>3 DEF HandsOut
      <4> QED
        BY <4>1, <4>4
    <3> QED
      BY <1>5, <3>1, <3>2, <3>3, <3>4
  <2>5. ASSUME NEW v \in Workers PROVE ToRun(d, v)' <=> ToRun(d, v)
    BY <2>1, <2>2, <2>3, <2>4 DEF ToRun
  <2> QED
    BY <1>0, <2>1, <2>5, RanQuiet
<1>6. ASSUME NEW w \in Workers, Task(w) PROVE rounds'[d] > 0 => RanOnce(d)'
  <2>1. PICK c \in Clients : c = m_client[w]
    BY <1>0, <1>6, StateFacts DEF Task, HasClient
  <2>2. /\ UNCHANGED <<m_client, cpc, rounds, next>> /\ wpc[w] = "task"
        /\ wpc' = [wpc EXCEPT ![w] = "clear"]
        /\ ran' = [ran EXCEPT ![c][w] = @ + 1]
    BY <1>6, <2>1 DEF Task
  <2>3. \A v \in Workers \ {w} : ToRun(d, v)' <=> ToRun(d, v)
    BY <1>a, <2>2 DEF ToRun
  <2>4. CASE d # c
    <3>1. ToRun(d, w)' <=> ToRun(d, w)
      BY <1>a, <2>1, <2>2, <2>4 DEF ToRun
    <3>2. ran'[d] = ran[d] /\ rounds'[d] = rounds[d]
      BY <1>a, <2>2, <2>4
    <3>3. \A v \in Workers : ToRun(d, v)' <=> ToRun(d, v)
      BY <2>3, <3>1
    <3> QED
      BY <1>0, <3>2, <3>3, RanQuiet
  <2>5. CASE d = c
    <3>1. Counted(d)
      BY <1>0, <2>1, <2>5, HeldInRound
    <3>2. ToRun(d, w) /\ ~ToRun(d, w)'
      <4>1. cpc[d] = "offer" => w < next
        BY <1>0, <2>2 DEF Offered
      <4> QED
        BY <1>0, <1>a, <2>1, <2>2, <2>5, <3>1, <4>1 DEF ToRun, Counted, Workers
    <3>3. ran'[d] = [ran[d] EXCEPT ![w] = @ + 1] /\ ran[d] \in [Workers -> Nat]
      BY <1>a, <2>2, <2>5
    <3>4. ASSUME rounds'[d] > 0, NEW v \in Workers PROVE ran'[d][v] = IF ToRun(d, v)' THEN 0 ELSE 1
      <4>1. ran[d][v] = IF ToRun(d, v) THEN 0 ELSE 1
        BY <1>0, <2>2, <3>4 DEF RanOnce
      <4>2. CASE v = w
        BY <3>2, <3>3, <4>1, <4>2
      <4>3. CASE v # w
        BY <2>3, <3>3, <4>1, <4>3
      <4> QED
        BY <4>2, <4>3
    <3> QED
      BY <3>4 DEF RanOnce
  <2> QED
    BY <2>4, <2>5
<1>7. CASE UNCHANGED vars
  BY <1>0, <1>7, RanQuiet DEF vars, ToRun
<1> QED
  BY <1>1, <1>2, <1>3, <1>4, <1>5, <1>6, <1>7 DEF Next, ClientStep, WorkerStep

\* Together, for every client with as many jobs as there are workers.
LEMMA ChunkStep ==
    ASSUME Always, Alone, ChunkInv, [Next]_vars, ~overlap', TypeOK' PROVE ChunkInv'
<1>1. ASSUME NEW d \in Clients, Jobs[d] = NumWorkers
      PROVE  Offered(d)' /\ Emptied(d)' /\ (rounds'[d] > 0 => RanOnce(d)')
  BY <1>1, OfferedStep, EmptiedStep, RanStep
<1> QED
  BY <1>1 DEF ChunkInv

-----------------------------------------------------------------------------
\* As long as no two rounds overlap, the rounds come out even.
RoundInv ==
    /\ FreshInv /\ TagInv /\ LastInv
    /\ ~overlap => Alone /\ IdInv /\ ChunkInv

\* The invariant holds in the beginning, and every step keeps it.
LEMMA InitRound == ASSUME ~WakeEarly, Init PROVE RoundInv
<1>1. /\ \A c \in Clients : cpc[c] = "create" /\ rounds[c] = 0
      /\ \A w \in Workers : wpc[w] = "none"
  BY DEF Init
<1>2. FreshInv /\ TagInv /\ LastInv
  BY <1>1 DEF FreshInv, TagInv, LastInv
<1>3. OneRound /\ DoneInv /\ NumberInv /\ TaskInv
  BY <1>1 DEF OneRound, DoneInv, NumberInv, TaskInv, Counted, InRound, RoundOver
<1>4. ChunkInv
  BY <1>1 DEF ChunkInv, Offered, Emptied, Counted, InRound
<1>5. IdInv
  <2>1. \A c \in Clients, w \in Workers : tag[w] # c
    BY NamesAssumption DEF Init
  <2>2. \A c \in Clients : ~InRound(c) /\ ~FirstRound(c)
    BY <1>1 DEF InRound, FirstRound
  <2> QED
    BY <2>1, <2>2 DEF IdInv, Newcomer, TagsOf, IdsOf
<1> QED
  BY <1>2, <1>3, <1>4, <1>5 DEF RoundInv, Alone

LEMMA RoundInductive ==
    ASSUME RoundInv, JobInv, QueueInv, [Next]_vars PROVE RoundInv'
<1>1. Always
  BY DEF RoundInv, Always
<1>2. FreshInv' /\ TagInv' /\ LastInv'
  BY <1>1, FreshStep, TagStep, LastStep DEF Always
<1>3. TypeOK'
  BY QueueInductive DEF QueueInv
<1>4. ASSUME ~overlap' PROVE Alone' /\ IdInv' /\ ChunkInv'
  <2>1. Alone /\ IdInv /\ ChunkInv
    BY <1>4, RoundStep DEF RoundInv
  <2>2. OneRound'
    BY <1>4, <2>1, OneRoundStep DEF Alone
  <2>3. DoneInv'
    BY <1>1, <2>1, DoneStep
  <2>4. NumberInv' /\ TaskInv'
    BY <1>1, <1>3, <1>4, <2>1, NumberStep, TaskStep
  <2>5. ChunkInv'
    BY <1>1, <1>3, <1>4, <2>1, ChunkStep
  <2>6. IdInv'
    BY <1>1, <1>4, <2>1, IdStep
  <2> QED
    BY <2>2, <2>3, <2>4, <2>5, <2>6 DEF Alone
<1> QED
  BY <1>2, <1>4 DEF RoundInv

LEMMA RoundInvariant == ~WakeEarly /\ Spec => [](RoundInv /\ JobInv /\ QueueInv)
<1>1. ~WakeEarly /\ Init => RoundInv /\ JobInv /\ QueueInv
  BY InitRound, InitJobs, InitInv
<1>2. RoundInv /\ JobInv /\ QueueInv /\ [Next]_vars => (RoundInv /\ JobInv /\ QueueInv)'
  BY RoundInductive, JobsInductive, QueueInductive
<1> QED
  BY <1>1, <1>2, PTL DEF Spec

\* When waitForAllThreads returns, task() has been called as often as the round
\* has jobs, and in the client's first round with every job id (threadFunc,
\* deactivateThread), for any clients and workers whose rounds do not overlap.
THEOREM EveryJobRuns == ~WakeEarly /\ Spec => []AllJobsRun
<1>1. RoundInv => AllJobsRun
  BY DEF RoundInv, Alone, TaskInv, IdInv, IdsOf, AllJobsRun
<1> QED
  BY <1>1, RoundInvariant, PTL

\* With as many jobs as workers each worker has then run one of them, so that
\* RCBProc, which goes by the worker's number, has filtered every chunk.
THEOREM EveryChunkFiltered == ~WakeEarly /\ Spec => []ChunksFiltered
<1>1. ASSUME RoundInv, JobInv, QueueInv PROVE ChunksFiltered
  <2>1. ASSUME ~overlap, NEW c \in Clients, RoundOver(c), Jobs[c] = NumWorkers, NEW w \in Workers
        PROVE  ran[c][w] = 1
    <3>1. ChunkInv
      BY <1>1, <2>1 DEF RoundInv
    <3>2. RanOnce(c) /\ cpc[c] = "idle"
      BY <2>1, <3>1 DEF ChunkInv, RoundOver
    <3>3. ~Counted(c)
      BY <3>2 DEF Counted, InRound
    <3>4. m_client[w] # c
      <4>1. c # NULL
        BY NamesAssumption
      <4> QED
        BY <1>1, <3>3, <4>1, HeldInRound
    <3>5. ~ToRun(c, w)
      BY <3>2, <3>4 DEF ToRun
    <3> QED
      BY <3>2, <3>5 DEF RanOnce
  <2> QED
    BY <2>1 DEF ChunksFiltered
<1> QED
  BY <1>1, RoundInvariant, PTL
=============================================================================
