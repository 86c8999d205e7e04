------------------------------ MODULE Placement ------------------------------
(***************************************************************************)
(* Where the scheduler puts each thread: the initial round-robin placement *)
(* (MethodsActions.h), the choice of a NUMA node (main resource) by        *)
(* aspiration learning and of a CPU of that node (child resource) by       *)
(* reinforcement learning, and the policy applied from them, for the       *)
(* configuration the constructor sets (RL_mapping_, AL for the node, RL    *)
(* for the CPU).                                                           *)
(*                                                                         *)
(* Data abstraction.  Strategies, benchmarks and performances are real     *)
(* numbers that only weight the random draws: a draw is any outcome that   *)
(* can be drawn.  What estimate() decides by comparing actions is kept.    *)
(***************************************************************************)
EXTENDS Integers, FiniteSets, Sequences

CONSTANTS
    NumThreads,  \* num_threads_
    CpuNodes,    \* cpu_nodes_per_numa_node_: a sequence of CPUs for each node
    MaxMain,     \* MAX_NUMBER_MAIN_RESOURCES_[0]
    MaxChild,    \* MAX_NUMBER_CHILD_RESOURCES_[0]: a bound for each node
    NumaPeriod,  \* numa_sched_period_
    MaxIter      \* bound on sched_iteration_

NumNodes == Len(CpuNodes)
Nodes    == 0 .. NumNodes - 1
Threads  == 0 .. NumThreads - 1

ASSUME SizesAssumption ==
    /\ NumThreads \in Nat \ {0} /\ MaxMain \in Nat \ {0}
    /\ NumaPeriod \in Nat \ {0} /\ MaxIter \in Nat
\* The constructor indexes MaxChild with every node of the machine; a node has
\* CPUs (a draw among no CPU would return the non-existent CPU 0).
ASSUME NodesAssumption ==
    /\ CpuNodes \in Seq(Seq(Nat)) /\ CpuNodes # <<>>
    /\ MaxChild \in Seq(Nat \ {0}) /\ Len(MaxChild) >= NumNodes
    /\ \A n \in 1 .. NumNodes : CpuNodes[n] # <<>>

Least(a, b) == IF a <= b THEN a ELSE b

\* num_actions_main_resource_ and vec_num_child_actions_per_main_resource_.
NumMain == Least(NumNodes, MaxMain)
NumChild(n) == Least(Len(CpuNodes[n + 1]), MaxChild[n + 1])
Cpu(n, c) == CpuNodes[n + 1][c + 1]

\* compute_initial_action counts through the CPUs of all nodes, over and over,
\* until it has counted thread_num of them: the slot whose place in one round is
\* thread_num modulo the length of a round.  It does not look at MaxMain.
Slots == UNION {{n} \X (0 .. NumChild(n) - 1) : n \in Nodes}

Before(a, b) == a[1] < b[1] \/ (a[1] = b[1] /\ a[2] < b[2])
Place(a) == Cardinality({b \in Slots : Before(b, a)})

InitialAction(t) == CHOOSE a \in Slots : Place(a) = t % Cardinality(Slots)

VARIABLES
    phase,       \* where the iteration of run() is
    iter,        \* sched_iteration_
    finished,    \* threads with status = 1
    active,      \* threads with vec_active_threads_ set
    main, child, \* action_per_main_source_ and action_per_child_source_
    main_old,    \* action_main_old_
    aspiration,  \* what AL_update concluded from the benchmarks
    reshuffled,  \* threads whose CPU strategy the last estimate() reset
    affinity,    \* the CPU each thread is pinned to
    memory,      \* thread_info.memory_index
    used,        \* history: the node whose CPU strategy was last updated
    updated,     \* history: threads whose strategy was ever updated
    switched     \* history: iteration of each thread's last change of node

placeVars == <<main, child>>
history == <<used, updated, switched>>
vars == <<phase, iter, finished, active, placeVars, main_old, aspiration,
          reshuffled, affinity, memory, history>>

Phases == {"sample", "estimate", "optimize", "apply", "ended"}

\* keep: neither flag; perturb: action_change_; switch: random_switch_ as well.
Aspirations == {"keep", "perturb", "switch"}

\* The constructor.  NUMA_PROCESSING sets action_main_old_ to the initial node;
\* the NUMA_MEMORY resource, initialised after it, sets the same entry to 0.
\* Threads inherit the affinity of the master thread, CPU 0.
InitialMainOld_None(t) == -1
InitialMainOld(t) == 0

Init ==
    /\ phase = "sample" /\ iter = 0
    /\ finished = {} /\ active = Threads
    /\ main = [t \in Threads |-> InitialAction(t)[1]]
    /\ child = [t \in Threads |-> InitialAction(t)[2]]
    /\ main_old = [t \in Threads |-> InitialMainOld(t)]
    /\ aspiration = [t \in Threads |-> "keep"]
    /\ reshuffled = {}
    /\ affinity = [t \in Threads |-> 0]
    /\ memory = [t \in Threads |-> 0]
    /\ used = main /\ updated = {}
    /\ switched = [t \in Threads |-> -NumaPeriod]

-----------------------------------------------------------------------------
\* An application thread sets its status, at any moment.
Finish(t) ==
    /\ t \notin finished
    /\ finished' = finished \cup {t}
    /\ UNCHANGED <<phase, iter, active, placeVars, main_old, aspiration, reshuffled,
                   affinity, memory, history>>

\* retrieve_performances: any unfinished thread may have stalled (module
\* SchedulerLoop).  Without an active thread there is no update.
Sample ==
    /\ phase = "sample" /\ iter <= MaxIter
    /\ \E some \in SUBSET (Threads \ finished) :
          /\ active' = some
          /\ phase' = IF some = {} THEN "apply" ELSE "estimate"
    /\ UNCHANGED <<iter, finished, placeVars, main_old, aspiration, reshuffled,
                   affinity, memory, history>>

\* sched_iteration_ % numa_sched_period_ == 0
NumaTurn_Always == TRUE
NumaTurn == iter % NumaPeriod = 0

\* action_main_changed in estimate(): action_main_old_ is set to the current node
\* first when the iteration is the second one.
MainChanged_OldIgnored(t) == iter # 1 /\ main[t] # 0
MainChanged(t) == iter # 1 /\ main[t] # main_old[t]

\* estimate(): for each active thread, AL_update in a NUMA turn, RL_update of the
\* strategy over the CPUs of the thread's node (reset first if the node changed),
\* and action_main_old_ := the current node.
Estimate ==
    /\ phase = "estimate"
    /\ \E al \in [Threads -> Aspirations] :
          /\ \A t \in Threads : ~(t \in active /\ NumaTurn) => al[t] = aspiration[t]
          /\ aspiration' = al
    /\ reshuffled' = {t \in active : MainChanged(t)}
    /\ main_old' = [t \in Threads |-> IF t \in active THEN main[t] ELSE main_old[t]]
    /\ used' = [t \in Threads |-> IF t \in active THEN main[t] ELSE used[t]]
    /\ updated' = updated \cup active
    /\ phase' = "optimize"
    /\ UNCHANGED <<iter, finished, active, placeVars, affinity, memory, switched>>

\* AL_optimize: the nodes it may leave the thread on.
MayChoose(t) ==
    IF t \in active /\ NumaTurn /\ aspiration[t] # "keep"
    THEN {main[t]} \cup 0 .. NumMain - 1
    ELSE {main[t]}

\* RL_optimize: any CPU of the (new) node.
ChildRange_OldNode(t, n) == 0 .. NumChild(main[t]) - 1
ChildRange(t, n) == 0 .. NumChild(n) - 1

\* optimize(): for each active thread a node, and then a CPU of that node.
Optimize ==
    /\ phase = "optimize"
    /\ \E m \in [Threads -> Nodes] :
          /\ \A t \in Threads : m[t] \in MayChoose(t)
          /\ main' = m
          /\ \E c \in [active -> UNION {ChildRange(t, m[t]) : t \in active}] :
                /\ \A t \in active : c[t] \in ChildRange(t, m[t])
                /\ child' = [t \in Threads |-> IF t \in active THEN c[t] ELSE child[t]]
          /\ switched' = [t \in Threads |-> IF m[t] # main[t] THEN iter ELSE switched[t]]
    /\ phase' = "apply"
    /\ UNCHANGED <<iter, finished, active, main_old, aspiration, reshuffled,
                   affinity, memory, used, updated>>

\* apply_scheduling_policy, then sched_iteration_++ and the test of the loop.
\* Every thread not finished by now is pinned, active or not.
Pinned_ActiveOnly == active
Pinned == Threads \ finished

Apply ==
    /\ phase = "apply"
    /\ affinity' = [t \in Threads |->
                       IF t \in Pinned THEN Cpu(main[t], child[t]) ELSE affinity[t]]
    /\ memory' = main
    /\ iter' = iter + 1
    /\ phase' = IF active = {} THEN "ended" ELSE "sample"
    /\ UNCHANGED <<finished, active, placeVars, main_old, aspiration, reshuffled, history>>

Next == Sample \/ Estimate \/ Optimize \/ Apply \/ \E t \in Threads : Finish(t)

Spec == Init /\ [][Next]_vars

-----------------------------------------------------------------------------
(* Properties *)

\* The types of the variables.
TypeOK ==
    /\ phase \in Phases /\ iter \in 0 .. MaxIter + 1
    /\ finished \in SUBSET Threads /\ active \in SUBSET Threads
    /\ main \in [Threads -> Nodes] /\ child \in [Threads -> Nat]
    /\ main_old \in [Threads -> Nodes] /\ used \in [Threads -> Nodes]
    /\ aspiration \in [Threads -> Aspirations]
    /\ reshuffled \in SUBSET Threads /\ updated \in SUBSET Threads
    /\ affinity \in [Threads -> Nat] /\ memory \in [Threads -> Nodes]
    /\ switched \in [Threads -> Int]

\* The pair of actions of a thread always names a CPU the policy may use, so
\* vec_child_sources_[main][child] is in bounds (Scheduler.cpp:1127, 1219): the
\* CPU is drawn among those of the node chosen in the same iteration.
PlacementValid ==
    \A t \in Threads : main[t] \in 0 .. NumMain - 1 /\ child[t] \in 0 .. NumChild(main[t]) - 1

\* Between iterations every unfinished thread is pinned to the CPU its actions
\* name and its memory index is the node of that CPU (Scheduler.cpp:1162, 1261-1264).
PinnedAsChosen ==
    phase \in {"sample", "ended"} /\ iter > 0 =>
        \A t \in Threads \ finished :
            affinity[t] = Cpu(main[t], child[t]) /\ memory[t] = main[t]

\* "switching a thread between NUMA nodes should not be performed so often"
\* (ConfigurationExamples.txt:17): a thread stays on a node for at least
\* numa_sched_period_ iterations.
NoQuickSwitch ==
    [][\A t \in Threads : main'[t] # main[t] => iter - switched[t] >= NumaPeriod]_vars

\* "Reshuffling of Strategies, due to changes in the Main resource"
\* (MethodsEstimate.h:258): once a thread has been updated before, and from the
\* third iteration on, its CPU strategy is reset exactly when the node is not the
\* one of its previous update, whatever iterations it missed while inactive.  In
\* the first iteration threads on a node other than 0 are reset although they
\* never moved, and the second overlooks a change of node made in the first.
SwitchedNode(t) == main[t] # used[t]

ReshuffledExactly ==
    [][phase = "estimate" /\ phase' = "optimize" /\ iter >= 2 =>
          \A t \in active \cap updated : t \in reshuffled' <=> SwitchedNode(t)]_vars
=============================================================================
