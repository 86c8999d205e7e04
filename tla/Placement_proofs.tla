--------------------------- MODULE Placement_proofs ---------------------------
(***************************************************************************)
(* Proofs about Placement, for any machine, any limits and any number of   *)
(* threads.  Only PlacementValid supposes that the limit on the nodes is   *)
(* not below their number: the initial placement does not look at it.      *)
(***************************************************************************)
EXTENDS Placement, FiniteSetTheorems, FunctionTheorems, TLAPS

\* The CPU of a thread is one of its node's.
ChildInNode == \A t \in Threads : child[t] \in 0 .. NumChild(main[t]) - 1

\* Sample is where the bound on iterations is looked at.
IterBounded == phase \in {"estimate", "optimize", "apply"} => iter <= MaxIter

\* The node estimate() compares with is the one of the thread's last update.
OldIsUsed == \A t \in updated : main_old[t] = used[t]

\* Nodes change in NUMA turns only, and not twice in one.
SwitchedInTurns ==
    \A t \in Threads : /\ switched[t] % NumaPeriod = 0
                       /\ switched[t] <= iter
                       /\ phase # "apply" => switched[t] < iter

PlaceInv ==
    /\ TypeOK /\ ChildInNode /\ IterBounded /\ OldIsUsed /\ SwitchedInTurns
    /\ PinnedAsChosen
-----------------------------------------------------------------------------
\* What the assumptions say of each node.
LEMMA NodeFacts ==
    /\ NumNodes \in Nat \ {0} /\ 0 \in Nodes
    /\ \A n \in Nodes : /\ NumChild(n) \in Nat \ {0}
                        /\ \A c \in 0 .. NumChild(n) - 1 : Cpu(n, c) \in Nat
<1>1. NumNodes \in Nat \ {0}
  BY NodesAssumption DEF NumNodes
<1>2. ASSUME NEW n \in Nodes
      PROVE  /\ NumChild(n) \in Nat \ {0}
             /\ \A c \in 0 .. NumChild(n) - 1 : Cpu(n, c) \in Nat
  <2>1. n + 1 \in 1 .. Len(CpuNodes) /\ n + 1 \in 1 .. Len(MaxChild)
    BY <1>1, NodesAssumption DEF Nodes, NumNodes
  <2>2. CpuNodes[n + 1] \in Seq(Nat) /\ CpuNodes[n + 1] # <<>> /\ MaxChild[n + 1] \in Nat \ {0}
    BY <2>1, NodesAssumption DEF NumNodes
  <2>3. Len(CpuNodes[n + 1]) \in Nat \ {0}
    BY <2>2
  <2>4. NumChild(n) \in Nat \ {0} /\ NumChild(n) <= Len(CpuNodes[n + 1])
    BY <2>2, <2>3 DEF NumChild, Least
  <2>5. \A c \in 0 .. NumChild(n) - 1 : Cpu(n, c) \in Nat
    BY <2>2, <2>3, <2>4 DEF Cpu
  <2>6. QED
    BY <2>4, <2>5
<1>3. QED
  BY <1>1, <1>2 DEF Nodes

\* There are finitely many CPUs to place threads on, and at least one.
LEMMA SlotsFinite == IsFiniteSet(Slots) /\ Cardinality(Slots) \in Nat \ {0}
<1> DEFINE F == [n \in Nodes |-> {n} \X (0 .. NumChild(n) - 1)]
           S == {F[n] : n \in Nodes}
<1>1. IsFiniteSet(Nodes)
  BY NodeFacts, FS_Interval DEF Nodes
<1>2. F \in Surjection(Nodes, S)
  BY DEF Surjection
<1>3. IsFiniteSet(S)
  BY <1>1, <1>2, FS_Surjection
<1>4. ASSUME NEW n \in Nodes PROVE IsFiniteSet(F[n])
  <2>1. IsFiniteSet({n})
    BY FS_Singleton
  <2>2. 0 \in Int /\ NumChild(n) - 1 \in Int
    BY NodeFacts
  <2>3. IsFiniteSet(0 .. NumChild(n) - 1)
    BY <2>2, FS_Interval
  <2>4. QED
    BY <2>1, <2>3, FS_Product
<1>5. IsFiniteSet(UNION S)
  <2>1. \A T \in S : IsFiniteSet(T)
    BY <1>4
  <2>2. QED
    BY <1>3, <2>1, FS_UNION
<1>6. Slots = UNION S
  BY DEF Slots
<1>7. <<0, 0>> \in Slots
  BY NodeFacts DEF Slots
<1>8. QED
  BY <1>5, <1>6, <1>7, FS_EmptySet, FS_CardinalityType

\* Earlier slots have lower places: no two have the same.
LEMMA PlacesDiffer ==
  ASSUME NEW a \in Slots, NEW b \in Slots
  PROVE  /\ Place(a) \in 0 .. Cardinality(Slots) - 1
         /\ Before(a, b) => Place(a) # Place(b)
<1> DEFINE Below(s) == {c \in Slots : Before(c, s)}
<1>1. ASSUME NEW s \in Slots
      PROVE  /\ IsFiniteSet(Below(s)) /\ s \notin Below(s)
             /\ Place(s) = Cardinality(Below(s)) /\ Place(s) \in Nat
             /\ Place(s) < Cardinality(Slots)
  <2>1. s[1] \in Nat /\ s[2] \in Nat
    BY NodeFacts DEF Slots, Nodes
  <2>2. s \notin Below(s)
    BY <2>1 DEF Before
  <2>3. IsFiniteSet(Below(s)) /\ Cardinality(Below(s)) <= Cardinality(Slots)
        /\ (Cardinality(Slots) = Cardinality(Below(s)) => Slots = Below(s))
    BY SlotsFinite, FS_Subset
  <2>4. Cardinality(Below(s)) \in Nat
    BY <2>3, FS_CardinalityType
  <2>5. Place(s) = Cardinality(Below(s))
    BY DEF Place
  <2>6. QED
    BY <2>2, <2>3, <2>4, <2>5, SlotsFinite
<1>2. ASSUME Before(a, b) PROVE Place(a) # Place(b)
  <2>1. \A s \in Slots : s[1] \in Nat /\ s[2] \in Nat
    BY NodeFacts DEF Slots, Nodes
  <2>2. Below(a) \subseteq Below(b) /\ a \in Below(b)
    BY <1>2, <2>1 DEF Before
  <2>3. Cardinality(Below(b)) = Cardinality(Below(a)) => Below(b) = Below(a)
    BY <1>1, <2>2, FS_Subset
  <2>4. QED
    BY <1>1, <2>2, <2>3
<1>3. Place(a) \in 0 .. Cardinality(Slots) - 1
  <2>1. Place(a) \in Nat /\ Place(a) < Cardinality(Slots)
    BY <1>1
  <2>2. QED
    BY <2>1, SlotsFinite
<1>4. QED
  BY <1>2, <1>3

\* So every place is taken, and the round robin finds a slot for each thread.
LEMMA InitialActionInSlots ==
  ASSUME NEW t \in Threads
  PROVE  InitialAction(t) \in Slots
<1> DEFINE N == Cardinality(Slots)
           P == [a \in Slots |-> Place(a)]
<1>1. P \in [Slots -> 0 .. N - 1]
  BY PlacesDiffer
<1>2. ASSUME NEW a \in Slots, NEW b \in Slots, P[a] = P[b] PROVE a = b
  <2>1. ~Before(a, b) /\ ~Before(b, a)
    BY <1>2, PlacesDiffer
  <2>2. a = <<a[1], a[2]>> /\ b = <<b[1], b[2]>> /\ {a[1], a[2], b[1], b[2]} \subseteq Nat
    BY NodeFacts DEF Slots, Nodes
  <2>3. a[1] = b[1] /\ a[2] = b[2]
    BY <2>1, <2>2 DEF Before
  <2>4. QED
    BY <2>2, <2>3
<1>3. P \in Injection(Slots, 0 .. N - 1)
  BY <1>1, <1>2, Fun_IsInj
<1>4. IsFiniteSet(0 .. N - 1) /\ Cardinality(0 .. N - 1) = N
  BY SlotsFinite, FS_Interval
<1>5. P \in Surjection(Slots, 0 .. N - 1)
  BY <1>3, <1>4, FS_Injection
<1>6. t % N \in 0 .. N - 1
  BY SlotsFinite, SizesAssumption DEF Threads
<1>7. \E a \in Slots : P[a] = t % N
  BY <1>5, <1>6 DEF Surjection
<1>8. QED
  BY <1>7 DEF InitialAction

-----------------------------------------------------------------------------
\* Two NUMA turns are a period apart.
LEMMA TurnsApart ==
  ASSUME NEW a \in Int, NEW b \in Int, a < b,
         a % NumaPeriod = 0, b % NumaPeriod = 0
  PROVE  b - a >= NumaPeriod
<1> DEFINE p == NumaPeriod
<1>1. p \in Nat \ {0}
  BY SizesAssumption
<1> HIDE DEF p
<1>2. \A x \in Int : x = p * (x \div p) + (x % p) /\ x \div p \in Int
  BY <1>1
<1>3. PICK i \in Int, j \in Int : a = p * i /\ b = p * j
  <2>1. ASSUME NEW x \in Int, x % p = 0 PROVE \E k \in Int : x = p * k
    <3> DEFINE k == x \div p
    <3>1. x = p * k + (x % p) /\ k \in Int
      BY <1>2
    <3> HIDE DEF k
    <3>2. x = p * k + 0
      BY <2>1, <3>1
    <3>3. p * k \in Int
      BY <1>1, <3>1
    <3>4. x = p * k
      BY <3>2, <3>3
    <3>5. QED
      BY <3>1, <3>4
  <2>2. a % p = 0 /\ b % p = 0
    BY DEF p
  <2>3. QED
    BY <2>1, <2>2
<1>4. i < j
  BY <1>1, <1>3
<1>5. p * j >= p * (i + 1)
  BY <1>1, <1>4
<1>6. b - a >= p
  BY <1>1, <1>3, <1>5
<1>7. QED
  BY <1>6 DEF p

\* The initial placement satisfies the invariant.
LEMMA InitPlace == Init => PlaceInv
<1> SUFFICES ASSUME Init PROVE PlaceInv
  OBVIOUS
<1>1. \A t \in Threads : main[t] \in Nodes /\ child[t] \in 0 .. NumChild(main[t]) - 1
  <2> TAKE t \in Threads
  <2>1. InitialAction(t) \in Slots
    BY InitialActionInSlots
  <2>2. main[t] = InitialAction(t)[1] /\ child[t] = InitialAction(t)[2]
    BY DEF Init
  <2>3. QED
    BY <2>1, <2>2 DEF Slots
<1>2. NumaPeriod \in Nat \ {0} /\ MaxIter \in Nat
  BY SizesAssumption
<1>3. (-NumaPeriod) % NumaPeriod = 0
  BY <1>2
<1>4. TypeOK
  <2>1. main \in [Threads -> Nodes]
    BY <1>1 DEF Init
  <2>2. child \in [Threads -> Nat]
    BY <1>1, NodeFacts DEF Init
  <2>3. QED
    BY <1>2, <2>1, <2>2, NodeFacts DEF Init, TypeOK, Phases, Aspirations, InitialMainOld
<1>5. QED
  BY <1>1, <1>2, <1>3, <1>4 DEF Init, PlaceInv, ChildInNode, IterBounded, OldIsUsed,
     SwitchedInTurns, PinnedAsChosen

\* Nodes chosen by optimize() exist, and change in NUMA turns only.
LEMMA ChoiceFacts ==
  ASSUME TypeOK, NEW t \in Threads, NEW n \in MayChoose(t)
  PROVE  n # main[t] => NumaTurn
BY DEF MayChoose

\* Every step preserves the invariant.
LEMMA PlaceInductive == PlaceInv /\ [Next]_vars => PlaceInv'
<1> SUFFICES ASSUME PlaceInv, [Next]_vars PROVE PlaceInv'
  OBVIOUS
<1> USE DEF PlaceInv
<1>a. NumaPeriod \in Nat \ {0} /\ MaxIter \in Nat
  BY SizesAssumption
<1>1. ASSUME NEW t \in Threads, Finish(t) PROVE PlaceInv'
  BY <1>1 DEF Finish, TypeOK, ChildInNode, IterBounded, OldIsUsed, SwitchedInTurns,
     PinnedAsChosen, placeVars, history
<1>2. CASE Sample
  <2>1. PICK some \in SUBSET (Threads \ finished) :
           active' = some /\ phase' = (IF some = {} THEN "apply" ELSE "estimate")
    BY <1>2 DEF Sample
  <2>2. UNCHANGED <<iter, finished, main, child, main_old, aspiration, reshuffled,
                    affinity, memory, used, updated, switched>>
    BY <1>2 DEF Sample, placeVars, history
  <2>3. phase = "sample" /\ iter <= MaxIter /\ phase' \in {"apply", "estimate"}
    BY <1>2, <2>1 DEF Sample
  <2>4. TypeOK'
    BY <2>1, <2>2, <2>3 DEF TypeOK, Phases
  <2>5. QED
    BY <2>2, <2>3, <2>4 DEF ChildInNode, IterBounded, OldIsUsed, SwitchedInTurns,
       PinnedAsChosen
<1>3. CASE Estimate
  <2>1. phase = "estimate" /\ phase' = "optimize"
    BY <1>3 DEF Estimate
  <2>2. UNCHANGED <<iter, finished, active, main, child, affinity, memory, switched>>
    BY <1>3 DEF Estimate, placeVars
  <2>3. aspiration' \in [Threads -> Aspirations]
    BY <1>3 DEF Estimate
  <2>4. reshuffled' \in SUBSET Threads /\ updated' = updated \cup active
    BY <1>3 DEF Estimate, TypeOK
  <2>5. /\ main_old' = [t \in Threads |-> IF t \in active THEN main[t] ELSE main_old[t]]
        /\ used' = [t \in Threads |-> IF t \in active THEN main[t] ELSE used[t]]
    BY <1>3 DEF Estimate
  <2>6. TypeOK'
    BY <2>1, <2>2, <2>3, <2>4, <2>5 DEF TypeOK, Phases
  <2>7. OldIsUsed'
    BY <2>4, <2>5 DEF OldIsUsed, TypeOK
  <2>8. QED
    BY <2>1, <2>2, <2>6, <2>7 DEF ChildInNode, IterBounded, SwitchedInTurns,
       PinnedAsChosen
<1>4. CASE Optimize
  <2>1. phase = "optimize" /\ phase' = "apply"
    BY <1>4 DEF Optimize
  <2>2. UNCHANGED <<iter, finished, active, main_old, aspiration, reshuffled,
                    affinity, memory, used, updated>>
    BY <1>4 DEF Optimize
  <2>3. PICK m \in [Threads -> Nodes] :
           /\ \A t \in Threads : m[t] \in MayChoose(t)
           /\ main' = m
           /\ \E c \in [active -> UNION {ChildRange(t, m[t]) : t \in active}] :
                 /\ \A t \in active : c[t] \in ChildRange(t, m[t])
                 /\ child' = [t \in Threads |-> IF t \in active THEN c[t] ELSE child[t]]
           /\ switched' = [t \in Threads |-> IF m[t] # main[t] THEN iter ELSE switched[t]]
    BY <1>4 DEF Optimize
  <2>4. PICK c \in [active -> UNION {ChildRange(t, m[t]) : t \in active}] :
           /\ \A t \in active : c[t] \in ChildRange(t, m[t])
           /\ child' = [t \in Threads |-> IF t \in active THEN c[t] ELSE child[t]]
    BY <2>3
  <2>5. ChildInNode'
    <3> SUFFICES ASSUME NEW t \in Threads PROVE child'[t] \in 0 .. NumChild(main'[t]) - 1
      BY DEF ChildInNode
    <3>1. CASE t \in active
      BY <2>3, <2>4, <3>1 DEF ChildRange
    <3>2. CASE t \notin active
      <4>1. m[t] = main[t] /\ child'[t] = child[t]
        BY <2>3, <2>4, <3>2 DEF MayChoose
      <4>2. QED
        BY <2>3, <4>1 DEF ChildInNode
    <3>3. QED
      BY <3>1, <3>2
  <2>6. child' \in [Threads -> Nat]
    <3>1. \A t \in Threads : child'[t] \in Nat
      BY <2>3, <2>5, NodeFacts DEF ChildInNode
    <3>2. QED
      BY <2>4, <3>1
  <2>7. TypeOK'
    BY <2>1, <2>2, <2>3, <2>6 DEF TypeOK, Phases
  <2>8. SwitchedInTurns'
    <3> SUFFICES ASSUME NEW t \in Threads
                 PROVE  switched'[t] % NumaPeriod = 0 /\ switched'[t] <= iter
      BY <2>1, <2>2 DEF SwitchedInTurns
    <3>1. CASE m[t] = main[t]
      BY <2>3, <3>1 DEF SwitchedInTurns
    <3>2. CASE m[t] # main[t]
      <4>1. iter % NumaPeriod = 0
        BY <2>3, <3>2, ChoiceFacts DEF NumaTurn
      <4>2. QED
        BY <2>3, <3>2, <4>1 DEF TypeOK
    <3>3. QED
      BY <3>1, <3>2
  <2>9. QED
    BY <2>1, <2>2, <2>5, <2>7, <2>8 DEF IterBounded, OldIsUsed, PinnedAsChosen
<1>5. CASE Apply
  <2>1. /\ phase = "apply" /\ phase' \in {"ended", "sample"}
        /\ memory' = main /\ iter' = iter + 1
    BY <1>5 DEF Apply
  <2>2. affinity' = [t \in Threads |->
                        IF t \in Pinned THEN Cpu(main[t], child[t]) ELSE affinity[t]]
    BY <1>5 DEF Apply
  <2>3. UNCHANGED <<finished, active, main, child, main_old, aspiration, reshuffled,
                    used, updated, switched>>
    BY <1>5 DEF Apply, placeVars, history
  <2>4. affinity' \in [Threads -> Nat]
    <3>1. \A t \in Threads : Cpu(main[t], child[t]) \in Nat
      BY NodeFacts DEF TypeOK, ChildInNode
    <3>2. QED
      BY <2>2, <3>1 DEF TypeOK
  <2>5. iter' \in 0 .. MaxIter + 1
    BY <1>a, <2>1 DEF IterBounded, TypeOK
  <2>6. TypeOK'
    BY <2>1, <2>3, <2>4, <2>5 DEF TypeOK, Phases
  <2>7. PinnedAsChosen'
    BY <2>1, <2>2, <2>3 DEF PinnedAsChosen, Pinned
  <2>8. SwitchedInTurns'
    BY <2>1, <2>3 DEF SwitchedInTurns, TypeOK
  <2>9. QED
    BY <2>1, <2>3, <2>6, <2>7, <2>8 DEF ChildInNode, IterBounded, OldIsUsed
<1>6. CASE UNCHANGED vars
  BY <1>6 DEF vars, placeVars, history, TypeOK, ChildInNode, IterBounded, OldIsUsed,
     SwitchedInTurns, PinnedAsChosen
<1>7. QED
  BY <1>1, <1>2, <1>3, <1>4, <1>5, <1>6 DEF Next

LEMMA Placed == Spec => []PlaceInv
<1>1. QED
  BY InitPlace, PlaceInductive, PTL DEF Spec
-----------------------------------------------------------------------------
\* Type correctness, for any machine and any limits on the nodes and the CPUs.
THEOREM PlacementTyped == Spec => []TypeOK
<1>1. PlaceInv => TypeOK
  BY DEF PlaceInv
<1>2. QED
  BY <1>1, Placed, PTL

\* If the limit on the nodes does not bite, the actions of every thread always
\* name a CPU the policy may use, the initial ones included.
THEOREM ActionsInBounds ==
  ASSUME MaxMain >= NumNodes
  PROVE  Spec => []PlacementValid
<1>1. NumMain = NumNodes
  BY SizesAssumption, NodeFacts DEF NumMain, Least
<1>2. PlaceInv => PlacementValid
  BY <1>1 DEF PlaceInv, TypeOK, ChildInNode, PlacementValid, Nodes
<1>3. QED
  BY <1>2, Placed, PTL

\* Between iterations unfinished threads are where their actions put them.
THEOREM PinnedWhereChosen == Spec => []PinnedAsChosen
<1>1. PlaceInv => PinnedAsChosen
  BY DEF PlaceInv
<1>2. QED
  BY <1>1, Placed, PTL

\* A thread stays on a node for a NUMA period at least: only optimize() changes
\* nodes, in NUMA turns, and the previous change was in an earlier one.
THEOREM StaysOnNode == Spec => NoQuickSwitch
<1> DEFINE Slow == \A t \in Threads : main'[t] # main[t] => iter - switched[t] >= NumaPeriod
<1>1. PlaceInv /\ [Next]_vars => [Slow]_vars
  <2> SUFFICES ASSUME PlaceInv, Next PROVE Slow
    OBVIOUS
  <2> SUFFICES ASSUME NEW t \in Threads, main'[t] # main[t]
               PROVE  iter - switched[t] >= NumaPeriod
    OBVIOUS
  <2>1. Optimize
    BY DEF Next, Finish, Sample, Estimate, Apply, placeVars
  <2>2. phase = "optimize" /\ main'[t] \in MayChoose(t)
    BY <2>1 DEF Optimize
  <2>3. iter % NumaPeriod = 0
    BY <2>2, ChoiceFacts DEF NumaTurn, PlaceInv
  <2>4. switched[t] % NumaPeriod = 0 /\ switched[t] < iter
    BY <2>2 DEF PlaceInv, SwitchedInTurns
  <2>5. iter \in Int /\ switched[t] \in Int
    BY DEF PlaceInv, TypeOK
  <2>6. QED
    BY <2>3, <2>4, <2>5, TurnsApart
<1>2. QED
  BY <1>1, Placed, PTL DEF Spec, NoQuickSwitch

\* From the third iteration on, estimate() resets the CPU strategy of a thread it
\* has updated before exactly when the thread has changed node since.
THEOREM ResetOnMove == Spec => ReshuffledExactly
<1> DEFINE Exact == phase = "estimate" /\ phase' = "optimize" /\ iter >= 2 =>
              \A t \in active \cap updated : t \in reshuffled' <=> SwitchedNode(t)
<1>1. PlaceInv /\ [Next]_vars => [Exact]_vars
  <2> SUFFICES ASSUME PlaceInv, Next, phase = "estimate", phase' = "optimize", iter >= 2,
                      NEW t \in active \cap updated
               PROVE  t \in reshuffled' <=> SwitchedNode(t)
    OBVIOUS
  <2>1. Estimate
    BY DEF Next, Finish, Sample, Optimize, Apply
  <2>2. reshuffled' = {u \in active : MainChanged(u)}
    BY <2>1 DEF Estimate
  <2>3. main_old[t] = used[t] /\ iter # 1
    BY DEF PlaceInv, OldIsUsed, TypeOK
  <2>4. QED
    BY <2>2, <2>3 DEF MainChanged, SwitchedNode
<1>2. QED
  BY <1>1, Placed, PTL DEF Spec, ReshuffledExactly
=============================================================================
