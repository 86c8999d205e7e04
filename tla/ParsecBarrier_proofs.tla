------------------------- MODULE ParsecBarrier_proofs -------------------------
(***************************************************************************)
(* Proofs about ParsecBarrier, for any number of threads, of rounds and of *)
(* spurious wake-ups: that it is safe, and that it implements Barrier.     *)
(*                                                                         *)
(* The argument.  In the arrival phase all threads have left the same      *)
(* number of rounds, in the departure phase all have entered the same      *)
(* number; the counter is the number of threads inside, so that the thread *)
(* that makes it Max is the last to enter and the one that makes it 0 the  *)
(* last to leave.  The first to enter is master, and as long as a thread   *)
(* is inside either the master still is or it has been served.             *)
(***************************************************************************)
EXTENDS ParsecBarrier, FiniteSetTheorems, TLAPS

\* A thread is inside between its counting and its leaving.
InsideByStage == \A t \in Threads : t \in Inside <=> pc[t] # "out" /\ ~want[t]

OneAhead == \A t \in Threads : entered[t] \in {left[t], left[t] + 1}

\* What has been read under the mutex is still so.
PhaseKnown == \A t \in Threads : pc[t] = "pass" => is_arrival_phase = want[t]

ArrivalRound == is_arrival_phase => \A t, u \in Threads : left[t] = left[u]
DepartureRound == ~is_arrival_phase => \A t, u \in Threads : entered[t] = entered[u]

\* Nobody is served for a round it has not left.
ServedIsPast ==
    \A t \in Threads, r \in Nat : <<r, t>> \in served => r <= left[t]

\* One master at most, not yet served; somebody is, as long as one is inside.
OneMaster ==
    \A t, u \in Inside : master[t] /\ master[u] => t = u

MasterToBeServed ==
    \A t \in Inside : master[t] => ~Abstract!HasServer(left[t] + 1)

SomeMaster ==
    \A t \in Inside : Abstract!HasServer(left[t] + 1) \/ \E u \in Inside : master[u]

ControlInv == TypeOK /\ InsideByStage /\ PhaseKnown /\ NoMissedWakeup
RoundInv == OneAhead /\ ArrivalRound /\ DepartureRound /\ n = Cardinality(Inside)
MasterInv == ServedIsPast /\ OneMaster /\ MasterToBeServed /\ SomeMaster

BarrierInv == ControlInv /\ RoundInv /\ MasterInv
-----------------------------------------------------------------------------
\* The threads inside are finitely many, at most all, and all if as many.
LEMMA InsideFinite ==
    /\ IsFiniteSet(Inside) /\ Cardinality(Inside) \in 0 .. Max
    /\ Max \in Nat \ {0}
    /\ Cardinality(Inside) = Max => Inside = Threads
<1>1. Inside \subseteq Threads
  BY DEF Inside
<1>2. /\ IsFiniteSet(Inside) /\ Cardinality(Inside) <= Cardinality(Threads)
      /\ Cardinality(Inside) = Cardinality(Threads) => Inside = Threads
  BY <1>1, ThreadsAssumption, FS_Subset
<1>3. Cardinality(Inside) \in Nat /\ Cardinality(Threads) \in Nat
  BY <1>2, ThreadsAssumption, FS_CardinalityType
<1>4. Cardinality(Threads) # 0
  BY ThreadsAssumption, FS_EmptySet
<1>5. QED
  BY <1>2, <1>3, <1>4 DEF Max

\* The invariant holds when parsec_barrier_init has set up an empty barrier.
LEMMA InitBarrierInv == Init => BarrierInv
<1> SUFFICES ASSUME Init PROVE BarrierInv
  OBVIOUS
<1> USE DEF Init
<1>1. Inside = {}
  BY DEF Inside
<1>2. Cardinality(Inside) = 0
  BY <1>1, FS_EmptySet
<1>3. TypeOK
  BY <1>2, InsideFinite, ThreadsAssumption DEF TypeOK, Stages, Holding
<1>4. InsideByStage /\ PhaseKnown /\ NoMissedWakeup
  BY <1>1 DEF InsideByStage, PhaseKnown, NoMissedWakeup
<1>5. RoundInv
  BY <1>2 DEF RoundInv, OneAhead, ArrivalRound, DepartureRound
<1>6. MasterInv
  BY <1>1 DEF MasterInv, ServedIsPast, OneMaster, MasterToBeServed, SomeMaster
<1>7. QED
  BY <1>3, <1>4, <1>5, <1>6 DEF BarrierInv, ControlInv

\* The steps that neither count nor leave move a thread within the call.
Moves(t) ==
    Call(t) \/ Lock(t) \/ Check(t) \/ SpinEnd(t) \/ Loop(t) \/ SpuriousWake(t)

\* The steps that only move a thread through the code keep the mutex and the
\* places of the threads consistent.
LEMMA MovesControl ==
  ASSUME ControlInv, RoundInv, NEW t \in Threads, Moves(t)
  PROVE  ControlInv'
<1> USE ThreadsAssumption, BoundAssumption
    DEF ControlInv, TypeOK, InsideByStage, PhaseKnown, NoMissedWakeup, Inside,
        Stages, Holding, Goto, historyVars
<1>1. CASE Call(t)
  BY <1>1 DEF Call, RoundInv, OneAhead
<1>2. CASE Lock(t)
  BY <1>2 DEF Lock
<1>3. CASE Check(t)
  BY <1>3 DEF Check, PhaseCome
<1>4. CASE SpinEnd(t)
  BY <1>4 DEF SpinEnd
<1>5. CASE Loop(t)
  BY <1>5 DEF Loop, PhaseCome
<1>6. CASE SpuriousWake(t)
  BY <1>6 DEF SpuriousWake
<1>7. QED
  BY <1>1, <1>2, <1>3, <1>4, <1>5, <1>6 DEF Moves

\* They change nothing the other conjuncts speak of.
LEMMA MovesStutter ==
  ASSUME NEW t \in Threads, Moves(t)
  PROVE  UNCHANGED <<n, is_arrival_phase, master, historyVars>>
BY DEF Moves, Call, Lock, Check, SpinEnd, Loop, SpuriousWake, historyVars

\* The facts about rounds only depend on the counters and the histories.
LEMMA StutterRounds ==
  ASSUME RoundInv, MasterInv, UNCHANGED <<n, is_arrival_phase, master, historyVars>>
  PROVE  RoundInv' /\ MasterInv'
<1>1. Inside' = Inside
  BY DEF Inside, historyVars
<1>2. RoundInv'
  BY <1>1 DEF RoundInv, OneAhead, ArrivalRound, DepartureRound, historyVars
<1>3. MasterInv'
  BY <1>1 DEF MasterInv, ServedIsPast, OneMaster, MasterToBeServed, SomeMaster,
              Abstract!HasServer, historyVars
<1>4. QED
  BY <1>2, <1>3
-----------------------------------------------------------------------------
\* Arriving: the thread joins those inside.
LEMMA ArriveInside ==
  ASSUME BarrierInv, NEW t \in Threads, Arrive(t)
  PROVE  /\ t \notin Inside /\ Inside' = Inside \cup {t}
         /\ Cardinality(Inside') = n + 1
         /\ is_arrival_phase /\ entered[t] = left[t]
<1> USE DEF BarrierInv, ControlInv, RoundInv
<1>1. t \notin Inside /\ is_arrival_phase /\ entered[t] = left[t]
  BY DEF Arrive, InsideByStage, PhaseKnown, Inside
<1>2. Inside' = Inside \cup {t}
  BY <1>1 DEF Arrive, Inside, TypeOK
<1>3. Cardinality(Inside') = n + 1
  BY <1>1, <1>2, InsideFinite, FS_AddElement
<1>4. QED
  BY <1>1, <1>2, <1>3

\* If it is the last, all threads are inside.
LEMMA LastArrives ==
  ASSUME BarrierInv, NEW t \in Threads, Arrive(t), n + 1 >= Max
  PROVE  \A u \in Threads : entered'[u] = left[u] + 1
<1>1. Inside' \subseteq Threads /\ IsFiniteSet(Inside \cup {t})
  BY InsideFinite, FS_AddElement DEF Inside
<1>2. Cardinality(Inside') <= Max
  BY <1>1, ThreadsAssumption, FS_Subset DEF Max
<1>3. Cardinality(Inside') = Max
  BY <1>2, ArriveInside, InsideFinite DEF BarrierInv, ControlInv, TypeOK
<1>4. Inside' = Threads
  BY <1>1, <1>3, ThreadsAssumption, FS_Subset DEF Max
<1>5. \A u \in Threads : entered'[u] # left[u]
  BY <1>4 DEF Inside, Arrive
<1>6. entered[t] = left[t]
  BY ArriveInside
<1>7. QED
  BY <1>5, <1>6 DEF BarrierInv, ControlInv, TypeOK, RoundInv, OneAhead, Arrive

\* Arriving keeps the mutex and the places of the threads consistent.
LEMMA ArriveControl ==
  ASSUME BarrierInv, NEW t \in Threads, Arrive(t)
  PROVE  ControlInv'
<1>0. /\ ControlInv /\ is_arrival_phase
      /\ Inside' = Inside \cup {t} /\ Cardinality(Inside') = n + 1
  BY ArriveInside DEF BarrierInv
<1>1. n' \in 0 .. Max
  <2>1. Cardinality(Inside') <= Max
    <3>1. Inside' \subseteq Threads
      BY DEF Inside
    <3>2. QED
      BY <3>1, ThreadsAssumption, FS_Subset DEF Max
  <2>2. QED
    BY <1>0, <2>1, InsideFinite DEF Arrive, ControlInv, TypeOK
<1>2. TypeOK'
  <2>1. pc' \in [Threads -> Stages] /\ master' \in [Threads -> BOOLEAN]
    BY <1>0 DEF Arrive, FirstIn, ControlInv, TypeOK, Stages, Woken, Goto
  <2>2. mutex = t /\ mutex' = t
    BY DEF Arrive, BarrierInv, ControlInv, TypeOK, Holding
  <2>3. \A u \in Threads : pc'[u] \in Holding <=> pc[u] \in Holding
    BY <1>0 DEF Arrive, ControlInv, TypeOK, Holding, Woken, Goto
  <2>4. /\ want' \in [Threads -> BOOLEAN] /\ entered' \in [Threads -> Nat]
        /\ is_arrival_phase' \in BOOLEAN
        /\ UNCHANGED <<mutex, left, served, spurious>>
    <3>1. want' \in [Threads -> BOOLEAN] /\ entered' \in [Threads -> Nat]
      BY <1>0 DEF Arrive, ControlInv, TypeOK
    <3>2. is_arrival_phase' \in BOOLEAN
      BY <1>0 DEF Arrive, ControlInv, TypeOK
    <3>3. UNCHANGED <<mutex, left, served, spurious>>
      BY DEF Arrive
    <3>4. QED
      BY <3>1, <3>2, <3>3
  <2>5. \A u \in Threads : pc'[u] \in Holding <=> mutex' = u
    BY <1>0, <2>2, <2>3 DEF ControlInv, TypeOK
  <2>6. QED
    BY <1>0, <1>1, <2>1, <2>4, <2>5 DEF ControlInv, TypeOK
<1>3. InsideByStage'
  BY <1>0 DEF Arrive, ControlInv, TypeOK, InsideByStage, Woken, Goto
<1>4. PhaseKnown'
  <2>1. \A u \in Threads : u # t => pc[u] # "pass"
    BY ThreadsAssumption, <1>0 DEF Arrive, ControlInv, TypeOK, Holding
  <2>2. \A u \in Threads : u # t => pc'[u] # "pass"
    BY <1>0, <2>1 DEF Arrive, ControlInv, TypeOK, Woken, Goto
  <2>3. pc'[t] = "pass" => is_arrival_phase' = want'[t]
    BY <1>0 DEF Arrive, ControlInv, TypeOK, Woken, Goto
  <2>4. QED
    BY <2>2, <2>3 DEF PhaseKnown
<1>5. NoMissedWakeup'
  BY <1>0 DEF Arrive, ControlInv, TypeOK, NoMissedWakeup, Woken, Goto
<1>6. QED
  BY <1>2, <1>3, <1>4, <1>5 DEF ControlInv

\* Arriving keeps every thread at most one round ahead of the others.
LEMMA ArriveRounds ==
  ASSUME BarrierInv, NEW t \in Threads, Arrive(t)
  PROVE  RoundInv'
<1>0. /\ TypeOK /\ RoundInv /\ is_arrival_phase
      /\ entered[t] = left[t] /\ Cardinality(Inside') = n + 1
  BY ArriveInside DEF BarrierInv, ControlInv
<1>1. OneAhead'
  BY <1>0 DEF RoundInv, OneAhead, Arrive, TypeOK
<1>2. ArrivalRound'
  BY <1>0 DEF RoundInv, ArrivalRound, Arrive
<1>3. DepartureRound'
  <2>1. CASE n + 1 >= Max
    <3>1. \A u \in Threads : entered'[u] = left[u] + 1
      BY <2>1, LastArrives
    <3>2. QED
      BY <1>0, <3>1 DEF RoundInv, ArrivalRound, DepartureRound
  <2>2. CASE ~(n + 1 >= Max)
    BY <1>0, <2>2 DEF DepartureRound, Arrive
  <2>3. QED
    BY <2>1, <2>2
<1>4. n' = Cardinality(Inside')
  BY <1>0 DEF Arrive
<1>5. QED
  BY <1>1, <1>2, <1>3, <1>4 DEF RoundInv

\* Arriving keeps at most one serial thread to each round.
LEMMA ArriveMaster ==
  ASSUME BarrierInv, NEW t \in Threads, Arrive(t)
  PROVE  MasterInv'
<1>0. /\ TypeOK /\ RoundInv /\ MasterInv /\ is_arrival_phase
      /\ t \notin Inside /\ Inside' = Inside \cup {t}
  BY ArriveInside DEF BarrierInv, ControlInv
<1>1. UNCHANGED <<left, served>> /\ master' = [master EXCEPT ![t] = (n = 0)]
  BY DEF Arrive, FirstIn
<1>2. \A u \in Threads : ~Abstract!HasServer(left[u] + 1)
  <2>1. \A u, v \in Threads : left[u] \in Nat /\ left[u] = left[v]
    BY <1>0 DEF RoundInv, ArrivalRound, TypeOK
  <2>2. ASSUME NEW u \in Threads, NEW v \in Threads, <<left[u] + 1, v>> \in served
        PROVE  FALSE
    <3>1. left[u] + 1 <= left[v]
      BY <1>0, <2>1, <2>2 DEF MasterInv, ServedIsPast
    <3>2. QED
      BY <2>1, <3>1
  <2>3. QED
    BY <2>2 DEF Abstract!HasServer
<1>3. n = 0 <=> Inside = {}
  BY <1>0, InsideFinite, FS_EmptySet DEF RoundInv
<1>4. \A u \in Inside : ~(n = 0) /\ u # t /\ master'[u] = master[u]
  BY <1>0, <1>1, <1>3 DEF TypeOK, Inside
<1>5. master'[t] = (n = 0)
  BY <1>0, <1>1 DEF TypeOK
<1>6. ServedIsPast'
  BY <1>0, <1>1 DEF MasterInv, ServedIsPast
<1>7. OneMaster'
  BY <1>0, <1>4, <1>5 DEF MasterInv, OneMaster
<1>8. MasterToBeServed'
  BY <1>1, <1>2 DEF MasterToBeServed, Abstract!HasServer, Inside
<1>9. SomeMaster'
  <2>1. CASE n = 0
    BY <2>1, <1>0, <1>5 DEF SomeMaster
  <2>2. CASE n # 0
    <3>1. PICK v \in Inside : TRUE
      BY <2>2, <1>3
    <3>2. PICK u \in Inside : master[u]
      BY <3>1, <1>0, <1>2 DEF MasterInv, SomeMaster, Inside
    <3>3. u \in Inside' /\ master'[u]
      BY <3>2, <1>0, <1>4
    <3>4. QED
      BY <3>3 DEF SomeMaster
  <2>3. QED
    BY <2>1, <2>2
<1>10. QED
  BY <1>6, <1>7, <1>8, <1>9 DEF MasterInv
-----------------------------------------------------------------------------
\* Departing: the thread leaves those inside, in the departure phase.
LEMMA DepartInside ==
  ASSUME BarrierInv, NEW t \in Threads, Depart(t)
  PROVE  /\ t \in Inside /\ Inside' = Inside \ {t}
         /\ n \in Nat \ {0} /\ Cardinality(Inside') = n - 1
         /\ ~is_arrival_phase /\ entered[t] = left[t] + 1
         /\ left' = [left EXCEPT ![t] = @ + 1]
         /\ UNCHANGED <<entered, master>>
<1>1. t \in Inside /\ ~is_arrival_phase
  BY DEF Depart, BarrierInv, ControlInv, InsideByStage, PhaseKnown
<1>2. entered[t] = left[t] + 1
  BY <1>1 DEF BarrierInv, RoundInv, OneAhead, Inside
<1>3. left' = [left EXCEPT ![t] = @ + 1] /\ UNCHANGED <<entered, master>>
  BY DEF Depart
<1>4. Inside' = Inside \ {t}
  BY <1>2, <1>3 DEF BarrierInv, ControlInv, TypeOK, Inside
<1>5. n = Cardinality(Inside) /\ IsFiniteSet(Inside) /\ n \in Nat
  BY InsideFinite DEF BarrierInv, RoundInv
<1>6. n # 0
  BY <1>1, <1>5, FS_EmptySet
<1>7. Cardinality(Inside') = n - 1
  BY <1>1, <1>4, <1>5, FS_RemoveElement
<1>8. QED
  BY <1>1, <1>2, <1>3, <1>4, <1>5, <1>6, <1>7

\* Departing keeps the mutex and the places of the threads consistent.
LEMMA DepartControl ==
  ASSUME BarrierInv, NEW t \in Threads, Depart(t)
  PROVE  ControlInv'
<1>0. /\ ControlInv /\ ~is_arrival_phase /\ Inside' = Inside \ {t}
      /\ n \in Nat \ {0}
  BY DepartInside DEF BarrierInv
<1>1. mutex = t /\ mutex' = None /\ \A u \in Threads : u # t => pc[u] \notin Holding
  BY ThreadsAssumption, <1>0 DEF Depart, ControlInv, TypeOK, Holding
<1>2. /\ pc' \in [Threads -> Stages] /\ pc'[t] = "out"
      /\ \A u \in Threads : u # t =>
             pc'[u] = pc[u] \/ (pc'[u] = "relock" /\ pc[u] = "wait")
  <2>1. pc \in [Threads -> Stages]
    BY <1>0 DEF ControlInv, TypeOK
  <2>2. \/ pc' = Woken([pc EXCEPT ![t] = "out"])
        \/ pc' = [pc EXCEPT ![t] = "out"]
    BY DEF Depart, Goto
  <2>3. pc' \in [Threads -> Stages]
    BY <2>1, <2>2 DEF Stages, Woken
  <2>4. pc'[t] = "out"
    BY <2>1, <2>2 DEF Woken
  <2>5. ASSUME NEW u \in Threads, u # t
        PROVE  pc'[u] = pc[u] \/ (pc'[u] = "relock" /\ pc[u] = "wait")
    BY <2>1, <2>2, <2>5 DEF Woken
  <2>6. QED
    BY <2>3, <2>4, <2>5
<1>3. \A u \in Threads : pc'[u] \notin Holding
  BY <1>1, <1>2 DEF Holding
<1>4. TypeOK'
  <2>1. n' \in 0 .. Max /\ is_arrival_phase' \in BOOLEAN
    <3>1. n' = n - 1 /\ n \in 0 .. Max
      BY <1>0 DEF Depart, ControlInv, TypeOK
    <3>2. is_arrival_phase' \in BOOLEAN
      BY <1>0 DEF Depart, ControlInv, TypeOK
    <3>3. QED
      BY <3>1, <3>2, <1>0, InsideFinite
  <2>2. /\ left' \in [Threads -> Nat]
        /\ UNCHANGED <<want, master, entered, spurious>>
    BY <1>0 DEF Depart, ControlInv, TypeOK
  <2>3. served' \subseteq Nat \X Threads
    BY <1>0 DEF Depart, ControlInv, TypeOK
  <2>4. \A u \in Threads : pc'[u] \in Holding <=> mutex' = u
    BY <1>1, <1>3, ThreadsAssumption
  <2>5. QED
    BY <1>0, <1>1, <1>2, <2>1, <2>2, <2>3, <2>4 DEF ControlInv, TypeOK
<1>5. InsideByStage'
  <2>1. UNCHANGED want
    BY DEF Depart
  <2>2. QED
    BY <1>0, <1>2, <2>1 DEF ControlInv, InsideByStage
<1>6. PhaseKnown'
  BY <1>3 DEF PhaseKnown, Holding
<1>7. NoMissedWakeup'
  BY <1>0, <1>2 DEF Depart, ControlInv, TypeOK, NoMissedWakeup, Woken, Goto
<1>8. QED
  BY <1>4, <1>5, <1>6, <1>7 DEF ControlInv

\* Departing keeps every thread at most one round ahead of the others.
LEMMA DepartRounds ==
  ASSUME BarrierInv, NEW t \in Threads, Depart(t)
  PROVE  RoundInv'
<1>0. /\ TypeOK /\ RoundInv /\ ~is_arrival_phase
      /\ Inside' = Inside \ {t} /\ n \in Nat \ {0} /\ Cardinality(Inside') = n - 1
      /\ entered[t] = left[t] + 1 /\ left' = [left EXCEPT ![t] = @ + 1]
      /\ UNCHANGED entered
  BY DepartInside DEF BarrierInv, ControlInv
<1>1. OneAhead'
  BY <1>0 DEF RoundInv, OneAhead, TypeOK
<1>2. ArrivalRound'
  <2>1. CASE n - 1 = 0
    <3>1. Inside' = {}
      <4>1. IsFiniteSet(Inside')
        BY <1>0, InsideFinite, FS_RemoveElement
      <4>2. QED
        BY <1>0, <2>1, <4>1, FS_EmptySet
    <3>2. \A u \in Threads : left'[u] = entered[u]
      BY <1>0, <3>1 DEF Inside
    <3>3. QED
      BY <1>0, <3>2 DEF RoundInv, ArrivalRound, DepartureRound
  <2>2. CASE n - 1 # 0
    BY <1>0, <2>2 DEF Depart, LastOut, ArrivalRound
  <2>3. QED
    BY <2>1, <2>2
<1>3. DepartureRound'
  BY <1>0 DEF RoundInv, DepartureRound
<1>4. n' = Cardinality(Inside')
  BY <1>0 DEF Depart
<1>5. QED
  BY <1>1, <1>2, <1>3, <1>4 DEF RoundInv

\* All threads inside are in the same round.
LEMMA InsideRound ==
  ASSUME BarrierInv, NEW t \in Inside, NEW u \in Inside
  PROVE  left[t] = left[u] /\ entered[t] = entered[u] /\ left[t] \in Nat
BY DEF BarrierInv, ControlInv, TypeOK, RoundInv, OneAhead, ArrivalRound,
       DepartureRound, Inside

\* Departing keeps at most one serial thread to each round.
LEMMA DepartMaster ==
  ASSUME BarrierInv, NEW t \in Threads, Depart(t)
  PROVE  MasterInv'
<1>0. /\ TypeOK /\ MasterInv /\ t \in Inside
      /\ Inside' = Inside \ {t} /\ left' = [left EXCEPT ![t] = @ + 1]
      /\ UNCHANGED master
  BY DepartInside DEF BarrierInv, ControlInv
<1>1. served' = IF master[t] THEN served \cup {<<left[t] + 1, t>>} ELSE served
  BY DEF Depart
<1>2. \A u \in Inside' : u \in Inside /\ u # t /\ left'[u] = left[u] /\ left[u] = left[t]
  BY <1>0, InsideRound DEF TypeOK, Inside
<1>3. ServedIsPast'
  <2>1. ASSUME NEW u \in Threads, NEW r \in Nat, <<r, u>> \in served'
        PROVE  r <= left'[u]
    <3>1. CASE <<r, u>> \in served
      BY <3>1, <1>0 DEF MasterInv, ServedIsPast, TypeOK
    <3>2. CASE u = t /\ r = left[t] + 1
      BY <3>2, <1>0 DEF TypeOK
    <3>3. QED
      BY <2>1, <1>1, <3>1, <3>2
  <2>2. QED
    BY <2>1 DEF ServedIsPast
<1>4. OneMaster'
  BY <1>0, <1>2 DEF MasterInv, OneMaster
<1>5. MasterToBeServed'
  <2>1. ASSUME NEW u \in Inside', master'[u]
        PROVE  (~Abstract!HasServer(left[u] + 1))'
    <3>1. ~master[t] /\ served' = served
      BY <1>0, <1>1, <1>2, <2>1 DEF MasterInv, OneMaster
    <3>2. QED
      BY <1>0, <1>2, <2>1, <3>1 DEF MasterInv, MasterToBeServed, Abstract!HasServer
  <2>2. QED
    BY <2>1 DEF MasterToBeServed
<1>6. SomeMaster'
  <2>1. CASE master[t]
    <3>1. <<left[t] + 1, t>> \in served'
      BY <1>1, <2>1
    <3>2. QED
      BY <1>2, <3>1 DEF SomeMaster, Abstract!HasServer
  <2>2. CASE ~master[t]
    <3>1. served' = served
      BY <1>1, <2>2
    <3>2. QED
      BY <1>0, <1>2, <2>2, <3>1 DEF MasterInv, SomeMaster, Abstract!HasServer
  <2>3. QED
    BY <2>1, <2>2
<1>7. QED
  BY <1>3, <1>4, <1>5, <1>6 DEF MasterInv
-----------------------------------------------------------------------------
\* Every step of parsec_barrier_wait preserves the invariant.
LEMMA BarrierInductive == BarrierInv /\ [Next]_vars => BarrierInv'
<1> SUFFICES ASSUME BarrierInv, [Next]_vars PROVE BarrierInv'
  OBVIOUS
<1>1. ASSUME NEW t \in Threads, Moves(t) PROVE BarrierInv'
  BY <1>1, MovesControl, MovesStutter, StutterRounds DEF BarrierInv
<1>2. ASSUME NEW t \in Threads, Arrive(t) PROVE BarrierInv'
  BY <1>2, ArriveControl, ArriveRounds, ArriveMaster DEF BarrierInv
<1>3. ASSUME NEW t \in Threads, Depart(t) PROVE BarrierInv'
  BY <1>3, DepartControl, DepartRounds, DepartMaster DEF BarrierInv
<1>4. CASE UNCHANGED vars
  <2>1. ControlInv'
    BY <1>4 DEF vars, historyVars, BarrierInv, ControlInv, TypeOK, InsideByStage, Inside,
                PhaseKnown, NoMissedWakeup
  <2>2. UNCHANGED <<n, is_arrival_phase, master, historyVars>>
    BY <1>4 DEF vars
  <2>3. QED
    BY <2>1, <2>2, StutterRounds DEF BarrierInv
<1>5. QED
  BY <1>1, <1>2, <1>3, <1>4 DEF Next, Step, Moves

\* The inductive invariant of parsec_barrier_wait: who is inside, in which phase
\* and in which round.
THEOREM BarrierInvariant == Spec => []BarrierInv
BY InitBarrierInv, BarrierInductive, PTL DEF Spec

\* The types, and mutual exclusion.
THEOREM TypeCorrect == Spec => []TypeOK
<1>1. BarrierInv => TypeOK
  BY DEF BarrierInv, ControlInv
<1>2. QED
  BY <1>1, BarrierInvariant, PTL

\* No wake-up is lost: parsec_barrier_wait broadcasts whenever it changes the
\* flag somebody may be blocked on.
THEOREM NoWakeupMissed == Spec => []NoMissedWakeup
<1>1. BarrierInv => NoMissedWakeup
  BY DEF BarrierInv, ControlInv
<1>2. QED
  BY <1>1, BarrierInvariant, PTL

\* The counter counts the threads of one round.
THEOREM OneRoundCounted == Spec => []CountsOneRound
<1>1. BarrierInv => CountsOneRound
  BY InsideRound DEF CountsOneRound, BarrierInv, RoundInv
<1>2. QED
  BY <1>1, BarrierInvariant, PTL
-----------------------------------------------------------------------------
\* A step of the code is a step of the barrier or changes nothing it speaks of.
LEMMA StepRefines == BarrierInv /\ [Next]_vars =>
                       [Abstract!BarrierNext]_(Abstract!barrierVars)
<1> SUFFICES ASSUME BarrierInv, [Next]_vars
             PROVE  [Abstract!BarrierNext]_(Abstract!barrierVars)
  OBVIOUS
<1>1. ASSUME NEW t \in Threads, Moves(t)
      PROVE  UNCHANGED Abstract!barrierVars
  BY <1>1, MovesStutter DEF Abstract!barrierVars, historyVars
<1>2. ASSUME NEW t \in Threads, Arrive(t)
      PROVE  Abstract!Enter(t)
  BY <1>2, ArriveInside DEF Abstract!Enter, Arrive
<1>3. ASSUME NEW t \in Threads, Depart(t)
      PROVE  Abstract!Leave(t, master[t])
  <2>1. /\ t \in Inside /\ ~is_arrival_phase /\ entered[t] = left[t] + 1
        /\ left' = [left EXCEPT ![t] = @ + 1] /\ UNCHANGED entered
    BY <1>3, DepartInside
  <2>2. TypeOK /\ RoundInv /\ MasterInv
    BY DEF BarrierInv, ControlInv
  <2>3. \A u \in Threads : entered[u] = left[t] + 1
    BY <2>1, <2>2 DEF RoundInv, DepartureRound
  <2>4. Abstract!MayServe(t, master[t])
    <3>1. CASE master[t]
      BY <2>1, <2>2, <3>1 DEF MasterInv, MasterToBeServed, Abstract!MayServe, Abstract!Round
    <3>2. CASE ~master[t]
      <4>1. CASE Abstract!HasServer(left[t] + 1)
        BY <3>2, <4>1 DEF Abstract!MayServe, Abstract!Round
      <4>2. ASSUME NEW u \in Inside, master[u]
            PROVE  Abstract!MayServe(t, master[t])
        <5>1. u # t /\ u \in Threads /\ left[u] = left[t] /\ left[t] \in Nat
          BY <2>1, <3>2, <4>2, InsideRound DEF Inside
        <5>2. QED
          BY <3>2, <5>1 DEF Abstract!MayServe, Abstract!Round
      <4>3. QED
        BY <2>1, <2>2, <4>1, <4>2 DEF MasterInv, SomeMaster
    <3>3. QED
      BY <3>1, <3>2
  <2>5. /\ left[t] < entered[t] /\ \A u \in Threads : left[t] < entered[u]
    BY <2>2, <2>3 DEF TypeOK
  <2>6. served' = IF master[t] THEN served \cup {<<Abstract!Round(t), t>>} ELSE served
    BY <1>3 DEF Depart, Abstract!Round
  <2>7. QED
    BY <2>1, <2>4, <2>5, <2>6 DEF Abstract!Leave, Abstract!MayLeave
<1>4. CASE UNCHANGED vars
  BY <1>4 DEF vars, historyVars, Abstract!barrierVars
<1>5. \A t \in Threads : master[t] \in BOOLEAN
  BY DEF BarrierInv, ControlInv, TypeOK
<1>6. QED
  BY <1>1, <1>2, <1>3, <1>4, <1>5 DEF Next, Step, Moves, Abstract!BarrierNext

\* parsec_barrier_wait implements the barrier: nobody gets out of a round that
\* somebody has not entered, and exactly one thread of each round is told that
\* it is the serial one.
THEOREM BarrierRefined == Spec => RefinesBarrier
<1>1. Init => Abstract!BarrierInit
  BY DEF Init, Abstract!BarrierInit
<1>2. QED
  BY <1>1, BarrierInvariant, StepRefines, PTL
     DEF Spec, RefinesBarrier, Abstract!BarrierSpec
=============================================================================
