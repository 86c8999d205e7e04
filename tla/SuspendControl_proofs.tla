------------------------ MODULE SuspendControl_proofs ------------------------
(***************************************************************************)
(* Proofs about SuspendControl, for any numbers of callers, targets and    *)
(* slots, whether or not targets may end.                                  *)
(*                                                                         *)
(* The argument.  The mutex lets one caller at a time be between sending   *)
(* SIGUSR1 and recording its target, and it leaves only when sentinel is   *)
(* set; so at any time at most one target is on its way to setting         *)
(* sentinel, and that one is the caller's.  SIGUSR2 is sent to a listed    *)
(* target only, which cannot leave the handler without taking it, so none  *)
(* is left over when SIGUSR1 reaches a running target.                     *)
(***************************************************************************)
EXTENDS SuspendControl, FiniteSetTheorems, TLAPS

\* The mutex is held exactly in the critical sections.
Locked == {"kill", "spin", "resume"}
MutualExclusion == \A c \in Callers : cpc[c] \in Locked <=> mut = c

\* What a caller in the middle of a call knows of its target.
CallerKnows ==
    \A c \in Callers :
        /\ cpc[c] # "idle" => arg[c] \in Targets
        /\ cpc[c] \in {"kill", "spin"} => arg[c] \notin registered
        /\ cpc[c] = "kill" => sentinel = 0
        /\ cpc[c] = "resume" => arg[c] \in registered

\* A target about to set sentinel is the one a caller waits for.
Summoned(t) == tstate[t] = "handler" \/ Suspend \in pending[t]
Awaited(t) == \E c \in Callers : cpc[c] = "spin" /\ arg[c] = t

SummonedIsAwaited ==
    \A t \in Targets :
        /\ Summoned(t) => sentinel = 0 /\ Awaited(t)
        /\ ~ (tstate[t] = "handler" /\ Suspend \in pending[t])

\* Nothing is on its way that could resume a listed target, or one that has
\* answered and is about to be listed.
Held(t) == tstate[t] \in Stopping /\ Resume \notin pending[t]

ListedIsHeld == \A t \in registered : Held(t)
AnsweredIsHeld == \A c \in Callers : cpc[c] = "spin" /\ sentinel = 1 => Held(arg[c])

\* A slot found in the array, or appended to it, is still free.
SlotFound ==
    \A c \in Callers : cpc[c] \in {"kill", "spin"} /\ slot[c] # "outside"
                           => Cardinality(registered) + junk < bottom

InitFirst ==
    /\ ~inited => bottom = 0
    /\ \A c \in Callers : cpc[c] \in {"suspend", "kill", "spin"} => inited

SlotInv == SlotsSuffice /\ SlotFound /\ InitFirst

SignalInv ==
    /\ TypeOK /\ MutualExclusion /\ CallerKnows /\ SummonedIsAwaited
    /\ ListedIsHeld /\ AnsweredIsHeld /\ ResumeOnlyToSuspended

SuspendInv == SignalInv /\ SlotInv
-----------------------------------------------------------------------------
-----------------------------------------------------------------------------
\* Initially no caller is in a call and no target has been sent a signal.
LEMMA InitSignal == Init => SignalInv
<1> SUFFICES ASSUME Init PROVE SignalInv
  OBVIOUS
<1> USE NoneAssumption DEF Init
<1>1. TypeOK
  <2>1. pending \in [Targets -> SUBSET {Suspend, Resume}]
    OBVIOUS
  <2>2. inited \in BOOLEAN /\ mut \in Callers \cup {None} /\ registered \in SUBSET Targets
    OBVIOUS
  <2>3. sentinel \in 0 .. 1 /\ junk \in Nat
    OBVIOUS
  <2>4. bottom \in 0 .. MaxBottom
    BY SlotAssumption
  <2>5. /\ cpc \in [Callers -> CallerStates] /\ arg \in [Callers -> Targets \cup {None}]
        /\ slot \in [Callers -> {"inside", "new", "outside"}]
        /\ tstate \in [Targets -> TargetStates]
    BY DEF CallerStates, TargetStates
  <2>6. QED
    BY <2>1, <2>2, <2>3, <2>4, <2>5 DEF TypeOK
<1>2. MutualExclusion /\ CallerKnows
  BY DEF MutualExclusion, CallerKnows, Locked
<1>3. SummonedIsAwaited /\ ResumeOnlyToSuspended
  BY DEF SummonedIsAwaited, Summoned, ResumeOnlyToSuspended
<1>4. ListedIsHeld /\ AnsweredIsHeld
  BY DEF ListedIsHeld, AnsweredIsHeld
<1>5. QED
  BY <1>1, <1>2, <1>3, <1>4 DEF SignalInv

\* Every step of a caller keeps the part of the invariant about signals: inside
\* its critical section because the mutex keeps the other callers out, outside
\* of it because it touches neither the signals nor the array.
LEMMA CallerSignal ==
  ASSUME SignalInv, NEW c \in Callers, Caller(c)
  PROVE  SignalInv'
<1> USE SlotAssumption, NoneAssumption
    DEF SignalInv, TypeOK, MutualExclusion, CallerKnows, SummonedIsAwaited,
        ListedIsHeld, AnsweredIsHeld, ResumeOnlyToSuspended,
        Summoned, Awaited, Held, Locked, Stopping, Suspend, Resume, Return, Listed,
        CallerStates, TargetStates, packageVars, callerVars, targetVars
<1>1. ASSUME NEW t \in Targets, CallSuspend(c, t)
      PROVE  SignalInv'
  BY <1>1 DEF CallSuspend
<1>2. CASE SuspendListed(c)
  BY <1>2 DEF SuspendListed
<1>3. CASE SuspendNew(c)
  BY <1>3 DEF SuspendNew, SentinelCleared, Grown
<1>4. CASE SendSuspend(c)
  BY <1>4 DEF SendSuspend
<1>5. CASE SendSuspendExited(c)
  BY <1>5 DEF SendSuspendExited
<1>6. CASE EndSpin(c)
  BY <1>6 DEF EndSpin, SentinelSet, Listing
<1>7. ASSUME NEW t \in Targets, CallContinue(c, t)
      PROVE  SignalInv'
  BY <1>7 DEF CallContinue
<1>8. CASE ContinueUnlisted(c)
  BY <1>8 DEF ContinueUnlisted
<1>9. CASE ContinueListed(c)
  BY <1>9 DEF ContinueListed
<1>10. CASE SendResume(c)
  BY <1>10 DEF SendResume, Delisted
<1> HIDE DEF SignalInv
<1>11. QED
  BY <1>1, <1>2, <1>3, <1>4, <1>5, <1>6, <1>7, <1>8, <1>9, <1>10 DEF Caller

\* Every step of a target keeps it: SIGUSR1 reaches a running target, to which
\* no SIGUSR2 is on its way, and a target that answers is the one awaited.
LEMMA TargetSignal ==
  ASSUME SignalInv, NEW t \in Targets, Handler(t) \/ ExitTarget(t)
  PROVE  SignalInv'
<1> USE SlotAssumption, NoneAssumption
    DEF SignalInv, TypeOK, MutualExclusion, CallerKnows, SummonedIsAwaited,
        ListedIsHeld, AnsweredIsHeld, ResumeOnlyToSuspended,
        Summoned, Awaited, Held, Locked, Stopping, Suspend, Resume,
        CallerStates, TargetStates, packageVars, callerVars, targetVars
<1>1. CASE TakeSuspend(t)
  BY <1>1 DEF TakeSuspend
<1>2. CASE SetSentinel(t)
  BY <1>2 DEF SetSentinel, SentinelRaised
<1>3. CASE SigSuspend(t)
  BY <1>3 DEF SigSuspend
<1>4. CASE Wake(t)
  BY <1>4 DEF Wake
<1>5. CASE TakeResume(t)
  BY <1>5 DEF TakeResume
<1>6. CASE LeaveHandler(t)
  BY <1>6 DEF LeaveHandler
<1>7. CASE ExitTarget(t)
  BY <1>7 DEF ExitTarget
<1> HIDE DEF SignalInv
<1>8. QED
  BY <1>1, <1>2, <1>3, <1>4, <1>5, <1>6, <1>7 DEF Handler

\* The slots: a step changes the count of listed threads by at most one, and
\* adds one only to a slot found free in the same critical section.
LEMMA InitSlots == Init => SlotInv
  BY FS_EmptySet DEF Init, SlotInv, SlotsSuffice, SlotFound, InitFirst

\* No step of a caller loses or overcommits a slot.
LEMMA CallerSlots ==
  ASSUME SignalInv, SlotInv, NEW c \in Callers, Caller(c)
  PROVE  SlotInv'
<1>1. IsFiniteSet(registered) /\ Cardinality(registered) \in Nat
  BY TargetsAssumption, FS_Subset, FS_CardinalityType DEF SignalInv, TypeOK
<1>2. Cardinality(registered \cup {arg[c]}) \in Nat
      /\ Cardinality(registered \cup {arg[c]}) <= Cardinality(registered) + 1
  <2>1. Cardinality(registered \cup {arg[c]})
          = IF arg[c] \in registered THEN Cardinality(registered) ELSE Cardinality(registered) + 1
    BY <1>1, FS_AddElement
  <2>2. QED
    BY <1>1, <2>1
<1>3. Cardinality(registered \ {arg[c]}) \in Nat
      /\ Cardinality(registered \ {arg[c]}) <= Cardinality(registered)
  <2>1. IsFiniteSet(registered \ {arg[c]})
        /\ Cardinality(registered \ {arg[c]})
             = IF arg[c] \in registered THEN Cardinality(registered) - 1
               ELSE Cardinality(registered)
    BY <1>1, FS_RemoveElement
  <2>2. Cardinality(registered \ {arg[c]}) \in Nat
    BY <2>1, FS_CardinalityType
  <2>3. QED
    BY <1>1, <2>1, <2>2
<1> USE <1>1, <1>2, <1>3, SlotAssumption, NoneAssumption
    DEF SignalInv, SlotInv, TypeOK, MutualExclusion, Locked, SlotsSuffice, SlotFound,
        InitFirst, CallerKnows, Return, Listed, CallerStates, packageVars, callerVars
<1>4. ASSUME NEW t \in Targets, CallSuspend(c, t)
      PROVE  SlotInv'
  BY <1>4 DEF CallSuspend
<1>5. CASE SuspendListed(c)
  BY <1>5 DEF SuspendListed
<1>6. CASE SuspendNew(c)
  BY <1>6 DEF SuspendNew, Grown
<1>7. CASE SendSuspend(c)
  BY <1>7 DEF SendSuspend
<1>8. CASE SendSuspendExited(c)
  BY <1>8 DEF SendSuspendExited
<1>9. CASE EndSpin(c)
  BY <1>9 DEF EndSpin, Listing
<1>10. ASSUME NEW t \in Targets, CallContinue(c, t)
      PROVE  SlotInv'
  BY <1>10 DEF CallContinue
<1>11. CASE ContinueUnlisted(c)
  BY <1>11 DEF ContinueUnlisted
<1>12. CASE ContinueListed(c)
  BY <1>12 DEF ContinueListed
<1>13. CASE SendResume(c)
  BY <1>13 DEF SendResume, Delisted
<1> HIDE DEF SlotInv
<1>14. QED
  BY <1>4, <1>5, <1>6, <1>7, <1>8, <1>9, <1>10, <1>11, <1>12, <1>13 DEF Caller

\* Both parts together hold in every behaviour.
LEMMA SuspendInvariant == Spec => []SuspendInv
<1>1. Init => SuspendInv
  BY InitSignal, InitSlots DEF SuspendInv
<1>2. SuspendInv /\ [Next]_vars => SuspendInv'
  <2> SUFFICES ASSUME SuspendInv, [Next]_vars PROVE SuspendInv'
    OBVIOUS
  <2> USE DEF SuspendInv
  <2>1. ASSUME NEW c \in Callers, Caller(c) PROVE SuspendInv'
    BY <2>1, CallerSignal, CallerSlots
  <2>2. ASSUME NEW t \in Targets, Handler(t) \/ ExitTarget(t) PROVE SuspendInv'
    <3>1. UNCHANGED <<packageVars, callerVars>>
      BY <2>2 DEF Handler, TakeSuspend, SetSentinel, SigSuspend, Wake, TakeResume,
                  LeaveHandler, ExitTarget
    <3>2. SlotInv'
      BY <3>1 DEF SlotInv, SlotsSuffice, SlotFound, InitFirst, packageVars, callerVars
    <3>3. QED
      BY <2>2, <3>2, TargetSignal
  <2>3. CASE UNCHANGED vars
    BY <2>3 DEF vars, packageVars, callerVars, targetVars, SignalInv, SlotInv, TypeOK,
       MutualExclusion, CallerKnows, SummonedIsAwaited, ListedIsHeld, AnsweredIsHeld,
       ResumeOnlyToSuspended, Summoned, Awaited, Held, SlotsSuffice, SlotFound,
       InitFirst
  <2>4. QED
    BY <2>1, <2>2, <2>3 DEF Next
<1>3. QED
  BY <1>1, <1>2, PTL DEF Spec

-----------------------------------------------------------------------------
\* Type correctness of the package's and the targets' state.
THEOREM SuspendTyped == Spec => []TypeOK
<1>1. SuspendInv => TypeOK
  BY DEF SuspendInv, SignalInv
<1>2. QED
  BY SuspendInvariant, <1>1, PTL

\* A thread listed in the array is inside the suspend handler: thd_continue is
\* the only way out, and no stale resume signal can wake it.
THEOREM ListedIsStopped == Spec => []RegisteredIsStopped
<1>1. SuspendInv => RegisteredIsStopped
  BY DEF SuspendInv, SignalInv, ListedIsHeld, Held, RegisteredIsStopped
<1>2. QED
  BY SuspendInvariant, <1>1, PTL

\* One sentinel is enough for any number of callers and targets (thd_suspend).
THEOREM SentinelIsUnambiguous == Spec => []SentinelIsForMe
<1>1. SuspendInv => SentinelIsForMe
  BY DEF SuspendInv, SignalInv, AnsweredIsHeld, Held, SentinelIsForMe
<1>2. QED
  BY SuspendInvariant, <1>1, PTL

\* SIGUSR2 is pending only for threads inside the suspend handler (thd_continue).
THEOREM ResumeIsTargeted == Spec => []ResumeOnlyToSuspended
<1>1. SuspendInv => ResumeOnlyToSuspended
  BY DEF SuspendInv, SignalInv
<1>2. QED
  BY SuspendInvariant, <1>1, PTL

\* The array's slots cover all listed threads and all slots spoilt by a failed
\* pthread_kill, in spite of the unbounded scan (thd_suspend).
THEOREM SlotsAreSufficient == Spec => []SlotsSuffice
<1>1. SuspendInv => SlotsSuffice
  BY DEF SuspendInv, SlotInv
<1>2. QED
  BY SuspendInvariant, <1>1, PTL
=============================================================================
