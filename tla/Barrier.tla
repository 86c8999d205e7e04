------------------------------- MODULE Barrier -------------------------------
(***************************************************************************)
(* What a barrier promises to the threads that use it round after round:   *)
(* nobody leaves a round that somebody has not entered, and in each round  *)
(* exactly one thread is told that it is the serial thread.                *)
(***************************************************************************)
EXTENDS Naturals

CONSTANT Threads

VARIABLES
    entered,   \* rounds each thread has entered
    left,      \* rounds each thread has left
    served     \* <<round, thread>>: the thread was told it is the serial one

barrierVars == <<entered, left, served>>

BarrierInit ==
    /\ entered = [t \in Threads |-> 0]
    /\ left = [t \in Threads |-> 0]
    /\ served = {}

Enter(t) ==
    /\ entered[t] = left[t]
    /\ entered' = [entered EXCEPT ![t] = @ + 1]
    /\ UNCHANGED <<left, served>>

Round(t) == left[t] + 1

HasServer(r) == \E u \in Threads : <<r, u>> \in served

\* The last thread to leave is the serial one if none was before.
MayServe(t, serial) ==
    IF serial
    THEN ~HasServer(Round(t))
    ELSE HasServer(Round(t)) \/ \E u \in Threads \ {t} : left[u] < Round(t)

\* Everybody has entered the round that t is in.
MayLeave(t) == left[t] < entered[t] /\ \A u \in Threads : left[t] < entered[u]

Leave(t, serial) ==
    /\ MayLeave(t)
    /\ MayServe(t, serial)
    /\ left' = [left EXCEPT ![t] = @ + 1]
    /\ served' = IF serial THEN served \cup {<<Round(t), t>>} ELSE served
    /\ UNCHANGED entered

BarrierNext ==
    \E t \in Threads : Enter(t) \/ \E serial \in BOOLEAN : Leave(t, serial)

BarrierSpec == BarrierInit /\ [][BarrierNext]_barrierVars

\* Whoever may leave does.
LeaveFairness ==
    \A t \in Threads : WF_barrierVars(\E serial \in BOOLEAN : Leave(t, serial))
=============================================================================
