--------------------------- MODULE SuspendControl ---------------------------
(***************************************************************************)
(* The suspend package of ThreadSuspendControl.h: thd_suspend stops a      *)
(* thread with SIGUSR1 and thd_continue resumes it with SIGUSR2.  Several  *)
(* threads may call the package; they are serialised by the mutex `mut'.   *)
(*                                                                         *)
(* The array of suspended threads is read and written under mut only, so   *)
(* each scan is one step, and all that matters of it is which threads it   *)
(* lists, how many slots it has and how many of them hold junk.            *)
(***************************************************************************)
EXTENDS Naturals, FiniteSets

CONSTANTS
    Callers,      \* threads that call thd_suspend and thd_continue
    Targets,      \* threads they are called on
    None,         \* nobody
    InitBottom,   \* slots allocated by suspend_init_routine (10 in the code)
    MaxBottom,    \* bound on the growth of the array
    TargetsExit   \* TRUE: a target may end at any moment

ASSUME SlotAssumption ==
    InitBottom \in Nat \ {0} /\ MaxBottom \in Nat /\ InitBottom <= MaxBottom
ASSUME TargetsAssumption == IsFiniteSet(Targets)
ASSUME NoneAssumption == None \notin Callers \cup Targets
ASSUME ExitAssumption == TargetsExit \in BOOLEAN

VARIABLES
    inited,      \* suspend_init_routine has run
    mut,         \* the owner of the mutex
    sentinel,
    registered,  \* the threads listed in array
    junk,        \* slots of array that hold neither 0 nor a thread
    bottom,      \* number of slots
    cpc, arg,    \* each caller: where it is, and the thread it is called on
    slot,        \* the slot its scan ended on: within the array or past its end
    tstate,      \* each target: what it executes
    pending      \* each target: the signals sent and not yet delivered

packageVars == <<inited, registered, junk, bottom>>
callerVars  == <<cpc, arg, slot>>
targetVars  == <<tstate, pending>>
vars == <<mut, sentinel, packageVars, callerVars, targetVars>>

Suspend == "SIGUSR1"
Resume  == "SIGUSR2"

CallerStates == {"idle", "suspend", "kill", "spin", "continue", "resume"}

\* run: its own code; handler: suspend_signal_handler, before sentinel = 1;
\* window: between sentinel = 1 and sigsuspend; stopped: in sigsuspend;
\* leaving: sigsuspend has returned; exited.
TargetStates == {"run", "handler", "window", "stopped", "leaving", "exited"}

Init ==
    /\ inited = FALSE /\ mut = None /\ sentinel = 0
    /\ registered = {} /\ junk = 0 /\ bottom = 0
    /\ cpc = [c \in Callers |-> "idle"]
    /\ arg = [c \in Callers |-> None]
    /\ slot = [c \in Callers |-> "inside"]
    /\ tstate = [t \in Targets |-> "run"]
    /\ pending = [t \in Targets |-> {}]

Return(c) == cpc' = [cpc EXCEPT ![c] = "idle"] /\ arg' = [arg EXCEPT ![c] = None]

-----------------------------------------------------------------------------
(* thd_suspend *)

\* The call, with pthread_once(&once, suspend_init_routine).
CallSuspend(c, t) ==
    /\ cpc[c] = "idle"
    /\ cpc' = [cpc EXCEPT ![c] = "suspend"]
    /\ arg' = [arg EXCEPT ![c] = t]
    /\ inited' = TRUE
    /\ bottom' = IF inited THEN bottom ELSE InitBottom
    /\ UNCHANGED <<mut, sentinel, registered, junk, slot, targetVars>>

\* Lock, and return at once if the thread is listed already.
SuspendListed(c) ==
    /\ cpc[c] = "suspend" /\ mut = None
    /\ arg[c] \in registered
    /\ Return(c)
    /\ UNCHANGED <<mut, sentinel, packageVars, slot, targetVars>>

\* Lock and look for a free slot.  The scan has no bound: with every slot in
\* use it reads past the end of the allocation, where it may find a zero at
\* once (then the array grows by one slot) or other data (then it stops further
\* on, outside the array).  Then sentinel = 0.
Listed(c) == arg[c] \in registered

SentinelCleared_Not == sentinel
SentinelCleared == 0

Grown == bottom + 1

SuspendNew(c) ==
    /\ cpc[c] = "suspend" /\ mut = None
    /\ ~Listed(c)
    /\ mut' = c
    /\ sentinel' = SentinelCleared
    /\ cpc' = [cpc EXCEPT ![c] = "kill"]
    /\ IF Cardinality(registered) + junk < bottom
       THEN /\ slot' = [slot EXCEPT ![c] = "inside"]
            /\ UNCHANGED bottom
       ELSE \/ /\ bottom < MaxBottom
               /\ bottom' = Grown
               /\ slot' = [slot EXCEPT ![c] = "new"]
            \/ /\ slot' = [slot EXCEPT ![c] = "outside"]
               /\ UNCHANGED bottom
    /\ UNCHANGED <<inited, registered, junk, arg, targetVars>>

\* pthread_kill(SIGUSR1) to a live thread.
SendSuspend(c) ==
    /\ cpc[c] = "kill" /\ tstate[arg[c]] # "exited"
    /\ cpc' = [cpc EXCEPT ![c] = "spin"]
    /\ pending' = [pending EXCEPT ![arg[c]] = @ \cup {Suspend}]
    /\ UNCHANGED <<mut, sentinel, packageVars, arg, slot, tstate>>

\* pthread_kill to a thread that has ended: an error, on which thd_suspend
\* unlocks and returns (leaving a new slot as realloc gave it), or success with
\* no effect, which glibc returns since 2.34.
SendSuspendExited(c) ==
    /\ cpc[c] = "kill" /\ tstate[arg[c]] = "exited"
    /\ \/ /\ Return(c) /\ mut' = None
          /\ junk' \in IF slot[c] = "new" THEN {junk, junk + 1} ELSE {junk}
       \/ /\ cpc' = [cpc EXCEPT ![c] = "spin"]
          /\ UNCHANGED <<arg, mut, junk>>
    /\ UNCHANGED <<sentinel, inited, registered, bottom, slot, targetVars>>

\* while (sentinel == 0) sched_yield(), then array[i] = target and unlock.
Sentinel_Ignored == TRUE
SentinelSet == sentinel = 1

Listing_Cleared(c) == registered \cup {None}
Listing(c) == registered \cup {arg[c]}

EndSpin(c) ==
    /\ cpc[c] = "spin" /\ SentinelSet
    /\ registered' = IF slot[c] = "outside" THEN registered ELSE Listing(c)
    /\ mut' = None
    /\ Return(c)
    /\ UNCHANGED <<sentinel, inited, junk, bottom, slot, targetVars>>

-----------------------------------------------------------------------------
(* thd_continue *)

CallContinue(c, t) ==
    /\ cpc[c] = "idle"
    /\ cpc' = [cpc EXCEPT ![c] = "continue"]
    /\ arg' = [arg EXCEPT ![c] = t]
    /\ UNCHANGED <<mut, sentinel, packageVars, slot, targetVars>>

\* Lock, and return with success if the package was never used or the thread is
\* not listed.
ContinueUnlisted(c) ==
    /\ cpc[c] = "continue" /\ mut = None
    /\ ~inited \/ ~Listed(c)
    /\ Return(c)
    /\ UNCHANGED <<mut, sentinel, packageVars, slot, targetVars>>

ContinueListed(c) ==
    /\ cpc[c] = "continue" /\ mut = None
    /\ inited /\ Listed(c)
    /\ mut' = c
    /\ cpc' = [cpc EXCEPT ![c] = "resume"]
    /\ UNCHANGED <<sentinel, packageVars, arg, slot, targetVars>>

\* pthread_kill(SIGUSR2), array[i] = 0 and unlock.  A listed thread is alive
\* (RegisteredIsStopped), so the error return of pthread_kill is never taken.
Delisted_Kept(t) == registered
Delisted(t) == registered \ {t}

SendResume(c) ==
    /\ cpc[c] = "resume"
    /\ pending' = [pending EXCEPT ![arg[c]] = @ \cup {Resume}]
    /\ registered' = Delisted(arg[c])
    /\ mut' = None
    /\ Return(c)
    /\ UNCHANGED <<sentinel, inited, junk, bottom, slot, tstate>>

-----------------------------------------------------------------------------
(* The targets: signal delivery and the two handlers *)

\* SIGUSR1 is delivered; it stays blocked until its handler returns.
TakeSuspend(t) ==
    /\ tstate[t] = "run" /\ Suspend \in pending[t]
    /\ tstate' = [tstate EXCEPT ![t] = "handler"]
    /\ pending' = [pending EXCEPT ![t] = @ \ {Suspend}]
    /\ UNCHANGED <<mut, sentinel, packageVars, callerVars>>

SentinelRaised_Never == sentinel
SentinelRaised == 1

SetSentinel(t) ==
    /\ tstate[t] = "handler"
    /\ tstate' = [tstate EXCEPT ![t] = "window"]
    /\ sentinel' = SentinelRaised
    /\ UNCHANGED <<mut, packageVars, callerVars, pending>>

SigSuspend(t) ==
    /\ tstate[t] = "window"
    /\ tstate' = [tstate EXCEPT ![t] = "stopped"]
    /\ UNCHANGED <<mut, sentinel, packageVars, callerVars, pending>>

\* SIGUSR2 interrupts sigsuspend.
Wake(t) ==
    /\ tstate[t] = "stopped" /\ Resume \in pending[t]
    /\ tstate' = [tstate EXCEPT ![t] = "leaving"]
    /\ pending' = [pending EXCEPT ![t] = @ \ {Resume}]
    /\ UNCHANGED <<mut, sentinel, packageVars, callerVars>>

\* SIGUSR2 is not in the sa_mask of SIGUSR1: anywhere else it is delivered at
\* once, and resume_signal_handler does nothing.
TakeResume(t) ==
    /\ tstate[t] \notin {"stopped", "exited"} /\ Resume \in pending[t]
    /\ pending' = [pending EXCEPT ![t] = @ \ {Resume}]
    /\ UNCHANGED <<mut, sentinel, packageVars, callerVars, tstate>>

\* suspend_signal_handler returns.
LeaveHandler(t) ==
    /\ tstate[t] = "leaving"
    /\ tstate' = [tstate EXCEPT ![t] = "run"]
    /\ UNCHANGED <<mut, sentinel, packageVars, callerVars, pending>>

ExitTarget(t) ==
    /\ TargetsExit /\ tstate[t] = "run"
    /\ tstate' = [tstate EXCEPT ![t] = "exited"]
    /\ pending' = [pending EXCEPT ![t] = {}]
    /\ UNCHANGED <<mut, sentinel, packageVars, callerVars>>

-----------------------------------------------------------------------------
Caller(c) ==
    \/ \E t \in Targets : CallSuspend(c, t) \/ CallContinue(c, t)
    \/ SuspendListed(c) \/ SuspendNew(c) \/ SendSuspend(c) \/ SendSuspendExited(c)
    \/ EndSpin(c) \/ ContinueUnlisted(c) \/ ContinueListed(c) \/ SendResume(c)

Handler(t) == \/ TakeSuspend(t) \/ SetSentinel(t) \/ SigSuspend(t) \/ Wake(t)
              \/ TakeResume(t) \/ LeaveHandler(t)

Next == (\E c \in Callers : Caller(c)) \/ (\E t \in Targets : Handler(t) \/ ExitTarget(t))

\* A caller inside the package runs on; a pending signal is delivered and a
\* handler that can go on does.  Nothing obliges anyone to call or to exit.
Fairness ==
    /\ \A c \in Callers : WF_vars(SendSuspend(c) \/ EndSpin(c) \/ SendResume(c))
    /\ \A t \in Targets : WF_vars(Handler(t))

Spec == Init /\ [][Next]_vars
FairSpec == Spec /\ Fairness

-----------------------------------------------------------------------------
(* Properties *)

Stopping == {"window", "stopped"}

\* The types of the variables.
TypeOK ==
    /\ inited \in BOOLEAN /\ mut \in Callers \cup {None} /\ sentinel \in 0 .. 1
    /\ registered \in SUBSET Targets
    /\ junk \in Nat /\ bottom \in 0 .. MaxBottom
    /\ cpc \in [Callers -> CallerStates]
    /\ arg \in [Callers -> Targets \cup {None}]
    /\ slot \in [Callers -> {"inside", "new", "outside"}]
    /\ tstate \in [Targets -> TargetStates]
    /\ pending \in [Targets -> SUBSET {Suspend, Resume}]

\* The count of slots covers the threads listed and the slots spoilt by a failed
\* call (ThreadSuspendControl.h:173-190): whatever scans find past the end, no
\* listed thread is ever out of reach of a scan of the array.
SlotsSuffice == Cardinality(registered) + junk <= bottom

\* While a thread is listed in the array it executes none of its own code: no
\* stale SIGUSR2 of an earlier resume can wake it (ThreadSuspendControl.h:206-213).
RegisteredIsStopped == \A t \in registered : tstate[t] \in Stopping

\* The single sentinel serves all targets: whoever finds it set may conclude
\* that its own target, and not another, has entered the handler
\* (ThreadSuspendControl.h:194-210).
SentinelIsForMe ==
    \A c \in Callers : cpc[c] = "spin" /\ sentinel = 1 => tstate[arg[c]] \in Stopping

\* A resume signal is only ever on its way to a thread inside the suspend
\* handler; in particular none is left over when the thread is suspended again.
ResumeOnlyToSuspended ==
    \A t \in Targets : Resume \in pending[t] => tstate[t] \in Stopping

\* thd_suspend returns, whatever other callers and targets do, if its target was
\* running at the time of the signal, unless the target exits before it has
\* handled the signal (ThreadSuspendControl.h:209-210).
SuspendReturns ==
    \A c \in Callers, t \in Targets :
        (cpc[c] = "spin" /\ arg[c] = t /\ tstate[t] \in {"run", "handler"})
            ~> (cpc[c] = "idle" \/ tstate[t] = "exited")

\* "a single thd_continue call will cause it to resume execution"
\* (ThreadSuspendControl.h:137): a thread stopped with no resume on its way is
\* known to the package (listed, or about to be), so that a thd_continue can still
\* resume it.  It fails: SIGUSR2 can be delivered between sentinel = 1 and
\* sigsuspend, where it has no effect.
BeingSuspended(t) == \E c \in Callers : arg[c] = t /\ cpc[c] = "spin"

StoppedIsKnown ==
    \A t \in Targets : tstate[t] = "stopped" /\ Resume \notin pending[t]
                           => t \in registered \/ BeingSuspended(t)
=============================================================================
