---------------------------- MODULE ProcessRunner ----------------------------
(***************************************************************************)
(* internal::run_process (transfer_process.cpp), statement by statement    *)
(* where other threads can see it: the polling loop, the pid it publishes  *)
(* in active_process_, cancel() on the UI thread, and the kernel, which    *)
(* keeps a zombie's pid and may give a reaped one to an unrelated process. *)
(*                                                                         *)
(* Bounds: MaxCalls calls in a behaviour.  The child of call c has pid c.  *)
(***************************************************************************)
EXTENDS Naturals

CONSTANTS
    MaxCalls,
    RecyclesPids,    \* a reaped pid can become that of another process group
    SigchldModes     \* whether the application may be started with SIGCHLD ignored

ASSUME MaxCallsAssumption == MaxCalls \in Nat \ {0}
ASSUME KernelAssumption == RecyclesPids \in BOOLEAN /\ SigchldModes \subseteq BOOLEAN

Calls  == 1 .. MaxCalls
NoPid  == 0

Success == 0
NeverRan == 127
Interrupted == 255
Statuses == {Success, NeverRan, Interrupted}

\* The loop and what surrounds it.  "flag", "clock" and "escalate" are the
\* three ifs at the end of a turn.
Turn == {"read", "withdraw", "wait", "republish", "flag", "clock", "escalate"}
Places == {"idle", "setup", "publish", "drain", "returned"} \cup Turn

VARIABLES
    place,           \* where run_process is
    call,            \* the current or latest call, and its child's pid
    sigchldIgnored,  \* how the application was started
    cancellable, hasTimeout,      \* of its ProcessSpec
    activeProcess,   \* active_process_
    cancelFlag,      \* cancellation_requested_
    terminating,     \* termination_started has a value
    cancelled, exitCode,          \* of its ProcessResult
    passwordSent,
    canceller,       \* the UI thread inside cancel(): "idle", "load" or "kill"
    target,          \* the pid cancel() has loaded
    process,         \* what each pid is
    status,          \* with what the child exited
    signal,          \* the strongest signal the child has got
    output,          \* what the child has written and nobody has read
    timeUp, graceUp, \* the timeout, and the grace after SIGTERM, are over
    hit              \* history: who has signalled another process

callVars   == <<call, cancellable, hasTimeout, sigchldIgnored>>
resultVars == <<terminating, cancelled, exitCode, passwordSent>>
cancelVars == <<cancelFlag, canceller, target>>
childVars  == <<status, output>>
clockVars  == <<timeUp, graceUp>>
vars == <<place, callVars, activeProcess, resultVars, cancelVars, process, signal,
          childVars, clockVars, hit>>

Alive == call # 0 /\ process[call] \in {"forked", "running"}

Init ==
    /\ place = "idle" /\ call = 0
    /\ sigchldIgnored \in SigchldModes
    /\ cancellable = FALSE /\ hasTimeout = FALSE
    /\ activeProcess = NoPid
    /\ terminating = FALSE /\ cancelled = FALSE /\ exitCode = NeverRan
    /\ passwordSent = FALSE
    /\ cancelFlag = FALSE /\ canceller = "idle" /\ target = NoPid
    /\ process = [p \in Calls |-> "none"]
    /\ status = NeverRan /\ signal = "none" /\ output = "none"
    /\ timeUp = FALSE /\ graceUp = FALSE
    /\ hit = {}

\* kill(-p, s), by the loop or by cancel().  The group p is there once the child
\* has called setsid(); before that, or after it was reaped, nobody is signalled,
\* unless the number has become another group's.
Kill(p, s, who) ==
    /\ signal' = IF p = call /\ Alive /\ process[p] = "running" /\ signal # "KILL"
                   THEN s ELSE signal
    /\ hit' = IF p # NoPid /\ process[p] = "stranger" THEN hit \cup {who} ELSE hit

NoKill == UNCHANGED <<signal, hit>>

-----------------------------------------------------------------------------
(* run_process up to the loop.                                              *)

\* Mutant: the flag is left to the loop.
EnterUnasked ==
    /\ place = "idle" /\ call < MaxCalls
    /\ call' = call + 1
    /\ cancellable' \in BOOLEAN /\ hasTimeout' \in BOOLEAN
    /\ place' = "setup"
    /\ UNCHANGED <<sigchldIgnored, activeProcess, resultVars, cancelVars,
                   process, signal, childVars, clockVars, hit>>

\* A call, with its specification; a flag that is already up ends it.  The
\* cleanup's calls are not cancellable and have no cancellation pointer.
Enter ==
    /\ place = "idle" /\ call < MaxCalls
    /\ call' = call + 1
    /\ cancellable' \in BOOLEAN /\ hasTimeout' \in BOOLEAN
    /\ place' = IF cancellable' /\ cancelFlag THEN "returned" ELSE "setup"
    /\ cancelled' = (cancellable' /\ cancelFlag)
    /\ UNCHANGED <<sigchldIgnored, activeProcess, terminating, exitCode, passwordSent, cancelVars,
                   process, signal, childVars, clockVars, hit>>

\* openpty, the termios calls, or fork() fail.
SetupFails ==
    /\ place = "setup"
    /\ place' = "returned"
    /\ UNCHANGED <<callVars, activeProcess, resultVars, cancelVars, process, signal,
                   childVars, clockVars, hit>>

Fork ==
    /\ place = "setup"
    /\ place' = "publish"
    /\ process' = [process EXCEPT ![call] = "forked"]
    /\ UNCHANGED <<callVars, activeProcess, resultVars, cancelVars, signal,
                   childVars, clockVars, hit>>

Publish ==
    /\ place = "publish"
    /\ place' = "read"
    /\ activeProcess' = IF cancellable THEN call ELSE activeProcess
    /\ UNCHANGED <<callVars, resultVars, cancelVars, process, signal, childVars,
                   clockVars, hit>>

-----------------------------------------------------------------------------
(* One turn of the loop.                                                    *)

\* handle_output: the first password prompt is answered; when the terminal does
\* not take the answer, as it cannot once the child is gone, the child is
\* terminated.
HandleOutput ==
    /\ output' = "none"
    /\ IF output = "prompt" /\ ~passwordSent
         THEN /\ passwordSent' = TRUE
              /\ \/ Alive /\ NoKill /\ UNCHANGED terminating
                 \/ IF terminating THEN NoKill /\ UNCHANGED terminating
                    ELSE terminating' = TRUE /\ Kill(call, "TERM", "loop")
         ELSE NoKill /\ UNCHANGED <<passwordSent, terminating>>

Read ==
    /\ place = "read"
    /\ place' = "withdraw"
    /\ HandleOutput
    /\ UNCHANGED <<callVars, activeProcess, cancelled, exitCode, cancelVars, process,
                   status, clockVars>>

\* Mutant: the pid stays published across waitpid.
WithdrawNothing ==
    /\ place = "withdraw"
    /\ place' = "wait"
    /\ UNCHANGED <<callVars, activeProcess, resultVars, cancelVars, process, signal,
                   childVars, clockVars, hit>>

Withdraw ==
    /\ place = "withdraw"
    /\ place' = "wait"
    /\ activeProcess' = IF cancellable /\ activeProcess = call THEN NoPid ELSE activeProcess
    /\ UNCHANGED <<callVars, resultVars, cancelVars, process, signal, childVars,
                   clockVars, hit>>

\* Mutant: the wait status is returned as it comes.
WaitRaw ==
    /\ place = "wait"
    /\ IF Alive THEN place' = "republish" /\ UNCHANGED <<process, exitCode>>
       ELSE /\ place' = "drain"
            /\ process' = [process EXCEPT ![call] = "gone"]
            /\ exitCode' = 256 * status
    /\ UNCHANGED <<callVars, activeProcess, terminating, cancelled, passwordSent,
                   cancelVars, signal, childVars, clockVars, hit>>

\* Mutant: the wait status is not looked at.
WaitUnchecked ==
    /\ place = "wait"
    /\ IF Alive THEN place' = "republish" /\ UNCHANGED <<process, exitCode>>
       ELSE /\ place' = "drain"
            /\ process' = [process EXCEPT ![call] = "gone"]
            /\ exitCode' = Success
    /\ UNCHANGED <<callVars, activeProcess, terminating, cancelled, passwordSent,
                   cancelVars, signal, childVars, clockVars, hit>>

\* waitpid(WNOHANG): the zombie is reaped; ECHILD, when the kernel has reaped the
\* child by itself, counts as done, with the wait status never written.
Wait ==
    /\ place = "wait"
    /\ CASE Alive -> /\ place' = "republish"
                     /\ UNCHANGED <<process, exitCode>>
         [] process[call] = "zombie" ->
                     /\ place' = "drain"
                     /\ process' = [process EXCEPT ![call] = "gone"]
                     /\ exitCode' = status
         [] OTHER -> /\ place' = "drain"
                     /\ exitCode' = Success
                     /\ UNCHANGED process
    /\ UNCHANGED <<callVars, activeProcess, terminating, cancelled, passwordSent,
                   cancelVars, signal, childVars, clockVars, hit>>

Republish ==
    /\ place = "republish"
    /\ place' = "flag"
    /\ activeProcess' = IF cancellable THEN call ELSE activeProcess
    /\ UNCHANGED <<callVars, resultVars, cancelVars, process, signal, childVars,
                   clockVars, hit>>

CheckFlag ==
    /\ place = "flag"
    /\ place' = "clock"
    /\ IF ~terminating /\ cancellable /\ cancelFlag
         THEN cancelled' = TRUE /\ terminating' = TRUE /\ Kill(call, "TERM", "loop")
         ELSE UNCHANGED <<cancelled, terminating>> /\ NoKill
    /\ UNCHANGED <<callVars, activeProcess, exitCode, passwordSent, cancelVars, process,
                   childVars, clockVars>>

\* Mutant: the timeout is for cancellable calls only.
CheckClockOfCancellable ==
    /\ place = "clock"
    /\ place' = "escalate"
    /\ IF ~terminating /\ timeUp /\ cancellable
         THEN terminating' = TRUE /\ Kill(call, "TERM", "loop")
         ELSE UNCHANGED terminating /\ NoKill
    /\ UNCHANGED <<callVars, activeProcess, cancelled, exitCode, passwordSent, cancelVars,
                   process, childVars, clockVars>>

CheckClock ==
    /\ place = "clock"
    /\ place' = "escalate"
    /\ IF ~terminating /\ timeUp
         THEN terminating' = TRUE /\ Kill(call, "TERM", "loop")
         ELSE UNCHANGED terminating /\ NoKill
    /\ UNCHANGED <<callVars, activeProcess, cancelled, exitCode, passwordSent, cancelVars,
                   process, childVars, clockVars>>

\* Mutant: a second SIGTERM in the place of SIGKILL.
EscalateMildly ==
    /\ place = "escalate"
    /\ place' = "read"
    /\ IF terminating /\ graceUp THEN Kill(call, "TERM", "loop") ELSE NoKill
    /\ UNCHANGED <<callVars, activeProcess, resultVars, cancelVars, process, childVars,
                   clockVars>>

\* SIGKILL, in every turn once the grace is over.
Escalate ==
    /\ place = "escalate"
    /\ place' = "read"
    /\ IF terminating /\ graceUp THEN Kill(call, "KILL", "loop") ELSE NoKill
    /\ UNCHANGED <<callVars, activeProcess, resultVars, cancelVars, process, childVars,
                   clockVars>>

\* After the loop: the rest of the output, then the result.
Drain ==
    /\ place = "drain"
    /\ IF output = "none"
         THEN place' = "returned" /\ NoKill /\ UNCHANGED <<output, passwordSent, terminating>>
         ELSE UNCHANGED place /\ HandleOutput
    /\ UNCHANGED <<callVars, activeProcess, cancelled, exitCode, cancelVars, process,
                   status, clockVars>>

\* The caller takes the result; the call's variables are gone.
Collect ==
    /\ place = "returned"
    /\ place' = "idle"
    /\ cancellable' = FALSE /\ hasTimeout' = FALSE
    /\ terminating' = FALSE /\ cancelled' = FALSE /\ exitCode' = NeverRan
    /\ passwordSent' = FALSE
    /\ status' = NeverRan /\ signal' = "none" /\ output' = "none"
    /\ timeUp' = FALSE /\ graceUp' = FALSE
    /\ UNCHANGED <<call, sigchldIgnored, activeProcess, cancelVars, process, hit>>

-----------------------------------------------------------------------------
(* The UI thread in cancel(), and the next operation's first store.         *)

RaiseFlag ==
    /\ canceller = "idle"
    /\ canceller' = "load"
    /\ cancelFlag' = TRUE
    /\ UNCHANGED <<place, callVars, activeProcess, resultVars, target, process, signal,
                   childVars, clockVars, hit>>

LoadPid ==
    /\ canceller = "load"
    /\ canceller' = "kill"
    /\ target' = activeProcess
    /\ UNCHANGED <<place, callVars, activeProcess, resultVars, cancelFlag, process, signal,
                   childVars, clockVars, hit>>

KillPid ==
    /\ canceller = "kill"
    /\ canceller' = "idle"
    /\ target' = NoPid
    /\ IF target = NoPid THEN NoKill ELSE Kill(target, "TERM", "cancel")
    /\ UNCHANGED <<place, callVars, activeProcess, resultVars, cancelFlag, process,
                   childVars, clockVars>>

ClearFlag ==
    /\ place = "idle" /\ canceller = "idle" /\ cancelFlag
    /\ cancelFlag' = FALSE
    /\ UNCHANGED <<place, callVars, activeProcess, resultVars, canceller, target, process,
                   signal, childVars, clockVars, hit>>

-----------------------------------------------------------------------------
(* The child and the kernel.                                                *)

ChildStep == UNCHANGED <<place, callVars, activeProcess, resultVars, cancelVars,
                         clockVars, hit>>

\* setsid(), the descriptors and execv(): from here on the group exists.
ChildExecs ==
    /\ Alive /\ process[call] = "forked"
    /\ process' = [process EXCEPT ![call] = "running"]
    /\ ChildStep /\ UNCHANGED <<signal, childVars>>

ChildPrompts ==
    /\ Alive /\ process[call] = "running" /\ output = "none"
    /\ output' = "prompt"
    /\ ChildStep /\ UNCHANGED <<process, signal, status>>

\* With SIGCHLD ignored the kernel keeps no zombie and no status.
Ends(s) ==
    /\ process' = [process EXCEPT ![call] = IF sigchldIgnored THEN "gone" ELSE "zombie"]
    /\ status' = s
    /\ ChildStep /\ UNCHANGED <<signal, output>>

ChildExits == Alive /\ \E s \in Statuses : Ends(s)

ChildDiesOfSignal == Alive /\ signal # "none" /\ Ends(Interrupted)

ChildDiesOfKill == signal = "KILL" /\ ChildDiesOfSignal

\* The number of a reaped child becomes that of another process group.
Recycle ==
    /\ RecyclesPids
    /\ \E p \in Calls :
          /\ process[p] = "gone"
          /\ process' = [process EXCEPT ![p] = "stranger"]
    /\ ChildStep /\ UNCHANGED <<signal, childVars>>

TimeRunsOut ==
    /\ place \in Turn
    /\ \/ hasTimeout /\ ~timeUp /\ timeUp' = TRUE /\ UNCHANGED graceUp
       \/ terminating /\ ~graceUp /\ graceUp' = TRUE /\ UNCHANGED timeUp
    /\ UNCHANGED <<place, callVars, activeProcess, resultVars, cancelVars, process, signal,
                   childVars, hit>>

-----------------------------------------------------------------------------

Loop == Read \/ Withdraw \/ Wait \/ Republish \/ CheckFlag \/ CheckClock \/ Escalate

Run == SetupFails \/ Fork \/ Publish \/ Loop \/ Drain

Next ==
    \/ Enter \/ Run \/ Collect
    \/ RaiseFlag \/ LoadPid \/ KillPid \/ ClearFlag
    \/ ChildExecs \/ ChildPrompts \/ ChildExits \/ ChildDiesOfSignal
    \/ Recycle \/ TimeRunsOut

Spec == Init /\ [][Next]_vars

\* The worker thread and the clock go on, the child gets as far as execv, and
\* nothing survives SIGKILL.  That the child minds SIGTERM is not assumed.
Fairness ==
    /\ WF_vars(Run) /\ WF_vars(TimeRunsOut)
    /\ WF_vars(ChildExecs) /\ WF_vars(ChildDiesOfKill)

FairSpec == Spec /\ Fairness

-----------------------------------------------------------------------------
(* Properties.                                                              *)

\* The variables of the loop and of the kernel's table have their types.
TypeOK ==
    /\ place \in Places
    /\ call \in 0 .. MaxCalls
    /\ cancellable \in BOOLEAN /\ hasTimeout \in BOOLEAN
    /\ activeProcess \in 0 .. MaxCalls
    /\ cancelFlag \in BOOLEAN /\ terminating \in BOOLEAN /\ cancelled \in BOOLEAN
    /\ exitCode \in Statuses /\ status \in Statuses
    /\ passwordSent \in BOOLEAN
    /\ canceller \in {"idle", "load", "kill"}
    /\ target \in 0 .. MaxCalls
    /\ process \in [Calls -> {"none", "forked", "running", "zombie", "gone", "stranger"}]
    /\ signal \in {"none", "TERM", "KILL"}
    /\ output \in {"none", "prompt"}
    /\ timeUp \in BOOLEAN /\ graceUp \in BOOLEAN
    /\ hit \in SUBSET {"loop", "cancel"}
    /\ sigchldIgnored \in SigchldModes

\* The pid in active_process_ is always that of a child nobody has reaped, so a
\* cancel() that loads it and kills at once signals the child: the loop takes the
\* pid out before every waitpid and puts it back only if the child is still there.
PublishedIsUnreaped ==
    activeProcess # NoPid => process[activeProcess] \in {"forked", "running", "zombie"}

\* A command is reported to have succeeded only if its child exited with 0.
SuccessIsReal == place = "returned" /\ exitCode = Success => status = Success

\* run_process implements ManagedProcess, whose actions Transport uses.
Managed == INSTANCE ManagedProcess WITH
    phase <- CASE place \in {"idle", "returned"} -> place
               [] place = "setup" -> "starting"
               [] OTHER -> "running",
    alive <- Alive,
    code <- IF Alive THEN NeverRan ELSE IF place \in {"drain", "returned"} THEN exitCode ELSE status
ManagedSpec == Managed!ProcSpec

\* A flag that is up while a cancellable call runs ends the call, even when the
\* SIGTERM is lost because the child's group is not there yet, or is ignored.
CancelReturns == place \in Turn /\ cancellable /\ cancelFlag ~> place = "returned"

\* So does a timeout.
TimeoutReturns == place \in Turn /\ hasTimeout ~> place = "returned"
=============================================================================
