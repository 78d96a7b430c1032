--------------------------- MODULE ManagedProcess ---------------------------
(***************************************************************************)
(* What internal::run_process (transfer_process.cpp) promises its caller:  *)
(* one local ssh or scp child at a time, run to its end, watched for a     *)
(* cancellation flag and for a timeout, and one result.                    *)
(*                                                                         *)
(* ProcessRunner is the loop itself, with the kernel's process table, and  *)
(* is shown to implement this module; Transport runs its commands through  *)
(* the actions of this module.                                             *)
(***************************************************************************)
EXTENDS Naturals

VARIABLES
    phase,        \* of the current call: "idle", "starting", "running" or "returned"
    cancellable,  \* ProcessSpec::cancellable of that call
    alive,        \* the child has not exited
    code,         \* ProcessResult::exit_code, once the child has exited
    cancelled,    \* ProcessResult::cancelled
    terminating,  \* termination_started has a value
    cancelFlag    \* the caller's cancellation_requested_

procVars == <<phase, cancellable, alive, code, cancelled, terminating>>

Success     == 0    \* the remote command ran and succeeded
Refused     == 1    \* it ran and failed
Exists      == 17   \* the commit command found the destination taken
NeverRan    == 127  \* ProcessResult's default: no child ran
Interrupted == 255  \* ssh itself failed, or a signal ended it (128 + n)

ExitCodes == {Success, Refused, Exists, NeverRan, Interrupted}

ProcTypeOK ==
    /\ phase \in {"idle", "starting", "running", "returned"}
    /\ code \in ExitCodes
    /\ cancellable \in BOOLEAN
    /\ alive \in BOOLEAN
    /\ cancelled \in BOOLEAN
    /\ terminating \in BOOLEAN
    /\ cancelFlag \in BOOLEAN

ProcInit ==
    /\ phase = "idle"
    /\ code = NeverRan
    /\ cancellable = FALSE /\ alive = FALSE
    /\ cancelled = FALSE /\ terminating = FALSE

-----------------------------------------------------------------------------

\* The flag is read once before anything is created: a call that is already
\* cancelled starts no child.
RefuseCancelled(mayCancel) ==
    /\ phase = "idle"
    /\ mayCancel /\ cancelFlag
    /\ phase' = "returned"
    /\ cancellable' = mayCancel
    /\ cancelled' = TRUE
    /\ UNCHANGED <<alive, code, terminating>>

\* Otherwise the call goes on to make a terminal or a pipe, and a child.
Begin(mayCancel) ==
    /\ phase = "idle"
    /\ ~(mayCancel /\ cancelFlag)
    /\ phase' = "starting"
    /\ cancellable' = mayCancel
    /\ UNCHANGED <<alive, code, cancelled, terminating>>

\* The terminal, the pipe or fork() failed: the default result.
FailToStart ==
    /\ phase = "starting"
    /\ phase' = "returned"
    /\ UNCHANGED <<cancellable, alive, code, cancelled, terminating>>

StartChild ==
    /\ phase = "starting"
    /\ phase' = "running"
    /\ alive' = TRUE
    /\ UNCHANGED <<cancellable, code, cancelled, terminating>>

\* The child ends by itself.
ChildExits(c) ==
    /\ alive
    /\ alive' = FALSE
    /\ code' = c
    /\ UNCHANGED <<phase, cancellable, cancelled, terminating>>

\* A signal ends the child: from the loop (SIGTERM, then SIGKILL until it is
\* gone), or from cancel(), which raises the flag and signals the child itself.
ChildKilled ==
    /\ terminating \/ (cancellable /\ cancelFlag)
    /\ ChildExits(Interrupted)

\* The loop reads the flag after waitpid found the child running; the child
\* may have exited since.
ObserveCancel ==
    /\ phase = "running" /\ cancellable /\ cancelFlag /\ ~terminating
    /\ cancelled' = TRUE
    /\ terminating' = TRUE
    /\ UNCHANGED <<phase, cancellable, alive, code>>

\* The timeout ran out, or the password could not be written to the terminal.
GiveUp ==
    /\ phase = "running" /\ ~terminating
    /\ terminating' = TRUE
    /\ UNCHANGED <<phase, cancellable, alive, code, cancelled>>

\* waitpid reaps the child: the loop drains the output and the call returns.
Reap ==
    /\ phase = "running" /\ ~alive
    /\ phase' = "returned"
    /\ UNCHANGED <<cancellable, alive, code, cancelled, terminating>>

\* The caller takes the result, and the call's variables are gone.
Collect ==
    /\ phase = "returned"
    /\ phase' = "idle"
    /\ code' = NeverRan
    /\ cancellable' = FALSE /\ cancelled' = FALSE /\ terminating' = FALSE
    /\ UNCHANGED alive

-----------------------------------------------------------------------------
(***************************************************************************)
(* The specification of run_process by itself, its caller raising and      *)
(* clearing the flag; the flag is only cleared between two calls.          *)
(***************************************************************************)

RaiseFlag == cancelFlag' = TRUE /\ UNCHANGED procVars

ClearFlag == phase = "idle" /\ cancelFlag' = FALSE /\ UNCHANGED procVars

ProcNext ==
    \/ /\ \/ \E mayCancel \in BOOLEAN : RefuseCancelled(mayCancel) \/ Begin(mayCancel)
          \/ FailToStart \/ StartChild
          \/ \E c \in ExitCodes : ChildExits(c)
          \/ ChildKilled \/ ObserveCancel \/ GiveUp \/ Reap \/ Collect
       /\ UNCHANGED cancelFlag
    \/ RaiseFlag
    \/ ClearFlag

ProcSpec ==
    /\ ProcInit /\ cancelFlag = FALSE
    /\ [][ProcNext]_<<procVars, cancelFlag>>
=============================================================================
