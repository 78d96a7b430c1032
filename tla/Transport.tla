------------------------------ MODULE Transport ------------------------------
(***************************************************************************)
(* ScpTransport (transfer.cpp): one worker thread runs test_connection or  *)
(* transfer, the UI thread calls cancel(), and the receiver runs, each in  *)
(* its own time, the scp sink, the commit command and the cleanup command. *)
(*                                                                         *)
(* The local child follows the actions of ManagedProcess.  On the receiver *)
(* a file is an inode (blob) that directory entries name: the staging name *)
(* of its transfer, and the one destination path all transfers share.      *)
(*                                                                         *)
(* Bounds: MaxOps operations in a behaviour, for one source file name.     *)
(***************************************************************************)
EXTENDS ManagedProcess

CONSTANTS
    MaxOps,  \* how many operations are started
    Faults   \* what the network and the receiver may do, of AllFaults

\* "loss": ssh may fail at any time, and timeouts run out.
\* "orphan": a remote command may go on after its local ssh is gone.
\* "spawn": no terminal or no process can be had for a command.
AllFaults == {"loss", "orphan", "spawn"}

ASSUME MaxOpsAssumption == MaxOps \in Nat \ {0}
ASSUME FaultsAssumption == Faults \subseteq AllFaults

Ops == 1 .. MaxOps

Absent  == 0
Foreign == MaxOps + 1
Owners  == Ops \cup {Absent, Foreign}

Verdicts == {"none", "tested", "completed", "aborted", "failed",
             "source_changed", "destination_file_exists"}

\* The places of the worker: before it is active, then at each check and each
\* command.  At a place of Commands, phase tells how far run_process has come.
Commands == {"testing", "upload", "commit", "cleanup"}
Places == {"idle", "called", "entered", "cleared", "active", "fstat",
           "recheck", "checkcancel", "returning"} \cup Commands

VARIABLES
    pc,               \* where the worker is
    op,               \* the current or latest operation, 0 before the first
    kind,             \* what it is: "test" or "transfer"
    operationActive,  \* operation_active_
    onCleanup,        \* what transfer() returns once cleanup() is over
    outcome,          \* what each operation returned
    stop,             \* the stop token of the worker's jthread
    canceller,        \* the UI thread inside request_cancel(): "idle", "load" or "set"
    source,           \* the source file against the metadata pinned at Start
    blob,             \* what each transfer has written on the receiver
    staged,           \* the transfers whose staging name exists
    final,            \* what the destination path names
    sink, script, cleaner,  \* each transfer's remote scp, commit and cleanup commands
    asked,            \* history: the operations somebody asked to stop
    early             \* history: those whose cancel was over before the commit

workerVars  == <<pc, op, kind, operationActive, onCleanup, outcome>>
cancelVars  == <<stop, canceller, asked, early>>
remoteVars  == <<blob, staged, final, sink, script, cleaner>>
localVars   == <<procVars, cancelFlag, workerVars, cancelVars, source>>
outerVars   == <<cancelVars, source, remoteVars>>
vars        == <<localVars, remoteVars>>

Init ==
    /\ ProcInit /\ cancelFlag = FALSE
    /\ pc = "idle" /\ op = 0 /\ kind = "test"
    /\ operationActive = FALSE
    /\ onCleanup = "none"
    /\ outcome = [o \in Ops |-> "none"]
    /\ stop = FALSE /\ canceller = "idle"
    /\ source = "pinned"
    /\ blob = [o \in Ops |-> "none"]
    /\ staged = {}
    /\ final \in {Absent, Foreign}
    /\ sink = [o \in Ops |-> "none"]
    /\ script = [o \in Ops |-> "none"]
    /\ cleaner = [o \in Ops |-> "none"]
    /\ asked = {} /\ early = {}

\* The commit command of the current operation has not been launched.
BeforeCommit ==
    \/ pc \in {"called", "entered", "cleared", "active", "testing", "fstat",
               "upload", "recheck", "checkcancel"}
    \/ pc = "commit" /\ phase = "idle"

-----------------------------------------------------------------------------
(* The worker: test_connection() and transfer(), up to the first command.   *)

\* A new jthread, with a fresh stop token, once the previous one is joined.
StartOperation ==
    /\ pc = "idle" /\ canceller = "idle" /\ op < MaxOps
    /\ pc' = "called"
    /\ op' = op + 1
    /\ kind' \in {"test", "transfer"}
    /\ stop' = FALSE
    /\ UNCHANGED <<procVars, cancelFlag, operationActive, onCleanup, outcome,
                   canceller, asked, early, source, remoteVars>>

\* The operation returns before it is active: asked to stop, or refused by the
\* checks on the connection, the directory and the source.
ReturnEarly ==
    /\ pc = "called"
    /\ pc' = "idle"
    /\ outcome' = [outcome EXCEPT ![op] = IF stop THEN "aborted" ELSE "failed"]
    /\ source' = "pinned"
    /\ UNCHANGED <<procVars, cancelFlag, op, kind, operationActive, onCleanup,
                   cancelVars, remoteVars>>

\* The first stop check and the validations pass, a staging name is drawn.
Enter ==
    /\ pc = "called" /\ ~stop
    /\ pc' = "entered"
    /\ UNCHANGED <<procVars, cancelFlag, op, kind, operationActive, onCleanup,
                   outcome, outerVars>>

\* Mutant: the flag of an earlier operation is left up.
KeepCancellation ==
    /\ pc = "entered"
    /\ pc' = "cleared"
    /\ UNCHANGED <<procVars, cancelFlag, op, kind, operationActive, onCleanup,
                   outcome, outerVars>>

ClearCancellation ==
    /\ pc = "entered"
    /\ pc' = "cleared"
    /\ cancelFlag' = FALSE
    /\ UNCHANGED <<procVars, op, kind, operationActive, onCleanup, outcome,
                   outerVars>>

Activate ==
    /\ pc = "cleared"
    /\ pc' = "active"
    /\ operationActive' = TRUE
    /\ UNCHANGED <<procVars, cancelFlag, op, kind, onCleanup, outcome, outerVars>>

\* The result is made; the guards that clear the active flags run next.
Conclude(verdict) ==
    /\ pc' = "returning"
    /\ outcome' = [outcome EXCEPT ![op] = verdict]
    /\ onCleanup' = "none"
    /\ UNCHANGED <<op, kind, operationActive>>

GoOn(place) ==
    /\ pc' = place
    /\ UNCHANGED <<op, kind, operationActive, onCleanup, outcome>>

CleanUpThen(verdict) ==
    /\ pc' = "cleanup"
    /\ onCleanup' = verdict
    /\ UNCHANGED <<op, kind, operationActive, outcome>>

\* Mutant: the stop token is not read again once the operation is active.
NoSecondStopCheck ==
    /\ pc = "active"
    /\ GoOn(IF kind = "test" THEN "testing" ELSE "fstat")
    /\ UNCHANGED <<procVars, cancelFlag, outerVars>>

\* A stop requested while the operation was not yet active is seen here.
SecondStopCheck ==
    /\ pc = "active"
    /\ \/ /\ stop
          /\ cancelFlag' = TRUE
          /\ Conclude("aborted")
       \/ /\ ~stop
          /\ GoOn(IF kind = "test" THEN "testing" ELSE "fstat")
          /\ UNCHANGED cancelFlag
    /\ UNCHANGED <<procVars, outerVars>>

CheckSourceBefore ==
    /\ pc = "fstat"
    /\ IF source = "changed" THEN Conclude("source_changed") ELSE GoOn("upload")
    /\ UNCHANGED <<procVars, cancelFlag, outerVars>>

-----------------------------------------------------------------------------
(* The worker: a command, and what transfer() does with its result.         *)

\* Only the cleanup is not cancellable.
RunCommand ==
    /\ pc \in Commands
    /\ RefuseCancelled(pc # "cleanup") \/ Begin(pc # "cleanup")
    /\ UNCHANGED <<cancelFlag, workerVars, outerVars>>

SpawnChild ==
    /\ StartChild \/ ("spawn" \in Faults /\ FailToStart)
    /\ UNCHANGED <<cancelFlag, workerVars, outerVars>>

WatchFlag ==
    /\ ObserveCancel
    /\ UNCHANGED <<cancelFlag, workerVars, outerVars>>

\* Mutant: the cleanup has no timeout.
CleanupWithoutClock ==
    /\ "loss" \in Faults /\ pc \notin {"upload", "cleanup"}
    /\ GiveUp
    /\ UNCHANGED <<cancelFlag, workerVars, outerVars>>

\* Mutant: the connection test has no timeout.
TestWithoutClock ==
    /\ "loss" \in Faults /\ pc \notin {"upload", "testing"}
    /\ GiveUp
    /\ UNCHANGED <<cancelFlag, workerVars, outerVars>>

\* Every command but the upload has a timeout, of 10 or 15 seconds.
WatchClock ==
    /\ "loss" \in Faults /\ pc # "upload"
    /\ GiveUp
    /\ UNCHANGED <<cancelFlag, workerVars, outerVars>>

\* The password cannot be written to the child's terminal.
PasswordFails ==
    /\ "loss" \in Faults
    /\ GiveUp
    /\ UNCHANGED <<cancelFlag, workerVars, outerVars>>

WatchChild ==
    /\ Reap
    /\ UNCHANGED <<cancelFlag, workerVars, outerVars>>

AfterTest ==
    /\ pc = "testing"
    /\ Collect
    /\ Conclude(IF cancelled THEN "aborted"
                ELSE IF code = Success THEN "tested" ELSE "failed")
    /\ UNCHANGED <<cancelFlag, outerVars>>

\* "undecided": the flag is read once more after the cleanup.
AfterUpload ==
    /\ pc = "upload"
    /\ Collect
    /\ IF code # Success \/ cancelFlag
         THEN CleanUpThen(IF cancelled THEN "aborted" ELSE "undecided")
         ELSE GoOn("recheck")
    /\ UNCHANGED <<cancelFlag, outerVars>>

\* Mutant: the source is not looked at again after the upload.
NoCheckSourceAfter ==
    /\ pc = "recheck"
    /\ GoOn("checkcancel")
    /\ UNCHANGED <<procVars, cancelFlag, outerVars>>

\* Mutant: a changed source is reported without a cleanup.
ReportSourceAfter ==
    /\ pc = "recheck"
    /\ IF source = "changed" THEN Conclude("source_changed") ELSE GoOn("checkcancel")
    /\ UNCHANGED <<procVars, cancelFlag, outerVars>>

CheckSourceAfter ==
    /\ pc = "recheck"
    /\ IF source = "changed" THEN CleanUpThen("source_changed") ELSE GoOn("checkcancel")
    /\ UNCHANGED <<procVars, cancelFlag, outerVars>>

CheckCancellation ==
    /\ pc = "checkcancel"
    /\ IF cancelFlag THEN CleanUpThen("aborted") ELSE GoOn("commit")
    /\ UNCHANGED <<procVars, cancelFlag, outerVars>>

AfterCommit ==
    /\ pc = "commit"
    /\ Collect
    /\ IF ~cancelled /\ code = Success
         THEN Conclude("completed")
         ELSE CleanUpThen(IF cancelled THEN "aborted"
                          ELSE IF code = Exists THEN "destination_file_exists"
                          ELSE "failed")
    /\ UNCHANGED <<cancelFlag, outerVars>>

\* Mutant: a failed upload is reported as it stands.
AfterCleanupUndecided ==
    /\ pc = "cleanup"
    /\ Collect
    /\ Conclude(onCleanup)
    /\ UNCHANGED <<cancelFlag, outerVars>>

\* The result of the cleanup itself is not looked at.
AfterCleanup ==
    /\ pc = "cleanup"
    /\ Collect
    /\ Conclude(IF onCleanup # "undecided" THEN onCleanup
                ELSE IF cancelFlag THEN "aborted" ELSE "failed")
    /\ UNCHANGED <<cancelFlag, outerVars>>

\* The worker thread ends, and closes the source of a transfer with it.
Return ==
    /\ pc = "returning"
    /\ pc' = "idle"
    /\ operationActive' = FALSE
    /\ source' = "pinned"
    /\ UNCHANGED <<procVars, cancelFlag, op, kind, onCleanup, outcome,
                   cancelVars, remoteVars>>

-----------------------------------------------------------------------------
(* The UI thread: request_cancel(), that is request_stop() and cancel().    *)

RequestStop ==
    /\ canceller = "idle" /\ pc # "idle"
    /\ stop' = TRUE
    /\ asked' = asked \cup {op}
    /\ canceller' = "load"
    /\ UNCHANGED <<procVars, cancelFlag, workerVars, early, source, remoteVars>>

\* join_worker() requests the stop and does not call cancel().
JoinOnly ==
    /\ canceller = "load"
    /\ canceller' = "idle"
    /\ UNCHANGED <<procVars, cancelFlag, workerVars, stop, asked, early, source, remoteVars>>

\* The history of a cancel that is over.
CancelEnds ==
    /\ canceller' = "idle"
    /\ early' = IF BeforeCommit THEN early \cup {op} ELSE early

\* No operation is active: cancel() returns false.
CancelInactive ==
    /\ canceller = "load" /\ ~operationActive
    /\ CancelEnds
    /\ UNCHANGED <<procVars, cancelFlag, workerVars, stop, asked, source, remoteVars>>

CancelActive ==
    /\ canceller = "load" /\ operationActive
    /\ canceller' = "set"
    /\ UNCHANGED <<procVars, cancelFlag, workerVars, stop, asked, early, source, remoteVars>>

\* The flag is up, and the child is signalled: ChildKilled is enabled.
CancelSet ==
    /\ canceller = "set"
    /\ cancelFlag' = TRUE
    /\ CancelEnds
    /\ UNCHANGED <<procVars, workerVars, stop, asked, source, remoteVars>>

-----------------------------------------------------------------------------
(* The receiver, and what is not the application's: other writers of the    *)
(* source, other users of the receiver.                                     *)

\* The local ssh or scp of the command is there to keep the remote one going.
Attached(o, command) ==
    \/ o = op /\ pc = command /\ alive
    \/ "orphan" \in Faults

\* sshd starts the command of the local child.
RemoteStarts ==
    /\ alive
    /\ \/ /\ pc = "upload" /\ sink[op] = "none"
          /\ sink' = [sink EXCEPT ![op] = "started"]
          /\ UNCHANGED <<script, cleaner>>
       \/ /\ pc = "commit" /\ script[op] = "none"
          /\ script' = [script EXCEPT ![op] = "test"]
          /\ UNCHANGED <<sink, cleaner>>
       \/ /\ pc = "cleanup" /\ cleaner[op] = "none"
          /\ cleaner' = [cleaner EXCEPT ![op] = "started"]
          /\ UNCHANGED <<sink, script>>
    /\ UNCHANGED <<localVars, blob, staged, final>>

\* scp -t creates the staging file.
SinkOpens(o) ==
    /\ sink[o] = "started" /\ Attached(o, "upload")
    /\ sink' = [sink EXCEPT ![o] = "open"]
    /\ blob' = [blob EXCEPT ![o] = "partial"]
    /\ staged' = staged \cup {o}
    /\ UNCHANGED <<localVars, final, script, cleaner>>

\* The last byte, which the local scp has read from the pinned descriptor.
SinkReceives(o) ==
    /\ sink[o] = "open" /\ o = op /\ pc = "upload" /\ alive
    /\ sink' = [sink EXCEPT ![o] = "done"]
    /\ blob' = [blob EXCEPT ![o] = IF source = "pinned" THEN "pinned" ELSE "other"]
    /\ UNCHANGED <<localVars, staged, final, script, cleaner>>

\* No space or no permission; a remote command that is cut off from its local
\* ssh and fails is one that takes no further step.
SinkFails(o) ==
    /\ sink[o] \in {"started", "open"} /\ o = op /\ pc = "upload" /\ alive
    /\ sink' = [sink EXCEPT ![o] = "failed"]
    /\ UNCHANGED <<localVars, blob, staged, final, script, cleaner>>

\* if test -e FINAL
ScriptTests(o) ==
    /\ script[o] = "test" /\ Attached(o, "commit")
    /\ script' = [script EXCEPT ![o] = IF final = Absent THEN "ln" ELSE "rmTaken"]
    /\ UNCHANGED <<localVars, blob, staged, final, sink, cleaner>>

\* Mutant: mv -f -- STAGING FINAL.
ScriptMoves(o) ==
    /\ script[o] = "ln" /\ Attached(o, "commit")
    /\ script' = [script EXCEPT ![o] = "rmLinked"]
    /\ final' = IF o \in staged THEN o ELSE final
    /\ UNCHANGED <<localVars, blob, staged, sink, cleaner>>

\* if ln -- STAGING FINAL: link(2) makes the name or fails, in one step.
ScriptLinks(o) ==
    /\ script[o] = "ln" /\ Attached(o, "commit")
    /\ IF o \in staged /\ final = Absent
         THEN /\ final' = o
              /\ script' = [script EXCEPT ![o] = "rmLinked"]
         ELSE /\ script' = [script EXCEPT ![o] = "rmFailed"]
              /\ UNCHANGED final
    /\ UNCHANGED <<localVars, blob, staged, sink, cleaner>>

\* rm -f -- STAGING before an exit, or rm -- STAGING, whose status is the
\* command's, after the link.
ScriptRemoves(o) ==
    /\ script[o] \in {"rmTaken", "rmLinked", "rmFailed"} /\ Attached(o, "commit")
    /\ script' = [script EXCEPT ![o] =
           CASE @ = "rmTaken" -> "exit17"
             [] @ = "rmLinked" /\ o \in staged -> "exit0"
             [] OTHER -> "exit1"]
    /\ staged' = staged \ {o}
    /\ UNCHANGED <<localVars, blob, final, sink, cleaner>>

\* rm -f -- STAGING of cleanup().
CleanerRemoves(o) ==
    /\ cleaner[o] = "started" /\ Attached(o, "cleanup")
    /\ cleaner' = [cleaner EXCEPT ![o] = "done"]
    /\ staged' = staged \ {o}
    /\ UNCHANGED <<localVars, blob, final, sink, script>>

RemoteSteps ==
    \E o \in Ops :
        \/ SinkOpens(o) \/ SinkReceives(o) \/ SinkFails(o)
        \/ ScriptTests(o) \/ ScriptLinks(o) \/ ScriptRemoves(o)
        \/ CleanerRemoves(o)

\* ssh and scp exit with the status of their remote command; a connection test
\* can also fail for its own reasons.
ChildRelaysStatus ==
    /\ \/ pc = "testing" /\ \E c \in {Success, Interrupted} : ChildExits(c)
       \/ pc = "upload" /\ sink[op] = "done" /\ ChildExits(Success)
       \/ pc = "upload" /\ sink[op] = "failed" /\ ChildExits(Refused)
       \/ pc = "commit" /\ script[op] = "exit0" /\ ChildExits(Success)
       \/ pc = "commit" /\ script[op] = "exit1" /\ ChildExits(Refused)
       \/ pc = "commit" /\ script[op] = "exit17" /\ ChildExits(Exists)
       \/ pc = "cleanup" /\ cleaner[op] = "done" /\ ChildExits(Success)
    /\ UNCHANGED <<cancelFlag, workerVars, outerVars>>

ChildLosesConnection ==
    /\ "loss" \in Faults
    /\ ChildExits(Interrupted)
    /\ UNCHANGED <<cancelFlag, workerVars, outerVars>>

ChildDiesOfSignal ==
    /\ ChildKilled
    /\ UNCHANGED <<cancelFlag, workerVars, outerVars>>

\* Somebody writes to the source: its metadata is no longer what was pinned.
SourceChanges ==
    /\ pc # "idle" /\ kind = "transfer" /\ source = "pinned"
    /\ source' = "changed"
    /\ UNCHANGED <<procVars, cancelFlag, workerVars, cancelVars, remoteVars>>

\* Another user of the receiver creates a file at the destination path.
OtherCreates ==
    /\ final = Absent
    /\ final' = Foreign
    /\ UNCHANGED <<localVars, blob, staged, sink, script, cleaner>>

-----------------------------------------------------------------------------

WorkerStep ==
    \/ ReturnEarly \/ Enter \/ ClearCancellation \/ Activate
    \/ SecondStopCheck \/ CheckSourceBefore
    \/ RunCommand \/ SpawnChild \/ AfterTest \/ AfterUpload
    \/ CheckSourceAfter \/ CheckCancellation
    \/ AfterCommit \/ AfterCleanup \/ Return

CancelStep == JoinOnly \/ CancelInactive \/ CancelActive \/ CancelSet

ChildStep == ChildRelaysStatus \/ ChildLosesConnection \/ ChildDiesOfSignal

Environment == RemoteStarts \/ RemoteSteps \/ SourceChanges \/ OtherCreates

Watch == WatchFlag \/ WatchClock \/ PasswordFails \/ WatchChild

Next ==
    \/ StartOperation \/ WorkerStep \/ Watch
    \/ RequestStop \/ CancelStep
    \/ ChildStep \/ Environment

Spec == Init /\ [][Next]_vars

\* The worker thread runs; its loop polls ten times a second, so it sees the
\* flag, the clock and the end of the child; SIGKILL, sent again in every turn
\* once the grace period is over, ends a child.  Nothing is assumed of the
\* network, the receiver, the user, or of an upload that goes on.
Fairness ==
    /\ WF_vars(WorkerStep)
    /\ WF_vars(WatchFlag) /\ WF_vars(WatchClock) /\ WF_vars(WatchChild)
    /\ WF_vars(ChildDiesOfSignal)

FairSpec == Spec /\ Fairness

-----------------------------------------------------------------------------
(* Properties.                                                              *)

\* Every variable has its type: the flags of ScpTransport::Impl, the results of
\* its operations and the receiver's files.
TypeOK ==
    /\ ProcTypeOK
    /\ pc \in Places
    /\ op \in 0 .. MaxOps
    /\ kind \in {"test", "transfer"}
    /\ operationActive \in BOOLEAN
    /\ onCleanup \in Verdicts \cup {"undecided"}
    /\ outcome \in [Ops -> Verdicts]
    /\ stop \in BOOLEAN
    /\ canceller \in {"idle", "load", "set"}
    /\ source \in {"pinned", "changed"}
    /\ blob \in [Ops -> {"none", "partial", "pinned", "other"}]
    /\ staged \in SUBSET Ops
    /\ final \in Owners
    /\ sink \in [Ops -> {"none", "started", "open", "done", "failed"}]
    /\ script \in [Ops -> {"none", "test", "ln", "rmTaken", "rmLinked", "rmFailed",
                           "exit0", "exit1", "exit17"}]
    /\ cleaner \in [Ops -> {"none", "started", "done"}]
    /\ asked \in SUBSET Ops
    /\ early \in SUBSET Ops

\* The destination path never names a file that is incomplete, or that differs
\* from the source as it was pinned at Start: transfer() commits only an upload
\* that ended well and whose source still has the pinned metadata.
FinalIsWhole == \A o \in Ops : final = o => blob[o] = "pinned"

\* A cancel() that is over before the commit command is launched, even one that
\* found no active operation and returned false, is final: no commit command is
\* ever run for that transfer, so its file never appears, and it does not report
\* success.  This is what the two stop checks around operation_active_, the check
\* before finalize() and the one that opens run_process() are for.
CancelBeforeCommitHolds ==
    \A o \in early : script[o] = "none" /\ final # o /\ outcome[o] # "completed"

\* An operation reports that it was aborted only if somebody asked for it: the
\* flag of an earlier cancel() does not leak into the next operation.
AbortedWasAsked == \A o \in Ops : outcome[o] = "aborted" => o \in asked

\* transfer() implements AtomicDelivery: the destination is never overwritten,
\* taken back or given to two transfers, and no report contradicts it, then or
\* later; a transfer that reported a changed source or an existing destination
\* is never delivered after all.
Delivery == INSTANCE AtomicDelivery
DeliverySpec == Delivery!Spec

\* When the network, the receiver and the local machine do their part, no way
\* out of transfer() leaves a staging file behind.
NothingLeftBehind == \A o \in Ops : outcome[o] # "none" => o \notin staged

\* cancel() ends an active operation, whatever the network and the receiver do:
\* every command is watched for the flag or has a timeout.
CancelTerminates == operationActive /\ cancelFlag ~> ~operationActive

\* Without a cancel(), only an upload can keep the worker for ever: the
\* connection test, the commit and the cleanup have timeouts.
OnlyUploadsHang == pc # "idle" ~> pc \in {"idle", "upload"}

=============================================================================
