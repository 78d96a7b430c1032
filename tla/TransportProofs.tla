--------------------------- MODULE TransportProofs ---------------------------
(***************************************************************************)
(* What holds of Transport for every number of operations and every set of *)
(* faults; and, of MCTransportLive, what becomes of staging files in       *)
(* behaviours in which nothing outside transfer() goes wrong.              *)
(***************************************************************************)
EXTENDS MCTransportLive, TLAPS

USE MaxOpsAssumption, FaultsAssumption

LEMMA OpsFacts ==
    /\ Ops \subseteq Nat
    /\ Absent \notin Ops /\ Foreign \notin Ops /\ Absent # Foreign
    /\ Absent \in Owners /\ Foreign \in Owners /\ Ops \subseteq Owners
BY DEF Ops, Absent, Foreign, Owners

\* While an operation is running its number is one of Ops.
OpInRange == pc # "idle" => op \in Ops

\* The part of TypeOK about flags, which is Zenon's where an action clears one.
FlagsOK ==
    /\ cancellable \in BOOLEAN
    /\ alive \in BOOLEAN
    /\ cancelled \in BOOLEAN
    /\ terminating \in BOOLEAN
    /\ cancelFlag \in BOOLEAN
    /\ operationActive \in BOOLEAN
    /\ stop \in BOOLEAN

LEMMA Typing == Spec => [](TypeOK /\ OpInRange)
<1>1. Init => TypeOK /\ OpInRange
  <2>1. Init => FlagsOK
    BY OpsFacts, ZenonT(60) DEF FlagsOK, Init, ProcInit
  <2>2. QED
    BY OpsFacts, <2>1 DEF FlagsOK, Init, ProcInit, TypeOK, ProcTypeOK, OpInRange, ExitCodes,
                      NeverRan, Places, Verdicts, Owners
<1>2. TypeOK /\ OpInRange /\ [Next]_vars => TypeOK' /\ OpInRange'
  <2> SUFFICES ASSUME TypeOK, OpInRange, [Next]_vars
               PROVE  TypeOK' /\ OpInRange'
    OBVIOUS
  <2> USE DEF TypeOK, ProcTypeOK, OpInRange, procVars, workerVars, cancelVars, remoteVars,
             localVars, outerVars
  <2>1. CASE StartOperation
    <3>1. FlagsOK'
      BY <2>1, ZenonT(60) DEF FlagsOK, StartOperation
    <3>2. QED
      BY <2>1, <3>1 DEF FlagsOK, StartOperation, Places, Ops
  <2>2. CASE WorkerStep
    <3> USE DEF Places, Verdicts, Commands
    <3>1. CASE ReturnEarly
      BY <3>1 DEF ReturnEarly
    <3>2. CASE Enter
      BY <3>2 DEF Enter
    <3>3. CASE ClearCancellation
      <4>1. FlagsOK'
        BY <3>3, ZenonT(60) DEF FlagsOK, ClearCancellation
      <4>2. QED
        BY <3>3, <4>1 DEF FlagsOK, ClearCancellation
    <3>4. CASE Activate
      BY <3>4 DEF Activate
    <3>5. CASE SecondStopCheck
      <4>1. FlagsOK'
        BY <3>5, ZenonT(60) DEF FlagsOK, SecondStopCheck, Conclude, GoOn
      <4>2. QED
        BY <3>5, <4>1 DEF FlagsOK, SecondStopCheck, Conclude, GoOn
    <3>6. CASE CheckSourceBefore
      BY <3>6 DEF CheckSourceBefore, Conclude, GoOn
    <3>7. CASE RunCommand \/ SpawnChild
      <4>1. FlagsOK'
        BY <3>7, ZenonT(60) DEF FlagsOK, RunCommand, SpawnChild, RefuseCancelled, Begin, StartChild, FailToStart
      <4>2. QED
        BY <3>7, <4>1 DEF FlagsOK, RunCommand, SpawnChild, RefuseCancelled, Begin, StartChild, FailToStart, ExitCodes, NeverRan
    <3>8. CASE AfterTest
      BY <3>8 DEF AfterTest, Collect, Conclude, ExitCodes, NeverRan
    <3>9. CASE AfterUpload
      <4>1. FlagsOK'
        BY <3>9, ZenonT(60) DEF FlagsOK, AfterUpload, Collect, CleanUpThen, GoOn
      <4>2. QED
        BY <3>9, <4>1 DEF FlagsOK, AfterUpload, Collect, CleanUpThen, GoOn, ExitCodes, NeverRan
    <3>10. CASE CheckSourceAfter
      BY <3>10 DEF CheckSourceAfter, CleanUpThen, GoOn
    <3>11. CASE CheckCancellation
      BY <3>11 DEF CheckCancellation, CleanUpThen, GoOn
    <3>12. CASE AfterCommit
      BY <3>12 DEF AfterCommit, Collect, Conclude, CleanUpThen, ExitCodes, NeverRan
    <3>13. CASE AfterCleanup
      BY <3>13 DEF AfterCleanup, Collect, Conclude, ExitCodes, NeverRan
    <3>14. CASE Return
      <4>1. FlagsOK'
        BY <3>14, ZenonT(60) DEF FlagsOK, Return
      <4>2. QED
        BY <3>14, <4>1 DEF FlagsOK, Return
    <3>15. QED
      BY <2>2, <3>1, <3>2, <3>3, <3>4, <3>5, <3>6, <3>7, <3>8, <3>9, <3>10,
         <3>11, <3>12, <3>13, <3>14 DEF WorkerStep
  <2>3. CASE Watch
    <3>1. FlagsOK'
      BY <2>3, ZenonT(60) DEF FlagsOK, Watch, WatchFlag, WatchClock, PasswordFails, WatchChild,
                ObserveCancel, GiveUp, Reap
    <3>2. QED
      BY <2>3, <3>1 DEF FlagsOK, Watch, WatchFlag, WatchClock, PasswordFails, WatchChild,
                    ObserveCancel, GiveUp, Reap
  <2>4. CASE RequestStop
    BY <2>4 DEF RequestStop
  <2>5. CASE CancelStep
    <3>1. CASE JoinOnly
      BY <3>1 DEF JoinOnly
    <3>2. CASE CancelInactive
      BY <3>2 DEF CancelInactive, CancelEnds, BeforeCommit
    <3>3. CASE CancelActive
      BY <3>3 DEF CancelActive
    <3>4. CASE CancelSet
      BY <3>4 DEF CancelSet, CancelEnds, BeforeCommit
    <3>5. QED
      BY <2>5, <3>1, <3>2, <3>3, <3>4 DEF CancelStep
  <2>6. CASE ChildStep
    <3>1. FlagsOK'
      BY <2>6, ZenonT(60) DEF FlagsOK, ChildStep, ChildRelaysStatus, ChildLosesConnection,
                ChildDiesOfSignal, ChildKilled, ChildExits
    <3>2. QED
      BY <2>6, <3>1 DEF FlagsOK, ChildStep, ChildRelaysStatus, ChildLosesConnection,
                    ChildDiesOfSignal, ChildKilled, ChildExits, ExitCodes,
                    Success, Refused, Exists, Interrupted
  <2>7. CASE Environment
    <3>1. CASE RemoteStarts
      BY <3>1 DEF RemoteStarts
    <3>2. CASE RemoteSteps
      BY <2>7, <3>2 DEF RemoteSteps, SinkOpens, SinkReceives, SinkFails,
                  ScriptTests, ScriptLinks, ScriptRemoves, CleanerRemoves, Owners
    <3>3. CASE SourceChanges
      BY <3>3 DEF SourceChanges
    <3>4. CASE OtherCreates
      BY <3>4, OpsFacts DEF OtherCreates
    <3>5. QED
      BY <2>7, <3>1, <3>2, <3>3, <3>4 DEF Environment
  <2>8. CASE UNCHANGED vars
    BY <2>8 DEF vars
  <2>9. QED
    BY <2>1, <2>2, <2>3, <2>4, <2>5, <2>6, <2>7, <2>8 DEF Next
<1>3. QED
  BY <1>1, <1>2, PTL DEF Spec

-----------------------------------------------------------------------------
(* The inductive invariant, in parts.                                       *)

\* run_process runs only at a command's place, inside an active operation.
ProcessInv ==
    /\ phase # "idle" => pc \in Commands
    /\ alive => phase = "running" /\ code = NeverRan
    /\ operationActive <=> pc \notin {"idle", "called", "entered", "cleared"}

\* Until the child is there, the result is the default one.
FreshInv == phase \in {"idle", "starting"} => code = NeverRan /\ ~cancelled

\* The operations that are not started have left no trace.
FutureInv ==
    \A o \in Ops : o > op =>
        /\ outcome[o] = "none" /\ sink[o] = "none" /\ script[o] = "none"
        /\ o \notin asked /\ o \notin early

\* The current operation has reported nothing before it returns.
CurrentInv == pc \notin {"idle", "returning"} => outcome[op] = "none"

\* An upload that passed both checks holds the pinned content, and only such an
\* upload gets a commit command.
UploadInv ==
    /\ pc \in {"called", "entered", "cleared", "active", "fstat"} => sink[op] = "none"
    /\ pc = "upload" /\ phase # "idle" /\ code = Success => sink[op] = "done"
    /\ pc \in {"upload", "recheck"} /\ sink[op] = "done" /\ source = "pinned"
         => blob[op] = "pinned"
    /\ pc \in {"recheck", "checkcancel", "commit"} => sink[op] = "done"
    /\ pc \in {"checkcancel", "commit"} => blob[op] = "pinned"
    /\ \A o \in Ops : script[o] # "none" => sink[o] = "done" /\ blob[o] = "pinned"

\* The commit command's progress tells what the destination names, its exit
\* status tells its progress, and the verdict tells its exit status.
CommitInv ==
    /\ pc # "idle" /\ BeforeCommit => script[op] = "none"
    /\ pc = "cleanup" /\ onCleanup = "source_changed" => script[op] = "none"
    /\ pc = "cleanup" /\ onCleanup = "destination_file_exists" => script[op] = "exit17"
    /\ pc = "cleanup" => onCleanup \notin {"none", "tested", "completed"}
    /\ pc = "commit" /\ phase # "idle" /\ code = Success => script[op] = "exit0"
    /\ pc = "commit" /\ phase # "idle" /\ code = Exists => script[op] = "exit17"
    /\ \A o \in Ops :
          /\ final = o => script[o] \in {"rmLinked", "exit0", "exit1"}
          /\ script[o] \in {"rmLinked", "exit0"} => final = o
          /\ script[o] \in {"rmTaken", "exit17"} => final # Absent /\ final # o
          /\ outcome[o] \in {"tested", "source_changed"} => script[o] = "none"
          /\ outcome[o] = "completed" => script[o] = "exit0"
          /\ outcome[o] = "destination_file_exists" => script[o] = "exit17"

\* A cancel() that is over before the commit has left a mark that the operation
\* will meet: the stop token up to the second stop check, the flag afterwards.
CancelInv ==
    /\ canceller # "idle" \/ stop => op \in asked
    /\ canceller # "idle" => stop
    /\ cancelFlag /\ pc \notin {"idle", "called", "entered"} => op \in asked
    /\ cancelled /\ phase # "idle" => op \in asked
    /\ pc = "cleanup" /\ onCleanup = "aborted" => op \in asked
    /\ pc \in {"called", "entered", "cleared", "active"} /\ op \in early => stop
    /\ pc \in {"testing", "fstat", "upload", "recheck", "checkcancel", "commit"}
         /\ op \in early => cancelFlag
    /\ pc = "commit" /\ phase # "idle" /\ op \in early => cancelled /\ ~alive /\ phase = "returned"
    /\ \A o \in early : script[o] = "none"

IInv ==
    /\ ProcessInv /\ FreshInv /\ FutureInv /\ CurrentInv /\ UploadInv /\ CommitInv /\ CancelInv
    /\ AbortedWasAsked


\* A step keeps ProcessInv.
LEMMA ProcessStep ==
    ASSUME TypeOK, OpInRange, ProcessInv, FreshInv, [Next]_vars
    PROVE  ProcessInv' /\ FreshInv'
<1> USE DEF TypeOK, ProcTypeOK, OpInRange, procVars, workerVars, cancelVars, remoteVars,
             localVars, outerVars
<1> USE DEF ProcessInv, FreshInv, Commands, NeverRan
<1>1. CASE StartOperation
  BY <1>1 DEF StartOperation
<1>2. CASE WorkerStep
  <2>1. CASE ReturnEarly
    BY <2>1 DEF ReturnEarly
  <2>2. CASE Enter
    BY <2>2 DEF Enter
  <2>3. CASE ClearCancellation
    BY <2>3 DEF ClearCancellation
  <2>4. CASE Activate
    BY <2>4 DEF Activate
  <2>5. CASE SecondStopCheck
    BY <2>5 DEF SecondStopCheck, Conclude, GoOn
  <2>6. CASE CheckSourceBefore
    BY <2>6 DEF CheckSourceBefore, Conclude, GoOn
  <2>7. CASE RunCommand \/ SpawnChild
    BY <2>7 DEF RunCommand, SpawnChild, RefuseCancelled, Begin, StartChild, FailToStart
  <2>8. CASE AfterTest
    BY <2>8 DEF AfterTest, Collect, Conclude
  <2>9. CASE AfterUpload
    BY <2>9 DEF AfterUpload, Collect, CleanUpThen, GoOn
  <2>10. CASE CheckSourceAfter
    BY <2>10 DEF CheckSourceAfter, CleanUpThen, GoOn
  <2>11. CASE CheckCancellation
    BY <2>11 DEF CheckCancellation, CleanUpThen, GoOn
  <2>12. CASE AfterCommit
    BY <2>12 DEF AfterCommit, Collect, Conclude, CleanUpThen
  <2>13. CASE AfterCleanup
    BY <2>13 DEF AfterCleanup, Collect, Conclude
  <2>14. CASE Return
    BY <2>14 DEF Return
  <2>15. QED
    BY <1>2, <2>1, <2>2, <2>3, <2>4, <2>5, <2>6, <2>7, <2>8, <2>9, <2>10, <2>11,
          <2>12, <2>13, <2>14 DEF WorkerStep
<1>3. CASE Watch
  BY <1>3 DEF Watch, WatchFlag, WatchClock, PasswordFails, WatchChild,
        ObserveCancel, GiveUp, Reap
<1>4. CASE RequestStop
  BY <1>4 DEF RequestStop
<1>5. CASE CancelStep
  <2>1. CASE JoinOnly
    BY <2>1 DEF JoinOnly
  <2>2. CASE CancelInactive
    BY <2>2 DEF CancelInactive, CancelEnds
  <2>3. CASE CancelActive
    BY <2>3 DEF CancelActive
  <2>4. CASE CancelSet
    BY <2>4 DEF CancelSet, CancelEnds
  <2>5. QED
    BY <1>5, <2>1, <2>2, <2>3, <2>4 DEF CancelStep
<1>6. CASE ChildStep
  BY <1>6 DEF ChildStep, ChildRelaysStatus, ChildLosesConnection, ChildDiesOfSignal,
        ChildKilled, ChildExits, Success, Refused, Exists, Interrupted, NeverRan
<1>7. CASE Environment
  <2>1. CASE RemoteStarts
    BY <2>1 DEF RemoteStarts
  <2>2. CASE RemoteSteps
    BY <2>2 DEF RemoteSteps, SinkOpens, SinkReceives, SinkFails, ScriptTests,
          ScriptLinks, ScriptRemoves, CleanerRemoves
  <2>3. CASE SourceChanges
    BY <2>3 DEF SourceChanges
  <2>4. CASE OtherCreates
    BY <2>4 DEF OtherCreates
  <2>5. QED
    BY <1>7, <2>1, <2>2, <2>3, <2>4 DEF Environment
<1>8. CASE UNCHANGED vars
  BY <1>8 DEF vars, BeforeCommit
<1>9. QED
  BY <1>1, <1>2, <1>3, <1>4, <1>5, <1>6, <1>7, <1>8 DEF Next

\* A step leaves no trace of the operations to come.
LEMMA FutureStep ==
    ASSUME TypeOK, OpInRange, FutureInv, [Next]_vars
    PROVE  FutureInv'
<1> USE DEF TypeOK, ProcTypeOK, OpInRange, procVars, workerVars, cancelVars, remoteVars,
             localVars, outerVars
<1> USE DEF FutureInv, Ops
<1>1. CASE StartOperation
  BY <1>1 DEF StartOperation
<1>2. CASE WorkerStep
  <2>1. CASE ReturnEarly
    BY <2>1 DEF ReturnEarly
  <2>2. CASE Enter
    BY <2>2 DEF Enter
  <2>3. CASE ClearCancellation
    BY <2>3 DEF ClearCancellation
  <2>4. CASE Activate
    BY <2>4 DEF Activate
  <2>5. CASE SecondStopCheck
    BY <2>5 DEF SecondStopCheck, Conclude, GoOn
  <2>6. CASE CheckSourceBefore
    BY <2>6 DEF CheckSourceBefore, Conclude, GoOn
  <2>7. CASE RunCommand \/ SpawnChild
    BY <2>7 DEF RunCommand, SpawnChild, RefuseCancelled, Begin, StartChild, FailToStart
  <2>8. CASE AfterTest
    BY <2>8 DEF AfterTest, Collect, Conclude
  <2>9. CASE AfterUpload
    BY <2>9 DEF AfterUpload, Collect, CleanUpThen, GoOn
  <2>10. CASE CheckSourceAfter
    BY <2>10 DEF CheckSourceAfter, CleanUpThen, GoOn
  <2>11. CASE CheckCancellation
    BY <2>11 DEF CheckCancellation, CleanUpThen, GoOn
  <2>12. CASE AfterCommit
    BY <2>12 DEF AfterCommit, Collect, Conclude, CleanUpThen
  <2>13. CASE AfterCleanup
    BY <2>13 DEF AfterCleanup, Collect, Conclude
  <2>14. CASE Return
    BY <2>14 DEF Return
  <2>15. QED
    BY <1>2, <2>1, <2>2, <2>3, <2>4, <2>5, <2>6, <2>7, <2>8, <2>9, <2>10, <2>11,
          <2>12, <2>13, <2>14 DEF WorkerStep
<1>3. CASE Watch
  BY <1>3 DEF Watch, WatchFlag, WatchClock, PasswordFails, WatchChild,
        ObserveCancel, GiveUp, Reap
<1>4. CASE RequestStop
  BY <1>4 DEF RequestStop
<1>5. CASE CancelStep
  <2>1. CASE JoinOnly
    BY <2>1 DEF JoinOnly
  <2>2. CASE CancelInactive
    BY <2>2 DEF CancelInactive, CancelEnds
  <2>3. CASE CancelActive
    BY <2>3 DEF CancelActive
  <2>4. CASE CancelSet
    BY <2>4 DEF CancelSet, CancelEnds
  <2>5. QED
    BY <1>5, <2>1, <2>2, <2>3, <2>4 DEF CancelStep
<1>6. CASE ChildStep
  BY <1>6 DEF ChildStep, ChildRelaysStatus, ChildLosesConnection, ChildDiesOfSignal,
        ChildKilled, ChildExits, Success, Refused, Exists, Interrupted, NeverRan
<1>7. CASE Environment
  <2>1. CASE RemoteStarts
    BY <2>1 DEF RemoteStarts
  <2>2. CASE RemoteSteps
    BY <2>2 DEF RemoteSteps, SinkOpens, SinkReceives, SinkFails, ScriptTests,
          ScriptLinks, ScriptRemoves, CleanerRemoves
  <2>3. CASE SourceChanges
    BY <2>3 DEF SourceChanges
  <2>4. CASE OtherCreates
    BY <2>4 DEF OtherCreates
  <2>5. QED
    BY <1>7, <2>1, <2>2, <2>3, <2>4 DEF Environment
<1>8. CASE UNCHANGED vars
  BY <1>8 DEF vars, BeforeCommit
<1>9. QED
  BY <1>1, <1>2, <1>3, <1>4, <1>5, <1>6, <1>7, <1>8 DEF Next

\* A step reports a verdict only as the operation returns.
LEMMA CurrentStep ==
    ASSUME TypeOK, OpInRange, ProcessInv, FutureInv, CurrentInv, [Next]_vars
    PROVE  CurrentInv'
<1> USE DEF TypeOK, ProcTypeOK, OpInRange, procVars, workerVars, cancelVars, remoteVars,
             localVars, outerVars
<1> USE DEF ProcessInv, FutureInv, CurrentInv, Commands, Ops
<1>1. CASE StartOperation
  BY <1>1 DEF StartOperation
<1>2. CASE WorkerStep
  <2>1. CASE ReturnEarly
    BY <2>1 DEF ReturnEarly
  <2>2. CASE Enter
    BY <2>2 DEF Enter
  <2>3. CASE ClearCancellation
    BY <2>3 DEF ClearCancellation
  <2>4. CASE Activate
    BY <2>4 DEF Activate
  <2>5. CASE SecondStopCheck
    BY <2>5 DEF SecondStopCheck, Conclude, GoOn
  <2>6. CASE CheckSourceBefore
    BY <2>6 DEF CheckSourceBefore, Conclude, GoOn
  <2>7. CASE RunCommand \/ SpawnChild
    BY <2>7 DEF RunCommand, SpawnChild, RefuseCancelled, Begin, StartChild, FailToStart
  <2>8. CASE AfterTest
    BY <2>8 DEF AfterTest, Collect, Conclude
  <2>9. CASE AfterUpload
    BY <2>9 DEF AfterUpload, Collect, CleanUpThen, GoOn
  <2>10. CASE CheckSourceAfter
    BY <2>10 DEF CheckSourceAfter, CleanUpThen, GoOn
  <2>11. CASE CheckCancellation
    BY <2>11 DEF CheckCancellation, CleanUpThen, GoOn
  <2>12. CASE AfterCommit
    BY <2>12 DEF AfterCommit, Collect, Conclude, CleanUpThen
  <2>13. CASE AfterCleanup
    BY <2>13 DEF AfterCleanup, Collect, Conclude
  <2>14. CASE Return
    BY <2>14 DEF Return
  <2>15. QED
    BY <1>2, <2>1, <2>2, <2>3, <2>4, <2>5, <2>6, <2>7, <2>8, <2>9, <2>10, <2>11,
          <2>12, <2>13, <2>14 DEF WorkerStep
<1>3. CASE Watch
  BY <1>3 DEF Watch, WatchFlag, WatchClock, PasswordFails, WatchChild,
        ObserveCancel, GiveUp, Reap
<1>4. CASE RequestStop
  BY <1>4 DEF RequestStop
<1>5. CASE CancelStep
  <2>1. CASE JoinOnly
    BY <2>1 DEF JoinOnly
  <2>2. CASE CancelInactive
    BY <2>2 DEF CancelInactive, CancelEnds
  <2>3. CASE CancelActive
    BY <2>3 DEF CancelActive
  <2>4. CASE CancelSet
    BY <2>4 DEF CancelSet, CancelEnds
  <2>5. QED
    BY <1>5, <2>1, <2>2, <2>3, <2>4 DEF CancelStep
<1>6. CASE ChildStep
  BY <1>6 DEF ChildStep, ChildRelaysStatus, ChildLosesConnection, ChildDiesOfSignal,
        ChildKilled, ChildExits, Success, Refused, Exists, Interrupted, NeverRan
<1>7. CASE Environment
  <2>1. CASE RemoteStarts
    BY <2>1 DEF RemoteStarts
  <2>2. CASE RemoteSteps
    BY <2>2 DEF RemoteSteps, SinkOpens, SinkReceives, SinkFails, ScriptTests,
          ScriptLinks, ScriptRemoves, CleanerRemoves
  <2>3. CASE SourceChanges
    BY <2>3 DEF SourceChanges
  <2>4. CASE OtherCreates
    BY <2>4 DEF OtherCreates
  <2>5. QED
    BY <1>7, <2>1, <2>2, <2>3, <2>4 DEF Environment
<1>8. CASE UNCHANGED vars
  BY <1>8 DEF vars, BeforeCommit
<1>9. QED
  BY <1>1, <1>2, <1>3, <1>4, <1>5, <1>6, <1>7, <1>8 DEF Next

\* A step keeps UploadInv: the two checks of the source and the exit status of
\* scp are what the commit command relies on.
LEMMA UploadStep ==
    ASSUME TypeOK, OpInRange, ProcessInv, FreshInv, FutureInv, UploadInv, [Next]_vars
    PROVE  UploadInv'
<1> USE DEF TypeOK, ProcTypeOK, OpInRange, procVars, workerVars, cancelVars, remoteVars,
             localVars, outerVars
<1> USE DEF ProcessInv, FutureInv, UploadInv, Commands, Ops, Success, NeverRan
<1>1. CASE StartOperation
  BY <1>1 DEF StartOperation
<1>2. CASE WorkerStep
  <2>1. CASE ReturnEarly
    BY <2>1 DEF ReturnEarly
  <2>2. CASE Enter
    BY <2>2 DEF Enter
  <2>3. CASE ClearCancellation
    BY <2>3 DEF ClearCancellation
  <2>4. CASE Activate
    BY <2>4 DEF Activate
  <2>5. CASE SecondStopCheck
    BY <2>5 DEF SecondStopCheck, Conclude, GoOn
  <2>6. CASE CheckSourceBefore
    BY <2>6 DEF CheckSourceBefore, Conclude, GoOn
  <2>7. CASE RunCommand \/ SpawnChild
    BY <2>7 DEF FreshInv, RunCommand, SpawnChild, RefuseCancelled, Begin, StartChild, FailToStart
  <2>8. CASE AfterTest
    BY <2>8 DEF AfterTest, Collect, Conclude
  <2>9. CASE AfterUpload
    BY <2>9 DEF AfterUpload, Collect, CleanUpThen, GoOn
  <2>10. CASE CheckSourceAfter
    BY <2>10 DEF CheckSourceAfter, CleanUpThen, GoOn
  <2>11. CASE CheckCancellation
    BY <2>11 DEF CheckCancellation, CleanUpThen, GoOn
  <2>12. CASE AfterCommit
    BY <2>12 DEF AfterCommit, Collect, Conclude, CleanUpThen
  <2>13. CASE AfterCleanup
    BY <2>13 DEF AfterCleanup, Collect, Conclude
  <2>14. CASE Return
    BY <2>14 DEF Return
  <2>15. QED
    BY <1>2, <2>1, <2>2, <2>3, <2>4, <2>5, <2>6, <2>7, <2>8, <2>9, <2>10, <2>11,
          <2>12, <2>13, <2>14 DEF WorkerStep
<1>3. CASE Watch
  BY <1>3 DEF Watch, WatchFlag, WatchClock, PasswordFails, WatchChild,
        ObserveCancel, GiveUp, Reap
<1>4. CASE RequestStop
  BY <1>4 DEF RequestStop
<1>5. CASE CancelStep
  <2>1. CASE JoinOnly
    BY <2>1 DEF JoinOnly
  <2>2. CASE CancelInactive
    BY <2>2 DEF CancelInactive, CancelEnds
  <2>3. CASE CancelActive
    BY <2>3 DEF CancelActive
  <2>4. CASE CancelSet
    BY <2>4 DEF CancelSet, CancelEnds
  <2>5. QED
    BY <1>5, <2>1, <2>2, <2>3, <2>4 DEF CancelStep
<1>6. CASE ChildStep
  BY <1>6 DEF ChildStep, ChildRelaysStatus, ChildLosesConnection, ChildDiesOfSignal,
        ChildKilled, ChildExits, Success, Refused, Exists, Interrupted, NeverRan
<1>7. CASE Environment
  <2>1. CASE RemoteStarts
    BY <2>1 DEF RemoteStarts
  <2>2. CASE RemoteSteps
    BY <2>2 DEF RemoteSteps, SinkOpens, SinkReceives, SinkFails, ScriptTests,
          ScriptLinks, ScriptRemoves, CleanerRemoves
  <2>3. CASE SourceChanges
    BY <2>3 DEF SourceChanges
  <2>4. CASE OtherCreates
    BY <2>4 DEF OtherCreates
  <2>5. QED
    BY <1>7, <2>1, <2>2, <2>3, <2>4 DEF Environment
<1>8. CASE UNCHANGED vars
  BY <1>8 DEF vars, BeforeCommit
<1>9. QED
  BY <1>1, <1>2, <1>3, <1>4, <1>5, <1>6, <1>7, <1>8 DEF Next

\* A step keeps CommitInv: the commit command alone changes what its transfer
\* has at the destination, and it runs only at its place.
LEMMA CommitStep ==
    ASSUME TypeOK, OpInRange, ProcessInv, FreshInv, FutureInv, CurrentInv, CommitInv, [Next]_vars
    PROVE  CommitInv'
<1> USE DEF TypeOK, ProcTypeOK, OpInRange, procVars, workerVars, cancelVars, remoteVars,
             localVars, outerVars
<1> USE DEF ProcessInv, FutureInv, CurrentInv, CommitInv, Commands, Success, Exists, NeverRan, BeforeCommit, Ops
<1>1. CASE StartOperation
  BY <1>1 DEF StartOperation
<1>2. CASE WorkerStep
  <2>1. CASE ReturnEarly
    BY <2>1 DEF ReturnEarly
  <2>2. CASE Enter
    BY <2>2 DEF Enter
  <2>3. CASE ClearCancellation
    BY <2>3 DEF ClearCancellation
  <2>4. CASE Activate
    BY <2>4 DEF Activate
  <2>5. CASE SecondStopCheck
    <3>1. op \in Ops /\ script[op] = "none" /\ phase = "idle"
      BY <2>5 DEF SecondStopCheck
    <3>2. CASE stop
      BY <2>5, <3>1, <3>2 DEF SecondStopCheck, Conclude
    <3>3. CASE ~stop
      BY <2>5, <3>1, <3>3 DEF SecondStopCheck, GoOn
    <3>4. QED
      BY <3>2, <3>3
  <2>6. CASE CheckSourceBefore
    <3>1. op \in Ops /\ script[op] = "none" /\ phase = "idle"
      BY <2>6 DEF CheckSourceBefore
    <3>2. CASE source = "changed"
      BY <2>6, <3>1, <3>2 DEF CheckSourceBefore, Conclude
    <3>3. CASE source # "changed"
      BY <2>6, <3>1, <3>3 DEF CheckSourceBefore, GoOn
    <3>4. QED
      BY <3>2, <3>3
  <2>7. CASE RunCommand \/ SpawnChild
    BY <2>7 DEF FreshInv, RunCommand, SpawnChild, RefuseCancelled, Begin, StartChild, FailToStart
  <2>8. CASE AfterTest
    BY <2>8 DEF AfterTest, Collect, Conclude
  <2>9. CASE AfterUpload
    BY <2>9 DEF AfterUpload, Collect, CleanUpThen, GoOn
  <2>10. CASE CheckSourceAfter
    BY <2>10 DEF CheckSourceAfter, CleanUpThen, GoOn
  <2>11. CASE CheckCancellation
    BY <2>11 DEF CheckCancellation, CleanUpThen, GoOn
  <2>12. CASE AfterCommit
    <3>1. op \in Ops
      BY <2>12 DEF AfterCommit
    <3>2. CASE ~cancelled /\ code = Success
      BY <2>12, <3>1, <3>2 DEF AfterCommit, Collect, Conclude
    <3>3. CASE ~(~cancelled /\ code = Success)
      BY <2>12, <3>1, <3>3 DEF AfterCommit, Collect, CleanUpThen
    <3>4. QED
      BY <3>2, <3>3
  <2>13. CASE AfterCleanup
    BY <2>13 DEF AfterCleanup, Collect, Conclude
  <2>14. CASE Return
    BY <2>14 DEF Return
  <2>15. QED
    BY <1>2, <2>1, <2>2, <2>3, <2>4, <2>5, <2>6, <2>7, <2>8, <2>9, <2>10, <2>11,
          <2>12, <2>13, <2>14 DEF WorkerStep
<1>3. CASE Watch
  BY <1>3 DEF Watch, WatchFlag, WatchClock, PasswordFails, WatchChild,
        ObserveCancel, GiveUp, Reap
<1>4. CASE RequestStop
  BY <1>4 DEF RequestStop
<1>5. CASE CancelStep
  <2>1. CASE JoinOnly
    BY <2>1 DEF JoinOnly
  <2>2. CASE CancelInactive
    BY <2>2 DEF CancelInactive, CancelEnds
  <2>3. CASE CancelActive
    BY <2>3 DEF CancelActive
  <2>4. CASE CancelSet
    BY <2>4 DEF CancelSet, CancelEnds
  <2>5. QED
    BY <1>5, <2>1, <2>2, <2>3, <2>4 DEF CancelStep
<1>6. CASE ChildStep
  BY <1>6 DEF ChildStep, ChildRelaysStatus, ChildLosesConnection, ChildDiesOfSignal,
        ChildKilled, ChildExits, Success, Refused, Exists, Interrupted, NeverRan
<1>7. CASE Environment
  <2>1. CASE RemoteStarts
    BY <2>1 DEF RemoteStarts
  <2>2. CASE RemoteSteps
    <3> SUFFICES ASSUME NEW o \in Ops,
                        \/ SinkOpens(o) \/ SinkReceives(o) \/ SinkFails(o)
                        \/ ScriptTests(o) \/ ScriptLinks(o) \/ ScriptRemoves(o)
                        \/ CleanerRemoves(o)
                 PROVE  CommitInv'
      BY <2>2 DEF RemoteSteps
    <3>1. CASE SinkOpens(o) \/ SinkReceives(o) \/ SinkFails(o) \/ CleanerRemoves(o)
      BY <3>1 DEF SinkOpens, SinkReceives, SinkFails, CleanerRemoves
    <3>2. CASE ScriptTests(o)
      BY <3>2, OpsFacts DEF ScriptTests
    <3>3. CASE ScriptLinks(o)
      BY <3>3, OpsFacts DEF ScriptLinks
    <3>4. CASE ScriptRemoves(o)
      BY <3>4, OpsFacts DEF ScriptRemoves
    <3>5. QED
      BY <3>1, <3>2, <3>3, <3>4
  <2>3. CASE SourceChanges
    BY <2>3 DEF SourceChanges
  <2>4. CASE OtherCreates
    BY <2>4, OpsFacts DEF OtherCreates
  <2>5. QED
    BY <1>7, <2>1, <2>2, <2>3, <2>4 DEF Environment
<1>8. CASE UNCHANGED vars
  BY <1>8 DEF vars, BeforeCommit
<1>9. QED
  BY <1>1, <1>2, <1>3, <1>4, <1>5, <1>6, <1>7, <1>8 DEF Next

\* A step keeps CancelInv: between two checks the mark of a cancel is not lost.
LEMMA CancelStepKeeps ==
    ASSUME TypeOK, OpInRange, ProcessInv, FreshInv, FutureInv, CommitInv, CancelInv, [Next]_vars
    PROVE  CancelInv'
<1> USE DEF TypeOK, ProcTypeOK, OpInRange, procVars, workerVars, cancelVars, remoteVars,
             localVars, outerVars
<1> USE DEF ProcessInv, FutureInv, CommitInv, CancelInv, Commands, BeforeCommit
<1>1. CASE StartOperation
  BY <1>1 DEF StartOperation
<1>2. CASE WorkerStep
  <2>1. CASE ReturnEarly
    BY <2>1 DEF ReturnEarly
  <2>2. CASE Enter
    BY <2>2 DEF Enter
  <2>3. CASE ClearCancellation
    BY <2>3 DEF ClearCancellation
  <2>4. CASE Activate
    BY <2>4 DEF Activate
  <2>5. CASE SecondStopCheck
    <3>1. op \in Ops /\ phase = "idle"
      BY <2>5 DEF SecondStopCheck
    <3>2. CASE stop
      BY <2>5, <3>1, <3>2 DEF SecondStopCheck, Conclude
    <3>3. CASE ~stop
      <4>1. op \notin early
        BY <2>5, <3>3 DEF SecondStopCheck
      <4>2. pc' \in {"testing", "fstat"} /\ op' = op /\ phase' = phase
        BY <2>5, <3>3 DEF SecondStopCheck, GoOn
      <4>3. UNCHANGED <<stop, canceller, asked, early, cancelFlag, cancelled,
                        script, onCleanup>>
        BY <2>5, <3>3 DEF SecondStopCheck, GoOn
      <4>4. cancelFlag => op \in asked
        BY <2>5 DEF SecondStopCheck
      <4>5. QED
        BY <3>1, <3>3, <4>1, <4>2, <4>3, <4>4
    <3>4. QED
      BY <3>2, <3>3
  <2>6. CASE CheckSourceBefore
    BY <2>6 DEF CheckSourceBefore, Conclude, GoOn
  <2>7. CASE RunCommand \/ SpawnChild
    <3>1. CASE RunCommand
      <4>1. CASE RefuseCancelled(pc # "cleanup")
        BY <3>1, <4>1 DEF RunCommand, RefuseCancelled
      <4>2. CASE Begin(pc # "cleanup")
        BY <3>1, <4>2 DEF FreshInv, RunCommand, Begin
      <4>3. QED
        BY <3>1, <4>1, <4>2 DEF RunCommand
    <3>2. CASE SpawnChild
      BY <3>2 DEF SpawnChild, StartChild, FailToStart
    <3>3. QED
      BY <2>7, <3>1, <3>2
  <2>8. CASE AfterTest
    BY <2>8 DEF AfterTest, Collect, Conclude
  <2>9. CASE AfterUpload
    BY <2>9 DEF AfterUpload, Collect, CleanUpThen, GoOn
  <2>10. CASE CheckSourceAfter
    BY <2>10 DEF CheckSourceAfter, CleanUpThen, GoOn
  <2>11. CASE CheckCancellation
    BY <2>11 DEF CheckCancellation, CleanUpThen, GoOn
  <2>12. CASE AfterCommit
    BY <2>12 DEF AfterCommit, Collect, Conclude, CleanUpThen
  <2>13. CASE AfterCleanup
    BY <2>13 DEF AfterCleanup, Collect, Conclude
  <2>14. CASE Return
    BY <2>14 DEF Return
  <2>15. QED
    BY <1>2, <2>1, <2>2, <2>3, <2>4, <2>5, <2>6, <2>7, <2>8, <2>9, <2>10, <2>11,
          <2>12, <2>13, <2>14 DEF WorkerStep
<1>3. CASE Watch
  BY <1>3 DEF Watch, WatchFlag, WatchClock, PasswordFails, WatchChild,
        ObserveCancel, GiveUp, Reap
<1>4. CASE RequestStop
  BY <1>4 DEF RequestStop
<1>5. CASE CancelStep
  <2>1. CASE JoinOnly
    BY <2>1 DEF JoinOnly
  <2>2. CASE CancelInactive
    BY <2>2 DEF CancelInactive, CancelEnds
  <2>3. CASE CancelActive
    BY <2>3 DEF CancelActive
  <2>4. CASE CancelSet
    BY <2>4 DEF CancelSet, CancelEnds
  <2>5. QED
    BY <1>5, <2>1, <2>2, <2>3, <2>4 DEF CancelStep
<1>6. CASE ChildStep
  BY <1>6 DEF ChildStep, ChildRelaysStatus, ChildLosesConnection, ChildDiesOfSignal,
        ChildKilled, ChildExits, Success, Refused, Exists, Interrupted, NeverRan
<1>7. CASE Environment
  <2>1. CASE RemoteStarts
    BY <2>1 DEF RemoteStarts
  <2>2. CASE RemoteSteps
    BY <2>2 DEF RemoteSteps, SinkOpens, SinkReceives, SinkFails, ScriptTests,
          ScriptLinks, ScriptRemoves, CleanerRemoves
  <2>3. CASE SourceChanges
    BY <2>3 DEF SourceChanges
  <2>4. CASE OtherCreates
    BY <2>4 DEF OtherCreates
  <2>5. QED
    BY <1>7, <2>1, <2>2, <2>3, <2>4 DEF Environment
<1>8. CASE UNCHANGED vars
  BY <1>8 DEF vars, BeforeCommit
<1>9. QED
  BY <1>1, <1>2, <1>3, <1>4, <1>5, <1>6, <1>7, <1>8 DEF Next

\* A step reports an abort only for an operation that was asked to stop.
LEMMA AbortedStep ==
    ASSUME TypeOK, OpInRange, CancelInv, ProcessInv, AbortedWasAsked, [Next]_vars
    PROVE  AbortedWasAsked'
<1> USE DEF TypeOK, ProcTypeOK, OpInRange, procVars, workerVars, cancelVars, remoteVars,
             localVars, outerVars
<1> USE DEF AbortedWasAsked, CancelInv, ProcessInv, Commands, Ops
<1>1. CASE StartOperation
  BY <1>1 DEF StartOperation
<1>2. CASE WorkerStep
  <2>1. CASE ReturnEarly
    BY <2>1 DEF ReturnEarly
  <2>2. CASE Enter
    BY <2>2 DEF Enter
  <2>3. CASE ClearCancellation
    BY <2>3 DEF ClearCancellation
  <2>4. CASE Activate
    BY <2>4 DEF Activate
  <2>5. CASE SecondStopCheck
    BY <2>5 DEF SecondStopCheck, Conclude, GoOn
  <2>6. CASE CheckSourceBefore
    BY <2>6 DEF CheckSourceBefore, Conclude, GoOn
  <2>7. CASE RunCommand \/ SpawnChild
    BY <2>7 DEF RunCommand, SpawnChild, RefuseCancelled, Begin, StartChild, FailToStart
  <2>8. CASE AfterTest
    BY <2>8 DEF AfterTest, Collect, Conclude
  <2>9. CASE AfterUpload
    BY <2>9 DEF AfterUpload, Collect, CleanUpThen, GoOn
  <2>10. CASE CheckSourceAfter
    BY <2>10 DEF CheckSourceAfter, CleanUpThen, GoOn
  <2>11. CASE CheckCancellation
    BY <2>11 DEF CheckCancellation, CleanUpThen, GoOn
  <2>12. CASE AfterCommit
    BY <2>12 DEF AfterCommit, Collect, Conclude, CleanUpThen
  <2>13. CASE AfterCleanup
    BY <2>13 DEF AfterCleanup, Collect, Conclude
  <2>14. CASE Return
    BY <2>14 DEF Return
  <2>15. QED
    BY <1>2, <2>1, <2>2, <2>3, <2>4, <2>5, <2>6, <2>7, <2>8, <2>9, <2>10, <2>11,
          <2>12, <2>13, <2>14 DEF WorkerStep
<1>3. CASE Watch
  BY <1>3 DEF Watch, WatchFlag, WatchClock, PasswordFails, WatchChild,
        ObserveCancel, GiveUp, Reap
<1>4. CASE RequestStop
  BY <1>4 DEF RequestStop
<1>5. CASE CancelStep
  <2>1. CASE JoinOnly
    BY <2>1 DEF JoinOnly
  <2>2. CASE CancelInactive
    BY <2>2 DEF CancelInactive, CancelEnds
  <2>3. CASE CancelActive
    BY <2>3 DEF CancelActive
  <2>4. CASE CancelSet
    BY <2>4 DEF CancelSet, CancelEnds
  <2>5. QED
    BY <1>5, <2>1, <2>2, <2>3, <2>4 DEF CancelStep
<1>6. CASE ChildStep
  BY <1>6 DEF ChildStep, ChildRelaysStatus, ChildLosesConnection, ChildDiesOfSignal,
        ChildKilled, ChildExits, Success, Refused, Exists, Interrupted, NeverRan
<1>7. CASE Environment
  <2>1. CASE RemoteStarts
    BY <2>1 DEF RemoteStarts
  <2>2. CASE RemoteSteps
    BY <2>2 DEF RemoteSteps, SinkOpens, SinkReceives, SinkFails, ScriptTests,
          ScriptLinks, ScriptRemoves, CleanerRemoves
  <2>3. CASE SourceChanges
    BY <2>3 DEF SourceChanges
  <2>4. CASE OtherCreates
    BY <2>4 DEF OtherCreates
  <2>5. QED
    BY <1>7, <2>1, <2>2, <2>3, <2>4 DEF Environment
<1>8. CASE UNCHANGED vars
  BY <1>8 DEF vars, BeforeCommit
<1>9. QED
  BY <1>1, <1>2, <1>3, <1>4, <1>5, <1>6, <1>7, <1>8 DEF Next

-----------------------------------------------------------------------------
(* The theorems.                                                            *)

\* Every reachable state satisfies the inductive invariant.
THEOREM Invariance == Spec => [](TypeOK /\ OpInRange /\ IInv)
<1>1. Init => IInv
  <2> USE DEF Init, ProcInit
  <2>1. Init => ProcessInv /\ FreshInv /\ FutureInv /\ CurrentInv /\ UploadInv /\ AbortedWasAsked
    BY DEF ProcessInv, FreshInv, FutureInv, CurrentInv, UploadInv, AbortedWasAsked
  <2>2. Init => CommitInv
    BY OpsFacts DEF CommitInv
  <2>3. Init => CancelInv
    BY DEF CancelInv
  <2>4. QED
    BY <2>1, <2>2, <2>3 DEF IInv
<1>2. TypeOK /\ OpInRange /\ IInv /\ [Next]_vars => IInv'
  BY ProcessStep, FutureStep, CurrentStep, UploadStep, CommitStep,
     CancelStepKeeps, AbortedStep DEF IInv
<1>3. QED
  BY Typing, <1>1, <1>2, PTL DEF Spec

\* The flags, the results and the receiver's files keep their types.
THEOREM TypeCorrect == Spec => []TypeOK
BY Typing, PTL

\* The destination path never names an incomplete or a changed file.
THEOREM FinalAlwaysWhole == Spec => []FinalIsWhole
<1>1. IInv => FinalIsWhole
  BY DEF IInv, UploadInv, CommitInv, FinalIsWhole
<1>2. QED
  BY Invariance, <1>1, PTL

\* A cancel() that is over before the commit command is launched is final.
THEOREM CancelIsFinal == Spec => []CancelBeforeCommitHolds
<1>1. TypeOK /\ IInv => CancelBeforeCommitHolds
  BY DEF TypeOK, IInv, CommitInv, CancelInv, CancelBeforeCommitHolds
<1>2. QED
  BY Invariance, <1>1, PTL

\* An abort is reported only where one was asked for.
THEOREM AbortsAreAskedFor == Spec => []AbortedWasAsked
<1>1. IInv => AbortedWasAsked
  BY DEF IInv
<1>2. QED
  BY Invariance, <1>1, PTL

\* A worker that ends without a command, or after one, only reports a verdict
\* the destination agrees with.
LEMMA ReportRefines ==
    ASSUME TypeOK, op \in Ops, outcome[op] = "none", UNCHANGED final,
           NEW verdict \in Verdicts \ {"none"},
           outcome' = [outcome EXCEPT ![op] = verdict],
           verdict = "completed" => final = op,
           verdict \in {"tested", "source_changed"} => final # op,
           verdict = "destination_file_exists" => final # Absent /\ final # op
    PROVE  Delivery!Next
<1>1. Delivery!Report(op)
  BY DEF Delivery!Report, Delivery!Verdicts, Verdicts, Delivery!Absent, Absent
<1>2. QED
  BY <1>1 DEF Delivery!Next, Delivery!Ops, Ops

\* transfer(), test_connection() and the remote commands implement AtomicDelivery.
THEOREM DeliveryRefinement == Spec => DeliverySpec
<1>1. Init => Delivery!Init
  BY DEF Init, Delivery!Init, Delivery!Ops, Ops, Delivery!Absent, Absent,
         Delivery!Foreign, Foreign
<1>2. TypeOK /\ OpInRange /\ IInv /\ [Next]_vars => [Delivery!Next]_<<final, outcome>>
  <2> SUFFICES ASSUME TypeOK, OpInRange, IInv, [Next]_vars
               PROVE  Delivery!Next \/ UNCHANGED <<final, outcome>>
    OBVIOUS
  <2> USE DEF remoteVars, workerVars, cancelVars, localVars, outerVars
  <2>0. pc # "idle" => op \in Ops
    BY DEF OpInRange
  <2>1. pc \notin {"idle", "returning"} => outcome[op] = "none"
    BY DEF IInv, CurrentInv
  <2>2. CASE StartOperation
    BY <2>2 DEF StartOperation
  <2>3. CASE WorkerStep
    <3>1. CASE ReturnEarly
      <4>1. UNCHANGED final /\ outcome' = [outcome EXCEPT ![op] = IF stop THEN "aborted" ELSE "failed"]
        BY <3>1 DEF ReturnEarly
      <4>2. QED
        BY <4>1, <3>1, <2>0, <2>1, ReportRefines DEF ReturnEarly, Verdicts
    <3>2. CASE Enter \/ ClearCancellation \/ Activate \/ RunCommand \/ SpawnChild \/ Return
      BY <3>2 DEF Enter, ClearCancellation, Activate, RunCommand, SpawnChild, Return
    <3>3. CASE SecondStopCheck
      BY <3>3, <2>0, <2>1, ReportRefines DEF SecondStopCheck, Conclude, GoOn, Verdicts
    <3>4. CASE CheckSourceBefore
      <4>1. final # op
        BY <3>4, <2>0 DEF CheckSourceBefore, IInv, CommitInv, BeforeCommit
      <4>2. QED
        BY <3>4, <4>1, <2>0, <2>1, ReportRefines
           DEF CheckSourceBefore, Conclude, GoOn, Verdicts
    <3>5. CASE AfterTest
      <4>1. final # op
        BY <3>5, <2>0 DEF AfterTest, IInv, CommitInv, BeforeCommit
      <4>2. QED
        BY <3>5, <4>1, <2>0, <2>1, ReportRefines DEF AfterTest, Conclude, Verdicts
    <3>6. CASE AfterUpload \/ CheckSourceAfter \/ CheckCancellation
      BY <3>6 DEF AfterUpload, CheckSourceAfter, CheckCancellation, CleanUpThen, GoOn
    <3>7. CASE AfterCommit
      <4>1. CASE ~cancelled /\ code = Success
        <5>1. final = op
          BY <3>7, <4>1, <2>0 DEF AfterCommit, Collect, IInv, CommitInv
        <5>2. QED
          BY <3>7, <4>1, <5>1, <2>0, <2>1, ReportRefines DEF AfterCommit, Conclude, Verdicts
      <4>2. CASE ~(~cancelled /\ code = Success)
        BY <3>7, <4>2 DEF AfterCommit, CleanUpThen
      <4>3. QED
        BY <4>1, <4>2
    <3>8. CASE AfterCleanup
      <4> DEFINE verdict == IF onCleanup # "undecided" THEN onCleanup
                            ELSE IF cancelFlag THEN "aborted" ELSE "failed"
      <4>1. UNCHANGED final /\ outcome' = [outcome EXCEPT ![op] = verdict] /\ pc = "cleanup"
        BY <3>8 DEF AfterCleanup, Conclude
      <4>2. verdict \in Verdicts \ {"none", "tested", "completed"}
        BY <4>1 DEF TypeOK, IInv, CommitInv, Verdicts
      <4>3. verdict = "source_changed" => final # op
        BY <4>1, <2>0 DEF IInv, CommitInv
      <4>4. verdict = "destination_file_exists" => final # Absent /\ final # op
        BY <4>1, <2>0 DEF IInv, CommitInv
      <4> HIDE DEF verdict
      <4>5. QED
        BY <4>1, <4>2, <4>3, <4>4, <2>0, <2>1, ReportRefines
    <3>9. QED
      BY <2>3, <3>1, <3>2, <3>3, <3>4, <3>5, <3>6, <3>7, <3>8 DEF WorkerStep
  <2>4. CASE Watch
    BY <2>4 DEF Watch, WatchFlag, WatchClock, PasswordFails, WatchChild
  <2>5. CASE RequestStop
    BY <2>5 DEF RequestStop
  <2>6. CASE CancelStep
    BY <2>6 DEF CancelStep, JoinOnly, CancelInactive, CancelActive, CancelSet
  <2>7. CASE ChildStep
    BY <2>7 DEF ChildStep, ChildRelaysStatus, ChildLosesConnection, ChildDiesOfSignal
  <2>8. CASE Environment
    <3>1. CASE RemoteStarts \/ SourceChanges
      BY <3>1 DEF RemoteStarts, SourceChanges
    <3>2. CASE RemoteSteps
      <4> SUFFICES ASSUME NEW o \in Ops,
                          \/ SinkOpens(o) \/ SinkReceives(o) \/ SinkFails(o)
                          \/ ScriptTests(o) \/ ScriptLinks(o) \/ ScriptRemoves(o)
                          \/ CleanerRemoves(o)
                   PROVE  Delivery!Next \/ UNCHANGED <<final, outcome>>
        BY <3>2 DEF RemoteSteps
      <4>1. CASE ScriptLinks(o)
        <5>1. outcome[o] \in Delivery!Open
          BY <4>1 DEF ScriptLinks, IInv, CommitInv, TypeOK, Verdicts, Delivery!Open
        <5>2. Delivery!Publish(o) \/ UNCHANGED <<final, outcome>>
          BY <4>1, <5>1 DEF ScriptLinks, Delivery!Publish, Delivery!Absent, Absent
        <5>3. QED
          BY <5>2 DEF Delivery!Next, Delivery!Ops, Ops
      <4>2. CASE \/ SinkOpens(o) \/ SinkReceives(o) \/ SinkFails(o)
                 \/ ScriptTests(o) \/ ScriptRemoves(o) \/ CleanerRemoves(o)
        BY <4>2 DEF SinkOpens, SinkReceives, SinkFails, ScriptTests, ScriptRemoves,
                    CleanerRemoves
      <4>3. QED
        BY <4>1, <4>2
    <3>3. CASE OtherCreates
      BY <3>3 DEF OtherCreates, Delivery!Next, Delivery!Occupy, Delivery!Absent, Absent,
                  Delivery!Foreign, Foreign
    <3>4. QED
      BY <2>8, <3>1, <3>2, <3>3 DEF Environment
  <2>9. CASE UNCHANGED vars
    BY <2>9 DEF vars
  <2>10. QED
    BY <2>2, <2>3, <2>4, <2>5, <2>6, <2>7, <2>8, <2>9 DEF Next
<1>3. QED
  BY Invariance, <1>1, <1>2, PTL DEF Spec, DeliverySpec, Delivery!Spec

-----------------------------------------------------------------------------
(* Staging files.                                                           *)

\* Only the current transfer has a staging file, and only from its upload on.
StagingInv ==
    /\ \A o \in staged : o = op
    /\ op \in staged => pc \in {"upload", "recheck", "checkcancel", "commit", "cleanup"}

\* What the remote commands have done: a commit command that has ended, either way,
\* and a cleanup that has ended have removed the staging name.
RemovedInv ==
    /\ \A o \in Ops : o > op => cleaner[o] = "none"
    /\ pc \in {"called", "entered", "cleared", "active", "fstat", "testing", "upload",
               "recheck", "checkcancel", "commit"} => cleaner[op] = "none"
    /\ \A o \in Ops : script[o] \in {"exit0", "exit1", "exit17"} => o \notin staged
    /\ \A o \in Ops : cleaner[o] = "done" => o \notin staged

\* The cleanup command is not cancelled, and ends when it has done its work.
CleanupInv ==
    /\ phase \in {"idle", "starting"} => ~terminating
    /\ pc = "cleanup" /\ phase # "idle" => ~cancellable /\ ~terminating
    /\ pc = "cleanup" /\ (phase = "returned" \/ (phase = "running" /\ ~alive))
         => cleaner[op] = "done"

TidyInv == StagingInv /\ RemovedInv /\ CleanupInv

\* A step without a fault keeps the cleanup's command going.
LEMMA CleanupStep ==
    ASSUME TypeOK, OpInRange, IInv, RemovedInv, CleanupInv, Undisturbed!Next
    PROVE  CleanupInv'
<1> USE DEF TypeOK, ProcTypeOK, OpInRange, IInv, ProcessInv, RemovedInv, CleanupInv, Commands
<1> USE DEF Undisturbed!procVars, Undisturbed!workerVars, Undisturbed!cancelVars,
            Undisturbed!remoteVars, Undisturbed!localVars, Undisturbed!outerVars
<1>1. CASE Undisturbed!StartOperation
  BY <1>1 DEF Undisturbed!StartOperation
<1>2. CASE Undisturbed!WorkerStep
  <2> USE DEF Undisturbed!Conclude, Undisturbed!GoOn, Undisturbed!CleanUpThen,
              Undisturbed!Collect
  <2>1. CASE \/ Undisturbed!ReturnEarly \/ Undisturbed!Enter
             \/ Undisturbed!ClearCancellation \/ Undisturbed!Activate
    BY <2>1 DEF Undisturbed!ReturnEarly, Undisturbed!Enter, Undisturbed!ClearCancellation,
                Undisturbed!Activate
  <2>2. CASE Undisturbed!SecondStopCheck \/ Undisturbed!CheckSourceBefore
    BY <2>2 DEF Undisturbed!SecondStopCheck, Undisturbed!CheckSourceBefore
  <2>3. CASE Undisturbed!RunCommand
    <3>1. CASE pc = "cleanup"
      <4>1. phase' = "starting" /\ cancellable' = FALSE /\ UNCHANGED <<terminating, pc>>
            /\ ~terminating
        BY <2>3, <3>1, Zenon DEF Undisturbed!RunCommand, Undisturbed!RefuseCancelled,
                                 Undisturbed!Begin
      <4>2. QED
        BY <4>1
    <3>2. CASE pc # "cleanup"
      BY <2>3, <3>2 DEF Undisturbed!RunCommand, Undisturbed!RefuseCancelled,
                        Undisturbed!Begin
    <3>3. QED
      BY <3>1, <3>2
  <2>4. CASE Undisturbed!SpawnChild
    BY <2>4 DEF Undisturbed!SpawnChild, Undisturbed!StartChild
  <2>5. CASE Undisturbed!AfterTest \/ Undisturbed!AfterUpload
    BY <2>5 DEF Undisturbed!AfterTest, Undisturbed!AfterUpload
  <2>6. CASE Undisturbed!CheckSourceAfter \/ Undisturbed!CheckCancellation
    BY <2>6 DEF Undisturbed!CheckSourceAfter, Undisturbed!CheckCancellation
  <2>7. CASE Undisturbed!AfterCommit \/ Undisturbed!AfterCleanup
    BY <2>7 DEF Undisturbed!AfterCommit, Undisturbed!AfterCleanup
  <2>8. CASE Undisturbed!Return
    BY <2>8 DEF Undisturbed!Return
  <2>9. QED
    BY <1>2, <2>1, <2>2, <2>3, <2>4, <2>5, <2>6, <2>7, <2>8 DEF Undisturbed!WorkerStep
<1>3. CASE Undisturbed!Watch
  BY <1>3 DEF Undisturbed!Watch, Undisturbed!WatchFlag, Undisturbed!WatchClock,
              Undisturbed!PasswordFails, Undisturbed!WatchChild,
              Undisturbed!ObserveCancel, Undisturbed!Reap
<1>4. CASE Undisturbed!RequestStop \/ Undisturbed!CancelStep
  BY <1>4 DEF Undisturbed!RequestStop, Undisturbed!CancelStep, Undisturbed!JoinOnly,
              Undisturbed!CancelInactive, Undisturbed!CancelActive, Undisturbed!CancelSet
<1>5. CASE Undisturbed!ChildStep
  BY <1>5 DEF Undisturbed!ChildStep, Undisturbed!ChildRelaysStatus,
              Undisturbed!ChildLosesConnection, Undisturbed!ChildDiesOfSignal,
              Undisturbed!ChildKilled, Undisturbed!ChildExits
<1>6. CASE Undisturbed!Environment
  BY <1>6 DEF Undisturbed!Environment, Undisturbed!RemoteStarts, Undisturbed!RemoteSteps,
              Undisturbed!SinkOpens, Undisturbed!SinkReceives, Undisturbed!SinkFails,
              Undisturbed!ScriptTests, Undisturbed!ScriptLinks, Undisturbed!ScriptRemoves,
              Undisturbed!CleanerRemoves, Undisturbed!SourceChanges,
              Undisturbed!OtherCreates
<1>7. QED
  BY <1>1, <1>2, <1>3, <1>4, <1>5, <1>6 DEF Undisturbed!Next

\* The places of an operation that has not ended, and those where its transfer may
\* have a staging file.
Staging == {"upload", "recheck", "checkcancel", "commit", "cleanup"}
Started == {"called", "entered", "cleared", "active", "fstat", "testing", "upload",
            "recheck", "checkcancel", "commit"}

\* Steps that leave the receiver alone, and the operation only where its staging file
\* is gone.
LEMMA LocalMove ==
    ASSUME StagingInv, RemovedInv, UNCHANGED <<op, staged, script, cleaner>>,
           op \in staged => pc' \in Staging,
           pc' \in Started => pc \in Started
    PROVE  StagingInv' /\ RemovedInv'
BY DEF StagingInv, RemovedInv, Staging, Started, Ops

\* A step without a fault creates a staging name in the upload only, and leaves the
\* operation by a way that has removed it.
LEMMA StagingStep ==
    ASSUME TypeOK, OpInRange, IInv, TidyInv, Undisturbed!Next
    PROVE  StagingInv' /\ RemovedInv'
<1> USE DEF Undisturbed!procVars, Undisturbed!workerVars, Undisturbed!cancelVars,
            Undisturbed!remoteVars, Undisturbed!localVars, Undisturbed!outerVars
<1>0. StagingInv /\ RemovedInv /\ CleanupInv
  BY DEF TidyInv
<1>1. CASE Undisturbed!StartOperation
  <2>1. /\ pc = "idle" /\ pc' = "called" /\ op' = op + 1 /\ op < MaxOps /\ op \in 0 .. MaxOps
        /\ UNCHANGED <<staged, script, cleaner>>
    BY <1>1 DEF Undisturbed!StartOperation, TypeOK
  <2>2. staged = {}
    BY <1>0, <2>1 DEF StagingInv
  <2>3. \A o \in Ops : o > op => cleaner[o] = "none"
    BY <1>0 DEF RemovedInv
  <2>4. op' \in Ops /\ op' > op
    BY <2>1, MaxOpsAssumption DEF Ops
  <2>5. cleaner'[op'] = "none"
    BY <2>1, <2>3, <2>4
  <2>6. \A o \in Ops : o > op' => cleaner'[o] = "none"
    BY <2>1, <2>3 DEF Ops
  <2>7. RemovedInv'
    BY <2>1, <2>2, <2>5, <2>6 DEF RemovedInv
  <2>8. QED
    BY <2>1, <2>2, <2>7 DEF StagingInv
<1>2. CASE Undisturbed!WorkerStep
  <2> USE DEF Undisturbed!Conclude, Undisturbed!GoOn, Undisturbed!CleanUpThen
  <2>1. UNCHANGED <<op, staged, script, cleaner>>
    BY <1>2 DEF Undisturbed!WorkerStep, Undisturbed!ReturnEarly, Undisturbed!Enter,
       Undisturbed!ClearCancellation, Undisturbed!Activate, Undisturbed!SecondStopCheck,
       Undisturbed!CheckSourceBefore, Undisturbed!RunCommand, Undisturbed!SpawnChild,
       Undisturbed!AfterTest, Undisturbed!AfterUpload, Undisturbed!CheckSourceAfter,
       Undisturbed!CheckCancellation, Undisturbed!AfterCommit, Undisturbed!AfterCleanup,
       Undisturbed!Return
  <2>2. pc' \in Started => pc \in Started
    BY <1>2 DEF Started, Undisturbed!WorkerStep, Undisturbed!ReturnEarly,
       Undisturbed!Enter, Undisturbed!ClearCancellation, Undisturbed!Activate,
       Undisturbed!SecondStopCheck, Undisturbed!CheckSourceBefore,
       Undisturbed!RunCommand, Undisturbed!SpawnChild, Undisturbed!AfterTest,
       Undisturbed!AfterUpload, Undisturbed!CheckSourceAfter,
       Undisturbed!CheckCancellation, Undisturbed!AfterCommit,
       Undisturbed!AfterCleanup, Undisturbed!Return
  <2>3. ASSUME op \in staged PROVE pc' \in Staging
    <3>1. pc \in Staging /\ op \in Ops
      BY <1>0, <2>3 DEF StagingInv, Staging, TypeOK
    <3>2. CASE Undisturbed!AfterCommit
      <4>1. pc = "commit" /\ phase = "returned"
        BY <3>2 DEF Undisturbed!AfterCommit, Undisturbed!Collect
      <4>2. ~(~cancelled /\ code = Success)
        BY <1>0, <2>3, <3>1, <4>1 DEF RemovedInv, IInv, CommitInv
      <4>3. pc' = "cleanup"
        BY <3>2, <4>2 DEF Undisturbed!AfterCommit, Undisturbed!Success, Success
      <4>4. QED
        BY <4>3 DEF Staging
    <3>3. CASE Undisturbed!AfterCleanup
      <4>1. pc = "cleanup" /\ phase = "returned"
        BY <3>3 DEF Undisturbed!AfterCleanup, Undisturbed!Collect
      <4>2. QED
        BY <1>0, <2>3, <3>1, <4>1 DEF RemovedInv, CleanupInv
    <3>4. CASE \/ Undisturbed!RunCommand \/ Undisturbed!SpawnChild
               \/ Undisturbed!AfterUpload \/ Undisturbed!CheckSourceAfter
               \/ Undisturbed!CheckCancellation
      BY <3>1, <3>4 DEF Staging, Undisturbed!RunCommand, Undisturbed!SpawnChild,
         Undisturbed!AfterUpload, Undisturbed!CheckSourceAfter,
         Undisturbed!CheckCancellation
    <3>5. CASE \/ Undisturbed!ReturnEarly \/ Undisturbed!Enter
               \/ Undisturbed!ClearCancellation \/ Undisturbed!Activate
               \/ Undisturbed!SecondStopCheck \/ Undisturbed!CheckSourceBefore
               \/ Undisturbed!AfterTest \/ Undisturbed!Return
      BY <3>1, <3>5 DEF Staging, Undisturbed!ReturnEarly, Undisturbed!Enter,
         Undisturbed!ClearCancellation, Undisturbed!Activate,
         Undisturbed!SecondStopCheck, Undisturbed!CheckSourceBefore,
         Undisturbed!AfterTest, Undisturbed!Return
    <3>6. QED
      BY <1>2, <3>2, <3>3, <3>4, <3>5 DEF Undisturbed!WorkerStep
  <2>4. QED
    BY <1>0, <2>1, <2>2, <2>3, LocalMove
<1>3. CASE \/ Undisturbed!Watch \/ Undisturbed!RequestStop \/ Undisturbed!CancelStep
           \/ Undisturbed!ChildStep \/ Undisturbed!SourceChanges \/ Undisturbed!OtherCreates
  <2>1. UNCHANGED <<pc, op, staged, script, cleaner>>
    BY <1>3 DEF Undisturbed!Watch, Undisturbed!WatchFlag, Undisturbed!WatchClock,
       Undisturbed!PasswordFails, Undisturbed!WatchChild, Undisturbed!RequestStop,
       Undisturbed!CancelStep, Undisturbed!JoinOnly, Undisturbed!CancelInactive,
       Undisturbed!CancelActive, Undisturbed!CancelSet, Undisturbed!ChildStep,
       Undisturbed!ChildRelaysStatus, Undisturbed!ChildLosesConnection,
       Undisturbed!ChildDiesOfSignal, Undisturbed!SourceChanges, Undisturbed!OtherCreates
  <2>2. QED
    BY <1>0, <2>1, LocalMove DEF StagingInv, Staging
<1>4. CASE Undisturbed!RemoteStarts
  <2>1. UNCHANGED <<pc, op, staged>> /\ alive
    BY <1>4 DEF Undisturbed!RemoteStarts
  <2>2. \A o \in Ops : /\ script'[o] = script[o] \/ script'[o] = "test"
                       /\ cleaner'[o] = cleaner[o]
                            \/ (o = op /\ pc = "cleanup" /\ cleaner'[o] = "started")
    BY <1>4 DEF Undisturbed!RemoteStarts, TypeOK
  <2>3. pc # "idle" => op \in Ops
    BY DEF OpInRange
  <2>4. QED
    BY <1>0, <2>1, <2>2, <2>3 DEF StagingInv, RemovedInv, Ops
<1>5. ASSUME NEW o \in Ops,
             \/ Undisturbed!SinkOpens(o) \/ Undisturbed!SinkReceives(o)
             \/ Undisturbed!SinkFails(o)
             \/ Undisturbed!ScriptTests(o) \/ Undisturbed!ScriptLinks(o)
             \/ Undisturbed!ScriptRemoves(o) \/ Undisturbed!CleanerRemoves(o)
      PROVE  StagingInv' /\ RemovedInv'
  <2>1. UNCHANGED <<pc, op>>
    BY <1>5 DEF Undisturbed!SinkOpens, Undisturbed!SinkReceives, Undisturbed!SinkFails,
       Undisturbed!ScriptTests, Undisturbed!ScriptLinks, Undisturbed!ScriptRemoves,
       Undisturbed!CleanerRemoves
  <2>2. CASE Undisturbed!SinkOpens(o)
    <3>1. /\ o = op /\ pc = "upload" /\ staged' = staged \cup {op}
          /\ UNCHANGED <<script, cleaner>>
      BY <2>2 DEF Undisturbed!SinkOpens, Undisturbed!Attached
    <3>2. script[op] = "none" /\ cleaner[op] = "none"
      BY <1>0, <3>1 DEF RemovedInv, IInv, CommitInv, BeforeCommit
    <3>3. QED
      BY <1>0, <2>1, <3>1, <3>2 DEF StagingInv, RemovedInv, Ops
  <2>3. CASE Undisturbed!SinkReceives(o) \/ Undisturbed!SinkFails(o)
    <3>1. UNCHANGED <<staged, script, cleaner>>
      BY <2>3 DEF Undisturbed!SinkReceives, Undisturbed!SinkFails
    <3>2. QED
      BY <1>0, <2>1, <3>1, LocalMove DEF StagingInv, Staging
  <2>4. CASE Undisturbed!ScriptTests(o) \/ Undisturbed!ScriptLinks(o)
    <3>1. /\ UNCHANGED <<staged, cleaner>>
          /\ \A p \in Ops : script'[p] = script[p]
                            \/ script'[p] \notin {"exit0", "exit1", "exit17"}
      BY <2>4 DEF Undisturbed!ScriptTests, Undisturbed!ScriptLinks, TypeOK
    <3>2. QED
      BY <1>0, <2>1, <3>1 DEF StagingInv, RemovedInv, Ops
  <2>5. CASE Undisturbed!ScriptRemoves(o)
    <3>1. /\ staged' = staged \ {o} /\ UNCHANGED cleaner
          /\ \A p \in Ops \ {o} : script'[p] = script[p]
      BY <2>5 DEF Undisturbed!ScriptRemoves, TypeOK
    <3>2. QED
      BY <1>0, <2>1, <3>1 DEF StagingInv, RemovedInv, Ops
  <2>6. CASE Undisturbed!CleanerRemoves(o)
    <3>1. /\ o = op /\ pc = "cleanup" /\ staged' = staged \ {o} /\ UNCHANGED script
          /\ \A p \in Ops \ {o} : cleaner'[p] = cleaner[p]
      BY <2>6 DEF Undisturbed!CleanerRemoves, Undisturbed!Attached, TypeOK
    <3>2. QED
      BY <1>0, <2>1, <3>1 DEF StagingInv, RemovedInv, Ops
  <2>7. QED
    BY <1>5, <2>2, <2>3, <2>4, <2>5, <2>6
<1>6. CASE Undisturbed!RemoteSteps
  BY <1>5, <1>6 DEF Undisturbed!RemoteSteps, Undisturbed!Ops, Ops
<1>7. QED
  BY <1>1, <1>2, <1>3, <1>4, <1>6 DEF Undisturbed!Next, Undisturbed!Environment

\* The history variable only remembers: a behaviour of the instance is one of
\* Transport.
LEMMA InstanceIsTransport == MCSpec => Spec
<1>1. MCInit => Init
  BY DEF MCInit
<1>2. [MCNext]_<<vars, disturbed>> => [Next]_vars
  BY DEF MCNext
<1>3. QED
  BY <1>1, <1>2, PTL DEF MCSpec, Spec

\* transfer(): whatever the way out of it, by success, cancel, a changed source, an
\* existing destination or a failed upload, the staging file is gone when it returns,
\* unless the network or a machine has not done its part.
THEOREM StagingIsAlwaysRemoved == MCSpec => []TidyUnlessDisturbed
<1>1. MCInit => (~disturbed => TidyInv)
  BY DEF MCInit, Init, ProcInit, TidyInv, StagingInv, RemovedInv, CleanupInv
<1>2. ASSUME TypeOK, OpInRange, IInv, ~disturbed => TidyInv, [MCNext]_<<vars, disturbed>>
      PROVE  (~disturbed => TidyInv)'
  <2>1. CASE MCNext
    <3>1. SUFFICES ASSUME ~disturbed' PROVE TidyInv'
      OBVIOUS
    <3>2. ~disturbed /\ Undisturbed!Next
      BY <2>1, <3>1, Zenon DEF MCNext
    <3>3. QED
      BY <1>2, <3>2, CleanupStep, StagingStep DEF TidyInv
  <2>2. CASE UNCHANGED <<vars, disturbed>>
    <3>1. UNCHANGED <<phase, alive, terminating, cancellable, pc, op, staged, script, cleaner,
                      disturbed>>
      BY <2>2 DEF vars, localVars, remoteVars, procVars, workerVars
    <3>2. QED
      BY <1>2, <3>1 DEF TidyInv, StagingInv, RemovedInv, CleanupInv, Ops
  <2>3. QED
    BY <1>2, <2>1, <2>2
<1>3. ASSUME TypeOK, OpInRange, IInv, ~disturbed => TidyInv
      PROVE  TidyUnlessDisturbed
  <2>1. SUFFICES ASSUME ~disturbed, NEW o \in Ops, outcome[o] # "none", o \in staged
                 PROVE  FALSE
    BY DEF TidyUnlessDisturbed, NothingLeftBehind
  <2>2. o = op /\ pc \in {"upload", "recheck", "checkcancel", "commit", "cleanup"}
    BY <1>3, <2>1 DEF TidyInv, StagingInv
  <2>3. QED
    BY <1>3, <2>1, <2>2 DEF IInv, CurrentInv
<1>4. QED
  BY <1>1, <1>2, <1>3, InstanceIsTransport, Invariance, PTL DEF MCSpec
=============================================================================
