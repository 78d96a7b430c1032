------------------------- MODULE ProcessRunnerProofs -------------------------
(***************************************************************************)
(* What holds of ProcessRunner for every number of calls, whether or not   *)
(* the kernel gives pids out again, when SIGCHLD is not ignored.           *)
(***************************************************************************)
EXTENDS ProcessRunner, TLAPS

USE MaxCallsAssumption, KernelAssumption

\* The part of TypeOK about flags, which is Zenon's where an action sets one.
FlagsOK ==
    /\ cancellable \in BOOLEAN /\ hasTimeout \in BOOLEAN
    /\ cancelFlag \in BOOLEAN /\ terminating \in BOOLEAN /\ cancelled \in BOOLEAN
    /\ passwordSent \in BOOLEAN
    /\ timeUp \in BOOLEAN /\ graceUp \in BOOLEAN

\* The child of the call, place by place; a pid is published only where the loop
\* cannot have reaped it.
LoopInv ==
    /\ sigchldIgnored = FALSE
    /\ place # "idle" => call \in Calls
    /\ \A p \in Calls : p > call => process[p] = "none"
    /\ place = "setup" => process[call] = "none"
    /\ place \in {"publish"} \cup Turn => process[call] \in {"forked", "running", "zombie"}
    /\ place \in {"idle", "drain", "returned"} => ~Alive
    /\ activeProcess # NoPid =>
          /\ activeProcess = call /\ cancellable
          /\ place \in {"read", "withdraw", "flag", "clock", "escalate"}

\* The result is the default one up to the loop's end, then the child's status.
ResultInv ==
    /\ place \notin {"drain", "returned"} => exitCode = NeverRan
    /\ place = "drain" => exitCode = status
    /\ place = "returned" => exitCode \in {status, NeverRan}
    /\ place \in {"idle", "setup"} => status = NeverRan /\ terminating = FALSE
    /\ place = "idle" => cancelled = FALSE


\* kill() leaves a signal that exists and a culprit that exists.
LEMMA SignalTypes ==
    ASSUME TypeOK
    PROVE  /\ \A p \in Nat : \A s \in {"TERM", "KILL"}, who \in {"loop", "cancel"} :
                Kill(p, s, who) => signal' \in {"none", "TERM", "KILL"}
                                   /\ hit' \in SUBSET {"loop", "cancel"}
           /\ NoKill => signal' \in {"none", "TERM", "KILL"}
                         /\ hit' \in SUBSET {"loop", "cancel"}
<1>1. ASSUME NEW p \in Nat, NEW s \in {"TERM", "KILL"}, NEW who \in {"loop", "cancel"},
             Kill(p, s, who)
      PROVE  signal' \in {"none", "TERM", "KILL"} /\ hit' \in SUBSET {"loop", "cancel"}
  BY <1>1 DEF Kill, TypeOK
<1>2. QED
  BY <1>1 DEF NoKill, TypeOK

\* A step keeps the types.
LEMMA TypeStep ==
    ASSUME TypeOK, place # "idle" => call \in Calls, [Next]_vars
    PROVE  TypeOK'
<1> USE DEF TypeOK, Places, Statuses, Turn, NoPid, Calls, Success, NeverRan, Interrupted
<1> USE DEF callVars, resultVars, cancelVars, childVars, clockVars
<1>1. CASE Enter
  <2>1. FlagsOK'
    BY <1>1, ZenonT(60) DEF FlagsOK, Enter
  <2>2. QED
    BY <1>1, <2>1 DEF FlagsOK, Enter
<1>2. CASE SetupFails
  BY <1>2 DEF SetupFails
<1>3. CASE Fork
  BY <1>3 DEF Fork
<1>4. CASE Publish
  BY <1>4 DEF Publish
<1>5. CASE Read
  <2>1. FlagsOK'
    <3>1. CASE output = "prompt" /\ ~passwordSent
      <4>1. passwordSent' = TRUE /\ (terminating' = TRUE \/ terminating' = terminating)
        BY <1>5, <3>1, ZenonT(60) DEF Read, HandleOutput
      <4>2. passwordSent' \in BOOLEAN /\ terminating' \in BOOLEAN
        BY <4>1, ZenonT(60)
      <4>3. QED
        BY <1>5, <4>2 DEF FlagsOK, Read
    <3>2. CASE ~(output = "prompt" /\ ~passwordSent)
      BY <1>5, <3>2 DEF FlagsOK, Read, HandleOutput
    <3>3. QED
      BY <3>1, <3>2
  <2>2. signal' \in {"none", "TERM", "KILL"} /\ hit' \in SUBSET {"loop", "cancel"}
    BY <1>5, SignalTypes DEF Read, HandleOutput
  <2>3. QED
    BY <1>5, <2>1, <2>2 DEF FlagsOK, Read, HandleOutput
<1>6. CASE Withdraw
  BY <1>6 DEF Withdraw
<1>7. CASE Wait
  BY <1>7 DEF Wait
<1>8. CASE Republish
  BY <1>8 DEF Republish
<1>9. CASE CheckFlag
  <2>1. FlagsOK'
    <3>1. CASE ~terminating /\ cancellable /\ cancelFlag
      BY <1>9, <3>1, ZenonT(60) DEF FlagsOK, CheckFlag
    <3>2. CASE ~(~terminating /\ cancellable /\ cancelFlag)
      BY <1>9, <3>2 DEF FlagsOK, CheckFlag
    <3>3. QED
      BY <3>1, <3>2
  <2>2. signal' \in {"none", "TERM", "KILL"} /\ hit' \in SUBSET {"loop", "cancel"}
    BY <1>9, SignalTypes DEF CheckFlag
  <2>3. QED
    BY <1>9, <2>1, <2>2 DEF FlagsOK, CheckFlag
<1>10. CASE CheckClock
  <2>1. FlagsOK'
    <3>1. CASE ~terminating /\ timeUp
      BY <1>10, <3>1, ZenonT(60) DEF FlagsOK, CheckClock
    <3>2. CASE ~(~terminating /\ timeUp)
      BY <1>10, <3>2 DEF FlagsOK, CheckClock
    <3>3. QED
      BY <3>1, <3>2
  <2>2. signal' \in {"none", "TERM", "KILL"} /\ hit' \in SUBSET {"loop", "cancel"}
    BY <1>10, SignalTypes DEF CheckClock
  <2>3. QED
    BY <1>10, <2>1, <2>2 DEF FlagsOK, CheckClock
<1>11. CASE Escalate
  <2>1. signal' \in {"none", "TERM", "KILL"} /\ hit' \in SUBSET {"loop", "cancel"}
    BY <1>11, SignalTypes DEF Escalate
  <2>2. QED
    BY <1>11, <2>1 DEF Escalate
<1>12. CASE Drain
  <2>1. FlagsOK'
    <3>1. CASE output = "prompt" /\ ~passwordSent
      <4>1. passwordSent' = TRUE /\ (terminating' = TRUE \/ terminating' = terminating)
        BY <1>12, <3>1, ZenonT(60) DEF Drain, HandleOutput
      <4>2. passwordSent' \in BOOLEAN /\ terminating' \in BOOLEAN
        BY <4>1, ZenonT(60)
      <4>3. QED
        BY <1>12, <4>2 DEF FlagsOK, Drain
    <3>2. CASE ~(output = "prompt" /\ ~passwordSent)
      BY <1>12, <3>2 DEF FlagsOK, Drain, HandleOutput
    <3>3. QED
      BY <3>1, <3>2
  <2>2. signal' \in {"none", "TERM", "KILL"} /\ hit' \in SUBSET {"loop", "cancel"}
    BY <1>12, SignalTypes DEF Drain, HandleOutput
  <2>3. QED
    BY <1>12, <2>1, <2>2 DEF FlagsOK, Drain, HandleOutput
<1>13. CASE Collect
  <2>1. FlagsOK'
    BY <1>13, ZenonT(60) DEF FlagsOK, Collect
  <2>2. QED
    BY <1>13, <2>1 DEF FlagsOK, Collect
<1>14. CASE RaiseFlag
  <2>1. cancelFlag' \in BOOLEAN
    BY <1>14, ZenonT(60) DEF RaiseFlag
  <2>2. QED
    BY <1>14, <2>1 DEF RaiseFlag
<1>15. CASE LoadPid
  BY <1>15 DEF LoadPid
<1>16. CASE KillPid
  <2>1. signal' \in {"none", "TERM", "KILL"} /\ hit' \in SUBSET {"loop", "cancel"}
    BY <1>16, SignalTypes DEF KillPid
  <2>2. QED
    BY <1>16, <2>1 DEF KillPid
<1>17. CASE ClearFlag
  <2>1. cancelFlag' \in BOOLEAN
    BY <1>17, ZenonT(60) DEF ClearFlag
  <2>2. QED
    BY <1>17, <2>1 DEF ClearFlag
<1>18. CASE ChildExecs
  BY <1>18 DEF ChildExecs, ChildStep, Alive
<1>19. CASE ChildPrompts
  BY <1>19 DEF ChildPrompts, ChildStep
<1>20. CASE ChildExits
  BY <1>20 DEF ChildExits, Ends, ChildStep, Alive
<1>21. CASE ChildDiesOfSignal
  BY <1>21 DEF ChildDiesOfSignal, Ends, ChildStep, Alive
<1>22. CASE Recycle
  BY <1>22 DEF Recycle, ChildStep
<1>23. CASE TimeRunsOut
  <2>1. timeUp' \in BOOLEAN /\ graceUp' \in BOOLEAN
    <3>1. CASE hasTimeout /\ ~timeUp /\ timeUp' = TRUE /\ UNCHANGED graceUp
      BY <3>1, ZenonT(60)
    <3>2. CASE terminating /\ ~graceUp /\ graceUp' = TRUE /\ UNCHANGED timeUp
      BY <3>2, ZenonT(60)
    <3>3. QED
      BY <1>23, <3>1, <3>2 DEF TimeRunsOut
  <2>2. QED
    BY <1>23, <2>1 DEF TimeRunsOut
<1>24. CASE UNCHANGED vars
  BY <1>24 DEF vars
<1>25. QED
  BY <1>1, <1>2, <1>3, <1>4, <1>5, <1>6, <1>7, <1>8, <1>9, <1>10, <1>11, <1>12,
        <1>13, <1>14, <1>15, <1>16, <1>17, <1>18, <1>19, <1>20, <1>21, <1>22, <1>23,
        <1>24 DEF Next, Run, Loop

\* A step keeps LoopInv: Withdraw comes before Wait, and Republish only after a
\* waitpid that found the child running.
LEMMA LoopStep ==
    ASSUME TypeOK, LoopInv, [Next]_vars
    PROVE  LoopInv'
<1> USE DEF TypeOK, LoopInv, Places, Turn, NoPid, Calls, Alive
<1> USE DEF callVars, resultVars, cancelVars, childVars, clockVars
<1>1. CASE Enter
  BY <1>1 DEF Enter
<1>2. CASE SetupFails
  BY <1>2 DEF SetupFails
<1>3. CASE Fork
  BY <1>3 DEF Fork
<1>4. CASE Publish
  BY <1>4 DEF Publish
<1>5. CASE Read
  BY <1>5 DEF Read, HandleOutput, Kill, NoKill
<1>6. CASE Withdraw
  BY <1>6 DEF Withdraw
<1>7. CASE Wait
  BY <1>7 DEF Wait
<1>8. CASE Republish
  BY <1>8 DEF Republish
<1>9. CASE CheckFlag
  BY <1>9 DEF CheckFlag, Kill, NoKill
<1>10. CASE CheckClock
  BY <1>10 DEF CheckClock, Kill, NoKill
<1>11. CASE Escalate
  BY <1>11 DEF Escalate, Kill, NoKill
<1>12. CASE Drain
  BY <1>12 DEF Drain, HandleOutput, Kill, NoKill
<1>13. CASE Collect
  BY <1>13 DEF Collect
<1>14. CASE RaiseFlag
  BY <1>14 DEF RaiseFlag
<1>15. CASE LoadPid
  BY <1>15 DEF LoadPid
<1>16. CASE KillPid
  BY <1>16 DEF KillPid, Kill, NoKill
<1>17. CASE ClearFlag
  BY <1>17 DEF ClearFlag
<1>18. CASE ChildExecs
  BY <1>18 DEF ChildExecs, ChildStep
<1>19. CASE ChildPrompts
  BY <1>19 DEF ChildPrompts, ChildStep
<1>20. CASE ChildExits
  BY <1>20 DEF ChildExits, Ends, ChildStep
<1>21. CASE ChildDiesOfSignal
  BY <1>21 DEF ChildDiesOfSignal, Ends, ChildStep
<1>22. CASE Recycle
  BY <1>22 DEF Recycle, ChildStep
<1>23. CASE TimeRunsOut
  BY <1>23 DEF TimeRunsOut
<1>24. CASE UNCHANGED vars
  BY <1>24 DEF vars
<1>25. QED
  BY <1>1, <1>2, <1>3, <1>4, <1>5, <1>6, <1>7, <1>8, <1>9, <1>10, <1>11, <1>12,
        <1>13, <1>14, <1>15, <1>16, <1>17, <1>18, <1>19, <1>20, <1>21, <1>22, <1>23,
        <1>24 DEF Next, Run, Loop

\* A step keeps ResultInv.
LEMMA ResultStep ==
    ASSUME TypeOK, LoopInv, ResultInv, [Next]_vars
    PROVE  ResultInv'
<1> USE DEF TypeOK, LoopInv, ResultInv, Turn, Calls, Alive
<1> USE DEF callVars, resultVars, cancelVars, childVars, clockVars
<1>1. CASE Enter
  BY <1>1 DEF Enter
<1>2. CASE SetupFails
  BY <1>2 DEF SetupFails
<1>3. CASE Fork
  BY <1>3 DEF Fork
<1>4. CASE Publish
  BY <1>4 DEF Publish
<1>5. CASE Read
  BY <1>5 DEF Read, HandleOutput, Kill, NoKill
<1>6. CASE Withdraw
  BY <1>6 DEF Withdraw
<1>7. CASE Wait
  BY <1>7 DEF Wait
<1>8. CASE Republish
  BY <1>8 DEF Republish
<1>9. CASE CheckFlag
  BY <1>9 DEF CheckFlag, Kill, NoKill
<1>10. CASE CheckClock
  BY <1>10 DEF CheckClock, Kill, NoKill
<1>11. CASE Escalate
  BY <1>11 DEF Escalate, Kill, NoKill
<1>12. CASE Drain
  BY <1>12 DEF Drain, HandleOutput, Kill, NoKill
<1>13. CASE Collect
  BY <1>13 DEF Collect
<1>14. CASE RaiseFlag
  BY <1>14 DEF RaiseFlag
<1>15. CASE LoadPid
  BY <1>15 DEF LoadPid
<1>16. CASE KillPid
  BY <1>16 DEF KillPid, Kill, NoKill
<1>17. CASE ClearFlag
  BY <1>17 DEF ClearFlag
<1>18. CASE ChildExecs
  BY <1>18 DEF ChildExecs, ChildStep
<1>19. CASE ChildPrompts
  BY <1>19 DEF ChildPrompts, ChildStep
<1>20. CASE ChildExits
  BY <1>20 DEF ChildExits, Ends, ChildStep
<1>21. CASE ChildDiesOfSignal
  BY <1>21 DEF ChildDiesOfSignal, Ends, ChildStep
<1>22. CASE Recycle
  BY <1>22 DEF Recycle, ChildStep
<1>23. CASE TimeRunsOut
  BY <1>23 DEF TimeRunsOut
<1>24. CASE UNCHANGED vars
  BY <1>24 DEF vars
<1>25. QED
  BY <1>1, <1>2, <1>3, <1>4, <1>5, <1>6, <1>7, <1>8, <1>9, <1>10, <1>11, <1>12,
        <1>13, <1>14, <1>15, <1>16, <1>17, <1>18, <1>19, <1>20, <1>21, <1>22, <1>23,
        <1>24 DEF Next, Run, Loop

\* Every reachable state has its types and satisfies both parts of the invariant.
LEMMA Invariance ==
    ASSUME SigchldModes = {FALSE}
    PROVE  Spec => [](TypeOK /\ LoopInv /\ ResultInv)
<1>1. Init => TypeOK /\ LoopInv /\ ResultInv
  <2> USE DEF Init
  <2>1. Init => FlagsOK
    BY Zenon DEF FlagsOK
  <2>2. Init => TypeOK
    BY <2>1 DEF FlagsOK, TypeOK, Places, Statuses, NeverRan, NoPid
  <2>3. Init => LoopInv /\ ResultInv
    BY DEF LoopInv, ResultInv, Turn, Calls, Alive
  <2>4. QED
    BY <2>2, <2>3
<1>2. TypeOK /\ LoopInv /\ ResultInv /\ [Next]_vars => TypeOK' /\ LoopInv' /\ ResultInv'
  <2>1. LoopInv => (place # "idle" => call \in Calls)
    BY DEF LoopInv
  <2>2. QED
    BY <2>1, TypeStep, LoopStep, ResultStep
<1>3. QED
  BY <1>1, <1>2, PTL DEF Spec

\* The variables of the loop and of the kernel's table keep their types.
THEOREM RunnerTypeCorrect ==
    ASSUME SigchldModes = {FALSE}
    PROVE  Spec => []TypeOK
BY Invariance, PTL

\* The pid in active_process_ is never one that waitpid has reaped.
THEOREM PublishedPidIsTheChild ==
    ASSUME SigchldModes = {FALSE}
    PROVE  Spec => []PublishedIsUnreaped
<1>1. LoopInv => PublishedIsUnreaped
  BY DEF LoopInv, PublishedIsUnreaped, Turn
<1>2. QED
  BY Invariance, <1>1, PTL

\* A command reported as successful is one whose child exited with 0.
THEOREM SuccessIsNeverInvented ==
    ASSUME SigchldModes = {FALSE}
    PROVE  Spec => []SuccessIsReal
<1>1. ResultInv => SuccessIsReal
  BY DEF ResultInv, SuccessIsReal, Success, NeverRan
<1>2. QED
  BY Invariance, <1>1, PTL

-----------------------------------------------------------------------------
(* ProcessRunner implements ManagedProcess.                                 *)

\* The variables of ManagedProcess, as ProcessRunner has them.
Phase ==
    CASE place \in {"idle", "returned"} -> place
      [] place = "setup" -> "starting"
      [] OTHER -> "running"
Code ==
    IF Alive THEN NeverRan ELSE IF place \in {"drain", "returned"} THEN exitCode ELSE status

\* The loop may start to terminate the child while it runs, once.
LEMMA GiveUpOrStutter ==
    ASSUME Phase = "running",
           UNCHANGED <<Phase, Alive, Code, cancellable, cancelled, cancelFlag>>,
           terminating' = terminating \/ (~terminating /\ terminating' = TRUE)
    PROVE  [Managed!ProcNext]_<<Managed!procVars, cancelFlag>>
<1>1. CASE terminating' = terminating
  BY <1>1 DEF Phase, Code, Managed!procVars
<1>2. CASE ~terminating /\ terminating' = TRUE
  <2>1. Managed!GiveUp /\ UNCHANGED cancelFlag
    BY <1>2 DEF Phase, Code, Managed!GiveUp
  <2>2. QED
    BY <2>1 DEF Managed!ProcNext
<1>3. QED
  BY <1>1, <1>2

\* A step of the loop, of cancel(), of the child or of the kernel is one of the
\* managed process, or changes nothing that its caller can tell.
LEMMA RunnerSimulates ==
    ASSUME TypeOK, LoopInv, ResultInv, [Next]_vars
    PROVE  [Managed!ProcNext]_<<Managed!procVars, cancelFlag>>
<1> USE DEF TypeOK, LoopInv, ResultInv, Turn, Places, Calls
<1> USE DEF callVars, resultVars, cancelVars, childVars, clockVars
<1> USE DEF Managed!procVars, Managed!ProcNext
<1>1. CASE Enter
  <2>1. Phase = "idle" /\ UNCHANGED <<Alive, Code>>
    BY <1>1 DEF Enter, Alive, Phase, Code
  <2>2. cancellable' \in BOOLEAN /\ UNCHANGED <<cancelFlag, terminating>>
    BY <1>1 DEF Enter
  <2>3. CASE cancellable' /\ cancelFlag
    <3>1. cancelled' = TRUE
      BY <1>1, <2>3, Zenon DEF Enter
    <3>2. Managed!RefuseCancelled(cancellable')
      BY <1>1, <2>1, <2>3, <3>1 DEF Enter, Phase, Code, Managed!RefuseCancelled
    <3>3. QED
      BY <2>2, <3>2
  <2>4. CASE ~(cancellable' /\ cancelFlag)
    <3>1. cancelled' = FALSE
      BY <1>1, <2>4, Zenon DEF Enter
    <3>2. cancelled = FALSE
      BY <1>1 DEF Enter
    <3>3. Managed!Begin(cancellable')
      BY <1>1, <2>1, <2>4, <3>1, <3>2 DEF Enter, Phase, Code, Managed!Begin
    <3>4. QED
      BY <2>2, <3>3
  <2>5. QED
    BY <2>3, <2>4
<1>2. CASE SetupFails
  <2>1. Managed!FailToStart /\ UNCHANGED cancelFlag
    BY <1>2 DEF SetupFails, Alive, Managed!FailToStart
  <2>2. QED
    BY <2>1
<1>3. CASE Fork
  <2>1. Managed!StartChild /\ UNCHANGED cancelFlag
    BY <1>3 DEF Fork, Alive, Managed!StartChild
  <2>2. QED
    BY <2>1
<1>4. CASE Publish
  BY <1>4 DEF Publish, Alive
<1>5. CASE Read
  <2>1. UNCHANGED <<Phase, Alive, Code, cancellable, cancelled, cancelFlag>>
    BY <1>5 DEF Read, HandleOutput, Alive, Phase, Code
  <2>2. Phase = "running"
    BY <1>5 DEF Read, Phase
  <2>3. terminating' = terminating \/ (~terminating /\ terminating' = TRUE)
    BY <1>5, Zenon DEF Read, HandleOutput
  <2>4. QED
    BY <2>1, <2>2, <2>3, GiveUpOrStutter
<1>6. CASE Withdraw
  BY <1>6 DEF Withdraw, Alive
<1>7. CASE Wait
  <2>1. UNCHANGED <<Phase, Alive, Code, cancellable, cancelled, cancelFlag, terminating>>
    <3>1. CASE Alive
      BY <1>7, <3>1 DEF Wait, Alive, Phase, Code
    <3>2. CASE ~Alive
      <4>1. process[call] = "zombie"
        BY <1>7, <3>2 DEF Wait, Alive
      <4>2. /\ place' = "drain" /\ exitCode' = status
            /\ process' = [process EXCEPT ![call] = "gone"]
        BY <1>7, <3>2, <4>1 DEF Wait
      <4>3. QED
        BY <1>7, <3>2, <4>2 DEF Wait, Alive, Phase, Code
    <3>3. QED
      BY <3>1, <3>2
  <2>2. QED
    BY <2>1 DEF Phase, Code
<1>8. CASE Republish
  BY <1>8 DEF Republish, Alive
<1>9. CASE CheckFlag
  <2>1. UNCHANGED <<Phase, Alive, Code, cancellable, cancelFlag>>
    BY <1>9 DEF CheckFlag, Alive, Phase, Code
  <2>2. CASE ~terminating /\ cancellable /\ cancelFlag
    <3>1. cancelled' = TRUE /\ terminating' = TRUE
      BY <1>9, <2>2, Zenon DEF CheckFlag
    <3>2. Managed!ObserveCancel
      BY <1>9, <2>1, <2>2, <3>1 DEF CheckFlag, Managed!ObserveCancel, Phase, Code
    <3>3. QED
      BY <2>1, <3>2
  <2>3. CASE ~(~terminating /\ cancellable /\ cancelFlag)
    BY <1>9, <2>1, <2>3 DEF CheckFlag, Phase, Code
  <2>4. QED
    BY <2>2, <2>3
<1>10. CASE CheckClock
  <2>1. UNCHANGED <<Phase, Alive, Code, cancellable, cancelled, cancelFlag>>
    BY <1>10 DEF CheckClock, Alive, Phase, Code
  <2>2. Phase = "running"
    BY <1>10 DEF CheckClock, Phase
  <2>3. terminating' = terminating \/ (~terminating /\ terminating' = TRUE)
    BY <1>10, Zenon DEF CheckClock
  <2>4. QED
    BY <2>1, <2>2, <2>3, GiveUpOrStutter
<1>11. CASE Escalate
  BY <1>11 DEF Escalate, Alive
<1>12. CASE Drain
  <2>1. CASE output = "none"
    <3>1. Managed!Reap /\ UNCHANGED cancelFlag
      BY <1>12, <2>1 DEF Drain, Alive, Managed!Reap
    <3>2. QED
      BY <3>1
  <2>2. CASE output # "none"
    <3>1. UNCHANGED <<Phase, Alive, Code, cancellable, cancelled, cancelFlag>>
      BY <1>12, <2>2 DEF Drain, HandleOutput, Alive, Phase, Code
    <3>2. Phase = "running"
      BY <1>12 DEF Drain, Phase
    <3>3. terminating' = terminating \/ (~terminating /\ terminating' = TRUE)
      BY <1>12, <2>2, Zenon DEF Drain, HandleOutput
    <3>4. QED
      BY <3>1, <3>2, <3>3, GiveUpOrStutter
  <2>3. QED
    BY <2>1, <2>2
<1>13. CASE Collect
  <2>1. /\ Phase = "returned" /\ Phase' = "idle"
        /\ Code' = NeverRan /\ UNCHANGED Alive
    BY <1>13 DEF Collect, Alive, Phase, Code
  <2>2. cancellable' = FALSE /\ cancelled' = FALSE /\ terminating' = FALSE
    BY <1>13, Zenon DEF Collect
  <2>3. Managed!Collect /\ UNCHANGED cancelFlag
    BY <1>13, <2>1, <2>2 DEF Collect, Phase, Code, Managed!Collect, Managed!NeverRan,
                             NeverRan
  <2>4. QED
    BY <2>3
<1>14. CASE RaiseFlag
  <2>1. cancelFlag' = TRUE
    BY <1>14, Zenon DEF RaiseFlag
  <2>2. Managed!RaiseFlag
    BY <1>14, <2>1 DEF RaiseFlag, Managed!RaiseFlag, Alive
  <2>3. QED
    BY <2>2
<1>15. CASE LoadPid
  BY <1>15 DEF LoadPid, Alive
<1>16. CASE KillPid
  BY <1>16 DEF KillPid, Alive
<1>17. CASE ClearFlag
  <2>1. cancelFlag' = FALSE
    BY <1>17, Zenon DEF ClearFlag
  <2>2. Managed!ClearFlag
    BY <1>17, <2>1 DEF ClearFlag, Managed!ClearFlag, Alive
  <2>3. QED
    BY <2>2
<1>18. CASE ChildExecs
  BY <1>18 DEF ChildExecs, ChildStep, Alive
<1>19. CASE ChildPrompts
  BY <1>19 DEF ChildPrompts, ChildStep, Alive
<1>20. CASE ChildExits \/ ChildDiesOfSignal
  <2>1. PICK s \in Statuses : Alive /\ Ends(s)
    BY <1>20 DEF ChildExits, ChildDiesOfSignal, Statuses
  <2>2. Managed!ChildExits(s) /\ UNCHANGED cancelFlag
    BY <2>1 DEF Ends, ChildStep, Alive, Managed!ChildExits
  <2>3. s \in Managed!ExitCodes
    BY DEF Statuses, Success, NeverRan, Interrupted, Managed!ExitCodes, Managed!Success,
           Managed!NeverRan, Managed!Interrupted
  <2>4. QED
    BY <2>2, <2>3
<1>21. CASE Recycle
  <2>1. PICK p \in Calls : /\ process[p] = "gone"
                           /\ process' = [process EXCEPT ![p] = "stranger"]
    BY <1>21 DEF Recycle
  <2>2. QED
    BY <1>21, <2>1 DEF Recycle, ChildStep, Alive
<1>22. CASE TimeRunsOut
  BY <1>22 DEF TimeRunsOut, Alive
<1>23. CASE UNCHANGED vars
  BY <1>23 DEF vars, Alive
<1>24. QED
  BY <1>1, <1>2, <1>3, <1>4, <1>5, <1>6, <1>7, <1>8, <1>9, <1>10, <1>11, <1>12,
        <1>13, <1>14, <1>15, <1>16, <1>17, <1>18, <1>19, <1>20, <1>21, <1>22, <1>23
        DEF Next, Run, Loop

\* run_process keeps what Transport relies on: whatever the child, the kernel and
\* cancel() do, a call starts at most one child, ends it before it returns, and
\* its result is the child's exit status.
THEOREM RunnerRefinement ==
    ASSUME SigchldModes = {FALSE}
    PROVE  Spec => ManagedSpec
<1>1. Init => Managed!ProcInit /\ cancelFlag = FALSE
  <2>1. Init => cancellable = FALSE /\ cancelled = FALSE /\ terminating = FALSE
                /\ cancelFlag = FALSE
    BY Zenon DEF Init
  <2>2. Init => ~Alive
    BY DEF Init, Alive
  <2>3. QED
    BY <2>1, <2>2 DEF Init, Managed!ProcInit, Managed!NeverRan, NeverRan
<1>2. QED
  BY <1>1, Invariance, RunnerSimulates, PTL DEF Spec, ManagedSpec, Managed!ProcSpec

=============================================================================
