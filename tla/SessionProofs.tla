---------------------------- MODULE SessionProofs ----------------------------
(***************************************************************************)
(* The invariants of Session hold for every set of contents and any number *)
(* of edits and tests.                                                     *)
(*                                                                         *)
(* The inductive invariant has five parts: what the places of both threads *)
(* say of each other (Threads), the wake-ups (WakeUps), what can be in the *)
(* queue (Queue), whose details tested_connection_ holds (TestedIs), and   *)
(* what the window may believe of them (Belief).                           *)
(***************************************************************************)
EXTENDS Session, TLAPS

Has(s, e) == \E i \in 1 .. Len(s) : s[i] = e

Closing == {"stop", "cancel", "shutdown", "detach", "bump", "reset", "joinForShutdown",
            "hidden", "gone"}

\* The worker is inside the transport's operation, or reports its progress.
InOperation ==
    \/ worker \in {"called", "active", "running"}
    \/ worker \in {"load", "push", "awake"} /\ after = "running"

\* The window is busy as long as the worker is, a stop is asked for only by those
\* who may, and once closing has begun the UI thread does nothing else.
Threads ==
    /\ testActive => job.kind = "test"
    /\ transferActive => job.kind = "transfer"
    /\ ~Joined => IF job.kind = "test" THEN testActive ELSE transferActive
    /\ operationActive => InOperation
    /\ ui \in {"joinForTest", "joinForTransfer"} => ~testActive /\ ~transferActive
    /\ closing => ui \in Closing
    /\ ~window => closing
    /\ shuttingDown => closing
    /\ ui \in {"shutdown", "detach", "joinForShutdown", "hidden", "gone"} => closing
    /\ ui \in {"hidden", "gone"} => worker = "none"
    /\ ~windowAlive => ui = "gone"
    /\ closing /\ ui \in {"detach", "bump", "reset"} => shuttingDown
    /\ ui = "stop" => closing \/ transferActive
    /\ stop /\ job.kind = "test" /\ ~Joined => closing
    /\ batch # <<>> => ui = "draining"
    /\ worker \in {"compare", "store"} => job.kind = "test"
    /\ worker \in {"degrade", "finish"} => job.kind = "transfer"
    /\ worker \in {"load", "push", "awake"} =>
          IF job.kind = "test" THEN mail \in {"tested", "untested"} /\ after = "ended"
          ELSE \/ mail = "progress" /\ after = "running"
               \/ mail = "degraded" /\ after = "finish"
               \/ mail = "finished" /\ after = "ended"

\* A wake-up is owed exactly when wake_pending says so, and never two.
WakeUps ==
    /\ wakes \in {0, 1}
    /\ wakePending <=> wakes = 1 \/ worker = "awake"
    /\ ~(wakes = 1 /\ worker = "awake")
    /\ events # <<>> => wakePending

\* Nothing comes after the last event of a worker, which comes when the worker is
\* done with posting it, and nothing is left when the window is free.
Queue ==
    /\ \A i \in 1 .. Len(events) :
          events[i] \in {"tested", "untested", "finished"} =>
              /\ i = Len(events)
              /\ Joined \/ (worker = "awake" /\ after = "ended")
    /\ \A i \in 1 .. Len(batch) :
          batch[i] \in {"tested", "untested", "finished"} =>
              /\ i = Len(batch) /\ events = <<>>
              /\ Joined
    /\ \A i \in 1 .. Len(events) :
          events[i] \in {"tested", "untested"} <=> job.kind = "test"
    /\ \A i \in 1 .. Len(batch) :
          batch[i] \in {"tested", "untested"} <=> job.kind = "test"
    /\ ~testActive /\ ~transferActive => events = <<>> /\ batch = <<>>

\* Until a test that is still current has stored its result, or an edit has
\* cleared it, tested_connection_ may hold older details; otherwise they are those
\* of the latest test, and that test found them good.
TestedIs ==
    /\ tested # None => tested \in passed
    /\ \/ closing
       \/ ui \in {"joinForTest", "reset"}
       \/ tested \in {None, destination}
       \/ /\ worker \in {"called", "active", "running", "tail", "compare", "store"}
          /\ job.kind = "test" /\ generation = job.generation
    /\ job.generation <= generation
    /\ worker = "store" /\ ~current => generation # job.generation
    /\ worker \in {"tail", "compare", "store"} /\ job.kind = "test" /\ result = "ok"
          => job.connection \in passed
    /\ ui = "joinForTest" => fields = destination
    /\ job.kind = "test" /\ ui # "joinForTest" => job.connection = destination
    /\ transferActive => job.connection = job.destination /\ job.connection \in passed

\* The news of a lost connection is on its way to the window.
DegradePending ==
    \/ Has(events, "degraded") \/ Has(batch, "degraded")
    \/ worker \in {"load", "push"} /\ mail = "degraded"

\* The news of a good test is on its way to the window.
GoodPending ==
    \/ Has(events, "tested") \/ Has(batch, "tested")
    \/ worker \in {"load", "push"} /\ mail = "tested"

\* What the window believes, or is about to be told, is so unless it is edited.
Belief ==
    /\ ~edited => fields = destination
    /\ ui \in {"bump", "reset"} => edited \/ closing
    /\ worker = "store" /\ ~edited /\ ~closing => current
    /\ worker \in {"called", "active", "running", "tail", "compare", "store"}
          /\ job.kind = "test" /\ ~edited => generation = job.generation \/ closing
    /\ GoodPending /\ ~edited /\ ~closing => tested = fields
    /\ ready /\ ~edited /\ ~testActive /\ ~closing /\ ui # "joinForTest"
          => tested = fields \/ DegradePending

\* The part of TypeOK about flags, which is Zenon's where an action sets one.
FlagsOK ==
    /\ dialog \in BOOLEAN /\ closing \in BOOLEAN /\ windowAlive \in BOOLEAN
    /\ ready \in BOOLEAN /\ testActive \in BOOLEAN /\ transferActive \in BOOLEAN
    /\ abortButton \in BOOLEAN /\ edited \in BOOLEAN
    /\ window \in BOOLEAN /\ shuttingDown \in BOOLEAN
    /\ stop \in BOOLEAN /\ current \in BOOLEAN
    /\ operationActive \in BOOLEAN /\ cancelFlag \in BOOLEAN
    /\ wakePending \in BOOLEAN

\* The inductive invariant.
IInv == TypeOK /\ Threads /\ WakeUps /\ Queue /\ TestedIs /\ Belief

\* What Head and Tail take from a sequence that is not empty.
LEMMA HeadTail ==
    ASSUME NEW S, NEW s \in Seq(S), s # <<>>
    PROVE  /\ Len(s) \in Nat \ {0}
           /\ Head(s) = s[1] /\ Head(s) \in S
           /\ Tail(s) \in Seq(S) /\ Len(Tail(s)) = Len(s) - 1
           /\ \A i \in 1 .. Len(Tail(s)) : Tail(s)[i] = s[i + 1]
  OBVIOUS

\* What Append adds.
LEMMA AppendLast ==
    ASSUME NEW S, NEW s \in Seq(S), NEW e \in S
    PROVE  /\ Append(s, e) \in Seq(S) /\ Len(s) \in Nat
           /\ Len(Append(s, e)) = Len(s) + 1
           /\ \A i \in 1 .. Len(s) : Append(s, e)[i] = s[i]
           /\ Append(s, e)[Len(s) + 1] = e
  OBVIOUS

\* A step keeps the types.
LEMMA TypeStep ==
    ASSUME TypeOK, [Next]_vars
    PROVE  TypeOK'
<1> USE DEF TypeOK, Jobs, Events, Results
<1> USE DEF screenVars, windowVars, sharedVars, workerVars, opVars, queueVars, uiSide
<1>1. CASE Edit
  <2>1. FlagsOK'
    BY <1>1, ZenonT(60) DEF FlagsOK, Edit, AtWidgets
  <2>2. QED
    BY <1>1, <2>1 DEF FlagsOK, Edit, AtWidgets
<1>2. CASE ClickTest
  <2>1. FlagsOK'
    BY <1>2, ZenonT(60) DEF FlagsOK, ClickTest, AtWidgets, RequestJoin
  <2>2. QED
    BY <1>2, <2>1 DEF FlagsOK, ClickTest, AtWidgets, RequestJoin
<1>3. CASE ClickStart
  <2>1. FlagsOK'
    BY <1>3, ZenonT(60) DEF FlagsOK, ClickStart, AtWidgets, RequestJoin
  <2>2. QED
    BY <1>3, <2>1 DEF FlagsOK, ClickStart, AtWidgets, RequestJoin
<1>4. CASE ClickAbort
  <2>1. FlagsOK'
    BY <1>4, ZenonT(60) DEF FlagsOK, ClickAbort, AtWidgets
  <2>2. QED
    BY <1>4, <2>1 DEF FlagsOK, ClickAbort, AtWidgets
<1>5. CASE ClickClose
  <2>1. FlagsOK'
    BY <1>5, ZenonT(60) DEF FlagsOK, ClickClose, AtWidgets
  <2>2. QED
    BY <1>5, <2>1 DEF FlagsOK, ClickClose, AtWidgets
<1>6. CASE AnswerDialog
  <2>1. FlagsOK'
    BY <1>6, ZenonT(60) DEF FlagsOK, AnswerDialog
  <2>2. QED
    BY <1>6, <2>1 DEF FlagsOK, AnswerDialog
<1>7. CASE InvalidateGeneration
  BY <1>7 DEF InvalidateGeneration
<1>8. CASE InvalidateTested
  BY <1>8 DEF InvalidateTested
<1>9. CASE LaunchTest
  <2>1. FlagsOK'
    BY <1>9, ZenonT(60) DEF FlagsOK, LaunchTest, Launch
  <2>2. QED
    BY <1>9, <2>1 DEF FlagsOK, LaunchTest, Launch
<1>10. CASE LaunchTransfer
  <2>1. FlagsOK'
    BY <1>10, ZenonT(60) DEF FlagsOK, LaunchTransfer, Launch
  <2>2. QED
    BY <1>10, <2>1 DEF FlagsOK, LaunchTransfer, Launch
<1>11. CASE RefuseTransfer
  <2>1. FlagsOK'
    BY <1>11, ZenonT(60) DEF FlagsOK, RefuseTransfer
  <2>2. QED
    BY <1>11, <2>1 DEF FlagsOK, RefuseTransfer
<1>12. CASE RequestStop
  BY <1>12 DEF RequestStop
<1>13. CASE Cancel
  BY <1>13 DEF Cancel
<1>14. CASE BeginShutdown
  BY <1>14 DEF BeginShutdown
<1>15. CASE DetachWindow
  <2>1. FlagsOK'
    BY <1>15, ZenonT(60) DEF FlagsOK, DetachWindow
  <2>2. QED
    BY <1>15, <2>1 DEF FlagsOK, DetachWindow
<1>16. CASE JoinAtShutdown
  BY <1>16 DEF JoinAtShutdown
<1>17. CASE DestroyWindow
  <2>1. FlagsOK'
    BY <1>17, ZenonT(60) DEF FlagsOK, DestroyWindow
  <2>2. QED
    BY <1>17, <2>1 DEF FlagsOK, DestroyWindow
<1>18. CASE Drain
  <2>1. FlagsOK'
    BY <1>18, ZenonT(60) DEF FlagsOK, Drain
  <2>2. QED
    BY <1>18, <2>1 DEF FlagsOK, Drain
<1>19. CASE ApplyEvent
  <2>1. PICK event : ApplyTested(event) \/ ApplyDegraded(event)
                     \/ ApplyProgress(event) \/ ApplyFinished(event)
    BY <1>19, Zenon DEF ApplyEvent
  <2>2. ready' \in BOOLEAN /\ testActive' \in BOOLEAN
        /\ transferActive' \in BOOLEAN /\ abortButton' \in BOOLEAN
    <3>1. CASE ApplyTested(event)
      BY <3>1, ZenonT(60) DEF ApplyTested
    <3>2. CASE ApplyDegraded(event)
      BY <3>2, ZenonT(60) DEF ApplyDegraded
    <3>3. CASE ApplyProgress(event)
      BY <3>3, ZenonT(60) DEF ApplyProgress
    <3>4. CASE ApplyFinished(event)
      BY <3>4, ZenonT(60) DEF ApplyFinished
    <3>5. QED
      BY <2>1, <3>1, <3>2, <3>3, <3>4
  <2>3. QED
    BY <1>19, <2>2, HeadTail DEF ApplyEvent
<1>20. CASE ReturnEarly
  <2>1. operationActive' = FALSE
    BY <1>20, Zenon DEF ReturnEarly, OperationEnds
  <2>2. operationActive' \in BOOLEAN
    BY <2>1, Zenon
  <2>3. QED
    BY <1>20, <2>2 DEF ReturnEarly, OperationEnds
<1>21. CASE Activate
  <2>1. FlagsOK'
    BY <1>21, ZenonT(60) DEF FlagsOK, Activate
  <2>2. QED
    BY <1>21, <2>1 DEF FlagsOK, Activate
<1>22. CASE CheckStop
  <2>1. FlagsOK'
    BY <1>22, ZenonT(60) DEF FlagsOK, CheckStop, OperationEnds
  <2>2. QED
    BY <1>22, <2>1 DEF FlagsOK, CheckStop, OperationEnds
<1>23. CASE LoadWindow
  BY <1>23 DEF LoadWindow
<1>24. CASE Push
  BY <1>24 DEF Push
<1>25. CASE Awake
  BY <1>25 DEF Awake
<1>26. CASE TestReturns
  BY <1>26 DEF TestReturns
<1>27. CASE Compare
  BY <1>27 DEF Compare
<1>28. CASE StoreTested
  BY <1>28 DEF StoreTested, Post
<1>29. CASE TransferReturns
  BY <1>29 DEF TransferReturns
<1>30. CASE Degrade
  BY <1>30 DEF Degrade, Post
<1>31. CASE ReportFinished
  BY <1>31 DEF ReportFinished, Post
<1>32. CASE Finish
  <2>1. FlagsOK'
    BY <1>32, ZenonT(60) DEF FlagsOK, Finish, OperationEnds
  <2>2. QED
    BY <1>32, <2>1 DEF FlagsOK, Finish, OperationEnds
<1>33. CASE ReportProgress
  BY <1>33 DEF ReportProgress, Post
<1>34. CASE UNCHANGED vars
  BY <1>34 DEF vars
<1>35. QED
  BY <1>1, <1>2, <1>3, <1>4, <1>5, <1>6, <1>7, <1>8, <1>9, <1>10, <1>11, <1>12,
        <1>13, <1>14, <1>15, <1>16, <1>17, <1>18, <1>19, <1>20, <1>21, <1>22, <1>23,
        <1>24, <1>25, <1>26, <1>27, <1>28, <1>29, <1>30, <1>31, <1>32, <1>33, <1>34
     DEF Next, Click, UiStep, WorkerStep

\* What the places of the two threads say of each other stays true: a worker
\* keeps the window busy until the window has applied its last event.
LEMMA ThreadsStep ==
    ASSUME IInv, [Next]_vars
    PROVE  Threads'
<1> USE DEF IInv, Threads, Closing, InOperation, Joined, TypeOK
<1> USE DEF screenVars, windowVars, sharedVars, workerVars, opVars, queueVars, uiSide
<1>1. CASE Edit
  BY <1>1 DEF Edit, AtWidgets
<1>2. CASE ClickTest
  BY <1>2 DEF ClickTest, AtWidgets, RequestJoin
<1>3. CASE ClickStart
  BY <1>3 DEF ClickStart, AtWidgets, RequestJoin
<1>4. CASE ClickAbort
  BY <1>4 DEF ClickAbort, AtWidgets
<1>5. CASE ClickClose
  BY <1>5 DEF ClickClose, AtWidgets
<1>6. CASE AnswerDialog
  BY <1>6 DEF AnswerDialog
<1>7. CASE InvalidateGeneration
  BY <1>7 DEF InvalidateGeneration
<1>8. CASE InvalidateTested
  BY <1>8 DEF InvalidateTested
<1>9. CASE LaunchTest
  BY <1>9 DEF LaunchTest, Launch
<1>10. CASE LaunchTransfer
  BY <1>10 DEF LaunchTransfer, Launch
<1>11. CASE RefuseTransfer
  BY <1>11 DEF RefuseTransfer
<1>12. CASE RequestStop
  BY <1>12 DEF RequestStop
<1>13. CASE Cancel
  BY <1>13 DEF Cancel
<1>14. CASE BeginShutdown
  BY <1>14 DEF BeginShutdown
<1>15. CASE DetachWindow
  BY <1>15 DEF DetachWindow
<1>16. CASE JoinAtShutdown
  BY <1>16 DEF JoinAtShutdown
<1>17. CASE DestroyWindow
  BY <1>17 DEF DestroyWindow
<1>18. CASE Drain
  BY <1>18 DEF Drain
<1>19. CASE ApplyEvent
  <2>1. PICK event \in Events : event = batch[1] /\ 1 \in 1 .. Len(batch)
                               /\ (ApplyTested(event) \/ ApplyDegraded(event)
                                   \/ ApplyProgress(event) \/ ApplyFinished(event))
                               /\ ~closing /\ ui' \in {"idle", "draining"}
                               /\ (batch' # <<>> => ui' = "draining")
    BY <1>19, HeadTail DEF ApplyEvent
  <2>2. QED
    BY <1>19, <2>1 DEF ApplyEvent, Queue, ApplyTested, ApplyDegraded, ApplyProgress,
             ApplyFinished
<1>20. CASE ReturnEarly
  BY <1>20 DEF ReturnEarly, OperationEnds
<1>21. CASE Activate
  BY <1>21 DEF Activate
<1>22. CASE CheckStop
  BY <1>22 DEF CheckStop, OperationEnds
<1>23. CASE LoadWindow
  BY <1>23 DEF LoadWindow
<1>24. CASE Push
  BY <1>24 DEF Push
<1>25. CASE Awake
  BY <1>25 DEF Awake
<1>26. CASE TestReturns
  BY <1>26 DEF TestReturns
<1>27. CASE Compare
  BY <1>27 DEF Compare
<1>28. CASE StoreTested
  BY <1>28 DEF StoreTested, Post
<1>29. CASE TransferReturns
  BY <1>29 DEF TransferReturns
<1>30. CASE Degrade
  BY <1>30 DEF Degrade, Post
<1>31. CASE ReportFinished
  BY <1>31 DEF ReportFinished, Post
<1>32. CASE Finish
  BY <1>32 DEF Finish, OperationEnds
<1>33. CASE ReportProgress
  BY <1>33 DEF ReportProgress, Post
<1>34. CASE UNCHANGED vars
  BY <1>34 DEF vars
<1>35. QED
  BY <1>1, <1>2, <1>3, <1>4, <1>5, <1>6, <1>7, <1>8, <1>9, <1>10, <1>11, <1>12,
        <1>13, <1>14, <1>15, <1>16, <1>17, <1>18, <1>19, <1>20, <1>21, <1>22, <1>23,
        <1>24, <1>25, <1>26, <1>27, <1>28, <1>29, <1>30, <1>31, <1>32, <1>33, <1>34
     DEF Next, Click, UiStep, WorkerStep

\* A wake-up stays owed exactly when wake_pending says so.
LEMMA WakeUpsStep ==
    ASSUME IInv, [Next]_vars
    PROVE  WakeUps'
<1> USE DEF IInv, WakeUps, Joined, TypeOK
<1> USE DEF screenVars, windowVars, sharedVars, workerVars, opVars, queueVars, uiSide
<1>1. CASE Edit
  BY <1>1 DEF Edit, AtWidgets
<1>2. CASE ClickTest
  BY <1>2 DEF ClickTest, AtWidgets, RequestJoin
<1>3. CASE ClickStart
  BY <1>3 DEF ClickStart, AtWidgets, RequestJoin
<1>4. CASE ClickAbort
  BY <1>4 DEF ClickAbort, AtWidgets
<1>5. CASE ClickClose
  BY <1>5 DEF ClickClose, AtWidgets
<1>6. CASE AnswerDialog
  BY <1>6 DEF AnswerDialog
<1>7. CASE InvalidateGeneration
  BY <1>7 DEF InvalidateGeneration
<1>8. CASE InvalidateTested
  BY <1>8 DEF InvalidateTested
<1>9. CASE LaunchTest
  BY <1>9 DEF LaunchTest, Launch
<1>10. CASE LaunchTransfer
  BY <1>10 DEF LaunchTransfer, Launch
<1>11. CASE RefuseTransfer
  BY <1>11 DEF RefuseTransfer
<1>12. CASE RequestStop
  BY <1>12 DEF RequestStop
<1>13. CASE Cancel
  BY <1>13 DEF Cancel
<1>14. CASE BeginShutdown
  BY <1>14 DEF BeginShutdown
<1>15. CASE DetachWindow
  BY <1>15 DEF DetachWindow
<1>16. CASE JoinAtShutdown
  BY <1>16 DEF JoinAtShutdown
<1>17. CASE DestroyWindow
  BY <1>17 DEF DestroyWindow
<1>18. CASE Drain
  BY <1>18 DEF Drain
<1>19. CASE ApplyEvent
  BY <1>19 DEF ApplyEvent, ApplyTested, ApplyDegraded, ApplyProgress, ApplyFinished
<1>20. CASE ReturnEarly
  BY <1>20 DEF ReturnEarly, OperationEnds
<1>21. CASE Activate
  BY <1>21 DEF Activate
<1>22. CASE CheckStop
  BY <1>22 DEF CheckStop, OperationEnds
<1>23. CASE LoadWindow
  BY <1>23 DEF LoadWindow
<1>24. CASE Push
  BY <1>24 DEF Push
<1>25. CASE Awake
  BY <1>25 DEF Awake
<1>26. CASE TestReturns
  BY <1>26 DEF TestReturns
<1>27. CASE Compare
  BY <1>27 DEF Compare
<1>28. CASE StoreTested
  BY <1>28 DEF StoreTested, Post
<1>29. CASE TransferReturns
  BY <1>29 DEF TransferReturns
<1>30. CASE Degrade
  BY <1>30 DEF Degrade, Post
<1>31. CASE ReportFinished
  BY <1>31 DEF ReportFinished, Post
<1>32. CASE Finish
  BY <1>32 DEF Finish, OperationEnds
<1>33. CASE ReportProgress
  BY <1>33 DEF ReportProgress, Post
<1>34. CASE UNCHANGED vars
  BY <1>34 DEF vars
<1>35. QED
  BY <1>1, <1>2, <1>3, <1>4, <1>5, <1>6, <1>7, <1>8, <1>9, <1>10, <1>11, <1>12,
        <1>13, <1>14, <1>15, <1>16, <1>17, <1>18, <1>19, <1>20, <1>21, <1>22, <1>23,
        <1>24, <1>25, <1>26, <1>27, <1>28, <1>29, <1>30, <1>31, <1>32, <1>33, <1>34
     DEF Next, Click, UiStep, WorkerStep

\* The last event of a worker stays the last event, whatever the window takes.
LEMMA QueueStep ==
    ASSUME IInv, [Next]_vars
    PROVE  Queue'
<1> USE DEF IInv, Queue, Threads, WakeUps, Joined, TypeOK
<1> USE DEF screenVars, windowVars, sharedVars, workerVars, opVars, queueVars, uiSide
<1>1. CASE Edit
  BY <1>1 DEF Edit, AtWidgets
<1>2. CASE ClickTest
  BY <1>2 DEF ClickTest, AtWidgets, RequestJoin
<1>3. CASE ClickStart
  BY <1>3 DEF ClickStart, AtWidgets, RequestJoin
<1>4. CASE ClickAbort
  BY <1>4 DEF ClickAbort, AtWidgets
<1>5. CASE ClickClose
  BY <1>5 DEF ClickClose, AtWidgets
<1>6. CASE AnswerDialog
  BY <1>6 DEF AnswerDialog
<1>7. CASE InvalidateGeneration
  BY <1>7 DEF InvalidateGeneration
<1>8. CASE InvalidateTested
  BY <1>8 DEF InvalidateTested
<1>9. CASE LaunchTest
  BY <1>9 DEF LaunchTest, Launch
<1>10. CASE LaunchTransfer
  BY <1>10 DEF LaunchTransfer, Launch
<1>11. CASE RefuseTransfer
  BY <1>11 DEF RefuseTransfer
<1>12. CASE RequestStop
  BY <1>12 DEF RequestStop
<1>13. CASE Cancel
  BY <1>13 DEF Cancel
<1>14. CASE BeginShutdown
  BY <1>14 DEF BeginShutdown
<1>15. CASE DetachWindow
  BY <1>15 DEF DetachWindow
<1>16. CASE JoinAtShutdown
  BY <1>16 DEF JoinAtShutdown
<1>17. CASE DestroyWindow
  BY <1>17 DEF DestroyWindow
<1>18. CASE Drain
  BY <1>18 DEF Drain
<1>19. CASE ApplyEvent
  BY <1>19, HeadTail DEF ApplyEvent, ApplyTested, ApplyDegraded, ApplyProgress,
        ApplyFinished
<1>20. CASE ReturnEarly
  BY <1>20 DEF ReturnEarly, OperationEnds
<1>21. CASE Activate
  BY <1>21 DEF Activate
<1>22. CASE CheckStop
  BY <1>22 DEF CheckStop, OperationEnds
<1>23. CASE LoadWindow
  BY <1>23 DEF LoadWindow
<1>24. CASE Push
  BY <1>24, AppendLast DEF Push
<1>25. CASE Awake
  BY <1>25 DEF Awake
<1>26. CASE TestReturns
  BY <1>26 DEF TestReturns
<1>27. CASE Compare
  BY <1>27 DEF Compare
<1>28. CASE StoreTested
  BY <1>28 DEF StoreTested, Post
<1>29. CASE TransferReturns
  BY <1>29 DEF TransferReturns
<1>30. CASE Degrade
  BY <1>30 DEF Degrade, Post
<1>31. CASE ReportFinished
  BY <1>31 DEF ReportFinished, Post
<1>32. CASE Finish
  BY <1>32 DEF Finish, OperationEnds
<1>33. CASE ReportProgress
  BY <1>33 DEF ReportProgress, Post
<1>34. CASE UNCHANGED vars
  BY <1>34 DEF vars
<1>35. QED
  BY <1>1, <1>2, <1>3, <1>4, <1>5, <1>6, <1>7, <1>8, <1>9, <1>10, <1>11, <1>12,
        <1>13, <1>14, <1>15, <1>16, <1>17, <1>18, <1>19, <1>20, <1>21, <1>22, <1>23,
        <1>24, <1>25, <1>26, <1>27, <1>28, <1>29, <1>30, <1>31, <1>32, <1>33, <1>34
     DEF Next, Click, UiStep, WorkerStep

\* Only a test that is still current stores its details, and an edit or a new
\* test makes the others old before tested_connection_ is read.
LEMMA TestedIsStep ==
    ASSUME IInv, [Next]_vars
    PROVE  TestedIs'
<1> USE DEF IInv, Threads, TestedIs, Joined, InOperation, Closing, TypeOK, Jobs
<1> USE DEF screenVars, windowVars, sharedVars, workerVars, opVars, queueVars, uiSide
<1>1. CASE Edit
  BY <1>1 DEF Edit, AtWidgets
<1>2. CASE ClickTest
  BY <1>2 DEF ClickTest, AtWidgets, RequestJoin
<1>3. CASE ClickStart
  BY <1>3 DEF ClickStart, AtWidgets, RequestJoin
<1>4. CASE ClickAbort
  BY <1>4 DEF ClickAbort, AtWidgets
<1>5. CASE ClickClose
  BY <1>5 DEF ClickClose, AtWidgets
<1>6. CASE AnswerDialog
  BY <1>6 DEF AnswerDialog
<1>7. CASE InvalidateGeneration
  BY <1>7 DEF InvalidateGeneration
<1>8. CASE InvalidateTested
  BY <1>8 DEF InvalidateTested
<1>9. CASE LaunchTest
  BY <1>9 DEF LaunchTest, Launch
<1>10. CASE LaunchTransfer
  BY <1>10 DEF LaunchTransfer, Launch
<1>11. CASE RefuseTransfer
  BY <1>11 DEF RefuseTransfer
<1>12. CASE RequestStop
  BY <1>12 DEF RequestStop
<1>13. CASE Cancel
  BY <1>13 DEF Cancel
<1>14. CASE BeginShutdown
  BY <1>14 DEF BeginShutdown
<1>15. CASE DetachWindow
  BY <1>15 DEF DetachWindow
<1>16. CASE JoinAtShutdown
  BY <1>16 DEF JoinAtShutdown
<1>17. CASE DestroyWindow
  BY <1>17 DEF DestroyWindow
<1>18. CASE Drain
  BY <1>18 DEF Drain
<1>19. CASE ApplyEvent
  BY <1>19 DEF ApplyEvent, ApplyTested, ApplyDegraded, ApplyProgress, ApplyFinished
<1>20. CASE ReturnEarly
  BY <1>20 DEF ReturnEarly, OperationEnds
<1>21. CASE Activate
  BY <1>21 DEF Activate
<1>22. CASE CheckStop
  BY <1>22 DEF CheckStop, OperationEnds
<1>23. CASE LoadWindow
  BY <1>23 DEF LoadWindow
<1>24. CASE Push
  BY <1>24 DEF Push
<1>25. CASE Awake
  BY <1>25 DEF Awake
<1>26. CASE TestReturns
  BY <1>26 DEF TestReturns
<1>27. CASE Compare
  BY <1>27 DEF Compare
<1>28. CASE StoreTested
  BY <1>28 DEF StoreTested, Post
<1>29. CASE TransferReturns
  BY <1>29 DEF TransferReturns
<1>30. CASE Degrade
  BY <1>30 DEF Degrade, Post
<1>31. CASE ReportFinished
  BY <1>31 DEF ReportFinished, Post
<1>32. CASE Finish
  BY <1>32 DEF Finish, OperationEnds
<1>33. CASE ReportProgress
  BY <1>33 DEF ReportProgress, Post
<1>34. CASE UNCHANGED vars
  BY <1>34 DEF vars
<1>35. QED
  BY <1>1, <1>2, <1>3, <1>4, <1>5, <1>6, <1>7, <1>8, <1>9, <1>10, <1>11, <1>12,
        <1>13, <1>14, <1>15, <1>16, <1>17, <1>18, <1>19, <1>20, <1>21, <1>22, <1>23,
        <1>24, <1>25, <1>26, <1>27, <1>28, <1>29, <1>30, <1>31, <1>32, <1>33, <1>34
     DEF Next, Click, UiStep, WorkerStep

\* What the window believes stays so or is about to be corrected by an event.
LEMMA BeliefStep ==
    ASSUME IInv, [Next]_vars
    PROVE  Belief'
<1> USE DEF IInv, Threads, TestedIs, Belief, GoodPending, DegradePending, Has
<1> USE DEF Joined, InOperation, Closing, TypeOK, Jobs, Events
<1> USE DEF screenVars, windowVars, sharedVars, workerVars, opVars, queueVars, uiSide
<1>1. CASE Edit
  BY <1>1 DEF Edit, AtWidgets
<1>2. CASE ClickTest
  <2>1. ~GoodPending
    BY <1>2 DEF ClickTest, AtWidgets, Queue
  <2>2. QED
    BY <1>2, <2>1 DEF ClickTest, AtWidgets, RequestJoin
<1>3. CASE ClickStart
  BY <1>3 DEF ClickStart, AtWidgets, RequestJoin
<1>4. CASE ClickAbort
  BY <1>4 DEF ClickAbort, AtWidgets
<1>5. CASE ClickClose
  BY <1>5 DEF ClickClose, AtWidgets
<1>6. CASE AnswerDialog
  BY <1>6 DEF AnswerDialog
<1>7. CASE InvalidateGeneration
  BY <1>7 DEF InvalidateGeneration
<1>8. CASE InvalidateTested
  BY <1>8 DEF InvalidateTested
<1>9. CASE LaunchTest
  BY <1>9 DEF LaunchTest, Launch
<1>10. CASE LaunchTransfer
  BY <1>10 DEF LaunchTransfer, Launch
<1>11. CASE RefuseTransfer
  BY <1>11 DEF RefuseTransfer
<1>12. CASE RequestStop
  BY <1>12 DEF RequestStop
<1>13. CASE Cancel
  BY <1>13 DEF Cancel
<1>14. CASE BeginShutdown
  BY <1>14 DEF BeginShutdown
<1>15. CASE DetachWindow
  BY <1>15 DEF DetachWindow
<1>16. CASE JoinAtShutdown
  BY <1>16 DEF JoinAtShutdown
<1>17. CASE DestroyWindow
  BY <1>17 DEF DestroyWindow
<1>18. CASE Drain
  BY <1>18 DEF Drain
<1>19. CASE ApplyEvent
  <2>1. PICK event \in Events : event = batch[1] /\ 1 \in 1 .. Len(batch)
                               /\ (ApplyTested(event) \/ ApplyDegraded(event)
                                   \/ ApplyProgress(event) \/ ApplyFinished(event))
    BY <1>19, HeadTail DEF ApplyEvent
  <2>2. \A e : Has(batch', e) => Has(batch, e)
    BY <1>19, HeadTail DEF ApplyEvent
  <2>3. \A e : Has(batch, e) /\ event # e => Has(batch', e)
    <3>1. SUFFICES ASSUME NEW e, Has(batch, e), event # e
                   PROVE  Has(batch', e)
      OBVIOUS
    <3>2. PICK i \in 1 .. Len(batch) : batch[i] = e
      BY <3>1
    <3>3. i - 1 \in 1 .. Len(batch') /\ batch'[i - 1] = e
      BY <1>19, <2>1, <3>1, <3>2, HeadTail DEF ApplyEvent
    <3>4. QED
      BY <3>3
  <2>4. CASE ApplyTested(event)
    <3>1. (GoodPending /\ ~transferActive) \/ event = "untested"
      BY <1>19, <2>1, <2>4 DEF ApplyTested, ApplyEvent, Queue
    <3>2. QED
      BY <1>19, <2>1, <2>2, <2>3, <2>4, <3>1 DEF ApplyTested, ApplyEvent, Queue
  <2>5. CASE ApplyDegraded(event)
    BY <1>19, <2>2, <2>5 DEF ApplyDegraded, ApplyEvent
  <2>6. CASE ApplyProgress(event)
    BY <1>19, <2>2, <2>3, <2>6 DEF ApplyProgress, ApplyEvent
  <2>7. CASE ApplyFinished(event)
    BY <1>19, <2>2, <2>3, <2>7 DEF ApplyFinished, ApplyEvent
  <2>8. QED
    BY <2>1, <2>4, <2>5, <2>6, <2>7
<1>20. CASE ReturnEarly
  BY <1>20 DEF ReturnEarly, OperationEnds
<1>21. CASE Activate
  BY <1>21 DEF Activate
<1>22. CASE CheckStop
  BY <1>22 DEF CheckStop, OperationEnds
<1>23. CASE LoadWindow
  BY <1>23 DEF LoadWindow
<1>24. CASE Push
  BY <1>24 DEF Push
<1>25. CASE Awake
  BY <1>25 DEF Awake
<1>26. CASE TestReturns
  BY <1>26 DEF TestReturns
<1>27. CASE Compare
  BY <1>27 DEF Compare
<1>28. CASE StoreTested
  <2>1. ~Has(events, "tested") /\ ~Has(batch, "tested") /\ testActive
    BY <1>28 DEF StoreTested, Queue
  <2>2. QED
    BY <1>28, <2>1 DEF StoreTested, Post
<1>29. CASE TransferReturns
  BY <1>29 DEF TransferReturns
<1>30. CASE Degrade
  <2>1. ~Has(events, "tested") /\ ~Has(batch, "tested")
    BY <1>30 DEF Degrade, Queue
  <2>2. QED
    BY <1>30, <2>1 DEF Degrade, Post
<1>31. CASE ReportFinished
  BY <1>31 DEF ReportFinished, Post
<1>32. CASE Finish
  BY <1>32 DEF Finish, OperationEnds
<1>33. CASE ReportProgress
  BY <1>33 DEF ReportProgress, Post
<1>34. CASE UNCHANGED vars
  BY <1>34 DEF vars
<1>35. QED
  BY <1>1, <1>2, <1>3, <1>4, <1>5, <1>6, <1>7, <1>8, <1>9, <1>10, <1>11, <1>12,
        <1>13, <1>14, <1>15, <1>16, <1>17, <1>18, <1>19, <1>20, <1>21, <1>22, <1>23,
        <1>24, <1>25, <1>26, <1>27, <1>28, <1>29, <1>30, <1>31, <1>32, <1>33, <1>34
     DEF Next, Click, UiStep, WorkerStep

-----------------------------------------------------------------------------
(* The theorems.                                                            *)

\* The program starts within the invariant.
LEMMA InitIInv == Init => IInv
<1> SUFFICES ASSUME Init
             PROVE  IInv
  OBVIOUS
<1> USE DEF Init
<1>1. TypeOK
  <2>1. FlagsOK
    BY ZenonT(60) DEF FlagsOK
  <2>2. batch \in Seq(Events) /\ events \in Seq(Events) /\ job \in Jobs
    BY DEF Jobs
  <2>3. QED
    BY <2>1, <2>2 DEF FlagsOK, TypeOK, Events, Results
<1>2. Threads /\ WakeUps /\ Queue
  BY DEF Threads, Closing, InOperation, Joined, WakeUps, Queue
<1>3. TestedIs
  BY DEF TestedIs
<1>4. Belief
  BY DEF Belief, GoodPending, DegradePending, Has
<1>5. QED
  BY <1>1, <1>2, <1>3, <1>4 DEF IInv

\* The invariant holds in every state the program reaches.
LEMMA SpecIInv == Spec => []IInv
<1>1. IInv /\ [Next]_vars => IInv'
  <2> SUFFICES ASSUME IInv, [Next]_vars
               PROVE  IInv'
    OBVIOUS
  <2>1. TypeOK'
    BY TypeStep DEF IInv
  <2>2. QED
    BY <2>1, ThreadsStep, WakeUpsStep, QueueStep, TestedIsStep, BeliefStep DEF IInv
<1>2. QED
  BY InitIInv, <1>1, PTL DEF Spec

\* The flags of the window, of the controller and of the queue have their types.
THEOREM SessionTypeCorrect == Spec => []TypeOK
<1>1. IInv => TypeOK
  BY DEF IInv
<1>2. QED
  BY <1>1, SpecIInv, PTL

\* post_event() and drain_events(): whatever the worker posts while the window
\* drains, an event in the queue has a handler on its way.
THEOREM NoWakeupIsLost == Spec => []NoLostWakeup
<1>1. IInv => NoLostWakeup
  BY DEF IInv, WakeUps, NoLostWakeup
<1>2. QED
  BY <1>1, SpecIInv, PTL

\* The buttons of the window: Test and Start are offered only when neither the
\* transport nor the worker is in an operation.
THEOREM OfferedOnlyWhenFree == Spec => []OfferedWhenFree
<1>1. IInv => OfferedWhenFree
  BY DEF IInv, Threads, InOperation, Joined, OfferedWhenFree
<1>2. QED
  BY <1>1, SpecIInv, PTL

\* start_transfer(): the connection and the destinations of a transfer are those of
\* one test that found them good, whatever was typed meanwhile.
THEOREM TransfersUseOneTest == Spec => []TransferUsesOneTest
<1>1. IInv => TransferUsesOneTest
  BY DEF IInv, Threads, TestedIs, TransferUsesOneTest
<1>2. QED
  BY <1>1, SpecIInv, PTL

\* connection_ready and tested_connection_: an enabled Start button that nobody
\* has edited under stands for the details on the screen.
THEOREM StartIsAlwaysBacked == Spec => []StartIsBacked
<1>1. IInv => StartIsBacked
  <2> SUFFICES ASSUME IInv, ui = "idle", ready, ~testActive, ~transferActive, ~edited
               PROVE  tested = fields
    BY DEF StartIsBacked
  <2>1. ~closing
    BY DEF IInv, Threads, Closing
  <2>2. ~DegradePending
    BY DEF IInv, Threads, Joined, Queue, DegradePending, Has
  <2>3. QED
    BY <2>1, <2>2 DEF IInv, Belief
<1>2. QED
  BY <1>1, SpecIInv, PTL

\* shutdown(): the worker is joined before the window is destroyed.
THEOREM WindowIsLast == Spec => []WindowOutlivesWorker
<1>1. IInv => WindowOutlivesWorker
  BY DEF IInv, Threads, WindowOutlivesWorker
<1>2. QED
  BY <1>1, SpecIInv, PTL
=============================================================================
