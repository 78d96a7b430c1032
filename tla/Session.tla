------------------------------- MODULE Session -------------------------------
(***************************************************************************)
(* The application between the buttons and the transport: the window's     *)
(* flags (ui.cpp, ui_events.cpp), ApplicationController (main.cpp), the    *)
(* worker jthread it joins and launches, and the event queue through which *)
(* the worker reports to the window (ui_internal.hpp).                     *)
(*                                                                         *)
(* The UI thread runs one callback at a time; ui tells which statement of  *)
(* it is next where the worker could notice.  What the transport does is   *)
(* Transport's matter: here an operation is called, becomes active and     *)
(* ends with a result.                                                     *)
(*                                                                         *)
(* The details on the screen (host, user, password, port, destinations)    *)
(* are one value of Contents.                                              *)
(*                                                                         *)
(* Bound: MaxGeneration, the number of edits and tests in a behaviour.     *)
(***************************************************************************)
EXTENDS Naturals, Sequences

CONSTANTS
    Contents,        \* what can stand in the fields of the connection page
    MaxGeneration,   \* how far generation_ is followed
    None             \* tested_connection_ has no value

ASSUME ContentsAssumption == Contents # {} /\ None \notin Contents
ASSUME GenerationAssumption == MaxGeneration \in Nat

Results == {"ok", "failed", "degraded", "aborted"}

Events == {"tested", "untested", "degraded", "progress", "finished"}

Jobs == [kind : {"test", "transfer"}, generation : Nat,
         connection : Contents, destination : Contents]

VARIABLES
    \* The window
    ui,              \* the next statement of the UI thread
    dialog,          \* the question before closing is on the screen
    closing,         \* close_requested() has got its answer
    windowAlive,     \* the window has not been destroyed
    fields,          \* what is on the screen
    destination,     \* UpdatePage::destination of the pages
    ready,           \* connection_ready
    testActive,      \* connection_test_active
    transferActive,  \* transfer_active
    abortButton,     \* the abort button can be pressed
    batch,           \* the events drain_events() has taken
    \* ApplicationController
    window,          \* window_ is not null
    shuttingDown, generation, tested,
    \* The worker
    worker,          \* where the worker thread is
    job,             \* what its lambda has captured
    stop,            \* its stop token
    result,          \* of the transport's operation
    current,         \* the generation was still the job's
    mail,            \* the event it is posting
    after,           \* where it goes on then
    \* ScpTransport
    operationActive, cancelFlag,
    \* AsyncState, and FLTK's queue of awake handlers
    events, wakePending, wakes,
    \* History
    edited,          \* the fields have been edited since the test was started
    passed           \* the details some test found good

screenVars  == <<fields, destination, ready, testActive, transferActive, abortButton, edited>>
windowVars  == <<dialog, closing, windowAlive, screenVars, batch>>
sharedVars  == <<window, shuttingDown, generation, tested>>
workerVars  == <<worker, job, result, current, mail, after>>
opVars      == <<operationActive, cancelFlag>>
queueVars   == <<events, wakePending, wakes>>
vars == <<ui, windowVars, sharedVars, workerVars, stop, opVars, queueVars, passed>>

Init ==
    /\ ui = "idle" /\ dialog = FALSE /\ closing = FALSE /\ windowAlive = TRUE
    /\ fields \in Contents
    /\ destination = fields
    /\ ready = FALSE /\ testActive = FALSE /\ transferActive = FALSE
    /\ abortButton = FALSE
    /\ batch = <<>>
    /\ window = TRUE /\ shuttingDown = FALSE /\ generation = 0 /\ tested = None
    /\ worker = "none"
    /\ job = [kind |-> "test", generation |-> 0, connection |-> fields, destination |-> fields]
    /\ stop = FALSE /\ result = "failed" /\ current = FALSE
    /\ mail = "untested" /\ after = "ended"
    /\ operationActive = FALSE /\ cancelFlag = FALSE
    /\ events = <<>> /\ wakePending = FALSE /\ wakes = 0
    /\ edited = FALSE
    /\ passed = {}

-----------------------------------------------------------------------------
(* The UI thread: callbacks of the widgets.                                 *)

\* The user can reach the widgets.
AtWidgets == ui = "idle" /\ ~dialog

\* Mutant: an edit also ends the test that is running.
EditEndsTest ==
    /\ AtWidgets /\ generation < MaxGeneration
    /\ fields' \in Contents
    /\ ready' = FALSE
    /\ testActive' = FALSE
    /\ edited' = TRUE
    /\ ui' = "bump"
    /\ UNCHANGED <<dialog, closing, windowAlive, destination, transferActive,
                   abortButton, batch, sharedVars, workerVars, stop, opVars, queueVars, passed>>

\* connection_changed(): any field of the connection page was typed in.
Edit ==
    /\ AtWidgets /\ generation < MaxGeneration
    /\ fields' \in Contents
    /\ ready' = FALSE
    /\ edited' = TRUE
    /\ ui' = "bump"
    /\ UNCHANGED <<dialog, closing, windowAlive, destination, testActive, transferActive,
                   abortButton, batch, sharedVars, workerVars, stop, opVars, queueVars, passed>>

\* invalidate_connection(), and the same two statements of shutdown().
InvalidateGeneration ==
    /\ ui = "bump"
    /\ ui' = "reset"
    /\ generation' = generation + 1
    /\ UNCHANGED <<windowVars, window, shuttingDown, tested, workerVars, stop, opVars,
                   queueVars, passed>>

InvalidateTested ==
    /\ ui = "reset"
    /\ ui' = IF shuttingDown THEN "stop" ELSE "idle"
    /\ tested' = None
    /\ UNCHANGED <<windowVars, window, shuttingDown, generation, workerVars, stop, opVars,
                   queueVars, passed>>

\* join_worker() requests a stop, then waits.
RequestJoin(place) ==
    /\ ui' = place
    /\ stop' = (worker # "none")

\* The join is over: the worker has ended, or there was none.
Joined == worker \in {"none", "ended"}

Launch(kind, number, connection) ==
    /\ worker' = "called"
    /\ job' = [kind |-> kind, generation |-> number, connection |-> connection,
               destination |-> destination]
    /\ stop' = FALSE
    /\ UNCHANGED <<result, current, mail, after>>

\* The test button, with valid fields.  The pages take their destinations before
\* the controller can refuse.
ClickTest ==
    /\ AtWidgets /\ generation < MaxGeneration
    /\ ~transferActive /\ ~testActive
    /\ destination' = fields
    /\ edited' = FALSE
    /\ IF operationActive THEN UNCHANGED <<ui, stop>> ELSE RequestJoin("joinForTest")
    /\ UNCHANGED <<dialog, closing, windowAlive, fields, ready, testActive, transferActive,
                   abortButton, batch, sharedVars, workerVars, opVars, queueVars, passed>>

LaunchTest ==
    /\ ui = "joinForTest" /\ Joined
    /\ ui' = "idle"
    /\ generation' = generation + 1
    /\ Launch("test", generation + 1, fields)
    /\ testActive' = TRUE
    /\ UNCHANGED <<dialog, closing, windowAlive, fields, destination, ready, transferActive,
                   abortButton, edited, batch, window, shuttingDown, tested, opVars, queueVars, passed>>

\* A start button, with a source chosen.
ClickStart ==
    /\ AtWidgets
    /\ ready /\ ~testActive /\ ~transferActive
    /\ IF operationActive THEN UNCHANGED <<ui, stop>> ELSE RequestJoin("joinForTransfer")
    /\ UNCHANGED <<windowVars, sharedVars, workerVars, opVars, queueVars, passed>>

\* Refused: there is no tested connection, or the source cannot be pinned.
RefuseTransfer ==
    /\ ui = "joinForTransfer" /\ Joined
    /\ ui' = "idle"
    /\ worker' = "none"
    /\ stop' = FALSE
    /\ UNCHANGED <<windowVars, sharedVars, job, result, current, mail, after, opVars,
                   queueVars, passed>>

\* Mutant: the connection is taken from the screen.
LaunchFromForm ==
    /\ ui = "joinForTransfer" /\ Joined /\ tested # None
    /\ ui' = "idle"
    /\ Launch("transfer", generation, fields)
    /\ transferActive' = TRUE
    /\ abortButton' = TRUE
    /\ UNCHANGED <<dialog, closing, windowAlive, fields, destination, ready, testActive,
                   edited, batch, sharedVars, opVars, queueVars, passed>>

\* Mutant: tested_connection_ is taken without a look.
LaunchUnchecked ==
    /\ ui = "joinForTransfer" /\ Joined
    /\ ui' = "idle"
    /\ Launch("transfer", generation, tested)
    /\ transferActive' = TRUE
    /\ abortButton' = TRUE
    /\ UNCHANGED <<dialog, closing, windowAlive, fields, destination, ready, testActive,
                   edited, batch, sharedVars, opVars, queueVars, passed>>

LaunchTransfer ==
    /\ ui = "joinForTransfer" /\ Joined /\ tested # None
    /\ ui' = "idle"
    /\ Launch("transfer", generation, tested)
    /\ transferActive' = TRUE
    /\ abortButton' = TRUE
    /\ UNCHANGED <<dialog, closing, windowAlive, fields, destination, ready, testActive,
                   edited, batch, sharedVars, opVars, queueVars, passed>>

ClickAbort ==
    /\ AtWidgets
    /\ transferActive /\ abortButton
    /\ abortButton' = FALSE
    /\ ui' = "stop"
    /\ UNCHANGED <<dialog, closing, windowAlive, fields, destination, ready, testActive,
                   transferActive, edited, batch, sharedVars, workerVars, stop, opVars,
                   queueVars, passed>>

\* request_cancel(): the stop token, then ScpTransport::cancel().
RequestStop ==
    /\ ui = "stop"
    /\ ui' = "cancel"
    /\ stop' = (worker # "none")
    /\ UNCHANGED <<windowVars, sharedVars, workerVars, opVars, queueVars, passed>>

\* Mutant: request_cancel() leaves the transport alone.
CancelNothing ==
    /\ ui = "cancel"
    /\ ui' = IF shuttingDown THEN "joinForShutdown" ELSE IF closing THEN "shutdown" ELSE "idle"
    /\ UNCHANGED <<windowVars, sharedVars, workerVars, stop, opVars, queueVars, passed>>

Cancel ==
    /\ ui = "cancel"
    /\ ui' = IF shuttingDown THEN "joinForShutdown" ELSE IF closing THEN "shutdown" ELSE "idle"
    /\ cancelFlag' = (cancelFlag \/ operationActive)
    /\ UNCHANGED <<windowVars, sharedVars, workerVars, stop, operationActive, queueVars, passed>>

-----------------------------------------------------------------------------
(* The UI thread: closing, and the awake handler.                           *)

ClickClose ==
    /\ AtWidgets
    /\ IF transferActive THEN dialog' = TRUE /\ UNCHANGED <<ui, closing>>
       ELSE ui' = "shutdown" /\ closing' = TRUE /\ UNCHANGED dialog
    /\ UNCHANGED <<windowAlive, screenVars, batch, sharedVars, workerVars, stop, opVars,
                   queueVars, passed>>

\* While the question was on the screen the transfer may have ended.
AnswerDialog ==
    /\ ui = "idle" /\ dialog
    /\ dialog' = FALSE
    /\ \/ UNCHANGED <<ui, closing>>
       \/ /\ ui' = IF transferActive THEN "stop" ELSE "shutdown"
          /\ closing' = TRUE
    /\ UNCHANGED <<windowAlive, screenVars, batch, sharedVars, workerVars, stop, opVars,
                   queueVars, passed>>

\* shutdown(): the flag, the window, then as invalidate_connection() and
\* request_cancel(), and the join.
BeginShutdown ==
    /\ ui = "shutdown"
    /\ ui' = "detach"
    /\ shuttingDown' = TRUE
    /\ UNCHANGED <<windowVars, window, generation, tested, workerVars, stop, opVars,
                   queueVars, passed>>

DetachWindow ==
    /\ ui = "detach"
    /\ ui' = "bump"
    /\ window' = FALSE
    /\ UNCHANGED <<windowVars, shuttingDown, generation, tested, workerVars, stop, opVars,
                   queueVars, passed>>

\* Mutant: the worker is left to itself.
LeaveWorker ==
    /\ ui = "joinForShutdown"
    /\ ui' = "hidden"
    /\ UNCHANGED <<windowVars, sharedVars, workerVars, stop, opVars, queueVars, passed>>

JoinAtShutdown ==
    /\ ui = "joinForShutdown" /\ Joined
    /\ ui' = "hidden"
    /\ worker' = "none"
    /\ UNCHANGED <<windowVars, sharedVars, job, result, current, mail, after, stop, opVars,
                   queueVars, passed>>

\* The window is hidden, Fl::run() returns, the window goes out of scope.
DestroyWindow ==
    /\ ui = "hidden"
    /\ ui' = "gone"
    /\ windowAlive' = FALSE
    /\ events' = <<>>
    /\ UNCHANGED <<dialog, closing, screenVars, batch, sharedVars, workerVars, stop, opVars,
                   wakePending, wakes, passed>>

\* Mutant: wake_pending is not cleared when the events are taken.
DrainQuietly ==
    /\ ui = "idle" /\ wakes > 0
    /\ wakes' = wakes - 1
    /\ batch' = events /\ events' = <<>>
    /\ ui' = IF events = <<>> THEN "idle" ELSE "draining"
    /\ UNCHANGED <<dialog, closing, windowAlive, screenVars, sharedVars, workerVars, stop,
                   opVars, wakePending, passed>>

\* drain_events(): FLTK calls the handler in the loop of the window or of the
\* question.
Drain ==
    /\ ui = "idle" /\ wakes > 0
    /\ wakes' = wakes - 1
    /\ wakePending' = FALSE
    /\ batch' = events /\ events' = <<>>
    /\ ui' = IF events = <<>> THEN "idle" ELSE "draining"
    /\ UNCHANGED <<dialog, closing, windowAlive, screenVars, sharedVars, workerVars, stop,
                   opVars, passed>>

\* apply(ConnectionEvent) of a test: an event no test waits for is dropped.
ApplyTested(event) ==
    /\ event \in {"tested", "untested"}
    /\ testActive' = FALSE
    /\ ready' = IF testActive THEN event = "tested" ELSE ready
    /\ UNCHANGED <<transferActive, abortButton>>

\* Mutant: a connection lost in a transfer is only forgotten by the controller.
IgnoreDegraded(event) ==
    /\ event = "degraded"
    /\ UNCHANGED <<ready, testActive, transferActive, abortButton>>

ApplyDegraded(event) ==
    /\ event = "degraded"
    /\ ready' = FALSE
    /\ UNCHANGED <<testActive, transferActive, abortButton>>

ApplyProgress(event) ==
    /\ event = "progress"
    /\ abortButton' = (abortButton \/ transferActive)
    /\ UNCHANGED <<ready, testActive, transferActive>>

ApplyFinished(event) ==
    /\ event = "finished"
    /\ transferActive' = FALSE
    /\ abortButton' = (abortButton /\ ~transferActive)
    /\ UNCHANGED <<ready, testActive>>

ApplyEvent ==
    /\ ui = "draining" /\ batch # <<>>
    /\ LET event == Head(batch) IN
          \/ ApplyTested(event) \/ ApplyDegraded(event)
          \/ ApplyProgress(event) \/ ApplyFinished(event)
    /\ batch' = Tail(batch)
    /\ ui' = IF Tail(batch) = <<>> THEN "idle" ELSE "draining"
    /\ UNCHANGED <<dialog, closing, windowAlive, fields, destination, edited, sharedVars,
                   workerVars, stop, opVars, queueVars, passed>>

-----------------------------------------------------------------------------
(* The worker: the transport's operation.                                   *)

uiSide == <<ui, windowVars, sharedVars, stop>>

\* Where the worker goes when the operation has a result.
OperationEnds(verdict) ==
    /\ worker' = "tail"
    /\ result' = verdict
    /\ operationActive' = FALSE
    /\ UNCHANGED <<job, current, mail, after>>

\* Asked to stop, or refused by the validations, before it is active; a refused
\* user, port, password or known_hosts file counts as a connection that is lost.
ReturnEarly ==
    /\ worker = "called"
    /\ \/ stop /\ OperationEnds("aborted")
       \/ ~stop /\ OperationEnds("failed")
       \/ ~stop /\ job.kind = "transfer" /\ OperationEnds("degraded")
    /\ UNCHANGED <<uiSide, cancelFlag, queueVars, passed>>

Activate ==
    /\ worker = "called" /\ ~stop
    /\ worker' = "active"
    /\ operationActive' = TRUE
    /\ cancelFlag' = FALSE
    /\ UNCHANGED <<uiSide, job, result, current, mail, after, queueVars, passed>>

CheckStop ==
    /\ worker = "active"
    /\ IF stop
         THEN OperationEnds("aborted") /\ cancelFlag' = TRUE
         ELSE worker' = "running"
              /\ UNCHANGED <<job, result, current, mail, after, operationActive, cancelFlag>>
    /\ UNCHANGED <<uiSide, queueVars, passed>>

\* A test that was not cancelled has timed out at the latest, and a cancelled
\* operation ends; any other transfer goes on as long as it likes.
Finish ==
    /\ worker = "running"
    /\ \E verdict \in Results :
          /\ verdict = "aborted" => cancelFlag
          /\ verdict = "degraded" => job.kind = "transfer"
          /\ OperationEnds(verdict)
          /\ passed' = IF job.kind = "test" /\ verdict = "ok"
                         THEN passed \cup {job.connection} ELSE passed
    /\ UNCHANGED <<uiSide, cancelFlag, queueVars>>

MustFinish == Finish /\ (job.kind = "test" \/ cancelFlag)

-----------------------------------------------------------------------------
(* The worker: reporting to the window.                                     *)

Post(event, next) ==
    /\ worker' = "load"
    /\ mail' = event
    /\ after' = next

\* The progress callback.
ReportProgress ==
    /\ worker = "running" /\ job.kind = "transfer"
    /\ ~stop /\ ~shuttingDown
    /\ Post("progress", "running")
    /\ UNCHANGED <<uiSide, job, result, current, opVars, queueVars, passed>>

LoadWindow ==
    /\ worker = "load"
    /\ worker' = IF window THEN "push" ELSE after
    /\ UNCHANGED <<uiSide, job, result, current, mail, after, opVars, queueVars, passed>>

\* post_event(): progress replaces progress at the end of the queue.
Push ==
    /\ worker = "push"
    /\ events' = IF ~windowAlive THEN events
                 ELSE IF mail = "progress" /\ events # <<>> /\ events[Len(events)] = "progress"
                 THEN events ELSE Append(events, mail)
    /\ wakePending' = (wakePending \/ windowAlive)
    /\ worker' = IF wakePending \/ ~windowAlive THEN after ELSE "awake"
    /\ UNCHANGED <<uiSide, job, result, current, mail, after, opVars, wakes, passed>>

\* Fl::awake().
Awake ==
    /\ worker = "awake"
    /\ worker' = after
    /\ wakes' = wakes + 1
    /\ UNCHANGED <<uiSide, job, result, current, mail, after, opVars, events, wakePending, passed>>

\* The end of the test's lambda: nothing is reported once it was asked to stop.
TestReturns ==
    /\ worker = "tail" /\ job.kind = "test"
    /\ worker' = IF stop \/ shuttingDown THEN "ended" ELSE "compare"
    /\ UNCHANGED <<uiSide, job, result, current, mail, after, opVars, queueVars, passed>>

Compare ==
    /\ worker = "compare"
    /\ worker' = "store"
    /\ current' = (generation = job.generation)
    /\ UNCHANGED <<uiSide, job, result, mail, after, opVars, queueVars, passed>>

\* Mutant: a test whose details have been edited reports nothing.
StoreOrLeave ==
    /\ worker = "store"
    /\ tested' = IF ~current THEN tested
                 ELSE IF result = "ok" THEN job.connection ELSE None
    /\ IF current THEN Post(IF result = "ok" THEN "tested" ELSE "untested", "ended")
       ELSE worker' = "ended" /\ UNCHANGED <<mail, after>>
    /\ UNCHANGED <<ui, windowVars, window, shuttingDown, generation, stop, job, result,
                   current, opVars, queueVars, passed>>

StoreTested ==
    /\ worker = "store"
    /\ tested' = IF ~current THEN tested
                 ELSE IF result = "ok" THEN job.connection ELSE None
    /\ Post(IF current /\ result = "ok" THEN "tested" ELSE "untested", "ended")
    /\ UNCHANGED <<ui, windowVars, window, shuttingDown, generation, stop, job, result,
                   current, opVars, queueVars, passed>>

\* The end of the transfer's lambda.
TransferReturns ==
    /\ worker = "tail" /\ job.kind = "transfer"
    /\ worker' = IF shuttingDown THEN "ended"
                 ELSE IF result = "degraded" THEN "degrade" ELSE "finish"
    /\ UNCHANGED <<uiSide, job, result, current, mail, after, opVars, queueVars, passed>>

Degrade ==
    /\ worker = "degrade"
    /\ tested' = None
    /\ Post("degraded", "finish")
    /\ UNCHANGED <<ui, windowVars, window, shuttingDown, generation, stop, job, result,
                   current, opVars, queueVars, passed>>

ReportFinished ==
    /\ worker = "finish"
    /\ Post("finished", "ended")
    /\ UNCHANGED <<uiSide, job, result, current, opVars, queueVars, passed>>

-----------------------------------------------------------------------------

Click == Edit \/ ClickTest \/ ClickStart \/ ClickAbort \/ ClickClose \/ AnswerDialog

UiStep ==
    \/ InvalidateGeneration \/ InvalidateTested
    \/ LaunchTest \/ LaunchTransfer \/ RefuseTransfer
    \/ RequestStop \/ Cancel
    \/ BeginShutdown \/ DetachWindow \/ JoinAtShutdown \/ DestroyWindow
    \/ Drain \/ ApplyEvent

WorkerStep ==
    \/ ReturnEarly \/ Activate \/ CheckStop
    \/ LoadWindow \/ Push \/ Awake
    \/ TestReturns \/ Compare \/ StoreTested
    \/ TransferReturns \/ Degrade \/ ReportFinished

Next == Click \/ UiStep \/ WorkerStep \/ Finish \/ ReportProgress

Spec == Init /\ [][Next]_vars

\* FLTK's loop and both threads run; a test ends, and so does what was cancelled
\* (CancelTerminates and OnlyUploadsHang of Transport).  Nothing is assumed of
\* the user.
Fairness == WF_vars(UiStep) /\ WF_vars(WorkerStep) /\ WF_vars(MustFinish)

FairSpec == Spec /\ Fairness

-----------------------------------------------------------------------------
(* Properties.                                                              *)

\* The flags of the window, of the controller and of the queue have their types.
TypeOK ==
    /\ ui \in {"idle", "bump", "reset", "joinForTest", "joinForTransfer", "stop", "cancel",
               "shutdown", "detach", "joinForShutdown", "hidden", "gone", "draining"}
    /\ dialog \in BOOLEAN /\ closing \in BOOLEAN /\ windowAlive \in BOOLEAN
    /\ fields \in Contents /\ destination \in Contents
    /\ ready \in BOOLEAN /\ testActive \in BOOLEAN /\ transferActive \in BOOLEAN
    /\ abortButton \in BOOLEAN /\ edited \in BOOLEAN
    /\ batch \in Seq(Events) /\ events \in Seq(Events)
    /\ window \in BOOLEAN /\ shuttingDown \in BOOLEAN
    /\ generation \in Nat
    /\ tested \in Contents \cup {None}
    /\ worker \in {"none", "called", "active", "running", "load", "push", "awake", "tail",
                   "compare", "store", "degrade", "finish", "ended"}
    /\ job \in Jobs
    /\ stop \in BOOLEAN /\ result \in Results /\ current \in BOOLEAN
    /\ mail \in Events /\ after \in {"running", "finish", "ended"}
    /\ operationActive \in BOOLEAN /\ cancelFlag \in BOOLEAN
    /\ wakePending \in BOOLEAN /\ wakes \in Nat
    /\ passed \in SUBSET Contents

\* An event in the queue is always fetched: the handler is on its way, or the
\* worker that put the event there is about to send it.  wake_pending, which
\* saves wake-ups, never loses the last one.
NoLostWakeup == events # <<>> => wakes = 1 \/ worker = "awake"

\* The window offers Test and Start only when the transport is free, so that the
\* controller never refuses a click with "transfer_active" and never joins a
\* worker that still runs an operation.
OfferedWhenFree ==
    ui = "idle" /\ ~testActive /\ ~transferActive
        => ~operationActive /\ worker \notin {"called", "active", "running"}

\* A transfer runs with a connection that a test found good, and with the
\* destination directories that were entered together with it; whatever was typed
\* while the test or the transfer ran.
TransferUsesOneTest ==
    transferActive =>
        /\ job.kind = "transfer"
        /\ job.connection = job.destination
        /\ job.connection \in passed

\* As long as nobody edits the details a test was started with, an enabled Start
\* button means that the controller holds exactly these details.
StartIsBacked ==
    ui = "idle" /\ ready /\ ~testActive /\ ~transferActive /\ ~edited => tested = fields

\* The window is destroyed only when no worker can report to it any more.
WindowOutlivesWorker == ~windowAlive => worker = "none"

\* A test that runs ends for the window too, whatever is edited meanwhile.
TestEnds == testActive ~> ~testActive \/ shuttingDown

\* Abort ends the transfer for the window, wherever the worker is.
AbortEnds == ui = "stop" /\ transferActive ~> ~transferActive \/ shuttingDown

\* Closing ends: the UI thread, which joins the worker, does not wait for ever.
CloseEnds == closing ~> ui = "gone"
=============================================================================
