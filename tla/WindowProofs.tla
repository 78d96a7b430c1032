------------------------------ MODULE WindowProofs ------------------------------
(***************************************************************************)
(* What holds of Window for any pages, files and paths, any causes of a    *)
(* failure, and any number of uploads.                                     *)
(***************************************************************************)
EXTENDS Window, RemotePathProofs, FiniteSetTheorems

\* What can be said of a failure, and what can be in the queue.
TransportFailures ==
    UNION {TransferFailures(cause, kept) :
              cause \in TransferCauses \cup {"invalid_remote_directory"}, kept \in BOOLEAN}
Failures == {Success} \cup TransportFailures
Outcomes == {"completed", "aborted", "failed"}
QueuedEvents ==
    [kind : {"tested"}, ok : BOOLEAN] \cup [kind : {"degraded", "progress"}]
    \cup [kind : {"finished"}, outcome : Outcomes,
          message : {UiDetail(failure) : failure \in Failures}]

Types ==
    /\ events \in Seq(QueuedEvents)
    /\ verdict \in [state : Outcomes \cup {"none"}, failure : Failures]
    /\ source \in [Pages -> Files \cup {None}]
    /\ history \in [Pages -> Seq(Files)] /\ uploaded \in [Pages -> Seq(Files)]
    /\ transferActive => activePage \in Pages /\ activeFile \in Files

\* One operation at a time is between the window and the worker, and its last event
\* tells the window that it is over.
Sending == {"uploading", "degrading", "reporting"}
Kinds(i) == events[i].kind
InFlight(i) == Kinds(i) \in {"progress", "degraded"}

Idle == ~testActive /\ ~transferActive /\ worker = "none" /\ events = <<>>
Testing == testActive /\ ~transferActive /\ worker = "testing" /\ events = <<>>
TestDone ==
    /\ testActive /\ ~transferActive /\ worker = "none"
    /\ Len(events) = 1 /\ Kinds(1) = "tested"
Uploading ==
    /\ ~testActive /\ transferActive /\ worker \in Sending
    /\ \A i \in 1..Len(events) : InFlight(i)
    /\ job.page = activePage /\ job.file = activeFile
    /\ worker = "reporting" => verdict.state \in Outcomes
    /\ worker = "degrading" => verdict.state = "failed"
Finishing ==
    /\ ~testActive /\ transferActive /\ worker = "none"
    /\ Len(events) > 0 /\ Kinds(Len(events)) = "finished"
    /\ \A i \in 1..Len(events) - 1 : InFlight(i)

Phase == Idle \/ Testing \/ TestDone \/ Uploading \/ Finishing

\* A file that has been committed and not entered into the history yet.
Delivered ==
    \/ worker = "reporting" /\ verdict.state = "completed"
    \/ Finishing /\ events[Len(events)].outcome = "completed"

HistoryAgrees ==
    IF Delivered
      THEN uploaded = [history EXCEPT ![activePage] = Append(@, activeFile)]
      ELSE uploaded = history

\* A connection that has failed is dropped, or the news of it are on their way.
LossIsKnown ==
    /\ failed \in ConnectionCauses =>
          worker = "degrading" \/ (\E i \in 1..Len(events) : Kinds(i) = "degraded") \/ ~ready
    /\ testActive => failed = "none"

WindowInv == Types /\ Phase /\ HistoryAgrees /\ LossIsKnown

-----------------------------------------------------------------------------

\* classify_ssh_error() and degrades_connection(): a failure of the connection whose
\* phrase is kept degrades it.
LEMMA ConnectionCausesDegrade ==
    ASSUME NEW cause \in ConnectionCauses, NEW failure \in TransferFailures(cause, TRUE)
    PROVE  DegradesConnection(failure.kind)
<1>1. cause \notin ConfigTokens
  BY DEF ConnectionCauses, ConfigTokens
<1>2. PICK transfer \in BOOLEAN : failure = CommandFailure(cause, TRUE, TRUE, transfer)
  BY <1>1 DEF TransferFailures, ConnectionCauses
<1>3. failure.kind = ClassifySshError(Phrases(cause), TRUE)
  BY <1>2 DEF CommandFailure, Failure, Diagnostic
<1>4. Phrases(cause) \in {{"Permission denied"}, {"Host key verification failed"},
                         {"No route to host"}, {"Connection reset"}}
  BY DEF Phrases, ConnectionCauses
<1>5. QED
  BY <1>3, <1>4 DEF ClassifySshError, ConnectionPhrases, DegradesConnection

\* The window is built with nothing going on.
LEMMA WindowInvInit == Init => WindowInv
<1>1. SUFFICES ASSUME Init PROVE WindowInv
  OBVIOUS
<1> USE DEF Init, UploadInit
<1>2. verdict \in [state : Outcomes \cup {"none"}, failure : Failures]
  <2>1. Success \in Failures
    BY DEF Failures
  <2>2. verdict = [state |-> "none", failure |-> Success]
    BY <1>1 DEF NoVerdict, Verdict
  <2>3. QED
    BY <2>1, <2>2
<1>3. Types
  <2>1. events \in Seq(QueuedEvents)
    <3>1. events = <<>>
      BY <1>1
    <3>2. QED
      BY <3>1
  <2>2. history \in [Pages -> Seq(Files)] /\ uploaded \in [Pages -> Seq(Files)]
    <3>1. history = [p \in Pages |-> <<>>] /\ uploaded = history
      BY <1>1
    <3>2. <<>> \in Seq(Files)
      OBVIOUS
    <3>3. QED
      BY <3>1, <3>2
  <2>3. source \in [Pages -> Files \cup {None}]
    BY <1>1
  <2>4. QED
    BY <1>1, <1>2, <2>1, <2>2, <2>3 DEF Types
<1>4. Idle
  BY <1>1 DEF Idle
<1>5. HistoryAgrees /\ LossIsKnown
  BY <1>1 DEF HistoryAgrees, Delivered, Finishing, LossIsKnown, ConnectionCauses
<1>6. QED
  BY <1>3, <1>4, <1>5 DEF WindowInv, Phase

-----------------------------------------------------------------------------
(* The phases of an operation.                                              *)

\* What the window and the worker do tells how far the operation is.
LEMMA PhaseIsSeen ==
    ASSUME WindowInv
    PROVE  /\ ~testActive /\ ~transferActive => Idle
           /\ worker = "testing" => Testing
           /\ worker \in Sending => Uploading
           /\ Idle \/ Testing \/ TestDone \/ Uploading => ~Finishing
           /\ ~(worker = "reporting" /\ verdict.state = "completed") /\ ~Finishing
                 => uploaded = history
BY DEF WindowInv, Phase, Idle, Testing, TestDone, Uploading, Finishing, Sending,
       HistoryAgrees, Delivered

\* Steps that leave the operation alone: typing, choosing a file, and cancelling.
LEMMA FrameKeeps ==
    ASSUME WindowInv,
           UNCHANGED <<activePage, activeFile, transferActive, history, testActive>>,
           UNCHANGED <<worker, job, verdict, events, uploaded, failed>>,
           source' \in [Pages -> Files \cup {None}],
           ready' => ready
    PROVE  WindowInv'
<1>1. Types'
  BY DEF WindowInv, Types
<1>2. Phase'
  BY DEF WindowInv, Phase, Idle, Testing, TestDone, Uploading, Finishing, Kinds, InFlight
<1>3. HistoryAgrees'
  BY DEF WindowInv, HistoryAgrees, Delivered, Finishing, Kinds, InFlight
<1>4. LossIsKnown'
  BY DEF WindowInv, LossIsKnown, Kinds
<1>5. QED
  BY <1>1, <1>2, <1>3, <1>4 DEF WindowInv

\* test_connection(): the paths are refused, or a test goes on.
LEMMA TestConnectionKeeps == WindowInv /\ TestConnection => WindowInv'
<1>1. SUFFICES ASSUME WindowInv, TestConnection PROVE WindowInv'
  OBVIOUS
<1>2. UNCHANGED <<source, history, trayVars, ready, job, verdict, events, uploaded>>
  BY <1>1 DEF TestConnection
<1>3. CASE UNCHANGED <<testActive, worker, failed>>
  BY <1>1, <1>2, <1>3, FrameKeeps DEF trayVars, WindowInv, Types
<1>4. CASE testActive' = TRUE /\ worker' = "testing" /\ failed' = "none"
  <2>1. Idle /\ uploaded = history
    BY <1>1, PhaseIsSeen DEF TestConnection, Idle
  <2>2. Types' /\ Testing'
    BY <1>1, <1>2, <1>4, <2>1 DEF WindowInv, Types, Testing, Idle, trayVars
  <2>3. ~Delivered'
    BY <1>4 DEF Delivered, Finishing
  <2>4. HistoryAgrees' /\ LossIsKnown'
    BY <1>2, <1>4, <2>1, <2>3 DEF HistoryAgrees, LossIsKnown, ConnectionCauses
  <2>5. QED
    BY <2>2, <2>4 DEF WindowInv, Phase
<1>5. QED
  BY <1>1, <1>3, <1>4 DEF TestConnection

\* The worker's end of a test.
LEMMA TestEndsKeeps == WindowInv /\ TestEnds => WindowInv'
<1>1. SUFFICES ASSUME WindowInv, TestEnds PROVE WindowInv'
  OBVIOUS
<1>2. Testing /\ uploaded = history
  BY <1>1, PhaseIsSeen DEF TestEnds
<1>3. PICK ok \in BOOLEAN : events' = Append(events, Tested(ok))
  BY <1>1, Zenon DEF TestEnds
<1>4. events = <<>>
  BY <1>2 DEF Testing
<1>5. events' = <<Tested(ok)>>
  BY <1>3, <1>4
<1>6. Tested(ok) \in QueuedEvents /\ Tested(ok).kind = "tested"
  BY DEF Tested, QueuedEvents
<1>7. UNCHANGED <<pageVars, trayVars, connectionVars, job, verdict, ghosts>>
      /\ worker' = "none"
  BY <1>1 DEF TestEnds
<1>8. Types'
  BY <1>1, <1>5, <1>6, <1>7 DEF WindowInv, Types, pageVars, trayVars, ghosts
<1>9. TestDone'
  BY <1>2, <1>5, <1>6, <1>7 DEF Testing, TestDone, Kinds, trayVars, connectionVars
<1>10. ~Delivered'
  BY <1>7, <1>9 DEF Delivered, Finishing, TestDone
<1>11. HistoryAgrees'
  BY <1>2, <1>7, <1>10 DEF HistoryAgrees, pageVars, ghosts
<1>12. LossIsKnown'
  BY <1>1, <1>2, <1>7 DEF WindowInv, LossIsKnown, Testing, connectionVars, ghosts,
                         ConnectionCauses
<1>13. QED
  BY <1>8, <1>9, <1>11, <1>12 DEF WindowInv, Phase

\* start_transfer(): nothing of an earlier operation is on its way, and a connection
\* that is ready has not failed.
LEMMA StartTransferKeeps ==
    ASSUME WindowInv, NEW p \in Pages, StartTransfer(p)
    PROVE  WindowInv'
<1>1. Idle /\ uploaded = history /\ ready
  BY PhaseIsSeen DEF StartTransfer, StartButton, Idle
<1>2. source[p] \in Files
  BY DEF StartTransfer, WindowInv, Types
<1>3. /\ transferActive' = TRUE /\ activePage' = p /\ activeFile' = source[p]
      /\ job'.page = p /\ job'.file = source[p] /\ worker' = "uploading"
      /\ source' = [source EXCEPT ![p] = None]
      /\ UNCHANGED <<history, connectionVars, verdict, events, ghosts>>
  BY DEF StartTransfer, ShowConnecting
<1>4. Types'
  BY <1>2, <1>3 DEF WindowInv, Types, ghosts
<1>5. events' = <<>> /\ ~testActive'
  BY <1>1, <1>3 DEF Idle, connectionVars
<1>6. Uploading'
  BY <1>3, <1>5 DEF Uploading, Sending
<1>7. HistoryAgrees'
  BY <1>1, <1>3 DEF HistoryAgrees, Delivered, Finishing, ghosts
<1>8. failed \notin ConnectionCauses
  BY <1>1 DEF WindowInv, LossIsKnown, Idle
<1>9. LossIsKnown'
  BY <1>3, <1>5, <1>8 DEF LossIsKnown, ghosts
<1>10. QED
  BY <1>4, <1>6, <1>7, <1>9 DEF WindowInv, Phase

-----------------------------------------------------------------------------
(* The worker's steps.                                                      *)

\* An event is added to those that the worker has posted; the history and the page
\* of the transfer stay.
LEMMA PostKeepsTypes ==
    ASSUME NEW e \in QueuedEvents, Types, events' = Append(events, e)
    PROVE  /\ events' \in Seq(QueuedEvents)
           /\ Len(events') = Len(events) + 1 /\ Len(events) \in Nat
           /\ events'[Len(events) + 1] = e
           /\ \A i \in 1..Len(events) : events'[i] = events[i]
BY DEF Types

\* A progress event.
LEMMA ReportProgressKeeps == WindowInv /\ ReportProgress => WindowInv'
<1>1. SUFFICES ASSUME WindowInv, ReportProgress PROVE WindowInv'
  OBVIOUS
<1> DEFINE e == [kind |-> "progress"]
<1>2. e \in QueuedEvents
  BY DEF QueuedEvents
<1>3. /\ events' = Append(events, e) /\ worker = "uploading"
      /\ UNCHANGED <<pageVars, trayVars, connectionVars, controllerVars, ghosts>>
  BY <1>1 DEF ReportProgress
<1>4. /\ events' \in Seq(QueuedEvents)
      /\ Len(events') = Len(events) + 1 /\ Len(events) \in Nat
      /\ events'[Len(events) + 1] = e
      /\ \A i \in 1..Len(events) : events'[i] = events[i]
  BY <1>1, <1>2, <1>3, PostKeepsTypes DEF WindowInv
<1>5. Uploading /\ ~Finishing /\ uploaded = history
  BY <1>1, <1>3, PhaseIsSeen DEF Sending
<1>6. Types'
  BY <1>1, <1>3, <1>4 DEF WindowInv, Types, pageVars, trayVars, controllerVars, ghosts
<1>7. Uploading'
  BY <1>3, <1>4, <1>5 DEF Uploading, Kinds, InFlight, trayVars, connectionVars,
                          controllerVars
<1>8. HistoryAgrees'
  BY <1>3, <1>5 DEF HistoryAgrees, Delivered, Finishing, pageVars, controllerVars, ghosts
<1>9. LossIsKnown'
  BY <1>1, <1>3, <1>4 DEF WindowInv, LossIsKnown, Kinds, connectionVars, controllerVars,
                          ghosts
<1>10. QED
  BY <1>6, <1>7, <1>8, <1>9 DEF WindowInv, Phase

\* The file is committed: for the page of the transfer, which is still to be told.
LEMMA CompleteKeeps == WindowInv /\ Complete => WindowInv'
<1>1. SUFFICES ASSUME WindowInv, Complete PROVE WindowInv'
  OBVIOUS
<1>2. /\ worker = "uploading" /\ worker' = "reporting"
      /\ verdict' = Verdict("completed", Success)
      /\ uploaded' = [uploaded EXCEPT ![job.page] = Append(@, job.file)]
      /\ UNCHANGED <<pageVars, trayVars, connectionVars, job, events, failed>>
  BY <1>1 DEF Complete
<1>3. Uploading /\ ~Finishing /\ uploaded = history
  BY <1>1, <1>2, PhaseIsSeen DEF Sending
<1>4. activePage \in Pages /\ activeFile \in Files
      /\ job.page = activePage /\ job.file = activeFile
  BY <1>1, <1>3 DEF WindowInv, Types, Uploading
<1>5. uploaded' = [history EXCEPT ![activePage] = Append(@, activeFile)]
  BY <1>2, <1>3, <1>4
<1>6. verdict' \in [state : Outcomes \cup {"none"}, failure : Failures]
      /\ verdict'.state = "completed"
  BY <1>2 DEF Verdict, Outcomes, Failures
<1>7. uploaded' \in [Pages -> Seq(Files)]
  BY <1>1, <1>4, <1>5 DEF WindowInv, Types
<1>8. Types'
  BY <1>1, <1>2, <1>6, <1>7 DEF WindowInv, Types, pageVars, trayVars
<1>9. Uploading'
  BY <1>2, <1>3, <1>6 DEF Uploading, Sending, Outcomes, Kinds, InFlight, trayVars,
                          connectionVars
<1>10. HistoryAgrees'
  BY <1>2, <1>5, <1>6 DEF HistoryAgrees, Delivered, pageVars, trayVars
<1>11. LossIsKnown'
  BY <1>1, <1>2 DEF WindowInv, LossIsKnown, Kinds, connectionVars
<1>12. QED
  BY <1>8, <1>9, <1>10, <1>11 DEF WindowInv, Phase

\* The transfer was aborted: nothing was committed.
LEMMA AbortKeeps == WindowInv /\ Abort => WindowInv'
<1>1. SUFFICES ASSUME WindowInv, Abort PROVE WindowInv'
  OBVIOUS
<1>2. /\ worker = "uploading" /\ worker' = "reporting"
      /\ verdict' = Verdict("aborted", Success)
      /\ UNCHANGED <<pageVars, trayVars, connectionVars, job, events, ghosts>>
  BY <1>1 DEF Abort
<1>3. Uploading /\ ~Finishing /\ uploaded = history
  BY <1>1, <1>2, PhaseIsSeen DEF Sending
<1>4. verdict' \in [state : Outcomes \cup {"none"}, failure : Failures]
      /\ verdict'.state = "aborted"
  BY <1>2 DEF Verdict, Outcomes, Failures
<1>5. Types'
  BY <1>1, <1>2, <1>4 DEF WindowInv, Types, pageVars, trayVars, ghosts
<1>6. Uploading'
  BY <1>2, <1>3, <1>4 DEF Uploading, Sending, Outcomes, Kinds, InFlight, trayVars,
                          connectionVars
<1>7. HistoryAgrees'
  BY <1>2, <1>3, <1>4 DEF HistoryAgrees, Delivered, Finishing, pageVars, ghosts
<1>8. LossIsKnown'
  BY <1>1, <1>2 DEF WindowInv, LossIsKnown, Kinds, connectionVars, ghosts
<1>9. QED
  BY <1>5, <1>6, <1>7, <1>8 DEF WindowInv, Phase

\* The transfer failed: if the connection did and its phrase was kept, it is
\* dropped before the outcome is reported.
LEMMA FailKeeps == WindowInv /\ Fail => WindowInv'
<1>1. SUFFICES ASSUME WindowInv, Fail PROVE WindowInv'
  OBVIOUS
<1>a. PICK cause \in Causes, kept \in BOOLEAN :
        \E failure \in TransferFailures(cause, kept) :
          /\ verdict' = Verdict("failed", failure)
          /\ worker' = IF DegradesConnection(failure.kind) THEN "degrading" ELSE "reporting"
          /\ failed' = IF kept THEN cause ELSE "unseen"
  BY <1>1, Zenon DEF Fail
<1>2. PICK failure \in TransferFailures(cause, kept) :
          /\ verdict' = Verdict("failed", failure)
          /\ worker' = IF DegradesConnection(failure.kind) THEN "degrading" ELSE "reporting"
          /\ failed' = IF kept THEN cause ELSE "unseen"
  BY <1>a, Zenon
<1>3. /\ worker = "uploading"
      /\ UNCHANGED <<pageVars, trayVars, connectionVars, job, events, uploaded>>
  BY <1>1 DEF Fail
<1>4. Uploading /\ ~Finishing /\ uploaded = history
  BY <1>1, <1>3, PhaseIsSeen DEF Sending
<1>5. failure \in Failures
  BY <1>2 DEF Failures, TransportFailures, Causes
<1>6. verdict' \in [state : Outcomes \cup {"none"}, failure : Failures]
      /\ verdict'.state = "failed"
  BY <1>2, <1>5 DEF Verdict, Outcomes
<1>7. Types'
  BY <1>1, <1>3, <1>6 DEF WindowInv, Types, pageVars, trayVars
<1>8. worker' \in {"degrading", "reporting"}
  BY <1>2
<1>9. Uploading'
  BY <1>3, <1>4, <1>6, <1>8 DEF Uploading, Sending, Outcomes, Kinds, InFlight, trayVars,
                                connectionVars
<1>10. HistoryAgrees'
  BY <1>3, <1>4, <1>6, <1>8 DEF HistoryAgrees, Delivered, Finishing, pageVars
<1>11. failed' \in ConnectionCauses => worker' = "degrading"
  <2>1. SUFFICES ASSUME failed' \in ConnectionCauses PROVE worker' = "degrading"
    OBVIOUS
  <2>2. kept = TRUE /\ cause \in ConnectionCauses
    BY <1>2, <2>1 DEF ConnectionCauses
  <2>3. QED
    BY <1>2, <2>2, ConnectionCausesDegrade
<1>12. LossIsKnown'
  BY <1>3, <1>4, <1>11 DEF LossIsKnown, Uploading, connectionVars
<1>13. QED
  BY <1>7, <1>9, <1>10, <1>12 DEF WindowInv, Phase

\* degrade_connection(): the window will be told.
LEMMA DropConnectionKeeps == WindowInv /\ DropConnection => WindowInv'
<1>1. SUFFICES ASSUME WindowInv, DropConnection PROVE WindowInv'
  OBVIOUS
<1> DEFINE e == [kind |-> "degraded"]
<1>2. e \in QueuedEvents
  BY DEF QueuedEvents
<1>3. /\ events' = Append(events, e) /\ worker = "degrading" /\ worker' = "reporting"
      /\ UNCHANGED <<pageVars, trayVars, connectionVars, job, verdict, ghosts>>
  BY <1>1 DEF DropConnection
<1>4. /\ events' \in Seq(QueuedEvents)
      /\ Len(events') = Len(events) + 1 /\ Len(events) \in Nat
      /\ events'[Len(events) + 1] = e
      /\ \A i \in 1..Len(events) : events'[i] = events[i]
  BY <1>1, <1>2, <1>3, PostKeepsTypes DEF WindowInv
<1>5. Uploading /\ ~Finishing /\ uploaded = history
  BY <1>1, <1>3, PhaseIsSeen DEF Sending
<1>6. Types'
  BY <1>1, <1>3, <1>4 DEF WindowInv, Types, pageVars, trayVars, ghosts
<1>7. Uploading'
  BY <1>3, <1>4, <1>5 DEF Uploading, Kinds, InFlight, Sending, Outcomes, trayVars,
                          connectionVars
<1>8. HistoryAgrees'
  BY <1>3, <1>5 DEF HistoryAgrees, Delivered, Finishing, Uploading, pageVars, ghosts
<1>9. LossIsKnown'
  <2>1. events'[Len(events) + 1].kind = "degraded"
    BY <1>4
  <2>2. ~testActive'
    BY <1>3, <1>5 DEF Uploading, connectionVars
  <2>3. Len(events) + 1 \in 1..Len(events')
    BY <1>4
  <2>4. QED
    BY <2>1, <2>2, <2>3 DEF LossIsKnown, Kinds
<1>10. QED
  BY <1>6, <1>7, <1>8, <1>9 DEF WindowInv, Phase

\* The last event of a transfer: its outcome.
LEMMA ReportFinishedKeeps == WindowInv /\ ReportFinished => WindowInv'
<1>1. SUFFICES ASSUME WindowInv, ReportFinished PROVE WindowInv'
  OBVIOUS
<1> DEFINE e == [kind |-> "finished", outcome |-> verdict.state,
                 message |-> UiDetail(verdict.failure)]
<1>2. /\ events' = Append(events, e) /\ worker = "reporting" /\ worker' = "none"
      /\ job' = NoJob /\ verdict' = NoVerdict
      /\ UNCHANGED <<pageVars, trayVars, connectionVars, uploaded, failed>>
  BY <1>1 DEF ReportFinished
<1>3. Uploading /\ ~Finishing
  BY <1>1, <1>2, PhaseIsSeen DEF Sending
<1>4. e \in QueuedEvents
  <2>1. verdict.state \in Outcomes
    BY <1>2, <1>3 DEF Uploading
  <2>2. verdict.failure \in Failures
    BY <1>1 DEF WindowInv, Types
  <2>3. UiDetail(verdict.failure) \in {UiDetail(failure) : failure \in Failures}
    BY <2>2
  <2>4. QED
    BY <2>1, <2>3 DEF QueuedEvents
<1>5. /\ events' \in Seq(QueuedEvents)
      /\ Len(events') = Len(events) + 1 /\ Len(events) \in Nat
      /\ events'[Len(events) + 1] = e
      /\ \A i \in 1..Len(events) : events'[i] = events[i]
  <2> HIDE DEF e
  <2>1. QED
    BY <1>1, <1>2, <1>4, PostKeepsTypes DEF WindowInv
<1>6. events'[Len(events')].kind = "finished"
      /\ events'[Len(events')].outcome = verdict.state
  BY <1>5
<1>7. verdict' \in [state : Outcomes \cup {"none"}, failure : Failures]
  BY <1>2 DEF NoVerdict, Verdict, Failures
<1>8. Types'
  BY <1>1, <1>2, <1>5, <1>7 DEF WindowInv, Types, pageVars, trayVars
<1>9. Finishing'
  BY <1>2, <1>3, <1>5, <1>6 DEF Uploading, Finishing, Kinds, InFlight, trayVars,
                                connectionVars
<1>10. Delivered' <=> verdict.state = "completed"
  BY <1>2, <1>6, <1>9 DEF Delivered, NoVerdict, Verdict
<1>11. Delivered <=> verdict.state = "completed"
  BY <1>2, <1>3 DEF Delivered
<1>12. HistoryAgrees'
  BY <1>1, <1>2, <1>10, <1>11 DEF WindowInv, HistoryAgrees, pageVars, trayVars
<1>13. LossIsKnown'
  BY <1>1, <1>2, <1>5 DEF WindowInv, LossIsKnown, Kinds, connectionVars
<1>14. QED
  BY <1>8, <1>9, <1>12, <1>13 DEF WindowInv, Phase

-----------------------------------------------------------------------------
(* drain_events() and apply().                                              *)

\* The first event is taken out of the queue; the others move up.
LEMMA TakeKeepsTypes ==
    ASSUME Types, events # <<>>, events' = Tail(events)
    PROVE  /\ events' \in Seq(QueuedEvents)
           /\ Len(events) \in Nat \ {0} /\ Len(events') = Len(events) - 1
           /\ Head(events) = events[1] /\ Head(events) \in QueuedEvents
           /\ \A i \in 1..Len(events') : events'[i] = events[i + 1]
BY DEF Types

\* The result of a test, which is the only event there is.
LEMMA ApplyTestedKeeps ==
    ASSUME WindowInv, events # <<>>, ApplyTested(Head(events)),
           events' = Tail(events), UNCHANGED <<controllerVars, ghosts>>
    PROVE  WindowInv'
<1>1. /\ events' \in Seq(QueuedEvents)
      /\ Len(events) \in Nat \ {0} /\ Len(events') = Len(events) - 1
      /\ Head(events) = events[1] /\ Kinds(1) = "tested"
  BY TakeKeepsTypes DEF WindowInv, ApplyTested, Kinds
<1>2. TestDone /\ uploaded = history
  BY <1>1, PhaseIsSeen DEF WindowInv, Phase, Idle, Testing, TestDone, Uploading, Finishing,
                           InFlight, Kinds
<1>3. ~testActive' /\ UNCHANGED <<pageVars, trayVars>>
  BY <1>2 DEF ApplyTested, TestDone
<1>4. events' = <<>>
  BY <1>1, <1>2 DEF TestDone
<1>5. Types'
  BY <1>1, <1>3 DEF WindowInv, Types, pageVars, trayVars, controllerVars, ghosts
<1>6. Idle'
  BY <1>2, <1>3, <1>4 DEF TestDone, Idle, trayVars, controllerVars
<1>7. ~Delivered'
  BY <1>6, <1>4 DEF Delivered, Finishing, Idle
<1>8. HistoryAgrees'
  BY <1>2, <1>3, <1>7 DEF HistoryAgrees, pageVars, ghosts
<1>9. LossIsKnown'
  BY <1>2, <1>3 DEF WindowInv, LossIsKnown, TestDone, ConnectionCauses, ghosts
<1>10. QED
  BY <1>5, <1>6, <1>8, <1>9 DEF WindowInv, Phase

\* An event of a transfer that goes on, or whose outcome comes behind it; the news of
\* a lost connection take effect.
LEMMA ApplyInFlightKeeps ==
    ASSUME WindowInv, events # <<>>, InFlight(1),
           events' = Tail(events), UNCHANGED <<controllerVars, ghosts>>,
           UNCHANGED <<pageVars, activePage, activeFile, transferActive, testActive>>,
           ready' => ready, Kinds(1) = "degraded" => ~ready'
    PROVE  WindowInv'
<1>1. /\ events' \in Seq(QueuedEvents)
      /\ Len(events) \in Nat \ {0} /\ Len(events') = Len(events) - 1
      /\ \A i \in 1..Len(events') : events'[i] = events[i + 1]
  BY TakeKeepsTypes DEF WindowInv
<1>2. Uploading \/ Finishing
  BY <1>1 DEF WindowInv, Phase, Idle, Testing, TestDone, InFlight, Kinds
<1>3. Types'
  BY <1>1 DEF WindowInv, Types, pageVars, controllerVars, ghosts
<1>4. Uploading => Uploading'
  BY <1>1 DEF Uploading, Kinds, InFlight, controllerVars
<1>5. ASSUME Finishing
      PROVE  Finishing' /\ events'[Len(events')] = events[Len(events)]
  <2>1. Len(events) # 1
    BY <1>5 DEF Finishing, Kinds, InFlight
  <2>2. Len(events') > 0 /\ events'[Len(events')] = events[Len(events)]
    BY <1>1, <2>1
  <2>3. \A i \in 1..Len(events') - 1 : events'[i].kind \in {"progress", "degraded"}
    BY <1>1, <1>5 DEF Finishing, Kinds, InFlight
  <2>4. QED
    BY <1>5, <2>2, <2>3 DEF Finishing, Kinds, InFlight, controllerVars
<1>6. Delivered' <=> Delivered
  BY <1>2, <1>4, <1>5 DEF Delivered, Finishing, Uploading, Sending, controllerVars
<1>7. HistoryAgrees'
  BY <1>6 DEF WindowInv, HistoryAgrees, pageVars, ghosts
<1>8. LossIsKnown'
  <2>1. ~testActive'
    BY <1>2 DEF Uploading, Finishing
  <2>2. ASSUME NEW i \in 1..Len(events), Kinds(i) = "degraded"
        PROVE  ~ready' \/ \E j \in 1..Len(events') : events'[j].kind = "degraded"
    <3>1. CASE i = 1
      BY <2>2, <3>1
    <3>2. CASE i # 1
      <4>1. i - 1 \in 1..Len(events') /\ events'[i - 1] = events[i]
        BY <1>1, <3>2
      <4>2. QED
        BY <2>2, <4>1 DEF Kinds
    <3>3. QED
      BY <3>1, <3>2
  <2>3. QED
    BY <2>1, <2>2 DEF WindowInv, LossIsKnown, Kinds, controllerVars, ghosts
<1>9. QED
  BY <1>2, <1>3, <1>4, <1>5, <1>7, <1>8 DEF WindowInv, Phase

\* The outcome of a transfer, behind which nothing comes.
LEMMA ApplyFinishedKeeps ==
    ASSUME WindowInv, events # <<>>, ApplyFinished(Head(events)),
           events' = Tail(events), UNCHANGED <<controllerVars, ghosts>>
    PROVE  WindowInv'
<1>1. /\ events' \in Seq(QueuedEvents)
      /\ Len(events) \in Nat \ {0} /\ Len(events') = Len(events) - 1
      /\ Head(events) = events[1] /\ Kinds(1) = "finished"
  BY TakeKeepsTypes DEF WindowInv, ApplyFinished, Kinds
<1>2. Finishing /\ Len(events) = 1
  BY <1>1 DEF WindowInv, Phase, Idle, Testing, TestDone, Uploading, Finishing,
              InFlight, Kinds
<1>3. events' = <<>>
  BY <1>1, <1>2
<1>4. /\ RecordOutcome(events[1]) /\ ~transferActive'
      /\ UNCHANGED <<source, connectionVars>>
  BY <1>1, <1>2 DEF ApplyFinished, Finishing
<1>5. activePage \in Pages /\ activeFile \in Files
  BY <1>2 DEF WindowInv, Types, Finishing
<1>6. Delivered <=> events[1].outcome = "completed"
  BY <1>2 DEF Delivered, Finishing
<1>7. history' = uploaded
  BY <1>4, <1>6 DEF WindowInv, HistoryAgrees, RecordOutcome
<1>8. Types'
  BY <1>1, <1>4, <1>7 DEF WindowInv, Types, controllerVars, ghosts
<1>9. Idle'
  BY <1>2, <1>3, <1>4 DEF Idle, Finishing, connectionVars, controllerVars
<1>10. ~Delivered'
  BY <1>9, <1>3 DEF Delivered, Finishing, Idle
<1>11. HistoryAgrees'
  BY <1>7, <1>10 DEF HistoryAgrees, ghosts
<1>12. LossIsKnown'
  <2>1. \A i \in 1..Len(events) : Kinds(i) # "degraded"
    BY <1>1, <1>2
  <2>2. worker # "degrading" /\ ~testActive
    BY <1>2 DEF Finishing
  <2>3. QED
    BY <1>4, <2>1, <2>2 DEF WindowInv, LossIsKnown, connectionVars, ghosts
<1>13. QED
  BY <1>8, <1>9, <1>11, <1>12 DEF WindowInv, Phase

\* apply(): each kind of event keeps the invariant.
LEMMA ApplyEventKeeps == WindowInv /\ ApplyEvent => WindowInv'
<1>1. SUFFICES ASSUME WindowInv, ApplyEvent PROVE WindowInv'
  OBVIOUS
<1>2. /\ events # <<>> /\ events' = Tail(events)
      /\ UNCHANGED <<controllerVars, ghosts>>
  BY <1>1 DEF ApplyEvent
<1>3. Head(events) = events[1]
  BY <1>1, <1>2, TakeKeepsTypes DEF WindowInv
<1>4. CASE ApplyTested(Head(events))
  BY <1>1, <1>2, <1>4, ApplyTestedKeeps
<1>5. CASE ApplyDegraded(Head(events))
  <2>1. Kinds(1) = "degraded" /\ ~ready'
        /\ UNCHANGED <<pageVars, trayVars, testActive>>
    BY <1>3, <1>5 DEF ApplyDegraded, Set, Kinds
  <2>2. QED
    BY <1>1, <1>2, <2>1, ApplyInFlightKeeps DEF InFlight, trayVars
<1>6. CASE ApplyProgress(Head(events))
  <2>1. Kinds(1) = "progress"
        /\ UNCHANGED <<pageVars, activePage, activeFile, transferActive, connectionVars>>
    BY <1>3, <1>6 DEF ApplyProgress, Kinds
  <2>2. QED
    BY <1>1, <1>2, <2>1, ApplyInFlightKeeps DEF InFlight, connectionVars
<1>7. CASE ApplyFinished(Head(events))
  BY <1>1, <1>2, <1>7, ApplyFinishedKeeps
<1>8. QED
  BY <1>1, <1>4, <1>5, <1>6, <1>7 DEF ApplyEvent

\* Every step of the window, of the worker and of the Test page keeps the invariant.
LEMMA WindowInvStep == WindowInv /\ [Next]_vars => WindowInv'
<1>1. SUFFICES ASSUME WindowInv, [Next]_vars PROVE WindowInv'
  OBVIOUS
<1>2. CASE UNCHANGED uploadVars
  BY <1>1, <1>2, FrameKeeps DEF uploadVars, pageVars, trayVars, connectionVars,
                                controllerVars, ghosts, WindowInv, Types
<1>3. CASE ConnectionChanged
  BY <1>1, <1>3, FrameKeeps DEF ConnectionChanged, pageVars, trayVars, ghosts,
                                WindowInv, Types
<1>4. ASSUME NEW p \in Pages, ChooseSource(p)
      PROVE  WindowInv'
  <2>1. UNCHANGED <<history, trayVars, connectionVars, controllerVars, events, ghosts>>
        /\ source' \in [Pages -> Files \cup {None}]
    BY <1>1, <1>4 DEF ChooseSource, WindowInv, Types
  <2>2. QED
    BY <1>1, <2>1, FrameKeeps DEF trayVars, connectionVars, controllerVars, ghosts
<1>5. ASSUME NEW p \in Pages, RefuseStart(p)
      PROVE  WindowInv'
  BY <1>1, <1>5, FrameKeeps DEF RefuseStart, trayVars, connectionVars, controllerVars,
                                ghosts, WindowInv, Types
<1>6. CASE AbortTransfer
  BY <1>1, <1>6, FrameKeeps DEF AbortTransfer, pageVars, connectionVars, controllerVars,
                                ghosts, WindowInv, Types
<1>7. CASE UploadNext
  BY <1>1, <1>3, <1>4, <1>5, <1>6, <1>7, TestConnectionKeeps, TestEndsKeeps,
     StartTransferKeeps, ReportProgressKeeps, CompleteKeeps, AbortKeeps, FailKeeps,
     DropConnectionKeeps, ReportFinishedKeeps, ApplyEventKeeps DEF UploadNext
<1>8. QED
  BY <1>1, <1>2, <1>7 DEF Next, vars

\* The invariant holds of every behaviour of the window.
LEMMA WindowInvariant == Spec => []WindowInv
BY WindowInvInit, WindowInvStep, PTL DEF Spec

-----------------------------------------------------------------------------

\* apply() and start_transfer(): a page's session history is the list of the files
\* committed from it, but for the one whose outcome has not been shown yet.
THEOREM HistoriesAreTrue == Spec => []HistoryIsTrue
<1>1. ASSUME WindowInv PROVE HistoryIsTrue
  <2>1. CASE Delivered
    <3>1. transferActive
      BY <1>1, <2>1 DEF WindowInv, Phase, Idle, Testing, TestDone, Uploading, Finishing,
                        Delivered
    <3>2. uploaded = [history EXCEPT ![activePage] = Append(@, activeFile)]
      BY <1>1, <2>1 DEF WindowInv, HistoryAgrees
    <3>3. history \in [Pages -> Seq(Files)]
      BY <1>1 DEF WindowInv, Types
    <3>4. QED
      BY <3>1, <3>2, <3>3 DEF HistoryIsTrue
  <2>2. CASE ~Delivered
    BY <1>1, <2>2 DEF WindowInv, HistoryAgrees, HistoryIsTrue
  <2>3. QED
    BY <2>1, <2>2
<1>2. QED
  BY <1>1, WindowInvariant, PTL

\* degrade_connection() and apply(): with the outcome of a transfer that lost the
\* connection, the start buttons are off.
THEOREM FailuresDropTheConnection == Spec => []FailureDropsConnection
<1>1. ASSUME WindowInv, failed \in ConnectionCauses, ~transferActive
      PROVE  ~ready
  <2>1. ~testActive
    BY <1>1 DEF WindowInv, LossIsKnown, ConnectionCauses
  <2>2. Idle
    BY <1>1, <2>1, PhaseIsSeen
  <2>3. QED
    BY <1>1, <2>2 DEF WindowInv, LossIsKnown, Idle
<1>2. WindowInv => FailureDropsConnection
  BY <1>1 DEF FailureDropsConnection
<1>3. QED
  BY <1>2, WindowInvariant, PTL

-----------------------------------------------------------------------------
(* The Test page.                                                           *)

\* The results on their way.
Pending == timers \cup posted
Events == [generation : Nat, index : Tests, passes : BOOLEAN]

MockInv == MockTypeOK /\ RemainingCounts

\* A set of rows is finite, and it has no rows if it counts 0.
LEMMA RowsAreFinite ==
    ASSUME NEW S \in SUBSET Tests
    PROVE  IsFiniteSet(S) /\ Cardinality(S) \in Nat /\ (Cardinality(S) = 0 <=> S = {})
BY TestsAreFinite, FS_Subset, FS_CardinalityType, FS_EmptySet

\* The page is built with rows that have not run.
LEMMA MockInvInit == MockInit => MockInv
<1>1. SUFFICES ASSUME MockInit PROVE MockInv
  OBVIOUS
<1>2. Running = {}
  BY <1>1 DEF MockInit, Running
<1>3. MockTypeOK
  BY <1>1 DEF MockInit, MockTypeOK
<1>4. RemainingCounts
  BY <1>1, <1>2, FS_EmptySet DEF MockInit, RemainingCounts
<1>5. QED
  BY <1>3, <1>4 DEF MockInv

\* A run starts only when nothing of an earlier run is on its way, and sends one
\* result for each test.
LEMMA StartKeeps == MockInv /\ RunMockTests => MockInv'
<1>1. SUFFICES ASSUME MockInv, RunMockTests PROVE MockInv'
  OBVIOUS
<1>2. timers = {} /\ posted = {}
  <2>1. Running = {}
    BY <1>1, RowsAreFinite DEF MockInv, RemainingCounts, RunMockTests, Running
  <2>2. QED
    BY <1>1, <2>1 DEF MockInv, RemainingCounts
<1>3. PICK plan \in Plans :
          timers' = {Result(testGeneration + 1, t, plan[t]) : t \in Tests}
  BY <1>1, <1>2 DEF RunMockTests, StartTimers
<1>4. \A t \in Tests : /\ Result(testGeneration + 1, t, plan[t]) \in Events
                       /\ Result(testGeneration + 1, t, plan[t]).index = t
                       /\ Result(testGeneration + 1, t, plan[t]).generation
                              = testGeneration + 1
  <2>1. \A t \in Tests : plan[t] \in BOOLEAN
    BY <1>3, Zenon DEF Plans
  <2>2. testGeneration + 1 \in Nat
    BY <1>1 DEF MockInv, MockTypeOK
  <2>3. QED
    BY <2>1, <2>2 DEF Result, Events
<1>5. testGeneration' = testGeneration + 1 /\ posted' = {}
      /\ remaining' = Cardinality(Tests) /\ rows' = [t \in Tests |-> "running"]
  BY <1>1, <1>2 DEF RunMockTests, StartTimers
<1>6. Running' = Tests
  BY <1>5 DEF Running
<1>7. MockTypeOK'
  BY <1>1, <1>3, <1>4, <1>5, RowsAreFinite DEF MockInv, MockTypeOK, Events
<1>8. RemainingCounts'
  BY <1>3, <1>4, <1>5, <1>6 DEF RemainingCounts
<1>9. QED
  BY <1>7, <1>8 DEF MockInv

\* A timer that fires moves its result.
LEMMA TimerKeeps == ASSUME NEW event \in timers, MockInv, TimerFires(event) PROVE MockInv'
<1>1. timers' \cup posted' = timers \cup posted /\ timers' \cap posted' = {}
  BY DEF TimerFires, MockInv, RemainingCounts
<1>2. UNCHANGED <<testGeneration, remaining, rows>>
  BY DEF TimerFires
<1>3. Running' = Running
  BY <1>2 DEF Running
<1>4. QED
  BY <1>1, <1>2, <1>3 DEF MockInv, MockTypeOK, RemainingCounts

\* A result that is applied is of this run, and takes one row out of those running.
LEMMA ResultKeeps ==
    ASSUME NEW event \in posted, MockInv, ApplyMockResult(event)
    PROVE  MockInv'
<1>1. event \in Events /\ event.generation = testGeneration /\ event.index \in Running
  BY DEF MockInv, MockTypeOK, RemainingCounts, Events
<1>2. Running \in SUBSET Tests /\ remaining = Cardinality(Running) /\ remaining # 0
  BY <1>1, RowsAreFinite DEF MockInv, RemainingCounts, Running
<1>3. /\ rows' = [rows EXCEPT ![event.index] = Outcome(event)]
      /\ remaining' = remaining - 1
      /\ posted' = posted \ {event} /\ UNCHANGED <<testGeneration, timers>>
  BY <1>1, <1>2 DEF ApplyMockResult, SetTestState
<1>4. Outcome(event) \in {"pass", "fail"}
  BY DEF Outcome
<1>5. Running' = Running \ {event.index}
  BY <1>1, <1>3, <1>4 DEF MockInv, MockTypeOK, Running, Events
<1>6. remaining' = Cardinality(Running')
  BY <1>1, <1>2, <1>3, <1>5, RowsAreFinite, FS_RemoveElement
<1>7. Pending' = Pending \ {event}
  BY <1>3 DEF Pending, MockInv, RemainingCounts
<1>8. MockTypeOK'
  <2>1. remaining' \in Nat
    BY <1>2, <1>3, RowsAreFinite
  <2>2. rows' \in [Tests -> {"not_run", "running", "pass", "fail"}]
    BY <1>3, <1>4 DEF MockInv, MockTypeOK
  <2>3. QED
    BY <1>3, <2>1, <2>2 DEF MockInv, MockTypeOK
<1>9. RemainingCounts'
  <2>1. \A e \in Pending' : e.generation = testGeneration' /\ e.index \in Running'
    BY <1>3, <1>5, <1>7 DEF MockInv, RemainingCounts, Pending
  <2>2. \A t \in Running' : \E e \in Pending' : e.index = t
    BY <1>5, <1>7 DEF MockInv, RemainingCounts, Pending
  <2>3. \A d, e \in Pending' : d.index = e.index => d = e
    BY <1>7 DEF MockInv, RemainingCounts, Pending
  <2>4. timers' \cap posted' = {}
    BY <1>3 DEF MockInv, RemainingCounts
  <2>5. QED
    BY <1>6, <2>1, <2>2, <2>3, <2>4 DEF RemainingCounts, Pending
<1>10. QED
  BY <1>8, <1>9 DEF MockInv

\* The invariant holds of every behaviour of the Test page.
LEMMA MockInvariant == MockSpec => []MockInv
<1>1. MockInv /\ [MockNext]_mockVars => MockInv'
  <2>1. SUFFICES ASSUME MockInv, [MockNext]_mockVars PROVE MockInv'
    OBVIOUS
  <2>2. CASE UNCHANGED mockVars
    <3>1. Running' = Running
      BY <2>2 DEF mockVars, Running
    <3>2. QED
      BY <2>1, <2>2, <3>1 DEF mockVars, MockInv, MockTypeOK, RemainingCounts
  <2>3. QED
    BY <2>1, <2>2, StartKeeps, TimerKeeps, ResultKeeps DEF MockNext, MockEnds
<1>2. QED
  BY <1>1, MockInvInit, PTL DEF MockSpec

\* run_mock_tests() and apply_mock_result(): the count that gives the button back
\* agrees with the rows, and a result always belongs to the run that goes on.
THEOREM RemainingAlwaysCounts == MockSpec => []RemainingCounts
BY MockInvariant, PTL DEF MockInv

\* The pages of the window share a thread and an event queue: whatever happens on the
\* others, the Test page does what it does alone.
THEOREM TestPageRunsAlone == Spec => MockSpec
<1>1. Init => MockInit
  BY DEF Init
<1>2. [Next]_vars => [MockNext]_mockVars
  BY DEF Next, vars
<1>3. QED
  BY <1>1, <1>2, PTL DEF Spec, MockSpec

\* apply_mock_result(), in the window: the count that gives the button back agrees
\* with the rows.
THEOREM RemainingCountsInWindow == Spec => []RemainingCounts
BY TestPageRunsAlone, RemainingAlwaysCounts

-----------------------------------------------------------------------------
(* The types of the window.                                                 *)

Paths == Seq(STRING)
Statuses == {"none", "connecting", "progress", "cancelling"} \cup Outcomes
Workers == {"none", "testing"} \cup Sending

FieldTypes ==
    /\ input \in [Pages -> Paths] /\ destination \in [Pages -> Paths]
    /\ ready \in BOOLEAN /\ (ready <=> health = "connected")
    /\ tested \in BOOLEAN /\ edited \in BOOLEAN
TrayTypes ==
    /\ transferActive \in BOOLEAN /\ testActive \in BOOLEAN
    /\ IF transferActive THEN activePage \in Pages /\ activeFile \in Files
                         ELSE activePage = None /\ activeFile = None
    /\ status \in Statuses
    /\ worker \in Workers

LEMMA PathsJoined == ASSUME NEW a \in Paths, NEW b \in Paths PROVE a \o b \in Paths
BY DEF Paths

\* normalize_remote_directory() and normalize_remote_path() return a path.
LEMMA NormalizedArePaths ==
    ASSUME NEW path \in Paths
    PROVE  /\ NormalizeRemoteDirectory(path) # Invalid
                 => NormalizeRemoteDirectory(path) \in Paths
           /\ NormalizeRemotePath(path) # Invalid => NormalizeRemotePath(path) \in Paths
<1>1. NormalizeRemoteDirectory(path) # Invalid => NormalizeRemoteDirectory(path) \in Paths
  BY NormalizedType, Zenon DEF Paths
<1>2. ASSUME NormalizeRemotePath(path) # Invalid
      PROVE  NormalizeRemotePath(path) \in Paths
  <2> DEFINE parts == Significant(Tail(path))
             rest == IF parts # <<>> THEN parts ELSE <<"">>
  <2>1. ~IsRelative(path) /\ NormalizeRemotePath(path) = <<path[1]>> \o rest
    BY <1>2, Zenon DEF NormalizeRemotePath
  <2>2. path # <<>>
    <3>1. ~(Len(path) < 2)
      BY <2>1, Zenon DEF IsRelative
    <3>2. QED
      BY <3>1
  <2>3. path[1] \in STRING /\ Tail(path) \in Paths
    BY <2>2, FirstAndTail, Zenon DEF Paths
  <2>4. parts \in Paths
    BY <2>3, SignificantType, Zenon DEF Paths
  <2>5. rest \in Paths
    <3>1. <<"">> \in Paths
      BY EmptyIsText, Single, Zenon DEF Paths
    <3>2. QED
      BY <2>4, <3>1, Zenon
  <2> HIDE DEF rest
  <2>6. <<path[1]>> \o rest \in Paths
    <3>1. <<path[1]>> \in Paths
      BY <2>3, Single, Zenon DEF Paths
    <3>2. QED
      BY <2>5, <3>1, PathsJoined, Zenon
  <2>7. QED
    BY <2>1, <2>6, Zenon
<1>3. QED
  BY <1>1, <1>2, Zenon

\* The configuration's destinations are in the fields; the rest is switched off.
LEMMA TypesInit == Init => FieldTypes /\ TrayTypes
<1>1. SUFFICES ASSUME Init PROVE FieldTypes /\ TrayTypes
  OBVIOUS
<1>2. input = [p \in Pages |-> NormalizeRemotePath(Defaults[p])] /\ destination = input
  BY <1>1 DEF Init, UploadInit
<1>3. \A p \in Pages : NormalizeRemotePath(Defaults[p]) \in Paths
  <2>1. \A p \in Pages : Defaults[p] \in Paths /\ NormalizeRemotePath(Defaults[p]) # Invalid
    BY TypedArePaths, Zenon DEF Paths
  <2>2. QED
    BY <2>1, NormalizedArePaths, Zenon
<1>4. FieldTypes
  BY <1>1, <1>2, <1>3 DEF Init, UploadInit, FieldTypes
<1>5. TrayTypes
  BY <1>1 DEF Init, UploadInit, TrayTypes, Statuses, Workers
<1>6. QED
  BY <1>4, <1>5

\* What is typed is a path, and what is tested is what normalisation made of it; the
\* status says "Connected" if and only if the start buttons may be pressed.
LEMMA FieldTypesStep == FieldTypes /\ [Next]_vars => FieldTypes'
<1>1. SUFFICES ASSUME FieldTypes, [Next]_vars PROVE FieldTypes'
  OBVIOUS
<1>2. CASE ConnectionChanged
  <2>1. input' \in [Pages -> Paths]
    <3>1. Typed \subseteq Paths
      BY TypedArePaths, Zenon DEF Paths
    <3>2. QED
      BY <1>1, <1>2, <3>1 DEF ConnectionChanged, FieldTypes
  <2>2. QED
    BY <1>1, <1>2, <2>1 DEF ConnectionChanged, FieldTypes, pageVars
<1>3. CASE TestConnection
  <2>1. destination' \in [Pages -> Paths]
    <3>1. CASE \E p \in Pages : Normalized(p) = Invalid
      BY <1>1, <1>3, <3>1 DEF TestConnection, FieldTypes
    <3>2. CASE \A p \in Pages : Normalized(p) # Invalid
      <4>1. \A p \in Pages : Normalized(p) \in Paths
        BY <1>1, <3>2, NormalizedArePaths, Zenon DEF FieldTypes, Normalized
      <4>2. destination' = [p \in Pages |-> Normalized(p)]
        BY <1>3, <3>2 DEF TestConnection
      <4>3. QED
        BY <4>1, <4>2
    <3>3. QED
      BY <3>1, <3>2
  <2>2. QED
    BY <1>1, <1>3, <2>1 DEF TestConnection, FieldTypes
<1>4. CASE TestEnds
  <2>1. tested' \in BOOLEAN
    BY <1>1, <1>4 DEF TestEnds, FieldTypes
  <2>2. QED
    BY <1>1, <1>4, <2>1 DEF TestEnds, FieldTypes, pageVars, connectionVars
<1>5. CASE DropConnection
  BY <1>1, <1>5 DEF DropConnection, FieldTypes, pageVars, connectionVars
<1>6. CASE ApplyEvent
  <2>1. UNCHANGED <<input, destination, tested, edited>>
    BY <1>6 DEF ApplyEvent, ApplyTested, ApplyDegraded, ApplyProgress, ApplyFinished,
                controllerVars, pageVars, connectionVars
  <2>2. ready' \in BOOLEAN /\ (ready' <=> health' = "connected")
    <3>1. \/ UNCHANGED <<ready, health>>
          \/ ready' = TRUE /\ health' = "connected"
          \/ ready' = FALSE /\ health' \in {"disconnected", "degraded"}
      BY <1>6, Zenon DEF ApplyEvent, ApplyTested, ApplyDegraded, ApplyProgress,
                         ApplyFinished, Set, connectionVars
    <3>2. CASE UNCHANGED <<ready, health>>
      BY <1>1, <3>2, Zenon DEF FieldTypes
    <3>3. CASE ready' = TRUE /\ health' = "connected"
      BY <3>3, Zenon
    <3>4. CASE ready' = FALSE /\ health' \in {"disconnected", "degraded"}
      <4>1. health' # "connected"
        BY <3>4
      <4>2. QED
        BY <3>4, <4>1, Zenon
    <3>5. QED
      BY <3>1, <3>2, <3>3, <3>4
  <2>3. QED
    BY <1>1, <2>1, <2>2 DEF FieldTypes
<1>7. CASE UNCHANGED <<input, destination, ready, health, tested, edited>>
  BY <1>1, <1>7 DEF FieldTypes
<1>8. UNCHANGED uploadVars \/ UploadNext
  BY <1>1 DEF Next, vars
<1>9. CASE UNCHANGED uploadVars
  BY <1>7, <1>9 DEF uploadVars, pageVars, connectionVars, controllerVars
<1>10. ASSUME NEW p \in Pages, ChooseSource(p) \/ RefuseStart(p) \/ StartTransfer(p)
       PROVE  UNCHANGED <<input, destination, ready, health, tested, edited>>
  BY <1>10 DEF ChooseSource, RefuseStart, StartTransfer, connectionVars, controllerVars
<1>11. CASE AbortTransfer \/ ReportProgress \/ Complete \/ Abort \/ Fail \/ ReportFinished
  BY <1>7, <1>11 DEF AbortTransfer, ReportProgress, Complete, Abort, Fail, ReportFinished,
                     pageVars, connectionVars, controllerVars
<1>12. QED
  BY <1>2, <1>3, <1>4, <1>5, <1>6, <1>7, <1>8, <1>9, <1>10, <1>11 DEF UploadNext

\* A transfer is on the screen from start_transfer() until its outcome is applied.
LEMMA TrayTypesStep == WindowInv /\ TrayTypes /\ [Next]_vars => TrayTypes'
<1>1. SUFFICES ASSUME WindowInv, TrayTypes, [Next]_vars PROVE TrayTypes'
  OBVIOUS
<1>2. CASE UNCHANGED <<trayVars, testActive, worker>>
  BY <1>1, <1>2 DEF TrayTypes, trayVars
<1>3. CASE ConnectionChanged
  BY <1>2, <1>3 DEF ConnectionChanged
<1>4. CASE TestConnection
  BY <1>1, <1>4 DEF TestConnection, TrayTypes, trayVars, Workers
<1>5. CASE TestEnds
  BY <1>1, <1>5 DEF TestEnds, TrayTypes, trayVars, connectionVars, Workers
<1>6. ASSUME NEW p \in Pages, StartTransfer(p)
      PROVE  TrayTypes'
  <2>1. source[p] \in Files
    BY <1>1, <1>6 DEF StartTransfer, WindowInv, Types
  <2>2. QED
    BY <1>1, <1>6, <2>1 DEF StartTransfer, ShowConnecting, TrayTypes, connectionVars,
                            Statuses, Workers, Sending
<1>7. ASSUME NEW p \in Pages, ChooseSource(p) \/ RefuseStart(p)
      PROVE  TrayTypes'
  BY <1>2, <1>7 DEF ChooseSource, RefuseStart, connectionVars, controllerVars
<1>8. CASE AbortTransfer
  BY <1>1, <1>8 DEF AbortTransfer, TrayTypes, connectionVars, controllerVars, Statuses
<1>9. CASE ReportProgress \/ Complete \/ Abort \/ Fail \/ DropConnection \/ ReportFinished
  <2>1. UNCHANGED <<trayVars, testActive>>
    BY <1>9 DEF ReportProgress, Complete, Abort, Fail, DropConnection, ReportFinished,
                connectionVars
  <2>2. worker' \in Workers
    BY <1>1, <1>9 DEF ReportProgress, Complete, Abort, Fail, DropConnection,
                      ReportFinished, controllerVars, TrayTypes, Workers, Sending
  <2>3. QED
    BY <1>1, <2>1, <2>2 DEF TrayTypes, trayVars
<1>10. CASE ApplyEvent
  <2>1. worker' = worker /\ events # <<>>
    BY <1>10 DEF ApplyEvent, controllerVars
  <2>2. CASE ApplyTested(Head(events)) \/ ApplyDegraded(Head(events))
    <3>1. UNCHANGED trayVars /\ (UNCHANGED testActive \/ testActive' = FALSE)
      BY <2>2, Zenon DEF ApplyTested, ApplyDegraded, connectionVars
    <3>2. QED
      BY <1>1, <2>1, <3>1 DEF TrayTypes, trayVars
  <2>3. CASE ApplyProgress(Head(events))
    BY <1>1, <2>1, <2>3 DEF ApplyProgress, TrayTypes, connectionVars, Statuses
  <2>4. CASE ApplyFinished(Head(events))
    <3>1. Head(events).kind = "finished" /\ Head(events) \in QueuedEvents
      BY <1>1, <2>1, <2>4 DEF ApplyFinished, WindowInv, Types
    <3>2. Head(events).outcome \in Outcomes
      BY <3>1 DEF QueuedEvents
    <3>3. QED
      BY <1>1, <2>1, <2>4, <3>2 DEF ApplyFinished, TrayTypes, trayVars, connectionVars,
                                    Statuses
  <2>5. QED
    BY <1>10, <2>2, <2>3, <2>4 DEF ApplyEvent
<1>11. CASE UNCHANGED uploadVars
  BY <1>2, <1>11 DEF uploadVars, connectionVars, controllerVars
<1>12. QED
  BY <1>1, <1>3, <1>4, <1>5, <1>6, <1>7, <1>8, <1>9, <1>10, <1>11 DEF UploadNext, Next, vars

\* The window's variables have their types: a transfer on the screen has a page and a
\* file, and the status says "Connected" where the start buttons may be pressed.
THEOREM WindowTypeCorrect == Spec => []TypeOK
<1>1. FieldTypes /\ TrayTypes /\ WindowInv /\ MockInv => TypeOK
  BY Zenon DEF FieldTypes, TrayTypes, WindowInv, Types, MockInv, TypeOK, Paths, Statuses,
               Workers, Outcomes, Sending
<1>2. Spec => []MockInv
  BY TestPageRunsAlone, MockInvariant
<1>3. QED
  BY <1>1, <1>2, TypesInit, FieldTypesStep, TrayTypesStep, WindowInvariant, PTL DEF Spec

-----------------------------------------------------------------------------
(* Where a file arrives.                                                    *)

Place(typed, file) ==
    RemoteShellPath(JoinRemote(
        NormalizeRemoteDirectory(TrimPath(NormalizeRemoteDirectory(typed))), file))

\* What has been tested, or will have been when the test ends, is what is typed; the
\* transfer has it from there, and the file is where the transfer says.
DestinationsAgree ==
    tested \/ (worker = "testing" /\ ~edited) =>
        \A p \in Pages : Normalized(p) # Invalid /\ destination[p] = Normalized(p)
JobAgrees ==
    worker = "uploading" =>
        /\ job.typed \in Paths /\ job.file \in Files
        /\ NormalizeRemoteDirectory(job.typed) # Invalid
        /\ job.directory = NormalizeRemoteDirectory(job.typed)
ArrivalAgrees ==
    \A a \in arrival :
        /\ a.typed \in Paths /\ a.file \in Files
        /\ NormalizeRemoteDirectory(a.typed) # Invalid
        /\ a.place = Place(a.typed, a.file)

\* connection_changed() forgets the tested connection, and test_connection() takes
\* the destinations of both pages at once.
LEMMA DestinationsStep == DestinationsAgree /\ [Next]_vars => DestinationsAgree'
<1>1. SUFFICES ASSUME DestinationsAgree, [Next]_vars PROVE DestinationsAgree'
  OBVIOUS
<1>2. CASE UNCHANGED <<input, destination, tested, edited, worker>>
  BY <1>1, <1>2 DEF DestinationsAgree, Normalized
<1>3. CASE ConnectionChanged
  BY <1>3 DEF ConnectionChanged, DestinationsAgree
<1>4. CASE TestConnection
  <2>1. CASE \E p \in Pages : Normalized(p) = Invalid
    BY <1>2, <1>4, <2>1, Zenon DEF TestConnection
  <2>2. CASE \A p \in Pages : Normalized(p) # Invalid
    <3>1. destination' = [p \in Pages |-> Normalized(p)] /\ input' = input
      BY <1>4, <2>2 DEF TestConnection
    <3>2. QED
      BY <2>2, <3>1 DEF DestinationsAgree, Normalized
  <2>3. QED
    BY <2>1, <2>2
<1>5. CASE TestEnds
  BY <1>1, <1>5 DEF TestEnds, DestinationsAgree, Normalized, pageVars, connectionVars
<1>6. CASE DropConnection
  BY <1>6 DEF DropConnection, DestinationsAgree
<1>7. ASSUME UNCHANGED <<input, destination, tested, edited>>,
             worker' = "testing" => worker = "testing"
      PROVE  DestinationsAgree'
  BY <1>1, <1>7 DEF DestinationsAgree, Normalized
<1>8. ASSUME NEW p \in Pages, ChooseSource(p) \/ RefuseStart(p) \/ StartTransfer(p)
      PROVE  DestinationsAgree'
  BY <1>7, <1>8 DEF ChooseSource, RefuseStart, StartTransfer, connectionVars,
                    controllerVars
<1>9. CASE AbortTransfer \/ ReportProgress \/ Complete \/ Abort \/ Fail \/ ReportFinished
  BY <1>7, <1>9 DEF AbortTransfer, ReportProgress, Complete, Abort, Fail, ReportFinished,
                    pageVars, connectionVars, controllerVars
<1>10. CASE ApplyEvent
  BY <1>2, <1>10 DEF ApplyEvent, ApplyTested, ApplyDegraded, ApplyProgress, ApplyFinished,
                     pageVars, connectionVars, controllerVars
<1>11. CASE UNCHANGED uploadVars
  BY <1>2, <1>11 DEF uploadVars, pageVars, connectionVars, controllerVars
<1>12. QED
  BY <1>1, <1>3, <1>4, <1>5, <1>6, <1>8, <1>9, <1>10, <1>11 DEF UploadNext, Next, vars

\* start_transfer() hands over the destination that was tested.
LEMMA JobStep ==
    WindowInv /\ FieldTypes /\ DestinationsAgree /\ JobAgrees /\ [Next]_vars => JobAgrees'
<1>1. SUFFICES ASSUME WindowInv, FieldTypes, DestinationsAgree, JobAgrees, [Next]_vars
               PROVE  JobAgrees'
  OBVIOUS
<1>2. ASSUME NEW p \in Pages, StartTransfer(p)
      PROVE  JobAgrees'
  <2>1. source[p] \in Files
    BY <1>1, <1>2 DEF StartTransfer, WindowInv, Types
  <2>2. Normalized(p) # Invalid /\ destination[p] = Normalized(p) /\ input[p] \in Paths
    BY <1>1, <1>2 DEF StartTransfer, DestinationsAgree, FieldTypes
  <2>3. job' = [page |-> p, file |-> source[p], directory |-> destination[p],
                typed |-> input[p]]
    BY <1>2 DEF StartTransfer
  <2>4. QED
    BY <2>1, <2>2, <2>3 DEF JobAgrees, Normalized
<1>3. ASSUME worker' # "uploading" \/ UNCHANGED <<worker, job>>
      PROVE  JobAgrees'
  BY <1>1, <1>3 DEF JobAgrees
<1>4. ASSUME NEW p \in Pages, ChooseSource(p) \/ RefuseStart(p)
      PROVE  JobAgrees'
  BY <1>3, <1>4 DEF ChooseSource, RefuseStart, controllerVars
<1>5. CASE ConnectionChanged \/ TestConnection \/ TestEnds \/ AbortTransfer
  BY <1>3, <1>5 DEF ConnectionChanged, TestConnection, TestEnds, AbortTransfer,
                    controllerVars
<1>6. CASE ReportProgress \/ Complete \/ Abort \/ Fail \/ DropConnection \/ ReportFinished
  BY <1>3, <1>6 DEF ReportProgress, Complete, Abort, Fail, DropConnection, ReportFinished,
                    controllerVars
<1>7. CASE ApplyEvent \/ UNCHANGED uploadVars
  BY <1>3, <1>7 DEF ApplyEvent, uploadVars, controllerVars
<1>8. QED
  BY <1>1, <1>2, <1>4, <1>5, <1>6, <1>7 DEF UploadNext, Next, vars

\* transfer() commits the file in the directory of its job.
LEMMA ArrivalStep == JobAgrees /\ ArrivalAgrees /\ [Next]_vars => ArrivalAgrees'
<1>1. SUFFICES ASSUME JobAgrees, ArrivalAgrees, [Next]_vars PROVE ArrivalAgrees'
  OBVIOUS
<1>2. CASE Complete
  <2>1. /\ job.typed \in Paths /\ job.file \in Files
        /\ NormalizeRemoteDirectory(job.typed) # Invalid
        /\ job.directory = NormalizeRemoteDirectory(job.typed)
    BY <1>1, <1>2 DEF Complete, JobAgrees
  <2>2. RemoteShellPath(JoinRemote(Directory, job.file)) = Place(job.typed, job.file)
    BY <2>1, Zenon DEF Directory, Place
  <2>3. arrival' = {[place |-> Place(job.typed, job.file), typed |-> job.typed,
                     file |-> job.file]}
    BY <1>2, <2>2 DEF Complete
  <2>4. QED
    BY <2>1, <2>3 DEF ArrivalAgrees
<1>3. ASSUME arrival' = {} \/ UNCHANGED arrival
      PROVE  ArrivalAgrees'
  BY <1>1, <1>3 DEF ArrivalAgrees
<1>4. ASSUME NEW p \in Pages, ChooseSource(p) \/ RefuseStart(p) \/ StartTransfer(p)
      PROVE  ArrivalAgrees'
  BY <1>3, <1>4 DEF ChooseSource, RefuseStart, StartTransfer, ghosts
<1>5. CASE ConnectionChanged \/ TestConnection \/ TestEnds \/ AbortTransfer
  BY <1>3, <1>5 DEF ConnectionChanged, TestConnection, TestEnds, AbortTransfer, ghosts
<1>6. CASE ReportProgress \/ Abort \/ Fail \/ DropConnection \/ ReportFinished
  BY <1>3, <1>6 DEF ReportProgress, Abort, Fail, DropConnection, ReportFinished, ghosts
<1>7. CASE ApplyEvent \/ UNCHANGED uploadVars
  BY <1>3, <1>7 DEF ApplyEvent, uploadVars, ghosts
<1>8. QED
  BY <1>1, <1>2, <1>4, <1>5, <1>6, <1>7 DEF UploadNext, Next, vars

\* normalize_remote_directory(), twice, join_remote() and remote_shell_path(): the
\* file is in the directory that was typed, as the receiver understands it, unless
\* trim() changes what the first normalisation has made of it.
THEOREM FilesArriveWhereTyped == Spec => []ArrivesWhereTyped
<1>1. ASSUME ArrivalAgrees, NEW a \in arrival,
             TrimPath(NormalizeRemoteDirectory(a.typed)) = NormalizeRemoteDirectory(a.typed)
      PROVE  Significant(a.place) = Append(Meaning(a.typed), a.file)
  <2> DEFINE d == NormalizeRemoteDirectory(a.typed)
  <2>1. a.typed \in Paths /\ a.file \in Files /\ d # Invalid
        /\ a.place = Place(a.typed, a.file)
    BY <1>1, Zenon DEF ArrivalAgrees
  <2>2. NormalizeRemoteDirectory(TrimPath(d)) = d
    BY <1>1, <2>1, NormalizedIsNormal, Zenon DEF Paths
  <2>3. a.place = RemoteShellPath(JoinRemote(d, a.file))
    BY <2>1, <2>2, Zenon DEF Place
  <2>4. d \in Paths /\ d # <<>>
    BY <2>1, NormalizedArePaths, Zenon DEF Invalid
  <2>5. Significant(a.place) = Append(Meaning(d), a.file)
    <3>1. a.file \in STRING \ {"", "."}
      BY <2>1, FilesAreNames, Zenon
    <3>2. QED
      BY <2>3, <2>4, <3>1, FileIsInDirectory, Zenon DEF Paths
  <2>6. Meaning(d) = Meaning(a.typed)
    BY <2>1, NormalizedMeansTheSame, Zenon DEF Paths
  <2>7. QED
    BY <2>5, <2>6, Zenon
<1>2. ArrivalAgrees => ArrivesWhereTyped
  BY <1>1, Zenon DEF ArrivesWhereTyped
<1>3. Init => DestinationsAgree /\ JobAgrees /\ ArrivalAgrees
  BY DEF Init, UploadInit, DestinationsAgree, JobAgrees, ArrivalAgrees
<1>4. QED
  BY <1>2, <1>3, DestinationsStep, JobStep, ArrivalStep, TypesInit, FieldTypesStep,
     WindowInvariant, PTL DEF Spec
=============================================================================
