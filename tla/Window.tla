-------------------------------- MODULE Window --------------------------------
(***************************************************************************)
(* The pages of the window (ui.cpp, ui_events.cpp) and what stands behind  *)
(* them: the update pages with their destinations, sources, errors and     *)
(* histories, the connection page with its status, the Test page, and the  *)
(* application's worker with the transport's verdicts.                     *)
(*                                                                         *)
(* Session models the threads of this in detail.  Here the worker is one   *)
(* operation after the other, each with the events it posts; its steps and *)
(* those of the user come in any order.  A progress event is coalesced     *)
(* with one that is waiting.                                               *)
(*                                                                         *)
(* Bounds: MaxHistory, the number of files that a page uploads, and        *)
(* MaxRuns of MockTests.                                                   *)
(***************************************************************************)
EXTENDS MockTests, RemotePath, Diagnosis

CONSTANTS
    Pages,           \* Library Update and SW Update
    Files,           \* what the user can choose
    Typed,           \* what can be typed as a destination
    Defaults,        \* the destinations of updates.toml, by page
    TestCauses,      \* how a connection test fails
    TransferCauses,  \* how a transfer fails
    MaxHistory,
    None             \* no page, no file

ASSUME HistoryIsBounded == MaxHistory \in Nat
ASSUME TypedArePaths ==
    /\ Typed \subseteq Seq(STRING) \ {Invalid}
    /\ Defaults \in [Pages -> Seq(STRING)]
    /\ \A p \in Pages : NormalizeRemotePath(Defaults[p]) # Invalid
ASSUME FilesAreNames == Files \subseteq STRING \ {"", "."}
ASSUME NoneIsNothing == None \notin Pages \cup Files

VARIABLES
    input,           \* the destination fields of the connection page
    destination,     \* UpdatePage::destination
    source, error, history,   \* the rest of an UpdatePage
    activePage, activeFile, transferActive,
    testActive, ready, health,
    status,          \* the line in the tray
    tested,          \* tested_connection_ has a value
    edited,          \* generation_ has moved on since the test was started
    worker,          \* what the worker does
    job,             \* what it has been given
    verdict,         \* how its operation ended
    events,          \* AsyncState::events but for MockEvents
    uploaded,        \* history: the files that have been committed, by page
    arrival,         \* history: where the last of them is, until it is reported
    failed           \* history: the cause of the last transfer's failure, if it was seen

pageVars == <<destination, source, error, history>>
trayVars == <<activePage, activeFile, transferActive, status>>
connectionVars == <<input, testActive, ready, health>>
controllerVars == <<tested, edited, worker, job, verdict>>
ghosts == <<uploaded, arrival, failed>>
uploadVars == <<pageVars, trayVars, connectionVars, controllerVars, events, ghosts>>
vars == <<mockVars, uploadVars>>

Verdict(state, failure) == [state |-> state, failure |-> failure]
NoVerdict == Verdict("none", Success)
NoJob == [page |-> None, file |-> None, directory |-> <<>>, typed |-> <<>>]

\* The defaults come from the configuration; the window has not tested them.
UploadInit ==
    /\ input = [p \in Pages |-> NormalizeRemotePath(Defaults[p])]
    /\ destination = input
    /\ source = [p \in Pages |-> None]
    /\ error = [p \in Pages |-> ""]
    /\ history = [p \in Pages |-> <<>>]
    /\ activePage = None /\ activeFile = None /\ transferActive = FALSE
    /\ testActive = FALSE /\ ready = FALSE /\ health = "disconnected"
    /\ status = "none"
    /\ tested = FALSE /\ edited = FALSE
    /\ worker = "none" /\ job = NoJob /\ verdict = NoVerdict
    /\ events = <<>>
    /\ uploaded = history /\ arrival = {} /\ failed = "none"

Init == MockInit /\ UploadInit

-----------------------------------------------------------------------------
(* The connection page.                                                     *)

\* connection_changed(): a destination, or another field, was typed in.
ConnectionChanged ==
    /\ \/ \E p \in Pages, path \in Typed : input' = [input EXCEPT ![p] = path]
       \/ UNCHANGED input
    /\ ready' = FALSE /\ health' = "disconnected"
    /\ tested' = FALSE /\ edited' = TRUE
    /\ UNCHANGED <<pageVars, trayVars, testActive, worker, job, verdict, events, ghosts>>

Normalized(p) == NormalizeRemoteDirectory(input[p])

\* test_connection(), with the fields other than the destinations filled in.
TestConnection ==
    /\ ~transferActive /\ ~testActive
    /\ IF \E p \in Pages : Normalized(p) = Invalid
         THEN UNCHANGED <<destination, testActive, worker, edited, failed>>
         ELSE /\ destination' = [p \in Pages |-> Normalized(p)]
              /\ testActive' = TRUE
              /\ worker' = "testing"
              /\ edited' = FALSE
              /\ failed' = "none"
    /\ UNCHANGED <<source, error, history, trayVars, input, ready, health, tested, job,
                   verdict, events, uploaded, arrival>>

\* The worker's end of a test: its result counts if nothing was edited.
Tested(successful) == [kind |-> "tested", ok |-> successful]

TestEnds ==
    /\ worker = "testing"
    /\ \E failure \in {Success} \cup UNION {TestFailures(cause) : cause \in TestCauses} :
          /\ tested' = IF edited THEN tested ELSE failure = Success
          /\ events' = Append(events, Tested(~edited /\ failure = Success))
    /\ worker' = "none"
    /\ UNCHANGED <<pageVars, trayVars, connectionVars, edited, job, verdict, ghosts>>

-----------------------------------------------------------------------------
(* The update pages.                                                        *)

\* choose_source(): a file, or a dialog that could not be shown.
ChooseSource(p) ==
    /\ \/ /\ \E file \in Files : source' = [source EXCEPT ![p] = file]
          /\ error' = [error EXCEPT ![p] = ""]
       \/ /\ error' = [error EXCEPT ![p] = "refused"]
          /\ UNCHANGED source
    /\ UNCHANGED <<destination, history, trayVars, connectionVars, controllerVars, events,
                   ghosts>>

\* refresh_action_buttons()
StartButton == ready /\ ~testActive /\ ~transferActive

\* start_transfer() stops with an error on the page: of its own, there
\* is no source, or it is gone; or because the application has no tested connection
\* or cannot open the source.  Which text it shows is not followed.
RefuseStart(p) ==
    /\ StartButton
    /\ error' = [error EXCEPT ![p] = "refused"]
    /\ UNCHANGED <<destination, source, history, trayVars, connectionVars,
                   controllerVars, events, ghosts>>

ShowConnecting(file) == activeFile' = file /\ status' = "connecting"

\* Mutant: the page is not remembered.
StartAnonymously(p) ==
    /\ StartButton /\ tested /\ source[p] # None /\ Len(uploaded[p]) < MaxHistory
    /\ transferActive' = TRUE
    /\ ShowConnecting(source[p])
    /\ job' = [page |-> p, file |-> source[p], directory |-> destination[p],
               typed |-> input[p]]
    /\ worker' = "uploading"
    /\ source' = [source EXCEPT ![p] = None]
    /\ error' = [error EXCEPT ![p] = ""]
    /\ UNCHANGED <<activePage, destination, history, connectionVars, tested, edited,
                   verdict, events, ghosts>>

\* start_transfer(), with the source pinned and the worker launched.
StartTransfer(p) ==
    /\ StartButton /\ tested /\ source[p] # None /\ Len(uploaded[p]) < MaxHistory
    /\ transferActive' = TRUE /\ activePage' = p
    /\ ShowConnecting(source[p])
    /\ job' = [page |-> p, file |-> source[p], directory |-> destination[p],
               typed |-> input[p]]
    /\ worker' = "uploading"
    /\ source' = [source EXCEPT ![p] = None]
    /\ error' = [error EXCEPT ![p] = ""]
    /\ UNCHANGED <<destination, history, connectionVars, tested, edited, verdict, events,
                   ghosts>>

\* abort_transfer(); a progress event may overwrite what it says.
AbortTransfer ==
    /\ transferActive
    /\ status' = "cancelling"
    /\ UNCHANGED <<activePage, activeFile, transferActive, pageVars, connectionVars,
                   controllerVars, events, ghosts>>

-----------------------------------------------------------------------------
(* The worker's end of a transfer.                                          *)

\* transfer() normalises the directory again.
Directory == NormalizeRemoteDirectory(TrimPath(job.directory))

ReportProgress ==
    /\ worker = "uploading" /\ Directory # Invalid
    /\ \A i \in DOMAIN events : i = Len(events) => events[i].kind # "progress"
    /\ events' = Append(events, [kind |-> "progress"])
    /\ UNCHANGED <<pageVars, trayVars, connectionVars, controllerVars, ghosts>>

Complete ==
    /\ worker = "uploading" /\ Directory # Invalid
    /\ verdict' = Verdict("completed", Success)
    /\ worker' = "reporting"
    /\ uploaded' = [uploaded EXCEPT ![job.page] = Append(@, job.file)]
    /\ arrival' = {[place |-> RemoteShellPath(JoinRemote(Directory, job.file)),
                   typed |-> job.typed, file |-> job.file]}
    /\ UNCHANGED <<pageVars, trayVars, connectionVars, tested, edited, job, events, failed>>

Abort ==
    /\ worker = "uploading"
    /\ verdict' = Verdict("aborted", Success)
    /\ worker' = "reporting"
    /\ UNCHANGED <<pageVars, trayVars, connectionVars, tested, edited, job, events, ghosts>>

\* A directory that is refused is the only cause, unless the details are.
Causes ==
    IF Directory = Invalid
      THEN {"invalid_remote_directory"} \cup (TransferCauses \cap ConfigTokens)
      ELSE TransferCauses

Fail ==
    /\ worker = "uploading"
    /\ \E cause \in Causes, kept \in BOOLEAN :
       \E failure \in TransferFailures(cause, kept) :
          /\ verdict' = Verdict("failed", failure)
          /\ worker' = IF DegradesConnection(failure.kind) THEN "degrading" ELSE "reporting"
          /\ failed' = IF kept THEN cause ELSE "unseen"
    /\ UNCHANGED <<pageVars, trayVars, connectionVars, tested, edited, job, events,
                   uploaded, arrival>>

DropConnection ==
    /\ worker = "degrading"
    /\ tested' = FALSE
    /\ events' = Append(events, [kind |-> "degraded"])
    /\ worker' = "reporting"
    /\ UNCHANGED <<pageVars, trayVars, connectionVars, edited, job, verdict, ghosts>>

ReportFinished ==
    /\ worker = "reporting"
    /\ events' = Append(events, [kind |-> "finished", outcome |-> verdict.state,
                                 message |-> UiDetail(verdict.failure)])
    /\ worker' = "none" /\ job' = NoJob /\ verdict' = NoVerdict
    /\ arrival' = {}
    /\ UNCHANGED <<pageVars, trayVars, connectionVars, tested, edited, uploaded, failed>>

-----------------------------------------------------------------------------
(* drain_events(), one event at a time: apply().                            *)

\* set_connection_health(), and what it goes with.
Set(isReady, newHealth) == ready' = isReady /\ health' = newHealth

ApplyTested(event) ==
    /\ event.kind = "tested"
    /\ IF ~testActive THEN UNCHANGED connectionVars
       ELSE /\ testActive' = FALSE
            /\ IF event.ok THEN Set(TRUE, "connected") ELSE Set(FALSE, "disconnected")
            /\ UNCHANGED input
    /\ UNCHANGED <<pageVars, trayVars>>

ApplyDegraded(event) ==
    /\ event.kind = "degraded"
    /\ Set(FALSE, "degraded")
    /\ UNCHANGED <<pageVars, trayVars, input, testActive>>

ApplyProgress(event) ==
    /\ event.kind = "progress"
    /\ status' = IF transferActive THEN "progress" ELSE status
    /\ UNCHANGED <<pageVars, activePage, activeFile, transferActive, connectionVars>>

\* Mutant: what has not failed is entered.
RecordUnlessFailed(event) ==
    /\ history' = IF event.outcome # "failed"
                    THEN [history EXCEPT ![activePage] = Append(@, activeFile)] ELSE history
    /\ error' = IF event.outcome = "failed"
                  THEN [error EXCEPT ![activePage] =
                           LocalizedBackendMessage(event.message)] ELSE error

\* The outcome, on the page that the transfer was started from.
RecordOutcome(event) ==
    /\ history' = IF event.outcome = "completed"
                    THEN [history EXCEPT ![activePage] = Append(@, activeFile)] ELSE history
    /\ error' = IF event.outcome = "failed"
                  THEN [error EXCEPT ![activePage] =
                           LocalizedBackendMessage(event.message)] ELSE error

ApplyFinished(event) ==
    /\ event.kind = "finished"
    /\ IF ~transferActive THEN UNCHANGED <<pageVars, trayVars>>
       ELSE /\ RecordOutcome(event)
            /\ transferActive' = FALSE /\ activePage' = None /\ activeFile' = None
            /\ status' = event.outcome
            /\ UNCHANGED <<destination, source>>
    /\ UNCHANGED connectionVars

ApplyEvent ==
    /\ events # <<>>
    /\ LET event == Head(events)
       IN  \/ ApplyTested(event) \/ ApplyDegraded(event)
           \/ ApplyProgress(event) \/ ApplyFinished(event)
    /\ events' = Tail(events)
    /\ UNCHANGED <<controllerVars, ghosts>>

-----------------------------------------------------------------------------

UploadNext ==
    \/ ConnectionChanged \/ TestConnection \/ TestEnds
    \/ \E p \in Pages : ChooseSource(p) \/ RefuseStart(p) \/ StartTransfer(p)
    \/ AbortTransfer
    \/ ReportProgress \/ Complete \/ Abort \/ Fail \/ DropConnection \/ ReportFinished
    \/ ApplyEvent

Next ==
    \/ MockNext /\ UNCHANGED uploadVars
    \/ UploadNext /\ UNCHANGED mockVars

Spec == Init /\ [][Next]_vars

-----------------------------------------------------------------------------
(* Properties.                                                              *)

\* The variables have their types; a transfer on the screen has a page and a file,
\* and the status says "Connected" where the start buttons may be pressed.
TypeOK ==
    /\ MockTypeOK
    /\ input \in [Pages -> Seq(STRING)] /\ destination \in [Pages -> Seq(STRING)]
    /\ source \in [Pages -> Files \cup {None}]
    /\ history \in [Pages -> Seq(Files)] /\ uploaded \in [Pages -> Seq(Files)]
    /\ transferActive \in BOOLEAN /\ testActive \in BOOLEAN
    /\ IF transferActive THEN activePage \in Pages /\ activeFile \in Files
                         ELSE activePage = None /\ activeFile = None
    /\ ready \in BOOLEAN /\ (ready <=> health = "connected")
    /\ status \in {"none", "connecting", "progress", "cancelling", "completed", "aborted",
                   "failed"}
    /\ tested \in BOOLEAN /\ edited \in BOOLEAN
    /\ worker \in {"none", "testing", "uploading", "degrading", "reporting"}

\* README: "Review successfully transferred files in the selected update page's
\* session history."  A page's history is the list of the files that were committed
\* from it, once no transfer is on the screen; until then the last may be missing.
HistoryIsTrue ==
    \A p \in Pages :
        \/ history[p] = uploaded[p]
        \/ /\ transferActive /\ activePage = p
           /\ uploaded[p] = Append(history[p], activeFile)

\* Whatever is edited while it runs: when the outcome of a transfer that lost the
\* connection is on the screen, the start buttons are off until a test succeeds.
FailureDropsConnection == failed \in ConnectionCauses /\ ~transferActive => ~ready

\* A file arrives in the directory that was typed when the connection was tested,
\* as the receiver understands it, though the path is normalised twice and quoted;
\* unless its last component ends in a blank, which the transport removes.
ArrivesWhereTyped ==
    \A a \in arrival :
        LET normalized == NormalizeRemoteDirectory(a.typed)
        IN  TrimPath(normalized) = normalized =>
                Significant(a.place) = Append(Meaning(a.typed), a.file)
=============================================================================
