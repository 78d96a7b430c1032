# Work Transfer: a verification project

Work Transfer is a desktop application (C++, FLTK) that sends one file at a time
to a receiving Ubuntu computer with OpenSSH's `scp` and `ssh`. This directory
holds TLA+ models of the parts of it that are hard to test: threads, a child
process, a remote computer, cancellation, files that outlive a crash, timers, and
what the user is told. They are checked with TLC on small instances, and all
invariants and refinements that hold are proved with TLAPS for every instance.

## 1. Inventory

| Component | Code | State | Operations | Interacts with |
|---|---|---|---|---|
| SCP transport | `transfer.cpp` | `operation_active_`, `transfer_active_`, `cancellation_requested_`, `active_process_`, the pinned source, the staging file on the receiver | `test_connection`, `prepare_source`, `transfer` (`finalize`, `cleanup`), `cancel` | runs its commands through the child process; called by the controller's worker; cancelled from the UI thread |
| Managed child process | `transfer_process.cpp` | the loop's variables, the published pid, the kernel's process table | `run_process`, `terminate_group` | `cancel()` reads the pid it publishes |
| Application controller | `main.cpp` | `generation_`, `tested_connection_`, `shutting_down_`, `window_`, one worker `jthread` | `test_connection`, `invalidate_connection`, `start_transfer`, `request_cancel`, `shutdown` | called by the window, calls the transport on the worker, posts to the window |
| Window | `ui.cpp`, `ui_events.cpp` | `connection_ready`, `connection_test_active`, `transfer_active`, the fields, the buttons | the widgets' callbacks, `apply` of each event | calls the controller, gets events |
| Event queue | `ui_internal.hpp`, `ui_events.cpp` | `events`, `wake_pending`, `owner` | `post_event`, `drain_events` | between the worker and FLTK's loop |
| Progress parser | `transfer.cpp`, `transfer_process.cpp` | the record, the last progress, three clocks | `feed`, `tick`, `finish` | a callback of `run_process` |
| Remote paths | `transfer_process.cpp`, `config.cpp` | none | normalisation, quoting | window, transport, configuration |
| Settings store | `config.cpp` | one JSON file, a temporary file | `load_language`, `save_language` | file system |
| Mock tests | `ui.cpp`, `config.cpp` | `test_generation`, `remaining_tests` | `run_mock_tests`, `apply_mock_result` | timers, event queue |
| Localization | `localization.cpp` | catalogs, the list of warnings | `translate`, `template_for`, `add_warning` | every text of the window |
| Embedded configuration, theme, logo | `config.cpp`, `theme.cpp`, `logo.cpp` | none after start | parsing, decoding | start-up |
| Command line, self check | `main.cpp` | none | `parse_command_line`, `run_self_check` | start-up |
| Build, packaging, demo, audit | `CMakeLists.txt`, `scripts/`, `packaging/` | none | shell scripts | - |

What makes each core component correct:

* **Transport.** The destination path never names anything but a whole file with
  the contents the source had at Start; it is never overwritten; a verdict never
  contradicts it. A cancel before the commit is final. No flag leaks into the next
  operation. The staging file is removed on every way out. A cancel always ends
  the operation.
* **Child process.** The pid that `cancel()` can read is never one the kernel may
  have given away. Success is never reported of a child that did not succeed.
  Cancel and timeout end the call, even if SIGTERM is lost. The password is given
  to a child that asks for it, once, in whatever pieces its prompt comes; the
  diagnostic is the beginning of what the child wrote.
* **Controller, window, queue.** A transfer uses the details of one successful
  test. The window never offers what the controller would refuse. No event is
  left in the queue. The window outlives the worker. Tests, aborts and closing
  come to an end. A page's history lists what was committed from it, and a lost
  connection takes the start buttons away.
* **Progress parser.** What is parsed is everything that was written since the last
  separator, never the tail of a record that was too long; what stands after the last
  separator when the output ends is parsed as well. The throttle never holds back
  completion, nor the record that ends a stall. What is shown catches up.
* **Remote paths.** What is typed, normalised twice and quoted, still means to the
  receiver what it meant to the user.
* **Settings store.** The file is what some save was asked for, whichever call
  fails and whenever the power is lost; the notice does not contradict it. A save
  that returns leaves its temporary file only if `remove()` fails too.
* **Localization.** Every text is shown filled in, whatever a catalog lacks.
* **Mock tests.** Results of one run never count for another; the button comes back.

The hard behaviours, each at its line, are the `hazards` of `PROJECT.json`.

## 2. Modules

| Module | What it is |
|---|---|
| `ManagedProcess` | what `run_process` promises: one child, one result. The abstract specification of `ProcessRunner`, and the actions through which `Transport` runs its commands |
| `ProcessRunner` | `run_process` statement by statement, with `cancel()`, the child, and the kernel's process table |
| `ChildOutput` | what `run_process` makes of the output it reads: the bounded diagnostic, the tail that is searched for the prompt, the password |
| `AtomicDelivery` | what the transport promises about the destination path: given once, and no verdict contradicts it |
| `Transport` | the worker in `test_connection`/`transfer`, `cancel()`, and the receiver |
| `Session` | the window's flags, the controller, the worker's lambdas and the event queue, as threads |
| `ProgressParser` | `ProgressStreamParser`: records, throttle and stall clocks |
| `AtomicSettings` | what the settings file promises to several running applications, over failing calls, kills and power losses |
| `SettingsStore` | `load_language`, `save_language` call by call, the file system, and the list of warnings on the Settings page |
| `Translator` | which catalogs are taken, selection, comparison of placeholders, fallback, warnings; operators, used by `SettingsStore` |
| `MockTests` | the Test page: runs, timers, results |
| `RemotePath` | both normalisations, `trim`, `join_remote`, `remote_shell_path`, and what the receiver's shell makes of a path; operators |
| `Diagnosis` | from the cause of a failure over the phrases in `ssh`'s output to its classification and the text on the page; operators |
| `Window` | the pages and the worker's verdicts, composed from `MockTests`, `RemotePath` and `Diagnosis` |
| `MCTransport`, `MCProcessRunner`, `MCSession`, `MCSettings`, `MCProgress`, `MCWindow` | instances for TLC, and claims of the documentation that the code does not keep |
| `MCTransportLive` | `Transport` with a variable that remembers whether a fault has happened, found by `INSTANCE Transport WITH Faults <- {}` |
| `TransportProofs`, `ProcessRunnerProofs`, `ChildOutputProofs`, `SessionProofs`, `ProgressProofs`, `SettingsProofs`, `RemotePathProofs`, `WindowProofs` | the proofs |

```
AtomicDelivery <--refines-- Transport --uses the actions of--> ManagedProcess <--refines-- ProcessRunner
                                ^
        (results only)  Session, Window
                                   |-- extends --> MockTests, RemotePath, Diagnosis

AtomicSettings <--refines-- SettingsStore -- extends --> Translator

ProgressParser              ChildOutput (inside one call of ProcessRunner)
```

### How the state corresponds to the code

**Transport.** `pc` is the place of the worker in `transfer()` or
`test_connection()`: `called` until the first stop check, `entered`, `cleared`
(the flag is down), `active` (both active flags are up; `transfer_active_` is
stored right after `operation_active_` and nobody but its guard touches it, so one
variable stands for the two), `fstat`, the commands `upload`, `commit`, `testing`
and `cleanup`, the two checks after the upload, and `returning`, where the guards
clear the active flags. `phase` and the other variables of
`ManagedProcess` tell how far the command has come. `cancel()` is three steps: the
look at `operation_active_`, the store of the flag, and the signal (which the
raised flag enables: `ChildKilled`).

On the receiver every transfer has its own staging name (128 random bits), and all
transfers share one destination path, which is the interesting case. `blob` is the
file a transfer has written, `staged` the staging names that exist, `final` what
the destination path names: nothing, a transfer's file, or somebody else's. `sink`,
`script` and `cleaner` are the remote `scp -t`, the commit command (`test -e`, `ln`,
`rm`, in this order, each one step, with the exit codes 17, 0 and others) and
`rm -f`. They run in their own time; with the fault `orphan` they go on after the
local `ssh` is gone, so that the staging file of an aborted transfer may appear
after its cleanup.

`source` says whether the source still has the metadata that `prepare_source`
pinned; any write changes its ctime, which `same_source_metadata` compares.
`operation_mutex_` is always free, since the controller joins the worker before it
launches another one (`OfferedWhenFree` of `Session`).

`asked` and `early` are history variables for the properties.

**ProcessRunner.** `place` is the statement the loop has reached; `activeProcess`,
`cancelFlag`, `terminating`, `cancelled`, `exitCode` and `passwordSent` are the
variables of the same names. `process` is the kernel's table: `forked` (no process
group yet), `running`, `zombie`, `gone`, and `stranger` once the number belongs to
another group. Output is reduced to a prompt or nothing. The password cannot be
written when the child is gone.

**ChildOutput.** One call of `run_process`, seen from the terminal: `diagnostic`,
`promptTail` and `passwordSent` are the variables of the same names, and `Read` is
every `read()` of the loop and of the drain after it, which returns any number of
the characters that are there, up to the size of the buffer. `terminal` is what is
there; `read`, `transcript` and `answers` are history variables. That the terminal
may not take the password is the choice between `Note` and `NoteUnsent`; what the
loop does then is in `ProcessRunner`.

**Session.** The UI thread runs one callback at a time; `ui` is the next statement
of it that the worker could notice. Statements that only touch the window's own
flags belong to the step before or after, since the worker never reads them.
`dialog` is the question of `close_requested()`, during which FLTK goes on draining
events. The details on the screen are one value of `Contents`; the two update pages
are one, since which of them starts a transfer decides only labels and a history
list. `worker` is the place of the `jthread`: the operation (`called`, `active`,
`running`), the end of each lambda, and `load`, `push`, `awake`, the three parts of
posting an event. A click with invalid fields, without a source, or on a disabled
button changes no state of the model and is left out.

Session and Window look at the same program from two sides. Session has every
interleaving of the UI thread and the worker around the flags and the queue, and
reduces a page to nothing; Window has the pages, and takes an operation of the
worker as one step after the other.

**ProgressParser.** A record is a sequence of fields (a percentage, a number with a
unit, a clock, another word), received one at a time, since output is cut anywhere.
The code compares the time with three earlier readings of the clock; the model keeps
the three differences, each up to the interval it is compared with. `shown` is the
event the window got last. `lineLength`, a history variable, counts what has been
written since the last separator, whatever the parser kept of it.

**SettingsStore.** `pc` is the system call of `save_language()` an application has
reached. `file` is what the settings path names; `onDisk` what it may name after a
power loss: any of its contents since the directory was last written back, and `Torn`
if it was renamed unsynced. `temp` is how far an application's last temporary file has
come. It stays where it is when the application is killed, and when `remove()` fails,
whose error `save_language()` ignores (`config.cpp:298-299`, the action `RemoveFails`);
the next save takes a new name, and the older file is not followed any further. Catalogs
are functions from keys to sets of placeholders. `page` is `broken` if the list of
warnings has moved under the loop that walks it. `promised`, a history variable, is
the code that the notice "restart" stands for until something intervenes.

**MockTests.** A timer is the `MockEvent` it will post; when it fires is left open,
so results come in any order. `rows` is what the page says of each test.

**Window.** `destination`, `source`, `error` and `history` are the fields of
`UpdatePage`, by page; `activePage` and `activeFile` those of the transfer on the
screen. `worker`, `job` and `verdict` are the operation the controller has launched.
`edited` says that `generation_` has moved on since the test. `events` is the queue,
but for mock results, whose order with the others nothing depends on. `uploaded`,
`arrival` and `failed` are history variables. A path is the sequence of its
components, so that empty, dot and tilde components keep their places; of `trim()`
there is what it does to the last one. Of a failing
command's output there are the phrases the code looks for, and whether they are
within the 16 KiB it keeps.

## 3. Runs

| Run | Instance | Shows | Result |
|---|---|---|---|
| `transport` | 2 operations, lost connections, orphaned commands | `TypeOK`, `FinalIsWhole`, `CancelBeforeCommitHolds`, `AbortedWasAsked`, refinement `DeliverySpec` | holds, 3.96 million states |
| `transport_live` | 1 operation, all faults, fairness | `TidyUnlessDisturbed`, `CancelTerminates`, `OnlyUploadsHang` | holds, 29 000 states |
| `transport_abort` | 1 operation, all faults | `AbortOfCommitIsReported` | violated |
| `transport_leak` | 1 operation, all faults | `AbortCleansStaging` | violated |
| `runner` | 2 calls, pids are given out again, fairness | `TypeOK`, `PublishedIsUnreaped`, `SuccessIsReal`, refinement `ManagedSpec`, `CancelReturns`, `TimeoutReturns` | holds, 195 000 states |
| `runner_output` | 1 call | `OutputSignalsTheChild` | violated |
| `session` | 2 contents, 4 edits and tests, fairness | `TypeOK`, `NoLostWakeup`, `OfferedWhenFree`, `TransferUsesOneTest`, `StartIsBacked`, `WindowOutlivesWorker`, `TestEnds`, `AbortEnds`, `CloseEnds` | holds, 380 000 states |
| `session_edit` | 2 contents, 3 edits and tests | `CurrentConnectionOnly` | violated |
| `settings` | 2 applications, 5 catalogs | `TypeOK`, `TextsAreReadable`, refinement `SettingsSpec`, action properties `SaveLeavesNoTemporary`, `RestartApplies` | holds, 681 000 states |
| `settings_partial` | 1 application, a catalog with one text | `WarningsAreListed` | violated |
| `progress` | a file of 2 bytes, 6 fields; output of 6 characters with a prompt of 2; fairness | of `ProgressParser` `TypeOK`, `NoTornRecord`, `StalledIsCurrent`, `CompletionShown`, `ShownCatchesUp`, `StallIsNoticed`; of `ChildOutput` `PasswordIsGivenOnce` | holds, 367 000 states |
| `window` | 2 pages, 2 tests | `TypeOK`, `RemainingCounts`, `HistoryIsTrue`, `FailureDropsConnection`, `ArrivesWhereTyped` | holds, 402 000 states |

### What the violations show

* `transport_abort`: an abort during the commit. `cancel()` raises the flag and
  signals the child; if the child is reaped before the loop reads the flag,
  `committed.cancelled` is false, and `transfer()` reports a failed remote
  operation (`transfer.cpp:608-616`), where the same race in the upload is reported
  as an abort (580-585).
* `transport_leak`: `cleanup()` is best effort and its result is discarded
  (`transfer.cpp:707`), so an abort is reported although the staging file is
  there. The text for this case (`errors.cleanup`) exists and is not used.
* `runner_output`: output read after `waitpid` can hold the first prompt, and the
  attempt to answer it signals the number of the reaped child.
* `session_edit`: the worker compares generations outside the lock
  (`main.cpp:217-222`), so an edit at that moment is overwritten: Start is offered
  and uses the details from before the edit. The window takes part:
  `connection_changed()` leaves `connection_test_active` set, so a success already
  in the queue also re-enables Start (then refused by the controller).
* `settings_partial`: the Settings page walks `translator.warnings()` with a
  range-for and translates each warning (`ui.cpp:462`); where the selected catalog
  lacks the text of a warning, `template_for` appends one more to the vector being
  walked (`localization.cpp:236-262`), which may move it. The embedded catalogs have
  all of these texts; one that is added without them breaks the list that is to say
  so.

### Bounds

* `MaxOps = 2`: the flag, the guards and the child process are reset between
  operations, so what an operation can leave to the next shows with two; orphaned
  commands of the first run during the second, and both compete for the
  destination path. The behaviours of one operation are complete for liveness.
* `MaxCalls = 2`: the second call finds the first child's number recycled.
* `MaxGeneration = 4` edits and tests: a test, an edit during it, a second test and
  an edit during that; transfers are not counted. Two contents tell the screen from
  what was tested. For `session_edit` a test and an edit are enough (`MaxGeneration =
  3`).
* The queue is not bounded: progress events coalesce, and a worker posts at most
  three kinds of event.
* `settings`: two applications are enough for every pair of saves, and for a save
  against a start. The catalogs are English, one that lacks a text and has another
  placeholder in a second, one whose code the settings refuse (`pt.br`), one that is
  invalid and one with unmatched braces; `SafeCodes` also has a code without a
  catalog.
* `progress`: `MaximumRecord = 4` fields, so that a record with everything the
  parser looks for fits and one more field does not; intervals of 1, 2 and 3 in the
  order of the code's 100 ms, 1 s and the stall threshold. For a file of two bytes,
  0 %, half and all, a percentage above 100, and scp's rounding above the size. For
  `ChildOutput` the prompt is `pw`, the tail one character longer, as the code's is
  longer than its prompt; the diagnostic holds four of six characters, so that it
  fills up in the middle of a piece. `P`, `p`, `w` and one other character make every
  way to cut, spoil, capitalise and repeat the prompt. The two modules have no
  variable in common: each gets every piece whole, so each is checked with the other
  at rest.
* `window`: two pages, one file, one upload from each page (`MaxHistory = 1`), one
  path that is accepted and one that is refused besides the configured ones, one
  failure that loses the connection and one that only looks like one; on the Test
  page, two tests and two runs. The two sides, Test page and the rest, are checked
  each with the other at rest, since together they are too many states; that
  nothing is lost by that is the theorem `TestPageRunsAlone`, and the steps of the
  other side leave `mockVars` alone by the definition of `Next`. The configured
  destinations are one below the home directory and one that the transport refuses
  after it has taken the blank from `.. `.
* Deadlock is not checked: each instance stops when its operations are used up, and
  the application stops when it is closed.

### Fairness

* `Transport`: the worker thread runs; the loop polls ten times a second, so it
  sees the flag, the clock and the child's end; a signalled child dies, because
  SIGKILL is repeated once the grace period is over. Nothing is assumed of the
  network, the receiver or the user: an upload may go on for ever.
* `ProcessRunner`: the loop and the clock go on, the child gets to `execv`, and
  SIGKILL works. That the child minds SIGTERM is not assumed.
* `Session`: FLTK's loop and the worker run, a test ends and a cancelled operation
  ends; these two are what `transport_live` shows.
* `ProgressParser`: the clock goes on, and `run_process` calls `tick()` about ten
  times a second. Nothing is assumed of scp: it may write no more.

## 4. Proofs

All proofs are for every value of the constants.

`TransportProofs`, from `MaxOps \in Nat \ {0}` and `Faults \subseteq AllFaults`:

* `TypeCorrect`, `FinalAlwaysWhole`, `CancelIsFinal`, `AbortsAreAskedFor`: the
  invariants of the run `transport`. None of them is inductive. The inductive
  invariant adds:
  operations that have not been called own nothing on the receiver (`FutureStep`);
  after the upload's success its file is whole unless the source was seen to have
  changed, and only then do `commit` and its remote command exist (`UploadStep`,
  `CommitStep`); a cancel that is over before the commit command is known to the
  worker, as the stop token before the second look or as the flag after it
  (`CancelStepKeeps`); and the flag is only up, and `cancelled` only true, for an
  operation somebody asked to stop (`AbortedStep`).
* `DeliveryRefinement`: every step of `Transport` is one of `AtomicDelivery` or
  leaves the destination and the verdicts alone.
* `StagingIsAlwaysRemoved`, for the behaviours in which no fault has happened yet.
  `StagingInv` says which places of the worker can have a staging file behind them,
  `RemovedInv` that it is gone after the cleanup and after a commit that removed it,
  `CleanupInv` that a running cleanup has its remote command; they are preserved by
  the steps of `Undisturbed!Next`, and use the inductive invariant above.

`ProcessRunnerProofs`, from the same kind of assumptions and `SigchldModes =
{FALSE}`: `RunnerTypeCorrect`, `PublishedPidIsTheChild`, `SuccessIsNeverInvented`, and
`RunnerRefinement`: every step of the loop, of `cancel()` and of the kernel is one of
`ManagedProcess` or none. So the actions through which `Transport` runs its commands
are those of a `run_process` that is modelled in detail.
The assumption is needed: with SIGCHLD ignored the kernel reaps by itself, `waitpid`
fails with `ECHILD`, and the code takes the untouched status 0 for success.

`ChildOutputProofs`, for any prompt in lower case, any sizes in which the tail is at
least as long as the prompt, and output of any length in any pieces:
`OutputTypeCorrect` (with it, `append_bounded` never subtracts more than it has),
`DiagnosticsAreBeginnings` and `PasswordsAreGivenOnce`, of which the run `progress`
checks the last. The inductive invariant adds `PromptInv`: as long as the password has
not been written, the tail is the end of everything that has been read, in lower case,
and has no prompt in it. The end of a text and a piece is the end of the text's end
and the piece (`LastOfJoined`), as its beginning is made of beginnings
(`FirstOfJoined`); a prompt that is the last thing read lies within the tail
(`PromptInTail`), which is where the tail's length is needed, and one that is in the
tail is in what has been read (`PromptInText`) and stays there (`PromptStays`).

`SessionProofs`, from `Contents # {} /\ None \notin Contents` and `MaxGeneration \in
Nat`: all six state properties of the run `session`. Each relates the window to a
worker it cannot see, so the inductive invariant says what is known in between:

* `Threads`: a worker that has not ended keeps `testActive` or `transferActive` up
  until the window has applied its last event, and what it is about to post is of
  its own kind; once closing has begun the UI thread only closes.
* `WakeUps`: `wake_pending` is up exactly when a handler is on its way or the worker
  is about to send one, and never are there two.
* `Queue`: the event that ends an operation is the last one of the queue or of the
  batch, so that nothing of an earlier operation is left when the next one starts.
* `TestedIs`: `tested_connection_` can be older than the destinations of the pages
  only while a test that is still current has not stored its result; this is why
  start, which the window refuses during a test, never sees the older one.
* `Belief`: an enabled Start button is right about `tested_connection_`, or a
  `degraded` event that takes it back is on its way.

From these `SessionTypeCorrect`, `NoWakeupIsLost`, `OfferedOnlyWhenFree`,
`TransfersUseOneTest`, `StartIsAlwaysBacked` and `WindowIsLast` follow.

`ProgressProofs`, from intervals ordered as the code's are: `ProgressTypeCorrect`,
`NoRecordIsTorn`, `StallsAreCurrent` and `CompletionIsShown`. The inductive invariant
adds `AgesAgree`: the last emission is not younger than the last activity, or old
enough for the throttle. A stall comes no sooner than `StallThreshold >= EmitInterval`
after the last record, so the record that ends it always passes the throttle; with the
intervals in another order the theorem would be false.

`SettingsProofs`, for any applications, catalogs and failures: `SettingsTypeCorrect`,
`SettingsAreNeverTorn`, `SavesLeaveNoTemporary`, `TextsAreAlwaysReadable`,
`SettingsRefinement` and `RestartsApply`. The inductive invariant adds
`SavesAreOrdered` (what each place of a save says of the temporary file: it is synced
before it is renamed, and gone after) and `NeverTorn`. `SavesLeaveNoTemporary`, an
action property, rests on the lemma `WaysOut`: of all steps only three bring a save
that has made its file back to the window, and of these only `RemoveFails` leaves it.
`TextsAreAlwaysReadable` follows from the types: a text that is taken for a key, from
whichever catalog, has the English placeholders. `RestartsApply` needs `PromiseInv`: a
promise that stands names a language and is what the file holds, so whoever starts
reads it or says that it could not.

`RemotePathProofs`, for any components and any home directory: `NormalizedIsNormal`
(the second normalisation, in the transport, accepts the result of the first and
leaves it alone), `NormalizedMeansTheSame` (normalising does not change where the
receiver's shell goes) and `FileIsInDirectory` (joining and quoting name the file in
the directory). They rest on what `Kept`, the loop over the components, computes.
The library's induction over numbers takes an operator and cannot be used, so
`SetInduction` does it with a set: one that holds 0 and with each number the next
holds them all.

`WindowProofs`, for any finite set of tests: `RemainingAlwaysCounts`, which is
inductive once the types are added. For any pages, files, paths and number of uploads:
`HistoriesAreTrue`, `FailuresDropTheConnection`, `TestPageRunsAlone` (Window
implements `MockSpec`), and with it `RemainingCountsInWindow`. The inductive invariant
says in which `Phase` the worker, the queue and the flags can be together: `Idle`,
`Testing`, `TestDone` (the result is in the queue), `Uploading` and `Finishing` (the
outcome is in the queue). `HistoryAgrees` has the histories equal to what was
committed except while the outcome of a commit is `Delivered` but not applied;
`LossIsKnown` follows the `degraded` event from the failure to the screen, always
ahead of the outcome.

`WindowTypeCorrect` adds the types of what these do not need: the paths, and the tray.
`FilesArriveWhereTyped` is a chain from the connection page to the receiver: what is
tested, or under a test that no edit has overtaken, is what is on the connection page,
normalised (`DestinationsAgree`); the job of the worker has the destination of its
page and remembers what was typed for it (`JobAgrees`); a delivered file is in the
directory that the transport made of a typed path, trimmed and normalised again
(`ArrivalAgrees`). If the path does not end in a blank, `RemotePathProofs` has that
this is the directory that was typed.

**Assumptions.** Each is an `ASSUME` with a name, and TLC evaluates it in the runs.
Most say that a constant has its type, or is what the code's constant is (the order
of the intervals, a tail longer than the prompt). Those about paths: `$HOME` is a path
(`HomeIsAPath`), a file name is neither empty nor a dot (`FilesAreNames`), and the
literal `""` is a string (`EmptyIsText`), which TLA+ says and the provers do not know.

**Only model-checked**: the liveness properties `CancelTerminates`, `OnlyUploadsHang`,
`CancelReturns`, `TimeoutReturns`, `TestEnds`, `AbortEnds`, `CloseEnds`,
`ShownCatchesUp` and `StallIsNoticed`, since fairness and `ENABLED` are beyond the
prover; and what the violations refute.

## 5. Not modelled

* **Texts.** Formatting of numbers and sizes, layout, the options and the quoting of
  `ssh` and `scp` commands, the limit of 4096 characters of a path, the limit of 32
  fields of a progress record. A prompt is one event of `ProcessRunner` (`ChildOutput`
  has its characters), and a diagnostic the set of phrases in it (`Diagnosis`).
* **Start-up.** The parsing of the embedded configuration, `default_settings_path`,
  theme, logo, command line and self check: sequential code that runs once and keeps
  no state but its result. What becomes of configured destinations is in `RemotePath`.
* **Build, packaging, demo and audit scripts**: not part of the running program.
* **Environment.** A directory made at the destination path between `test -e` and `ln`,
  writes to the source that leave its ctime alone, a child that writes without a pause,
  and descriptors the child inherits are outside the models; the hazards say so where they bite.

What the abstraction leaves out of a modelled part:

* Two invalid catalogs give one warning in the model and in the list, since both have
  the same code and no key.
* Which text a refused Start shows is not followed; a failure's token is
  (`Diagnosis`). The program has a text for a changed source
  (`errors.source_changed`, `en.json:142`) that `localized_backend_message` never
  chooses, and `ui_detail` reduces a refused user name or password to the text of an
  authentication failure; nothing in the repository says otherwise, so these are
  notes and not findings.
* The configuration accepts control characters other than line breaks and NUL, keeps
  `~/` as it is and refuses `~`; the window refuses the first, makes `~` of the second
  and accepts the third. `RemotePath` has both; `ArrivesWhereTyped` is about the
  window's.
* A destination that ends in a blank is normalised and tested as it was typed, and
  trimmed by the transport (`transfer.cpp:494-495`): a file for `/in ` arrives in
  `/in`, and `/in/.. ` passes the test while every transfer to it is refused.
  `ArrivesWhereTyped` leaves these paths out; one of the configured destinations of
  the run `window` is such a one.

## 6. What is left

The behaviours the inventory calls hard are modelled, and every property above that
is not a liveness property is a theorem. What could still be added: the parsing of
the embedded tables, a pure function of its input; a kernel in which a child's output
never ends, which would show that cancel then waits for the child; and the
composition of `ChildOutput` with the loop of `ProcessRunner`, whose prompt is now an
event of its own.
