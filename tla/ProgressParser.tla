---------------------------- MODULE ProgressParser ----------------------------
(***************************************************************************)
(* ProgressStreamParser (transfer.cpp): what the window is told while scp  *)
(* uploads.  scp's output comes in chunks cut anywhere, so it is received  *)
(* one field or separator at a time; a field stands for its characters and *)
(* has length one.                                                         *)
(*                                                                         *)
(* The code compares differences of clock readings with three intervals.   *)
(* The model keeps those differences, each up to its interval, beyond      *)
(* which the code does not tell them apart.                                *)
(***************************************************************************)
EXTENDS Integers, Sequences, FiniteSetsExt

CONSTANTS
    Fields,             \* [kind, value], kind \in FieldKinds
    Total,              \* bytes to send
    MaximumRecord,      \* kMaximumProgressRecord
    EmitInterval,       \* kMinimumProgressEmitInterval
    StallThreshold,     \* kStallThreshold
    StallEmitInterval   \* kStallEmitInterval

FieldKinds == {"percent", "scaled", "clock", "word"}

ASSUME FieldsAreFields == Fields \subseteq [kind : FieldKinds, value : Nat]
ASSUME SizesAreNumbers == Total \in Nat /\ MaximumRecord \in Nat \ {0}
ASSUME IntervalsAreOrdered ==
    /\ EmitInterval \in Nat \ {0} /\ StallThreshold \in Nat
    /\ StallEmitInterval \in Nat
    /\ EmitInterval <= StallEmitInterval /\ StallEmitInterval <= StallThreshold

VARIABLES
    record,       \* record_
    dropping,     \* dropping_
    last,         \* last_progress_
    shown,        \* the event the window got last
    activityAge,  \* now - last_activity_
    emitAge,      \* now - last_emit_
    stallAge,     \* now - last_stall_emit_
    pc,           \* "upload", "ended", "committed" or "failed"
    lineLength    \* history: fields since the last separator, one too many at most

vars == <<record, dropping, last, shown, activityAge, emitAge, stallAge, pc, lineLength>>
clocks == <<activityAge, emitAge, stallAge>>

Progress(bytes, eta) == [bytes |-> bytes, eta |-> eta, stalled |-> FALSE]

Init ==
    /\ record = <<>> /\ dropping = FALSE
    /\ last = Progress(0, "none") /\ shown = last
    /\ activityAge = 0 /\ emitAge = EmitInterval /\ stallAge = StallEmitInterval
    /\ pc = "upload"
    /\ lineLength = 0

-----------------------------------------------------------------------------
(* parse_scp_progress_line()                                                *)

Lesser(a, b) == IF a <= b THEN a ELSE b

Percents(line) == {i \in DOMAIN line : line[i].kind = "percent"}

\* The first field that ends in % decides, whether it is a percentage or not.
IsProgress(line) == Percents(line) # {} /\ line[Min(Percents(line))].value <= 100

\* Whether the field n places behind the percentage is of this kind.
Follows(line, n, kind) ==
    LET i == Min(Percents(line)) + n
    IN  i \in DOMAIN line /\ line[i].kind = kind

After(line, n) == line[Min(Percents(line)) + n].value

\* Mutant: scp's rounding is not undone.
TransferredAsRead(line) ==
    IF After(line, 0) = 100 THEN Total
    ELSE IF Follows(line, 1, "scaled") THEN After(line, 1)
    ELSE (Total * After(line, 0) + 50) \div 100

\* Bytes are rounded by scp, or by us from the percentage; 100 % is all.
Transferred(line) ==
    IF After(line, 0) = 100 THEN Total
    ELSE IF Follows(line, 1, "scaled") THEN Lesser(After(line, 1), Total)
    ELSE Lesser((Total * After(line, 0) + 50) \div 100, Total)

\* Where the remaining time comes from.
Eta(line) ==
    IF Follows(line, 3, "clock") THEN "clock"
    ELSE IF Follows(line, 2, "scaled") /\ After(line, 2) > 0 THEN "rate"
    ELSE "none"

-----------------------------------------------------------------------------
(* finish_record(), feed(), tick(), and the events around an upload.        *)

\* Mutant: only a late event is shown, complete or not.
ShowThrottled(progress) ==
    IF emitAge >= EmitInterval
      THEN shown' = progress /\ emitAge' = 0
      ELSE UNCHANGED <<shown, emitAge>>

\* Mutant: an event is shown only if it is complete.
ShowComplete(progress) ==
    IF progress.bytes >= Total
      THEN shown' = progress /\ emitAge' = 0
      ELSE UNCHANGED <<shown, emitAge>>

\* A complete event is shown at once, another if none was for EmitInterval.
Show(progress) ==
    IF progress.bytes >= Total \/ emitAge >= EmitInterval
      THEN shown' = progress /\ emitAge' = 0
      ELSE UNCHANGED <<shown, emitAge>>

FinishRecord ==
    /\ IF record # <<>> /\ ~dropping /\ IsProgress(record)
         THEN LET progress == Progress(Transferred(record), Eta(record))
              IN  /\ last' = progress
                  /\ activityAge' = 0
                  /\ Show(progress)
         ELSE UNCHANGED <<last, activityAge, shown, emitAge>>
    /\ record' = <<>>

Separator ==
    /\ pc = "upload"
    /\ FinishRecord
    /\ dropping' = FALSE
    /\ lineLength' = 0
    /\ UNCHANGED <<stallAge, pc>>

\* Mutant: a record that is too long is forgotten, and its tail is taken for one.
ReceiveTail(field) ==
    /\ pc = "upload"
    /\ record' = IF Len(record) < MaximumRecord THEN Append(record, field) ELSE <<>>
    /\ lineLength' = Lesser(lineLength + 1, MaximumRecord + 1)
    /\ UNCHANGED <<dropping, last, shown, clocks, pc>>

Receive(field) ==
    /\ pc = "upload"
    /\ \/ /\ ~dropping /\ Len(record) < MaximumRecord
          /\ record' = Append(record, field)
          /\ UNCHANGED dropping
       \/ /\ dropping \/ Len(record) >= MaximumRecord
          /\ record' = <<>>
          /\ dropping' = TRUE
    /\ lineLength' = Lesser(lineLength + 1, MaximumRecord + 1)
    /\ UNCHANGED <<last, shown, clocks, pc>>

Advance ==
    /\ pc = "upload"
    /\ activityAge' = Lesser(activityAge + 1, StallThreshold)
    /\ emitAge' = Lesser(emitAge + 1, EmitInterval)
    /\ stallAge' = Lesser(stallAge + 1, StallEmitInterval)
    /\ UNCHANGED <<record, dropping, last, shown, pc, lineLength>>

\* Mutant: there is no progress to report as stalled before the first record.
TickAfterRecord ==
    /\ pc = "upload" /\ last.bytes > 0
    /\ activityAge >= StallThreshold /\ stallAge >= StallEmitInterval
    /\ shown' = [last EXCEPT !.stalled = TRUE, !.eta = "none"]
    /\ stallAge' = 0
    /\ UNCHANGED <<record, dropping, last, activityAge, emitAge, pc, lineLength>>

\* Mutant: the report of a stall counts for the throttle of the others.
TickThrottles ==
    /\ pc = "upload"
    /\ activityAge >= StallThreshold /\ stallAge >= StallEmitInterval
    /\ shown' = [last EXCEPT !.stalled = TRUE, !.eta = "none"]
    /\ stallAge' = 0 /\ emitAge' = 0
    /\ UNCHANGED <<record, dropping, last, activityAge, pc, lineLength>>

\* After each turn of the loop that reads scp's output.
Tick ==
    /\ pc = "upload"
    /\ activityAge >= StallThreshold /\ stallAge >= StallEmitInterval
    /\ shown' = [last EXCEPT !.stalled = TRUE, !.eta = "none"]
    /\ stallAge' = 0
    /\ UNCHANGED <<record, dropping, last, activityAge, emitAge, pc, lineLength>>

\* scp has ended; its last record has no separator behind it.
Finish ==
    /\ pc = "upload"
    /\ FinishRecord
    /\ pc' = "ended"
    /\ UNCHANGED <<dropping, stallAge, lineLength>>

\* The rest of transfer(): committed, with an event of its own, or not.
Conclude ==
    /\ pc = "ended"
    /\ \/ pc' = "committed" /\ shown' = Progress(Total, "clock")
       \/ pc' = "failed" /\ UNCHANGED shown
    /\ UNCHANGED <<record, dropping, last, clocks, lineLength>>

Next ==
    \/ Separator \/ (\E field \in Fields : Receive(field))
    \/ Advance \/ Tick \/ Finish \/ Conclude

Spec == Init /\ [][Next]_vars

\* Time passes, and run_process() calls tick() about ten times a second.
FairSpec == Spec /\ WF_vars(Advance) /\ WF_vars(Tick)

-----------------------------------------------------------------------------
(* Properties.                                                              *)

ProgressType == [bytes : 0..Total, eta : {"none", "clock", "rate"}, stalled : BOOLEAN]

\* The variables have their types, and the number of bytes is never above the total.
TypeOK ==
    /\ record \in Seq(Fields) /\ Len(record) <= MaximumRecord
    /\ dropping \in BOOLEAN
    /\ last \in ProgressType /\ shown \in ProgressType
    /\ activityAge \in 0..StallThreshold
    /\ emitAge \in 0..EmitInterval
    /\ stallAge \in 0..StallEmitInterval
    /\ pc \in {"upload", "ended", "committed", "failed"}
    /\ lineLength \in 0..MaximumRecord + 1

\* What is parsed is all that scp has written since the last separator, or nothing
\* where that is too long: never the tail of a long record.
NoTornRecord ==
    pc = "upload" =>
        IF lineLength > MaximumRecord THEN dropping /\ record = <<>>
        ELSE ~dropping /\ Len(record) = lineLength

\* A stall on the screen is a stall now: no record has come for StallThreshold, and
\* the numbers are the last ones, without a remaining time.  The first record after
\* it replaces it: it is never held back by the throttle.
StalledIsCurrent ==
    shown.stalled => /\ activityAge = StallThreshold
                     /\ shown.bytes = last.bytes
                     /\ shown.eta = "none"

\* Completion is never held back by the throttle, whatever was shown before it.
CompletionShown == last.bytes = Total => shown.bytes = Total

\* While the upload goes on, the numbers scp reported last get to the window, even
\* if their record was held back and no other one follows.
ShownCatchesUp == pc = "upload" ~> shown.bytes = last.bytes \/ pc # "upload"

\* Silence is reported as a stall, unless it ends.
StallIsNoticed ==
    (pc = "upload" /\ activityAge = StallThreshold) ~>
    (shown.stalled \/ activityAge < StallThreshold \/ pc # "upload")
=============================================================================
