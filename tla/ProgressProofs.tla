----------------------------- MODULE ProgressProofs -----------------------------
(***************************************************************************)
(* What holds of ProgressParser for every size of the file, every length   *)
(* of a record and all intervals, whatever scp writes.                     *)
(***************************************************************************)
EXTENDS ProgressParser, WellFoundedInduction, TLAPS

USE FieldsAreFields, SizesAreNumbers, IntervalsAreOrdered

\* No event has been shown since the last record, or none for EmitInterval: what
\* makes the first record after a stall pass the throttle.
AgesAgree == emitAge >= activityAge \/ emitAge = EmitInterval

ParserInv == TypeOK /\ AgesAgree /\ NoTornRecord /\ StalledIsCurrent /\ CompletionShown

-----------------------------------------------------------------------------

\* The first percentage of a line is one of its fields.
LEMMA MinIsAField ==
    ASSUME NEW line \in Seq(Fields), Percents(line) # {}
    PROVE  Min(Percents(line)) \in DOMAIN line
<1>1. Percents(line) \subseteq Nat /\ Percents(line) \subseteq DOMAIN line
  BY DEF Percents
<1>2. \E n \in Percents(line) : \A k \in Percents(line) : n <= k
  <2>1. PICK n \in Percents(line) :
            \A k \in Percents(line) : <<k, n>> \notin OpToRel(<, Nat)
    BY <1>1, NatLessThanWellFounded, WFMin, Zenon
  <2>2. \A k \in Percents(line) : ~(k < n)
    BY <1>1, <2>1 DEF OpToRel
  <2>3. QED
    BY <1>1, <2>2
<1>3. Min(Percents(line)) \in Percents(line)
  BY <1>2 DEF Min
<1>4. QED
  BY <1>1, <1>3

\* The bytes made out of a percentage are a natural number.
LEMMA PercentIsNat ==
    ASSUME NEW v \in Nat
    PROVE  (Total * v + 50) \div 100 \in Nat
<1>1. Total * v \in Nat
  OBVIOUS
<1>2. \A x \in Nat : (x + 50) \div 100 \in Nat
  OBVIOUS
<1>3. QED
  BY <1>1, <1>2

\* A line that is a progress record gives a progress of the right type.
LEMMA ParsedIsTyped ==
    ASSUME NEW line \in Seq(Fields), IsProgress(line)
    PROVE  Progress(Transferred(line), Eta(line)) \in ProgressType
<1>1. Min(Percents(line)) \in DOMAIN line
  BY MinIsAField DEF IsProgress
<1>2. \A i \in DOMAIN line : line[i] \in Fields
  OBVIOUS
<1>3. \A i \in DOMAIN line : line[i].value \in Nat
  BY <1>2
<1>4. After(line, 0) \in Nat
  BY <1>1, <1>3 DEF After
<1>5. Follows(line, 1, "scaled") => After(line, 1) \in Nat
  BY <1>3 DEF Follows, After
<1>6. \A n \in Nat : Lesser(n, Total) \in 0..Total
  BY DEF Lesser
<1>7. Transferred(line) \in 0..Total
  <2>1. (Total * After(line, 0) + 50) \div 100 \in Nat
    BY <1>4, PercentIsNat
  <2>2. QED
    BY <1>5, <1>6, <2>1 DEF Transferred
<1>8. Eta(line) \in {"none", "clock", "rate"}
  BY DEF Eta
<1>9. QED
  BY <1>7, <1>8 DEF Progress, ProgressType
-----------------------------------------------------------------------------

\* What finish_record() does to the last progress and to what is shown: nothing, or
\* both are the new progress, or the throttle holds it back while no stall is shown.
Recorded ==
    /\ record' = <<>>
    /\ last' \in ProgressType /\ shown' \in ProgressType
    /\ activityAge' \in 0..StallThreshold /\ emitAge' \in 0..EmitInterval
    /\ emitAge' >= activityAge' \/ emitAge' = EmitInterval
    /\ shown'.stalled => /\ activityAge' = StallThreshold
                        /\ shown'.bytes = last'.bytes
                        /\ shown'.eta = "none"
    /\ last'.bytes = Total => shown'.bytes = Total

\* finish_record() keeps the invariant, as far as it is about its variables.
LEMMA RecordFinished ==
    ASSUME ParserInv, FinishRecord
    PROVE  Recorded
<1> USE DEF Recorded
<1> DEFINE progress == Progress(Transferred(record), Eta(record))
<1>1. record' = <<>>
  BY DEF FinishRecord
<1>2. CASE record # <<>> /\ ~dropping /\ IsProgress(record)
  <2>1. progress \in ProgressType
    BY <1>2, ParsedIsTyped DEF ParserInv, TypeOK
  <2>2. progress.stalled = FALSE
    BY DEF Progress
  <2>3. last' = progress /\ activityAge' = 0 /\ Show(progress)
    BY <1>2 DEF FinishRecord
  <2> HIDE DEF progress
  <2>4. CASE progress.bytes >= Total \/ emitAge >= EmitInterval
    <3>1. shown' = progress /\ emitAge' = 0
      BY <2>3, <2>4 DEF Show
    <3>2. QED
      BY <1>1, <2>1, <2>2, <2>3, <3>1 DEF ProgressType
  <2>5. CASE ~(progress.bytes >= Total \/ emitAge >= EmitInterval)
    <3>1. UNCHANGED <<shown, emitAge>>
      BY <2>3, <2>5 DEF Show
    <3>2. activityAge < StallThreshold
      BY <2>5 DEF ParserInv, TypeOK, AgesAgree
    <3>3. ~shown.stalled
      BY <3>2 DEF ParserInv, TypeOK, StalledIsCurrent
    <3>4. last'.bytes # Total
      BY <2>1, <2>3, <2>5 DEF ProgressType
    <3>5. QED
      BY <1>1, <2>1, <2>3, <3>1, <3>3, <3>4 DEF ParserInv, TypeOK
  <2>6. QED
    BY <2>4, <2>5
<1>3. CASE ~(record # <<>> /\ ~dropping /\ IsProgress(record))
  <2>1. UNCHANGED <<last, activityAge, shown, emitAge>>
    BY <1>3 DEF FinishRecord
  <2>2. QED
    BY <1>1, <2>1
       DEF ParserInv, TypeOK, AgesAgree, StalledIsCurrent, CompletionShown
<1>4. QED
  BY <1>2, <1>3

\* The constructor establishes the invariant.
LEMMA ParserInvInit == Init => ParserInv
<1>1. SUFFICES ASSUME Init PROVE ParserInv
  OBVIOUS
<1>2. Progress(0, "none") \in ProgressType
  BY DEF Progress, ProgressType
<1>3. last = Progress(0, "none") /\ shown = last /\ shown.stalled = FALSE
  BY <1>1 DEF Init, Progress
<1>4. record = <<>> /\ Len(record) = 0 /\ record \in Seq(Fields)
  BY <1>1 DEF Init
<1>5. TypeOK
  <2>1. last \in ProgressType /\ shown \in ProgressType
    BY <1>2, <1>3
  <2>2. /\ activityAge \in 0..StallThreshold
        /\ emitAge \in 0..EmitInterval /\ stallAge \in 0..StallEmitInterval
        /\ lineLength \in 0..MaximumRecord + 1
    BY <1>1 DEF Init
  <2>3. dropping \in BOOLEAN /\ pc \in {"upload", "ended", "committed", "failed"}
    BY <1>1 DEF Init
  <2>4. QED
    BY <1>4, <2>1, <2>2, <2>3 DEF TypeOK
<1>6. QED
  BY <1>1, <1>3, <1>4, <1>5
     DEF Init, ParserInv, AgesAgree, NoTornRecord, StalledIsCurrent, CompletionShown

\* Every step keeps it.
LEMMA ParserInvStep == ParserInv /\ [Next]_vars => ParserInv'
<1>1. SUFFICES ASSUME ParserInv, [Next]_vars PROVE ParserInv'
  OBVIOUS
<1>a. FinishRecord => Recorded
  BY <1>1, RecordFinished
<1>b. record' = <<>> => Len(record') = 0 /\ record' \in Seq(Fields)
  OBVIOUS
<1> USE DEF ParserInv, AgesAgree, StalledIsCurrent, CompletionShown
<1>2. CASE Separator
  <2>1. FinishRecord /\ dropping' = FALSE /\ lineLength' = 0 /\ UNCHANGED <<stallAge, pc>>
    BY <1>2 DEF Separator
  <2>2. Len(record') = 0 /\ record' \in Seq(Fields)
    BY <1>a, <1>b, <2>1 DEF Recorded
  <2>3. TypeOK'
    <3>1. dropping' \in BOOLEAN
      BY <2>1, Zenon
    <3>2. Len(record') <= MaximumRecord /\ lineLength' \in 0..MaximumRecord + 1
      BY <2>1, <2>2
    <3>3. QED
      BY <1>1, <1>a, <2>1, <2>2, <3>1, <3>2 DEF TypeOK, Recorded
  <2>4. NoTornRecord'
    BY <2>1, <2>2 DEF NoTornRecord
  <2>5. QED
    BY <1>1, <1>a, <2>1, <2>3, <2>4 DEF Recorded
<1>3. ASSUME NEW field \in Fields, Receive(field) PROVE ParserInv'
  <2>1. TypeOK'
    <3>1. /\ record' \in Seq(Fields) /\ Len(record') <= MaximumRecord
          /\ lineLength' \in 0..MaximumRecord + 1
      <4>1. lineLength' \in 0..MaximumRecord + 1
        BY <1>1, <1>3 DEF Receive, TypeOK, Lesser
      <4>2. CASE record' = Append(record, field) /\ Len(record) < MaximumRecord
        BY <1>1, <1>3, <4>1, <4>2 DEF TypeOK
      <4>3. CASE record' = <<>>
        BY <1>b, <4>1, <4>3
      <4>4. QED
        BY <1>3, <4>2, <4>3 DEF Receive
    <3>2. dropping' \in BOOLEAN
      BY <1>1, <1>3, Zenon DEF Receive, TypeOK
    <3>3. QED
      BY <1>1, <1>3, <3>1, <3>2 DEF Receive, TypeOK, clocks
  <2>2. NoTornRecord'
    BY <1>1, <1>3 DEF Receive, TypeOK, NoTornRecord, Lesser
  <2>3. QED
    BY <1>1, <1>3, <2>1, <2>2 DEF Receive, clocks
<1>4. CASE Advance
  <2>1. TypeOK'
    BY <1>1, <1>4 DEF Advance, TypeOK, Lesser
  <2>2. AgesAgree'
    BY <1>1, <1>4 DEF Advance, TypeOK, Lesser
  <2>3. StalledIsCurrent'
    BY <1>1, <1>4 DEF Advance, TypeOK, Lesser
  <2>4. QED
    BY <1>1, <1>4, <2>1, <2>2, <2>3 DEF Advance, NoTornRecord
<1>5. CASE Tick
  <2>1. shown' = [last EXCEPT !.stalled = TRUE, !.eta = "none"]
    BY <1>5 DEF Tick
  <2>2. /\ shown' \in ProgressType
        /\ shown'.bytes = last.bytes /\ shown'.eta = "none"
    BY <1>1, <2>1 DEF TypeOK, ProgressType
  <2>3. TypeOK'
    BY <1>1, <1>5, <2>2 DEF Tick, TypeOK
  <2>4. QED
    BY <1>1, <1>5, <2>2, <2>3 DEF Tick, TypeOK, NoTornRecord
<1>6. CASE Finish
  <2>1. FinishRecord /\ pc' = "ended" /\ UNCHANGED <<dropping, stallAge, lineLength>>
    BY <1>6 DEF Finish
  <2>2. Len(record') = 0 /\ record' \in Seq(Fields)
    BY <1>a, <1>b, <2>1 DEF Recorded
  <2>3. TypeOK'
    BY <1>1, <1>a, <2>1, <2>2 DEF TypeOK, Recorded
  <2>4. QED
    BY <1>1, <1>a, <2>1, <2>3 DEF NoTornRecord, Recorded
<1>7. CASE Conclude
  <2>1. Progress(Total, "clock") \in ProgressType /\ Progress(Total, "clock").bytes = Total
        /\ ~Progress(Total, "clock").stalled
    BY DEF Progress, ProgressType
  <2>2. TypeOK'
    BY <1>1, <1>7, <2>1 DEF Conclude, TypeOK, clocks
  <2>3. QED
    BY <1>1, <1>7, <2>1, <2>2 DEF Conclude, clocks, NoTornRecord
<1>8. CASE UNCHANGED vars
  BY <1>1, <1>8 DEF vars, TypeOK, NoTornRecord
<1>9. QED
  BY <1>1, <1>2, <1>3, <1>4, <1>5, <1>6, <1>7, <1>8 DEF Next

\* It holds of every behaviour.
LEMMA ParserInvariant == Spec => []ParserInv
BY ParserInvInit, ParserInvStep, PTL DEF Spec

-----------------------------------------------------------------------------

\* ProgressStreamParser: every variable keeps its type, and no number of bytes that
\* is shown is above the total, whatever the numbers in scp's output are.
THEOREM ProgressTypeCorrect == Spec => []TypeOK
BY ParserInvariant, PTL DEF ParserInv

\* feed(): what finish_record() parses is all of a record or none of it, for every
\* maximum of a record's length.
THEOREM NoRecordIsTorn == Spec => []NoTornRecord
BY ParserInvariant, PTL DEF ParserInv

\* tick() against the throttle of finish_record(): a stall is on the screen only as
\* long as there is one, for all intervals that are ordered as the code's are.
THEOREM StallsAreCurrent == Spec => []StalledIsCurrent
BY ParserInvariant, PTL DEF ParserInv

\* finish_record(): a complete progress is shown whatever the throttle says.
THEOREM CompletionIsShown == Spec => []CompletionShown
BY ParserInvariant, PTL DEF ParserInv
=============================================================================
