----------------------------- MODULE SettingsProofs -----------------------------
(***************************************************************************)
(* What holds of SettingsStore for every number of applications and every  *)
(* set of catalogs.                                                        *)
(***************************************************************************)
EXTENDS SettingsStore, TLAPS

USE EnglishIsSafe, CodesAreCodes

\* A save renames only what is whole and synced, and what it has renamed is no
\* temporary file any more.
SavesAreOrdered ==
    \A a \in Apps :
        /\ pc[a] = "done" => temp[a] = "none"
        /\ pc[a] \in {"close", "rename"} => temp[a] = "synced"
        /\ pc[a] \in Saving \cup {"done"} => choice[a] \in SafeCodes

\* Neither a reader nor a power loss finds a half of a document.
NeverTorn == file \in Initial /\ onDisk \subseteq Initial

StoreInv == TypeOK /\ SavesAreOrdered /\ NeverTorn

-----------------------------------------------------------------------------

\* The language that is selected is one of the catalogs'.
LEMMA SelectedIsALanguage == \A wanted : Selected(wanted) \in Languages
<1>1. English \in Languages
  BY EnglishIsThere DEF Languages
<1>2. QED
  BY <1>1 DEF Selected

\* No application has run: nothing is under way.
LEMMA StoreInvInit == Init => StoreInv
<1>1. SUFFICES ASSUME Init PROVE StoreInv
  OBVIOUS
<1>2. English \in Languages
  BY EnglishIsThere DEF Languages
<1>3. /\ pc \in [Apps -> {"off", "idle", "done"} \cup Saving]
      /\ temp \in [Apps -> {"none", "part", "whole", "synced"}]
      /\ notice \in [Apps -> {"none", "restart", "failed"}]
      /\ page \in [Apps -> {"none", "built", "broken"}]
  BY <1>1 DEF Init
<1>4. /\ choice \in [Apps -> SafeCodes \cup {NoCode}]
      /\ language \in [Apps -> Languages] /\ warned \in [Apps -> BOOLEAN]
  BY <1>1, <1>2 DEF Init
<1>5. NeverTorn /\ file \in Contents /\ onDisk \in SUBSET Contents
  BY <1>1 DEF Init, NeverTorn, Contents
<1>6. TypeOK
  BY <1>1, <1>3, <1>4, <1>5 DEF TypeOK, Init
<1>7. SavesAreOrdered
  BY <1>1 DEF Init, SavesAreOrdered, Saving
<1>8. QED
  BY <1>5, <1>6, <1>7 DEF StoreInv
\* The types that a step keeps where it moves an application.
LEMMA StoreTypeStep == StoreInv /\ [Next]_vars => TypeOK'
<1>1. SUFFICES ASSUME StoreInv, [Next]_vars PROVE TypeOK'
  OBVIOUS
<1> USE DEF StoreInv, Saving
<1>2. ASSUME NEW a \in Apps, Start(a) PROVE TypeOK'
  <2>1. PICK readable \in BOOLEAN :
            LET loaded == LoadLanguage(file, readable)
            IN  /\ language' = [language EXCEPT ![a] = Selected(loaded.code)]
                /\ warned' = [warned EXCEPT ![a] = loaded.warned]
                /\ \E outcome \in {"built", "broken"} : page' = [page EXCEPT ![a] = outcome]
    BY <1>2 DEF Start
  <2>2. LoadLanguage(file, readable).warned \in BOOLEAN
    BY <2>1, Zenon DEF LoadLanguage
  <2>3. language' \in [Apps -> Languages]
    BY <1>1, <2>1, SelectedIsALanguage DEF TypeOK
  <2>4. warned' \in [Apps -> BOOLEAN]
    BY <1>1, <2>1, <2>2, Zenon DEF TypeOK
  <2>5. page' \in [Apps -> {"none", "built", "broken"}]
    BY <1>1, <2>1 DEF TypeOK
  <2>6. QED
    BY <1>1, <1>2, <2>3, <2>4, <2>5 DEF TypeOK, Start, diskVars
<1>3. ASSUME NEW a \in Apps, Choose(a) PROVE TypeOK'
  <2>1. warned' \in [Apps -> BOOLEAN]
    BY <1>1, <1>3, Zenon DEF TypeOK, Choose
  <2>2. QED
    BY <1>1, <1>3, <2>1 DEF TypeOK, Choose, Goto, Return, diskVars
<1>4. ASSUME NEW a \in Apps, CreateTemporary(a) PROVE TypeOK'
  BY <1>1, <1>4 DEF TypeOK, CreateTemporary, Goto, Return, diskVars, runVars
<1>5. ASSUME NEW a \in Apps, Write(a) PROVE TypeOK'
  BY <1>1, <1>5 DEF TypeOK, Write, Goto, diskVars, runVars
<1>6. ASSUME NEW a \in Apps, Sync(a) PROVE TypeOK'
  BY <1>1, <1>6 DEF TypeOK, Sync, Goto, diskVars, runVars
<1>7. ASSUME NEW a \in Apps, Close(a) PROVE TypeOK'
  BY <1>1, <1>7 DEF TypeOK, Close, Goto, diskVars, runVars
<1>8. ASSUME NEW a \in Apps, Rename(a) PROVE TypeOK'
  BY <1>1, <1>8 DEF TypeOK, Rename, Goto, SavesAreOrdered, Contents, Initial, diskVars,
                      runVars
<1>9. ASSUME NEW a \in Apps, Confirm(a) PROVE TypeOK'
  BY <1>1, <1>9 DEF TypeOK, Confirm, Goto, Return, diskVars, runVars
<1>10. ASSUME NEW a \in Apps, Fail(a) PROVE TypeOK'
  BY <1>1, <1>10 DEF TypeOK, Fail, Goto, diskVars, runVars
<1>11. ASSUME NEW a \in Apps, CleanUp(a) \/ RemoveFails(a) PROVE TypeOK'
  BY <1>1, <1>11 DEF TypeOK, CleanUp, RemoveFails, Goto, Return, diskVars, runVars
<1>12. ASSUME NEW ended \in SUBSET Apps, Forget(ended),
              file' \in Contents, onDisk' \in SUBSET Contents,
              promised' \in SafeCodes \cup {NoCode},
              temp' \in [Apps -> {"none", "part", "whole", "synced"}]
       PROVE  TypeOK'
  <2>1. warned' \in [Apps -> BOOLEAN]
    BY <1>1, <1>12, Zenon DEF TypeOK, Forget
  <2>2. language' \in [Apps -> Languages]
    <3>1. English \in Languages
      BY EnglishIsThere DEF Languages
    <3>2. QED
      BY <1>1, <1>12, <3>1 DEF TypeOK, Forget
  <2>3. QED
    BY <1>1, <1>12, <2>1, <2>2 DEF TypeOK, Forget
<1>13. ASSUME NEW a \in Apps, Leave(a) PROVE TypeOK'
  BY <1>1, <1>12, <1>13 DEF TypeOK, Leave, diskVars
<1>14. CASE WriteBack
  BY <1>1, <1>14 DEF TypeOK, WriteBack, runVars
<1>15. CASE LosePower
  <2>1. temp' \in [Apps -> {"none", "part", "whole", "synced"}]
    BY <1>1, <1>15 DEF TypeOK, LosePower
  <2>2. QED
    BY <1>1, <1>12, <1>15, <2>1 DEF TypeOK, LosePower
<1>16. CASE UNCHANGED vars
  BY <1>1, <1>16 DEF TypeOK, vars
<1>17. QED
  BY <1>1, <1>2, <1>3, <1>4, <1>5, <1>6, <1>7, <1>8, <1>9, <1>10, <1>11, <1>13, <1>14,
     <1>15, <1>16 DEF Next

\* The order of the calls of a save, and what the name is given by rename().
LEMMA StoreOrderStep == StoreInv /\ [Next]_vars => SavesAreOrdered' /\ NeverTorn'
<1>1. SUFFICES ASSUME StoreInv, [Next]_vars PROVE SavesAreOrdered' /\ NeverTorn'
  OBVIOUS
<1> USE DEF StoreInv, SavesAreOrdered, NeverTorn, Saving
<1>2. ASSUME NEW a \in Apps, Start(a) PROVE SavesAreOrdered' /\ NeverTorn'
  BY <1>1, <1>2 DEF TypeOK, Start, diskVars, runVars
<1>3. ASSUME NEW a \in Apps, Choose(a) PROVE SavesAreOrdered' /\ NeverTorn'
  BY <1>1, <1>3 DEF TypeOK, Choose, Goto, Return, diskVars, runVars
<1>4. ASSUME NEW a \in Apps, CreateTemporary(a) PROVE SavesAreOrdered' /\ NeverTorn'
  BY <1>1, <1>4 DEF TypeOK, CreateTemporary, Goto, Return, diskVars, runVars
<1>5. ASSUME NEW a \in Apps, Write(a) PROVE SavesAreOrdered' /\ NeverTorn'
  BY <1>1, <1>5 DEF TypeOK, Write, Goto, diskVars, runVars
<1>6. ASSUME NEW a \in Apps, Sync(a) PROVE SavesAreOrdered' /\ NeverTorn'
  BY <1>1, <1>6 DEF TypeOK, Sync, Goto, diskVars, runVars
<1>7. ASSUME NEW a \in Apps, Close(a) PROVE SavesAreOrdered' /\ NeverTorn'
  BY <1>1, <1>7 DEF TypeOK, Close, Goto, diskVars, runVars
<1>8. ASSUME NEW a \in Apps, Rename(a) PROVE SavesAreOrdered' /\ NeverTorn'
  BY <1>1, <1>8 DEF TypeOK, Rename, Goto, Initial, diskVars, runVars
<1>9. ASSUME NEW a \in Apps, Confirm(a) PROVE SavesAreOrdered' /\ NeverTorn'
  BY <1>1, <1>9 DEF TypeOK, Confirm, Goto, Return, diskVars, runVars
<1>10. ASSUME NEW a \in Apps, Fail(a) PROVE SavesAreOrdered' /\ NeverTorn'
  BY <1>1, <1>10 DEF TypeOK, Fail, Goto, diskVars, runVars
<1>11. ASSUME NEW a \in Apps, CleanUp(a) \/ RemoveFails(a)
       PROVE  SavesAreOrdered' /\ NeverTorn'
  BY <1>1, <1>11 DEF TypeOK, CleanUp, RemoveFails, Goto, Return, diskVars, runVars
<1>12. ASSUME NEW a \in Apps, Leave(a) PROVE SavesAreOrdered' /\ NeverTorn'
  BY <1>1, <1>12 DEF TypeOK, Leave, Forget, diskVars, runVars
<1>13. CASE WriteBack
  BY <1>1, <1>13 DEF TypeOK, WriteBack, runVars
<1>14. CASE LosePower
  BY <1>1, <1>14 DEF TypeOK, LosePower, Forget
<1>15. CASE UNCHANGED vars
  BY <1>1, <1>15 DEF vars
<1>16. QED
  BY <1>1, <1>2, <1>3, <1>4, <1>5, <1>6, <1>7, <1>8, <1>9, <1>10, <1>11, <1>12, <1>13,
     <1>14, <1>15 DEF Next

\* The invariant holds of every behaviour.
LEMMA StoreInvariant == Spec => []StoreInv
<1>1. StoreInv /\ [Next]_vars => StoreInv'
  BY StoreTypeStep, StoreOrderStep DEF StoreInv
<1>2. QED
  BY <1>1, StoreInvInit, PTL DEF Spec

-----------------------------------------------------------------------------

\* SettingsStore and the Settings page: every variable keeps its type, and only codes
\* that valid_language_code() accepts are saved, whatever the catalogs' codes are.
THEOREM SettingsTypeCorrect == Spec => []TypeOK
BY StoreInvariant, PTL DEF StoreInv

\* save_language(): fsync() comes before rename(), so neither a reader nor a power loss
\* finds a half of a document.
THEOREM SettingsAreNeverTorn == Spec => []NeverTorn
BY StoreInvariant, PTL DEF StoreInv

\* Once its temporary file is made, a save comes back to the window in three ways.
LEMMA WaysOut ==
    ASSUME StoreInv, [Next]_vars, NEW a \in Apps,
           pc[a] \in (Saving \ {"create"}) \cup {"done"}, pc'[a] = "idle"
    PROVE  Confirm(a) \/ CleanUp(a) \/ RemoveFails(a)
<1>1. pc \in [Apps -> {"off", "idle", "done"} \cup Saving]
  BY DEF StoreInv, TypeOK
<1>2. ASSUME NEW b \in Apps, Start(b) \/ Choose(b) \/ CreateTemporary(b) PROVE FALSE
  BY <1>1, <1>2 DEF Start, Choose, CreateTemporary, Goto, Return, Saving
<1>3. ASSUME NEW b \in Apps, Write(b) \/ Sync(b) \/ Close(b) \/ Rename(b) \/ Fail(b)
      PROVE  FALSE
  BY <1>1, <1>3 DEF Write, Sync, Close, Rename, Fail, Goto, Saving
<1>4. ASSUME NEW b \in Apps, Confirm(b) \/ CleanUp(b) \/ RemoveFails(b) PROVE b = a
  BY <1>1, <1>4 DEF Confirm, CleanUp, RemoveFails, Goto, Return, Saving
<1>5. ASSUME NEW b \in Apps, Leave(b) PROVE FALSE
  BY <1>1, <1>5 DEF Leave, Forget, Saving
<1>6. ~LosePower /\ ~WriteBack /\ ~UNCHANGED vars
  BY <1>1 DEF LosePower, WriteBack, Forget, vars, Saving
<1>7. QED
  BY <1>2, <1>3, <1>4, <1>5, <1>6 DEF Next

\* save_language(): whichever call fails, and after a success, the temporary file has
\* been renamed or removed when it returns, unless remove() itself has failed.
THEOREM SavesLeaveNoTemporary == Spec => SaveLeavesNoTemporary
<1>1. ASSUME StoreInv, [Next]_vars
      PROVE  \A a \in Apps :
                /\ pc[a] \in (Saving \ {"create"}) \cup {"done"}
                /\ pc'[a] = "idle" /\ temp'[a] # "none"
                => RemoveFails(a)
  <2>1. SUFFICES ASSUME NEW a \in Apps, pc[a] \in (Saving \ {"create"}) \cup {"done"},
                        pc'[a] = "idle", ~RemoveFails(a)
                 PROVE  temp'[a] = "none"
    OBVIOUS
  <2>2. CASE Confirm(a)
    BY <1>1, <2>2 DEF Confirm, StoreInv, SavesAreOrdered
  <2>3. CASE CleanUp(a)
    BY <1>1, <2>3 DEF CleanUp, StoreInv, TypeOK
  <2>4. QED
    BY <1>1, <2>1, <2>2, <2>3, WaysOut
<1>2. QED
  BY <1>1, StoreInvariant, PTL DEF Spec, SaveLeavesNoTemporary

\* A text that is taken for a key has the placeholders of the English one.
LEMMA FallbackFits ==
    ASSUME NEW code \in Languages, NEW key \in DOMAIN EnglishTexts
    PROVE  Translation(code, key, Given(key)).shown = "text"
<1> DEFINE origin == Origin(code, key)
<1>1. origin \in {code, English} /\ Catalog(origin)[key] = EnglishTexts[key]
  <2>1. CASE key \in DOMAIN Catalog(code) \ Mismatched(code)
    BY <2>1 DEF Origin, Mismatched
  <2>2. CASE key \notin DOMAIN Catalog(code) \ Mismatched(code)
    BY <2>2 DEF Origin, EnglishTexts
  <2>3. QED
    BY <2>1, <2>2
<1>2. English \in Languages
  BY EnglishIsThere DEF Languages
<1>3. origin # "none"
  BY <1>1, <1>2, NoneIsNoLanguage
<1>4. Renders(Catalog(origin)[key], Given(key))
  BY <1>1 DEF Renders, Given
<1>5. QED
  BY <1>3, <1>4 DEF Translation

\* template_for() and render(): every text of the window is shown filled in, whatever
\* the catalogs lack or have changed.
THEOREM TextsAreAlwaysReadable == Spec => []TextsAreReadable
<1>1. StoreInv => TextsAreReadable
  BY FallbackFits, UiKeysAreEnglish DEF StoreInv, TypeOK, TextsAreReadable
<1>2. QED
  BY <1>1, StoreInvariant, PTL

-----------------------------------------------------------------------------
(* SettingsStore implements AtomicSettings.                                 *)

\* Where AtomicSettings has an application.
Saver == [a \in Apps |-> IF pc[a] \in Saving THEN "saving"
                         ELSE IF pc[a] = "done" THEN "replaced" ELSE pc[a]]

\* The initial states map to initial states.
LEMMA SettingsInitRefines == Init => Settings!Init
BY DEF Init, Settings!Init, Saving

\* An application that moves from one place to another moves likewise, or stays, in
\* the abstract specification.
LEMMA SaverMoves ==
    ASSUME StoreInv, NEW a \in Apps, NEW place, Goto(a, place)
    PROVE  Saver' = [Saver EXCEPT ![a] = IF place \in Saving THEN "saving"
                                         ELSE IF place = "done" THEN "replaced" ELSE place]
BY DEF StoreInv, TypeOK, Goto, Saver, Saving

\* The variables of AtomicSettings keep their values where nothing it sees changes.
LEMMA SettingsStutter ==
    ASSUME UNCHANGED <<file, onDisk, choice, notice>>, UNCHANGED Saver
    PROVE  UNCHANGED Settings!vars
BY DEF Settings!vars, Saver

\* Every step maps to a step of AtomicSettings or to none.
LEMMA SettingsStepRefines ==
    StoreInv /\ [Next]_vars => [Settings!Next]_Settings!vars
<1>1. SUFFICES ASSUME StoreInv, [Next]_vars PROVE [Settings!Next]_Settings!vars
  OBVIOUS
<1> USE DEF Saver, Saving
<1>2. ASSUME NEW a \in Apps, Start(a) PROVE Settings!Open(a)
  <2>1. Saver[a] = "off" /\ Saver' = [Saver EXCEPT ![a] = "idle"]
    BY <1>1, <1>2 DEF Start, StoreInv, TypeOK
  <2>2. QED
    BY <1>2, <2>1 DEF Start, diskVars, Settings!Open, Settings!Move
<1>3. ASSUME NEW a \in Apps, Choose(a) PROVE Settings!Begin(a) \/ Settings!Refuse(a)
  <2>1. Saver[a] = "idle"
    BY <1>3 DEF Choose
  <2>2. PICK code \in Languages :
            IF code \in SafeCodes
              THEN /\ Goto(a, "create")
                   /\ choice' = [choice EXCEPT ![a] = code]
                   /\ UNCHANGED notice
              ELSE Return(a, "failed")
    BY <1>3 DEF Choose
  <2>3. CASE code \in SafeCodes
    <3>1. Saver' = [Saver EXCEPT ![a] = "saving"]
      BY <1>1, <2>2, <2>3, SaverMoves
    <3>2. QED
      BY <1>3, <2>1, <2>2, <2>3, <3>1 DEF Choose, diskVars, Settings!Begin, Settings!Move
  <2>4. CASE code \notin SafeCodes
    <3>1. Saver' = [Saver EXCEPT ![a] = "idle"]
      BY <1>1, <2>2, <2>4, SaverMoves DEF Return
    <3>2. Saver' = Saver
      BY <2>1, <3>1
    <3>3. QED
      BY <1>3, <2>1, <2>2, <2>4, <3>2
         DEF Choose, Return, diskVars, Settings!Refuse, Settings!Answer
  <2>5. QED
    BY <2>3, <2>4
<1>4. ASSUME NEW a \in Apps, CreateTemporary(a)
      PROVE  Settings!Refuse(a) \/ UNCHANGED Settings!vars
  <2>1. Saver[a] = "saving"
    BY <1>4 DEF CreateTemporary
  <2>2. CASE Goto(a, "write") /\ UNCHANGED <<choice, notice>>
    <3>1. UNCHANGED Saver
      <4>1. Saver' = [Saver EXCEPT ![a] = "saving"]
        BY <1>1, <2>2, SaverMoves
      <4>2. QED
        BY <2>1, <4>1
    <3>2. QED
      BY <1>4, <2>2, <3>1, SettingsStutter DEF CreateTemporary, diskVars
  <2>3. CASE Return(a, "failed")
    <3>1. Saver' = [Saver EXCEPT ![a] = "idle"]
      BY <1>1, <2>3, SaverMoves DEF Return
    <3>2. QED
      BY <1>4, <2>1, <2>3, <3>1 DEF CreateTemporary, Return, diskVars, Settings!Refuse,
         Settings!Answer, Settings!Move
  <2>4. QED
    BY <1>4, <2>2, <2>3 DEF CreateTemporary
<1>5. ASSUME NEW a \in Apps, Write(a) \/ Sync(a) \/ Close(a) \/ Fail(a)
      PROVE  UNCHANGED Settings!vars
  <2>1. /\ pc[a] \in Saving /\ UNCHANGED <<file, onDisk, choice, notice>>
        /\ \E place \in Saving : Goto(a, place)
    BY <1>5 DEF Write, Sync, Close, Fail, diskVars
  <2>2. UNCHANGED Saver
    <3>1. PICK place \in Saving : Goto(a, place)
      BY <2>1
    <3>2. Saver' = [Saver EXCEPT ![a] = "saving"]
      BY <1>1, <3>1, SaverMoves
    <3>3. QED
      BY <2>1, <3>2
  <2>3. QED
    BY <2>1, <2>2, SettingsStutter
<1>6. ASSUME NEW a \in Apps, Rename(a) PROVE Settings!Replace(a)
  <2>1. Saver[a] = "saving" /\ Saver' = [Saver EXCEPT ![a] = "replaced"]
    BY <1>1, <1>6, SaverMoves DEF Rename
  <2>2. temp[a] = "synced"
    BY <1>1, <1>6 DEF Rename, StoreInv, SavesAreOrdered
  <2>3. QED
    BY <1>6, <2>1, <2>2 DEF Rename, Settings!Replace, Settings!Move
<1>7. ASSUME NEW a \in Apps, Confirm(a) PROVE Settings!Confirm(a)
  <2>1. Saver[a] = "replaced" /\ Saver' = [Saver EXCEPT ![a] = "idle"]
    BY <1>1, <1>7, SaverMoves DEF Confirm, Return
  <2>2. QED
    BY <1>7, <2>1 DEF Confirm, Return, Settings!Confirm, Settings!Answer, Settings!Move
<1>8. ASSUME NEW a \in Apps, CleanUp(a) \/ RemoveFails(a) PROVE Settings!Refuse(a)
  <2>1. Saver[a] = "saving" /\ Saver' = [Saver EXCEPT ![a] = "idle"]
    BY <1>1, <1>8, SaverMoves DEF CleanUp, RemoveFails, Return
  <2>2. QED
    BY <1>8, <2>1 DEF CleanUp, RemoveFails, Return, diskVars, Settings!Refuse, Settings!Answer,
       Settings!Move
<1>9. ASSUME NEW a \in Apps, Leave(a) PROVE Settings!Vanish(a)
  <2>1. Saver' = [Saver EXCEPT ![a] = "off"]
    BY <1>9 DEF Leave, Forget
  <2>2. /\ notice' = [notice EXCEPT ![a] = "none"]
        /\ choice' = [choice EXCEPT ![a] = NoCode]
    BY <1>1, <1>9 DEF Leave, Forget, StoreInv, TypeOK
  <2>3. QED
    BY <1>9, <2>1, <2>2 DEF Leave, diskVars, Settings!Vanish
<1>10. CASE WriteBack
  BY <1>10 DEF WriteBack, Settings!Next, Settings!Settle
<1>11. CASE LosePower
  <2>1. /\ Saver' = [a \in Apps |-> "off"]
        /\ notice' = [a \in Apps |-> "none"] /\ choice' = [a \in Apps |-> NoCode]
    BY <1>11 DEF LosePower, Forget
  <2>2. Settings!LosePower
    BY <1>11, <2>1 DEF LosePower, Settings!LosePower
  <2>3. QED
    BY <2>2 DEF Settings!Next
<1>12. CASE UNCHANGED vars
  BY <1>12 DEF vars, Settings!vars
<1>13. QED
  BY <1>1, <1>2, <1>3, <1>4, <1>5, <1>6, <1>7, <1>8, <1>9, <1>10, <1>11, <1>12
     DEF Next, Settings!Next

\* save_language(), whichever of its calls fail and whenever an application or the
\* machine stops: the file is replaced as a whole or left alone, and the notice tells
\* which.
THEOREM SettingsRefinement == Spec => SettingsSpec
BY SettingsInitRefines, SettingsStepRefines, StoreInvariant, PTL
   DEF Spec, SettingsSpec, Settings!Spec
-----------------------------------------------------------------------------
(* The promise of the notice "restart to apply".                            *)

\* What is being saved is a language the user was offered; a promise that stands is
\* what the file holds.
ChoicesAreLanguages == \A a \in Apps : choice[a] \in Languages \cup {NoCode}
PromiseStands == promised # NoCode => promised = file /\ promised \in Languages

PromiseInv == ChoicesAreLanguages /\ PromiseStands

\* Choices are made in the list of languages, and the promise goes with the file.
LEMMA PromiseStep == StoreInv /\ PromiseInv /\ [Next]_vars => PromiseInv'
<1>1. SUFFICES ASSUME StoreInv, PromiseInv, [Next]_vars PROVE PromiseInv'
  OBVIOUS
<1> USE DEF PromiseInv, ChoicesAreLanguages, PromiseStands
<1>2. choice \in [Apps -> SafeCodes \cup {NoCode}]
  BY <1>1 DEF StoreInv, TypeOK
<1>3. ASSUME NEW a \in Apps, Choose(a) PROVE PromiseInv'
  BY <1>1, <1>2, <1>3 DEF Choose, Goto, Return, diskVars
<1>4. ASSUME NEW a \in Apps, CreateTemporary(a) \/ CleanUp(a) \/ RemoveFails(a)
      PROVE  PromiseInv'
  BY <1>1, <1>2, <1>4 DEF CreateTemporary, CleanUp, RemoveFails, Goto, Return, diskVars, runVars
<1>5. ASSUME NEW a \in Apps, Start(a) \/ Write(a) \/ Sync(a) \/ Close(a) \/ Fail(a)
      PROVE  PromiseInv'
  BY <1>1, <1>5 DEF Start, Write, Sync, Close, Fail, diskVars
<1>6. ASSUME NEW a \in Apps, Rename(a) PROVE PromiseInv'
  BY <1>1, <1>6 DEF Rename
<1>7. ASSUME NEW a \in Apps, Confirm(a) PROVE PromiseInv'
  <2>1. choice[a] \in SafeCodes /\ choice[a] \in Languages
    BY <1>1, <1>7 DEF StoreInv, SavesAreOrdered, Confirm
  <2>2. QED
    BY <1>1, <1>2, <1>7, <2>1 DEF Confirm, Return
<1>8. ASSUME NEW ended \in SUBSET Apps, Forget(ended) PROVE ChoicesAreLanguages'
  BY <1>1, <1>2, <1>8 DEF Forget
<1>9. ASSUME NEW a \in Apps, Leave(a) PROVE PromiseInv'
  BY <1>1, <1>8, <1>9 DEF Leave, diskVars
<1>10. CASE WriteBack
  BY <1>1, <1>10 DEF WriteBack
<1>11. CASE LosePower
  BY <1>1, <1>8, <1>11 DEF LosePower
<1>12. CASE UNCHANGED vars
  BY <1>1, <1>12 DEF vars
<1>13. QED
  BY <1>1, <1>3, <1>4, <1>5, <1>6, <1>7, <1>9, <1>10, <1>11, <1>12 DEF Next

\* Of all steps only Start takes an application from "off" to "idle".
LEMMA OnlyStartStarts ==
    ASSUME StoreInv, [Next]_vars, NEW a \in Apps, pc[a] = "off", pc'[a] = "idle"
    PROVE  Start(a)
<1>1. pc \in [Apps -> {"off", "idle", "done"} \cup Saving]
  BY DEF StoreInv, TypeOK
<1>2. ASSUME NEW b \in Apps,
             Choose(b) \/ CreateTemporary(b) \/ Write(b) \/ Sync(b) \/ Close(b) \/ Rename(b)
             \/ Confirm(b) \/ Fail(b) \/ CleanUp(b) \/ RemoveFails(b)
      PROVE  FALSE
  BY <1>1, <1>2 DEF Choose, CreateTemporary, Write, Sync, Close, Rename, Confirm, Fail,
                    CleanUp, RemoveFails, Goto, Return
<1>3. ASSUME NEW b \in Apps, Start(b) PROVE Start(a)
  BY <1>1, <1>3 DEF Start
<1>4. ASSUME NEW b \in Apps, Leave(b) PROVE FALSE
  BY <1>1, <1>4 DEF Leave, Forget
<1>5. ~LosePower /\ ~WriteBack /\ ~UNCHANGED vars
  BY <1>1 DEF LosePower, WriteBack, Forget, vars
<1>6. QED
  BY <1>2, <1>3, <1>4, <1>5 DEF Next

\* save_language() and load_language(): "restart to apply" is kept, by every
\* application that is started while nothing has come in between.
THEOREM RestartsApply == Spec => RestartApplies
<1>1. Init => PromiseInv
  BY DEF Init, PromiseInv, ChoicesAreLanguages, PromiseStands
<1>2. ASSUME StoreInv, PromiseInv, [Next]_vars
      PROVE  \A a \in Apps : pc[a] = "off" /\ pc'[a] = "idle" /\ promised # NoCode
                => language'[a] = promised \/ warned'[a]
  <2>1. SUFFICES ASSUME NEW a \in Apps, pc[a] = "off", pc'[a] = "idle", promised # NoCode
                 PROVE  language'[a] = promised \/ warned'[a]
    OBVIOUS
  <2>2. Start(a)
    BY <1>2, <2>1, OnlyStartStarts
  <2>3. PICK readable \in BOOLEAN :
            /\ language' = [language EXCEPT ![a] = Selected(LoadLanguage(file, readable).code)]
            /\ warned' = [warned EXCEPT ![a] = LoadLanguage(file, readable).warned]
    BY <2>2, Zenon DEF Start
  <2>4. language \in [Apps -> Languages] /\ warned \in [Apps -> BOOLEAN]
    BY <1>2 DEF StoreInv, TypeOK
  <2>5. /\ language'[a] = Selected(LoadLanguage(file, readable).code)
        /\ warned'[a] = LoadLanguage(file, readable).warned
    BY <2>1, <2>3, <2>4, Zenon
  <2>6. file = promised /\ promised \in Languages /\ promised \in SafeCodes
    BY <1>2, <2>1 DEF PromiseInv, PromiseStands, StoreInv, TypeOK
  <2>7. CASE readable
    <3>1. LoadLanguage(file, readable).code = promised
      BY <2>6, <2>7 DEF LoadLanguage
    <3>2. QED
      BY <2>5, <2>6, <3>1 DEF Selected
  <2>8. CASE ~readable
    <3>1. LoadLanguage(file, readable).warned
      BY <2>8, Zenon DEF LoadLanguage
    <3>2. QED
      BY <2>5, <3>1, Zenon
  <2>9. QED
    BY <2>7, <2>8
<1>3. QED
  BY <1>1, <1>2, PromiseStep, StoreInvariant, PTL DEF Spec, RestartApplies
=============================================================================
