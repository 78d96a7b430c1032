---------------------------- MODULE SettingsStore ----------------------------
(***************************************************************************)
(* The language setting: SettingsStore (config.cpp) with what run_gui()    *)
(* and the Settings page do with it.  Applications that run at the same    *)
(* time share one settings file; each saves it through a temporary file of *)
(* its own, and each system call of a save may fail.  An application may   *)
(* be killed, and the machine may lose its power, between any two steps.   *)
(*                                                                         *)
(* The file system is modelled as the code relies on it: rename() replaces *)
(* the name in one step, but what a power loss brings back is any of the   *)
(* contents the name has had since the directory was last written back,    *)
(* and a file whose data have not been synced may come back torn.          *)
(***************************************************************************)
EXTENDS Translator

CONSTANTS
    Apps,       \* running applications
    SafeCodes,  \* codes that valid_language_code() accepts
    UiKeys,     \* the keys translated while the window is built
    NoCode      \* in place of a code

\* The settings file when it is not there, and with contents load refuses:
\* somebody else's, or a half of what an application has written.
Absent  == "absent"
Foreign == "foreign"
Torn    == "torn"

ASSUME EnglishIsSafe == English \in SafeCodes
ASSUME UiKeysAreEnglish == UiKeys \subseteq DOMAIN EnglishTexts
ASSUME CodesAreCodes ==
    {Absent, Foreign, Torn, NoCode} \cap (SafeCodes \cup Languages) = {}

Initial  == SafeCodes \cup {Absent, Foreign}
Contents == Initial \cup {Torn}

VARIABLES
    file,      \* what the settings path names
    onDisk,    \* what it may name after a power loss
    pc,        \* where each application is
    choice,    \* the code it saves
    temp,      \* its last temporary file: "none", "part", "whole", "synced"
    notice,    \* settings_notice
    language,  \* the language its texts are in
    warned,    \* warnings_ of its SettingsStore is not empty
    page,      \* its Settings page: "none", "built" or "broken"
    promised   \* history: the code a restart must bring, if nothing intervenes

vars == <<file, onDisk, pc, choice, temp, notice, language, warned, page, promised>>
diskVars == <<file, onDisk, promised>>
runVars == <<language, warned, page>>

Init ==
    /\ file \in Initial /\ onDisk = {file}
    /\ pc = [a \in Apps |-> "off"]
    /\ choice = [a \in Apps |-> NoCode]
    /\ temp = [a \in Apps |-> "none"]
    /\ notice = [a \in Apps |-> "none"]
    /\ language = [a \in Apps |-> English]
    /\ warned = [a \in Apps |-> FALSE]
    /\ page = [a \in Apps |-> "none"]
    /\ promised = NoCode

-----------------------------------------------------------------------------
(* Starting: run_gui().                                                     *)

\* Mutant: a code is taken only if it is English, and no other is warned of.
LoadEnglish(contents, readable) ==
    [code |-> English, warned |-> ~readable \/ contents \in {Foreign, Torn}]

\* load_language(): English where there is no file; English and a warning where
\* the path cannot be examined or read, or its contents are refused.
LoadLanguage(contents, readable) ==
    LET usable == readable /\ contents \in SafeCodes
    IN  [code |-> IF usable THEN contents ELSE English,
         warned |-> ~usable /\ ~(readable /\ contents = Absent)]

\* What translate() is given for a key the application uses.
Given(key) == EnglishTexts[key]

\* The warnings when the Settings page begins to list them.
Listed(wanted) ==
    FirstWarnings(wanted) \cup
    UNION {Translation(Selected(wanted), key, Given(key)).warnings : key \in UiKeys}

\* The page translates each warning while it walks the list of warnings that
\* translate() appends to.  The text of a warning has the warning's code as key.
AddedWhileListed(wanted) ==
    UNION {Translation(Selected(wanted), w.code, Given(w.code)).warnings :
           w \in Listed(wanted)} \ Listed(wanted)

\* An append moves the list away from under the loop, or does not.
Start(a) ==
    /\ pc[a] = "off"
    /\ pc' = [pc EXCEPT ![a] = "idle"]
    /\ \E readable \in BOOLEAN :
          LET loaded == LoadLanguage(file, readable)
          IN  /\ language' = [language EXCEPT ![a] = Selected(loaded.code)]
              /\ warned' = [warned EXCEPT ![a] = loaded.warned]
              /\ \E outcome \in IF AddedWhileListed(loaded.code) = {}
                                  THEN {"built"} ELSE {"built", "broken"} :
                    page' = [page EXCEPT ![a] = outcome]
    /\ notice' = [notice EXCEPT ![a] = "none"]
    /\ UNCHANGED <<diskVars, choice, temp>>

-----------------------------------------------------------------------------
(* Saving: save_language(), called by the list of languages.                *)

Goto(a, place) == pc' = [pc EXCEPT ![a] = place]

Return(a, text) ==
    /\ Goto(a, "idle")
    /\ choice' = [choice EXCEPT ![a] = NoCode]
    /\ notice' = [notice EXCEPT ![a] = text]

\* Mutant: the code is not checked.
ChooseAny(a) ==
    /\ pc[a] = "idle"
    /\ Goto(a, "create")
    /\ \E code \in Languages : choice' = [choice EXCEPT ![a] = code]
    /\ warned' = [warned EXCEPT ![a] = FALSE]
    /\ UNCHANGED <<diskVars, temp, notice, language, page>>

\* The user picks one of languages(); a catalog's code need not be a code that
\* the store accepts.
Choose(a) ==
    /\ pc[a] = "idle"
    /\ \E code \in Languages :
          IF code \in SafeCodes
            THEN /\ Goto(a, "create")
                 /\ choice' = [choice EXCEPT ![a] = code]
                 /\ warned' = [warned EXCEPT ![a] = FALSE]
                 /\ UNCHANGED notice
            ELSE /\ Return(a, "failed")
                 /\ UNCHANGED warned
    /\ UNCHANGED <<diskVars, temp, language, page>>

\* create_directories() and mkstemp().  The name is a new one: a file that an
\* earlier save has left stays where it is and is not followed any further.
CreateTemporary(a) ==
    /\ pc[a] = "create"
    /\ \/ /\ Goto(a, "write")
          /\ temp' = [temp EXCEPT ![a] = "part"]
          /\ UNCHANGED <<choice, notice>>
       \/ /\ Return(a, "failed")
          /\ UNCHANGED temp
    /\ UNCHANGED <<diskVars, runVars>>

\* The turn of the loop that writes the last bytes; one that is interrupted or
\* writes less changes nothing here.
Write(a) ==
    /\ pc[a] = "write"
    /\ temp' = [temp EXCEPT ![a] = "whole"]
    /\ Goto(a, "sync")
    /\ UNCHANGED <<diskVars, choice, notice, runVars>>

\* Mutant: fsync() is left out.
NoSync(a) ==
    /\ pc[a] = "sync"
    /\ Goto(a, "close")
    /\ UNCHANGED <<diskVars, choice, temp, notice, runVars>>

Sync(a) ==
    /\ pc[a] = "sync"
    /\ temp' = [temp EXCEPT ![a] = "synced"]
    /\ Goto(a, "close")
    /\ UNCHANGED <<diskVars, choice, notice, runVars>>

Close(a) ==
    /\ pc[a] = "close"
    /\ Goto(a, "rename")
    /\ UNCHANGED <<diskVars, choice, temp, notice, runVars>>

\* The name changes in one step; what is not synced may be torn later.
Rename(a) ==
    /\ pc[a] = "rename"
    /\ file' = IF temp[a] = "part" THEN Torn ELSE choice[a]
    /\ onDisk' = onDisk \cup {file'} \cup (IF temp[a] = "synced" THEN {} ELSE {Torn})
    /\ temp' = [temp EXCEPT ![a] = "none"]
    /\ promised' = NoCode
    /\ Goto(a, "done")
    /\ UNCHANGED <<choice, notice, runVars>>

\* save_language() has returned.
Confirm(a) ==
    /\ pc[a] = "done"
    /\ Return(a, "restart")
    /\ promised' = IF file = choice[a] THEN file ELSE NoCode
    /\ UNCHANGED <<file, onDisk, temp, runVars>>

\* Mutant: a rename() that fails is reported without a cleanup.
FailLate(a) ==
    /\ pc[a] \in {"write", "sync", "close", "rename"}
    /\ IF pc[a] = "rename" THEN Return(a, "failed")
       ELSE Goto(a, "cleanup") /\ UNCHANGED <<choice, notice>>
    /\ UNCHANGED <<diskVars, temp, runVars>>

\* fcntl() and write(), fsync(), close() or rename() fails.
Fail(a) ==
    /\ pc[a] \in {"write", "sync", "close", "rename"}
    /\ Goto(a, "cleanup")
    /\ UNCHANGED <<diskVars, choice, temp, notice, runVars>>

\* Mutant: the failure is swallowed.
CleanUpSilently(a) ==
    /\ pc[a] = "cleanup"
    /\ temp' = [temp EXCEPT ![a] = "none"]
    /\ Return(a, "restart")
    /\ UNCHANGED <<diskVars, runVars>>

\* cleanup(): the temporary file is closed and removed.
CleanUp(a) ==
    /\ pc[a] = "cleanup"
    /\ temp' = [temp EXCEPT ![a] = "none"]
    /\ Return(a, "failed")
    /\ UNCHANGED <<diskVars, runVars>>

\* remove() fails, its error is ignored, and the file is left where it is.
RemoveFails(a) ==
    /\ pc[a] = "cleanup"
    /\ Return(a, "failed")
    /\ UNCHANGED <<diskVars, temp, runVars>>

-----------------------------------------------------------------------------
(* The end of an application, and of the machine.                           *)

\* Nothing is left of an application's memory.
Forget(ended) ==
    /\ pc' = [a \in Apps |-> IF a \in ended THEN "off" ELSE pc[a]]
    /\ notice' = [a \in Apps |-> IF a \in ended THEN "none" ELSE notice[a]]
    /\ language' = [a \in Apps |-> IF a \in ended THEN English ELSE language[a]]
    /\ warned' = [a \in Apps |-> IF a \in ended THEN FALSE ELSE warned[a]]
    /\ page' = [a \in Apps |-> IF a \in ended THEN "none" ELSE page[a]]
    /\ choice' = [a \in Apps |-> IF a \in ended THEN NoCode ELSE choice[a]]

\* Closed, or killed; no later start looks for a temporary file.
Leave(a) ==
    /\ pc[a] # "off"
    /\ Forget({a})
    /\ UNCHANGED <<diskVars, temp>>

WriteBack ==
    /\ onDisk' = {file}
    /\ UNCHANGED <<file, pc, choice, temp, notice, runVars, promised>>

\* The name of a temporary file may not have been written back either.
LosePower ==
    /\ file' \in onDisk /\ onDisk' = {file'}
    /\ \E kept \in SUBSET Apps :
          temp' = [a \in Apps |-> IF a \in kept THEN temp[a] ELSE "none"]
    /\ promised' = NoCode
    /\ Forget(Apps)

-----------------------------------------------------------------------------

Next ==
    \/ \E a \in Apps :
          \/ Start(a) \/ Choose(a) \/ CreateTemporary(a) \/ Write(a) \/ Sync(a)
          \/ Close(a) \/ Rename(a) \/ Confirm(a) \/ Fail(a) \/ CleanUp(a) \/ RemoveFails(a)
          \/ Leave(a)
    \/ WriteBack
    \/ LosePower

Spec == Init /\ [][Next]_vars

-----------------------------------------------------------------------------
(* Properties.                                                              *)

\* Where an application is inside save_language() and has not replaced the file.
Saving == {"create", "write", "sync", "close", "rename", "cleanup"}

\* The variables have their types; an application shows one of the languages.
TypeOK ==
    /\ file \in Contents /\ onDisk \in SUBSET Contents
    /\ pc \in [Apps -> {"off", "idle", "done"} \cup Saving]
    /\ choice \in [Apps -> SafeCodes \cup {NoCode}]
    /\ temp \in [Apps -> {"none", "part", "whole", "synced"}]
    /\ notice \in [Apps -> {"none", "restart", "failed"}]
    /\ language \in [Apps -> Languages]
    /\ warned \in [Apps -> BOOLEAN]
    /\ page \in [Apps -> {"none", "built", "broken"}]
    /\ promised \in SafeCodes \cup {NoCode}

\* A save that has made a temporary file and returns, with success or after any of
\* its calls has failed, leaves the file only if remove() has failed as well.
SaveLeavesNoTemporary ==
    [][\A a \in Apps :
          /\ pc[a] \in (Saving \ {"create"}) \cup {"done"}
          /\ pc'[a] = "idle" /\ temp'[a] # "none"
          => RemoveFails(a)]_vars

\* The notice "restart to apply" is kept: unless another save or a power loss
\* comes in between, every application that starts later shows the language that
\* was chosen, or says that it could not read the settings.
RestartApplies ==
    [][\A a \in Apps : pc[a] = "off" /\ pc'[a] = "idle" /\ promised # NoCode
          => language'[a] = promised \/ warned'[a]]_vars

\* In every language a running application can be in, each text of the window is
\* shown filled in: a missing or differing text falls back to English, never to a
\* bare key or to a template with its placeholders in it.
TextsAreReadable ==
    \A a \in Apps : \A key \in UiKeys :
        Translation(language[a], key, Given(key)).shown = "text"

Settings == INSTANCE AtomicSettings WITH
    Codes <- SafeCodes,
    recent <- onDisk,
    saver <- [a \in Apps |-> IF pc[a] \in Saving THEN "saving"
                             ELSE IF pc[a] = "done" THEN "replaced" ELSE pc[a]]

\* Every step of the store is one that AtomicSettings promises, or none: whichever
\* calls fail and whenever the power is lost, the file is what some save has been
\* asked for, never a half of it, and the notice does not contradict it.
SettingsSpec == Settings!Spec
=============================================================================
