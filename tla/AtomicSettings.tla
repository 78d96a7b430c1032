--------------------------- MODULE AtomicSettings ---------------------------
(***************************************************************************)
(* What SettingsStore promises of the settings file to any number of       *)
(* running applications: a save replaces the file as a whole or leaves it  *)
(* alone, the notice tells which, and neither a crash nor a power loss     *)
(* leaves anything that nobody has saved.                                  *)
(***************************************************************************)
CONSTANTS
    Apps,     \* applications that may run, one after the other or at once
    Codes,    \* language codes
    Initial,  \* what the file may be before any of them has run
    NoCode    \* in place of a code

VARIABLES
    file,     \* the settings: a language code, or one of Initial
    recent,   \* what a power loss may bring back
    saver,    \* of each application: "off", "idle", "saving", "replaced"
    choice,   \* the code that it saves
    notice    \* what it says under the list of languages

vars == <<file, recent, saver, choice, notice>>

Init ==
    /\ file \in Initial /\ recent = {file}
    /\ saver = [a \in Apps |-> "off"]
    /\ choice = [a \in Apps |-> NoCode]
    /\ notice = [a \in Apps |-> "none"]

Move(a, from, to) == saver[a] = from /\ saver' = [saver EXCEPT ![a] = to]

Open(a) ==
    /\ Move(a, "off", "idle")
    /\ notice' = [notice EXCEPT ![a] = "none"]
    /\ UNCHANGED <<file, recent, choice>>

Begin(a) ==
    /\ Move(a, "idle", "saving")
    /\ \E code \in Codes : choice' = [choice EXCEPT ![a] = code]
    /\ UNCHANGED <<file, recent, notice>>

Replace(a) ==
    /\ Move(a, "saving", "replaced")
    /\ file' = choice[a]
    /\ recent' = recent \cup {choice[a]}
    /\ UNCHANGED <<choice, notice>>

Answer(a, text) ==
    /\ notice' = [notice EXCEPT ![a] = text]
    /\ choice' = [choice EXCEPT ![a] = NoCode]

Confirm(a) ==
    /\ Move(a, "replaced", "idle")
    /\ Answer(a, "restart")
    /\ UNCHANGED <<file, recent>>

\* A save that fails, or is refused at once, has not replaced the file.
Refuse(a) ==
    /\ Move(a, "saving", "idle") \/ (saver[a] = "idle" /\ UNCHANGED saver)
    /\ Answer(a, "failed")
    /\ UNCHANGED <<file, recent>>

\* The application is closed or killed, in a save or not.
Vanish(a) ==
    /\ saver' = [saver EXCEPT ![a] = "off"]
    /\ notice' = [notice EXCEPT ![a] = "none"]
    /\ choice' = [choice EXCEPT ![a] = NoCode]
    /\ UNCHANGED <<file, recent>>

\* The system has written everything back.
Settle == recent' = {file} /\ UNCHANGED <<file, saver, choice, notice>>

LosePower ==
    /\ file' \in recent /\ recent' = {file'}
    /\ saver' = [a \in Apps |-> "off"]
    /\ notice' = [a \in Apps |-> "none"]
    /\ choice' = [a \in Apps |-> NoCode]

Next ==
    \/ \E a \in Apps : \/ Open(a) \/ Begin(a) \/ Replace(a) \/ Confirm(a)
                       \/ Refuse(a) \/ Vanish(a)
    \/ Settle
    \/ LosePower

Spec == Init /\ [][Next]_vars
=============================================================================
