------------------------------ MODULE ChildOutput ------------------------------
(***************************************************************************)
(* What run_process() does with the output of a child on its terminal,     *)
(* whatever the pieces it reads it in: the beginning is kept as the        *)
(* diagnostic, and the end is searched for the prompt for the password.    *)
(* ProcessRunner has the loop around it, where a prompt is one event.      *)
(*                                                                         *)
(* Bound: MaxOutput, the length of what the child writes.                  *)
(***************************************************************************)
EXTENDS Sequences, Integers

CONSTANTS
    Characters,
    Lower,           \* a function: a character in lower case
    Prompt,          \* "password:"
    Notice,          \* what the diagnostic says of a password that was not taken
    MaxDiagnostic,   \* kMaximumDiagnosticBytes
    MaxPromptTail,   \* kMaximumPromptTailBytes
    BufferSize,      \* of the buffer that is read into
    MaxOutput

ASSUME CharactersHaveCase == Lower \in [Characters -> Characters]
ASSUME TextsAreText ==
    /\ Prompt \in Seq(Characters) \ {<<>>} /\ Notice \in Seq(Characters)
    /\ \A i \in DOMAIN Prompt : Lower[Prompt[i]] = Prompt[i]
ASSUME OutputSizesAreNumbers ==
    /\ MaxDiagnostic \in Nat /\ BufferSize \in Nat \ {0} /\ MaxOutput \in Nat
    /\ MaxPromptTail \in Nat /\ Len(Prompt) <= MaxPromptTail

VARIABLES
    terminal,        \* what the child has written and nobody has read
    diagnostic,      \* result.diagnostic
    promptTail,      \* prompt_tail
    passwordSent,    \* password_sent
    needed,          \* the call has a password
    read,            \* history: what has been read
    transcript,      \* history: the same, with the notice where it was added
    answers          \* history: how often the password was written

outputVars ==
    <<terminal, diagnostic, promptTail, passwordSent, needed, read, transcript, answers>>

Least(m, n) == IF m < n THEN m ELSE n
FirstOf(text, n) == SubSeq(text, 1, Least(n, Len(text)))
LastOf(text, n) == SubSeq(text, Len(text) - Least(n, Len(text)) + 1, Len(text))
Lowered(text) == [i \in DOMAIN text |-> Lower[text[i]]]

\* prompt_tail.find("password:") finds it.
Asks(text) ==
    \E i \in 0..Len(text) - Len(Prompt) : SubSeq(text, i + 1, i + Len(Prompt)) = Prompt

OutputInit ==
    /\ terminal = <<>> /\ diagnostic = <<>> /\ promptTail = <<>>
    /\ needed \in BOOLEAN /\ passwordSent = ~needed
    /\ read = <<>> /\ transcript = <<>> /\ answers = 0

\* The child is free to write what it likes.
ChildWrites ==
    /\ Len(read) + Len(terminal) < MaxOutput
    /\ \E character \in Characters : terminal' = Append(terminal, character)
    /\ UNCHANGED <<diagnostic, promptTail, passwordSent, needed, read, transcript, answers>>

\* append_bounded()
AppendBounded(output, chunk) == output \o FirstOf(chunk, MaxDiagnostic - Len(output))

\* Mutant: the tail is one of the piece.
AppendPromptPiece(tail, chunk) == LastOf(Lowered(chunk), MaxPromptTail)

\* append_prompt_tail()
AppendPromptTail(tail, chunk) == LastOf(tail \o Lowered(chunk), MaxPromptTail)

\* The texts are added to the diagnostic, one after the other.
Note(chunk) ==
    /\ diagnostic' = AppendBounded(diagnostic, chunk)
    /\ transcript' = transcript \o chunk
NoteUnsent(chunk) ==
    /\ diagnostic' = AppendBounded(AppendBounded(diagnostic, chunk), Notice)
    /\ transcript' = (transcript \o chunk) \o Notice

\* handle_output(): the password is written when the prompt is found, once; the
\* terminal may not take it.
HandleOutput(chunk) ==
    IF passwordSent THEN Note(chunk) /\ UNCHANGED <<promptTail, passwordSent, answers>>
    ELSE /\ promptTail' = AppendPromptTail(promptTail, chunk)
         /\ IF Asks(promptTail')
              THEN /\ passwordSent' = TRUE /\ answers' = answers + 1
                   /\ Note(chunk) \/ NoteUnsent(chunk)
              ELSE Note(chunk) /\ UNCHANGED <<passwordSent, answers>>

\* read(), in the loop or when the child has been reaped, returns what is there, or
\* the first of it.
Read ==
    \E n \in 1..Least(BufferSize, Len(terminal)) :
        LET chunk == FirstOf(terminal, n)
        IN  /\ HandleOutput(chunk)
            /\ terminal' = SubSeq(terminal, n + 1, Len(terminal))
            /\ read' = read \o chunk
            /\ UNCHANGED needed

OutputNext == ChildWrites \/ Read

OutputSpec == OutputInit /\ [][OutputNext]_outputVars

-----------------------------------------------------------------------------
(* Properties.                                                              *)

\* The variables have their types, and what is kept has its size: the subtraction in
\* append_bounded() does not wrap.
OutputTypeOK ==
    /\ terminal \in Seq(Characters) /\ read \in Seq(Characters)
    /\ transcript \in Seq(Characters)
    /\ diagnostic \in Seq(Characters) /\ Len(diagnostic) <= MaxDiagnostic
    /\ promptTail \in Seq(Characters) /\ Len(promptTail) <= MaxPromptTail
    /\ passwordSent \in BOOLEAN /\ needed \in BOOLEAN
    /\ answers \in Nat

\* The diagnostic, which the classification of a failure is read from, is the
\* beginning of what the child wrote, with nothing missing before its end.
DiagnosticIsTheBeginning == diagnostic = FirstOf(transcript, MaxDiagnostic)

\* A child that has asked for the password, in any case of letters and in any pieces,
\* and has written nothing since, has been given it; and it is given at most once, to
\* a child that has asked for it: not into later output.
EndsInPrompt(text) ==
    /\ Len(Prompt) <= Len(text)
    /\ SubSeq(text, Len(text) - Len(Prompt) + 1, Len(text)) = Prompt
PasswordIsGivenOnce ==
    /\ needed /\ EndsInPrompt(Lowered(read)) => answers = 1
    /\ answers # 0 => answers = 1 /\ needed /\ Asks(Lowered(read))
=============================================================================
