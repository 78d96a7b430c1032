----------------------------- MODULE MCProgress -----------------------------
(***************************************************************************)
(* What becomes of a child's output: ProgressParser with the fields of     *)
(* scp's records, and ChildOutput with a prompt of two letters.            *)
(***************************************************************************)
EXTENDS ProgressParser, ChildOutput, TLC

Field(kind, value) == [kind |-> kind, value |-> value]

\* For a file of two bytes: "50%", "100%", one that only looks like a percentage,
\* "1B" or "1B/s", a number of bytes rounded up, "00:01".
ScpFields == {Field("percent", 50), Field("percent", 100), Field("percent", 101),
              Field("scaled", 1), Field("scaled", 3), Field("clock", 1)}

LowerCase == "P" :> "p" @@ [character \in {"p", "w", "x"} |-> character]
ShortPrompt == <<"p", "w">>
ShortNotice == <<"x", "x">>

\* The two share nothing but the pieces, which each gets whole, so the properties,
\* each of them about one, are checked with the other at rest, in one state.
MCInit == Init /\ OutputInit

MCNext ==
    \/ Next /\ OutputInit /\ needed /\ UNCHANGED outputVars
    \/ OutputNext /\ Init /\ UNCHANGED vars

\* With the fairness of FairSpec.
MCSpec ==
    /\ MCInit /\ [][MCNext]_<<vars, outputVars>>
    /\ WF_vars(Advance /\ OutputInit /\ needed /\ UNCHANGED outputVars)
    /\ WF_vars(Tick /\ OutputInit /\ needed /\ UNCHANGED outputVars)
=============================================================================
