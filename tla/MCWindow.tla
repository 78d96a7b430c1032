------------------------------- MODULE MCWindow -------------------------------
(***************************************************************************)
(* Window with two pages, two tests and a few destinations.                *)
(***************************************************************************)
EXTENDS Window, TLC

\* "/./in//", and "/srv/../etc", which is refused.
TypedPaths == {<<"", ".", "in", "", "">>, <<"", "srv", "..", "etc">>}

\* "~/lib/"; and "/srv//.. ", which the transport refuses when it has taken the blank
\* away.
ConfiguredPaths == "library" :> <<"~", "lib", "">> @@ "software" :> <<"", "srv", "", ".. ">>

HomeDirectory == <<"home", "user">>

WithoutBlanks ==
    ".. " :> ".."
    @@ [part \in {"", "~", ".", "..", "in", "etc", "srv", "lib"} |-> part]

\* The Test page and the others share nothing but the thread, so the properties,
\* each of them about one side, are checked with the other side at rest.
MCNext ==
    \/ MockNext /\ UploadInit /\ UNCHANGED uploadVars
    \/ UploadNext /\ MockInit /\ UNCHANGED mockVars

MCSpec == Init /\ [][MCNext]_vars
=============================================================================
