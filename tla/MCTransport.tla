----------------------------- MODULE MCTransport -----------------------------
(***************************************************************************)
(* Transport on small instances, and two claims of the documentation that  *)
(* the code does not keep.                                                 *)
(***************************************************************************)
EXTENDS Transport

\* README: "Abort cancels the active transfer".  An abort that is pending when
\* the commit command comes back broken makes transfer() end as aborted, as it
\* does when the upload command comes back broken.
AbortOfCommitIsReported ==
    [][pc = "commit" /\ pc' = "cleanup" /\ cancelFlag /\ code = Interrupted
         => onCleanup' = "aborted"]_vars

\* README: Abort "cleans its temporary remote file".  Once a transfer has
\* reported that it was aborted, its staging file is gone.
AbortCleansStaging == \A o \in Ops : outcome[o] = "aborted" => o \notin staged
=============================================================================
