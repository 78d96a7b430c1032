--------------------------- MODULE MCProcessRunner ---------------------------
(***************************************************************************)
(* ProcessRunner on small instances, and what a comment of run_process     *)
(* claims and its statements do not keep when the kernel gives pids out    *)
(* again.                                                                  *)
(***************************************************************************)
EXTENDS ProcessRunner

\* "Deliver final bytes only now, so a callback cannot signal a recycled process
\* identifier": taking the last output after waitpid never signals a process
\* that is not the child.
OutputSignalsTheChild == "loop" \notin hit
=============================================================================
