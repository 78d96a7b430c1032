--------------------------- MODULE AtomicDelivery ---------------------------
(***************************************************************************)
(* What ScpTransport promises about the destination path, whatever happens *)
(* to the network, the source and the abort button: the path is given once *)
(* and for all to one file, and what a transfer reports never contradicts  *)
(* it, then or later.                                                      *)
(*                                                                         *)
(* A transfer that fails or is aborted may still be delivered: its commit  *)
(* command can be running on the receiver when the connection is lost.     *)
(***************************************************************************)
EXTENDS Naturals

CONSTANT MaxOps

Ops == 1 .. MaxOps

Verdicts == {"none", "tested", "completed", "aborted", "failed",
             "source_changed", "destination_file_exists"}

\* Besides a transfer's own number, what the destination path can name.
Absent  == 0
Foreign == MaxOps + 1
Owners  == Ops \cup {Absent, Foreign}

VARIABLES
    final,    \* what the destination path names
    outcome   \* what each transfer has reported

\* The verdicts a transfer may be left with while its file can still appear.
Open == {"none", "aborted", "failed"}

Init ==
    /\ final \in {Absent, Foreign}
    /\ outcome = [o \in Ops |-> "none"]

\* The transfer's file appears under the destination path, which was free.
Publish(o) ==
    /\ final = Absent
    /\ outcome[o] \in Open
    /\ final' = o
    /\ UNCHANGED outcome

\* Another user of the receiver takes the path.
Occupy ==
    /\ final = Absent
    /\ final' = Foreign
    /\ UNCHANGED outcome

\* The verdict agrees with what the path names.
Report(o) ==
    /\ outcome[o] = "none"
    /\ UNCHANGED final
    /\ \E verdict \in Verdicts \ {"none"} :
          /\ verdict = "completed" => final = o
          /\ verdict \in {"tested", "source_changed"} => final # o
          /\ verdict = "destination_file_exists" => final \notin {Absent, o}
          /\ outcome' = [outcome EXCEPT ![o] = verdict]

Next ==
    \/ \E o \in Ops : Publish(o)
    \/ Occupy
    \/ \E o \in Ops : Report(o)

Spec == Init /\ [][Next]_<<final, outcome>>
=============================================================================
