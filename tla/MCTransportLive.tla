--------------------------- MODULE MCTransportLive ---------------------------
(***************************************************************************)
(* Transport with every fault, remembering whether one has happened.       *)
(***************************************************************************)
EXTENDS Transport

VARIABLE disturbed  \* history: the network or a machine has not done its part

Undisturbed == INSTANCE Transport WITH Faults <- {}

MCInit == Init /\ disturbed = FALSE

MCNext ==
    /\ Next
    /\ disturbed' = (disturbed \/ ~Undisturbed!Next)

MCSpec == MCInit /\ [][MCNext]_<<vars, disturbed>> /\ Fairness

\* NothingLeftBehind of the behaviours without a fault.
TidyUnlessDisturbed == ~disturbed => NothingLeftBehind
=============================================================================
