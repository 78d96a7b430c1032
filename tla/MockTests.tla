------------------------------ MODULE MockTests ------------------------------
(***************************************************************************)
(* The Test page (ui.cpp): a run starts one timer for each configured      *)
(* test; a timer that fires posts the result, which had been drawn at the  *)
(* start, to the window's event queue.  Timers fire in any order, and      *)
(* results of different tests do not disturb each other, so the queue is a *)
(* set here.                                                               *)
(*                                                                         *)
(* Bound: MaxRuns, the number of runs in a behaviour.                      *)
(***************************************************************************)
EXTENDS Integers, FiniteSets

CONSTANTS
    Tests,    \* the configured tests
    MaxRuns   \* how far test_generation is followed

ASSUME TestsAreFinite == IsFiniteSet(Tests)
ASSUME RunsAreNumbers == MaxRuns \in Nat

VARIABLES
    testGeneration,  \* test_generation
    remaining,       \* remaining_tests; the button is there when it is 0
    rows,            \* what the row of each test says
    timers,          \* the MockEvents of the timers that run
    posted           \* those in the event queue

mockVars == <<testGeneration, remaining, rows, timers, posted>>

Result(generation, test, passes) ==
    [generation |-> generation, index |-> test, passes |-> passes]

MockInit ==
    /\ testGeneration = 0 /\ remaining = 0
    /\ rows = [t \in Tests |-> "not_run"]
    /\ timers = {} /\ posted = {}

\* plan_mock_tests(): which tests pass.  When their timers fire is left open.
Plans == [Tests -> BOOLEAN]

SetTestState(test, state) == rows' = [rows EXCEPT ![test] = state]

Outcome(event) == IF event.passes THEN "pass" ELSE "fail"

StartTimers ==
    /\ testGeneration' = testGeneration + 1
    /\ remaining' = Cardinality(Tests)
    /\ rows' = [t \in Tests |-> "running"]
    /\ \E plan \in Plans :
          timers' = timers \cup {Result(testGeneration + 1, t, plan[t]) : t \in Tests}
    /\ UNCHANGED posted

\* Mutant: a run can be started while one goes on.
RunAgain ==
    /\ Tests # {} /\ testGeneration < MaxRuns
    /\ StartTimers

\* run_mock_tests()
RunMockTests ==
    /\ remaining = 0 /\ Tests # {} /\ testGeneration < MaxRuns
    /\ StartTimers

TimerFires(event) ==
    /\ event \in timers
    /\ timers' = timers \ {event}
    /\ posted' = posted \cup {event}
    /\ UNCHANGED <<testGeneration, remaining, rows>>

\* apply_mock_result()
ApplyMockResult(event) ==
    /\ event \in posted
    /\ posted' = posted \ {event}
    /\ IF event.generation = testGeneration /\ remaining # 0
         THEN /\ SetTestState(event.index, Outcome(event))
              /\ remaining' = remaining - 1
         ELSE UNCHANGED <<rows, remaining>>
    /\ UNCHANGED <<testGeneration, timers>>

MockEnds ==
    \/ \E event \in timers : TimerFires(event)
    \/ \E event \in posted : ApplyMockResult(event)

MockNext == RunMockTests \/ MockEnds

MockSpec == MockInit /\ [][MockNext]_mockVars

-----------------------------------------------------------------------------
(* Properties.                                                              *)

MockTypeOK ==
    /\ testGeneration \in Nat /\ remaining \in Nat
    /\ rows \in [Tests -> {"not_run", "running", "pass", "fail"}]
    /\ timers \cup posted \subseteq [generation : Nat, index : Tests, passes : BOOLEAN]

Running == {t \in Tests : rows[t] = "running"}

\* The number that holds the button back is the number of rows that still say
\* "running", and each of them has exactly one result coming, of this run; results
\* of an earlier run are never on their way while one goes on.
RemainingCounts ==
    /\ remaining = Cardinality(Running)
    /\ timers \cap posted = {}
    /\ \A event \in timers \cup posted :
          event.generation = testGeneration /\ event.index \in Running
    /\ \A t \in Running : \E event \in timers \cup posted : event.index = t
    /\ \A d, e \in timers \cup posted : d.index = e.index => d = e

=============================================================================
