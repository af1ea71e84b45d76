---------------------------- MODULE MCScheduler ----------------------------
(***************************************************************************)
(* Small instances of Scheduler for TLC: one or two companies with a plan  *)
(* or two, on one machine each.                                            *)
(***************************************************************************)
EXTENDS Scheduler, TLC

CONSTANTS a1, a2, c1, c2, e1

OnePlan == {1}
OneCompany == [p \in {1} |-> 1]
OneMachine == [p \in {1} |-> a1]
EveryDay == [p \in {1} |-> 1]
EveryHour == [p \in {1} |-> 1]

TwoPlans == {1, 2}
SameCompany == [p \in {1, 2} |-> 1]
OwnCompany == [p \in {1, 2} |-> p]
OwnMachine == [p \in {1, 2} |-> IF p = 1 THEN a1 ELSE a2]
SameMachine == [p \in {1, 2} |-> a1]
EachDay == [p \in {1, 2} |-> 1]
EachHour == [p \in {1, 2} |-> 1]

\* The interval of plan 1 leaves the range of dates: 9,999,999 days in the form.
FarAway == [p \in {1, 2} |-> IF p = 1 THEN LastDate + 1 ELSE 1]

RunnerSymmetry == Permutations({c1, c2})
=============================================================================
