------------------------------- MODULE MCFleet -------------------------------
(***************************************************************************)
(* Instances of Fleet for TLC: a management cluster c1 and a fleet cluster *)
(* c2, which becomes the management cluster of those that start while the  *)
(* file points there; lost is not in the file.                             *)
(* A history sticks to one of the Habits.                                  *)
(***************************************************************************)
EXTENDS Fleet

CONSTANTS p1, p2, c1, c2, lost, a1, a2,
          Habits   \* a set of sets of command lines

VARIABLE habit

Fleet(c, s) == [op |-> "fleet", context |-> c, account |-> a1, create |-> TRUE,
                satoken |-> s]
Generates(k, create, s) == [op |-> "generate", context |-> c1, account |-> k,
                            create |-> create, satoken |-> s]

Generators == {Generates(a1, TRUE, TRUE), Generates(a1, FALSE, FALSE),
               Generates(a2, TRUE, FALSE), Generates(a2, FALSE, TRUE)}
Fleets == {{Fleet(lost, FALSE)},
           {Fleet(c2, FALSE), Generates(a2, FALSE, FALSE)}}
AllLines == UNION Fleets \cup Generators

EveryKind == Fleets \cup {Generators}
OnlyGenerators == {Generators}
OneNamespace == [k \in Accounts |-> a1]

MCInit == Init /\ current = c1 /\ habit \in Habits
MCNext == /\ Next /\ UNCHANGED habit
          /\ \A p \in Procs : Running(p)' => proc'[p].cmd \in habit
MCSpec == MCInit /\ [][MCNext]_<<vars, habit>>
MCFairSpec == /\ MCSpec
              /\ WF_vars(TokenController)
              /\ \A p \in Procs : WF_vars(Step(p))
=============================================================================
