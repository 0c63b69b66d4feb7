----------------------------- MODULE ResetOrder -----------------------------
(***************************************************************************)
(* What `sveltosctl redeploy cluster` promises of its invocations,         *)
(* whatever algorithm orders the resets: each fixes the summaries to reset *)
(* and their dependencies once, resets none if these are circular, each at *)
(* most once and never before those it depends on, and only reports        *)
(* success when all are reset.                                             *)
(***************************************************************************)
CONSTANTS Procs,  \* where the command is run
          Names   \* the ClusterSummaries that may exist

VARIABLES
    plan,     \* of each invocation: what to reset, and what that depends on
    reset,    \* of each invocation: the summaries it has reset
    outcome   \* of each invocation: "idle", "running", "ok" or "failed"

vars == <<plan, reset, outcome>>

IsPlan(deps) == /\ DOMAIN deps \subseteq Names
                /\ deps \in [DOMAIN deps -> SUBSET DOMAIN deps]
NoPlan == [n \in {} |-> {}]

Circular(deps) == \E S \in SUBSET DOMAIN deps :
                     S # {} /\ \A n \in S : deps[n] \cap S # {}

Init == /\ plan = [p \in Procs |-> NoPlan]
        /\ reset = [p \in Procs |-> {}]
        /\ outcome = [p \in Procs |-> "idle"]

Begin(p) == /\ outcome[p] # "running"
            /\ outcome' = [outcome EXCEPT ![p] = "running"]
            /\ plan' = [plan EXCEPT ![p] = NoPlan]
            /\ reset' = [reset EXCEPT ![p] = {}]

Choose(p) == /\ outcome[p] = "running" /\ plan[p] = NoPlan
             /\ IsPlan(plan'[p]) /\ plan' = [plan EXCEPT ![p] = plan'[p]]
             /\ UNCHANGED <<reset, outcome>>

Reset(p, n) == /\ outcome[p] = "running" /\ ~Circular(plan[p])
               /\ n \in DOMAIN plan[p] \ reset[p]
               /\ plan[p][n] \subseteq reset[p]
               /\ reset' = [reset EXCEPT ![p] = @ \cup {n}]
               /\ \E o \in {"running", "failed"} :
                    outcome' = [outcome EXCEPT ![p] = o]
               /\ UNCHANGED plan

Succeed(p) == /\ outcome[p] = "running" /\ reset[p] = DOMAIN plan[p]
              /\ outcome' = [outcome EXCEPT ![p] = "ok"]
              /\ UNCHANGED <<plan, reset>>

Fail(p) == /\ outcome[p] = "running"
           /\ outcome' = [outcome EXCEPT ![p] = "failed"]
           /\ UNCHANGED <<plan, reset>>

Next == \E p \in Procs : \/ Begin(p) \/ Choose(p) \/ Succeed(p) \/ Fail(p)
                         \/ \E n \in Names : Reset(p, n)

Spec == Init /\ [][Next]_vars
=============================================================================
