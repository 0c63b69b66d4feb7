------------------------------ MODULE MCOnboard ------------------------------
(***************************************************************************)
(* Instances of Onboard for TLC.  Which command lines a user runs, on      *)
(* which clusters, is a habit; a history sticks to one of the Habits.      *)
(***************************************************************************)
EXTENDS Onboard

CONSTANTS p1, p2, c1, c2, l1, l2, shard, d1, d2, old, new,
          Habits   \* a set of sets of command lines

VARIABLE habit

Line(op, c) == [op |-> op, cluster |-> c, labels |-> {l1}, shard |-> NoShard,
                renew |-> FALSE, ca |-> FALSE, data |-> d1, release |-> old]
With(m, labels, s, data) ==
    [m EXCEPT !.labels = labels, !.shard = s, !.data = data]

PushLines(c) == {[Line("push", c) EXCEPT !.renew = TRUE],
                 With(Line("push", c), {l2}, shard, d2)}
WILines(c) == {[Line("wi", c) EXCEPT !.ca = TRUE],
               [With(Line("wi", c), {l2}, shard, d2) EXCEPT !.ca = TRUE],
               With(Line("wi", c), {}, NoShard, d1)}
PullLines(c) == {Line("pull", c),
                 [With(Line("pull", c), {l2}, shard, d1)
                    EXCEPT !.release = new]}
DeregisterLines(c) == {Line("deregister", c)}

Push1 == PushLines(c1) \cup DeregisterLines(c1)
WI1 == WILines(c1) \cup DeregisterLines(c1)
Pull1 == PullLines(c1) \cup DeregisterLines(c1)
Plain1 == {Line("push", c1), Line("wi", c1), [Line("wi", c1) EXCEPT !.ca = TRUE],
           Line("deregister", c1)}
PlainPull1 == {Line("pull", c1), Line("deregister", c1)}
Pull12 == PlainPull1 \cup {Line("pull", c2)}
Changing1 == PushLines(c1) \cup WILines(c1) \cup {Line("pull", c1)}

(* The habits of the runs. *)
OneByOne == {Push1, WI1, Pull1, Changing1}
Racers == {Plain1, PlainPull1}
Pullers == {Pull1, Pull12}
Secrets == {Plain1}
Neighbours == {{Line("pull", c1), Line("pull", c2)}}

(* Every command line of the runs. *)
AllLines == UNION OneByOne \cup UNION Racers \cup UNION Pullers

OwnName == [c \in Clusters |-> c]
OneNamespace == [c \in Clusters |-> c1]
OneName == [c \in Clusters |-> c1]   \* namespace a-b, name c and a, b-c

Keeps(h) == \A p \in Procs : proc[p].cmd \in h

(* To keep the race of pull-mode registrations small, one process of the   *)
(* two only registers, a call that fails is not repeated, and a deletion   *)
(* fails only where the resource is gone already.                          *)
RegistersOnly(p) == proc[p].cmd.op = "pull"
FailsAtOnce(p) ==
    /\ proc'[p].tries = 0
    /\ proc'[p].warned /\ ~proc[p].warned =>
         /\ proc[p].step = "delete"
         /\ ~Present(Head(proc[p].todo), proc[p].cmd.cluster)
PullRace == habit = PlainPull1

MCInit == Init /\ habit \in Habits /\ Keeps(habit) /\ (PullRace => RegistersOnly(p2))
MCNext == /\ Next /\ UNCHANGED habit /\ Keeps(habit)'
          /\ PullRace => RegistersOnly(p2)' /\ \A p \in Procs : FailsAtOnce(p)
MCSpec == MCInit /\ [][MCNext]_<<vars, habit>>
MCFairSpec == MCSpec /\ \A p \in Procs : WF_vars(Step(p))
=============================================================================
