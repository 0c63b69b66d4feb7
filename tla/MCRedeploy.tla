----------------------------- MODULE MCRedeploy -----------------------------
(***************************************************************************)
(* Instances of Redeploy for TLC: summaries a, b and c of one cluster and  *)
(* z of another, on which a depends and which depends on b.  A history     *)
(* sticks to one of three scenes.  In "sort" one invocation after the      *)
(* other runs over every graph, and nothing else happens.  In "watched"    *)
(* the controller, users and failing calls get in its way, and in "race"   *)
(* two run beside users and failing calls; both over two graphs without c. *)
(***************************************************************************)
EXTENDS Redeploy

CONSTANTS p1, p2, c1, c2, a, b, c, z, f

VARIABLE scene

Home == [n \in Names |-> IF n = z THEN c2 ELSE c1]

(* The summaries of c1 depend on each other as g says. *)
Abroad(g) == [n \in Names |-> IF n = z THEN {b}
                              ELSE IF n = a THEN g[n] \cup {z} ELSE g[n]]
Among(S) == [S -> SUBSET S]

SomeGraph == Among(Names)
AllGraphs == {Abroad(g) : g \in Among({a, b, c})}

Chain == (a :> {}) @@ (b :> {a}) @@ (c :> {})
Ring  == (a :> {b}) @@ (b :> {a}) @@ (c :> {})
FewGraphs == {Abroad(Chain), Abroad(Ring)}

(* What users may change in a scene. *)
GraphsInScene == IF scene = "sort" THEN {dependsOn} ELSE FewGraphs
InScene == IF scene = "sort" THEN proc[p2].at = "ready"
           ELSE /\ scene = "watched" => proc[p2].at = "ready"
                /\ status[c] = Absent /\ status[z] = Fields
                /\ \A p \in Procs : proc[p].cluster = c1

(* A status changes in a scene by a patch, or by what happens there. *)
Patched == status' # status => patched' # patched
CameOrWent == \A n \in Names : status'[n] # status[n] =>
                 Absent \in {status[n], status'[n]} \/ patched' # patched
Unwritten == \A p \in Procs : proc'[p].written = {}
MayHappen == CASE scene = "sort"    -> Patched /\ Unwritten
               [] scene = "race"    -> CameOrWent /\ Unwritten
               [] scene = "watched" -> TRUE

MCInit == /\ scene \in {"sort", "watched", "race"}
          /\ dependsOn \in IF scene = "sort" THEN AllGraphs ELSE FewGraphs
          /\ Init /\ InScene
MCNext == /\ UNCHANGED scene /\ dependsOn' \in GraphsInScene
          /\ Next /\ InScene' /\ MayHappen
MCSpec == /\ MCInit /\ [][MCNext]_<<vars, scene>>
          /\ \A p \in Procs : WF_vars(Step(p))
=============================================================================
