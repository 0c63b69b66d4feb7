------------------------------ MODULE Redeploy ------------------------------
(***************************************************************************)
(* internal/commands/redeploy: `sveltosctl redeploy cluster`.              *)
(*                                                                         *)
(* An invocation lists the ClusterSummaries of one cluster, orders them by *)
(* their dependencies and clears the status of one after the other.  The   *)
(* addon controller writes those statuses, and users change and remove     *)
(* profiles, while it does so.                                             *)
(***************************************************************************)
EXTENDS Naturals, SequencesExt

CONSTANTS
    Procs,      \* the terminals a user runs sveltosctl from
    Clusters,
    Names,      \* the ClusterSummaries that may exist
    ClusterOf,  \* the cluster whose labels a ClusterSummary carries
    Graphs,     \* the Spec.DependsOn that users may give all of them
    Fields,     \* the fields of a ClusterSummaryStatus
    Faults,     \* how an API call may fail: "refused", "lost"
    Churn,      \* what happens meanwhile: "reconcile", "delete", "create", "edit"
    Absent

ASSUME SummariesAssumption == /\ IsFiniteSet(Names)
                              /\ ClusterOf \in [Names -> Clusters]
                              /\ Graphs \subseteq [Names -> SUBSET Names]
                              /\ \A fields \in SUBSET Fields : fields # Absent
ASSUME EventsAssumption ==
    /\ Faults \subseteq {"refused", "lost"}
    /\ Churn \subseteq {"reconcile", "delete", "create", "edit"}

VARIABLES
    status,     \* the API server: the fields set in each status, or Absent
    dependsOn,  \* the API server: Spec.DependsOn of each ClusterSummary
    proc,       \* the local state of every invocation
    patched     \* history: what each invocation has patched so far

vars == <<status, dependsOn, proc, patched>>

Ended == {"ready", "ok", "failed", "cycle"}

(* The maps of the code have the listed summaries as keys. *)
Locals == [at            : {"list", "sort", "reset"} \cup Ended,
           cluster       : Clusters,
           listed        : SUBSET Names,
           csMap         : [Names -> SUBSET Fields],   \* statuses as listed
           dependencies  : [Names -> SUBSET Names],
           outgoingCount : [Names -> Nat],
           queue         : Seq(Names),
           resetOrder    : Seq(Names),   \* in performStatusReset: what is left
           written       : SUBSET Names] \* history: written since the List

EmptyMap == [n \in Names |-> {}]

(* What is left of an invocation that ended in f, and what one starts with. *)
Invocation(f, c, listed, deps) ==
    [at |-> f, cluster |-> c, listed |-> listed, csMap |-> EmptyMap,
     dependencies |-> deps, outgoingCount |-> [n \in Names |-> 0],
     queue |-> <<>>, resetOrder |-> <<>>, written |-> {}]
Begun(f, c) == Invocation(f, c, {}, EmptyMap)

Init == /\ status \in [Names -> {Fields, Absent}]
        /\ dependsOn \in Graphs
        /\ \E c \in Clusters : proc = [p \in Procs |-> Begun("ready", c)]
        /\ patched = [p \in Procs |-> {}]

-----------------------------------------------------------------------------

ForceDeployment(p) ==
    /\ proc[p].at \in Ended
    /\ \E c \in Clusters : proc' = [proc EXCEPT ![p] = Begun("list", c)]
    /\ patched' = [patched EXCEPT ![p] = {}]
    /\ UNCHANGED <<status, dependsOn>>

Goes(p, to) == proc' = [proc EXCEPT ![p].at = to]
Ends(p, f) == proc' = [proc EXCEPT ![p] = Invocation(f, @.cluster, @.listed,
                                                     @.dependencies)]

(* The summaries of the cluster, as one List returns them. *)
Listed(c) == {n \in Names : status[n] # Absent /\ ClusterOf[n] = c}

(* Mistaken_X is a mistaken form of the definition of X that follows it; no *)
(* specification uses it.  The properties must fail with it in X's place.  *)
Mistaken_Within(listed) ==   \* also those of other clusters
    [n \in Names |-> IF n \in listed THEN dependsOn[n] ELSE {}]

(* Dependencies on summaries of other clusters, or on none, are left out.  *)
Within(listed) ==
    [n \in Names |-> IF n \in listed THEN dependsOn[n] \cap listed ELSE {}]

(* getClusterSummariesInOrder up to the sort.  The queue starts with those *)
(* that depend on nothing, in the order a Go map is walked: any.           *)
listSummaries(p) ==
    LET listed == Listed(proc[p].cluster)
        deps == Within(listed)
    IN /\ proc[p].at = "list"
       /\ UNCHANGED <<status, dependsOn, patched>>
       /\ \/ Faults # {} /\ Ends(p, "failed")
          \/ listed = {} /\ Ends(p, "ok")
          \/ /\ listed # {}
             /\ \E queue \in SetToSeqs({n \in listed : deps[n] = {}}) :
                  proc' = [proc EXCEPT
                             ![p].at = "sort",
                             ![p].listed = listed,
                             ![p].csMap = [n \in Names |->
                                 IF n \in listed THEN status[n] ELSE {}],
                             ![p].dependencies = deps,
                             ![p].outgoingCount =
                                 [n \in Names |-> Cardinality(deps[n])],
                             ![p].queue = queue]

Mistaken_Released(p, n) ==   \* not counted: one dependency less is enough
    {m \in Names : n \in proc[p].dependencies[m]}

(* The summaries for which n was the last dependency not yet in the order. *)
Released(p, n) ==
    {m \in Names :
        n \in proc[p].dependencies[m] /\ proc[p].outgoingCount[m] = 1}

(* One round of Kahn's algorithm. *)
popQueue(p) ==
    LET n == Head(proc[p].queue)
    IN /\ proc[p].at = "sort" /\ proc[p].queue # <<>>
       /\ \E next \in SetToSeqs(Released(p, n)) :
            proc' = [proc EXCEPT
                       ![p].queue = Tail(@) \o next,
                       ![p].resetOrder = Append(@, n),
                       ![p].outgoingCount =
                           [m \in Names |->
                              IF n \in proc[p].dependencies[m] THEN @[m] - 1
                              ELSE @[m]]]
       /\ UNCHANGED <<status, dependsOn, patched>>

Mistaken_checkCycle(p) ==   \* goes on with those it could order
    /\ proc[p].at = "sort" /\ proc[p].queue = <<>>
    /\ Goes(p, "reset")
    /\ UNCHANGED <<status, dependsOn, patched>>

Restarting_checkCycle(p) ==   \* lists once more after a cycle
    /\ proc[p].at = "sort" /\ proc[p].queue = <<>>
    /\ IF Len(proc[p].resetOrder) # Cardinality(proc[p].listed)
       THEN Ends(p, "list") ELSE Goes(p, "reset")
    /\ UNCHANGED <<status, dependsOn, patched>>

(* Some summary never came to have all its dependencies ordered. *)
checkCycle(p) ==
    /\ proc[p].at = "sort" /\ proc[p].queue = <<>>
    /\ IF Len(proc[p].resetOrder) # Cardinality(proc[p].listed)
       THEN Ends(p, "cycle") ELSE Goes(p, "reset")
    /\ UNCHANGED <<status, dependsOn, patched>>

Mistaken_Cleared(p, n) == status[n]   \* compared with the cleared object

(* A merge patch computed against the listed object removes the fields     *)
(* that object had.                                                        *)
Cleared(p, n) == status[n] \ proc[p].csMap[n]

(* One round of performStatusReset.  The call is served, or answered with  *)
(* an error although it was "lost" (the patch took place) or because it    *)
(* was "refused"; a summary that is gone is NotFound.                      *)
patchStatus(p) ==
    LET n == Head(proc[p].resetOrder)
    IN /\ proc[p].at = "reset" /\ proc[p].resetOrder # <<>>
       /\ \E answer \in {"served"} \cup Faults :
            LET applied == status[n] # Absent /\ answer # "refused"
            IN /\ status' = IF applied THEN [status EXCEPT ![n] = Cleared(p, n)]
                            ELSE status
               /\ patched' = IF applied THEN [patched EXCEPT ![p] = @ \cup {n}]
                             ELSE patched
               /\ IF applied /\ answer = "served"
                  THEN proc' = [proc EXCEPT ![p].resetOrder = Tail(@)]
                  ELSE Ends(p, "failed")
       /\ UNCHANGED dependsOn

allReset(p) ==
    /\ proc[p].at = "reset" /\ proc[p].resetOrder = <<>>
    /\ Ends(p, "ok")
    /\ UNCHANGED <<status, dependsOn, patched>>

(* A killed process, as far as anything outside can tell. *)
Crash(p) ==
    /\ Faults # {} /\ proc[p].at \notin Ended
    /\ Ends(p, "failed")
    /\ UNCHANGED <<status, dependsOn, patched>>

-----------------------------------------------------------------------------
(* The addon controller, and users that change profiles                    *)

Reconcile(n) ==
    /\ "reconcile" \in Churn /\ status[n] # Absent
    /\ status' = [status EXCEPT ![n] = Fields]
    /\ proc' = [p \in Procs |-> IF proc[p].at \in {"sort", "reset"}
                                THEN [proc[p] EXCEPT !.written = @ \cup {n}]
                                ELSE proc[p]]
    /\ UNCHANGED <<dependsOn, patched>>

Delete(n) ==
    /\ "delete" \in Churn /\ status[n] # Absent
    /\ status' = [status EXCEPT ![n] = Absent]
    /\ UNCHANGED <<dependsOn, proc, patched>>

CreateSummary(n) ==
    /\ "create" \in Churn /\ status[n] = Absent
    /\ status' = [status EXCEPT ![n] = {}]
    /\ UNCHANGED <<dependsOn, proc, patched>>

Edit == /\ "edit" \in Churn
        /\ dependsOn' \in Graphs /\ dependsOn' # dependsOn
        /\ UNCHANGED <<status, proc, patched>>

Step(p) == \/ listSummaries(p) \/ popQueue(p) \/ checkCycle(p)
           \/ patchStatus(p) \/ allReset(p)

Next == \/ \E p \in Procs : ForceDeployment(p) \/ Step(p) \/ Crash(p)
        \/ \E n \in Names : Reconcile(n) \/ Delete(n) \/ CreateSummary(n)
        \/ Edit

Spec == Init /\ [][Next]_vars

(* An invocation that runs goes on; nothing need start one. *)
FairSpec == Spec /\ \A p \in Procs : WF_vars(Step(p))

-----------------------------------------------------------------------------
(* Properties                                                              *)

(* Statuses, dependencies and what an invocation holds have their shape;   *)
(* counts of dependencies are natural numbers.                             *)
TypeOK == /\ status \in [Names -> {Absent} \cup SUBSET Fields]
          /\ dependsOn \in [Names -> SUBSET Names]
          /\ proc \in [Procs -> Locals]
          /\ patched \in [Procs -> SUBSET Names]

Plan(p) == [n \in proc[p].listed |-> proc[p].dependencies[n]]
Outcome(p) == CASE proc[p].at = "ready"               -> "idle"
                [] proc[p].at = "ok"                  -> "ok"
                [] proc[p].at \in {"failed", "cycle"} -> "failed"
                [] OTHER                              -> "running"

Abstract == INSTANCE ResetOrder
                WITH plan <- [p \in Procs |-> Plan(p)],
                     reset <- patched,
                     outcome <- [p \in Procs |-> Outcome(p)]

(* The sort refuses the dependencies exactly when they are circular among  *)
(* the summaries of this cluster, however the maps of the program are      *)
(* walked, and nothing has been patched when it does.                      *)
CyclesRefused ==
    \A p \in Procs :
        /\ proc[p].at \in {"reset", "ok"} => ~Abstract!Circular(Plan(p))
        /\ proc[p].at = "cycle" => /\ Abstract!Circular(Plan(p))
                                   /\ patched[p] = {}

(* An invocation that succeeds leaves no summary of its cluster with a     *)
(* status but those the controller has written since the List: also beside *)
(* other invocations, after earlier ones that stopped half way, and where  *)
(* summaries come and go.  One the controller has written may keep what    *)
(* the listed object did not have, although its patch succeeded.           *)
Redeployed ==
    [][\A p \in Procs : proc[p].at # "ok" /\ proc'[p].at = "ok" =>
         \A n \in Names : ClusterOf[n] = proc[p].cluster =>
             status'[n] \in {{}, Absent} \/ n \in proc[p].written]_vars

(* Every invocation keeps what ResetOrder promises, whatever the           *)
(* controller, users and other invocations do to the summaries meanwhile.  *)
KeepsOrder == Abstract!Spec

(* Every invocation comes to an end. *)
InvocationsEnd == \A p \in Procs : (proc[p].at \notin Ended) ~> (proc[p].at \in Ended)

=============================================================================
