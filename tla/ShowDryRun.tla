------------------------------ MODULE ShowDryRun ------------------------------
(***************************************************************************)
(* show dryrun: what would change, from the ClusterReports of every        *)
(* namespace.  A ClusterReport has the cluster it is about, whether its    *)
(* name contains "p--" (pdash), the profile its label names, its owner (a  *)
(* profile, or None) and entries [what, update, message].                  *)
(***************************************************************************)
EXTENDS ShowCommon

Kinds == {"Namespace", "ClusterReport"}

Calls(m) == <<List("Namespace", Any, "dryrun")>>

Follow(m, call, answer) ==
    IF call.kind = "Namespace"
    THEN {List("ClusterReport", n.name, "dryrun") :
             n \in {n \in answer : doConsiderNamespace(n, m.namespace)}}
    ELSE {}

(* The kind is guessed from the name of the report. *)
ProfileName(cr) ==
    [kind |-> IF cr.pdash THEN "Profile" ELSE "ClusterProfile",
     name |-> cr.label]

Considered(m, cr) == /\ cr.kind = "ClusterReport"
                     /\ doConsiderClusterReport(cr, m.cluster)
                     /\ doConsiderProfile({ProfileName(cr)}, m.profile)

(* A row per entry or, with --raw-diff, a diff for those that have one.    *)
displayDryRunForCluster(m, cr) ==
    IF m.rawDiff
    THEN {[cluster |-> cr.cluster, what |-> e.what, profile |-> cr.owner] :
             e \in {e \in cr.entries : e.update /\ e.message}}
    ELSE {[cluster |-> cr.cluster, what |-> e.what,
           profile |-> ProfileName(cr)] : e \in cr.entries}

Lines(m, call, answer, read) ==
    UNION {displayDryRunForCluster(m, cr) :
             cr \in {cr \in answer : Considered(m, cr) /\ cr.owner # None}}

Mistaken_Broken(m, call, answer) ==   \* looks at the owner first
    \E cr \in Kind(answer, "ClusterReport") : cr.owner = None

(* getProfileOwnerReference: a report without an owner ends the command.   *)
Broken(m, call, answer) ==
    \E cr \in answer : Considered(m, cr) /\ cr.owner = None

-----------------------------------------------------------------------------
(* "in clusters in this namespace", "in cluster with name", "because of    *)
(* this clusterprofile/profile", "for each resource that would be update,  *)
(* full diff" (dryrun.go:221-229).                                         *)
Asked(m, W) ==
    {cr \in Kind(W, "ClusterReport") :
        /\ m.namespace \in {Any, cr.ns}
        /\ m.cluster \in {Any, cr.cluster.name}
        /\ m.profile \in {Any, ProfileName(cr)}}

Table(m, W, P) ==
    {[cluster |-> x[1].cluster, what |-> x[2].what,
      profile |-> IF m.rawDiff THEN x[1].owner ELSE ProfileName(x[1])] :
        x \in {x \in UNION {{cr} \X cr.entries : cr \in Asked(m, W)} :
                 /\ x[1].owner # None
                 /\ m.rawDiff => x[2].update /\ x[2].message}}

Faulty(m, W, P) == \E cr \in Asked(m, W) : cr.owner = None
=============================================================================
