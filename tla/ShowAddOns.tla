------------------------------ MODULE ShowAddOns ------------------------------
(***************************************************************************)
(* show addons: what is deployed, from the ClusterConfigurations of every  *)
(* namespace.  A ClusterConfiguration has in `deployed` the entries of its *)
(* status: [type, what, profile, timed], timed when LastAppliedTime is set.*)
(*                                                                         *)
(* Mistaken_X, here and in the other modules, is a mistaken form of the    *)
(* definition of X that follows it; no specification uses it.              *)
(***************************************************************************)
EXTENDS ShowCommon

Kinds == {"Namespace", "ClusterConfiguration"}

Calls(m) == <<List("Namespace", Any, "addons")>>

Follow(m, call, answer) ==
    IF call.kind = "Namespace"
    THEN {List("ClusterConfiguration", n.name, "addons") :
             n \in {n \in answer : doConsiderNamespace(n, m.namespace)}}
    ELSE {}

GetClusterName(cc) == IF cc.label = None THEN cc.name ELSE cc.label

(* GetHelmReleases and GetResources: a map from what is deployed to the    *)
(* profiles.  Its keys hold the pointer LastAppliedTime, so that only      *)
(* entries without it meet in one key.                                     *)
ProfilesOf(cc, e) ==
    {d.profile : d \in {d \in cc.deployed :
        \/ d = e
        \/ ~d.timed /\ ~e.timed /\ d.type = e.type /\ d.what = e.what}}

(* The entries a command shows. *)
Considered(m, cc) ==
    {e \in cc.deployed :
        /\ doConsiderProfile(ProfilesOf(cc, e), m.profile)
        /\ e.type = "helm" => ~m.resourcesOnly
        /\ e.type = "resource" => ~m.helmOnly}

displayAddOnsForCluster(m, cc) ==
    {[cluster |-> Cluster(cc.ns, GetClusterName(cc)), type |-> e.type,
      what |-> e.what, profiles |-> ProfilesOf(cc, e)] :
        e \in Considered(m, cc)}

Mistaken_Lines(m, call, answer, read) ==   \* forgets the filter
    UNION {displayAddOnsForCluster(m, cc) :
             cc \in Kind(answer, "ClusterConfiguration")}

Lines(m, call, answer, read) ==
    UNION {displayAddOnsForCluster(m, cc) :
             cc \in {cc \in Kind(answer, "ClusterConfiguration") :
                       doConsiderClusterConfiguration(cc, m.cluster)}}

(* The time of an entry without LastAppliedTime: a nil pointer. *)
Broken(m, call, answer) ==
    \E cc \in Kind(answer, "ClusterConfiguration") :
       /\ doConsiderClusterConfiguration(cc, m.cluster)
       /\ \E e \in Considered(m, cc) : ~e.timed

-----------------------------------------------------------------------------
(* "in cluster with name" (addons.go:172), the cluster the row shows.  An  *)
(* exception: without the label a configuration is shown as of the cluster *)
(* of its own name, but not when that is the --cluster (utils.go:40-45).   *)
InCluster(m, cc) ==
    m.cluster = Any \/ (cc.label # None /\ m.cluster = GetClusterName(cc))

(* "deployed in clusters in this namespace", "because of this              *)
(* clusterprofile/profile", "helm charts only", "resources only"           *)
(* (addons.go:170-178).                                                    *)
Asked(m, W) ==
    {x \in UNION {{cc} \X cc.deployed : cc \in Kind(W, "ClusterConfiguration")} :
        /\ m.namespace \in {Any, x[1].ns}
        /\ InCluster(m, x[1])
        /\ m.profile \in {Any, x[2].profile}
        /\ x[2].type \in (IF m.helmOnly THEN {"helm"} ELSE {"helm", "resource"})
                         \cap (IF m.resourcesOnly THEN {"resource"}
                               ELSE {"helm", "resource"})}

(* "the list of all ClusterProfiles causing the resource to be deployed"   *)
(* (addons.go:40-41).  An exception: every profile has a row of its own,   *)
(* as the pointer in the key of the map keeps them apart.                  *)
ListedProfiles(x) == {x[2].profile}

Table(m, W, P) ==
    {[cluster |-> Cluster(x[1].ns, GetClusterName(x[1])), type |-> x[2].type,
      what |-> x[2].what, profiles |-> ListedProfiles(x)] :
        x \in {x \in Asked(m, W) : x[2].timed}}

Faulty(m, W, P) == \E x \in Asked(m, W) : ~x[2].timed
=============================================================================
