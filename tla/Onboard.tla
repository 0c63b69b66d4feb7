------------------------------- MODULE Onboard -------------------------------
(***************************************************************************)
(* internal/commands/onboard: `sveltosctl register cluster` (push mode),   *)
(* `register cluster-eks|gke|aks` (workload identity), `register cluster   *)
(* --pullmode` and `deregister cluster`.                                   *)
(*                                                                         *)
(* Every invocation is a process that issues Kubernetes API calls, one per *)
(* step, against the management cluster; it keeps nothing once it exits.   *)
(* A process may fail at any call, may be killed between two calls, and    *)
(* runs beside other invocations, possibly on the same cluster.            *)
(***************************************************************************)
EXTENDS Naturals, Sequences, FiniteSets

CONSTANTS
    Procs,        \* the terminals a user runs sveltosctl from
    Clusters,     \* pairs namespace/name of a SveltosCluster
    Commands,     \* the command lines that may be run
    Labels,       \* key=value pairs of --labels, no two with the same key
    Shards,       \* values of --shard
    Data,         \* contents of a kubeconfig or of a CA file
    Releases,     \* sveltosctl releases, each with its own RBAC templates
    NamespaceOf,  \* a namespace, named by one of the clusters it holds
    ScopedName,   \* namespace + "-" + name, named by one of its clusters
    Faults,       \* how an API call may fail: "refused", "lost"
    CrashOps,     \* operations whose process may be killed
    Overlap,      \* operations that may run beside one another
    MaxRetry,     \* maxRetry of shouldRetry
    NoShard, NoKey, Absent

NamespacedKinds == {"sveltosCluster", "kubeconfig", "ca", "serviceAccount",
                    "token", "role", "roleBinding"}
ScopedKinds == {"clusterRole", "clusterRoleBinding"}
ClusterKinds == NamespacedKinds \cup ScopedKinds
Kinds == ClusterKinds \cup {"namespace"}
Keys == Kinds \X Clusters

Ops == {"push", "wi", "pull", "deregister"}

CommandSet == [op : Ops, cluster : Clusters, labels : SUBSET Labels,
               shard : Shards \cup {NoShard}, renew : BOOLEAN, ca : BOOLEAN,
               data : Data, release : Releases]

ASSUME CommandsAssumption == Commands \subseteq CommandSet /\ Commands # {}
ASSUME NamesAssumption == /\ NamespaceOf \in [Clusters -> Clusters]
                          /\ ScopedName \in [Clusters -> Clusters]
ASSUME BoundsAssumption == /\ Faults \subseteq {"refused", "lost"}
                           /\ CrashOps \subseteq Ops
                           /\ Overlap \subseteq Ops
                           /\ MaxRetry \in Nat

(* The name a resource of a kind has for cluster c. *)
Key(kind, c) == CASE kind \in ScopedKinds -> <<kind, ScopedName[c]>>
                  [] kind = "namespace"   -> <<kind, NamespaceOf[c]>>
                  [] OTHER                -> <<kind, c>>

ClusterSpecs == [pullMode : BOOLEAN, keyName : BOOLEAN,
                 wi : {"none", "plain", "ca"}, renew : BOOLEAN,
                 labels : SUBSET Labels, shard : Shards \cup {NoShard}]

(* What the API server may hold under a key: the parts of each resource    *)
(* the commands write or decide on.                                        *)
Objects(kind) ==
    CASE kind = "sveltosCluster"                     -> ClusterSpecs
      [] kind \in {"kubeconfig", "ca"}               -> Data
      [] kind = "token"                              -> {"empty", "filled"}
      [] kind \in {"role", "clusterRole"}            -> Releases
      [] kind \in {"roleBinding", "clusterRoleBinding"} -> Clusters
      [] OTHER                                       -> {"present"}

ASSUME AbsentAssumption == /\ NoKey \notin Keys
                           /\ \A kind \in Kinds : Absent \notin Objects(kind)

VARIABLES
    store,  \* the API server: the object under every key, or Absent
    proc,   \* the local state of every process
    fresh,  \* the key whose latest resourceVersion a process holds
    torn    \* history: clusters a deregister has begun to take apart

vars == <<store, proc, fresh, torn>>

Functions == {"onboardSveltosCluster", "patchSecret", "patchSveltosCluster",
              "patchCASecret", "patchSveltosClusterWithWorkloadIdentity",
              "createNamespace", "createServiceAccount", "createSecret",
              "createRole", "createClusterRole", "createRoleBinding",
              "createClusterRoleBinding", "createSveltosCluster",
              "getKubeconfig", "deregisterSveltosCluster",
              "deleteResources", "deleteOrphans"}
Ended == {"ready", "ok", "failed"}

Locals == [at     : Functions \cup Ended,              \* function executing
           step   : {"get", "create", "update", "delete"},  \* its next call
           cmd    : Commands,
           todo   : Seq(ClusterKinds),                 \* kinds left to delete
           tries  : 0 .. MaxRetry,                     \* i of shouldRetry
           warned : BOOLEAN,                           \* a deletion failed
           report : SUBSET ClusterKinds]               \* deletedResources

Present(kind, c) == store[Key(kind, c)] # Absent
Running(p) == proc[p].at \notin Ended
Alone(p) == \A q \in Procs \ {p} :
                Running(q) => proc[q].cmd.cluster # proc[p].cmd.cluster

(* A process that starts on a command; it keeps nothing between commands. *)
Process(f, m) == [at |-> f, step |-> "get", cmd |-> m, todo |-> <<>>,
                  tries |-> 0, warned |-> FALSE, report |-> {}]

(* Some of the namespaces exist already. *)
Init == /\ \E housed \in SUBSET {NamespaceOf[c] : c \in Clusters} :
             store = [k \in Keys |-> IF k[1] = "namespace" /\ k[2] \in housed
                                    THEN "present" ELSE Absent]
        /\ \E m \in Commands : proc = [p \in Procs |-> Process("ready", m)]
        /\ fresh = [p \in Procs |-> NoKey]
        /\ torn = {}

-----------------------------------------------------------------------------
(* The API server, as one call of a process sees it.  A call is served, or *)
(* is answered with an error although it was "lost" (the write took place) *)
(* or because it was "refused".  A call through utils.k8sAccess (retried)  *)
(* is repeated after a retriable error, up to MaxRetry times.              *)

At(f, s) == [at |-> f, step |-> s]
Failed == At("failed", "get")

(* p goes on to a call of a function, which has not been tried yet. *)
Moved(p, pos) ==
    [proc EXCEPT ![p] = [Process(pos.at, @.cmd) EXCEPT !.step = pos.step]]

(* Mistaken_X is a mistaken form of the definition of X that follows it; no *)
(* specification uses it.  The properties must fail with it in X's place.  *)
Mistaken_MayRetry(p, retried) == retried   \* no limit
MayRetry(p, retried) == retried /\ proc[p].tries < MaxRetry

Get(p, k, found, missing, failed, retried) ==
    /\ UNCHANGED <<store, torn>>
    /\ \/ /\ store[k] # Absent
          /\ proc' = Moved(p, found)
          /\ fresh' = [fresh EXCEPT ![p] = k]
       \/ /\ store[k] = Absent
          /\ proc' = Moved(p, missing)
          /\ UNCHANGED fresh
       \/ /\ Faults # {}
          /\ UNCHANGED fresh
          /\ \/ proc' = Moved(p, failed)
             \/ /\ MayRetry(p, retried)
                /\ proc' = [proc EXCEPT ![p].tries = @ + 1]

(* Writes val under k when the server admits it.  A resourceVersion of k   *)
(* that was held before is then out of date, but for a write that changes  *)
(* nothing: the server keeps the resourceVersion.                          *)
Write(p, k, admitted, val, next, rejected, failed, retried) ==
    /\ UNCHANGED torn
    /\ \E answer \in {"served"} \cup Faults, again \in BOOLEAN :
         LET applied == admitted /\ answer # "refused"
         IN /\ again => answer # "served" /\ MayRetry(p, retried)
            /\ store' = IF applied THEN [store EXCEPT ![k] = val] ELSE store
            /\ fresh' = [q \in Procs |->
                           IF \/ q = p /\ ~again
                              \/ applied /\ store[k] # val /\ fresh[q] = k
                           THEN NoKey ELSE fresh[q]]
            /\ proc' = IF again THEN [proc EXCEPT ![p].tries = @ + 1]
                       ELSE Moved(p, IF answer # "served" THEN failed
                                     ELSE IF admitted THEN next ELSE rejected)

Create(p, kind, val, next, exists, retried) ==
    LET k == Key(kind, proc[p].cmd.cluster)
        housed == kind \in NamespacedKinds
                    => Present("namespace", proc[p].cmd.cluster)
    IN Write(p, k, store[k] = Absent /\ housed, val, next,
             IF store[k] # Absent THEN exists ELSE Failed, Failed, retried)

Mistaken_Update(p, kind, val, next, retried) ==   \* starts over on Conflict
    LET k == Key(kind, proc[p].cmd.cluster)
    IN Write(p, k, fresh[p] = k, val, next, At(proc[p].at, "get"), Failed,
             retried)

(* An update carries the resourceVersion its Get returned: the server      *)
(* answers Conflict, or NotFound, when the object has changed since.       *)
Update(p, kind, val, next, retried) ==
    LET k == Key(kind, proc[p].cmd.cluster)
    IN Write(p, k, fresh[p] = k, val, next, Failed, Failed, retried)

(* Get, then Create or Update through k8sAccess: the shape of patchSecret  *)
(* and of its siblings.  Losing the race to create is an error.            *)
Patch(p, kind, created, updated, next) ==
    LET here == proc[p].at
    IN \/ /\ proc[p].step = "get"
          /\ Get(p, Key(kind, proc[p].cmd.cluster),
                 At(here, "update"), At(here, "create"), Failed, TRUE)
       \/ /\ proc[p].step = "create"
          /\ Create(p, kind, created, next, Failed, TRUE)
       \/ /\ proc[p].step = "update"
          /\ Update(p, kind, updated, next, TRUE)

(* Get, and Update if it succeeded, else Create: createClusterRole and     *)
(* createSveltosCluster.  Any error of the Get leads to Create, and an     *)
(* object that exists is then left as it is.                               *)
CreateOrRefresh(p, kind, created, updated, next) ==
    LET here == proc[p].at
    IN \/ /\ proc[p].step = "get"
          /\ Get(p, Key(kind, proc[p].cmd.cluster),
                 At(here, "update"), At(here, "create"), At(here, "create"),
                 FALSE)
       \/ /\ proc[p].step = "create"
          /\ Create(p, kind, created, next, next, FALSE)
       \/ /\ proc[p].step = "update"
          /\ Update(p, kind, updated, next, FALSE)

(* Create through the plain client; AlreadyExists counts as success. *)
CreateOnce(p, kind, val, next) == Create(p, kind, val, next, next, FALSE)

-----------------------------------------------------------------------------
(* register cluster, push mode                                             *)

onboardSveltosCluster(p) ==
    /\ proc[p].at = "onboardSveltosCluster"
    /\ LET next == At("patchSecret", "get")
       IN Get(p, Key("kubeconfig", proc[p].cmd.cluster), next, next, Failed,
              TRUE)

Mistaken_patchSecret(p) ==   \* an error is logged only
    LET next == At("patchSveltosCluster", "get")
    IN /\ proc[p].at = "patchSecret"
       /\ \/ Patch(p, "kubeconfig", proc[p].cmd.data, proc[p].cmd.data, next)
          \/ /\ Faults # {}
             /\ proc' = Moved(p, next)
             /\ UNCHANGED <<store, fresh, torn>>

patchSecret(p) ==
    /\ proc[p].at = "patchSecret"
    /\ Patch(p, "kubeconfig", proc[p].cmd.data, proc[p].cmd.data,
             At("patchSveltosCluster", "get"))

NewSveltosCluster(m) ==
    [pullMode |-> m.op = "pull", keyName |-> m.op = "push",
     wi |-> IF m.op # "wi" THEN "none" ELSE IF m.ca THEN "ca" ELSE "plain",
     renew |-> m.op = "push" /\ m.renew, labels |-> m.labels,
     shard |-> m.shard]

(* The workload identity and the renewal option of an existing             *)
(* SveltosCluster are left as they are.                                    *)
patchSveltosCluster(p) ==
    LET m == proc[p].cmd
        current == store[Key("sveltosCluster", m.cluster)]
    IN /\ proc[p].at = "patchSveltosCluster"
       /\ Patch(p, "sveltosCluster", NewSveltosCluster(m),
                [current EXCEPT !.labels = m.labels, !.keyName = TRUE,
                                !.shard = m.shard],
                At("ok", "get"))

-----------------------------------------------------------------------------
(* register cluster-eks, cluster-gke, cluster-aks                          *)

patchCASecret(p) ==
    /\ proc[p].at = "patchCASecret"
    /\ Patch(p, "ca", proc[p].cmd.data, proc[p].cmd.data,
             At("patchSveltosClusterWithWorkloadIdentity", "get"))

Mistaken_patchSveltosClusterWithWorkloadIdentity(p) ==   \* keeps the key
    LET m == proc[p].cmd
        current == store[Key("sveltosCluster", m.cluster)]
    IN /\ proc[p].at = "patchSveltosClusterWithWorkloadIdentity"
       /\ Patch(p, "sveltosCluster", NewSveltosCluster(m),
                [current EXCEPT !.labels = m.labels, !.shard = m.shard,
                                !.wi = NewSveltosCluster(m).wi],
                At("ok", "get"))

patchSveltosClusterWithWorkloadIdentity(p) ==
    LET m == proc[p].cmd
        current == store[Key("sveltosCluster", m.cluster)]
    IN /\ proc[p].at = "patchSveltosClusterWithWorkloadIdentity"
       /\ Patch(p, "sveltosCluster", NewSveltosCluster(m),
                [current EXCEPT !.labels = m.labels, !.keyName = FALSE,
                                !.wi = NewSveltosCluster(m).wi,
                                !.shard = m.shard],
                At("ok", "get"))

-----------------------------------------------------------------------------
(* register cluster --pullmode                                             *)

createNamespace(p) ==
    /\ proc[p].at = "createNamespace"
    /\ CreateOnce(p, "namespace", "present", At("createServiceAccount", "get"))

createServiceAccount(p) ==
    /\ proc[p].at = "createServiceAccount"
    /\ CreateOnce(p, "serviceAccount", "present", At("createSecret", "get"))

createSecret(p) ==
    /\ proc[p].at = "createSecret"
    /\ CreateOnce(p, "token", "empty", At("createRole", "get"))

(* The Get names no namespace, so it never succeeds. *)
createRole(p) ==
    /\ proc[p].at = "createRole"
    /\ IF proc[p].step = "get"
       THEN /\ proc' = Moved(p, At("createRole", "create"))
            /\ UNCHANGED <<store, fresh, torn>>
       ELSE CreateOnce(p, "role", proc[p].cmd.release,
                       At("createClusterRole", "get"))

Mistaken_createClusterRole(p) ==   \* never refreshed
    /\ proc[p].at = "createClusterRole"
    /\ CreateOnce(p, "clusterRole", proc[p].cmd.release,
                  At("createRoleBinding", "get"))

createClusterRole(p) ==
    /\ proc[p].at = "createClusterRole"
    /\ CreateOrRefresh(p, "clusterRole", proc[p].cmd.release,
                       proc[p].cmd.release, At("createRoleBinding", "get"))

(* Every error is dropped. *)
createRoleBinding(p) ==
    LET k == Key("roleBinding", proc[p].cmd.cluster)
        next == At("createClusterRoleBinding", "get")
    IN /\ proc[p].at = "createRoleBinding"
       /\ Write(p, k, store[k] = Absent, proc[p].cmd.cluster,
                next, next, next, FALSE)

createClusterRoleBinding(p) ==
    /\ proc[p].at = "createClusterRoleBinding"
    /\ CreateOnce(p, "clusterRoleBinding", proc[p].cmd.cluster,
                  At("createSveltosCluster", "get"))

(* Labels are added to those of an existing SveltosCluster; its mode is    *)
(* left as it is.                                                          *)
createSveltosCluster(p) ==
    LET m == proc[p].cmd
        current == store[Key("sveltosCluster", m.cluster)]
    IN /\ proc[p].at = "createSveltosCluster"
       /\ CreateOrRefresh(p, "sveltosCluster", NewSveltosCluster(m),
                          [current EXCEPT !.labels = @ \cup m.labels,
                                          !.shard = m.shard],
                          At("getKubeconfig", "get"))

Mistaken_getKubeconfig(p) ==   \* does not look for the token
    /\ proc[p].at = "getKubeconfig"
    /\ UNCHANGED <<store, fresh, torn>>
    /\ IF Present("token", proc[p].cmd.cluster)
       THEN proc' = Moved(p, At("ok", "get")) ELSE proc' = Moved(p, Failed)

(* The kubeconfig printed for the managed cluster needs the token that the *)
(* token controller adds to the Secret some time after createSecret.       *)
getKubeconfig(p) ==
    LET k == Key("token", proc[p].cmd.cluster)
    IN /\ proc[p].at = "getKubeconfig"
       /\ UNCHANGED <<store, fresh, torn>>
       /\ \/ store[k] = "filled" /\ proc' = Moved(p, At("ok", "get"))
          \/ store[k] # "filled" /\ proc' = Moved(p, Failed)
          \/ Faults # {} /\ proc' = Moved(p, Failed)

-----------------------------------------------------------------------------
(* deregister cluster                                                      *)

Mistaken_PullModeKinds ==   \* the RoleBinding stays
    <<"clusterRoleBinding", "clusterRole", "role", "token", "serviceAccount">>
PullModeKinds == <<"clusterRoleBinding", "clusterRole", "roleBinding", "role",
                   "token", "serviceAccount">>
WorkloadIdentityKinds == <<"ca">>
PushModeKinds == <<"kubeconfig">>
Mistaken_OrphanKinds == <<"ca">>   \* the kubeconfig Secret stays
OrphanKinds == <<"kubeconfig", "ca">>

(* What a deregister deletes before the SveltosCluster it has read. *)
KindsToDelete(spec) ==
    IF spec.pullMode THEN PullModeKinds \o PushModeKinds
    ELSE IF spec.wi # "none" THEN WorkloadIdentityKinds
    ELSE PushModeKinds

deregisterSveltosCluster(p) ==
    LET k == Key("sveltosCluster", proc[p].cmd.cluster)
        Enter(f, kinds) == [proc EXCEPT ![p].at = f, ![p].todo = kinds]
    IN /\ proc[p].at = "deregisterSveltosCluster"
       /\ UNCHANGED <<store, fresh, torn>>
       /\ \/ /\ store[k] # Absent
             /\ proc' = Enter("deleteResources", KindsToDelete(store[k]))
          \/ /\ store[k] = Absent
             /\ proc' = Enter("deleteOrphans", OrphanKinds)
          \/ /\ Faults # {}
             /\ proc' = Moved(p, Failed)

(* The helper for one kind has returned: without an error the resource is  *)
(* listed as deleted, with one a warning is logged; the next kind follows. *)
Returned(p, kind, error) ==
    [proc EXCEPT ![p].step = "get", ![p].todo = Tail(@),
                 ![p].warned = @ \/ error,
                 ![p].report = IF error THEN @ ELSE @ \cup {kind}]

(* deleteServiceAccount, deleteSecret, deleteRole, deleteClusterRole,      *)
(* deleteRoleBinding and deleteClusterRoleBinding: Get, then Delete with   *)
(* no precondition on what is deleted.                                     *)
deleteGet(p) ==
    LET kind == Head(proc[p].todo)
    IN /\ proc[p].at \in {"deleteResources", "deleteOrphans"}
       /\ proc[p].todo # <<>> /\ proc[p].step = "get"
       /\ UNCHANGED <<store, fresh, torn>>
       /\ \/ /\ Present(kind, proc[p].cmd.cluster)
             /\ proc' = [proc EXCEPT ![p].step = "delete"]
          \/ /\ ~Present(kind, proc[p].cmd.cluster)
             /\ proc' = Returned(p, kind, FALSE)
          \/ /\ Faults # {}
             /\ proc' = Returned(p, kind, TRUE)

deleteCall(p) ==
    LET kind == Head(proc[p].todo)
        c == proc[p].cmd.cluster
        k == Key(kind, c)
    IN /\ proc[p].at \in {"deleteResources", "deleteOrphans"}
       /\ proc[p].todo # <<>> /\ proc[p].step = "delete"
       /\ \E answer \in {"served"} \cup Faults :
            /\ store' = IF answer # "refused"
                        THEN [store EXCEPT ![k] = Absent] ELSE store
            /\ fresh' = [q \in Procs |-> IF answer # "refused" /\ fresh[q] = k
                                         THEN NoKey ELSE fresh[q]]
            /\ proc' = Returned(p, kind,
                                answer # "served" \/ store[k] = Absent)
       /\ torn' = torn \cup {c}

(* The process ends.  `torn` is over for c when the deregister that ends   *)
(* has found or made its SveltosCluster gone and nothing else runs on c.   *)
Finished(p, r) == [proc EXCEPT ![p] = Process(r, @.cmd)]
Mended(p) == IF Alone(p) THEN torn \ {proc[p].cmd.cluster} ELSE torn

(* The last call, through k8sAccess: NotFound is an error here. *)
deleteSveltosCluster(p) ==
    LET c == proc[p].cmd.cluster
        k == Key("sveltosCluster", c)
    IN /\ proc[p].at = "deleteResources" /\ proc[p].todo = <<>>
       /\ \E answer \in {"served"} \cup Faults, again \in BOOLEAN :
            LET applied == store[k] # Absent /\ answer # "refused"
            IN /\ again => answer # "served" /\ MayRetry(p, TRUE)
               /\ store' = IF applied THEN [store EXCEPT ![k] = Absent]
                           ELSE store
               /\ fresh' = [q \in Procs |-> IF applied /\ fresh[q] = k
                                            THEN NoKey ELSE fresh[q]]
               /\ torn' = IF applied THEN Mended(p) ELSE torn
               /\ proc' = IF again THEN [proc EXCEPT ![p].tries = @ + 1]
                          ELSE IF answer = "served" /\ store[k] # Absent
                          THEN Finished(p, "ok") ELSE Finished(p, "failed")

orphansDeleted(p) ==
    /\ proc[p].at = "deleteOrphans" /\ proc[p].todo = <<>>
    /\ proc' = Finished(p, "ok")
    /\ torn' = IF Present("sveltosCluster", proc[p].cmd.cluster) THEN torn
               ELSE Mended(p)
    /\ UNCHANGED <<store, fresh>>

-----------------------------------------------------------------------------
(* The user, the operating system and the token controller                 *)

Mistaken_EntryPoint(m) ==   \* the CA file is not uploaded
    CASE m.op = "push"       -> "onboardSveltosCluster"
      [] m.op = "wi"         -> "patchSveltosClusterWithWorkloadIdentity"
      [] m.op = "pull"       -> "createNamespace"
      [] m.op = "deregister" -> "deregisterSveltosCluster"

EntryPoint(m) ==
    CASE m.op = "push"          -> "onboardSveltosCluster"
      [] m.op = "wi" /\ m.ca    -> "patchCASecret"
      [] m.op = "wi" /\ ~m.ca   -> "patchSveltosClusterWithWorkloadIdentity"
      [] m.op = "pull"          -> "createNamespace"
      [] m.op = "deregister"    -> "deregisterSveltosCluster"

(* A command is started when no other runs, or beside others where every   *)
(* one of them may overlap.                                                *)
Start(p) ==
    /\ ~Running(p)
    /\ \E m \in Commands :
         /\ \A q \in Procs : Running(q) => {m.op, proc[q].cmd.op} \subseteq Overlap
         /\ proc' = [proc EXCEPT ![p] = Process(EntryPoint(m), m)]
    /\ fresh' = [fresh EXCEPT ![p] = NoKey]
    /\ UNCHANGED <<store, torn>>

Crash(p) ==
    /\ Running(p) /\ proc[p].cmd.op \in CrashOps
    /\ proc' = Finished(p, "failed")
    /\ UNCHANGED <<store, fresh, torn>>

(* The token controller of Kubernetes fills a Secret of type               *)
(* service-account-token whose ServiceAccount exists.                      *)
FillToken(c) ==
    /\ store[Key("token", c)] = "empty" /\ Present("serviceAccount", c)
    /\ store' = [store EXCEPT ![Key("token", c)] = "filled"]
    /\ fresh' = [q \in Procs |-> IF fresh[q] = Key("token", c) THEN NoKey
                                 ELSE fresh[q]]
    /\ UNCHANGED <<proc, torn>>

Push(p) == onboardSveltosCluster(p) \/ patchSecret(p) \/ patchSveltosCluster(p)
WorkloadIdentity(p) == \/ patchCASecret(p)
                       \/ patchSveltosClusterWithWorkloadIdentity(p)
Pull(p) == \/ createNamespace(p) \/ createServiceAccount(p)
           \/ createSecret(p) \/ createRole(p) \/ createClusterRole(p)
           \/ createRoleBinding(p) \/ createClusterRoleBinding(p)
           \/ createSveltosCluster(p) \/ getKubeconfig(p)
Deregister(p) == \/ deregisterSveltosCluster(p) \/ deleteGet(p)
                 \/ deleteCall(p) \/ deleteSveltosCluster(p)
                 \/ orphansDeleted(p)

Step(p) == Push(p) \/ WorkloadIdentity(p) \/ Pull(p) \/ Deregister(p)

Next == \/ \E p \in Procs : Start(p) \/ Step(p) \/ Crash(p)
        \/ \E c \in Clusters : FillToken(c)

Spec == Init /\ [][Next]_vars

(* A process that runs keeps making calls; it need not be started. *)
FairSpec == Spec /\ \A p \in Procs : WF_vars(Step(p))

-----------------------------------------------------------------------------
(* Properties                                                              *)

(* Every resource has the shape its kind allows and every process is at a  *)
(* call of one of the functions above.                                     *)
TypeOK == /\ DOMAIN store = Keys
          /\ store = [k \in Keys |-> store[k]]
          /\ \A k \in Keys : store[k] \in Objects(k[1]) \cup {Absent}
          /\ proc \in [Procs -> Locals]
          /\ fresh \in [Procs -> Keys \cup {NoKey}]
          /\ torn \subseteq Clusters

Elements(s) == {s[i] : i \in DOMAIN s}

PullModeNeeds == {"serviceAccount", "token", "role", "clusterRole",
                  "clusterRoleBinding"}

(* What the SveltosCluster of c refers to: the resources the controllers   *)
(* of Sveltos, or the agent in the managed cluster, reach it with.         *)
Needs(spec) ==
    {kind \in ClusterKinds : \/ kind = "kubeconfig" /\ spec.keyName
                             \/ kind = "ca" /\ spec.wi = "ca"
                             \/ kind \in PullModeNeeds /\ spec.pullMode}

(* No SveltosCluster names a kubeconfig Secret, a CA Secret or the         *)
(* pull-mode resources while they are missing, whatever calls fail, are    *)
(* retried or are cut short by a crash and whatever else registers the     *)
(* same cluster meanwhile: but for clusters in `torn`.  Those are the ones *)
(* a deregister has begun to take apart, and a cluster stays one of them   *)
(* after that deregister was killed, failed, or ended while another        *)
(* command ran on the cluster, until a deregister of it gets to the end    *)
(* with nothing else running on it.  So nothing is said of what an         *)
(* interrupted deregister leaves, nor of what a registration beside a      *)
(* deregister leaves once both have ended: there the code lets a           *)
(* SveltosCluster name Secrets that are gone.                              *)
CredentialsBacked ==
    \A c \in Clusters \ torn :
        Present("sveltosCluster", c) =>
            \A kind \in Needs(store[Key("sveltosCluster", c)]) :
                Present(kind, c)

Succeeds(p, op) == Running(p) /\ proc[p].cmd.op = op /\ proc'[p].at = "ok"
Left(kind, p) == store'[Key(kind, proc[p].cmd.cluster)]

(* A deregister that reports success and logged no warning has removed     *)
(* every resource any register ever made for the cluster, also those that  *)
(* commands which failed, were killed or were only partly undone left: but *)
(* for pull-mode resources whose SveltosCluster was gone from the start.   *)
CleanSlate ==
    [][\A p \in Procs :
         Succeeds(p, "deregister") /\ ~proc[p].warned =>
             \A kind \in ClusterKinds :
                 \/ Left(kind, p) = Absent
                 \/ proc[p].at = "deleteOrphans" /\ kind \in Elements(PullModeKinds)]_vars

(* A push or workload-identity registration that reports success leaves    *)
(* the labels, the shard, the reference to the kubeconfig Secret, the      *)
(* Secret it uploaded and (workload identity) the kind of identity as its  *)
(* options ask, whatever an earlier command, successful or not, had left;  *)
(* a SveltosCluster it created is as asked in every part.  One that was    *)
(* there keeps what the code does not touch: the renewal option and        *)
(* pullMode, and under a push registration also the workload identity      *)
(* (KubeconfigDeleted shows what comes of that).                           *)
RegisteredAsAsked ==
    [][\A p \in Procs :
         LET m == proc[p].cmd
             spec == Left("sveltosCluster", p)
         IN /\ Succeeds(p, "push") \/ Succeeds(p, "wi") =>
                  /\ spec.labels = m.labels /\ spec.shard = m.shard
                  /\ spec.keyName = (m.op = "push")
                  /\ Present("sveltosCluster", m.cluster)
                       \/ spec = NewSveltosCluster(m)
            /\ Succeeds(p, "push") => Left("kubeconfig", p) = m.data
            /\ Succeeds(p, "wi") =>
                  /\ spec.wi = IF m.ca THEN "ca" ELSE "plain"
                  /\ m.ca => Left("ca", p) = m.data]_vars

(* Of pull-mode registrations: the labels asked for are added, the shard   *)
(* and the rules of the ClusterRole are those of this invocation, and the  *)
(* binding is for this cluster's ServiceAccount.                           *)
PulledAsAsked ==
    [][\A p \in Procs : Succeeds(p, "pull") =>
         LET m == proc[p].cmd
             spec == Left("sveltosCluster", p)
         IN /\ spec.pullMode /\ m.labels \subseteq spec.labels
            /\ spec.shard = m.shard
            /\ Left("clusterRole", p) = m.release
            /\ Left("clusterRoleBinding", p) = m.cluster]_vars

(* The YAML of a pull-mode registration is only printed with a token in    *)
(* it, and, unless the cluster is in `torn`, with the Role, the            *)
(* ClusterRole and the ClusterRoleBinding of its account in place.  The    *)
(* RoleBinding is left out: createRoleBinding drops every error.           *)
PullUsable ==
    [][\A p \in Procs : Succeeds(p, "pull") =>
         /\ Left("token", p) = "filled"
         /\ \/ proc[p].cmd.cluster \in torn
            \/ \A kind \in PullModeNeeds : Left(kind, p) # Absent]_vars

(* Every command comes to an end, however its calls fail and whatever      *)
(* other processes do to the resources it works on.                        *)
Termination == \A p \in Procs : Running(p) ~> ~Running(p)

-----------------------------------------------------------------------------
(* What the repository says of the program and the program does not do     *)

(* "This command will delete: [...] The associated kubeconfig Secret".     *)
KubeconfigDeleted ==
    [][\A p \in Procs : Succeeds(p, "deregister") /\ ~proc[p].warned =>
         Left("kubeconfig", p) = Absent]_vars

(* "This binds serviceAccount with clusterRole": the account of a cluster  *)
(* registered in pull mode has its binding, unless the cluster is torn.    *)
(* Clusters whose namespace and name join to the same string share one.    *)
AccountsBound ==
    \A c \in Clusters \ torn :
        Present("sveltosCluster", c) /\ store[Key("sveltosCluster", c)].pullMode
            => store[Key("clusterRoleBinding", c)] = c
=============================================================================
