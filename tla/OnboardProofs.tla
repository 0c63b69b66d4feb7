---------------------------- MODULE OnboardProofs ----------------------------
(***************************************************************************)
(* Theorems about Onboard, for any number of processes, of clusters and of *)
(* command lines.                                                          *)
(***************************************************************************)
EXTENDS Onboard, TLAPS

Positions == [at : Functions \cup Ended,
              step : {"get", "create", "update", "delete"}]

(* Whoever holds the latest resourceVersion of a key has read an object     *)
(* that is still there.                                                    *)
HeldIsPresent == \A p \in Procs : fresh[p] \in Keys => store[fresh[p]] # Absent

TypeInv == TypeOK /\ HeldIsPresent

(* A key belongs to one kind of resource. *)
LEMMA KeyType ==
    ASSUME NEW kind \in Kinds, NEW c \in Clusters
    PROVE  Key(kind, c) \in Keys /\ Key(kind, c)[1] = kind
BY NamesAssumption DEF Key, Keys, Kinds, ClusterKinds, NamespacedKinds, ScopedKinds

(* The process that runs a command works on one of the clusters. *)
LEMMA CommandType ==
    ASSUME TypeOK, NEW p \in Procs
    PROVE  /\ proc[p] \in Locals
           /\ proc[p].cmd \in CommandSet
           /\ proc[p].cmd.cluster \in Clusters
BY CommandsAssumption DEF TypeOK, Locals, CommandSet

(* Going to a call of a function, counting a retry and ending a process    *)
(* keep the local states well formed.                                      *)
LEMMA ProcessType ==
    ASSUME NEW f \in Functions \cup Ended, NEW m \in Commands
    PROVE  Process(f, m) \in Locals
BY BoundsAssumption DEF Process, Locals

LEMMA MovedType ==
    ASSUME TypeOK, NEW p \in Procs, NEW pos \in Positions
    PROVE  Moved(p, pos) \in [Procs -> Locals]
<1>. DEFINE l == [Process(pos.at, proc[p].cmd) EXCEPT !.step = pos.step]
<1>1. proc[p].cmd \in Commands
  BY DEF TypeOK, Locals
<1>2. Process(pos.at, proc[p].cmd) \in Locals
  BY <1>1, ProcessType DEF Positions
<1>3. l \in Locals
  BY <1>2 DEF Locals, Positions
<1>. QED BY <1>3 DEF TypeOK, Moved

LEMMA RetryType ==
    ASSUME TypeOK, NEW p \in Procs, NEW retried, MayRetry(p, retried)
    PROVE  [proc EXCEPT ![p].tries = @ + 1] \in [Procs -> Locals]
<1>. DEFINE l == [proc[p] EXCEPT !.tries = @ + 1]
<1>1. proc[p] \in Locals /\ proc[p].tries \in 0 .. MaxRetry
  BY DEF TypeOK, Locals
<1>2. proc[p].tries + 1 \in 0 .. MaxRetry
  BY <1>1, BoundsAssumption DEF MayRetry
<1>3. l \in Locals
  BY <1>1, <1>2 DEF Locals
<1>. QED BY <1>3 DEF TypeOK

(* A Get changes nothing on the server. *)
LEMMA GetType ==
    ASSUME TypeInv, NEW p \in Procs, NEW k \in Keys,
           NEW found \in Positions, NEW missing \in Positions,
           NEW failed \in Positions, NEW retried,
           Get(p, k, found, missing, failed, retried)
    PROVE  TypeInv'
<1>. USE DEF TypeInv
<1>1. proc' \in [Procs -> Locals]
  <2>1. CASE \E pos \in {found, missing, failed} : proc' = Moved(p, pos)
    BY <2>1, MovedType
  <2>2. CASE /\ MayRetry(p, retried)
             /\ proc' = [proc EXCEPT ![p].tries = @ + 1]
    BY <2>2, RetryType
  <2>. QED BY <2>1, <2>2 DEF Get
<1>2. fresh' \in [Procs -> Keys \cup {NoKey}]
  BY DEF Get, TypeOK
<1>3. HeldIsPresent'
  BY DEF Get, TypeOK, HeldIsPresent
<1>. QED BY <1>1, <1>2, <1>3 DEF Get, TypeOK

(* A write leaves an object of the key's kind, if it is admitted. *)
LEMMA WriteType ==
    ASSUME TypeInv, NEW p \in Procs, NEW k \in Keys, NEW admitted, NEW val,
           NEW next \in Positions, NEW rejected \in Positions,
           NEW failed \in Positions, NEW retried,
           admitted => val \in Objects(k[1]),
           Write(p, k, admitted, val, next, rejected, failed, retried)
    PROVE  TypeInv'
<1>. USE DEF TypeInv
<1>1. PICK answer \in {"served"} \cup Faults, again \in BOOLEAN :
         /\ again => MayRetry(p, retried)
         /\ store' = IF admitted /\ answer # "refused"
                     THEN [store EXCEPT ![k] = val] ELSE store
         /\ fresh' = [q \in Procs |->
                        IF (q = p /\ ~again)
                             \/ (admitted /\ answer # "refused"
                                   /\ store[k] # val /\ fresh[q] = k)
                        THEN NoKey ELSE fresh[q]]
         /\ proc' = IF again THEN [proc EXCEPT ![p].tries = @ + 1]
                    ELSE Moved(p, IF answer # "served" THEN failed
                                  ELSE IF admitted THEN next ELSE rejected)
  BY DEF Write
<1>2. /\ DOMAIN store' = Keys
      /\ store' = [x \in Keys |-> store'[x]]
      /\ \A x \in Keys : store'[x] \in Objects(x[1]) \cup {Absent}
  BY <1>1 DEF TypeOK
<1>3. proc' \in [Procs -> Locals]
  BY <1>1, MovedType, RetryType
<1>4. fresh' \in [Procs -> Keys \cup {NoKey}]
  BY <1>1 DEF TypeOK
<1>5. k[1] \in Kinds /\ (admitted => val # Absent)
  BY AbsentAssumption DEF Keys
<1>6. HeldIsPresent'
  BY <1>1, <1>5, AbsentAssumption DEF TypeOK, HeldIsPresent
<1>. QED BY <1>2, <1>3, <1>4, <1>6 DEF Write, TypeOK

LEMMA FailedPosition == Failed \in Positions
BY DEF Failed, At, Positions, Ended

LEMMA PositionType ==
    ASSUME NEW f \in Functions \cup Ended,
           NEW s \in {"get", "create", "update", "delete"}
    PROVE  At(f, s) \in Positions
BY DEF At, Positions

(* The three calls of Patch and of CreateOrRefresh, and CreateOnce. *)
LEMMA CreateType ==
    ASSUME TypeInv, NEW p \in Procs, NEW kind \in Kinds, NEW val \in Objects(kind),
           NEW next \in Positions, NEW exists \in Positions, NEW retried,
           Create(p, kind, val, next, exists, retried)
    PROVE  TypeInv'
<1>. DEFINE k == Key(kind, proc[p].cmd.cluster)
<1>1. k \in Keys /\ val \in Objects(k[1])
  BY KeyType, CommandType DEF TypeInv
<1>2. PICK admitted \in BOOLEAN :
        Write(p, k, admitted, val, next,
              IF store[k] # Absent THEN exists ELSE Failed, Failed, retried)
  BY DEF Create
<1>. QED BY <1>1, <1>2, WriteType, FailedPosition

LEMMA UpdateType ==
    ASSUME TypeInv, NEW p \in Procs, NEW kind \in Kinds, NEW val,
           store[Key(kind, proc[p].cmd.cluster)] \in Objects(kind)
               => val \in Objects(kind),
           NEW next \in Positions, NEW retried,
           Update(p, kind, val, next, retried)
    PROVE  TypeInv'
<1>. DEFINE k == Key(kind, proc[p].cmd.cluster)
<1>1. k \in Keys /\ k[1] = kind
  BY KeyType, CommandType DEF TypeInv
<1>2. fresh[p] = k => val \in Objects(k[1])
  BY <1>1 DEF TypeInv, TypeOK, HeldIsPresent
<1>3. Write(p, k, fresh[p] = k, val, next, Failed, Failed, retried)
  BY DEF Update
<1>. QED BY <1>1, <1>2, <1>3, WriteType, FailedPosition

LEMMA HereType ==
    ASSUME TypeInv, NEW p \in Procs
    PROVE  /\ At(proc[p].at, "create") \in Positions
           /\ At(proc[p].at, "update") \in Positions
BY PositionType, CommandType DEF TypeInv, Locals

LEMMA PatchType ==
    ASSUME TypeInv, NEW p \in Procs, NEW kind \in Kinds,
           NEW created \in Objects(kind), NEW updated,
           store[Key(kind, proc[p].cmd.cluster)] \in Objects(kind)
               => updated \in Objects(kind),
           NEW next \in Positions,
           \/ Patch(p, kind, created, updated, next)
           \/ CreateOrRefresh(p, kind, created, updated, next)
    PROVE  TypeInv'
<1>. DEFINE k == Key(kind, proc[p].cmd.cluster)
<1>1. k \in Keys
  BY KeyType, CommandType DEF TypeInv
<1>2. CASE \E failed \in Positions, retried \in BOOLEAN :
              Get(p, k, At(proc[p].at, "update"), At(proc[p].at, "create"),
                  failed, retried)
  BY <1>1, <1>2, GetType, HereType
<1>3. CASE \E exists \in Positions, retried \in BOOLEAN :
              Create(p, kind, created, next, exists, retried)
  BY <1>3, CreateType
<1>4. CASE \E retried \in BOOLEAN : Update(p, kind, updated, next, retried)
  BY <1>4, UpdateType
<1>. QED BY <1>2, <1>3, <1>4, FailedPosition, HereType DEF Patch, CreateOrRefresh

(* The SveltosCluster a registration writes is well formed. *)
LEMMA SpecType ==
    ASSUME NEW m \in CommandSet
    PROVE  /\ NewSveltosCluster(m) \in ClusterSpecs
           /\ \A old \in ClusterSpecs :
                /\ [old EXCEPT !.labels = m.labels, !.keyName = TRUE,
                               !.shard = m.shard] \in ClusterSpecs
                /\ [old EXCEPT !.labels = m.labels, !.keyName = FALSE,
                               !.wi = NewSveltosCluster(m).wi,
                               !.shard = m.shard] \in ClusterSpecs
                /\ [old EXCEPT !.labels = @ \cup m.labels,
                               !.shard = m.shard] \in ClusterSpecs
BY DEF NewSveltosCluster, ClusterSpecs, CommandSet

LEMMA PushType ==
    ASSUME TypeInv, NEW p \in Procs, Push(p)
    PROVE  TypeInv'
<1>. DEFINE m == proc[p].cmd
<1>1. m \in CommandSet
  BY CommandType DEF TypeInv
<1>2. CASE onboardSveltosCluster(p)
  <2>1. Key("kubeconfig", m.cluster) \in Keys
    BY KeyType, CommandType DEF TypeInv, Kinds, ClusterKinds, NamespacedKinds
  <2>2. At("patchSecret", "get") \in Positions
    BY PositionType DEF Functions
  <2>. QED BY <1>2, <2>1, <2>2, GetType, FailedPosition DEF onboardSveltosCluster
<1>3. CASE patchSecret(p)
  <2>1. m.data \in Objects("kubeconfig") /\ "kubeconfig" \in Kinds
    BY <1>1 DEF Objects, CommandSet, Kinds, ClusterKinds, NamespacedKinds
  <2>2. At("patchSveltosCluster", "get") \in Positions
    BY PositionType DEF Functions
  <2>. QED BY <1>3, <2>1, <2>2, PatchType DEF patchSecret
<1>4. CASE patchSveltosCluster(p)
  <2>1. Objects("sveltosCluster") = ClusterSpecs /\ "sveltosCluster" \in Kinds
    BY DEF Objects, Kinds, ClusterKinds, NamespacedKinds
  <2>2. At("ok", "get") \in Positions
    BY PositionType DEF Ended
  <2>. QED BY <1>1, <1>4, <2>1, <2>2, PatchType, SpecType DEF patchSveltosCluster
<1>. QED BY <1>2, <1>3, <1>4 DEF Push

LEMMA WorkloadIdentityType ==
    ASSUME TypeInv, NEW p \in Procs, WorkloadIdentity(p)
    PROVE  TypeInv'
<1>. DEFINE m == proc[p].cmd
<1>1. m \in CommandSet
  BY CommandType DEF TypeInv
<1>2. CASE patchCASecret(p)
  <2>1. m.data \in Objects("ca") /\ "ca" \in Kinds
    BY <1>1 DEF Objects, CommandSet, Kinds, ClusterKinds, NamespacedKinds
  <2>2. At("patchSveltosClusterWithWorkloadIdentity", "get") \in Positions
    BY PositionType DEF Functions
  <2>. QED BY <1>2, <2>1, <2>2, PatchType DEF patchCASecret
<1>3. CASE patchSveltosClusterWithWorkloadIdentity(p)
  <2>1. Objects("sveltosCluster") = ClusterSpecs /\ "sveltosCluster" \in Kinds
    BY DEF Objects, Kinds, ClusterKinds, NamespacedKinds
  <2>2. At("ok", "get") \in Positions
    BY PositionType DEF Ended
  <2>. QED BY <1>1, <1>3, <2>1, <2>2, PatchType, SpecType
           DEF patchSveltosClusterWithWorkloadIdentity
<1>. QED BY <1>2, <1>3 DEF WorkloadIdentity

LEMMA CreateOnceType ==
    ASSUME TypeInv, NEW p \in Procs, NEW kind \in Kinds,
           NEW val \in Objects(kind), NEW next \in Positions,
           CreateOnce(p, kind, val, next)
    PROVE  TypeInv'
BY CreateType DEF CreateOnce

LEMMA PullType ==
    ASSUME TypeInv, NEW p \in Procs, Pull(p)
    PROVE  TypeInv'
<1>. DEFINE m == proc[p].cmd
<1>1. m \in CommandSet /\ m.cluster \in Clusters
  BY CommandType DEF TypeInv
<1>2. \A kind \in {"namespace", "serviceAccount"} : "present" \in Objects(kind)
  BY DEF Objects
<1>3. \A kind \in {"role", "clusterRole"} : m.release \in Objects(kind)
  BY <1>1 DEF Objects, CommandSet
<1>4. \A kind \in {"roleBinding", "clusterRoleBinding"} : m.cluster \in Objects(kind)
  BY <1>1 DEF Objects
<1>5. {"namespace", "serviceAccount", "token", "role", "clusterRole",
       "roleBinding", "clusterRoleBinding", "sveltosCluster"} \subseteq Kinds
  BY DEF Kinds, ClusterKinds, NamespacedKinds, ScopedKinds
<1>6. \A f \in Functions \cup Ended : /\ At(f, "get") \in Positions
                                    /\ At(f, "create") \in Positions
  BY PositionType
<1>. USE <1>6
<1>7. CASE createNamespace(p)
  BY <1>2, <1>5, <1>7, CreateOnceType DEF createNamespace, Functions
<1>8. CASE createServiceAccount(p)
  BY <1>2, <1>5, <1>8, CreateOnceType DEF createServiceAccount, Functions
<1>9. CASE createSecret(p)
  <2>1. "empty" \in Objects("token")
    BY DEF Objects
  <2>. QED BY <1>5, <1>9, <2>1, CreateOnceType DEF createSecret, Functions
<1>10. CASE createRole(p)
  <2>1. CASE proc[p].step = "get"
    <3>1. proc' = Moved(p, At("createRole", "create"))
      BY <1>10, <2>1 DEF createRole
    <3>2. proc' \in [Procs -> Locals]
      BY <3>1, MovedType DEF TypeInv, Functions
    <3>. QED BY <1>10, <2>1, <3>2 DEF createRole, TypeInv, TypeOK, HeldIsPresent
  <2>2. CASE proc[p].step # "get"
    BY <1>3, <1>5, <1>10, <2>2, CreateOnceType DEF createRole, Functions
  <2>. QED BY <2>1, <2>2
<1>11. CASE createClusterRole(p)
  BY <1>3, <1>5, <1>11, PatchType DEF createClusterRole, Functions
<1>12. CASE createRoleBinding(p)
  <2>1. /\ Key("roleBinding", m.cluster) \in Keys
        /\ m.cluster \in Objects(Key("roleBinding", m.cluster)[1])
    BY <1>1, <1>4, <1>5, KeyType
  <2>. QED BY <1>12, <2>1, WriteType DEF createRoleBinding, Functions
<1>13. CASE createClusterRoleBinding(p)
  BY <1>4, <1>5, <1>13, CreateOnceType DEF createClusterRoleBinding, Functions
<1>14. CASE createSveltosCluster(p)
  <2>1. Objects("sveltosCluster") = ClusterSpecs
    BY DEF Objects
  <2>. QED BY <1>1, <1>5, <1>14, <2>1, PatchType, SpecType
           DEF createSveltosCluster, Functions
<1>15. CASE getKubeconfig(p)
  <2>1. proc' \in [Procs -> Locals]
    BY <1>15, MovedType, FailedPosition DEF getKubeconfig, TypeInv, Ended
  <2>. QED BY <1>15, <2>1 DEF getKubeconfig, TypeInv, TypeOK, HeldIsPresent
<1>. QED BY <1>7, <1>8, <1>9, <1>10, <1>11, <1>12, <1>13, <1>14, <1>15 DEF Pull

(* A deletion leaves nobody with a resourceVersion of what it deleted. *)
LEMMA DeleteType ==
    ASSUME TypeInv, NEW k \in Keys, NEW gone \in BOOLEAN,
           store' = IF gone THEN [store EXCEPT ![k] = Absent] ELSE store,
           fresh' = [q \in Procs |-> IF gone /\ fresh[q] = k THEN NoKey
                                    ELSE fresh[q]]
    PROVE  /\ DOMAIN store' = Keys
           /\ store' = [x \in Keys |-> store'[x]]
           /\ \A x \in Keys : store'[x] \in Objects(x[1]) \cup {Absent}
           /\ fresh' \in [Procs -> Keys \cup {NoKey}]
           /\ HeldIsPresent'
BY AbsentAssumption DEF TypeInv, TypeOK, HeldIsPresent

LEMMA FinishedType ==
    ASSUME TypeInv, NEW p \in Procs, NEW r \in Ended
    PROVE  Finished(p, r) \in [Procs -> Locals]
BY ProcessType, CommandType DEF TypeInv, TypeOK, Finished, Locals

LEMMA ReturnedType ==
    ASSUME TypeInv, NEW p \in Procs, NEW kind \in ClusterKinds,
           NEW error \in BOOLEAN, proc[p].todo # <<>>
    PROVE  Returned(p, kind, error) \in [Procs -> Locals]
<1>. DEFINE l == [proc[p] EXCEPT !.step = "get", !.todo = Tail(@),
                    !.warned = @ \/ error,
                    !.report = IF error THEN @ ELSE @ \cup {kind}]
<1>1. proc[p] \in Locals
  BY CommandType DEF TypeInv
<1>2. /\ Tail(proc[p].todo) \in Seq(ClusterKinds)
      /\ (IF error THEN proc[p].report ELSE proc[p].report \cup {kind})
           \in SUBSET ClusterKinds
      /\ (proc[p].warned \/ error) \in BOOLEAN
  BY <1>1 DEF Locals
<1>3. l \in Locals
  BY <1>1, <1>2 DEF Locals
<1>. QED BY <1>3 DEF Returned, TypeInv, TypeOK

LEMMA DeregisterType ==
    ASSUME TypeInv, NEW p \in Procs, Deregister(p)
    PROVE  TypeInv'
<1>. DEFINE c == proc[p].cmd.cluster
<1>1. /\ proc[p] \in Locals /\ c \in Clusters
      /\ proc \in [Procs -> Locals]
  BY CommandType DEF TypeInv, TypeOK
<1>2. CASE deregisterSveltosCluster(p)
  <2>1. \A spec : KindsToDelete(spec) \in Seq(ClusterKinds)
    <3>1. PullModeKinds \in Seq(ClusterKinds)
      BY DEF PullModeKinds, ClusterKinds, NamespacedKinds, ScopedKinds
    <3>2. /\ PushModeKinds \in Seq(ClusterKinds)
          /\ WorkloadIdentityKinds \in Seq(ClusterKinds)
      BY DEF PushModeKinds, WorkloadIdentityKinds, ClusterKinds, NamespacedKinds
    <3>. QED BY <3>1, <3>2 DEF KindsToDelete
  <2>2. OrphanKinds \in Seq(ClusterKinds)
    BY DEF OrphanKinds, ClusterKinds, NamespacedKinds
  <2>3. \A f \in Functions, kinds \in Seq(ClusterKinds) :
          [proc EXCEPT ![p].at = f, ![p].todo = kinds] \in [Procs -> Locals]
    BY <1>1 DEF Locals
  <2>4. Moved(p, Failed) \in [Procs -> Locals]
    BY MovedType, FailedPosition DEF TypeInv
  <2>5. proc' \in [Procs -> Locals]
    <3>1. \/ proc' = [proc EXCEPT ![p].at = "deleteResources",
                         ![p].todo = KindsToDelete(store[Key("sveltosCluster", c)])]
          \/ proc' = [proc EXCEPT ![p].at = "deleteOrphans",
                                  ![p].todo = OrphanKinds]
          \/ proc' = Moved(p, Failed)
      BY <1>2 DEF deregisterSveltosCluster
    <3>2. {"deleteResources", "deleteOrphans"} \subseteq Functions
      BY DEF Functions
    <3>3. /\ [proc EXCEPT ![p].at = "deleteResources",
               ![p].todo = KindsToDelete(store[Key("sveltosCluster", c)])]
                 \in [Procs -> Locals]
          /\ [proc EXCEPT ![p].at = "deleteOrphans", ![p].todo = OrphanKinds]
                 \in [Procs -> Locals]
      BY <3>2, <2>1, <2>2, <2>3
    <3>. QED BY <3>1, <3>3, <2>4
  <2>. QED BY <1>2, <2>5 DEF deregisterSveltosCluster, TypeInv, TypeOK, HeldIsPresent
<1>3. proc[p].todo # <<>> => Head(proc[p].todo) \in ClusterKinds
  BY <1>1 DEF Locals
<1>4. CASE deleteGet(p)
  <2>1. [proc EXCEPT ![p].step = "delete"] \in [Procs -> Locals]
    BY <1>1 DEF Locals
  <2>2. proc' \in [Procs -> Locals]
    <3>1. /\ Head(proc[p].todo) \in ClusterKinds /\ proc[p].todo # <<>>
          /\ \/ proc' = [proc EXCEPT ![p].step = "delete"]
             \/ proc' = Returned(p, Head(proc[p].todo), FALSE)
             \/ proc' = Returned(p, Head(proc[p].todo), TRUE)
      BY <1>3, <1>4 DEF deleteGet
    <3>2. ASSUME NEW error \in BOOLEAN
          PROVE  Returned(p, Head(proc[p].todo), error) \in [Procs -> Locals]
      BY <3>1, ReturnedType
    <3>3. /\ Returned(p, Head(proc[p].todo), TRUE) \in [Procs -> Locals]
          /\ Returned(p, Head(proc[p].todo), FALSE) \in [Procs -> Locals]
      BY <3>2
    <3>. QED BY <2>1, <3>1, <3>3
  <2>. QED BY <1>4, <2>2 DEF deleteGet, TypeInv, TypeOK, HeldIsPresent
<1>5. CASE deleteCall(p)
  <2>. DEFINE kind == Head(proc[p].todo)
              k == Key(kind, c)
  <2>1. kind \in ClusterKinds /\ k \in Keys
    BY <1>1, <1>3, <1>5, KeyType DEF deleteCall, Kinds
  <2>2. PICK answer \in {"served"} \cup Faults :
          /\ store' = IF answer # "refused"
                      THEN [store EXCEPT ![k] = Absent] ELSE store
          /\ fresh' = [q \in Procs |-> IF answer # "refused" /\ fresh[q] = k
                                       THEN NoKey ELSE fresh[q]]
          /\ proc' = Returned(p, kind, answer # "served" \/ store[k] = Absent)
    BY <1>5 DEF deleteCall
  <2>3. proc' \in [Procs -> Locals]
    BY <1>5, <2>1, <2>2, ReturnedType DEF deleteCall
  <2>4. torn' \subseteq Clusters
    BY <1>1, <1>5 DEF deleteCall, TypeInv, TypeOK
  <2>. QED BY <2>1, <2>2, <2>3, <2>4, DeleteType DEF TypeInv, TypeOK
<1>6. Mended(p) \subseteq Clusters
  BY DEF Mended, TypeInv, TypeOK
<1>7. CASE deleteSveltosCluster(p)
  <2>. DEFINE k == Key("sveltosCluster", c)
  <2>1. k \in Keys
    BY <1>1, KeyType DEF Kinds, ClusterKinds, NamespacedKinds
  <2>2. PICK answer \in {"served"} \cup Faults, again \in BOOLEAN :
          LET applied == store[k] # Absent /\ answer # "refused"
          IN /\ again => MayRetry(p, TRUE)
             /\ store' = IF applied THEN [store EXCEPT ![k] = Absent]
                         ELSE store
             /\ fresh' = [q \in Procs |-> IF applied /\ fresh[q] = k
                                          THEN NoKey ELSE fresh[q]]
             /\ torn' = IF applied THEN Mended(p) ELSE torn
             /\ proc' = IF again THEN [proc EXCEPT ![p].tries = @ + 1]
                        ELSE IF answer = "served" /\ store[k] # Absent
                        THEN Finished(p, "ok") ELSE Finished(p, "failed")
    BY <1>7 DEF deleteSveltosCluster
  <2>3. proc' \in [Procs -> Locals]
    BY <2>2, RetryType, FinishedType DEF TypeInv, Ended
  <2>4. torn' \subseteq Clusters
    BY <1>6, <2>2 DEF TypeInv, TypeOK
  <2>. QED BY <2>1, <2>2, <2>3, <2>4, DeleteType DEF TypeInv, TypeOK
<1>8. CASE orphansDeleted(p)
  <2>1. proc' \in [Procs -> Locals] /\ torn' \subseteq Clusters
    BY <1>6, <1>8, FinishedType DEF orphansDeleted, TypeInv, TypeOK, Ended
  <2>. QED BY <1>8, <2>1 DEF orphansDeleted, TypeInv, TypeOK, HeldIsPresent
<1>. QED BY <1>2, <1>4, <1>5, <1>7, <1>8 DEF Deregister

LEMMA EnvironmentType ==
    ASSUME TypeInv
    PROVE  /\ \A p \in Procs : Start(p) \/ Crash(p) => TypeInv'
           /\ \A c \in Clusters : FillToken(c) => TypeInv'
<1>1. ASSUME NEW p \in Procs, Start(p)
      PROVE  TypeInv'
  <2>1. \A m \in Commands : EntryPoint(m) \in Functions
    BY CommandsAssumption DEF CommandSet, Ops, EntryPoint, Functions
  <2>2. proc' \in [Procs -> Locals]
    BY <1>1, <2>1, ProcessType DEF Start, TypeInv, TypeOK
  <2>3. fresh' \in [Procs -> Keys \cup {NoKey}] /\ HeldIsPresent'
    BY <1>1, AbsentAssumption DEF Start, TypeInv, TypeOK, HeldIsPresent
  <2>. QED BY <1>1, <2>2, <2>3 DEF Start, TypeInv, TypeOK
<1>2. ASSUME NEW p \in Procs, Crash(p)
      PROVE  TypeInv'
  BY <1>2, FinishedType DEF Crash, TypeInv, TypeOK, HeldIsPresent, Ended
<1>3. ASSUME NEW c \in Clusters, FillToken(c)
      PROVE  TypeInv'
  <2>1. Key("token", c) \in Keys /\ Key("token", c)[1] = "token"
    BY KeyType DEF Kinds, ClusterKinds, NamespacedKinds
  <2>2. "filled" \in Objects("token") /\ "filled" # Absent
    BY AbsentAssumption DEF Objects, Kinds, ClusterKinds, NamespacedKinds
  <2>3. HeldIsPresent' /\ fresh' \in [Procs -> Keys \cup {NoKey}]
    BY <1>3, <2>1, <2>2, AbsentAssumption DEF FillToken, TypeInv, TypeOK, HeldIsPresent
  <2>. QED BY <1>3, <2>1, <2>2, <2>3 DEF FillToken, TypeInv, TypeOK
<1>. QED BY <1>1, <1>2, <1>3

LEMMA InitType == Init => TypeInv
<1>. SUFFICES ASSUME Init PROVE TypeInv
  OBVIOUS
<1>1. \A m \in Commands : Process("ready", m) \in Locals
  BY ProcessType DEF Ended
<1>2. \A k \in Keys : k[1] = "namespace" => "present" \in Objects(k[1])
  BY DEF Objects
<1>. QED BY <1>1, <1>2, AbsentAssumption DEF Init, TypeInv, TypeOK, HeldIsPresent

LEMMA NextType == TypeInv /\ [Next]_vars => TypeInv'
<1>. SUFFICES ASSUME TypeInv, [Next]_vars PROVE TypeInv'
  OBVIOUS
<1>1. CASE UNCHANGED vars
  BY <1>1 DEF vars, TypeInv, TypeOK, HeldIsPresent
<1>2. CASE \E p \in Procs : Step(p)
  BY <1>2, PushType, WorkloadIdentityType, PullType, DeregisterType DEF Step
<1>3. CASE \E p \in Procs : Start(p) \/ Crash(p)
  BY <1>3, EnvironmentType
<1>4. CASE \E c \in Clusters : FillToken(c)
  BY <1>4, EnvironmentType
<1>. QED BY <1>1, <1>2, <1>3, <1>4 DEF Next

(* Every resource keeps its shape and every process its place in a         *)
(* function of the program; in particular no call is tried more than       *)
(* MaxRetry times over.                                                    *)
THEOREM TypeCorrect == Spec => []TypeOK
BY InitType, NextType, PTL DEF Spec, TypeInv

-----------------------------------------------------------------------------
(* CredentialsBacked is not inductive: that a SveltosCluster is only        *)
(* written once what it needs is there depends on the order of the calls   *)
(* of every process.  The strengthening says what a process has made sure  *)
(* of by the time it executes a function.                                  *)

PushFunctions == {"onboardSveltosCluster", "patchSecret", "patchSveltosCluster"}
WorkloadIdentityFunctions ==
    {"patchCASecret", "patchSveltosClusterWithWorkloadIdentity"}
AfterClusterRoleBinding == {"createSveltosCluster", "getKubeconfig"}
AfterClusterRole ==
    AfterClusterRoleBinding \cup {"createRoleBinding", "createClusterRoleBinding"}
AfterRole == AfterClusterRole \cup {"createClusterRole"}
AfterToken == AfterRole \cup {"createRole"}
AfterServiceAccount == AfterToken \cup {"createSecret"}
PullFunctions == AfterServiceAccount \cup {"createNamespace", "createServiceAccount"}
DeregisterFunctions ==
    {"deregisterSveltosCluster", "deleteResources", "deleteOrphans"}

(* The functions a process executes are those of its command. *)
Fits(f, op) == /\ f \in PushFunctions => op = "push"
               /\ f \in WorkloadIdentityFunctions => op = "wi"
               /\ f \in PullFunctions => op = "pull"
               /\ f \in DeregisterFunctions => op = "deregister"

(* The kinds of resource command m has seen to on entering function f. *)
Secured(f, m) ==
    {kind \in ClusterKinds :
       \/ kind = "kubeconfig" /\ f = "patchSveltosCluster"
       \/ /\ kind = "ca" /\ m.ca
          /\ f = "patchSveltosClusterWithWorkloadIdentity"
       \/ kind = "serviceAccount" /\ f \in AfterServiceAccount
       \/ kind = "token" /\ f \in AfterToken
       \/ kind = "role" /\ f \in AfterRole
       \/ kind = "clusterRole" /\ f \in AfterClusterRole
       \/ kind = "clusterRoleBinding" /\ f \in AfterClusterRoleBinding}

SecuredIsPresent ==
    \A p \in Procs :
        /\ Fits(proc[p].at, proc[p].cmd.op)
        /\ proc[p].cmd.cluster \notin torn =>
             \A kind \in Secured(proc[p].at, proc[p].cmd) :
                 Present(kind, proc[p].cmd.cluster)

IInv == TypeInv /\ CredentialsBacked /\ SecuredIsPresent

(* The names of cluster-scoped resources tell clusters apart: namespace    *)
(* and name joined by "-" are not ambiguous.                               *)
DistinctNames == \A c, d \in Clusters : ScopedName[c] = ScopedName[d] => c = d

(* Different resources have different keys. *)
LEMMA KeysDiffer ==
    ASSUME NEW kind \in Kinds, NEW c \in Clusters,
           NEW other \in Kinds, NEW d \in Clusters,
           Key(kind, c) = Key(other, d)
    PROVE  /\ kind = other
           /\ kind = "sveltosCluster" => c = d
           /\ DistinctNames /\ kind \in ClusterKinds => c = d
BY DEF Key, Kinds, ClusterKinds, NamespacedKinds, ScopedKinds, DistinctNames

(* A step of one process that takes nothing away preserves IInv if what    *)
(* the process has now seen to, and what the SveltosClusters now need, is  *)
(* there.                                                                  *)
LEMMA GrowingStep ==
    ASSUME IInv, TypeInv', torn' = torn, NEW p \in Procs,
           \A q \in Procs \ {p} : proc'[q] = proc[q],
           \A x \in Keys : store[x] # Absent => store'[x] # Absent,
           Fits(proc'[p].at, proc'[p].cmd.op),
           proc'[p].cmd.cluster \notin torn =>
               \A kind \in Secured(proc'[p].at, proc'[p].cmd) :
                   store'[Key(kind, proc'[p].cmd.cluster)] # Absent,
           \A c \in Clusters \ torn :
               \/ store'[Key("sveltosCluster", c)] = store[Key("sveltosCluster", c)]
               \/ \A kind \in Needs(store'[Key("sveltosCluster", c)]) :
                      store'[Key(kind, c)] # Absent
    PROVE  IInv'
<1>1. \A kind \in ClusterKinds, c \in Clusters : Key(kind, c) \in Keys
  BY KeyType DEF Kinds
<1>2. CredentialsBacked'
  <2>. SUFFICES ASSUME NEW c \in Clusters \ torn,
                       store'[Key("sveltosCluster", c)] # Absent,
                       NEW kind \in Needs(store'[Key("sveltosCluster", c)])
                PROVE  store'[Key(kind, c)] # Absent
    BY DEF CredentialsBacked, Present
  <2>1. CASE store'[Key("sveltosCluster", c)] = store[Key("sveltosCluster", c)]
    <3>1. kind \in ClusterKinds
      BY DEF Needs
    <3>2. store[Key(kind, c)] # Absent
      BY <2>1 DEF IInv, CredentialsBacked, Present
    <3>. QED BY <1>1, <3>1, <3>2
  <2>. QED BY <2>1
<1>3. SecuredIsPresent'
  <2>. SUFFICES ASSUME NEW q \in Procs
                PROVE  /\ Fits(proc'[q].at, proc'[q].cmd.op)
                       /\ proc'[q].cmd.cluster \notin torn =>
                            \A kind \in Secured(proc'[q].at, proc'[q].cmd) :
                                store'[Key(kind, proc'[q].cmd.cluster)] # Absent
    BY DEF SecuredIsPresent, Present
  <2>1. CASE q # p
    <3>1. proc'[q] = proc[q] /\ proc[q].cmd.cluster \in Clusters
      BY <2>1, CommandType DEF IInv, TypeInv
    <3>2. \A kind \in Secured(proc[q].at, proc[q].cmd) : kind \in ClusterKinds
      BY DEF Secured
    <3>. QED BY <1>1, <3>1, <3>2 DEF IInv, SecuredIsPresent, Present
  <2>. QED BY <2>1
<1>. QED BY <1>2, <1>3 DEF IInv

(* A Get does not change what a process has seen to, wherever it goes on   *)
(* in the same function, or to one that asks no more.                      *)
LEMMA GetStep ==
    ASSUME IInv, TypeInv', NEW p \in Procs, NEW k \in Keys,
           NEW found \in Positions, NEW missing \in Positions,
           NEW failed \in Positions, NEW retried,
           Get(p, k, found, missing, failed, retried),
           \A pos \in {found, missing, failed} :
               /\ Fits(pos.at, proc[p].cmd.op)
               /\ Secured(pos.at, proc[p].cmd)
                     \subseteq Secured(proc[p].at, proc[p].cmd)
    PROVE  IInv'
<1>1. store' = store /\ torn' = torn
  BY DEF Get
<1>2. proc \in [Procs -> Locals] /\ p \in Procs
  BY DEF IInv, TypeInv, TypeOK
<1>3. /\ \A q \in Procs \ {p} : proc'[q] = proc[q]
      /\ proc'[p].cmd = proc[p].cmd
      /\ \/ proc'[p].at = proc[p].at
         \/ \E pos \in {found, missing, failed} : proc'[p].at = pos.at
  <2>1. CASE \E pos \in {found, missing, failed} : proc' = Moved(p, pos)
    BY <1>2, <2>1 DEF Moved, Process
  <2>2. CASE proc' = [proc EXCEPT ![p].tries = @ + 1]
    BY <1>2, <2>2 DEF Locals
  <2>. QED BY <2>1, <2>2 DEF Get
<1>4. /\ Fits(proc'[p].at, proc'[p].cmd.op)
      /\ Secured(proc'[p].at, proc'[p].cmd) \subseteq Secured(proc[p].at, proc[p].cmd)
  BY <1>3 DEF IInv, SecuredIsPresent
<1>. QED BY <1>1, <1>3, <1>4, GrowingStep DEF IInv, SecuredIsPresent, Present

(* A write of kind that is admitted adds that kind to what the process has *)
(* seen to; one that is rejected does if the resource exists.  What a      *)
(* SveltosCluster will need must be there when it is written.              *)
LEMMA WriteStep ==
    ASSUME IInv, TypeInv', NEW p \in Procs, NEW kind \in Kinds, NEW admitted,
           NEW val, admitted => val \in Objects(kind),
           NEW next \in Positions, NEW rejected \in Positions,
           NEW failed \in Positions, NEW retried,
           Write(p, Key(kind, proc[p].cmd.cluster), admitted, val, next,
                 rejected, failed, retried),
           \A pos \in {next, rejected, failed} : Fits(pos.at, proc[p].cmd.op),
           admitted => Secured(next.at, proc[p].cmd)
                         \subseteq Secured(proc[p].at, proc[p].cmd) \cup {kind},
           \/ store[Key(kind, proc[p].cmd.cluster)] # Absent
             /\ Secured(rejected.at, proc[p].cmd)
                  \subseteq Secured(proc[p].at, proc[p].cmd) \cup {kind}
           \/ Secured(rejected.at, proc[p].cmd)
                  \subseteq Secured(proc[p].at, proc[p].cmd),
           Secured(failed.at, proc[p].cmd)
             \subseteq Secured(proc[p].at, proc[p].cmd),
           kind = "sveltosCluster" /\ admitted
             /\ proc[p].cmd.cluster \notin torn =>
               \A other \in Needs(val) : Present(other, proc[p].cmd.cluster)
    PROVE  IInv'
<1>. DEFINE m == proc[p].cmd
            k == Key(kind, m.cluster)
<1>1. /\ m.cluster \in Clusters /\ k \in Keys /\ k[1] = kind
      /\ proc \in [Procs -> Locals]
  BY KeyType, CommandType DEF IInv, TypeInv, TypeOK
<1>2. PICK answer \in {"served"} \cup Faults, again \in BOOLEAN :
         /\ store' = IF admitted /\ answer # "refused"
                     THEN [store EXCEPT ![k] = val] ELSE store
         /\ proc' = IF again THEN [proc EXCEPT ![p].tries = @ + 1]
                    ELSE Moved(p, IF answer # "served" THEN failed
                                  ELSE IF admitted THEN next ELSE rejected)
         /\ torn' = torn
  BY DEF Write
<1>3. admitted => val # Absent
  BY AbsentAssumption
<1>4. /\ \A x \in Keys : store[x] # Absent => store'[x] # Absent
      /\ \A x \in Keys \ {k} : store'[x] = store[x]
      /\ admitted /\ answer = "served" => store'[k] # Absent
      /\ store'[k] = store[k] \/ (admitted /\ store'[k] = val)
  BY <1>1, <1>2, <1>3, BoundsAssumption DEF IInv, TypeInv, TypeOK
<1>5. \A q \in Procs \ {p} : proc'[q] = proc[q]
  BY <1>1, <1>2 DEF Moved
<1>6. /\ proc'[p].cmd = m
      /\ \/ proc'[p].at = proc[p].at
         \/ proc'[p].at = failed.at
         \/ proc'[p].at = next.at /\ admitted /\ answer = "served"
         \/ proc'[p].at = rejected.at /\ ~admitted
  <2>1. CASE again
    BY <1>1, <1>2, <2>1 DEF Locals
  <2>2. CASE ~again
    BY <1>1, <1>2, <2>2 DEF Moved, Process
  <2>. QED BY <2>1, <2>2
<1>7. Fits(proc'[p].at, m.op)
  BY <1>6 DEF IInv, SecuredIsPresent
<1>8. ASSUME m.cluster \notin torn,
             NEW other \in Secured(proc'[p].at, m)
      PROVE  store'[Key(other, m.cluster)] # Absent
  <2>1. other \in ClusterKinds /\ Key(other, m.cluster) \in Keys
    BY <1>1, KeyType DEF Secured, Kinds
  <2>2. \/ other \in Secured(proc[p].at, m)
        \/ other = kind /\ store'[k] # Absent
    BY <1>1, <1>4, <1>6
  <2>3. other \in Secured(proc[p].at, m) => store[Key(other, m.cluster)] # Absent
    BY <1>8 DEF IInv, SecuredIsPresent, Present
  <2>. QED BY <1>4, <2>1, <2>2, <2>3
<1>9. ASSUME NEW c \in Clusters \ torn
      PROVE  \/ store'[Key("sveltosCluster", c)] = store[Key("sveltosCluster", c)]
             \/ \A other \in Needs(store'[Key("sveltosCluster", c)]) :
                    store'[Key(other, c)] # Absent
  <2>0. "sveltosCluster" \in Kinds
    BY DEF Kinds, ClusterKinds, NamespacedKinds
  <2>1. CASE Key("sveltosCluster", c) # k
    BY <1>4, <2>0, <2>1, KeyType
  <2>2. CASE Key("sveltosCluster", c) = k
    <3>1. kind = "sveltosCluster" /\ c = m.cluster
      BY <1>1, <2>0, <2>2, KeysDiffer
    <3>2. \A other \in Needs(val) : Key(other, c) \in Keys
      BY KeyType DEF Needs, Kinds
    <3>. QED BY <1>4, <2>2, <3>1, <3>2 DEF Present
  <2>. QED BY <2>1, <2>2
<1>10. /\ Fits(proc'[p].at, proc'[p].cmd.op)
       /\ proc'[p].cmd.cluster \notin torn =>
            \A other \in Secured(proc'[p].at, proc'[p].cmd) :
                store'[Key(other, proc'[p].cmd.cluster)] # Absent
  BY <1>6, <1>7, <1>8
<1>11. \A c \in Clusters \ torn :
         \/ store'[Key("sveltosCluster", c)] = store[Key("sveltosCluster", c)]
         \/ \A other \in Needs(store'[Key("sveltosCluster", c)]) :
                store'[Key(other, c)] # Absent
  BY <1>9
<1>. QED BY <1>2, <1>4, <1>5, <1>10, <1>11, GrowingStep

(* A process that has ended, or that deregisters, vouches for nothing. *)
LEMMA NothingSecured ==
    ASSUME NEW f \in Ended \cup DeregisterFunctions, NEW m
    PROVE  Secured(f, m) = {}
BY DEF Secured, Ended, DeregisterFunctions, AfterServiceAccount, AfterToken,
       AfterRole, AfterClusterRole, AfterClusterRoleBinding

LEMMA EndedFits ==
    ASSUME NEW f \in Ended, NEW op
    PROVE  Fits(f, op)
BY DEF Fits, Ended, PushFunctions, WorkloadIdentityFunctions, PullFunctions,
       DeregisterFunctions, AfterServiceAccount, AfterToken,
       AfterRole, AfterClusterRole, AfterClusterRoleBinding

LEMMA FailedFits ==
    ASSUME NEW m
    PROVE  /\ Failed.at = "failed" /\ Fits(Failed.at, m.op)
           /\ Secured(Failed.at, m) = {}
BY NothingSecured, EndedFits DEF Failed, At, Ended

LEMMA CreateStep ==
    ASSUME IInv, TypeInv', NEW p \in Procs, NEW kind \in Kinds,
           NEW created \in Objects(kind), NEW next \in Positions,
           NEW exists \in {next, Failed}, NEW retried,
           Create(p, kind, created, next, exists, retried),
           Fits(next.at, proc[p].cmd.op),
           Secured(next.at, proc[p].cmd)
             \subseteq Secured(proc[p].at, proc[p].cmd) \cup {kind},
           kind = "sveltosCluster" /\ proc[p].cmd.cluster \notin torn =>
             \A other \in Needs(created) : Present(other, proc[p].cmd.cluster)
    PROVE  IInv'
<1>. DEFINE k == Key(kind, proc[p].cmd.cluster)
            rejected == IF store[k] # Absent THEN exists ELSE Failed
<1>1. PICK admitted \in BOOLEAN :
        Write(p, k, admitted, created, next, rejected, Failed, retried)
  BY DEF Create
<1>2. rejected \in Positions /\ Failed \in Positions
  BY FailedPosition
<1>3. \A pos \in {next, rejected, Failed} : Fits(pos.at, proc[p].cmd.op)
  BY FailedFits
<1>4. \/ /\ store[k] # Absent
         /\ Secured(rejected.at, proc[p].cmd)
              \subseteq Secured(proc[p].at, proc[p].cmd) \cup {kind}
      \/ Secured(rejected.at, proc[p].cmd)
              \subseteq Secured(proc[p].at, proc[p].cmd)
  BY FailedFits
<1>5. Secured(Failed.at, proc[p].cmd) \subseteq Secured(proc[p].at, proc[p].cmd)
  BY FailedFits
<1>. HIDE DEF rejected
<1>. QED BY <1>1, <1>2, <1>3, <1>4, <1>5, WriteStep

LEMMA UpdateStep ==
    ASSUME IInv, TypeInv', NEW p \in Procs, NEW kind \in Kinds, NEW val,
           store[Key(kind, proc[p].cmd.cluster)] \in Objects(kind)
               => val \in Objects(kind),
           NEW next \in Positions, NEW retried,
           Update(p, kind, val, next, retried),
           Fits(next.at, proc[p].cmd.op),
           Secured(next.at, proc[p].cmd)
             \subseteq Secured(proc[p].at, proc[p].cmd) \cup {kind},
           (/\ kind = "sveltosCluster"
            /\ proc[p].cmd.cluster \notin torn
            /\ store[Key(kind, proc[p].cmd.cluster)] # Absent)
             => \A other \in Needs(val) : Present(other, proc[p].cmd.cluster)
    PROVE  IInv'
<1>. DEFINE k == Key(kind, proc[p].cmd.cluster)
<1>1. k \in Keys /\ k[1] = kind
  BY KeyType, CommandType DEF IInv, TypeInv
<1>2. fresh[p] = k => store[k] # Absent /\ val \in Objects(kind)
  BY <1>1 DEF IInv, TypeInv, TypeOK, HeldIsPresent
<1>3. PICK admitted \in BOOLEAN :
        /\ admitted => fresh[p] = k
        /\ Write(p, k, admitted, val, next, Failed, Failed, retried)
  BY DEF Update
<1>4. /\ Failed \in Positions /\ Fits(Failed.at, proc[p].cmd.op)
      /\ Secured(Failed.at, proc[p].cmd) \subseteq Secured(proc[p].at, proc[p].cmd)
  BY FailedPosition, FailedFits
<1>5. kind = "sveltosCluster" /\ fresh[p] = k /\ proc[p].cmd.cluster \notin torn
        => \A other \in Needs(val) : Present(other, proc[p].cmd.cluster)
  BY <1>2
<1>6. \A pos \in {next, Failed, Failed} : Fits(pos.at, proc[p].cmd.op)
  BY <1>4
<1>. QED BY <1>2, <1>3, <1>4, <1>5, <1>6, WriteStep

LEMMA PatchStep ==
    ASSUME IInv, TypeInv', NEW p \in Procs, NEW kind \in Kinds,
           NEW created \in Objects(kind), NEW updated,
           store[Key(kind, proc[p].cmd.cluster)] \in Objects(kind)
               => updated \in Objects(kind),
           NEW next \in Positions,
           \/ Patch(p, kind, created, updated, next)
           \/ CreateOrRefresh(p, kind, created, updated, next),
           Fits(next.at, proc[p].cmd.op),
           Secured(next.at, proc[p].cmd)
             \subseteq Secured(proc[p].at, proc[p].cmd) \cup {kind},
           kind = "sveltosCluster" /\ proc[p].cmd.cluster \notin torn =>
             /\ \A other \in Needs(created) :
                    Present(other, proc[p].cmd.cluster)
             /\ store[Key(kind, proc[p].cmd.cluster)] # Absent =>
                  \A other \in Needs(updated) :
                      Present(other, proc[p].cmd.cluster)
    PROVE  IInv'
<1>. DEFINE k == Key(kind, proc[p].cmd.cluster)
            found == At(proc[p].at, "update")
            missing == At(proc[p].at, "create")
<1>1. k \in Keys /\ found \in Positions /\ missing \in Positions
  BY KeyType, CommandType, HereType DEF IInv, TypeInv
<1>2. found.at = proc[p].at /\ missing.at = proc[p].at
  BY DEF At
<1>3. Fits(proc[p].at, proc[p].cmd.op)
  BY DEF IInv, SecuredIsPresent
<1>4. CASE \E failed \in {missing, Failed}, retried \in BOOLEAN :
              Get(p, k, found, missing, failed, retried)
  <2>1. PICK failed \in {missing, Failed}, retried \in BOOLEAN :
              Get(p, k, found, missing, failed, retried)
    BY <1>4
  <2>2. failed \in Positions
    BY <1>1, FailedPosition
  <2>3. \A pos \in {found, missing, failed} :
          /\ Fits(pos.at, proc[p].cmd.op)
          /\ Secured(pos.at, proc[p].cmd)
                \subseteq Secured(proc[p].at, proc[p].cmd)
    BY <1>2, <1>3, FailedFits
  <2>. HIDE DEF k, found, missing
  <2>. QED BY <1>1, <2>1, <2>2, <2>3, GetStep
<1>5. CASE \E exists \in {next, Failed}, retried \in BOOLEAN :
              Create(p, kind, created, next, exists, retried)
  <2>1. PICK exists \in {next, Failed}, retried \in BOOLEAN :
              Create(p, kind, created, next, exists, retried)
    BY <1>5
  <2>. QED BY <2>1, CreateStep
<1>6. CASE \E retried \in BOOLEAN : Update(p, kind, updated, next, retried)
  <2>1. PICK retried \in BOOLEAN : Update(p, kind, updated, next, retried)
    BY <1>6
  <2>. QED BY <2>1, UpdateStep
<1>. QED BY <1>4, <1>5, <1>6 DEF Patch, CreateOrRefresh

LEMMA SecuredFacts ==
    ASSUME NEW m
    PROVE  /\ Secured("patchSecret", m) = {}
           /\ Secured("patchSveltosCluster", m) = {"kubeconfig"}
           /\ Secured("patchSveltosClusterWithWorkloadIdentity", m)
                \subseteq {"ca"}
           /\ m.ca => "ca" \in Secured("patchSveltosClusterWithWorkloadIdentity", m)
           /\ Secured("createServiceAccount", m) = {}
           /\ Secured("createSecret", m) = {"serviceAccount"}
           /\ Secured("createRole", m) = {"serviceAccount", "token"}
           /\ Secured("createClusterRole", m) = {"serviceAccount", "token", "role"}
           /\ \A f \in {"createRoleBinding", "createClusterRoleBinding"} :
                Secured(f, m) = {"serviceAccount", "token", "role", "clusterRole"}
           /\ \A f \in {"createSveltosCluster", "getKubeconfig"} :
                Secured(f, m) = PullModeNeeds
           /\ Secured("ok", m) = {}
BY DEF Secured, ClusterKinds, NamespacedKinds, ScopedKinds, PullModeNeeds,
       AfterServiceAccount, AfterToken, AfterRole, AfterClusterRole,
       AfterClusterRoleBinding

(* What the SveltosClusters that registrations write need. *)
LEMMA NeedsFacts ==
    ASSUME NEW m \in CommandSet
    PROVE  /\ m.op = "push" => Needs(NewSveltosCluster(m)) \subseteq {"kubeconfig"}
           /\ m.op = "wi" => /\ Needs(NewSveltosCluster(m)) \subseteq {"ca"}
                             /\ ~m.ca => Needs(NewSveltosCluster(m)) = {}
           /\ m.op = "pull" => Needs(NewSveltosCluster(m)) \subseteq PullModeNeeds
           /\ \A old \in ClusterSpecs :
                /\ Needs([old EXCEPT !.labels = m.labels, !.keyName = TRUE,
                                     !.shard = m.shard])
                      \subseteq Needs(old) \cup {"kubeconfig"}
                /\ Needs([old EXCEPT !.labels = m.labels, !.keyName = FALSE,
                                     !.wi = NewSveltosCluster(m).wi,
                                     !.shard = m.shard])
                      \subseteq Needs(old) \cup
                               (IF m.op = "wi" /\ m.ca THEN {"ca"} ELSE {})
                /\ Needs([old EXCEPT !.labels = @ \cup m.labels,
                                     !.shard = m.shard])
                      \subseteq Needs(old)
<1>1. /\ m.op = "push" => Needs(NewSveltosCluster(m)) \subseteq {"kubeconfig"}
      /\ m.op = "wi" => /\ Needs(NewSveltosCluster(m)) \subseteq {"ca"}
                        /\ ~m.ca => Needs(NewSveltosCluster(m)) = {}
      /\ m.op = "pull" => Needs(NewSveltosCluster(m)) \subseteq PullModeNeeds
  BY DEF Needs, NewSveltosCluster, CommandSet
<1>2. ASSUME NEW old \in ClusterSpecs
      PROVE  /\ Needs([old EXCEPT !.labels = m.labels, !.keyName = TRUE,
                                  !.shard = m.shard])
                   \subseteq Needs(old) \cup {"kubeconfig"}
             /\ Needs([old EXCEPT !.labels = @ \cup m.labels,
                                  !.shard = m.shard])
                   \subseteq Needs(old)
  BY DEF Needs, ClusterSpecs
<1>3. ASSUME NEW old \in ClusterSpecs
      PROVE  Needs([old EXCEPT !.labels = m.labels, !.keyName = FALSE,
                               !.wi = NewSveltosCluster(m).wi,
                               !.shard = m.shard])
               \subseteq Needs(old) \cup
                        (IF m.op = "wi" /\ m.ca THEN {"ca"} ELSE {})
  BY DEF Needs, ClusterSpecs, NewSveltosCluster, CommandSet
<1>. QED BY <1>1, <1>2, <1>3

LEMMA PushStep ==
    ASSUME IInv, NEW p \in Procs, Push(p)
    PROVE  IInv'
<1>. DEFINE m == proc[p].cmd
            c == m.cluster
<1>1. m \in CommandSet /\ c \in Clusters
  BY CommandType DEF IInv, TypeInv
<1>2. TypeInv'
  BY PushType DEF IInv
<1>3. proc[p].at \in PushFunctions
  BY DEF Push, PushFunctions, onboardSveltosCluster, patchSecret,
         patchSveltosCluster
<1>4. m.op = "push"
  BY <1>3 DEF IInv, SecuredIsPresent, Fits
<1>5. \A f \in PushFunctions \cup Ended, s \in {"get"} :
         At(f, s).at = f /\ At(f, s) \in Positions /\ Fits(f, m.op)
  BY <1>4, PositionType, EndedFits
     DEF At, Fits, PushFunctions, WorkloadIdentityFunctions, PullFunctions,
         DeregisterFunctions, Functions, AfterServiceAccount, AfterToken,
         AfterRole, AfterClusterRole, AfterClusterRoleBinding
<1>6. {"kubeconfig", "sveltosCluster"} \subseteq Kinds
  BY DEF Kinds, ClusterKinds, NamespacedKinds
<1>7. CASE onboardSveltosCluster(p)
  <2>. DEFINE next == At("patchSecret", "get")
              k == Key("kubeconfig", c)
  <2>1. k \in Keys /\ next \in Positions /\ Failed \in Positions
    BY <1>1, <1>5, <1>6, KeyType, FailedPosition DEF PushFunctions
  <2>2. PICK retried \in BOOLEAN : Get(p, k, next, next, Failed, retried)
    BY <1>7 DEF onboardSveltosCluster
  <2>3. \A pos \in {next, next, Failed} :
          /\ Fits(pos.at, proc[p].cmd.op)
          /\ Secured(pos.at, proc[p].cmd)
                \subseteq Secured(proc[p].at, proc[p].cmd)
    BY <1>5, FailedFits, SecuredFacts DEF PushFunctions
  <2>. HIDE DEF next, k
  <2>. QED BY <1>2, <2>1, <2>2, <2>3, GetStep
<1>8. CASE patchSecret(p)
  <2>. DEFINE next == At("patchSveltosCluster", "get")
  <2>1. next \in Positions /\ Fits(next.at, m.op) /\ next.at = "patchSveltosCluster"
    BY <1>5 DEF PushFunctions
  <2>2. Secured(next.at, m) \subseteq Secured(proc[p].at, m) \cup {"kubeconfig"}
    BY <2>1, SecuredFacts
  <2>3. m.data \in Objects("kubeconfig")
    BY <1>1 DEF Objects, CommandSet
  <2>4. Patch(p, "kubeconfig", m.data, m.data, next)
    BY <1>8 DEF patchSecret
  <2>. HIDE DEF next
  <2>. QED BY <1>2, <1>6, <2>1, <2>2, <2>3, <2>4, PatchStep
<1>9. CASE patchSveltosCluster(p)
  <2>. DEFINE next == At("ok", "get")
              current == store[Key("sveltosCluster", c)]
              updated == [current EXCEPT !.labels = m.labels, !.keyName = TRUE,
                                         !.shard = m.shard]
  <2>1. next \in Positions /\ Fits(next.at, m.op) /\ next.at = "ok"
    BY <1>5 DEF Ended
  <2>2. Secured(next.at, m) = {}
    BY <2>1, SecuredFacts
  <2>3. Objects("sveltosCluster") = ClusterSpecs
    BY DEF Objects
  <2>4. /\ NewSveltosCluster(m) \in Objects("sveltosCluster")
        /\ current \in Objects("sveltosCluster") => updated \in Objects("sveltosCluster")
    BY <1>1, <2>3, SpecType
  <2>5. c \notin torn => Present("kubeconfig", c)
    BY <1>9, SecuredFacts DEF patchSveltosCluster, IInv, SecuredIsPresent
  <2>6. c \notin torn =>
          /\ \A other \in Needs(NewSveltosCluster(m)) : Present(other, c)
          /\ current # Absent => \A other \in Needs(updated) : Present(other, c)
    <3>1. c \notin torn => \A other \in Needs(NewSveltosCluster(m)) : Present(other, c)
      BY <1>1, <1>4, <2>5, NeedsFacts
    <3>2. ASSUME c \notin torn, current # Absent
          PROVE  \A other \in Needs(updated) : Present(other, c)
      <4>1. current \in ClusterSpecs
        BY <1>1, <1>6, <2>3, <3>2, KeyType DEF IInv, TypeInv, TypeOK
      <4>2. Needs(updated) \subseteq Needs(current) \cup {"kubeconfig"}
        BY <1>1, <4>1, NeedsFacts
      <4>3. \A other \in Needs(current) : Present(other, c)
        BY <1>1, <3>2 DEF IInv, CredentialsBacked, Present
      <4>. QED BY <2>5, <3>2, <4>2, <4>3
    <3>. QED BY <3>1, <3>2
  <2>7. Patch(p, "sveltosCluster", NewSveltosCluster(m), updated, next)
    BY <1>9 DEF patchSveltosCluster
  <2>. HIDE DEF next, updated
  <2>. QED BY <1>2, <1>6, <2>1, <2>2, <2>4, <2>6, <2>7, PatchStep
<1>. QED BY <1>7, <1>8, <1>9 DEF Push

LEMMA WorkloadIdentityStep ==
    ASSUME IInv, NEW p \in Procs, WorkloadIdentity(p)
    PROVE  IInv'
<1>. DEFINE m == proc[p].cmd
            c == m.cluster
<1>1. m \in CommandSet /\ c \in Clusters
  BY CommandType DEF IInv, TypeInv
<1>2. TypeInv'
  BY WorkloadIdentityType DEF IInv
<1>3. proc[p].at \in WorkloadIdentityFunctions
  BY DEF WorkloadIdentity, WorkloadIdentityFunctions, patchCASecret,
         patchSveltosClusterWithWorkloadIdentity
<1>4. m.op = "wi"
  BY <1>3 DEF IInv, SecuredIsPresent, Fits
<1>5. \A f \in WorkloadIdentityFunctions \cup Ended, s \in {"get"} :
         At(f, s).at = f /\ At(f, s) \in Positions /\ Fits(f, m.op)
  BY <1>4, PositionType, EndedFits
     DEF At, Fits, PushFunctions, WorkloadIdentityFunctions, PullFunctions,
         DeregisterFunctions, Functions, AfterServiceAccount, AfterToken,
         AfterRole, AfterClusterRole, AfterClusterRoleBinding
<1>6. {"ca", "sveltosCluster"} \subseteq Kinds
  BY DEF Kinds, ClusterKinds, NamespacedKinds
<1>7. CASE patchCASecret(p)
  <2>. DEFINE next == At("patchSveltosClusterWithWorkloadIdentity", "get")
  <2>1. /\ next \in Positions /\ Fits(next.at, m.op)
        /\ next.at = "patchSveltosClusterWithWorkloadIdentity"
    BY <1>5 DEF WorkloadIdentityFunctions
  <2>2. Secured(next.at, m) \subseteq Secured(proc[p].at, m) \cup {"ca"}
    BY <2>1, SecuredFacts
  <2>3. m.data \in Objects("ca")
    BY <1>1 DEF Objects, CommandSet
  <2>4. Patch(p, "ca", m.data, m.data, next)
    BY <1>7 DEF patchCASecret
  <2>. HIDE DEF next
  <2>. QED BY <1>2, <1>6, <2>1, <2>2, <2>3, <2>4, PatchStep
<1>8. CASE patchSveltosClusterWithWorkloadIdentity(p)
  <2>. DEFINE next == At("ok", "get")
              current == store[Key("sveltosCluster", c)]
              updated == [current EXCEPT !.labels = m.labels, !.keyName = FALSE,
                                         !.wi = NewSveltosCluster(m).wi,
                                         !.shard = m.shard]
  <2>1. next \in Positions /\ Fits(next.at, m.op) /\ next.at = "ok"
    BY <1>5 DEF Ended
  <2>2. Secured(next.at, m) = {}
    BY <2>1, SecuredFacts
  <2>3. Objects("sveltosCluster") = ClusterSpecs
    BY DEF Objects
  <2>4. /\ NewSveltosCluster(m) \in Objects("sveltosCluster")
        /\ current \in Objects("sveltosCluster") => updated \in Objects("sveltosCluster")
    BY <1>1, <2>3, SpecType
  <2>5. c \notin torn /\ m.ca => Present("ca", c)
    BY <1>8, SecuredFacts
       DEF patchSveltosClusterWithWorkloadIdentity, IInv, SecuredIsPresent
  <2>6. c \notin torn =>
          /\ \A other \in Needs(NewSveltosCluster(m)) : Present(other, c)
          /\ current # Absent => \A other \in Needs(updated) : Present(other, c)
    <3>1. c \notin torn => \A other \in Needs(NewSveltosCluster(m)) : Present(other, c)
      BY <1>1, <1>4, <2>5, NeedsFacts
    <3>2. ASSUME c \notin torn, current # Absent
          PROVE  \A other \in Needs(updated) : Present(other, c)
      <4>1. current \in ClusterSpecs
        BY <1>1, <1>6, <2>3, <3>2, KeyType DEF IInv, TypeInv, TypeOK
      <4>2. Needs(updated) \subseteq Needs(current) \cup (IF m.ca THEN {"ca"} ELSE {})
        BY <1>1, <1>4, <4>1, NeedsFacts
      <4>3. \A other \in Needs(current) : Present(other, c)
        BY <1>1, <3>2 DEF IInv, CredentialsBacked, Present
      <4>. QED BY <2>5, <3>2, <4>2, <4>3
    <3>. QED BY <3>1, <3>2
  <2>7. Patch(p, "sveltosCluster", NewSveltosCluster(m), updated, next)
    BY <1>8 DEF patchSveltosClusterWithWorkloadIdentity
  <2>. HIDE DEF next, updated
  <2>. QED BY <1>2, <1>6, <2>1, <2>2, <2>4, <2>6, <2>7, PatchStep
<1>. QED BY <1>7, <1>8 DEF WorkloadIdentity

LEMMA CreateOnceStep ==
    ASSUME IInv, TypeInv', NEW p \in Procs, NEW kind \in Kinds \ {"sveltosCluster"},
           NEW val \in Objects(kind), NEW next \in Positions,
           CreateOnce(p, kind, val, next),
           Fits(next.at, proc[p].cmd.op),
           Secured(next.at, proc[p].cmd)
             \subseteq Secured(proc[p].at, proc[p].cmd) \cup {kind}
    PROVE  IInv'
<1>1. PICK retried \in BOOLEAN : Create(p, kind, val, next, next, retried)
  BY DEF CreateOnce
<1>. QED BY <1>1, CreateStep

LEMMA PullStep ==
    ASSUME IInv, NEW p \in Procs, Pull(p)
    PROVE  IInv'
<1>. DEFINE m == proc[p].cmd
            c == m.cluster
<1>1. m \in CommandSet /\ c \in Clusters
  BY CommandType DEF IInv, TypeInv
<1>2. TypeInv'
  BY PullType DEF IInv
<1>3. proc[p].at \in PullFunctions
  BY DEF Pull, PullFunctions, createNamespace, createServiceAccount,
         createSecret, createRole, createClusterRole, createRoleBinding,
         createClusterRoleBinding, createSveltosCluster, getKubeconfig,
         AfterServiceAccount, AfterToken, AfterRole, AfterClusterRole,
         AfterClusterRoleBinding
<1>4. m.op = "pull"
  BY <1>3 DEF IInv, SecuredIsPresent, Fits
<1>5. \A f \in PullFunctions \cup Ended, s \in {"get"} :
         At(f, s).at = f /\ At(f, s) \in Positions /\ Fits(f, m.op)
  BY <1>4, PositionType, EndedFits
     DEF At, Fits, PushFunctions, WorkloadIdentityFunctions, PullFunctions,
         DeregisterFunctions, Functions, AfterServiceAccount, AfterToken,
         AfterRole, AfterClusterRole, AfterClusterRoleBinding
<1>6. {"namespace", "serviceAccount", "token", "role", "clusterRole",
       "roleBinding", "clusterRoleBinding", "sveltosCluster"} \subseteq Kinds
  BY DEF Kinds, ClusterKinds, NamespacedKinds, ScopedKinds
<1>7. PullFunctions = {"createNamespace", "createServiceAccount", "createSecret",
        "createRole", "createClusterRole", "createRoleBinding",
        "createClusterRoleBinding", "createSveltosCluster", "getKubeconfig"}
  BY DEF PullFunctions, AfterServiceAccount, AfterToken, AfterRole,
         AfterClusterRole, AfterClusterRoleBinding
<1>8. /\ \A kind \in {"namespace", "serviceAccount"} : "present" \in Objects(kind)
      /\ "empty" \in Objects("token")
      /\ \A kind \in {"role", "clusterRole"} : m.release \in Objects(kind)
      /\ \A kind \in {"roleBinding", "clusterRoleBinding"} : c \in Objects(kind)
  BY <1>1 DEF Objects, CommandSet
<1>9. CASE createNamespace(p)
  <2>. DEFINE next == At("createServiceAccount", "get")
  <2>1. /\ next \in Positions /\ Fits(next.at, m.op)
        /\ Secured(next.at, m) \subseteq Secured(proc[p].at, m) \cup {"namespace"}
    BY <1>5, <1>7, SecuredFacts
  <2>2. CreateOnce(p, "namespace", "present", next)
    BY <1>9 DEF createNamespace
  <2>. HIDE DEF next
  <2>. QED BY <1>2, <1>6, <1>8, <2>1, <2>2, CreateOnceStep
<1>10. CASE createServiceAccount(p)
  <2>. DEFINE next == At("createSecret", "get")
  <2>1. /\ next \in Positions /\ Fits(next.at, m.op)
        /\ Secured(next.at, m) \subseteq Secured(proc[p].at, m) \cup {"serviceAccount"}
    BY <1>5, <1>7, SecuredFacts
  <2>2. CreateOnce(p, "serviceAccount", "present", next)
    BY <1>10 DEF createServiceAccount
  <2>. HIDE DEF next
  <2>. QED BY <1>2, <1>6, <1>8, <2>1, <2>2, CreateOnceStep
<1>11. CASE createSecret(p)
  <2>. DEFINE next == At("createRole", "get")
  <2>1. /\ next \in Positions /\ Fits(next.at, m.op)
        /\ Secured(next.at, m) \subseteq Secured(proc[p].at, m) \cup {"token"}
    BY <1>5, <1>7, <1>11, SecuredFacts DEF createSecret
  <2>2. CreateOnce(p, "token", "empty", next)
    BY <1>11 DEF createSecret
  <2>. HIDE DEF next
  <2>. QED BY <1>2, <1>6, <1>8, <2>1, <2>2, CreateOnceStep
<1>12. CASE createRole(p)
  <2>1. CASE proc[p].step = "get"
    <3>1. /\ proc' = Moved(p, At("createRole", "create"))
          /\ store' = store /\ torn' = torn /\ proc[p].at = "createRole"
      BY <1>12, <2>1 DEF createRole
    <3>2. /\ proc'[p].at = proc[p].at /\ proc'[p].cmd = proc[p].cmd
          /\ \A q \in Procs \ {p} : proc'[q] = proc[q]
      BY <3>1 DEF Moved, At, Process, IInv, TypeInv, TypeOK
    <3>3. /\ Fits(proc'[p].at, proc'[p].cmd.op)
          /\ proc'[p].cmd.cluster \notin torn =>
               \A kind \in Secured(proc'[p].at, proc'[p].cmd) :
                   store'[Key(kind, proc'[p].cmd.cluster)] # Absent
      BY <3>1, <3>2 DEF IInv, SecuredIsPresent, Present
    <3>. QED BY <1>2, <3>1, <3>2, <3>3, GrowingStep
  <2>2. CASE proc[p].step # "get"
    <3>. DEFINE next == At("createClusterRole", "get")
    <3>1. /\ next \in Positions /\ Fits(next.at, m.op)
          /\ Secured(next.at, m) \subseteq Secured(proc[p].at, m) \cup {"role"}
      BY <1>5, <1>7, <1>12, SecuredFacts DEF createRole
    <3>2. CreateOnce(p, "role", m.release, next)
      BY <1>12, <2>2 DEF createRole
    <3>. HIDE DEF next
    <3>. QED BY <1>2, <1>6, <1>8, <3>1, <3>2, CreateOnceStep
  <2>. QED BY <2>1, <2>2
<1>13. CASE createClusterRole(p)
  <2>. DEFINE next == At("createRoleBinding", "get")
  <2>1. /\ next \in Positions /\ Fits(next.at, m.op)
        /\ Secured(next.at, m) \subseteq Secured(proc[p].at, m) \cup {"clusterRole"}
    BY <1>5, <1>7, <1>13, SecuredFacts DEF createClusterRole
  <2>2. CreateOrRefresh(p, "clusterRole", m.release, m.release, next)
    BY <1>13 DEF createClusterRole
  <2>. HIDE DEF next
  <2>. QED BY <1>2, <1>6, <1>8, <2>1, <2>2, PatchStep
<1>14. CASE createRoleBinding(p)
  <2>. DEFINE next == At("createClusterRoleBinding", "get")
  <2>1. /\ next \in Positions /\ Fits(next.at, m.op)
        /\ Secured(next.at, m) \subseteq Secured(proc[p].at, m)
    BY <1>5, <1>7, <1>14, SecuredFacts DEF createRoleBinding
  <2>2. PICK admitted \in BOOLEAN, retried \in BOOLEAN :
          Write(p, Key("roleBinding", c), admitted, c, next, next, next, retried)
    BY <1>14 DEF createRoleBinding
  <2>3. \A pos \in {next, next, next} : Fits(pos.at, proc[p].cmd.op)
    BY <2>1
  <2>. HIDE DEF next
  <2>. QED BY <1>2, <1>6, <1>8, <2>1, <2>2, <2>3, WriteStep
<1>15. CASE createClusterRoleBinding(p)
  <2>. DEFINE next == At("createSveltosCluster", "get")
  <2>1. /\ next \in Positions /\ Fits(next.at, m.op)
        /\ Secured(next.at, m)
             \subseteq Secured(proc[p].at, m) \cup {"clusterRoleBinding"}
    BY <1>5, <1>7, <1>15, SecuredFacts DEF createClusterRoleBinding, PullModeNeeds
  <2>2. CreateOnce(p, "clusterRoleBinding", c, next)
    BY <1>15 DEF createClusterRoleBinding
  <2>. HIDE DEF next
  <2>. QED BY <1>2, <1>6, <1>8, <2>1, <2>2, CreateOnceStep
<1>16. CASE createSveltosCluster(p)
  <2>. DEFINE next == At("getKubeconfig", "get")
              current == store[Key("sveltosCluster", c)]
              updated == [current EXCEPT !.labels = @ \cup m.labels,
                                         !.shard = m.shard]
  <2>1. /\ next \in Positions /\ Fits(next.at, m.op)
        /\ Secured(next.at, m) \subseteq Secured(proc[p].at, m) \cup {"sveltosCluster"}
    BY <1>5, <1>7, <1>16, SecuredFacts DEF createSveltosCluster
  <2>2. Objects("sveltosCluster") = ClusterSpecs
    BY DEF Objects
  <2>3. /\ NewSveltosCluster(m) \in Objects("sveltosCluster")
        /\ current \in Objects("sveltosCluster") => updated \in Objects("sveltosCluster")
    BY <1>1, <2>2, SpecType
  <2>4. c \notin torn => \A other \in PullModeNeeds : Present(other, c)
    BY <1>16, SecuredFacts DEF createSveltosCluster, IInv, SecuredIsPresent
  <2>5. c \notin torn =>
          /\ \A other \in Needs(NewSveltosCluster(m)) : Present(other, c)
          /\ current # Absent => \A other \in Needs(updated) : Present(other, c)
    <3>1. c \notin torn => \A other \in Needs(NewSveltosCluster(m)) : Present(other, c)
      BY <1>1, <1>4, <2>4, NeedsFacts
    <3>2. ASSUME c \notin torn, current # Absent
          PROVE  \A other \in Needs(updated) : Present(other, c)
      <4>1. current \in ClusterSpecs
        BY <1>1, <1>6, <2>2, <3>2, KeyType DEF IInv, TypeInv, TypeOK
      <4>2. Needs(updated) \subseteq Needs(current)
        BY <1>1, <4>1, NeedsFacts
      <4>3. \A other \in Needs(current) : Present(other, c)
        BY <1>1, <3>2 DEF IInv, CredentialsBacked, Present
      <4>. QED BY <4>2, <4>3
    <3>. QED BY <3>1, <3>2
  <2>6. CreateOrRefresh(p, "sveltosCluster", NewSveltosCluster(m), updated, next)
    BY <1>16 DEF createSveltosCluster
  <2>. HIDE DEF next, updated
  <2>. QED BY <1>2, <1>6, <2>1, <2>3, <2>5, <2>6, PatchStep
<1>17. CASE getKubeconfig(p)
  <2>1. /\ store' = store /\ torn' = torn
        /\ \E pos \in {At("ok", "get"), Failed} : proc' = Moved(p, pos)
    BY <1>17 DEF getKubeconfig
  <2>2. /\ proc'[p].at \in {"ok", "failed"} /\ proc'[p].cmd = proc[p].cmd
        /\ \A q \in Procs \ {p} : proc'[q] = proc[q]
    BY <2>1 DEF Moved, At, Failed, Process, IInv, TypeInv, TypeOK
  <2>3. Fits(proc'[p].at, proc'[p].cmd.op) /\ Secured(proc'[p].at, proc'[p].cmd) = {}
    BY <2>2, EndedFits, NothingSecured DEF Ended
  <2>. QED BY <1>2, <2>1, <2>2, <2>3, GrowingStep
<1>. QED BY <1>9, <1>10, <1>11, <1>12, <1>13, <1>14, <1>15, <1>16, <1>17 DEF Pull

(* The steps of a deregister.  Until it deletes it changes nothing, and it *)
(* vouches for nothing.                                                    *)
LEMMA DeregisterLocal ==
    ASSUME TypeInv, NEW p \in Procs, Fits(proc[p].at, proc[p].cmd.op), Deregister(p)
    PROVE  /\ proc[p].at \in DeregisterFunctions
           /\ \A q \in Procs \ {p} : proc'[q] = proc[q]
           /\ proc'[p].cmd = proc[p].cmd
           /\ proc'[p].at \in DeregisterFunctions \cup Ended
           /\ Fits(proc'[p].at, proc'[p].cmd.op)
           /\ Secured(proc'[p].at, proc'[p].cmd) = {}
<1>1. proc \in [Procs -> Locals]
  BY DEF TypeInv, TypeOK
<1>2. proc[p].at \in DeregisterFunctions
  BY DEF Deregister, DeregisterFunctions, deregisterSveltosCluster, deleteGet,
         deleteCall, deleteSveltosCluster, orphansDeleted
<1>3. proc[p].cmd.op = "deregister"
  BY <1>2 DEF Fits
<1>4. /\ \A q \in Procs \ {p} : proc'[q] = proc[q]
      /\ proc'[p].cmd = proc[p].cmd
      /\ proc'[p].at \in DeregisterFunctions \cup Ended
  <2>1. CASE deregisterSveltosCluster(p)
    BY <1>1, <2>1 DEF deregisterSveltosCluster, Moved, Process, Failed, At,
                      Ended, DeregisterFunctions, Locals
  <2>. DEFINE Unmoved == /\ \A q \in Procs \ {p} : proc'[q] = proc[q]
                         /\ proc'[p].cmd = proc[p].cmd
                         /\ proc'[p].at = proc[p].at
  <2>6. ASSUME NEW kind, NEW error, proc' = Returned(p, kind, error)
        PROVE  Unmoved
    BY <1>1, <2>6 DEF Returned, Locals
  <2>2. CASE deleteGet(p)
    <3>1. CASE proc' = [proc EXCEPT ![p].step = "delete"]
      BY <1>1, <1>2, <3>1 DEF Locals
    <3>2. CASE \E kind \in {Head(proc[p].todo)}, error \in BOOLEAN :
                 proc' = Returned(p, kind, error)
      BY <1>2, <2>6, <3>2
    <3>. QED BY <2>2, <3>1, <3>2 DEF deleteGet
  <2>3. CASE deleteCall(p)
    <3>1. \E kind, error : proc' = Returned(p, kind, error)
      BY <2>3 DEF deleteCall
    <3>. QED BY <1>2, <2>6, <3>1
  <2>4. CASE deleteSveltosCluster(p)
    BY <1>1, <1>2, <2>4 DEF deleteSveltosCluster, Finished, Process, Locals, Ended
  <2>5. CASE orphansDeleted(p)
    BY <1>1, <2>5 DEF orphansDeleted, Finished, Process, Ended
  <2>. QED BY <2>1, <2>2, <2>3, <2>4, <2>5 DEF Deregister
<1>5. Fits(proc'[p].at, "deregister")
  BY <1>4 DEF Fits, Ended, DeregisterFunctions, PushFunctions,
              WorkloadIdentityFunctions, PullFunctions, AfterServiceAccount,
              AfterToken, AfterRole, AfterClusterRole, AfterClusterRoleBinding
<1>. QED BY <1>2, <1>3, <1>4, <1>5, NothingSecured

(* A step of a deregister of c that leaves alone whatever belongs to other *)
(* clusters preserves IInv if c counts as torn from now on, or if its      *)
(* SveltosCluster is gone and, besides, no other process works on c or the *)
(* other resources of c are as they were.                                  *)
LEMMA TearingStep ==
    ASSUME IInv, TypeInv', NEW p \in Procs, Deregister(p),
           \A d \in Clusters \ {proc[p].cmd.cluster}, kind \in ClusterKinds :
               store'[Key(kind, d)] = store[Key(kind, d)],
           \A d \in Clusters \ {proc[p].cmd.cluster} : d \in torn' <=> d \in torn,
           \/ proc[p].cmd.cluster \in torn'
           \/ /\ store'[Key("sveltosCluster", proc[p].cmd.cluster)] = Absent
              /\ \/ Alone(p)
                 \/ /\ proc[p].cmd.cluster \notin torn
                    /\ \A kind \in ClusterKinds \ {"sveltosCluster"} :
                         store'[Key(kind, proc[p].cmd.cluster)]
                           = store[Key(kind, proc[p].cmd.cluster)]
    PROVE  IInv'
<1>. DEFINE c == proc[p].cmd.cluster
<1>1. "sveltosCluster" \in ClusterKinds
  BY DEF ClusterKinds, NamespacedKinds
<1>2. CredentialsBacked'
  <2>. SUFFICES ASSUME NEW d \in Clusters \ torn',
                       store'[Key("sveltosCluster", d)] # Absent,
                       NEW kind \in Needs(store'[Key("sveltosCluster", d)])
                PROVE  store'[Key(kind, d)] # Absent
    BY DEF CredentialsBacked, Present
  <2>1. d # c /\ d \notin torn
    OBVIOUS
  <2>2. kind \in ClusterKinds
    BY DEF Needs
  <2>3. store'[Key(kind, d)] = store[Key(kind, d)]
        /\ store'[Key("sveltosCluster", d)] = store[Key("sveltosCluster", d)]
    BY <1>1, <2>1, <2>2
  <2>. QED BY <2>1, <2>3 DEF IInv, CredentialsBacked, Present
<1>3. SecuredIsPresent'
  <2>. SUFFICES ASSUME NEW q \in Procs
                PROVE  /\ Fits(proc'[q].at, proc'[q].cmd.op)
                       /\ proc'[q].cmd.cluster \notin torn' =>
                            \A kind \in Secured(proc'[q].at, proc'[q].cmd) :
                                store'[Key(kind, proc'[q].cmd.cluster)] # Absent
    BY DEF SecuredIsPresent, Present
  <2>1. CASE q = p
    BY <2>1, DeregisterLocal DEF IInv, SecuredIsPresent
  <2>2. CASE q # p
    <3>1. proc'[q] = proc[q] /\ proc[q].cmd.cluster \in Clusters
      BY <2>2, DeregisterLocal, CommandType DEF IInv, TypeInv, SecuredIsPresent
    <3>2. Secured(proc[q].at, proc[q].cmd) \subseteq ClusterKinds \ {"sveltosCluster"}
      BY DEF Secured
    <3>3. CASE proc[q].cmd.cluster = c
      <4>1. CASE c \in torn'
        BY <3>1, <3>3, <4>1 DEF IInv, SecuredIsPresent
      <4>2. CASE Alone(p)
        <5>1. proc[q].at \in Ended
          BY <2>2, <3>3, <4>2 DEF Alone, Running
        <5>. QED BY <3>1, <5>1, NothingSecured DEF IInv, SecuredIsPresent
      <4>3. CASE c \notin torn' /\ ~Alone(p)
        BY <3>1, <3>2, <3>3, <4>3 DEF IInv, SecuredIsPresent, Present
      <4>. QED BY <4>1, <4>2, <4>3
    <3>4. CASE proc[q].cmd.cluster # c
      BY <3>1, <3>2, <3>4 DEF IInv, SecuredIsPresent, Present
    <3>. QED BY <3>3, <3>4
  <2>. QED BY <2>1, <2>2
<1>. QED BY <1>2, <1>3 DEF IInv

LEMMA DeregisterStep ==
    ASSUME IInv, DistinctNames, NEW p \in Procs, Deregister(p)
    PROVE  IInv'
<1>. DEFINE c == proc[p].cmd.cluster
<1>1. TypeInv' /\ c \in Clusters /\ proc[p] \in Locals /\ torn \subseteq Clusters
  BY DeregisterType, CommandType DEF IInv, TypeInv, TypeOK
<1>2. ASSUME NEW kind \in ClusterKinds, NEW d \in Clusters \ {c},
             NEW other \in ClusterKinds
      PROVE  Key(other, d) # Key(kind, c) /\ Key(other, d) \in Keys
  BY <1>1, KeysDiffer, KeyType DEF Kinds
<1>3. CASE deregisterSveltosCluster(p) \/ deleteGet(p)
  <2>1. store' = store /\ torn' = torn
    BY <1>3 DEF deregisterSveltosCluster, deleteGet
  <2>. QED BY <1>1, <2>1, DeregisterLocal, GrowingStep DEF IInv, SecuredIsPresent
<1>4. CASE deleteCall(p)
  <2>. DEFINE kind == Head(proc[p].todo)
  <2>1. kind \in ClusterKinds /\ torn' = torn \cup {c}
    BY <1>1, <1>4 DEF deleteCall, Locals
  <2>2. \/ store' = store
        \/ store' = [store EXCEPT ![Key(kind, c)] = Absent]
    BY <1>4 DEF deleteCall
  <2>3. \A d \in Clusters \ {c}, other \in ClusterKinds :
          store'[Key(other, d)] = store[Key(other, d)]
    BY <1>2, <2>1, <2>2 DEF IInv, TypeInv, TypeOK
  <2>. QED BY <1>1, <2>1, <2>3, TearingStep
<1>5. CASE deleteSveltosCluster(p)
  <2>. DEFINE k == Key("sveltosCluster", c)
  <2>1. k \in Keys /\ "sveltosCluster" \in ClusterKinds
    BY <1>1, KeyType DEF Kinds, ClusterKinds, NamespacedKinds
  <2>2. \/ store' = store /\ torn' = torn
        \/ store' = [store EXCEPT ![k] = Absent] /\ torn' = Mended(p)
    BY <1>5 DEF deleteSveltosCluster
  <2>3. CASE store' = store /\ torn' = torn
    BY <1>1, <2>3, DeregisterLocal, GrowingStep DEF IInv, SecuredIsPresent
  <2>4. CASE store' = [store EXCEPT ![k] = Absent] /\ torn' = Mended(p)
    <3>1. store'[k] = Absent
      BY <2>1, <2>4 DEF IInv, TypeInv, TypeOK
    <3>2. \A d \in Clusters \ {c}, other \in ClusterKinds :
            store'[Key(other, d)] = store[Key(other, d)]
      BY <1>2, <2>1, <2>4 DEF IInv, TypeInv, TypeOK
    <3>3. CASE Alone(p)
      BY <1>1, <2>4, <3>1, <3>2, <3>3, TearingStep DEF Mended
    <3>4. CASE ~Alone(p) /\ c \in torn
      BY <1>1, <2>4, <3>2, <3>4, TearingStep DEF Mended
    <3>5. CASE ~Alone(p) /\ c \notin torn
      <4>1. \A other \in ClusterKinds \ {"sveltosCluster"} :
              store'[Key(other, c)] = store[Key(other, c)]
        <5>1. ASSUME NEW other \in ClusterKinds \ {"sveltosCluster"}
              PROVE  Key(other, c) # k /\ Key(other, c) \in Keys
          BY <1>1, <2>1, KeysDiffer, KeyType DEF Kinds
        <5>. QED BY <2>1, <2>4, <5>1 DEF IInv, TypeInv, TypeOK
      <4>. QED BY <1>1, <2>4, <3>1, <3>2, <3>5, <4>1, TearingStep DEF Mended
    <3>. QED BY <3>3, <3>4, <3>5
  <2>. QED BY <2>2, <2>3, <2>4
<1>6. CASE orphansDeleted(p)
  <2>. DEFINE k == Key("sveltosCluster", c)
  <2>1. store' = store /\ (torn' = torn \/ (store[k] = Absent /\ torn' = Mended(p)))
    BY <1>6 DEF orphansDeleted, Present
  <2>2. CASE torn' = torn
    BY <1>1, <2>1, <2>2, DeregisterLocal, GrowingStep DEF IInv, SecuredIsPresent
  <2>3. CASE torn' # torn
    <3>1. Alone(p) /\ torn' = torn \ {c} /\ store[k] = Absent
      BY <2>1, <2>3 DEF Mended
    <3>. QED BY <1>1, <2>1, <3>1, TearingStep
  <2>. QED BY <2>2, <2>3
<1>. QED BY <1>3, <1>4, <1>5, <1>6 DEF Deregister

(* Starting, killing and ending a process, and filling in a token, take    *)
(* nothing away and vouch for nothing.                                     *)
LEMMA EnvironmentStep ==
    ASSUME IInv
    PROVE  /\ \A p \in Procs : Start(p) \/ Crash(p) => IInv'
           /\ \A c \in Clusters : FillToken(c) => IInv'
<1>1. ASSUME NEW p \in Procs, Start(p) \/ Crash(p)
      PROVE  IInv'
  <2>1. TypeInv' /\ proc \in [Procs -> Locals]
    BY <1>1, EnvironmentType DEF IInv, TypeInv, TypeOK
  <2>2. /\ store' = store /\ torn' = torn
        /\ \A q \in Procs \ {p} : proc'[q] = proc[q]
    BY <1>1, <2>1 DEF Start, Crash, Finished
  <2>3. /\ Fits(proc'[p].at, proc'[p].cmd.op)
        /\ Secured(proc'[p].at, proc'[p].cmd) = {}
    <3>1. CASE Start(p)
      <4>1. PICK m \in Commands :
              proc'[p].at = EntryPoint(m) /\ proc'[p].cmd = m
        BY <2>1, <3>1 DEF Start, Process
      <4>2. m.op \in Ops /\ m.ca \in BOOLEAN
        BY CommandsAssumption DEF CommandSet
      <4>3. Fits(EntryPoint(m), m.op)
        BY <4>2 DEF Ops, EntryPoint, Fits, PushFunctions,
                    WorkloadIdentityFunctions, PullFunctions,
                    DeregisterFunctions, AfterServiceAccount, AfterToken,
                    AfterRole, AfterClusterRole, AfterClusterRoleBinding
      <4>4. Secured(EntryPoint(m), m) = {}
        BY <4>2 DEF Ops, EntryPoint, Secured, AfterServiceAccount, AfterToken,
                    AfterRole, AfterClusterRole, AfterClusterRoleBinding
      <4>. QED BY <4>1, <4>3, <4>4
    <3>2. CASE Crash(p)
      <4>1. proc'[p].at = "failed"
        BY <2>1, <3>2 DEF Crash, Finished, Process
      <4>. QED BY <4>1, EndedFits, NothingSecured DEF Ended
    <3>. QED BY <1>1, <3>1, <3>2
  <2>. QED BY <2>1, <2>2, <2>3, GrowingStep
<1>2. ASSUME NEW c \in Clusters, FillToken(c)
      PROVE  IInv'
  <2>1. TypeInv' /\ proc' = proc /\ torn' = torn
    BY <1>2, EnvironmentType DEF IInv, FillToken
  <2>2. \A kind \in ClusterKinds, d \in Clusters : Key(kind, d) \in Keys
    BY KeyType DEF Kinds
  <2>3. "token" \in ClusterKinds /\ "sveltosCluster" \in ClusterKinds
    BY DEF ClusterKinds, NamespacedKinds
  <2>4. "filled" # Absent
    BY AbsentAssumption DEF Objects, Kinds, ClusterKinds, NamespacedKinds
  <2>5. \A x \in Keys : store[x] # Absent => store'[x] # Absent
    BY <1>2, <2>4 DEF FillToken, IInv, TypeInv, TypeOK
  <2>6. \A d \in Clusters :
          store'[Key("sveltosCluster", d)] = store[Key("sveltosCluster", d)]
    BY <1>2, <2>2, <2>3, KeysDiffer DEF FillToken, IInv, TypeInv, TypeOK, Kinds
  <2>7. CredentialsBacked'
    BY <2>1, <2>2, <2>5, <2>6 DEF IInv, CredentialsBacked, Present, Needs
  <2>8. SecuredIsPresent'
    <3>1. \A p \in Procs : Secured(proc[p].at, proc[p].cmd) \subseteq ClusterKinds
      BY DEF Secured
    <3>2. \A p \in Procs : proc[p].cmd.cluster \in Clusters
      BY CommandType DEF IInv, TypeInv
    <3>. QED BY <2>1, <2>2, <2>5, <3>1, <3>2 DEF IInv, SecuredIsPresent, Present
  <2>. QED BY <2>1, <2>7, <2>8 DEF IInv
<1>. QED BY <1>1, <1>2

LEMMA InitStep == Init => IInv
<1>. SUFFICES ASSUME Init PROVE IInv
  OBVIOUS
<1>1. CredentialsBacked
  <2>1. \A c \in Clusters : /\ Key("sveltosCluster", c) \in Keys
                            /\ Key("sveltosCluster", c)[1] = "sveltosCluster"
    BY KeyType DEF Kinds, ClusterKinds, NamespacedKinds
  <2>. QED BY <2>1 DEF Init, CredentialsBacked, Present
<1>2. SecuredIsPresent
  <2>1. \A p \in Procs : proc[p].at = "ready"
    BY DEF Init, Process
  <2>. QED BY <2>1, EndedFits, NothingSecured DEF SecuredIsPresent, Ended
<1>. QED BY <1>1, <1>2, InitType DEF IInv

LEMMA NextStep == DistinctNames /\ IInv /\ [Next]_vars => IInv'
<1>. SUFFICES ASSUME DistinctNames, IInv, [Next]_vars PROVE IInv'
  OBVIOUS
<1>1. CASE UNCHANGED vars
  <2>1. TypeInv'
    BY <1>1, NextType DEF IInv
  <2>. QED BY <1>1, <2>1 DEF vars, IInv, CredentialsBacked, SecuredIsPresent, Present
<1>2. CASE \E p \in Procs : Step(p)
  BY <1>2, PushStep, WorkloadIdentityStep, PullStep, DeregisterStep DEF Step
<1>3. CASE \E p \in Procs : Start(p) \/ Crash(p)
  BY <1>3, EnvironmentStep
<1>4. CASE \E c \in Clusters : FillToken(c)
  BY <1>4, EnvironmentStep
<1>. QED BY <1>1, <1>2, <1>3, <1>4 DEF Next

(* However the calls of any number of registrations fail, are retried, are *)
(* cut short or interleave, no SveltosCluster outside `torn` refers to a   *)
(* Secret or to pull-mode resources that are missing, provided that names  *)
(* tell clusters apart.  A cluster is in `torn` from the first deletion of *)
(* a deregister until one gets to its end alone on the cluster: what is    *)
(* left by a deregister that was interrupted, or that ended beside another *)
(* command, is not covered.                                                *)
THEOREM CredentialsAreBacked ==
    ASSUME DistinctNames
    PROVE  Spec => []CredentialsBacked
<1>1. Init => IInv
  BY InitStep
<1>2. IInv /\ [Next]_vars => IInv'
  BY NextStep
<1>3. IInv => CredentialsBacked
  BY DEF IInv
<1>. QED BY <1>1, <1>2, <1>3, PTL DEF Spec

-----------------------------------------------------------------------------
(* A pull-mode registration succeeds in getKubeconfig and nowhere else.    *)

LEMMA WriteLeads ==
    ASSUME TypeOK, NEW p \in Procs, NEW k, NEW admitted, NEW val, NEW next,
           NEW rejected, NEW failed, NEW retried,
           Write(p, k, admitted, val, next, rejected, failed, retried),
           proc[p].at # "ok", next.at # "ok", rejected.at # "ok",
           failed.at # "ok"
    PROVE  proc'[p].at # "ok"
<1>1. proc \in [Procs -> Locals]
  BY DEF TypeOK
<1>2. CASE proc' = [proc EXCEPT ![p].tries = @ + 1]
  BY <1>1, <1>2 DEF Locals
<1>3. CASE \E pos \in {next, rejected, failed} : proc' = Moved(p, pos)
  BY <1>1, <1>3 DEF Moved, Process
<1>. QED BY <1>2, <1>3 DEF Write

LEMMA CreateLeads ==
    ASSUME TypeOK, NEW p \in Procs, NEW kind, NEW val, NEW next, NEW exists,
           NEW retried, Create(p, kind, val, next, exists, retried),
           proc[p].at # "ok", next.at # "ok", exists.at # "ok"
    PROVE  proc'[p].at # "ok"
<1>. DEFINE k == Key(kind, proc[p].cmd.cluster)
            rejected == IF store[k] # Absent THEN exists ELSE Failed
<1>1. PICK admitted \in BOOLEAN :
        Write(p, k, admitted, val, next, rejected, Failed, retried)
  BY DEF Create
<1>2. Failed.at # "ok" /\ rejected.at # "ok"
  BY DEF Failed, At
<1>. HIDE DEF k, rejected
<1>. QED BY <1>1, <1>2, WriteLeads

LEMMA RefreshLeads ==
    ASSUME TypeOK, NEW p \in Procs, NEW kind, NEW created, NEW updated,
           NEW next, CreateOrRefresh(p, kind, created, updated, next),
           proc[p].at # "ok", next.at # "ok"
    PROVE  proc'[p].at # "ok"
<1>1. CASE \E k, s1, s2 : Get(p, k, At(proc[p].at, s1), At(proc[p].at, s2),
                             At(proc[p].at, s2), FALSE)
  <2>1. proc \in [Procs -> Locals]
    BY DEF TypeOK
  <2>2. PICK s : proc' = Moved(p, At(proc[p].at, s))
    BY <1>1 DEF Get, MayRetry
  <2>. QED BY <2>1, <2>2 DEF Moved, Process, At
<1>2. CASE Create(p, kind, created, next, next, FALSE)
  BY <1>2, CreateLeads
<1>3. CASE Update(p, kind, updated, next, FALSE)
  <2>1. Failed.at # "ok"
    BY DEF Failed, At
  <2>2. PICK k, admitted :
          Write(p, k, admitted, updated, next, Failed, Failed, FALSE)
    BY <1>3 DEF Update
  <2>. QED BY <2>1, <2>2, WriteLeads
<1>. QED BY <1>1, <1>2, <1>3 DEF CreateOrRefresh

LEMMA PullEnds ==
    ASSUME TypeOK, NEW p \in Procs, Pull(p), proc'[p].at = "ok"
    PROVE  getKubeconfig(p)
<1>1. \A f \in Functions : At(f, "get").at # "ok" /\ f # "ok"
  BY DEF At, Functions
<1>2. ASSUME NEW kind, NEW val, NEW f \in Functions,
             CreateOnce(p, kind, val, At(f, "get")), proc[p].at \in Functions
      PROVE  FALSE
  BY <1>1, <1>2, CreateLeads DEF CreateOnce
<1>3. ASSUME NEW kind, NEW created, NEW updated, NEW f \in Functions,
             CreateOrRefresh(p, kind, created, updated, At(f, "get")),
             proc[p].at \in Functions
      PROVE  FALSE
  BY <1>1, <1>3, RefreshLeads
<1>4. ~createNamespace(p) /\ ~createServiceAccount(p) /\ ~createSecret(p)
      /\ ~createClusterRoleBinding(p)
  BY <1>2 DEF createNamespace, createServiceAccount, createSecret,
              createClusterRoleBinding, Functions
<1>5. ~createClusterRole(p) /\ ~createSveltosCluster(p)
  BY <1>3 DEF createClusterRole, createSveltosCluster, Functions
<1>6. ~createRole(p)
  <2>1. proc \in [Procs -> Locals]
    BY DEF TypeOK
  <2>2. ~(proc' = Moved(p, At("createRole", "create")))
    BY <2>1 DEF Moved, Process, At
  <2>. QED BY <1>2, <2>2 DEF createRole, Functions
<1>7. ~createRoleBinding(p)
  <2>. SUFFICES ASSUME createRoleBinding(p) PROVE FALSE
    OBVIOUS
  <2>. DEFINE next == At("createClusterRoleBinding", "get")
  <2>1. PICK k, admitted : /\ proc[p].at # "ok"
                           /\ Write(p, k, admitted, proc[p].cmd.cluster,
                                    next, next, next, FALSE)
    BY DEF createRoleBinding
  <2>2. next.at # "ok"
    BY DEF At
  <2>. HIDE DEF next
  <2>. QED BY <2>1, <2>2, WriteLeads
<1>. QED BY <1>4, <1>5, <1>6, <1>7 DEF Pull

(* A process changes no other process's local state. *)
LEMMA StepIsLocal ==
    ASSUME IInv, NEW q \in Procs, Step(q), NEW p \in Procs, p # q
    PROVE  proc'[p] = proc[p]
<1>1. proc \in [Procs -> Locals]
  BY DEF IInv, TypeInv, TypeOK
<1>2. ASSUME NEW kind, NEW created, NEW updated, NEW next,
             \/ Patch(q, kind, created, updated, next)
             \/ CreateOrRefresh(q, kind, created, updated, next)
             \/ CreateOnce(q, kind, created, next)
      PROVE  proc'[p] = proc[p]
  BY <1>1, <1>2 DEF Patch, CreateOrRefresh, CreateOnce, Get, Create, Update,
                    Write, Moved
<1>3. CASE Push(q)
  BY <1>1, <1>2, <1>3 DEF Push, onboardSveltosCluster, patchSecret,
                          patchSveltosCluster, Get, Moved
<1>4. CASE WorkloadIdentity(q)
  BY <1>2, <1>4 DEF WorkloadIdentity, patchCASecret,
                    patchSveltosClusterWithWorkloadIdentity
<1>5. CASE Pull(q)
  BY <1>1, <1>2, <1>5 DEF Pull, createNamespace, createServiceAccount,
         createSecret, createRole, createClusterRole, createRoleBinding,
         createClusterRoleBinding, createSveltosCluster, getKubeconfig,
         Write, Moved
<1>6. CASE Deregister(q)
  BY <1>6, DeregisterLocal DEF IInv, SecuredIsPresent
<1>. QED BY <1>3, <1>4, <1>5, <1>6 DEF Step

(* A registration in pull mode only succeeds with a token to print, and,   *)
(* unless the cluster is in `torn`, with the account, its Role, its        *)
(* ClusterRole and the ClusterRoleBinding in place.  The RoleBinding may   *)
(* be missing: the code drops the error of making it.                      *)
THEOREM PullIsUsable ==
    ASSUME DistinctNames
    PROVE  Spec => PullUsable
<1>. DEFINE Usable(p) ==
              /\ Left("token", p) = "filled"
              /\ \/ proc[p].cmd.cluster \in torn
                 \/ \A kind \in PullModeNeeds : Left(kind, p) # Absent
<1>1. ASSUME IInv, [Next]_vars, NEW p \in Procs, Succeeds(p, "pull")
      PROVE  Usable(p)
  <2>1. /\ proc[p].at \notin Ended /\ proc[p].cmd.op = "pull"
        /\ proc'[p].at = "ok" /\ TypeOK /\ proc \in [Procs -> Locals]
    BY <1>1 DEF Succeeds, Running, IInv, TypeInv, TypeOK
  <2>2. proc'[p] # proc[p]
    BY <2>1 DEF Ended
  <2>3. ASSUME NEW q \in Procs, Start(q) \/ Crash(q) \/ Step(q)
        PROVE  q = p
    <3>1. CASE Start(q) \/ Crash(q)
      BY <2>1, <2>2, <3>1 DEF Start, Crash, Finished
    <3>2. CASE Step(q)
      BY <1>1, <2>2, <3>2, StepIsLocal
    <3>. QED BY <2>3, <3>1, <3>2
  <2>4. ~Start(p) /\ ~Crash(p)
    BY <2>1 DEF Start, Crash, Running, Finished, Process
  <2>5. \A c \in Clusters : ~FillToken(c)
    BY <2>2 DEF FillToken
  <2>6. Step(p)
    BY <1>1, <2>2, <2>3, <2>4, <2>5 DEF Next, vars
  <2>7. Pull(p)
    <3>1. Fits(proc[p].at, "pull")
      BY <1>1, <2>1 DEF IInv, SecuredIsPresent
    <3>. QED BY <2>6, <3>1
         DEF Step, Push, WorkloadIdentity, Deregister, Fits, PushFunctions,
             WorkloadIdentityFunctions, DeregisterFunctions,
             onboardSveltosCluster, patchSecret, patchSveltosCluster,
             patchCASecret, patchSveltosClusterWithWorkloadIdentity,
             deregisterSveltosCluster, deleteGet, deleteCall,
             deleteSveltosCluster, orphansDeleted
  <2>8. getKubeconfig(p)
    BY <2>1, <2>7, PullEnds
  <2>9. store' = store /\ store[Key("token", proc[p].cmd.cluster)] = "filled"
    BY <2>1, <2>8 DEF getKubeconfig, Moved, Process, Failed, At
  <2>10. proc[p].cmd.cluster \notin torn =>
           \A kind \in PullModeNeeds : Present(kind, proc[p].cmd.cluster)
    BY <1>1, <2>8, SecuredFacts DEF getKubeconfig, IInv, SecuredIsPresent
  <2>. QED BY <2>9, <2>10 DEF Left, Present
<1>2. IInv /\ [Next]_vars => [\A p \in Procs : Succeeds(p, "pull") => Usable(p)]_vars
  BY <1>1
<1>3. Init => IInv
  BY InitStep
<1>4. IInv /\ [Next]_vars => IInv'
  BY NextStep
<1>. QED BY <1>2, <1>3, <1>4, PTL DEF Spec, PullUsable
=============================================================================
