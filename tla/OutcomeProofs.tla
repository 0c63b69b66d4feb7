----------------------------- MODULE OutcomeProofs -----------------------------
(***************************************************************************)
(* Theorems about Onboard, continued: what a command that succeeds leaves, *)
(* and what it may touch.                                                  *)
(***************************************************************************)
EXTENDS OnboardProofs

(* Where a step takes process p: to the first try of another call, or back *)
(* to the same one.                                                        *)
Goes(p, pos) == /\ proc'[p].at = pos.at /\ proc'[p].step = pos.step
                /\ proc'[p].cmd = proc[p].cmd /\ proc'[p].todo = <<>>
Repeats(p) == /\ proc'[p].at = proc[p].at /\ proc'[p].step = proc[p].step
              /\ proc'[p].cmd = proc[p].cmd /\ proc'[p].tries # proc[p].tries
              /\ Faults # {}

OthersStay(p) == \A q \in Procs \ {p} : proc'[q] = proc[q]

LEMMA MovedGoes ==
    ASSUME TypeOK, NEW p \in Procs, NEW pos, proc' = Moved(p, pos)
    PROVE  Goes(p, pos) /\ OthersStay(p)
BY DEF TypeOK, Locals, Moved, Process, Goes, OthersStay

LEMMA CountedRepeats ==
    ASSUME TypeOK, NEW p \in Procs, Faults # {},
           proc' = [proc EXCEPT ![p].tries = @ + 1]
    PROVE  Repeats(p) /\ OthersStay(p)
<1>1. proc \in [Procs -> Locals] /\ proc[p].tries \in Nat
  BY BoundsAssumption DEF TypeOK, Locals
<1>. QED BY <1>1 DEF Locals, Repeats, OthersStay

LEMMA GetOutcome ==
    ASSUME TypeOK, NEW p \in Procs, NEW k \in Keys, NEW found, NEW missing,
           NEW failed, NEW retried, Get(p, k, found, missing, failed, retried)
    PROVE  /\ OthersStay(p) /\ store' = store
           /\ \/ Repeats(p)
              \/ Goes(p, found) /\ store[k] # Absent
              \/ Goes(p, missing) /\ store[k] = Absent
              \/ Goes(p, failed) /\ Faults # {}
<1>1. CASE Faults # {} /\ proc' = [proc EXCEPT ![p].tries = @ + 1]
  BY <1>1, CountedRepeats DEF Get
<1>2. CASE proc' = Moved(p, found) /\ store[k] # Absent
  BY <1>2, MovedGoes DEF Get
<1>3. CASE proc' = Moved(p, missing) /\ store[k] = Absent
  BY <1>3, MovedGoes DEF Get
<1>4. CASE proc' = Moved(p, failed) /\ Faults # {}
  BY <1>4, MovedGoes DEF Get
<1>. QED BY <1>1, <1>2, <1>3, <1>4 DEF Get

LEMMA WriteOutcome ==
    ASSUME TypeOK, NEW p \in Procs, NEW k \in Keys, NEW admitted, NEW val, NEW next,
           NEW rejected, NEW failed, NEW retried,
           Write(p, k, admitted, val, next, rejected, failed, retried)
    PROVE  /\ OthersStay(p)
           /\ \/ store' = store
              \/ admitted /\ store' = [store EXCEPT ![k] = val]
           /\ \/ Repeats(p)
              \/ Goes(p, next) /\ admitted /\ store' = [store EXCEPT ![k] = val]
              \/ Goes(p, rejected) /\ ~admitted /\ store' = store
              \/ Goes(p, failed) /\ Faults # {}
<1>1. PICK answer \in {"served"} \cup Faults, again \in BOOLEAN :
         /\ again => answer # "served"
         /\ store' = IF admitted /\ answer # "refused"
                     THEN [store EXCEPT ![k] = val] ELSE store
         /\ proc' = IF again THEN [proc EXCEPT ![p].tries = @ + 1]
                    ELSE Moved(p, IF answer # "served" THEN failed
                                  ELSE IF admitted THEN next ELSE rejected)
  BY DEF Write
<1>2. \/ store' = store
      \/ admitted /\ store' = [store EXCEPT ![k] = val]
  BY <1>1
<1>3. CASE again
  <2>1. Faults # {} /\ proc' = [proc EXCEPT ![p].tries = @ + 1]
    BY <1>1, <1>3
  <2>2. Repeats(p) /\ OthersStay(p)
    BY <2>1, CountedRepeats
  <2>. QED BY <1>2, <2>2
<1>4. CASE ~again /\ answer # "served"
  <2>1. Faults # {} /\ proc' = Moved(p, failed)
    BY <1>1, <1>4
  <2>2. Goes(p, failed) /\ OthersStay(p)
    BY <2>1, MovedGoes
  <2>. QED BY <1>2, <2>1, <2>2
<1>5. CASE ~again /\ answer = "served" /\ admitted
  <2>1. proc' = Moved(p, next) /\ store' = [store EXCEPT ![k] = val]
    BY <1>1, <1>5
  <2>2. Goes(p, next) /\ OthersStay(p)
    BY <2>1, MovedGoes
  <2>. QED BY <1>5, <2>1, <2>2
<1>6. CASE ~again /\ answer = "served" /\ ~admitted
  <2>1. proc' = Moved(p, rejected) /\ store' = store
    BY <1>1, <1>6
  <2>2. Goes(p, rejected) /\ OthersStay(p)
    BY <2>1, MovedGoes
  <2>. QED BY <1>6, <2>1, <2>2
<1>. QED BY <1>3, <1>4, <1>5, <1>6

(* The resource of a kind that p works on is written. *)
Writes(p, kind, val) == store' = [store EXCEPT ![Key(kind, proc[p].cmd.cluster)] = val]
There(p, kind) == Present(kind, proc[p].cmd.cluster)

LEMMA CreateOutcome ==
    ASSUME TypeOK, NEW p \in Procs, NEW kind \in Kinds, NEW val, NEW next,
           NEW exists, NEW retried, Create(p, kind, val, next, exists, retried)
    PROVE  /\ OthersStay(p)
           /\ \/ store' = store
              \/ ~There(p, kind) /\ Writes(p, kind, val)
           /\ \/ Repeats(p)
              \/ Goes(p, next) /\ ~There(p, kind) /\ Writes(p, kind, val)
              \/ Goes(p, exists) /\ There(p, kind) /\ store' = store
              \/ Goes(p, Failed)
<1>. DEFINE k == Key(kind, proc[p].cmd.cluster)
            rejected == IF store[k] # Absent THEN exists ELSE Failed
<1>1. PICK admitted \in BOOLEAN :
        /\ admitted => store[k] = Absent
        /\ Write(p, k, admitted, val, next, rejected, Failed, retried)
  BY DEF Create
<1>2. k \in Keys
  BY KeyType, CommandType
<1>3. There(p, kind) <=> store[k] # Absent
  BY DEF There, Present
<1>4. Writes(p, kind, val) <=> store' = [store EXCEPT ![k] = val]
  BY DEF Writes
<1>5. /\ OthersStay(p)
      /\ \/ store' = store
         \/ admitted /\ store' = [store EXCEPT ![k] = val]
      /\ \/ Repeats(p)
         \/ Goes(p, next) /\ admitted /\ store' = [store EXCEPT ![k] = val]
         \/ Goes(p, rejected) /\ ~admitted /\ store' = store
         \/ Goes(p, Failed) /\ Faults # {}
  <2>. HIDE DEF k, rejected
  <2>. QED BY <1>1, <1>2, WriteOutcome
<1>. HIDE DEF k
<1>. QED BY <1>1, <1>3, <1>4, <1>5

LEMMA UpdateOutcome ==
    ASSUME TypeInv, NEW p \in Procs, NEW kind \in Kinds, NEW val, NEW next,
           NEW retried, Update(p, kind, val, next, retried)
    PROVE  /\ OthersStay(p)
           /\ \/ store' = store
              \/ There(p, kind) /\ Writes(p, kind, val)
           /\ \/ Repeats(p)
              \/ Goes(p, next) /\ There(p, kind) /\ Writes(p, kind, val)
              \/ Goes(p, Failed)
<1>. DEFINE k == Key(kind, proc[p].cmd.cluster)
<1>1. PICK admitted \in BOOLEAN :
        /\ admitted => fresh[p] = k
        /\ Write(p, k, admitted, val, next, Failed, Failed, retried)
  BY DEF Update
<1>2. k \in Keys /\ TypeOK
  BY KeyType, CommandType DEF TypeInv
<1>3. admitted => There(p, kind)
  BY <1>1, <1>2 DEF TypeInv, HeldIsPresent, There, Present
<1>4. Writes(p, kind, val) <=> store' = [store EXCEPT ![k] = val]
  BY DEF Writes
<1>. HIDE DEF k
<1>5. /\ OthersStay(p)
      /\ \/ store' = store
         \/ admitted /\ store' = [store EXCEPT ![k] = val]
      /\ \/ Repeats(p)
         \/ Goes(p, next) /\ admitted /\ store' = [store EXCEPT ![k] = val]
         \/ Goes(p, Failed) /\ ~admitted /\ store' = store
         \/ Goes(p, Failed) /\ Faults # {}
  BY <1>1, <1>2, WriteOutcome
<1>. QED BY <1>3, <1>4, <1>5

(* What patchSecret and its siblings make of the resource. *)
Patched(p, kind, created, updated) ==
    \/ ~There(p, kind) /\ Writes(p, kind, created)
    \/ There(p, kind) /\ Writes(p, kind, updated)

LEMMA PatchOutcome ==
    ASSUME TypeInv, NEW p \in Procs, NEW kind \in Kinds, NEW created, NEW updated,
           NEW next, Patch(p, kind, created, updated, next)
    PROVE  /\ OthersStay(p)
           /\ store' = store \/ Patched(p, kind, created, updated)
           /\ \/ Repeats(p)
              \/ Goes(p, Failed)
              \/ Goes(p, next) /\ Patched(p, kind, created, updated)
              \/ \E s \in {"create", "update"} :
                    Goes(p, At(proc[p].at, s)) /\ store' = store
<1>. DEFINE k == Key(kind, proc[p].cmd.cluster)
            here(s) == At(proc[p].at, s)
<1>1. k \in Keys /\ TypeOK
  BY KeyType, CommandType DEF TypeInv
<1>2. CASE Get(p, k, here("update"), here("create"), Failed, TRUE)
  <2>. HIDE DEF k, here
  <2>1. /\ OthersStay(p) /\ store' = store
        /\ \/ Repeats(p)
           \/ Goes(p, here("update")) \/ Goes(p, here("create")) \/ Goes(p, Failed)
    BY <1>1, <1>2, GetOutcome
  <2>. QED BY <2>1 DEF here
<1>3. CASE Create(p, kind, created, next, Failed, TRUE)
  BY <1>1, <1>3, CreateOutcome DEF Patched
<1>4. CASE Update(p, kind, updated, next, TRUE)
  BY <1>4, UpdateOutcome DEF Patched
<1>. QED BY <1>2, <1>3, <1>4 DEF Patch

LEMMA RefreshOutcome ==
    ASSUME TypeInv, NEW p \in Procs, NEW kind \in Kinds, NEW created, NEW updated,
           NEW next, CreateOrRefresh(p, kind, created, updated, next)
    PROVE  /\ OthersStay(p)
           /\ store' = store \/ Patched(p, kind, created, updated)
           /\ \/ Repeats(p)
              \/ Goes(p, Failed)
              \/ Goes(p, next) /\ Patched(p, kind, created, updated)
              \/ /\ Goes(p, next) /\ store' = store
                 /\ proc[p].step = "create" /\ There(p, kind)
              \/ Goes(p, At(proc[p].at, "update")) /\ store' = store
              \/ /\ Goes(p, At(proc[p].at, "create")) /\ store' = store
                 /\ ~There(p, kind) \/ Faults # {}
<1>. DEFINE k == Key(kind, proc[p].cmd.cluster)
            here(s) == At(proc[p].at, s)
<1>1. k \in Keys /\ TypeOK
  BY KeyType, CommandType DEF TypeInv
<1>2. CASE Get(p, k, here("update"), here("create"), here("create"), FALSE)
  <2>1. There(p, kind) <=> store[k] # Absent
    BY DEF There, Present
  <2>. HIDE DEF k, here
  <2>2. /\ OthersStay(p) /\ store' = store
        /\ \/ Repeats(p)
           \/ Goes(p, here("update"))
           \/ Goes(p, here("create")) /\ store[k] = Absent
           \/ Goes(p, here("create")) /\ Faults # {}
    BY <1>1, <1>2, GetOutcome
  <2>. QED BY <2>1, <2>2 DEF here
<1>3. CASE proc[p].step = "create" /\ Create(p, kind, created, next, next, FALSE)
  BY <1>1, <1>3, CreateOutcome DEF Patched
<1>4. CASE Update(p, kind, updated, next, FALSE)
  BY <1>4, UpdateOutcome DEF Patched
<1>. QED BY <1>2, <1>3, <1>4 DEF CreateOrRefresh

LEMMA CreateOnceOutcome ==
    ASSUME TypeInv, NEW p \in Procs, NEW kind \in Kinds, NEW val, NEW next,
           CreateOnce(p, kind, val, next)
    PROVE  /\ OthersStay(p)
           /\ \/ store' = store
              \/ ~There(p, kind) /\ Writes(p, kind, val)
           /\ \/ Repeats(p)
              \/ Goes(p, Failed)
              \/ Goes(p, next) /\ ~There(p, kind) /\ Writes(p, kind, val)
              \/ Goes(p, next) /\ There(p, kind) /\ store' = store
<1>1. Create(p, kind, val, next, next, FALSE) /\ TypeOK
  BY DEF CreateOnce, TypeInv
<1>. QED BY <1>1, CreateOutcome

-----------------------------------------------------------------------------
(* What a step of a command may do to the resources of its cluster         *)

Registrations == {"push", "wi", "pull"}

(* The resources a registration makes. *)
MadeBy(op) ==
    CASE op = "push" -> {"sveltosCluster", "kubeconfig"}
      [] op = "wi"   -> {"sveltosCluster", "ca"}
      [] op = "pull" -> {"sveltosCluster"} \cup Elements(PullModeKinds)
      [] OTHER       -> {}

(* A SveltosCluster as that registration makes it. *)
ModeOf(spec, op) ==
    CASE op = "push" -> ~spec.pullMode /\ spec.wi = "none"
      [] op = "wi"   -> ~spec.pullMode /\ spec.wi # "none"
      [] op = "pull" -> spec.pullMode
      [] OTHER       -> FALSE

(* Command m may replace the object old of a kind by new: a registration   *)
(* makes its resources and keeps the mode of a SveltosCluster that has its *)
(* own; a deregister removes them.                                         *)
MayWrite(m, kind, old, new) ==
    /\ new = Absent <=> m.op = "deregister"
    /\ kind \in ClusterKinds /\ new # Absent => kind \in MadeBy(m.op)
    /\ kind = "clusterRoleBinding" /\ new # Absent => new = m.cluster
    /\ /\ kind = "sveltosCluster" /\ new # Absent
       /\ old = Absent \/ ModeOf(old, m.op)
       => ModeOf(new, m.op)

Held(p, kind) == store[Key(kind, proc[p].cmd.cluster)]

Effect(p) ==
    \/ store' = store
    \/ \E kind \in Kinds : \E val :
         Writes(p, kind, val) /\ MayWrite(proc[p].cmd, kind, Held(p, kind), val)

Orderly(p) == /\ OthersStay(p) /\ proc'[p].cmd = proc[p].cmd
              /\ Fits(proc'[p].at, proc[p].cmd.op)
              /\ Effect(p)
              /\ store' # store => proc'[p] # proc[p]

(* The steps of the registrations go back, on, or to an end. *)
LEMMA Forward ==
    ASSUME TypeInv, NEW p \in Procs, Fits(proc[p].at, proc[p].cmd.op),
           proc[p].at \in Functions, OthersStay(p), Effect(p),
           NEW next, next.at # proc[p].at, Fits(next.at, proc[p].cmd.op),
           \/ Repeats(p)
           \/ Goes(p, Failed)
           \/ Goes(p, next)
           \/ \E s : Goes(p, At(proc[p].at, s)) /\ store' = store
    PROVE  Orderly(p)
<1>1. Fits("failed", proc[p].cmd.op) /\ Failed.at = "failed" /\ proc[p].at # "failed"
  BY FailedFits DEF Functions
<1>2. \A s : At(proc[p].at, s).at = proc[p].at
  BY DEF At
<1>. QED BY <1>1, <1>2 DEF Orderly, Goes, Repeats

LEMMA PatchForward ==
    ASSUME TypeInv, NEW p \in Procs, Fits(proc[p].at, proc[p].cmd.op),
           proc[p].at \in Functions, NEW kind \in Kinds, NEW created, NEW updated,
           NEW next, next.at # proc[p].at, Fits(next.at, proc[p].cmd.op),
           \/ Patch(p, kind, created, updated, next)
           \/ CreateOrRefresh(p, kind, created, updated, next),
           ~There(p, kind) => MayWrite(proc[p].cmd, kind, Held(p, kind), created),
           There(p, kind) => MayWrite(proc[p].cmd, kind, Held(p, kind), updated)
    PROVE  Orderly(p)
<1>1. Patched(p, kind, created, updated) => Effect(p)
  BY DEF Patched, Effect
<1>2. CASE Patch(p, kind, created, updated, next)
  <2>1. /\ OthersStay(p)
        /\ store' = store \/ Patched(p, kind, created, updated)
        /\ \/ Repeats(p)
           \/ Goes(p, Failed)
           \/ Goes(p, next)
           \/ \E s : Goes(p, At(proc[p].at, s)) /\ store' = store
    BY <1>2, PatchOutcome
  <2>2. Effect(p)
    BY <1>1, <2>1 DEF Effect
  <2>. QED BY <2>1, <2>2, Forward
<1>3. CASE CreateOrRefresh(p, kind, created, updated, next)
  <2>1. /\ OthersStay(p)
        /\ store' = store \/ Patched(p, kind, created, updated)
        /\ \/ Repeats(p)
           \/ Goes(p, Failed)
           \/ Goes(p, next)
           \/ \E s : Goes(p, At(proc[p].at, s)) /\ store' = store
    BY <1>3, RefreshOutcome
  <2>2. Effect(p)
    BY <1>1, <2>1 DEF Effect
  <2>. QED BY <2>1, <2>2, Forward
<1>. QED BY <1>2, <1>3

LEMMA CreateOnceForward ==
    ASSUME TypeInv, NEW p \in Procs, Fits(proc[p].at, proc[p].cmd.op),
           proc[p].at \in Functions, NEW kind \in Kinds, NEW val,
           NEW next, next.at # proc[p].at, Fits(next.at, proc[p].cmd.op),
           CreateOnce(p, kind, val, next),
           ~There(p, kind) => MayWrite(proc[p].cmd, kind, Held(p, kind), val)
    PROVE  Orderly(p)
<1>1. /\ OthersStay(p)
      /\ \/ store' = store
         \/ ~There(p, kind) /\ Writes(p, kind, val)
      /\ \/ Repeats(p)
         \/ Goes(p, Failed)
         \/ Goes(p, next)
  BY CreateOnceOutcome
<1>2. Effect(p)
  BY <1>1 DEF Effect
<1>. QED BY <1>1, <1>2, Forward

(* Nothing that is written is confused with nothing at all. *)
LEMMA Written ==
    ASSUME TypeInv, NEW p \in Procs, NEW kind \in Kinds, NEW val \in Objects(kind),
           proc[p].cmd.op # "deregister",
           kind \in ClusterKinds => kind \in MadeBy(proc[p].cmd.op),
           kind = "clusterRoleBinding" => val = proc[p].cmd.cluster,
           kind = "sveltosCluster" /\ (Held(p, kind) = Absent \/
                                       ModeOf(Held(p, kind), proc[p].cmd.op)) =>
             ModeOf(val, proc[p].cmd.op)
    PROVE  MayWrite(proc[p].cmd, kind, Held(p, kind), val)
<1>1. val # Absent
  BY AbsentAssumption
<1>. QED BY <1>1 DEF MayWrite

LEMMA HeldSpec ==
    ASSUME TypeInv, NEW p \in Procs, There(p, "sveltosCluster")
    PROVE  Held(p, "sveltosCluster") \in ClusterSpecs
<1>1. /\ Key("sveltosCluster", proc[p].cmd.cluster) \in Keys
      /\ Key("sveltosCluster", proc[p].cmd.cluster)[1] = "sveltosCluster"
  BY KeyType, CommandType DEF TypeInv, Kinds, ClusterKinds, NamespacedKinds
<1>2. Objects("sveltosCluster") = ClusterSpecs
  BY DEF Objects
<1>. QED BY <1>1, <1>2 DEF TypeInv, TypeOK, There, Present, Held

LEMMA PushEffect ==
    ASSUME TypeInv, NEW p \in Procs, Fits(proc[p].at, proc[p].cmd.op), Push(p)
    PROVE  Orderly(p)
<1>. DEFINE m == proc[p].cmd
            f == proc[p].at
<1>1. m \in CommandSet /\ m.cluster \in Clusters
  BY CommandType DEF TypeInv
<1>2. f \in PushFunctions /\ f \in Functions /\ m.op = "push"
  BY DEF Push, onboardSveltosCluster, patchSecret, patchSveltosCluster,
         PushFunctions, Functions, Fits
<1>3. \A g \in PushFunctions : \A s : Fits(g, "push") /\ At(g, s).at = g
  BY DEF Fits, PushFunctions, WorkloadIdentityFunctions, PullFunctions,
         DeregisterFunctions, AfterServiceAccount, AfterToken, AfterRole,
         AfterClusterRole, AfterClusterRoleBinding, At
<1>4. /\ {"kubeconfig", "sveltosCluster"} \subseteq MadeBy("push")
      /\ {"kubeconfig", "sveltosCluster"} \subseteq Kinds
  BY DEF MadeBy, Kinds, ClusterKinds, NamespacedKinds
<1>5. CASE onboardSveltosCluster(p)
  <2>. DEFINE k == Key("kubeconfig", m.cluster)
              next == At("patchSecret", "get")
  <2>1. k \in Keys /\ TypeOK
    BY <1>1, <1>4, KeyType DEF TypeInv
  <2>2. Get(p, k, next, next, Failed, TRUE) /\ f = "onboardSveltosCluster"
    BY <1>5 DEF onboardSveltosCluster
  <2>3. next.at = "patchSecret" /\ "patchSecret" \in PushFunctions
    BY <1>3 DEF PushFunctions
  <2>. HIDE DEF k, next
  <2>4. /\ OthersStay(p) /\ store' = store
        /\ Repeats(p) \/ Goes(p, next) \/ Goes(p, Failed)
    BY <2>1, <2>2, GetOutcome
  <2>5. Effect(p)
    BY <2>4 DEF Effect
  <2>6. next.at # f /\ Fits(next.at, m.op)
    BY <1>2, <1>3, <2>2, <2>3
  <2>. QED BY <1>2, <2>4, <2>5, <2>6, Forward
<1>6. CASE patchSecret(p)
  <2>. DEFINE next == At("patchSveltosCluster", "get")
  <2>1. Patch(p, "kubeconfig", m.data, m.data, next) /\ f = "patchSecret"
    BY <1>6 DEF patchSecret
  <2>2. m.data \in Objects("kubeconfig")
    BY <1>1 DEF CommandSet, Objects
  <2>3. MayWrite(m, "kubeconfig", Held(p, "kubeconfig"), m.data)
    BY <1>2, <1>4, <2>2, Written
  <2>4. next.at = "patchSveltosCluster" /\ "patchSveltosCluster" \in PushFunctions
    BY <1>3 DEF PushFunctions
  <2>5. next.at # f /\ Fits(next.at, m.op)
    BY <1>2, <1>3, <2>1, <2>4
  <2>. HIDE DEF next
  <2>. QED BY <1>2, <1>4, <2>1, <2>3, <2>5, PatchForward
<1>7. CASE patchSveltosCluster(p)
  <2>. DEFINE next == At("ok", "get")
              old == Held(p, "sveltosCluster")
              new == [old EXCEPT !.labels = m.labels, !.keyName = TRUE,
                                 !.shard = m.shard]
  <2>1. Patch(p, "sveltosCluster", NewSveltosCluster(m), new, next)
        /\ f = "patchSveltosCluster"
    BY <1>7 DEF patchSveltosCluster, Held
  <2>2. NewSveltosCluster(m) \in Objects("sveltosCluster")
    BY <1>1, SpecType DEF Objects
  <2>3. ModeOf(NewSveltosCluster(m), m.op)
    BY <1>2 DEF ModeOf, NewSveltosCluster
  <2>4. MayWrite(m, "sveltosCluster", Held(p, "sveltosCluster"), NewSveltosCluster(m))
    BY <1>2, <1>4, <2>2, <2>3, Written
  <2>5. ASSUME There(p, "sveltosCluster") PROVE MayWrite(m, "sveltosCluster", old, new)
    <3>1. old \in ClusterSpecs /\ old # Absent
      BY <2>5, HeldSpec DEF There, Present, Held
    <3>2. new \in Objects("sveltosCluster")
      BY <1>1, <3>1, SpecType DEF Objects
    <3>3. ModeOf(old, m.op) => ModeOf(new, m.op)
      BY <1>2, <3>1 DEF ModeOf, ClusterSpecs
    <3>. HIDE DEF new
    <3>. QED BY <1>2, <1>4, <3>1, <3>2, <3>3, Written
  <2>6. next.at = "ok" /\ next.at # f /\ Fits(next.at, m.op)
    BY <2>1, EndedFits DEF At, Ended
  <2>. HIDE DEF next, new
  <2>. QED BY <1>2, <1>4, <2>1, <2>4, <2>5, <2>6, PatchForward
<1>. QED BY <1>5, <1>6, <1>7 DEF Push

LEMMA WorkloadIdentityEffect ==
    ASSUME TypeInv, NEW p \in Procs, Fits(proc[p].at, proc[p].cmd.op),
           WorkloadIdentity(p)
    PROVE  Orderly(p)
<1>. DEFINE m == proc[p].cmd
            f == proc[p].at
            last == "patchSveltosClusterWithWorkloadIdentity"
<1>1. m \in CommandSet /\ m.cluster \in Clusters
  BY CommandType DEF TypeInv
<1>2. f \in WorkloadIdentityFunctions /\ f \in Functions /\ m.op = "wi"
  BY DEF WorkloadIdentity, patchCASecret, patchSveltosClusterWithWorkloadIdentity,
         WorkloadIdentityFunctions, Functions, Fits
<1>3. Fits(last, "wi") /\ At(last, "get").at = last
  BY DEF Fits, PushFunctions, WorkloadIdentityFunctions, PullFunctions,
         DeregisterFunctions, AfterServiceAccount, AfterToken, AfterRole,
         AfterClusterRole, AfterClusterRoleBinding, At
<1>4. {"ca", "sveltosCluster"} \subseteq MadeBy("wi") /\ {"ca", "sveltosCluster"} \subseteq Kinds
  BY DEF MadeBy, Kinds, ClusterKinds, NamespacedKinds
<1>5. CASE patchCASecret(p)
  <2>. DEFINE next == At(last, "get")
  <2>1. Patch(p, "ca", m.data, m.data, next) /\ f = "patchCASecret"
    BY <1>5 DEF patchCASecret
  <2>2. m.data \in Objects("ca")
    BY <1>1 DEF CommandSet, Objects
  <2>3. MayWrite(m, "ca", Held(p, "ca"), m.data)
    BY <1>2, <1>4, <2>2, Written
  <2>4. next.at # f /\ Fits(next.at, m.op)
    BY <1>2, <1>3, <2>1
  <2>. HIDE DEF next
  <2>. QED BY <1>2, <1>4, <2>1, <2>3, <2>4, PatchForward
<1>6. CASE patchSveltosClusterWithWorkloadIdentity(p)
  <2>. DEFINE next == At("ok", "get")
              old == Held(p, "sveltosCluster")
              new == [old EXCEPT !.labels = m.labels, !.keyName = FALSE,
                                 !.wi = NewSveltosCluster(m).wi,
                                 !.shard = m.shard]
  <2>1. Patch(p, "sveltosCluster", NewSveltosCluster(m), new, next) /\ f = last
    BY <1>6 DEF patchSveltosClusterWithWorkloadIdentity, Held
  <2>2. NewSveltosCluster(m) \in Objects("sveltosCluster")
    BY <1>1, SpecType DEF Objects
  <2>3. ModeOf(NewSveltosCluster(m), m.op)
    BY <1>2 DEF ModeOf, NewSveltosCluster
  <2>4. MayWrite(m, "sveltosCluster", Held(p, "sveltosCluster"), NewSveltosCluster(m))
    BY <1>2, <1>4, <2>2, <2>3, Written
  <2>5. ASSUME There(p, "sveltosCluster") PROVE MayWrite(m, "sveltosCluster", old, new)
    <3>1. old \in ClusterSpecs /\ old # Absent
      BY <2>5, HeldSpec DEF There, Present, Held
    <3>2. new \in Objects("sveltosCluster")
      BY <1>1, <3>1, SpecType DEF Objects
    <3>3. ModeOf(old, m.op) => ModeOf(new, m.op)
      BY <1>2, <3>1 DEF ModeOf, ClusterSpecs, NewSveltosCluster
    <3>. HIDE DEF new
    <3>. QED BY <1>2, <1>4, <3>1, <3>2, <3>3, Written
  <2>6. next.at = "ok" /\ next.at # f /\ Fits(next.at, m.op)
    BY <2>1, EndedFits DEF At, Ended
  <2>. HIDE DEF next, new
  <2>. QED BY <1>2, <1>4, <2>1, <2>4, <2>5, <2>6, PatchForward
<1>. QED BY <1>5, <1>6 DEF WorkloadIdentity

LEMMA PullEffect ==
    ASSUME TypeInv, NEW p \in Procs, Fits(proc[p].at, proc[p].cmd.op), Pull(p)
    PROVE  Orderly(p)
<1>. DEFINE m == proc[p].cmd
            f == proc[p].at
<1>1. m \in CommandSet /\ m.cluster \in Clusters
  BY CommandType DEF TypeInv
<1>2. f \in PullFunctions /\ f \in Functions /\ m.op = "pull"
  BY DEF Pull, createNamespace, createServiceAccount, createSecret, createRole,
         createClusterRole, createRoleBinding, createClusterRoleBinding,
         createSveltosCluster, getKubeconfig, PullFunctions, Functions, Fits,
         AfterServiceAccount, AfterToken, AfterRole, AfterClusterRole,
         AfterClusterRoleBinding
<1>3. \A g \in PullFunctions : \A s : Fits(g, "pull") /\ At(g, s).at = g
  BY DEF Fits, PushFunctions, WorkloadIdentityFunctions, PullFunctions,
         DeregisterFunctions, AfterServiceAccount, AfterToken, AfterRole,
         AfterClusterRole, AfterClusterRoleBinding, At
<1>4. PullModeNeeds \cup {"sveltosCluster", "roleBinding"} \subseteq MadeBy("pull")
  <2>1. \A i \in 1 .. 6 : PullModeKinds[i] \in Elements(PullModeKinds)
    BY DEF Elements, PullModeKinds
  <2>. QED BY <2>1 DEF MadeBy, PullModeNeeds, PullModeKinds
<1>5. PullModeNeeds \cup {"sveltosCluster", "roleBinding", "namespace"} \subseteq Kinds
  BY DEF PullModeNeeds, Kinds, ClusterKinds, NamespacedKinds, ScopedKinds
<1>6. "createServiceAccount" \in PullFunctions /\ "createSecret" \in PullFunctions
      /\ "createRole" \in PullFunctions /\ "createClusterRole" \in PullFunctions
      /\ "createRoleBinding" \in PullFunctions
      /\ "createClusterRoleBinding" \in PullFunctions
      /\ "createSveltosCluster" \in PullFunctions /\ "getKubeconfig" \in PullFunctions
  BY DEF PullFunctions, AfterServiceAccount, AfterToken, AfterRole,
         AfterClusterRole, AfterClusterRoleBinding
<1>7. ASSUME NEW kind \in Kinds \ {"sveltosCluster"}, NEW val \in Objects(kind),
             kind \in ClusterKinds => kind \in MadeBy("pull"),
             kind = "clusterRoleBinding" => val = m.cluster
      PROVE  MayWrite(m, kind, Held(p, kind), val)
  BY <1>2, <1>7, Written
<1>8. ASSUME NEW kind \in PullModeNeeds \cup {"namespace"}, NEW val \in Objects(kind),
             kind = "clusterRoleBinding" => val = m.cluster,
             NEW g \in PullFunctions, g # f, CreateOnce(p, kind, val, At(g, "get"))
      PROVE  Orderly(p)
  <2>1. kind \in Kinds /\ (kind \in ClusterKinds => kind \in MadeBy("pull"))
        /\ kind # "sveltosCluster"
    BY <1>4, <1>5 DEF PullModeNeeds, ClusterKinds, NamespacedKinds, ScopedKinds
  <2>2. MayWrite(m, kind, Held(p, kind), val)
    BY <1>7, <1>8, <2>1
  <2>3. At(g, "get").at # f /\ Fits(At(g, "get").at, m.op)
    BY <1>2, <1>3, <1>8
  <2>. QED BY <1>2, <1>8, <2>1, <2>2, <2>3, CreateOnceForward
<1>9. ASSUME NEW kind \in Kinds, NEW created, NEW updated, NEW g \in PullFunctions,
             g # f, CreateOrRefresh(p, kind, created, updated, At(g, "get")),
             MayWrite(m, kind, Held(p, kind), created),
             There(p, kind) => MayWrite(m, kind, Held(p, kind), updated)
      PROVE  Orderly(p)
  <2>1. At(g, "get").at # f /\ Fits(At(g, "get").at, m.op)
    BY <1>2, <1>3, <1>9
  <2>. QED BY <1>2, <1>9, <2>1, PatchForward
<1>10. CASE createNamespace(p) \/ createServiceAccount(p) \/ createSecret(p)
            \/ createClusterRoleBinding(p)
  <2>1. /\ "present" \in Objects("namespace") /\ "present" \in Objects("serviceAccount")
        /\ "empty" \in Objects("token") /\ m.cluster \in Objects("clusterRoleBinding")
    BY <1>1 DEF Objects
  <2>2. {"namespace", "serviceAccount", "token", "clusterRoleBinding"}
          \subseteq PullModeNeeds \cup {"namespace"}
    BY DEF PullModeNeeds
  <2>3. CASE createNamespace(p)
    BY <1>6, <1>8, <2>1, <2>2, <2>3 DEF createNamespace
  <2>4. CASE createServiceAccount(p)
    BY <1>6, <1>8, <2>1, <2>2, <2>4 DEF createServiceAccount
  <2>5. CASE createSecret(p)
    BY <1>6, <1>8, <2>1, <2>2, <2>5 DEF createSecret
  <2>6. CASE createClusterRoleBinding(p)
    BY <1>6, <1>8, <2>1, <2>2, <2>6 DEF createClusterRoleBinding
  <2>. QED BY <1>10, <2>3, <2>4, <2>5, <2>6
<1>11. CASE createRole(p)
  <2>1. CASE proc' = Moved(p, At("createRole", "create")) /\ store' = store
    <3>1. Goes(p, At("createRole", "create")) /\ OthersStay(p)
      BY <2>1, MovedGoes DEF TypeInv
    <3>2. f = "createRole" /\ Effect(p)
      BY <1>11, <2>1 DEF createRole, Effect
    <3>. QED BY <1>2, <2>1, <3>1, <3>2 DEF Orderly, Goes, At
  <2>2. CASE CreateOnce(p, "role", m.release, At("createClusterRole", "get"))
    <3>1. m.release \in Objects("role") /\ "role" \in PullModeNeeds
      BY <1>1 DEF Objects, CommandSet, PullModeNeeds
    <3>. QED BY <1>6, <1>8, <1>11, <2>2, <3>1 DEF createRole
  <2>. QED BY <1>11, <2>1, <2>2 DEF createRole
<1>12. CASE createClusterRole(p)
  <2>1. m.release \in Objects("clusterRole") /\ "clusterRole" \in PullModeNeeds
        /\ "clusterRole" \in Kinds \ {"sveltosCluster"}
    BY <1>1, <1>5 DEF Objects, CommandSet, PullModeNeeds
  <2>2. MayWrite(m, "clusterRole", Held(p, "clusterRole"), m.release)
    BY <1>4, <1>7, <2>1
  <2>. QED BY <1>6, <1>9, <1>12, <2>1, <2>2 DEF createClusterRole
<1>13. CASE createRoleBinding(p)
  <2>. DEFINE next == At("createClusterRoleBinding", "get")
              k == Key("roleBinding", m.cluster)
  <2>1. PICK admitted : Write(p, k, admitted, m.cluster, next, next, next, FALSE)
    BY <1>13 DEF createRoleBinding
  <2>2. k \in Keys /\ TypeOK
    BY <1>1, <1>5, KeyType DEF TypeInv
  <2>3. m.cluster \in Objects("roleBinding")
    BY <1>1 DEF Objects
  <2>4. MayWrite(m, "roleBinding", Held(p, "roleBinding"), m.cluster)
    BY <1>4, <1>5, <1>7, <2>3
  <2>5. Writes(p, "roleBinding", m.cluster) <=> store' = [store EXCEPT ![k] = m.cluster]
    BY DEF Writes
  <2>6. next.at = "createClusterRoleBinding" /\ f = "createRoleBinding"
    BY <1>13 DEF createRoleBinding, At
  <2>7. next.at # f /\ Fits(next.at, m.op)
    BY <1>2, <1>3, <1>6, <2>6
  <2>. HIDE DEF next, k
  <2>8. /\ OthersStay(p)
        /\ store' = store \/ store' = [store EXCEPT ![k] = m.cluster]
        /\ Repeats(p) \/ Goes(p, next)
    BY <2>1, <2>2, WriteOutcome
  <2>9. Effect(p)
    BY <1>5, <2>4, <2>5, <2>8 DEF Effect
  <2>. QED BY <1>2, <2>7, <2>8, <2>9, Forward
<1>14. CASE createSveltosCluster(p)
  <2>. DEFINE old == Held(p, "sveltosCluster")
              new == [old EXCEPT !.labels = @ \cup m.labels, !.shard = m.shard]
  <2>1. /\ CreateOrRefresh(p, "sveltosCluster", NewSveltosCluster(m), new,
                           At("getKubeconfig", "get"))
        /\ f = "createSveltosCluster"
    BY <1>14 DEF createSveltosCluster, Held
  <2>2. NewSveltosCluster(m) \in Objects("sveltosCluster")
    BY <1>1, SpecType DEF Objects
  <2>3. ModeOf(NewSveltosCluster(m), m.op)
    BY <1>2 DEF ModeOf, NewSveltosCluster
  <2>4. MayWrite(m, "sveltosCluster", Held(p, "sveltosCluster"), NewSveltosCluster(m))
    BY <1>2, <1>4, <1>5, <2>2, <2>3, Written
  <2>5. ASSUME There(p, "sveltosCluster") PROVE MayWrite(m, "sveltosCluster", old, new)
    <3>1. old \in ClusterSpecs /\ old # Absent
      BY <2>5, HeldSpec DEF There, Present, Held
    <3>2. new \in Objects("sveltosCluster")
      BY <1>1, <3>1, SpecType DEF Objects
    <3>3. ModeOf(old, m.op) => ModeOf(new, m.op)
      BY <1>2, <3>1 DEF ModeOf, ClusterSpecs
    <3>. HIDE DEF new
    <3>. QED BY <1>2, <1>4, <1>5, <3>1, <3>2, <3>3, Written
  <2>. HIDE DEF new
  <2>. QED BY <1>5, <1>6, <1>9, <2>1, <2>4, <2>5
<1>15. CASE getKubeconfig(p)
  <2>. DEFINE next == At("ok", "get")
  <2>1. /\ proc' = Moved(p, next) \/ proc' = Moved(p, Failed)
        /\ store' = store /\ f = "getKubeconfig"
    BY <1>15 DEF getKubeconfig
  <2>2. next.at = "ok" /\ Fits(next.at, m.op) /\ next.at # f
    BY <2>1, EndedFits DEF At, Ended
  <2>. HIDE DEF next
  <2>3. OthersStay(p) /\ (Goes(p, next) \/ Goes(p, Failed))
    BY <2>1, MovedGoes DEF TypeInv
  <2>4. Effect(p)
    BY <2>1 DEF Effect
  <2>. QED BY <1>2, <2>2, <2>3, <2>4, Forward
<1>. QED BY <1>10, <1>11, <1>12, <1>13, <1>14, <1>15 DEF Pull

LEMMA DeregisterEffect ==
    ASSUME TypeInv, NEW p \in Procs, Fits(proc[p].at, proc[p].cmd.op), Deregister(p)
    PROVE  Orderly(p)
<1>1. /\ OthersStay(p) /\ proc'[p].cmd = proc[p].cmd
      /\ Fits(proc'[p].at, proc[p].cmd.op)
  BY DeregisterLocal DEF OthersStay
<1>2. proc \in [Procs -> Locals]
  BY DEF TypeInv, TypeOK
<1>3. proc[p].cmd.op = "deregister"
  BY DeregisterLocal DEF Fits
<1>4. \A kind : MayWrite(proc[p].cmd, kind, Held(p, kind), Absent)
  BY <1>3 DEF MayWrite
<1>5. CASE store' = store
  BY <1>1, <1>5 DEF Orderly, Effect
<1>6. CASE deleteCall(p) /\ store' # store
  <2>1. /\ Head(proc[p].todo) \in Kinds
        /\ Writes(p, Head(proc[p].todo), Absent)
    BY <1>2, <1>6 DEF deleteCall, Locals, Kinds, Writes
  <2>2. Effect(p)
    BY <1>4, <2>1 DEF Effect
  <2>3. proc[p].step = "delete" /\ proc'[p].step = "get"
    <3>1. \E kind, error : proc' = Returned(p, kind, error)
      BY <1>6 DEF deleteCall
    <3>2. proc'[p].step = "get"
      BY <1>2, <3>1 DEF Returned, Locals
    <3>. QED BY <1>6, <3>2 DEF deleteCall
  <2>. QED BY <1>1, <2>2, <2>3 DEF Orderly
<1>7. CASE deleteSveltosCluster(p) /\ store' # store
  <2>1. "sveltosCluster" \in Kinds /\ Writes(p, "sveltosCluster", Absent)
    BY <1>7 DEF deleteSveltosCluster, Writes, Kinds, ClusterKinds, NamespacedKinds
  <2>2. Effect(p)
    BY <1>4, <2>1 DEF Effect
  <2>3. proc[p].at = "deleteResources"
    BY <1>7 DEF deleteSveltosCluster
  <2>4. CASE proc' = [proc EXCEPT ![p].tries = @ + 1] /\ Faults # {}
    <3>1. Repeats(p)
      BY <2>4, CountedRepeats DEF TypeInv
    <3>. QED BY <1>1, <2>2, <3>1 DEF Orderly, Repeats
  <2>5. CASE proc' = Finished(p, "ok") \/ proc' = Finished(p, "failed")
    <3>1. proc'[p].at # "deleteResources"
      BY <1>2, <2>5 DEF Finished, Process
    <3>. QED BY <1>1, <2>2, <2>3, <3>1 DEF Orderly
  <2>. QED BY <1>7, <2>4, <2>5 DEF deleteSveltosCluster
<1>. QED BY <1>5, <1>6, <1>7
     DEF Deregister, deregisterSveltosCluster, deleteGet, orphansDeleted

LEMMA StepEffect ==
    ASSUME TypeInv, NEW p \in Procs, Fits(proc[p].at, proc[p].cmd.op), Step(p)
    PROVE  Orderly(p) /\ Running(p)
<1>1. Orderly(p)
  BY PushEffect, WorkloadIdentityEffect, PullEffect, DeregisterEffect DEF Step
<1>2. Running(p)
  BY DEF Running, Ended, Step, Push, WorkloadIdentity, Pull, Deregister,
         onboardSveltosCluster, patchSecret, patchSveltosCluster, patchCASecret,
         patchSveltosClusterWithWorkloadIdentity, createNamespace,
         createServiceAccount, createSecret, createRole, createClusterRole,
         createRoleBinding, createClusterRoleBinding, createSveltosCluster,
         getKubeconfig, deregisterSveltosCluster, deleteGet, deleteCall,
         deleteSveltosCluster, orphansDeleted
<1>. QED BY <1>1, <1>2

-----------------------------------------------------------------------------
(* Every process executes a function of its command, and beside others     *)
(* only if both may overlap.                                               *)

Fitting == \A p \in Procs : Fits(proc[p].at, proc[p].cmd.op)

Exclusive ==
    \A p, q \in Procs : p # q /\ Running(p) /\ Running(q) =>
                          {proc[p].cmd.op, proc[q].cmd.op} \subseteq Overlap

Base == TypeInv /\ Fitting /\ Exclusive

LEMMA StartEffect ==
    ASSUME TypeInv, NEW p \in Procs, Start(p)
    PROVE  /\ OthersStay(p) /\ store' = store /\ ~Running(p)
           /\ \E m \in Commands : /\ proc'[p] = Process(EntryPoint(m), m)
                                  /\ Fits(EntryPoint(m), m.op)
                                  /\ \A q \in Procs : Running(q) =>
                                       {m.op, proc[q].cmd.op} \subseteq Overlap
<1>1. /\ ~Running(p) /\ store' = store
      /\ \E m \in Commands :
           /\ \A q \in Procs : Running(q) => {m.op, proc[q].cmd.op} \subseteq Overlap
           /\ proc' = [proc EXCEPT ![p] = Process(EntryPoint(m), m)]
  BY DEF Start
<1>2. PICK m \in Commands :
        /\ \A q \in Procs : Running(q) => {m.op, proc[q].cmd.op} \subseteq Overlap
        /\ proc' = [proc EXCEPT ![p] = Process(EntryPoint(m), m)]
  BY <1>1
<1>3. proc'[p] = Process(EntryPoint(m), m) /\ OthersStay(p)
  BY <1>2 DEF TypeInv, TypeOK, OthersStay
<1>4. m.op \in Ops
  BY CommandsAssumption DEF CommandSet
<1>5. Fits(EntryPoint(m), m.op)
  <2>1. EntryPoint(m) \in
          CASE m.op = "push" -> {"onboardSveltosCluster"}
            [] m.op = "wi" -> {"patchCASecret", "patchSveltosClusterWithWorkloadIdentity"}
            [] m.op = "pull" -> {"createNamespace"}
            [] m.op = "deregister" -> {"deregisterSveltosCluster"}
    BY <1>4 DEF EntryPoint, Ops
  <2>. QED BY <1>4, <2>1
       DEF Ops, Fits, PushFunctions, WorkloadIdentityFunctions, PullFunctions,
           DeregisterFunctions, AfterServiceAccount, AfterToken, AfterRole,
           AfterClusterRole, AfterClusterRoleBinding
<1>. QED BY <1>1, <1>2, <1>3, <1>5

LEMMA CrashEffect ==
    ASSUME TypeInv, NEW p \in Procs, Crash(p)
    PROVE  /\ OthersStay(p) /\ store' = store /\ Running(p)
           /\ proc'[p].at = "failed" /\ proc'[p].cmd = proc[p].cmd
           /\ proc[p].cmd.op \in CrashOps
BY DEF TypeInv, TypeOK, Crash, Finished, Process, OthersStay

(* Whatever happens, happens to one process, or to one token. *)
LEMMA Happens ==
    ASSUME Base, [Next]_vars
    PROVE  \/ store' = store /\ proc' = proc
           \/ \E c \in Clusters : FillToken(c)
           \/ \E p \in Procs : \/ Start(p)
                               \/ Crash(p)
                               \/ Step(p) /\ Orderly(p) /\ Running(p)
<1>1. CASE UNCHANGED vars
  BY <1>1 DEF vars
<1>2. ASSUME NEW p \in Procs, Step(p) PROVE Orderly(p) /\ Running(p)
  BY <1>2, StepEffect DEF Base, Fitting
<1>. QED BY <1>1, <1>2 DEF Next

LEMMA InitBase == Init => Base
<1>. SUFFICES ASSUME Init PROVE Base
  OBVIOUS
<1>1. \A p \in Procs : proc[p].at = "ready"
  BY DEF Init, Process
<1>2. \A op : Fits("ready", op)
  BY EndedFits DEF Ended
<1>. QED BY <1>1, <1>2, InitType DEF Base, Fitting, Exclusive, Running, Ended

LEMMA NextBase == Base /\ [Next]_vars => Base'
<1>. SUFFICES ASSUME Base, [Next]_vars PROVE Base'
  OBVIOUS
<1>1. TypeInv' /\ TypeInv
  BY NextType DEF Base
<1>2. ASSUME NEW p \in Procs, OthersStay(p), Fits(proc'[p].at, proc'[p].cmd.op),
             \A q \in Procs \ {p} : proc'[p].at \notin Ended /\ Running(q) =>
               {proc'[p].cmd.op, proc[q].cmd.op} \subseteq Overlap
      PROVE  Fitting' /\ Exclusive'
  BY <1>2 DEF Base, Fitting, Exclusive, Running, OthersStay
<1>3. CASE proc' = proc
  <2>1. Fitting' /\ \A p \in Procs : Running(p)' <=> Running(p)
    BY <1>3 DEF Base, Fitting, Running
  <2>2. Exclusive'
    BY <1>3, <2>1 DEF Base, Exclusive
  <2>. QED BY <1>1, <2>1, <2>2 DEF Base
<1>4. ASSUME NEW p \in Procs, Start(p) PROVE Fitting' /\ Exclusive'
  <2>1. OthersStay(p)
    BY <1>1, <1>4, StartEffect
  <2>2. PICK m \in Commands : /\ proc'[p] = Process(EntryPoint(m), m)
                              /\ Fits(EntryPoint(m), m.op)
                              /\ \A q \in Procs : Running(q) =>
                                   {m.op, proc[q].cmd.op} \subseteq Overlap
    BY <1>1, <1>4, StartEffect
  <2>3. proc'[p].at = EntryPoint(m) /\ proc'[p].cmd = m
    BY <2>2 DEF Process
  <2>. QED BY <1>2, <2>1, <2>2, <2>3
<1>5. ASSUME NEW p \in Procs, Crash(p) PROVE Fitting' /\ Exclusive'
  BY <1>1, <1>2, <1>5, CrashEffect, EndedFits DEF Ended
<1>6. ASSUME NEW p \in Procs, Orderly(p), Running(p) PROVE Fitting' /\ Exclusive'
  BY <1>2, <1>6 DEF Orderly, Base, Exclusive
<1>7. ASSUME NEW c \in Clusters, FillToken(c) PROVE proc' = proc
  BY <1>7 DEF FillToken
<1>. QED BY <1>1, <1>3, <1>4, <1>5, <1>6, <1>7, Happens DEF Base

-----------------------------------------------------------------------------
(* What a write leaves alone                                               *)

LEMMA EffectKeys ==
    ASSUME TypeInv, NEW kind \in Kinds, NEW c \in Clusters, NEW val,
           store' = [store EXCEPT ![Key(kind, c)] = val]
    PROVE  /\ store'[Key(kind, c)] = val
           /\ \A other \in Kinds, d \in Clusters :
                Key(other, d) # Key(kind, c) => store'[Key(other, d)] = store[Key(other, d)]
<1>1. Key(kind, c) \in Keys /\ \A other \in Kinds, d \in Clusters : Key(other, d) \in Keys
  BY KeyType
<1>. QED BY <1>1 DEF TypeInv, TypeOK

-----------------------------------------------------------------------------
(* A command that no other may overlap                                     *)

Unshared(p) == Running(p) /\ proc[p].cmd.op \notin Overlap

(* While such a command runs, nothing happens but its own calls, its end   *)
(* and the work of the token controller.                                   *)
LEMMA RunsAlone ==
    ASSUME Base, [Next]_vars, NEW p \in Procs, Unshared(p)
    PROVE  \/ Step(p) /\ Orderly(p)
           \/ proc'[p].at = "failed"
           \/ /\ proc'[p] = proc[p]
              /\ store' = store \/ \E c \in Clusters : FillToken(c)
<1>1. \A q \in Procs \ {p} : ~Running(q)
  BY DEF Base, Exclusive, Unshared
<1>2. ASSUME NEW q \in Procs, Start(q) PROVE FALSE
  BY <1>2 DEF Start, Unshared
<1>3. ASSUME NEW q \in Procs, Crash(q) PROVE proc'[p].at = "failed"
  BY <1>1, <1>3, CrashEffect DEF Base
<1>4. ASSUME NEW c \in Clusters, FillToken(c) PROVE proc' = proc
  BY <1>4 DEF FillToken
<1>. QED BY <1>1, <1>2, <1>3, <1>4, Happens

(* A command that comes to run has just been started, or was running.      *)
LEMMA WasRunning ==
    ASSUME Base, [Next]_vars, NEW p \in Procs, Running(p)'
    PROVE  \/ Running(p) /\ proc'[p].cmd = proc[p].cmd
           \/ \E m \in Commands : proc'[p] = Process(EntryPoint(m), m) /\ store' = store
<1>1. CASE proc'[p] = proc[p]
  BY <1>1 DEF Running
<1>2. ASSUME NEW q \in Procs, Start(q), proc'[p] # proc[p]
      PROVE  \E m \in Commands : proc'[p] = Process(EntryPoint(m), m) /\ store' = store
  <2>1. p = q /\ TypeInv
    BY <1>2, StartEffect DEF Base, OthersStay
  <2>. QED BY <1>2, <2>1, StartEffect
<1>3. ASSUME NEW q \in Procs, Crash(q), proc'[p] # proc[p] PROVE FALSE
  BY <1>3, CrashEffect DEF Base, OthersStay, Running, Ended
<1>4. ASSUME NEW q \in Procs, Orderly(q), Running(q), proc'[p] # proc[p]
      PROVE  Running(p) /\ proc'[p].cmd = proc[p].cmd
  BY <1>4 DEF Orderly, OthersStay
<1>5. ASSUME NEW c \in Clusters, FillToken(c) PROVE proc' = proc
  BY <1>5 DEF FillToken
<1>. QED BY <1>1, <1>2, <1>3, <1>4, <1>5, Happens

(* Only a step of its own makes a command succeed. *)
LEMMA OwnSuccess ==
    ASSUME Base, [Next]_vars, NEW p \in Procs, NEW op, Succeeds(p, op)
    PROVE  Step(p) /\ Orderly(p) /\ Fits(proc[p].at, op)
<1>1. Running(p) /\ proc'[p].at = "ok" /\ proc[p].cmd.op = op /\ "ok" \in Ended
  BY DEF Succeeds, Ended
<1>2. proc'[p] # proc[p]
  BY <1>1 DEF Running
<1>3. ASSUME NEW q \in Procs, Start(q) PROVE FALSE
  BY <1>1, <1>2, <1>3, StartEffect DEF Base, OthersStay
<1>4. ASSUME NEW q \in Procs, Crash(q) PROVE FALSE
  BY <1>1, <1>2, <1>4, CrashEffect DEF Base, OthersStay
<1>5. ASSUME NEW c \in Clusters, FillToken(c) PROVE proc' = proc
  BY <1>5 DEF FillToken
<1>6. ASSUME NEW q \in Procs, Step(q), Orderly(q) PROVE q = p
  BY <1>2, <1>6 DEF Orderly, OthersStay
<1>7. Fits(proc[p].at, op)
  BY <1>1 DEF Base, Fitting
<1>. QED BY <1>2, <1>3, <1>4, <1>5, <1>6, <1>7, Happens

(* Nothing p writes to one kind of resource disturbs another kind. *)
LEMMA WritesOne ==
    ASSUME TypeInv, NEW p \in Procs, NEW kind \in Kinds, NEW val, Writes(p, kind, val)
    PROVE  /\ Left(kind, p) = val
           /\ \A other \in Kinds \ {kind} : Left(other, p) = Held(p, other)
<1>. DEFINE c == proc[p].cmd.cluster
<1>1. c \in Clusters /\ store' = [store EXCEPT ![Key(kind, c)] = val]
  BY CommandType DEF TypeInv, Writes
<1>2. \A other \in Kinds \ {kind} : Key(other, c) # Key(kind, c)
  BY <1>1, KeysDiffer
<1>3. /\ store'[Key(kind, c)] = val
      /\ \A other \in Kinds, d \in Clusters :
           Key(other, d) # Key(kind, c) => store'[Key(other, d)] = store[Key(other, d)]
  <2>. HIDE DEF c
  <2>. QED BY <1>1, EffectKeys
<1>. QED BY <1>1, <1>2, <1>3 DEF Left, Held

-----------------------------------------------------------------------------
(* Push mode and workload identity leave what was asked for                *)

LEMMA PushLeaves ==
    ASSUME TypeInv, NEW p \in Procs, proc[p].cmd.op = "push", Push(p)
    PROVE  /\ proc'[p].at = "patchSveltosCluster" =>
                \/ Writes(p, "kubeconfig", proc[p].cmd.data)
                \/ /\ proc[p].at = "patchSveltosCluster"
                   /\ store' = store \/ \E val : Writes(p, "sveltosCluster", val)
           /\ proc'[p].at = "ok" =>
                /\ proc[p].at = "patchSveltosCluster"
                /\ \E spec : /\ Writes(p, "sveltosCluster", spec)
                             /\ spec.labels = proc[p].cmd.labels
                             /\ spec.shard = proc[p].cmd.shard /\ spec.keyName
                             /\ There(p, "sveltosCluster")
                                  \/ spec = NewSveltosCluster(proc[p].cmd)
<1>. DEFINE m == proc[p].cmd
<1>1. m \in CommandSet /\ m.cluster \in Clusters /\ TypeOK
  BY CommandType DEF TypeInv
<1>2. {"kubeconfig", "sveltosCluster"} \subseteq Kinds
  BY DEF Kinds, ClusterKinds, NamespacedKinds
<1>3. CASE onboardSveltosCluster(p)
  <2>. DEFINE k == Key("kubeconfig", m.cluster)
              next == At("patchSecret", "get")
  <2>1. k \in Keys
    BY <1>1, <1>2, KeyType
  <2>2. Get(p, k, next, next, Failed, TRUE) /\ proc[p].at = "onboardSveltosCluster"
    BY <1>3 DEF onboardSveltosCluster
  <2>3. next.at = "patchSecret" /\ Failed.at = "failed"
    BY DEF At, Failed
  <2>. HIDE DEF k, next
  <2>4. Repeats(p) \/ Goes(p, next) \/ Goes(p, Failed)
    BY <1>1, <2>1, <2>2, GetOutcome
  <2>. QED BY <2>2, <2>3, <2>4 DEF Repeats, Goes
<1>4. CASE patchSecret(p)
  <2>. DEFINE next == At("patchSveltosCluster", "get")
  <2>1. Patch(p, "kubeconfig", m.data, m.data, next) /\ proc[p].at = "patchSecret"
    BY <1>4 DEF patchSecret
  <2>2. next.at = "patchSveltosCluster" /\ Failed.at = "failed"
        /\ \A s : At("patchSecret", s).at = "patchSecret"
    BY DEF At, Failed
  <2>. HIDE DEF next
  <2>3. \/ Repeats(p) \/ Goes(p, Failed)
        \/ Goes(p, next) /\ Patched(p, "kubeconfig", m.data, m.data)
        \/ \E s \in {"create", "update"} : Goes(p, At(proc[p].at, s))
    BY <1>2, <2>1, PatchOutcome
  <2>. QED BY <2>1, <2>2, <2>3 DEF Repeats, Goes, Patched
<1>5. CASE patchSveltosCluster(p)
  <2>. DEFINE next == At("ok", "get")
              old == Held(p, "sveltosCluster")
              new == [old EXCEPT !.labels = m.labels, !.keyName = TRUE,
                                 !.shard = m.shard]
              fits(spec) == /\ spec.labels = m.labels /\ spec.shard = m.shard
                            /\ spec.keyName
                            /\ There(p, "sveltosCluster") \/ spec = NewSveltosCluster(m)
  <2>1. Patch(p, "sveltosCluster", NewSveltosCluster(m), new, next)
        /\ proc[p].at = "patchSveltosCluster"
    BY <1>5 DEF patchSveltosCluster, Held
  <2>2. next.at = "ok" /\ Failed.at = "failed"
        /\ \A s : At("patchSveltosCluster", s).at = "patchSveltosCluster"
    BY DEF At, Failed
  <2>3. fits(NewSveltosCluster(m))
    BY DEF NewSveltosCluster
  <2>4. ASSUME There(p, "sveltosCluster") PROVE fits(new)
    <3>1. old \in ClusterSpecs
      BY <2>4, HeldSpec
    <3>. QED BY <2>4, <3>1 DEF ClusterSpecs
  <2>. HIDE DEF next, new
  <2>5. /\ store' = store \/ Patched(p, "sveltosCluster", NewSveltosCluster(m), new)
        /\ \/ Repeats(p) \/ Goes(p, Failed)
           \/ Goes(p, next) /\ Patched(p, "sveltosCluster", NewSveltosCluster(m), new)
           \/ \E s \in {"create", "update"} : Goes(p, At(proc[p].at, s))
    BY <1>2, <2>1, PatchOutcome
  <2>6. Patched(p, "sveltosCluster", NewSveltosCluster(m), new) =>
          \E spec : Writes(p, "sveltosCluster", spec) /\ fits(spec)
    BY <2>3, <2>4 DEF Patched
  <2>. QED BY <2>1, <2>2, <2>5, <2>6 DEF Repeats, Goes
<1>. QED BY <1>3, <1>4, <1>5 DEF Push

LEMMA WorkloadIdentityLeaves ==
    ASSUME TypeInv, NEW p \in Procs, proc[p].cmd.op = "wi", WorkloadIdentity(p)
    PROVE  /\ proc'[p].at = "patchSveltosClusterWithWorkloadIdentity" =>
                \/ Writes(p, "ca", proc[p].cmd.data)
                \/ /\ proc[p].at = "patchSveltosClusterWithWorkloadIdentity"
                   /\ store' = store \/ \E val : Writes(p, "sveltosCluster", val)
           /\ proc'[p].at = "ok" =>
                /\ proc[p].at = "patchSveltosClusterWithWorkloadIdentity"
                /\ \E spec : /\ Writes(p, "sveltosCluster", spec)
                             /\ spec.labels = proc[p].cmd.labels
                             /\ spec.shard = proc[p].cmd.shard /\ spec.keyName = FALSE
                             /\ spec.wi = IF proc[p].cmd.ca THEN "ca" ELSE "plain"
                             /\ There(p, "sveltosCluster")
                                  \/ spec = NewSveltosCluster(proc[p].cmd)
<1>. DEFINE m == proc[p].cmd
            last == "patchSveltosClusterWithWorkloadIdentity"
<1>1. m \in CommandSet /\ m.cluster \in Clusters /\ TypeOK
  BY CommandType DEF TypeInv
<1>2. {"ca", "sveltosCluster"} \subseteq Kinds
  BY DEF Kinds, ClusterKinds, NamespacedKinds
<1>3. CASE patchCASecret(p)
  <2>. DEFINE next == At(last, "get")
  <2>1. Patch(p, "ca", m.data, m.data, next) /\ proc[p].at = "patchCASecret"
    BY <1>3 DEF patchCASecret
  <2>2. next.at = last /\ Failed.at = "failed"
        /\ \A s : At("patchCASecret", s).at = "patchCASecret"
    BY DEF At, Failed
  <2>. HIDE DEF next
  <2>3. \/ Repeats(p) \/ Goes(p, Failed)
        \/ Goes(p, next) /\ Patched(p, "ca", m.data, m.data)
        \/ \E s \in {"create", "update"} : Goes(p, At(proc[p].at, s))
    BY <1>2, <2>1, PatchOutcome
  <2>. QED BY <2>1, <2>2, <2>3 DEF Repeats, Goes, Patched
<1>4. CASE patchSveltosClusterWithWorkloadIdentity(p)
  <2>. DEFINE next == At("ok", "get")
              old == Held(p, "sveltosCluster")
              new == [old EXCEPT !.labels = m.labels, !.keyName = FALSE,
                                 !.wi = NewSveltosCluster(m).wi,
                                 !.shard = m.shard]
              fits(spec) == /\ spec.labels = m.labels /\ spec.shard = m.shard
                            /\ spec.keyName = FALSE
                            /\ spec.wi = IF m.ca THEN "ca" ELSE "plain"
                            /\ There(p, "sveltosCluster") \/ spec = NewSveltosCluster(m)
  <2>1. Patch(p, "sveltosCluster", NewSveltosCluster(m), new, next)
        /\ proc[p].at = last
    BY <1>4 DEF patchSveltosClusterWithWorkloadIdentity, Held
  <2>2. next.at = "ok" /\ Failed.at = "failed" /\ \A s : At(last, s).at = last
    BY DEF At, Failed
  <2>3. fits(NewSveltosCluster(m))
    BY DEF NewSveltosCluster
  <2>4. ASSUME There(p, "sveltosCluster") PROVE fits(new)
    <3>1. old \in ClusterSpecs
      BY <2>4, HeldSpec
    <3>. QED BY <2>4, <3>1, <2>3 DEF ClusterSpecs
  <2>. HIDE DEF next, new
  <2>5. /\ store' = store \/ Patched(p, "sveltosCluster", NewSveltosCluster(m), new)
        /\ \/ Repeats(p) \/ Goes(p, Failed)
           \/ Goes(p, next) /\ Patched(p, "sveltosCluster", NewSveltosCluster(m), new)
           \/ \E s \in {"create", "update"} : Goes(p, At(proc[p].at, s))
    BY <1>2, <2>1, PatchOutcome
  <2>6. Patched(p, "sveltosCluster", NewSveltosCluster(m), new) =>
          \E spec : Writes(p, "sveltosCluster", spec) /\ fits(spec)
    BY <2>3, <2>4 DEF Patched
  <2>. QED BY <2>1, <2>2, <2>5, <2>6 DEF Repeats, Goes
<1>. QED BY <1>3, <1>4 DEF WorkloadIdentity

(* A step is one of the command p runs. *)
LEMMA StepOf ==
    ASSUME NEW p \in Procs, Fits(proc[p].at, proc[p].cmd.op), Step(p)
    PROVE  /\ proc[p].cmd.op = "push" => Push(p)
           /\ proc[p].cmd.op = "wi" => WorkloadIdentity(p)
           /\ proc[p].cmd.op = "pull" => Pull(p)
           /\ proc[p].cmd.op = "deregister" => Deregister(p)
<1>1. Push(p) => proc[p].cmd.op = "push"
  BY DEF Push, onboardSveltosCluster, patchSecret, patchSveltosCluster, Fits, PushFunctions
<1>2. WorkloadIdentity(p) => proc[p].cmd.op = "wi"
  BY DEF WorkloadIdentity, patchCASecret, patchSveltosClusterWithWorkloadIdentity,
         Fits, WorkloadIdentityFunctions
<1>3. Pull(p) => proc[p].cmd.op = "pull"
  BY DEF Pull, createNamespace, createServiceAccount, createSecret, createRole,
         createClusterRole, createRoleBinding, createClusterRoleBinding,
         createSveltosCluster, getKubeconfig, PullFunctions, Fits,
         AfterServiceAccount, AfterToken, AfterRole, AfterClusterRole,
         AfterClusterRoleBinding
<1>4. Deregister(p) => proc[p].cmd.op = "deregister"
  BY DEF Deregister, DeregisterFunctions, deregisterSveltosCluster, deleteGet,
         deleteCall, deleteSveltosCluster, orphansDeleted, Fits
<1>. QED BY <1>1, <1>2, <1>3, <1>4 DEF Step

(* The token controller changes tokens only. *)
LEMMA FillsTokens ==
    ASSUME TypeInv, NEW c \in Clusters, FillToken(c),
           NEW kind \in Kinds \ {"token"}, NEW d \in Clusters
    PROVE  store'[Key(kind, d)] = store[Key(kind, d)]
<1>1. store' = [store EXCEPT ![Key("token", c)] = "filled"] /\ "token" \in Kinds
  BY DEF FillToken, Kinds, ClusterKinds, NamespacedKinds
<1>2. Key(kind, d) # Key("token", c)
  BY <1>1, KeysDiffer
<1>. QED BY <1>1, <1>2, EffectKeys

(* When a registration comes to write the SveltosCluster, the Secret holds *)
(* what it was given.                                                      *)
Stored ==
    \A p \in Procs :
      /\ proc[p].at = "patchSveltosCluster" =>
           Held(p, "kubeconfig") = proc[p].cmd.data
      /\ proc[p].at = "patchSveltosClusterWithWorkloadIdentity" /\ proc[p].cmd.ca =>
           Held(p, "ca") = proc[p].cmd.data

LEMMA InitStored == Init => Stored
BY DEF Init, Process, Stored

LEMMA NextStored ==
    ASSUME Base, Base', Stored, [Next]_vars, {"push", "wi"} \cap Overlap = {}
    PROVE  Stored'
<1>. DEFINE last == "patchSveltosClusterWithWorkloadIdentity"
<1>. SUFFICES ASSUME NEW p \in Procs,
                     proc'[p].at \in {"patchSveltosCluster", last}
              PROVE  LET m == proc'[p].cmd
                     IN /\ proc'[p].at = "patchSveltosCluster" =>
                             store'[Key("kubeconfig", m.cluster)] = m.data
                        /\ proc'[p].at = last /\ m.ca =>
                             store'[Key("ca", m.cluster)] = m.data
  BY DEF Stored, Held
<1>1. /\ proc'[p].at = "patchSveltosCluster" => proc'[p].cmd.op = "push"
      /\ proc'[p].at = last => proc'[p].cmd.op = "wi"
  BY DEF Base, Fitting, Fits, PushFunctions, WorkloadIdentityFunctions
<1>2. Running(p)'
  BY DEF Running, Ended
<1>3. CASE \E m \in Commands : proc'[p] = Process(EntryPoint(m), m)
  <2>1. PICK m \in Commands : proc'[p].at = EntryPoint(m) /\ proc'[p].cmd = m
    BY <1>3 DEF Process
  <2>2. m.op \in Ops
    BY CommandsAssumption DEF CommandSet
  <2>3. EntryPoint(m) # "patchSveltosCluster" /\ (EntryPoint(m) = last => ~m.ca)
    <3>1. /\ m.op = "push" => EntryPoint(m) = "onboardSveltosCluster"
          /\ m.op = "wi" /\ m.ca => EntryPoint(m) = "patchCASecret"
          /\ m.op = "wi" /\ ~m.ca => EntryPoint(m) = last
          /\ m.op = "pull" => EntryPoint(m) = "createNamespace"
          /\ m.op = "deregister" => EntryPoint(m) = "deregisterSveltosCluster"
      BY DEF EntryPoint
    <3>. QED BY <2>2, <3>1 DEF Ops
  <2>. QED BY <2>1, <2>3
<1>4. CASE Running(p) /\ proc'[p].cmd = proc[p].cmd
  <2>1. Unshared(p)
    BY <1>1, <1>4 DEF Unshared
  <2>2. {"kubeconfig", "ca", "sveltosCluster"} \subseteq Kinds \ {"token"}
    BY DEF Kinds, ClusterKinds, NamespacedKinds
  <2>3. /\ proc[p].cmd.cluster \in Clusters /\ TypeInv
        /\ Fits(proc[p].at, proc[p].cmd.op)
    BY CommandType DEF Base, TypeInv, Fitting
  <2>. SUFFICES /\ proc'[p].at = "patchSveltosCluster" =>
                     Left("kubeconfig", p) = proc[p].cmd.data
                /\ proc'[p].at = last /\ proc[p].cmd.ca =>
                     Left("ca", p) = proc[p].cmd.data
    BY <1>4 DEF Left
  <2>4. CASE proc'[p] = proc[p]
             /\ (store' = store \/ \E c \in Clusters : FillToken(c))
    <3>1. /\ Left("kubeconfig", p) = Held(p, "kubeconfig")
          /\ Left("ca", p) = Held(p, "ca")
      BY <2>2, <2>3, <2>4, FillsTokens DEF Left, Held
    <3>. QED BY <2>4, <3>1 DEF Stored
  <2>5. CASE Step(p) /\ proc'[p].at = "patchSveltosCluster"
    <3>1. Push(p) /\ proc[p].cmd.op = "push"
      BY <1>1, <1>4, <2>3, <2>5, StepOf
    <3>2. \/ Writes(p, "kubeconfig", proc[p].cmd.data)
          \/ /\ proc[p].at = "patchSveltosCluster"
             /\ store' = store \/ \E val : Writes(p, "sveltosCluster", val)
      BY <2>3, <2>5, <3>1, PushLeaves
    <3>3. CASE Writes(p, "kubeconfig", proc[p].cmd.data)
      BY <2>2, <2>3, <2>5, <3>3, WritesOne
    <3>4. CASE proc[p].at = "patchSveltosCluster"
               /\ (store' = store \/ \E val : Writes(p, "sveltosCluster", val))
      <4>1. Left("kubeconfig", p) = Held(p, "kubeconfig")
        BY <2>2, <2>3, <3>4, WritesOne DEF Left, Held
      <4>. QED BY <2>5, <3>4, <4>1 DEF Stored
    <3>. QED BY <3>2, <3>3, <3>4
  <2>6. CASE Step(p) /\ proc'[p].at = last
    <3>1. WorkloadIdentity(p) /\ proc[p].cmd.op = "wi"
      BY <1>1, <1>4, <2>3, <2>6, StepOf
    <3>2. \/ Writes(p, "ca", proc[p].cmd.data)
          \/ /\ proc[p].at = last
             /\ store' = store \/ \E val : Writes(p, "sveltosCluster", val)
      BY <2>3, <2>6, <3>1, WorkloadIdentityLeaves
    <3>3. CASE Writes(p, "ca", proc[p].cmd.data)
      BY <2>2, <2>3, <2>6, <3>3, WritesOne
    <3>4. CASE proc[p].at = last
               /\ (store' = store \/ \E val : Writes(p, "sveltosCluster", val))
      <4>1. Left("ca", p) = Held(p, "ca")
        BY <2>2, <2>3, <3>4, WritesOne DEF Left, Held
      <4>. QED BY <2>6, <3>4, <4>1 DEF Stored
    <3>. QED BY <3>2, <3>3, <3>4
  <2>. QED BY <2>1, <2>4, <2>5, <2>6, RunsAlone
<1>. QED BY <1>2, <1>3, <1>4, WasRunning

(* A push or a workload-identity registration that nothing may overlap     *)
(* leaves, when it reports success, the labels, the shard, the reference   *)
(* to the kubeconfig Secret, the Secret it uploaded and the kind of        *)
(* identity as it was asked, and the whole of a SveltosCluster it created: *)
(* whatever failed, was retried or was killed before.                      *)
THEOREM LeftAsAsked ==
    ASSUME {"push", "wi"} \cap Overlap = {}
    PROVE  Spec => RegisteredAsAsked
<1>. DEFINE Asked(p) ==
              LET m == proc[p].cmd
                  spec == Left("sveltosCluster", p)
              IN /\ Succeeds(p, "push") \/ Succeeds(p, "wi") =>
                       /\ spec.labels = m.labels /\ spec.shard = m.shard
                       /\ spec.keyName = (m.op = "push")
                       /\ Present("sveltosCluster", m.cluster)
                            \/ spec = NewSveltosCluster(m)
                 /\ Succeeds(p, "push") => Left("kubeconfig", p) = m.data
                 /\ Succeeds(p, "wi") =>
                       /\ spec.wi = IF m.ca THEN "ca" ELSE "plain"
                       /\ m.ca => Left("ca", p) = m.data
<1>1. ASSUME Base, Stored, [Next]_vars, NEW p \in Procs PROVE Asked(p)
  <2>1. {"kubeconfig", "ca", "sveltosCluster"} \subseteq Kinds
    BY DEF Kinds, ClusterKinds, NamespacedKinds
  <2>2. TypeInv
    BY <1>1 DEF Base
  <2>3. CASE Succeeds(p, "push")
    <3>1. proc[p].cmd.op = "push" /\ proc'[p].at = "ok"
      BY <2>3 DEF Succeeds
    <3>2. Push(p)
      BY <1>1, <2>3, <3>1, OwnSuccess, StepOf
    <3>3. /\ proc[p].at = "patchSveltosCluster"
          /\ \E spec : /\ Writes(p, "sveltosCluster", spec)
                       /\ spec.labels = proc[p].cmd.labels
                       /\ spec.shard = proc[p].cmd.shard /\ spec.keyName
                       /\ There(p, "sveltosCluster")
                            \/ spec = NewSveltosCluster(proc[p].cmd)
      BY <2>2, <3>1, <3>2, PushLeaves
    <3>4. PICK spec : /\ Writes(p, "sveltosCluster", spec)
                      /\ spec.labels = proc[p].cmd.labels
                      /\ spec.shard = proc[p].cmd.shard /\ spec.keyName
                      /\ There(p, "sveltosCluster")
                           \/ spec = NewSveltosCluster(proc[p].cmd)
      BY <3>3
    <3>5. /\ Left("sveltosCluster", p) = spec
          /\ Left("kubeconfig", p) = Held(p, "kubeconfig")
      BY <2>1, <2>2, <3>4, WritesOne
    <3>6. Held(p, "kubeconfig") = proc[p].cmd.data
      BY <1>1, <3>3 DEF Stored
    <3>7. ~Succeeds(p, "wi")
      BY <3>1 DEF Succeeds
    <3>. QED BY <3>1, <3>4, <3>5, <3>6, <3>7 DEF There
  <2>4. CASE Succeeds(p, "wi")
    <3>. DEFINE wi == IF proc[p].cmd.ca THEN "ca" ELSE "plain"
    <3>1. proc[p].cmd.op = "wi" /\ proc'[p].at = "ok"
      BY <2>4 DEF Succeeds
    <3>2. WorkloadIdentity(p)
      BY <1>1, <2>4, <3>1, OwnSuccess, StepOf
    <3>3. /\ proc[p].at = "patchSveltosClusterWithWorkloadIdentity"
          /\ \E spec : /\ Writes(p, "sveltosCluster", spec)
                       /\ spec.labels = proc[p].cmd.labels
                       /\ spec.shard = proc[p].cmd.shard /\ spec.keyName = FALSE
                       /\ spec.wi = wi
                       /\ There(p, "sveltosCluster")
                            \/ spec = NewSveltosCluster(proc[p].cmd)
      BY <2>2, <3>1, <3>2, WorkloadIdentityLeaves
    <3>4. PICK spec : /\ Writes(p, "sveltosCluster", spec)
                      /\ spec.labels = proc[p].cmd.labels
                      /\ spec.shard = proc[p].cmd.shard /\ spec.keyName = FALSE
                      /\ spec.wi = wi
                      /\ There(p, "sveltosCluster")
                           \/ spec = NewSveltosCluster(proc[p].cmd)
      BY <3>3
    <3>5. /\ Left("sveltosCluster", p) = spec
          /\ Left("ca", p) = Held(p, "ca")
      BY <2>1, <2>2, <3>4, WritesOne
    <3>6. proc[p].cmd.ca => Held(p, "ca") = proc[p].cmd.data
      BY <1>1, <3>3 DEF Stored
    <3>7. ~Succeeds(p, "push")
      BY <3>1 DEF Succeeds
    <3>. QED BY <3>1, <3>4, <3>5, <3>6, <3>7 DEF There
  <2>. QED BY <2>3, <2>4
<1>2. Base /\ Stored /\ [Next]_vars => [\A p \in Procs : Asked(p)]_vars
  BY <1>1
<1>3. Base /\ Stored /\ [Next]_vars => Base' /\ Stored'
  BY NextBase, NextStored
<1>4. Init => Base /\ Stored
  BY InitBase, InitStored
<1>. QED BY <1>2, <1>3, <1>4, PTL DEF Spec, RegisteredAsAsked

-----------------------------------------------------------------------------
(* Deregister leaves a clean slate                                         *)

(* A user registers a cluster in one way only. *)
OneModeEach ==
    \A m, n \in Commands :
      m.cluster = n.cluster /\ {m.op, n.op} \subseteq Registrations => m.op = n.op

(* Whatever there is of a cluster, a registration of that cluster makes,   *)
(* and its SveltosCluster is as that registration makes it.                *)
Made == \A c \in Clusters, kind \in ClusterKinds :
          Present(kind, c) => \E m \in Commands : m.cluster = c /\ kind \in MadeBy(m.op)
Modes == \A c \in Clusters :
           Present("sveltosCluster", c) =>
             \E m \in Commands : /\ m.cluster = c
                                 /\ ModeOf(store[Key("sveltosCluster", c)], m.op)

LEMMA Registered ==
    ASSUME NEW m \in Commands
    PROVE  /\ m.op # "deregister" => m.op \in Registrations
           /\ \A kind : kind \in MadeBy(m.op) => m.op \in Registrations
           /\ \A spec : ModeOf(spec, m.op) => m.op \in Registrations
<1>1. m.op \in Ops
  BY CommandsAssumption DEF CommandSet
<1>. QED BY <1>1 DEF Ops, Registrations, MadeBy, ModeOf

LEMMA InitMade == Init => Made /\ Modes
<1>. SUFFICES ASSUME Init, NEW c \in Clusters, NEW kind \in ClusterKinds
              PROVE  ~Present(kind, c)
  BY DEF Made, Modes, ClusterKinds, NamespacedKinds
<1>1. Key(kind, c) \in Keys /\ Key(kind, c)[1] = kind /\ kind # "namespace"
  BY KeyType DEF Kinds, ClusterKinds, NamespacedKinds, ScopedKinds
<1>. QED BY <1>1 DEF Init, Present

(* What a step of p writes of a cluster is of its own cluster. *)
LEMMA WritesOwn ==
    ASSUME DistinctNames, TypeInv, NEW p \in Procs, NEW kind \in Kinds, NEW val,
           Writes(p, kind, val), NEW other \in ClusterKinds, NEW c \in Clusters
    PROVE  \/ store'[Key(other, c)] = store[Key(other, c)]
           \/ other = kind /\ c = proc[p].cmd.cluster /\ store'[Key(other, c)] = val
<1>. DEFINE d == proc[p].cmd.cluster
<1>1. d \in Clusters /\ other \in Kinds /\ store' = [store EXCEPT ![Key(kind, d)] = val]
  BY CommandType DEF TypeInv, Writes, Kinds
<1>2. Key(other, c) = Key(kind, d) => other = kind /\ c = d
  BY <1>1, KeysDiffer
<1>. HIDE DEF d
<1>3. /\ store'[Key(kind, d)] = val
      /\ \A any \in Kinds, e \in Clusters :
           Key(any, e) # Key(kind, d) => store'[Key(any, e)] = store[Key(any, e)]
  BY <1>1, EffectKeys
<1>. QED BY <1>1, <1>2, <1>3 DEF d

LEMMA NextMade ==
    ASSUME DistinctNames, OneModeEach, Base, Made, Modes, [Next]_vars
    PROVE  Made' /\ Modes'
<1>1. TypeInv
  BY DEF Base
<1>2. CASE store' = store
  BY <1>2 DEF Made, Modes, Present
<1>3. ASSUME NEW p \in Procs, NEW kind \in Kinds, NEW val, Writes(p, kind, val),
             MayWrite(proc[p].cmd, kind, Held(p, kind), val)
      PROVE  Made' /\ Modes'
  <2>. DEFINE m == proc[p].cmd
  <2>1. m \in Commands
    BY <1>1 DEF TypeInv, TypeOK, Locals
  <2>2. Made'
    <3>. SUFFICES ASSUME NEW c \in Clusters, NEW other \in ClusterKinds,
                         store'[Key(other, c)] # Absent
                  PROVE  \E n \in Commands : n.cluster = c /\ other \in MadeBy(n.op)
      BY DEF Made, Present
    <3>1. CASE store'[Key(other, c)] = store[Key(other, c)]
      BY <3>1 DEF Made, Present
    <3>2. CASE other = kind /\ c = m.cluster /\ store'[Key(other, c)] = val
      BY <1>3, <2>1, <3>2 DEF MayWrite
    <3>. QED BY <1>1, <1>3, <3>1, <3>2, WritesOwn
  <2>3. Modes'
    <3>. SUFFICES ASSUME NEW c \in Clusters,
                         store'[Key("sveltosCluster", c)] # Absent
                  PROVE  \E n \in Commands :
                           /\ n.cluster = c
                           /\ ModeOf(store'[Key("sveltosCluster", c)], n.op)
      BY DEF Modes, Present
    <3>. DEFINE old == store[Key("sveltosCluster", c)]
                new == store'[Key("sveltosCluster", c)]
    <3>1. "sveltosCluster" \in ClusterKinds
      BY DEF ClusterKinds, NamespacedKinds
    <3>2. CASE new = old
      BY <3>2 DEF Modes, Present
    <3>3. CASE "sveltosCluster" = kind /\ c = m.cluster /\ new = val
      <4>1. /\ m.op # "deregister"
            /\ old = Absent \/ ModeOf(old, m.op) => ModeOf(new, m.op)
        BY <1>3, <3>1, <3>3 DEF MayWrite, Held
      <4>2. ASSUME old # Absent PROVE ModeOf(old, m.op)
        <5>1. PICK n \in Commands : n.cluster = c /\ ModeOf(old, n.op)
          BY <4>2 DEF Modes, Present
        <5>2. {m.op, n.op} \subseteq Registrations
          BY <2>1, <4>1, <5>1, Registered
        <5>3. m.op = n.op
          BY <2>1, <3>3, <5>1, <5>2 DEF OneModeEach
        <5>. QED BY <5>1, <5>3
      <4>. QED BY <2>1, <3>3, <4>1, <4>2
    <3>. QED BY <1>1, <1>3, <3>1, <3>2, <3>3, WritesOwn
  <2>. QED BY <2>2, <2>3
<1>4. ASSUME NEW d \in Clusters, FillToken(d) PROVE Made' /\ Modes'
  <2>1. store' = [store EXCEPT ![Key("token", d)] = "filled"] /\ "token" \in Kinds
        /\ store[Key("token", d)] = "empty"
    BY <1>4 DEF FillToken, Kinds, ClusterKinds, NamespacedKinds
  <2>2. store[Key("token", d)] # Absent
    BY <2>1, AbsentAssumption DEF Objects
  <2>3. ASSUME NEW c \in Clusters, NEW kind \in ClusterKinds, Present(kind, c)'
        PROVE  Present(kind, c) /\ (kind # "token" => store'[Key(kind, c)] = store[Key(kind, c)])
    <3>1. kind \in Kinds
      BY DEF Kinds
    <3>2. CASE Key(kind, c) = Key("token", d)
      BY <2>1, <2>2, <3>1, <3>2, KeysDiffer DEF Present
    <3>3. CASE Key(kind, c) # Key("token", d)
      BY <1>1, <2>1, <2>3, <3>1, <3>3, EffectKeys DEF Present
    <3>. QED BY <3>2, <3>3
  <2>4. Made'
    BY <2>3 DEF Made
  <2>5. Modes'
    <3>1. "sveltosCluster" \in ClusterKinds
      BY DEF ClusterKinds, NamespacedKinds
    <3>. QED BY <2>3, <3>1 DEF Modes
  <2>. QED BY <2>4, <2>5
<1>5. ASSUME NEW p \in Procs, Start(p) \/ Crash(p) PROVE store' = store
  BY <1>1, <1>5, StartEffect, CrashEffect
<1>6. ASSUME NEW p \in Procs, Orderly(p) PROVE Made' /\ Modes'
  BY <1>2, <1>3, <1>6 DEF Orderly, Effect
<1>. QED BY <1>2, <1>4, <1>5, <1>6, Happens

(* Beside a deregister only others like it run, and nothing appears.       *)
LEMMA NothingAppears ==
    ASSUME Base, [Next]_vars, Registrations \cap Overlap = {},
           NEW p \in Procs, Running(p), proc[p].cmd.op = "deregister"
    PROVE  /\ \A kind \in ClusterKinds :
                Held(p, kind) = Absent => Left(kind, p) = Absent
           /\ \/ Step(p) /\ Orderly(p)
              \/ proc'[p].at = "failed"
              \/ proc'[p] = proc[p]
<1>1. TypeInv /\ proc[p].cmd.cluster \in Clusters
  BY CommandType DEF Base, TypeInv
<1>2. ASSUME NEW q \in Procs, Orderly(q), Running(q), NEW kind \in ClusterKinds,
             Held(p, kind) = Absent
      PROVE  Left(kind, p) = Absent
  <2>. DEFINE k == Key(kind, proc[p].cmd.cluster)
  <2>1. proc[q].cmd.op = "deregister"
    <3>1. CASE p = q
      BY <3>1
    <3>2. CASE p # q
      <4>1. proc[q].cmd.op \in Overlap
        BY <1>2, <3>2 DEF Base, Exclusive
      <4>2. proc[q].cmd \in Commands
        BY <1>1 DEF TypeInv, TypeOK, Locals
      <4>. QED BY <4>1, <4>2, Registered
    <3>. QED BY <3>1, <3>2
  <2>2. CASE store' = store
    BY <1>2, <2>2 DEF Left, Held
  <2>3. CASE \E other \in Kinds : \E val :
               Writes(q, other, val) /\ MayWrite(proc[q].cmd, other, Held(q, other), val)
    <3>1. PICK other \in Kinds : Writes(q, other, Absent)
      BY <2>1, <2>3 DEF MayWrite
    <3>2. k \in Keys /\ store' = [store EXCEPT ![Key(other, proc[q].cmd.cluster)] = Absent]
      BY <1>1, <3>1, KeyType DEF Writes, Kinds
    <3>3. store[k] = Absent
      BY <1>2 DEF Held
    <3>4. store'[k] = Absent
      BY <1>1, <3>2, <3>3 DEF TypeInv, TypeOK
    <3>. QED BY <3>4 DEF Left
  <2>. QED BY <1>2, <2>2, <2>3 DEF Orderly, Effect
<1>3. ASSUME NEW d \in Clusters, FillToken(d), NEW kind \in ClusterKinds,
             Held(p, kind) = Absent
      PROVE  Left(kind, p) = Absent
  <2>1. store' = [store EXCEPT ![Key("token", d)] = "filled"]
        /\ store[Key("token", d)] = "empty"
        /\ "token" \in Kinds /\ kind \in Kinds
    BY <1>3 DEF FillToken, Kinds, ClusterKinds, NamespacedKinds
  <2>2. Key(kind, proc[p].cmd.cluster) # Key("token", d)
    BY <1>3, <2>1, AbsentAssumption DEF Objects, Held
  <2>. QED BY <1>1, <1>3, <2>1, <2>2, EffectKeys DEF Left, Held
<1>4. ASSUME store' = store, NEW kind \in ClusterKinds, Held(p, kind) = Absent
      PROVE  Left(kind, p) = Absent
  BY <1>4 DEF Left, Held
<1>5. ASSUME NEW q \in Procs, Start(q) \/ Crash(q)
      PROVE  store' = store /\ (proc'[p] = proc[p] \/ proc'[p].at = "failed")
  BY <1>1, <1>5, StartEffect, CrashEffect DEF OthersStay
<1>6. ASSUME NEW c \in Clusters, FillToken(c) PROVE proc' = proc
  BY <1>6 DEF FillToken
<1>7. ASSUME NEW q \in Procs, Orderly(q), q # p PROVE proc'[p] = proc[p]
  BY <1>7 DEF Orderly, OthersStay
<1>8. \A kind \in ClusterKinds : Held(p, kind) = Absent => Left(kind, p) = Absent
  BY <1>2, <1>3, <1>4, <1>5, Happens
<1>. QED BY <1>5, <1>6, <1>7, <1>8, Happens

LEMMA TailElements ==
    ASSUME NEW S, NEW s \in Seq(S), s # <<>>, NEW x \in Elements(s)
    PROVE  x = Head(s) \/ x \in Elements(Tail(s))
<1>1. PICK i \in 1 .. Len(s) : x = s[i]
  BY DEF Elements
<1>2. CASE i = 1
  BY <1>1, <1>2
<1>3. CASE i # 1
  <2>1. /\ Tail(s) \in Seq(S) /\ Len(Tail(s)) = Len(s) - 1
        /\ i - 1 \in 1 .. Len(s) - 1 /\ Tail(s)[i - 1] = s[i]
    BY <1>1, <1>3
  <2>2. i - 1 \in DOMAIN Tail(s)
    BY <2>1
  <2>. QED BY <1>1, <2>1, <2>2 DEF Elements
<1>. QED BY <1>2, <1>3

(* Of the kinds left to delete, one call takes off at most one: that is    *)
(* then gone, or a warning is logged.                                      *)
LEMMA DeletesNext ==
    ASSUME TypeInv, NEW p \in Procs, deleteGet(p) \/ deleteCall(p)
    PROVE  /\ proc'[p].at = proc[p].at /\ proc'[p].cmd = proc[p].cmd
           /\ proc[p].warned => proc'[p].warned
           /\ ~proc'[p].warned =>
                \A kind \in Elements(proc[p].todo) :
                  kind \in Elements(proc'[p].todo) \/ Left(kind, p) = Absent
<1>. DEFINE kind == Head(proc[p].todo)
            k == Key(kind, proc[p].cmd.cluster)
<1>1. /\ proc \in [Procs -> Locals] /\ proc[p] \in Locals /\ proc[p].warned \in BOOLEAN
      /\ proc[p].todo \in Seq(ClusterKinds) /\ proc[p].cmd.cluster \in Clusters
  BY CommandType DEF TypeInv, TypeOK, Locals
<1>2. proc[p].todo # <<>>
  BY DEF deleteGet, deleteCall
<1>3. ASSUME NEW error \in BOOLEAN, proc' = Returned(p, kind, error)
      PROVE  /\ proc'[p].at = proc[p].at /\ proc'[p].cmd = proc[p].cmd
             /\ proc'[p].warned <=> (proc[p].warned \/ error)
             /\ proc'[p].todo = Tail(proc[p].todo)
  BY <1>1, <1>3 DEF Returned, Locals
<1>4. ASSUME NEW error \in BOOLEAN, proc' = Returned(p, kind, error),
             ~error => Left(kind, p) = Absent
      PROVE  /\ proc'[p].at = proc[p].at /\ proc'[p].cmd = proc[p].cmd
             /\ proc[p].warned => proc'[p].warned
             /\ ~proc'[p].warned =>
                  \A other \in Elements(proc[p].todo) :
                    other \in Elements(proc'[p].todo) \/ Left(other, p) = Absent
  BY <1>1, <1>2, <1>3, <1>4, TailElements
<1>5. CASE deleteGet(p)
  <2>1. store' = store
    BY <1>5 DEF deleteGet
  <2>2. CASE proc' = [proc EXCEPT ![p].step = "delete"]
    BY <1>1, <2>2 DEF Locals
  <2>3. CASE proc' = Returned(p, kind, FALSE) /\ ~Present(kind, proc[p].cmd.cluster)
    BY <1>4, <2>1, <2>3 DEF Left, Present
  <2>4. CASE proc' = Returned(p, kind, TRUE)
    BY <1>4, <2>4
  <2>. QED BY <1>5, <2>2, <2>3, <2>4 DEF deleteGet
<1>6. CASE deleteCall(p)
  <2>1. PICK answer \in {"served"} \cup Faults :
          /\ store' = IF answer # "refused"
                      THEN [store EXCEPT ![k] = Absent] ELSE store
          /\ proc' = Returned(p, kind, answer # "served" \/ store[k] = Absent)
    BY <1>6 DEF deleteCall
  <2>2. k \in Keys /\ store = [j \in Keys |-> store[j]] /\ DOMAIN store = Keys
    BY <1>1, <1>2, KeyType DEF TypeInv, TypeOK, Kinds
  <2>3. answer = "served" => Left(kind, p) = Absent
    BY <2>1, <2>2 DEF Left
  <2>. DEFINE error == answer # "served" \/ store[k] = Absent
  <2>4. error \in BOOLEAN /\ proc' = Returned(p, kind, error)
        /\ (~error => Left(kind, p) = Absent)
    BY <2>1, <2>3
  <2>. HIDE DEF error, kind
  <2>. QED BY <1>4, <2>4
<1>. QED BY <1>5, <1>6

(* What of its cluster a deregister that has had no trouble still has to   *)
(* delete is yet on its list.                                              *)
Listed(p, kinds) ==
    \A kind \in kinds : Held(p, kind) # Absent => kind \in Elements(proc[p].todo)

OtherKinds == ClusterKinds \ {"sveltosCluster"}

Deleting ==
    \A p \in Procs : ~proc[p].warned =>
      /\ proc[p].at = "deleteResources" => Listed(p, OtherKinds)
      /\ proc[p].at = "deleteOrphans" =>
           Held(p, "sveltosCluster") = Absent /\ Listed(p, {"kubeconfig", "ca"})

LEMMA InitDeleting == Init => Deleting
BY DEF Init, Process, Deleting

(* The list a deregister makes out misses nothing.                         *)
LEMMA ListIsComplete ==
    ASSUME OneModeEach, TypeInv, Made, Modes, NEW p \in Procs,
           Held(p, "sveltosCluster") # Absent, NEW kind \in OtherKinds,
           Held(p, kind) # Absent
    PROVE  kind \in Elements(KindsToDelete(Held(p, "sveltosCluster")))
<1>. DEFINE c == proc[p].cmd.cluster
            spec == Held(p, "sveltosCluster")
<1>1. c \in Clusters /\ kind \in ClusterKinds /\ kind # "sveltosCluster"
  BY CommandType DEF TypeInv, OtherKinds
<1>2. Present("sveltosCluster", c) /\ Present(kind, c)
  BY DEF Present, Held
<1>3. PICK m \in Commands : m.cluster = c /\ ModeOf(spec, m.op)
  BY <1>1, <1>2 DEF Modes, Held
<1>4. PICK n \in Commands : n.cluster = c /\ kind \in MadeBy(n.op)
  BY <1>1, <1>2 DEF Made
<1>5. {m.op, n.op} \subseteq Registrations
  BY <1>3, <1>4, Registered
<1>6. kind \in MadeBy(m.op) /\ m.op \in Registrations
  BY <1>3, <1>4, <1>5 DEF OneModeEach
<1>7. CASE m.op = "push"
  <2>1. kind = "kubeconfig"
    BY <1>1, <1>6, <1>7 DEF MadeBy
  <2>2. KindsToDelete(spec) = PushModeKinds
    BY <1>3, <1>7 DEF KindsToDelete, ModeOf
  <2>. QED BY <2>1, <2>2 DEF Elements, PushModeKinds
<1>8. CASE m.op = "wi"
  <2>1. kind = "ca"
    BY <1>1, <1>6, <1>8 DEF MadeBy
  <2>2. KindsToDelete(spec) = WorkloadIdentityKinds
    BY <1>3, <1>8 DEF KindsToDelete, ModeOf
  <2>. QED BY <2>1, <2>2 DEF Elements, WorkloadIdentityKinds
<1>9. CASE m.op = "pull"
  <2>1. PICK i \in DOMAIN PullModeKinds : kind = PullModeKinds[i]
    BY <1>1, <1>6, <1>9 DEF MadeBy, Elements
  <2>2. KindsToDelete(spec) = PullModeKinds \o PushModeKinds
    BY <1>3, <1>9 DEF KindsToDelete, ModeOf
  <2>3. PullModeKinds \in Seq(ClusterKinds) /\ PushModeKinds \in Seq(ClusterKinds)
    BY DEF PullModeKinds, PushModeKinds, ClusterKinds, NamespacedKinds, ScopedKinds
  <2>4. /\ i \in DOMAIN (PullModeKinds \o PushModeKinds)
        /\ (PullModeKinds \o PushModeKinds)[i] = PullModeKinds[i]
    BY <2>1, <2>3
  <2>. QED BY <2>1, <2>2, <2>4 DEF Elements
<1>. QED BY <1>6, <1>7, <1>8, <1>9 DEF Registrations

LEMMA NextDeleting ==
    ASSUME OneModeEach, Registrations \cap Overlap = {}, Base, Base', Made, Modes,
           Deleting, [Next]_vars
    PROVE  Deleting'
<1>. SUFFICES ASSUME NEW p \in Procs, proc'[p].warned = FALSE,
                     proc'[p].at \in {"deleteResources", "deleteOrphans"}
              PROVE  /\ proc'[p].at = "deleteResources" => Listed(p, OtherKinds)'
                     /\ proc'[p].at = "deleteOrphans" =>
                          /\ Held(p, "sveltosCluster")' = Absent
                          /\ Listed(p, {"kubeconfig", "ca"})'
  <2>1. \A p \in Procs : proc'[p].warned \in BOOLEAN
    BY DEF Base, TypeInv, TypeOK, Locals
  <2>. QED BY <2>1 DEF Deleting
<1>1. Running(p)' /\ proc'[p].cmd.op = "deregister"
  BY DEF Running, Ended, Base, Fitting, Fits, DeregisterFunctions
<1>2. Running(p) /\ proc'[p].cmd = proc[p].cmd
  <2>1. ASSUME NEW m \in Commands PROVE proc'[p] # Process(EntryPoint(m), m)
    <3>1. m.op \in Ops
      BY CommandsAssumption DEF CommandSet
    <3>2. EntryPoint(m) \notin {"deleteResources", "deleteOrphans"}
      BY <3>1 DEF EntryPoint, Ops
    <3>. QED BY <3>2 DEF Process
  <2>. QED BY <1>1, <2>1, WasRunning
<1>3. /\ TypeInv /\ Fits(proc[p].at, proc[p].cmd.op)
      /\ proc \in [Procs -> Locals] /\ proc[p].warned \in BOOLEAN
  BY DEF Base, Fitting, TypeInv, TypeOK, Locals
<1>4. \A kind \in ClusterKinds : Held(p, kind) = Absent => Left(kind, p) = Absent
  BY <1>1, <1>2, NothingAppears
<1>5. {"kubeconfig", "ca"} \cup OtherKinds \cup {"sveltosCluster"} \subseteq ClusterKinds
  BY DEF OtherKinds, ClusterKinds, NamespacedKinds
<1>6. \A kind : Held(p, kind)' = Left(kind, p)
  BY <1>2 DEF Held, Left
<1>7. ASSUME proc'[p].at = proc[p].at, ~proc[p].warned,
             \A kind \in Elements(proc[p].todo) :
               kind \in Elements(proc'[p].todo) \/ Left(kind, p) = Absent
      PROVE  /\ proc'[p].at = "deleteResources" => Listed(p, OtherKinds)'
             /\ proc'[p].at = "deleteOrphans" =>
                  /\ Held(p, "sveltosCluster")' = Absent
                  /\ Listed(p, {"kubeconfig", "ca"})'
  <2>1. \A kinds \in SUBSET ClusterKinds : Listed(p, kinds) => Listed(p, kinds)'
    BY <1>4, <1>6, <1>7 DEF Listed
  <2>. QED BY <1>4, <1>5, <1>6, <1>7, <2>1 DEF Deleting
<1>8. CASE proc'[p] = proc[p]
  BY <1>7, <1>8
<1>9. CASE Step(p)
  <2>1. Deregister(p)
    BY <1>1, <1>2, <1>3, <1>9, StepOf
  <2>2. CASE deregisterSveltosCluster(p)
    <3>. DEFINE k == Key("sveltosCluster", proc[p].cmd.cluster)
    <3>1. store' = store /\ Failed.at = "failed"
      BY <2>2 DEF deregisterSveltosCluster, Failed, At
    <3>2. ASSUME proc' = Moved(p, Failed) PROVE FALSE
      BY <1>3, <3>1, <3>2, MovedGoes DEF Goes, TypeInv
    <3>3. CASE /\ store[k] # Absent
               /\ proc' = [proc EXCEPT ![p].at = "deleteResources",
                                       ![p].todo = KindsToDelete(store[k])]
      <4>1. proc'[p].at = "deleteResources"
            /\ proc'[p].todo = KindsToDelete(Held(p, "sveltosCluster"))
        BY <1>3, <3>3 DEF Locals, Held
      <4>2. \A kind \in OtherKinds : Held(p, kind)' = Held(p, kind)
        BY <1>6, <3>1 DEF Held, Left
      <4>3. \A kind \in OtherKinds : Held(p, kind) # Absent =>
              kind \in Elements(KindsToDelete(Held(p, "sveltosCluster")))
        BY <1>3, <3>3, ListIsComplete DEF Held
      <4>4. Listed(p, OtherKinds)'
        BY <4>1, <4>2, <4>3 DEF Listed
      <4>. QED BY <4>1, <4>4
    <3>4. CASE /\ store[k] = Absent
               /\ proc' = [proc EXCEPT ![p].at = "deleteOrphans",
                                       ![p].todo = OrphanKinds]
      <4>1. proc'[p].at = "deleteOrphans" /\ proc'[p].todo = OrphanKinds
        BY <1>3, <3>4 DEF Locals
      <4>2. Held(p, "sveltosCluster")' = Absent
        BY <1>6, <3>1, <3>4 DEF Held, Left
      <4>3. {"kubeconfig", "ca"} \subseteq Elements(OrphanKinds)
        <5>1. 1 \in DOMAIN OrphanKinds /\ 2 \in DOMAIN OrphanKinds
              /\ OrphanKinds[1] = "kubeconfig" /\ OrphanKinds[2] = "ca"
          BY DEF OrphanKinds
        <5>. QED BY <5>1 DEF Elements
      <4>4. Listed(p, {"kubeconfig", "ca"})'
        BY <4>1, <4>3 DEF Listed
      <4>. QED BY <4>1, <4>2, <4>4
    <3>. QED BY <2>2, <3>2, <3>3, <3>4 DEF deregisterSveltosCluster
  <2>3. CASE deleteGet(p) \/ deleteCall(p)
    BY <1>3, <1>7, <2>3, DeletesNext
  <2>4. CASE deleteSveltosCluster(p)
    <3>1. proc' # Finished(p, "ok") /\ proc' # Finished(p, "failed")
      BY <1>1, <1>3 DEF Finished, Process, Running, Ended
    <3>2. proc' = [proc EXCEPT ![p].tries = @ + 1]
      BY <2>4, <3>1 DEF deleteSveltosCluster
    <3>3. proc'[p].at = proc[p].at /\ proc'[p].todo = proc[p].todo
          /\ proc'[p].warned = proc[p].warned
      BY <1>3, <3>2 DEF Locals
    <3>. QED BY <1>7, <3>3
  <2>5. CASE orphansDeleted(p)
    BY <1>1, <1>3, <2>5 DEF orphansDeleted, Finished, Process, Running, Ended
  <2>. QED BY <2>1, <2>2, <2>3, <2>4, <2>5 DEF Deregister
<1>. QED BY <1>1, <1>2, <1>8, <1>9, NothingAppears

(* A deregister succeeds with its last call, or with its last orphan. *)
LEMMA DeregisterEnds ==
    ASSUME TypeInv, NEW p \in Procs, Deregister(p), proc'[p].at = "ok"
    PROVE  /\ proc[p].todo = <<>>
           /\ \/ proc[p].at = "deleteResources" /\ Left("sveltosCluster", p) = Absent
              \/ proc[p].at = "deleteOrphans" /\ store' = store
<1>1. /\ proc \in [Procs -> Locals] /\ proc[p].cmd.cluster \in Clusters
      /\ "sveltosCluster" \in Kinds
  BY CommandType DEF TypeInv, TypeOK, Kinds, ClusterKinds, NamespacedKinds
<1>2. ASSUME deregisterSveltosCluster(p) PROVE FALSE
  <2>1. CASE proc' = Moved(p, Failed)
    BY <1>1, <2>1, MovedGoes DEF Goes, TypeInv, Failed, At
  <2>2. CASE \E f \in {"deleteResources", "deleteOrphans"} : \E kinds :
               proc' = [proc EXCEPT ![p].at = f, ![p].todo = kinds]
    BY <1>1, <2>2 DEF Locals
  <2>. QED BY <1>2, <2>1, <2>2 DEF deregisterSveltosCluster
<1>3. ASSUME deleteGet(p) \/ deleteCall(p) PROVE FALSE
  BY <1>3, DeletesNext DEF deleteGet, deleteCall
<1>4. CASE deleteSveltosCluster(p)
  <2>. DEFINE k == Key("sveltosCluster", proc[p].cmd.cluster)
  <2>1. PICK answer \in {"served"} \cup Faults, again \in BOOLEAN :
          /\ store' = IF store[k] # Absent /\ answer # "refused"
                      THEN [store EXCEPT ![k] = Absent] ELSE store
          /\ proc' = IF again THEN [proc EXCEPT ![p].tries = @ + 1]
                     ELSE IF answer = "served" /\ store[k] # Absent
                     THEN Finished(p, "ok") ELSE Finished(p, "failed")
    BY <1>4 DEF deleteSveltosCluster
  <2>2. proc[p].at = "deleteResources" /\ proc[p].todo = <<>>
    BY <1>4 DEF deleteSveltosCluster
  <2>3. ASSUME again PROVE FALSE
    BY <1>1, <2>1, <2>2, <2>3 DEF Locals
  <2>4. ASSUME proc' = Finished(p, "failed") PROVE FALSE
    BY <1>1, <2>4 DEF Finished, Process
  <2>5. store' = [store EXCEPT ![k] = Absent]
    BY <2>1, <2>3, <2>4
  <2>6. k \in Keys /\ DOMAIN store = Keys
    BY <1>1, KeyType DEF TypeInv, TypeOK
  <2>. QED BY <2>2, <2>5, <2>6 DEF Left
<1>5. CASE orphansDeleted(p)
  BY <1>5 DEF orphansDeleted
<1>. QED BY <1>2, <1>3, <1>4, <1>5 DEF Deregister

(* A deregister that reports success without a warning has removed all     *)
(* that the registrations of its cluster made (but for the pull-mode       *)
(* resources whose SveltosCluster was gone), however they ended: if a      *)
(* cluster is only ever registered in one way and no registration runs     *)
(* beside another command.                                                 *)
THEOREM SlateIsClean ==
    ASSUME DistinctNames, OneModeEach, Registrations \cap Overlap = {}
    PROVE  Spec => CleanSlate
<1>. DEFINE Clean(p) ==
              Succeeds(p, "deregister") /\ ~proc[p].warned =>
                \A kind \in ClusterKinds :
                  \/ Left(kind, p) = Absent
                  \/ proc[p].at = "deleteOrphans" /\ kind \in Elements(PullModeKinds)
            Inv == Base /\ Made /\ Modes /\ Deleting
<1>1. ASSUME Inv, [Next]_vars, NEW p \in Procs PROVE Clean(p)
  <2>. SUFFICES ASSUME Succeeds(p, "deregister"), ~proc[p].warned,
                       NEW kind \in ClusterKinds
                PROVE  \/ Left(kind, p) = Absent
                       \/ proc[p].at = "deleteOrphans" /\ kind \in Elements(PullModeKinds)
    OBVIOUS
  <2>1. /\ Base /\ Running(p) /\ proc[p].cmd.op = "deregister" /\ proc'[p].at = "ok"
        /\ TypeInv
    BY <1>1 DEF Succeeds, Base
  <2>2. Deregister(p)
    BY <1>1, <2>1, OwnSuccess, StepOf
  <2>3. /\ proc[p].todo = <<>>
        /\ \/ proc[p].at = "deleteResources" /\ Left("sveltosCluster", p) = Absent
           \/ proc[p].at = "deleteOrphans" /\ store' = store
    BY <2>1, <2>2, DeregisterEnds
  <2>4. Held(p, kind) = Absent => Left(kind, p) = Absent
    BY <1>1, <2>1, NothingAppears
  <2>5. Elements(proc[p].todo) = {}
    BY <2>3 DEF Elements
  <2>6. CASE proc[p].at = "deleteResources" /\ Left("sveltosCluster", p) = Absent
    BY <1>1, <2>4, <2>5, <2>6 DEF Deleting, Listed, OtherKinds
  <2>7. CASE proc[p].at = "deleteOrphans"
    <3>1. kind \in {"sveltosCluster", "kubeconfig", "ca"} => Held(p, kind) = Absent
      BY <1>1, <2>5, <2>7 DEF Deleting, Listed
    <3>2. \A i \in 1 .. 6 : PullModeKinds[i] \in Elements(PullModeKinds)
      BY DEF Elements, PullModeKinds
    <3>3. kind \in {"sveltosCluster", "kubeconfig", "ca"} \cup Elements(PullModeKinds)
      BY <3>2 DEF PullModeKinds, ClusterKinds, NamespacedKinds, ScopedKinds
    <3>. QED BY <2>4, <2>7, <3>1, <3>3
  <2>. QED BY <2>3, <2>6, <2>7
<1>2. Inv /\ [Next]_vars => [\A p \in Procs : Clean(p)]_vars
  BY <1>1
<1>3. Inv /\ [Next]_vars => Inv'
  BY NextBase, NextMade, NextDeleting
<1>4. Init => Inv
  BY InitBase, InitMade, InitDeleting
<1>. QED BY <1>2, <1>3, <1>4, PTL DEF Spec, CleanSlate

-----------------------------------------------------------------------------
(* Pull mode leaves what was asked for                                     *)

(* What a pull-mode registration m knows, at a call of function f, of its  *)
(* ClusterRole, its ClusterRoleBinding and its SveltosCluster.             *)
PulledAt(f, s, m, role, binding, spec) ==
    /\ f = "createClusterRole" /\ s = "create" => role = Absent
    /\ f = "createSveltosCluster" /\ s = "create" => spec = Absent
    /\ f \in AfterClusterRole => role = m.release
    /\ f \in AfterClusterRoleBinding => binding # Absent
    /\ f = "getKubeconfig" => /\ spec # Absent /\ m.labels \subseteq spec.labels
                              /\ spec.shard = m.shard

Pulled ==
    \A p \in Procs :
      PulledAt(proc[p].at, proc[p].step, proc[p].cmd, Held(p, "clusterRole"),
               Held(p, "clusterRoleBinding"), Held(p, "sveltosCluster"))

(* Nothing is known at the other functions. *)
LEMMA NothingPulled ==
    ASSUME NEW f, NEW s, NEW m, NEW role, NEW binding, NEW spec,
           f \notin AfterClusterRole, f = "createClusterRole" => s # "create"
    PROVE  PulledAt(f, s, m, role, binding, spec)
BY DEF PulledAt, AfterClusterRole, AfterClusterRoleBinding

LEMMA InitPulled == Init => Pulled
<1>. SUFFICES ASSUME Init, NEW p \in Procs PROVE proc[p].at = "ready"
  BY NothingPulled DEF Pulled, AfterClusterRole, AfterClusterRoleBinding
<1>. QED BY DEF Init, Process

(* The first calls. *)
LEMMA PullBegins ==
    ASSUME TypeInv, NEW p \in Procs, Faults = {},
           \/ createNamespace(p) \/ createServiceAccount(p) \/ createSecret(p)
           \/ createRole(p),
           NEW m, NEW role, NEW binding, NEW spec
    PROVE  PulledAt(proc'[p].at, proc'[p].step, m, role, binding, spec)
<1>1. {"namespace", "serviceAccount", "token", "role"} \subseteq Kinds
  BY DEF Kinds, ClusterKinds, NamespacedKinds
<1>2. ASSUME NEW kind \in {"namespace", "serviceAccount", "token", "role"}, NEW val,
             NEW f \in {"createServiceAccount", "createSecret", "createRole",
                        "createClusterRole"},
             CreateOnce(p, kind, val, At(f, "get"))
      PROVE  \/ proc'[p].at = f /\ proc'[p].step = "get"
             \/ proc'[p].at = "failed"
  <2>. DEFINE next == At(f, "get")
  <2>1. next.at = f /\ next.step = "get" /\ Failed.at = "failed"
    BY DEF At, Failed
  <2>2. CreateOnce(p, kind, val, next) /\ kind \in Kinds
    BY <1>1, <1>2
  <2>. HIDE DEF next
  <2>3. Repeats(p) \/ Goes(p, Failed) \/ Goes(p, next)
    BY <2>2, CreateOnceOutcome
  <2>. QED BY <2>1, <2>3 DEF Goes, Repeats
<1>3. CASE proc' = Moved(p, At("createRole", "create"))
  <2>1. proc'[p].at = "createRole"
    BY <1>3, MovedGoes DEF Goes, At, TypeInv
  <2>. QED BY <2>1, NothingPulled DEF AfterClusterRole, AfterClusterRoleBinding
<1>4. CASE \E f \in {"createServiceAccount", "createSecret", "createRole",
                     "createClusterRole"} :
              \/ proc'[p].at = f /\ proc'[p].step = "get"
              \/ proc'[p].at = "failed"
  BY <1>4, NothingPulled DEF AfterClusterRole, AfterClusterRoleBinding
<1>5. CASE createNamespace(p)
  BY <1>2, <1>4, <1>5 DEF createNamespace
<1>6. CASE createServiceAccount(p)
  BY <1>2, <1>4, <1>6 DEF createServiceAccount
<1>7. CASE createSecret(p)
  BY <1>2, <1>4, <1>7 DEF createSecret
<1>8. CASE createRole(p)
  BY <1>2, <1>3, <1>4, <1>8 DEF createRole
<1>. QED BY <1>5, <1>6, <1>7, <1>8

LEMMA PullLeaves ==
    ASSUME TypeInv, NEW p \in Procs, Faults = {}, Pull(p), Pulled
    PROVE  /\ PulledAt(proc'[p].at, proc'[p].step, proc[p].cmd, Left("clusterRole", p),
                       Left("clusterRoleBinding", p), Left("sveltosCluster", p))
           /\ proc'[p].at = "ok" => proc[p].at = "getKubeconfig" /\ store' = store
<1>. DEFINE m == proc[p].cmd
            f == proc[p].at
            Known == PulledAt(proc'[p].at, proc'[p].step, m, Left("clusterRole", p),
                              Left("clusterRoleBinding", p), Left("sveltosCluster", p))
            kinds == {"clusterRole", "clusterRoleBinding", "sveltosCluster"}
<1>1. m \in CommandSet /\ m.cluster \in Clusters /\ TypeOK /\ m.release # Absent
  <2>1. m \in CommandSet /\ m.cluster \in Clusters
    BY CommandType DEF TypeInv
  <2>2. m.release \in Objects("clusterRole") /\ "clusterRole" \in Kinds
    BY <2>1 DEF Objects, CommandSet, Kinds, ClusterKinds, ScopedKinds
  <2>. QED BY <2>1, <2>2, AbsentAssumption DEF TypeInv
<1>2. {"clusterRole", "clusterRoleBinding", "sveltosCluster", "roleBinding"} \subseteq Kinds
  BY DEF Kinds, ClusterKinds, NamespacedKinds, ScopedKinds
<1>3. \A kind \in kinds : There(p, kind) <=> Held(p, kind) # Absent
  BY DEF There, Present, Held
<1>4. store' = store => \A kind : Left(kind, p) = Held(p, kind)
  BY DEF Left, Held
<1>5. \A kind \in Kinds : \A val : Writes(p, kind, val) =>
        /\ Left(kind, p) = val
        /\ \A other \in kinds \ {kind} : Left(other, p) = Held(p, other)
  BY <1>2, WritesOne
<1>6. PulledAt(f, proc[p].step, m, Held(p, "clusterRole"),
               Held(p, "clusterRoleBinding"), Held(p, "sveltosCluster"))
  BY DEF Pulled
<1>7. ~Repeats(p) /\ Failed.at = "failed"
  BY DEF Repeats, Failed, At
<1>8. ASSUME Goes(p, Failed) PROVE Known
  BY <1>7, <1>8, NothingPulled DEF Goes, AfterClusterRole, AfterClusterRoleBinding
<1>9. proc'[p].at = "ok" => getKubeconfig(p)
  BY <1>1, PullEnds
<1>10. CASE createNamespace(p) \/ createServiceAccount(p) \/ createSecret(p)
            \/ createRole(p)
  <2>1. Known
    BY <1>10, PullBegins
  <2>2. ~getKubeconfig(p)
    BY <1>10 DEF createNamespace, createServiceAccount, createSecret, createRole,
                 getKubeconfig
  <2>. QED BY <1>9, <2>1, <2>2
<1>11. CASE createClusterRole(p)
  <2>. DEFINE next == At("createRoleBinding", "get")
  <2>1. f = "createClusterRole"
        /\ CreateOrRefresh(p, "clusterRole", m.release, m.release, next)
    BY <1>11 DEF createClusterRole
  <2>2. next.at = "createRoleBinding"
        /\ \A s : At(f, s).at = f /\ At(f, s).step = s
    BY DEF At
  <2>. HIDE DEF next
  <2>3. \/ Goes(p, Failed)
        \/ Goes(p, next) /\ Patched(p, "clusterRole", m.release, m.release)
        \/ Goes(p, next) /\ proc[p].step = "create" /\ There(p, "clusterRole")
        \/ Goes(p, At(f, "update"))
        \/ Goes(p, At(f, "create")) /\ store' = store /\ ~There(p, "clusterRole")
    BY <1>2, <1>7, <2>1, RefreshOutcome
  <2>4. CASE Goes(p, next) /\ Patched(p, "clusterRole", m.release, m.release)
    <3>1. Left("clusterRole", p) = m.release /\ proc'[p].at = "createRoleBinding"
      BY <1>2, <1>5, <2>2, <2>4 DEF Patched, Goes
    <3>. QED BY <1>9, <2>1, <3>1 DEF PulledAt, AfterClusterRole,
                 AfterClusterRoleBinding, getKubeconfig
  <2>5. ASSUME proc[p].step = "create", There(p, "clusterRole") PROVE FALSE
    BY <1>3, <1>6, <2>1, <2>5 DEF PulledAt
  <2>6. CASE Goes(p, At(f, "update"))
    BY <1>9, <2>1, <2>2, <2>6, NothingPulled DEF Goes, AfterClusterRole,
       AfterClusterRoleBinding, getKubeconfig
  <2>7. CASE Goes(p, At(f, "create")) /\ store' = store /\ ~There(p, "clusterRole")
    <3>1. proc'[p].at = f /\ Left("clusterRole", p) = Absent
      BY <1>3, <1>4, <2>2, <2>7 DEF Goes
    <3>. QED BY <1>9, <2>1, <3>1 DEF PulledAt, AfterClusterRole,
                 AfterClusterRoleBinding, getKubeconfig
  <2>. QED BY <1>7, <1>8, <2>3, <2>4, <2>5, <2>6, <2>7 DEF Goes
<1>12. CASE createRoleBinding(p)
  <2>. DEFINE next == At("createClusterRoleBinding", "get")
              k == Key("roleBinding", m.cluster)
  <2>1. PICK admitted : Write(p, k, admitted, m.cluster, next, next, next, FALSE)
    BY <1>12 DEF createRoleBinding
  <2>2. k \in Keys /\ f = "createRoleBinding" /\ next.at = "createClusterRoleBinding"
    BY <1>1, <1>2, <1>12, KeyType DEF createRoleBinding, At
  <2>3. Writes(p, "roleBinding", m.cluster) <=> store' = [store EXCEPT ![k] = m.cluster]
    BY DEF Writes
  <2>. HIDE DEF next, k
  <2>4. /\ store' = store \/ store' = [store EXCEPT ![k] = m.cluster]
        /\ Goes(p, next)
    BY <1>1, <1>7, <2>1, <2>2, WriteOutcome
  <2>5. Left("clusterRole", p) = Held(p, "clusterRole")
    BY <1>2, <1>4, <1>5, <2>3, <2>4
  <2>6. Left("clusterRole", p) = m.release
    BY <1>6, <2>2, <2>5 DEF PulledAt, AfterClusterRole
  <2>. QED BY <1>9, <2>2, <2>4, <2>6 DEF PulledAt, AfterClusterRole,
       AfterClusterRoleBinding, getKubeconfig, Goes
<1>13. CASE createClusterRoleBinding(p)
  <2>. DEFINE next == At("createSveltosCluster", "get")
  <2>1. f = "createClusterRoleBinding"
        /\ CreateOnce(p, "clusterRoleBinding", m.cluster, next)
    BY <1>13 DEF createClusterRoleBinding
  <2>2. next.at = "createSveltosCluster" /\ next.step = "get"
    BY DEF At
  <2>. HIDE DEF next
  <2>3. \/ Goes(p, Failed)
        \/ Goes(p, next) /\ Writes(p, "clusterRoleBinding", m.cluster)
        \/ Goes(p, next) /\ There(p, "clusterRoleBinding") /\ store' = store
    BY <1>2, <1>7, <2>1, CreateOnceOutcome
  <2>4. m.cluster # Absent
    BY <1>1, <1>2, AbsentAssumption DEF Objects
  <2>5. CASE Goes(p, next)
    <3>1. Left("clusterRole", p) = Held(p, "clusterRole")
          /\ Left("clusterRoleBinding", p) # Absent
      BY <1>2, <1>3, <1>4, <1>5, <1>7, <2>2, <2>3, <2>4, <2>5 DEF Goes
    <3>2. Left("clusterRole", p) = m.release
      BY <1>6, <2>1, <3>1 DEF PulledAt, AfterClusterRole
    <3>. QED BY <1>9, <2>1, <2>2, <2>5, <3>1, <3>2 DEF PulledAt, AfterClusterRole,
         AfterClusterRoleBinding, getKubeconfig, Goes
  <2>. QED BY <1>7, <1>8, <2>3, <2>5 DEF Goes
<1>14. CASE createSveltosCluster(p)
  <2>. DEFINE next == At("getKubeconfig", "get")
              old == Held(p, "sveltosCluster")
              new == [old EXCEPT !.labels = @ \cup m.labels, !.shard = m.shard]
              fits(spec) == /\ spec # Absent /\ m.labels \subseteq spec.labels
                            /\ spec.shard = m.shard
  <2>1. /\ CreateOrRefresh(p, "sveltosCluster", NewSveltosCluster(m), new, next)
        /\ f = "createSveltosCluster"
    BY <1>14 DEF createSveltosCluster, Held
  <2>2. next.at = "getKubeconfig" /\ \A s : At(f, s).at = f /\ At(f, s).step = s
    BY DEF At
  <2>3. \A spec \in ClusterSpecs : spec # Absent
    BY <1>2, AbsentAssumption DEF Objects
  <2>4. fits(NewSveltosCluster(m))
    <3>1. NewSveltosCluster(m) \in ClusterSpecs
      BY <1>1, SpecType
    <3>. QED BY <2>3, <3>1 DEF NewSveltosCluster
  <2>5. ASSUME There(p, "sveltosCluster") PROVE fits(new)
    <3>1. old \in ClusterSpecs
      BY <2>5, HeldSpec
    <3>2. new \in ClusterSpecs
      BY <1>1, <3>1, SpecType
    <3>3. m.labels \subseteq new.labels /\ new.shard = m.shard
      BY <3>1 DEF ClusterSpecs
    <3>. QED BY <2>3, <3>2, <3>3
  <2>. HIDE DEF next, new
  <2>6. \/ Goes(p, Failed)
        \/ Goes(p, next) /\ Patched(p, "sveltosCluster", NewSveltosCluster(m), new)
        \/ Goes(p, next) /\ proc[p].step = "create" /\ There(p, "sveltosCluster")
        \/ Goes(p, At(f, "update")) /\ store' = store
        \/ Goes(p, At(f, "create")) /\ store' = store /\ ~There(p, "sveltosCluster")
    BY <1>2, <1>7, <2>1, RefreshOutcome
  <2>7. Held(p, "clusterRole") = m.release /\ Held(p, "clusterRoleBinding") # Absent
    BY <1>6, <2>1 DEF PulledAt, AfterClusterRole, AfterClusterRoleBinding
  <2>8. CASE Goes(p, next) /\ Patched(p, "sveltosCluster", NewSveltosCluster(m), new)
    <3>1. PICK spec : Writes(p, "sveltosCluster", spec) /\ fits(spec)
      BY <2>4, <2>5, <2>8 DEF Patched
    <3>2. /\ Left("sveltosCluster", p) = spec
          /\ Left("clusterRole", p) = Held(p, "clusterRole")
          /\ Left("clusterRoleBinding", p) = Held(p, "clusterRoleBinding")
      BY <1>2, <1>5, <3>1
    <3>3. proc'[p].at = "getKubeconfig"
      BY <2>2, <2>8 DEF Goes
    <3>. QED BY <2>7, <3>1, <3>2, <3>3 DEF PulledAt
  <2>9. ASSUME proc[p].step = "create", There(p, "sveltosCluster") PROVE FALSE
    BY <1>3, <1>6, <2>1, <2>9 DEF PulledAt
  <2>10. CASE store' = store /\ (\/ Goes(p, At(f, "update"))
                                 \/ Goes(p, At(f, "create")) /\ ~There(p, "sveltosCluster"))
    <3>1. /\ proc'[p].at = f
          /\ proc'[p].step = "create" => ~There(p, "sveltosCluster")
      BY <2>2, <2>10 DEF Goes
    <3>2. \A kind : Left(kind, p) = Held(p, kind)
      BY <1>4, <2>10
    <3>. QED BY <1>3, <2>1, <2>7, <3>1, <3>2 DEF PulledAt
  <2>. QED BY <1>7, <1>8, <2>6, <2>8, <2>9, <2>10 DEF Goes
<1>15. CASE getKubeconfig(p)
  <2>. DEFINE next == At("ok", "get")
  <2>1. /\ proc' = Moved(p, next) \/ proc' = Moved(p, Failed)
        /\ store' = store /\ f = "getKubeconfig"
    BY <1>15 DEF getKubeconfig
  <2>2. next.at = "ok"
    BY DEF At
  <2>. HIDE DEF next
  <2>3. Goes(p, next) \/ Goes(p, Failed)
    BY <1>1, <2>1, MovedGoes
  <2>4. proc'[p].at \in {"ok", "failed"}
    BY <1>7, <2>2, <2>3 DEF Goes
  <2>. QED BY <2>1, <2>4, NothingPulled DEF AfterClusterRole, AfterClusterRoleBinding
<1>. QED BY <1>10, <1>11, <1>12, <1>13, <1>14, <1>15 DEF Pull

LEMMA NextPulled ==
    ASSUME Base, Base', Pulled, [Next]_vars, Faults = {}, "pull" \notin Overlap
    PROVE  Pulled'
<1>. SUFFICES ASSUME NEW p \in Procs
              PROVE  PulledAt(proc'[p].at, proc'[p].step, proc'[p].cmd,
                              Held(p, "clusterRole")', Held(p, "clusterRoleBinding")',
                              Held(p, "sveltosCluster")')
  BY DEF Pulled
<1>1. CASE proc'[p].at \notin AfterClusterRole \cup {"createClusterRole"}
  BY <1>1, NothingPulled
<1>2. CASE \E m \in Commands : proc'[p] = Process(EntryPoint(m), m)
  <2>1. PICK m \in Commands : proc'[p].at = EntryPoint(m)
    BY <1>2 DEF Process
  <2>2. m.op \in Ops
    BY CommandsAssumption DEF CommandSet
  <2>3. EntryPoint(m) \notin AfterClusterRole \cup {"createClusterRole"}
    BY <2>2 DEF EntryPoint, Ops, AfterClusterRole, AfterClusterRoleBinding
  <2>. QED BY <1>1, <2>1, <2>3
<1>3. CASE /\ Running(p) /\ proc'[p].cmd = proc[p].cmd
           /\ proc'[p].at \in AfterClusterRole \cup {"createClusterRole"}
  <2>1. \A kind : Held(p, kind)' = Left(kind, p)
    BY <1>3 DEF Held, Left
  <2>2. /\ proc[p].cmd.op = "pull" /\ Unshared(p) /\ TypeInv
        /\ proc[p].cmd.cluster \in Clusters /\ Fits(proc[p].at, proc[p].cmd.op)
    BY <1>3, CommandType DEF Base, Fitting, Fits, PullFunctions, AfterServiceAccount,
       AfterToken, AfterRole, Unshared, TypeInv
  <2>3. CASE proc'[p] = proc[p]
             /\ (store' = store \/ \E c \in Clusters : FillToken(c))
    <3>1. {"clusterRole", "clusterRoleBinding", "sveltosCluster"} \subseteq Kinds \ {"token"}
      BY DEF Kinds, ClusterKinds, NamespacedKinds, ScopedKinds
    <3>2. \A kind \in {"clusterRole", "clusterRoleBinding", "sveltosCluster"} :
            Left(kind, p) = Held(p, kind)
      BY <2>2, <2>3, <3>1, FillsTokens DEF Left, Held
    <3>. QED BY <2>1, <2>3, <3>2 DEF Pulled
  <2>4. CASE Step(p)
    <3>1. Pull(p)
      BY <2>2, <2>4, StepOf
    <3>2. PulledAt(proc'[p].at, proc'[p].step, proc[p].cmd, Left("clusterRole", p),
                   Left("clusterRoleBinding", p), Left("sveltosCluster", p))
      BY <2>2, <3>1, PullLeaves
    <3>. QED BY <1>3, <2>1, <3>2
  <2>5. CASE proc'[p].at = "failed"
    BY <1>1, <2>5 DEF AfterClusterRole, AfterClusterRoleBinding
  <2>. QED BY <2>2, <2>3, <2>4, <2>5, RunsAlone
<1>4. proc'[p].at \in AfterClusterRole \cup {"createClusterRole"} => Running(p)'
  BY DEF Running, Ended, AfterClusterRole, AfterClusterRoleBinding
<1>. QED BY <1>1, <1>2, <1>3, <1>4, WasRunning

(* A ClusterRoleBinding binds the ServiceAccount of its own cluster. *)
Bound == \A c \in Clusters : store[Key("clusterRoleBinding", c)] \in {Absent, c}

LEMMA InitBound == Init => Bound
<1>. SUFFICES ASSUME Init, NEW c \in Clusters
              PROVE  store[Key("clusterRoleBinding", c)] = Absent
  BY DEF Bound
<1>1. /\ Key("clusterRoleBinding", c) \in Keys
      /\ Key("clusterRoleBinding", c)[1] = "clusterRoleBinding"
  BY KeyType DEF Kinds, ClusterKinds, ScopedKinds
<1>. QED BY <1>1 DEF Init

LEMMA NextBound ==
    ASSUME DistinctNames, Base, Bound, [Next]_vars
    PROVE  Bound'
<1>1. TypeInv /\ "clusterRoleBinding" \in ClusterKinds
      /\ "clusterRoleBinding" \in Kinds \ {"token"}
  BY DEF Base, Kinds, ClusterKinds, ScopedKinds
<1>2. CASE store' = store
  BY <1>2 DEF Bound
<1>3. ASSUME NEW p \in Procs, NEW kind \in Kinds, NEW val, Writes(p, kind, val),
             MayWrite(proc[p].cmd, kind, Held(p, kind), val)
      PROVE  Bound'
  <2>. SUFFICES ASSUME NEW c \in Clusters
                PROVE  store'[Key("clusterRoleBinding", c)] \in {Absent, c}
    BY DEF Bound
  <2>1. \/ store'[Key("clusterRoleBinding", c)] = store[Key("clusterRoleBinding", c)]
        \/ /\ "clusterRoleBinding" = kind /\ c = proc[p].cmd.cluster
           /\ store'[Key("clusterRoleBinding", c)] = val
    BY <1>1, <1>3, WritesOwn
  <2>. QED BY <1>3, <2>1 DEF MayWrite, Bound
<1>4. ASSUME NEW d \in Clusters, FillToken(d) PROVE Bound'
  BY <1>1, <1>4, FillsTokens DEF Bound
<1>5. ASSUME NEW p \in Procs, Start(p) \/ Crash(p) PROVE store' = store
  BY <1>1, <1>5, StartEffect, CrashEffect
<1>6. ASSUME NEW p \in Procs, Orderly(p) PROVE Bound'
  BY <1>2, <1>3, <1>6 DEF Orderly, Effect
<1>. QED BY <1>2, <1>4, <1>5, <1>6, Happens

(* A pull-mode registration that nothing may overlap and whose calls do    *)
(* not fail leaves, when it reports success, the labels, the shard, the    *)
(* rules and the binding it was asked for, also when earlier ones of the   *)
(* same cluster were killed half way: if a cluster is only ever registered *)
(* in one way.                                                             *)
THEOREM LeftAsPulled ==
    ASSUME DistinctNames, OneModeEach, "pull" \notin Overlap, Faults = {}
    PROVE  Spec => PulledAsAsked
<1>. DEFINE Asked(p) ==
              Succeeds(p, "pull") =>
                LET m == proc[p].cmd
                    spec == Left("sveltosCluster", p)
                IN /\ spec.pullMode /\ m.labels \subseteq spec.labels
                   /\ spec.shard = m.shard
                   /\ Left("clusterRole", p) = m.release
                   /\ Left("clusterRoleBinding", p) = m.cluster
            Inv == Base /\ Made /\ Modes /\ Pulled /\ Bound
<1>1. ASSUME Inv, [Next]_vars, NEW p \in Procs PROVE Asked(p)
  <2>. SUFFICES ASSUME Succeeds(p, "pull") PROVE Asked(p)
    OBVIOUS
  <2>. DEFINE m == proc[p].cmd
              spec == Held(p, "sveltosCluster")
  <2>1. /\ proc[p].cmd.op = "pull" /\ proc'[p].at = "ok" /\ TypeInv
        /\ m \in Commands /\ m.cluster \in Clusters
    BY <1>1, CommandType DEF Succeeds, Base, TypeInv, TypeOK, Locals
  <2>2. Pull(p)
    BY <1>1, <2>1, OwnSuccess, StepOf
  <2>3. proc[p].at = "getKubeconfig" /\ store' = store
    BY <1>1, <2>1, <2>2, PullLeaves
  <2>4. \A kind : Left(kind, p) = Held(p, kind)
    BY <2>3 DEF Left, Held
  <2>5. /\ spec # Absent /\ m.labels \subseteq spec.labels /\ spec.shard = m.shard
        /\ Held(p, "clusterRole") = m.release
        /\ Held(p, "clusterRoleBinding") # Absent
    BY <1>1, <2>3 DEF Pulled, PulledAt, AfterClusterRole, AfterClusterRoleBinding
  <2>6. Held(p, "clusterRoleBinding") = m.cluster
    BY <1>1, <2>1, <2>5 DEF Bound, Held
  <2>7. spec.pullMode
    <3>1. PICK n \in Commands : n.cluster = m.cluster /\ ModeOf(spec, n.op)
      BY <1>1, <2>1, <2>5 DEF Modes, Present, Held
    <3>2. {m.op, n.op} \subseteq Registrations
      BY <2>1, <3>1, Registered DEF Registrations
    <3>3. n.op = "pull"
      BY <2>1, <3>1, <3>2 DEF OneModeEach
    <3>. QED BY <3>1, <3>3 DEF ModeOf
  <2>. QED BY <2>4, <2>5, <2>6, <2>7
<1>2. Inv /\ [Next]_vars => [\A p \in Procs : Asked(p)]_vars
  BY <1>1
<1>3. Inv /\ [Next]_vars => Inv'
  BY NextBase, NextMade, NextPulled, NextBound
<1>4. Init => Inv
  BY InitBase, InitMade, InitPulled, InitBound
<1>. QED BY <1>2, <1>3, <1>4, PTL DEF Spec, PulledAsAsked
===============================================================================
