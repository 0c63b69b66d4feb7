------------------------------ MODULE ShowProofs ------------------------------
(***************************************************************************)
(* Theorems about Show, for any objects, command lines and comings and     *)
(* goings.                                                                 *)
(*                                                                         *)
(* Each subcommand is shown to keep the same contract, of which the proof  *)
(* about the process is made:                                              *)
(*   Legit(m, P)           the calls it may make while only objects of P   *)
(*                         are there;                                      *)
(*   Owed(m, c, S, P)      the lines that call c, and those that follow    *)
(*                         from it, still have to give for the objects of  *)
(*                         S, which stay, while those of P may be there;   *)
(*   Doomed(m, c, S, P)    c, or a call that follows from it, has to end   *)
(*                         the command;                                    *)
(*   Ready(m, c, r, S, P)  the objects r kept from earlier answers are     *)
(*                         those that the lines of c need.                 *)
(***************************************************************************)
EXTENDS Show, SequenceTheorems, TLAPS

(* What a call may find: all that stays, and only what may be there. *)
Between(S, W, P) == S \subseteq W /\ W \subseteq P

LEMMA AnswerProperties ==
    ASSUME NEW call, NEW W, NEW o
    PROVE  o \in Answer(call, W) <=> /\ o \in W /\ o.kind = call.kind
                                     /\ call.ns \in {Any, o.ns}
                                     /\ call.name \in {Any, o.name}
BY DEF Answer, Selects

-----------------------------------------------------------------------------
(* show addons                                                             *)

AddOnsLegit(m, P) ==
    {List("Namespace", Any, "addons")} \cup
    {List("ClusterConfiguration", n.name, "addons") :
        n \in {n \in P : n.kind = "Namespace" /\ m.namespace \in {Any, n.name}}}

(* The entries asked for that a call has to find. *)
AddOnsFound(m, call, W) ==
    {x \in AddOns!Asked(m, W) :
        call.kind = "Namespace" \/ call.ns = x[1].ns}

AddOnsLine(x) ==
    [cluster |-> Cluster(x[1].ns, AddOns!GetClusterName(x[1])), type |-> x[2].type,
     what |-> x[2].what, profiles |-> {x[2].profile}]

AddOnsOwed(m, call, S, P) ==
    {AddOnsLine(x) : x \in {x \in AddOnsFound(m, call, S) : x[2].timed}}

AddOnsDoomed(m, call, S, P) == \E x \in AddOnsFound(m, call, S) : ~x[2].timed

LEMMA AddOnsAsked ==
    ASSUME NEW m, NEW W, NEW cc, NEW e
    PROVE  <<cc, e>> \in AddOns!Asked(m, W) <=>
              /\ cc \in W /\ cc.kind = "ClusterConfiguration" /\ e \in cc.deployed
              /\ m.namespace \in {Any, cc.ns} /\ AddOns!InCluster(m, cc)
              /\ m.profile \in {Any, e.profile}
              /\ e.type \in {"helm", "resource"}
              /\ m.helmOnly => e.type = "helm"
              /\ m.resourcesOnly => e.type = "resource"
BY DEF AddOns!Asked, AddOns!Kind

LEMMA AddOnsPairs ==
    ASSUME NEW m, NEW W, NEW x \in AddOns!Asked(m, W)
    PROVE  /\ x = <<x[1], x[2]>>
           /\ <<x[1], x[2]>> \in AddOns!Asked(m, W)
BY DEF AddOns!Asked, AddOns!Kind

LEMMA AddOnsMonotone ==
    ASSUME NEW m, NEW W, NEW V, W \subseteq V, NEW P, NEW Q
    PROVE  /\ AddOns!Asked(m, W) \subseteq AddOns!Asked(m, V)
           /\ AddOns!Table(m, W, P) \subseteq AddOns!Table(m, V, Q)
           /\ AddOns!Faulty(m, W, P) => AddOns!Faulty(m, V, Q)
<1>1. AddOns!Asked(m, W) \subseteq AddOns!Asked(m, V)
  BY DEF AddOns!Asked, AddOns!Kind
<1>. QED BY <1>1 DEF AddOns!Table, AddOns!ListedProfiles, AddOns!Faulty

(* The entries asked for are those considered, but for entries without a   *)
(* time, which share a row.                                                *)
LEMMA AddOnsConsidered ==
    ASSUME NEW m, NEW W \in SUBSET Universe, NEW cc \in W,
           cc.kind = "ClusterConfiguration", NEW e \in cc.deployed
    PROVE  /\ <<cc, e>> \in AddOns!Asked(m, W) =>
                 /\ e \in AddOns!Considered(m, cc)
                 /\ AddOns!doConsiderClusterConfiguration(cc, m.cluster)
           /\ /\ e \in AddOns!Considered(m, cc)
              /\ AddOns!doConsiderClusterConfiguration(cc, m.cluster)
              /\ m.namespace \in {Any, cc.ns}
              => \E d \in cc.deployed : /\ <<cc, d>> \in AddOns!Asked(m, W)
                                        /\ (~e.timed => ~d.timed)
                                        /\ e.timed => d = e
           /\ e.timed => AddOns!ProfilesOf(cc, e) = {e.profile}
<1>1. e.type \in {"helm", "resource"} /\ \A d \in cc.deployed : d.type \in {"helm", "resource"}
  BY ObjectsAssumption
<1>2. ASSUME <<cc, e>> \in AddOns!Asked(m, W)
      PROVE  /\ e \in AddOns!Considered(m, cc)
             /\ AddOns!doConsiderClusterConfiguration(cc, m.cluster)
  <2>1. /\ AddOns!InCluster(m, cc) /\ m.profile \in {Any, e.profile}
        /\ m.helmOnly => e.type = "helm"
        /\ m.resourcesOnly => e.type = "resource"
    BY <1>2, AddOnsAsked
  <2>2. e.profile \in AddOns!ProfilesOf(cc, e)
    BY DEF AddOns!ProfilesOf
  <2>3. AddOns!doConsiderProfile(AddOns!ProfilesOf(cc, e), m.profile)
    BY <2>1, <2>2 DEF AddOns!doConsiderProfile
  <2>. QED BY <1>1, <2>1, <2>3
           DEF AddOns!Considered, AddOns!doConsiderClusterConfiguration,
               AddOns!InCluster, AddOns!GetClusterName
<1>3. e.timed => AddOns!ProfilesOf(cc, e) = {e.profile}
  BY DEF AddOns!ProfilesOf
<1>4. ASSUME e \in AddOns!Considered(m, cc),
             AddOns!doConsiderClusterConfiguration(cc, m.cluster),
             m.namespace \in {Any, cc.ns}
      PROVE  \E d \in cc.deployed : /\ <<cc, d>> \in AddOns!Asked(m, W)
                                    /\ (~e.timed => ~d.timed)
                                    /\ e.timed => d = e
  <2>1. /\ AddOns!InCluster(m, cc)
        /\ AddOns!doConsiderProfile(AddOns!ProfilesOf(cc, e), m.profile)
        /\ e.type = "helm" => ~m.resourcesOnly
        /\ e.type = "resource" => ~m.helmOnly
    BY <1>4 DEF AddOns!Considered, AddOns!doConsiderClusterConfiguration,
                AddOns!InCluster, AddOns!GetClusterName
  <2>2. PICK d \in cc.deployed : /\ m.profile \in {Any, d.profile}
                                 /\ d = e \/ (~d.timed /\ ~e.timed /\ d.type = e.type)
    BY <2>1 DEF AddOns!doConsiderProfile, AddOns!ProfilesOf
  <2>3. <<cc, d>> \in AddOns!Asked(m, W)
    BY <1>1, <1>4, <2>1, <2>2, AddOnsAsked
  <2>. QED BY <2>2, <2>3
<1>. QED BY <1>2, <1>3, <1>4

LEMMA AddOnsFirst ==
    ASSUME NEW m, NEW S, NEW P
    PROVE  /\ AddOns!Calls(m) \in Seq(AddOnsLegit(m, P))
           /\ Range(AddOns!Calls(m)) = {List("Namespace", Any, "addons")}
           /\ AddOns!Table(m, S, P)
                 \subseteq AddOnsOwed(m, List("Namespace", Any, "addons"), S, P)
           /\ AddOns!Faulty(m, S, P)
                 => AddOnsDoomed(m, List("Namespace", Any, "addons"), S, P)
<1>. DEFINE c == List("Namespace", Any, "addons")
<1>1. AddOns!Calls(m) = <<c>> /\ c \in AddOnsLegit(m, P) /\ c.kind = "Namespace"
  BY DEF AddOns!Calls, AddOns!List, List, AddOnsLegit
<1>. HIDE DEF c
<1>2. AddOns!Calls(m) \in Seq(AddOnsLegit(m, P)) /\ Range(AddOns!Calls(m)) = {c}
  BY <1>1 DEF Range
<1>3. AddOnsFound(m, c, S) = AddOns!Asked(m, S)
  BY <1>1 DEF AddOnsFound
<1>. QED BY <1>2, <1>3 DEF AddOns!Table, AddOns!ListedProfiles, AddOns!Faulty, AddOnsOwed, AddOnsDoomed,
                           AddOnsLine, Cluster, AddOns!Cluster, c

(* The answers of show addons. *)
LEMMA AddOnsAnswer ==
    ASSUME NEW m, NEW P \in SUBSET Universe, NEW W, NEW S, Between(S, W, P),
           \A o \in W : o.kind # "Namespace" =>
              \E n \in W : n.kind = "Namespace" /\ n.name = o.ns,
           NEW call \in AddOnsLegit(m, P), NEW answer, answer = Answer(call, W),
           NEW read
    PROVE  /\ AddOns!Follow(m, call, answer) \subseteq AddOnsLegit(m, P)
           /\ ~AddOns!Broken(m, call, answer) =>
                AddOns!Lines(m, call, answer, read) \subseteq AddOns!Table(m, P, S)
           /\ AddOns!Broken(m, call, answer) => AddOns!Faulty(m, P, S)
           /\ ~AddOns!Broken(m, call, answer) =>
                AddOnsOwed(m, call, S, P) \subseteq
                  AddOns!Lines(m, call, answer, read)
                  \cup UNION {AddOnsOwed(m, c, S, P) :
                                c \in AddOns!Follow(m, call, answer)}
           /\ ~AddOns!Broken(m, call, answer) /\ AddOnsDoomed(m, call, S, P) =>
                \E c \in AddOns!Follow(m, call, answer) : AddOnsDoomed(m, c, S, P)
<1>. DEFINE follow == AddOns!Follow(m, call, answer)
            lines == AddOns!Lines(m, call, answer, read)
<1>0. S \subseteq W /\ W \subseteq P /\ W \subseteq Universe
  BY DEF Between
<1>1. CASE call = List("Namespace", Any, "addons")
  <2>1. call.kind = "Namespace" /\ call.ns = Any /\ call.name = Any
    BY <1>1 DEF List
  <2>2. \A o : o \in answer <=> o \in W /\ o.kind = "Namespace"
    BY <2>1, AnswerProperties
  <2>3. AddOns!Kind(answer, "ClusterConfiguration") = {}
    BY <2>2 DEF AddOns!Kind
  <2>4. lines = {} /\ ~AddOns!Broken(m, call, answer)
    BY <2>3 DEF AddOns!Lines, AddOns!Broken
  <2>5. follow = {List("ClusterConfiguration", n.name, "addons") :
                    n \in {n \in W : n.kind = "Namespace" /\ m.namespace \in {Any, n.name}}}
    BY <2>1, <2>2 DEF AddOns!Follow, AddOns!doConsiderNamespace, AddOns!Selects,
                      AddOns!List, List
  <2>6. follow \subseteq AddOnsLegit(m, P)
    BY <1>0, <2>5 DEF AddOnsLegit
  <2>7. ASSUME NEW x \in AddOnsFound(m, call, S)
        PROVE  \E c \in follow : x \in AddOnsFound(m, c, S)
    <3>1. x \in AddOns!Asked(m, S)
      BY <2>7 DEF AddOnsFound
    <3>0. <<x[1], x[2]>> \in AddOns!Asked(m, S)
      BY <3>1, AddOnsPairs
    <3>2. /\ x[1] \in W /\ x[1].kind = "ClusterConfiguration"
          /\ m.namespace \in {Any, x[1].ns}
      BY <1>0, <3>0, AddOnsAsked
    <3>3. PICK n \in W : n.kind = "Namespace" /\ n.name = x[1].ns
      BY <3>2
    <3>. DEFINE c == List("ClusterConfiguration", n.name, "addons")
    <3>4. c \in follow
      BY <2>5, <3>2, <3>3
    <3>5. c.ns = x[1].ns
      BY <3>3 DEF List
    <3>. HIDE DEF c
    <3>. QED BY <3>1, <3>4, <3>5 DEF AddOnsFound
  <2>8. AddOnsOwed(m, call, S, P) \subseteq UNION {AddOnsOwed(m, c, S, P) : c \in follow}
    BY <2>7 DEF AddOnsOwed
  <2>9. AddOnsDoomed(m, call, S, P) => \E c \in follow : AddOnsDoomed(m, c, S, P)
    BY <2>7 DEF AddOnsDoomed
  <2>. QED BY <2>4, <2>6, <2>8, <2>9
<1>2. CASE \E n \in P : /\ n.kind = "Namespace" /\ m.namespace \in {Any, n.name}
                       /\ call = List("ClusterConfiguration", n.name, "addons")
  <2>1. PICK n \in P : /\ n.kind = "Namespace" /\ m.namespace \in {Any, n.name}
                       /\ call = List("ClusterConfiguration", n.name, "addons")
    BY <1>2
  <2>2. /\ call.kind = "ClusterConfiguration" /\ call.ns = n.name /\ call.name = Any
        /\ call.ns # Any
    BY <2>1, ObjectsAssumption DEF List
  <2>3. \A o : o \in answer <=> /\ o \in W /\ o.kind = "ClusterConfiguration"
                                /\ o.ns = n.name
    BY <2>2, AnswerProperties
  <2>4. follow = {}
    BY <2>2 DEF AddOns!Follow
  <2>5. ASSUME NEW cc \in answer, NEW e \in AddOns!Considered(m, cc),
               AddOns!doConsiderClusterConfiguration(cc, m.cluster)
        PROVE  /\ cc \in P /\ e \in cc.deployed
               /\ e.timed => /\ <<cc, e>> \in AddOns!Asked(m, P)
                             /\ AddOns!ProfilesOf(cc, e) = {e.profile}
               /\ ~e.timed => AddOns!Faulty(m, P, S)
    <3>1. /\ cc \in P /\ cc.kind = "ClusterConfiguration" /\ e \in cc.deployed
          /\ m.namespace \in {Any, cc.ns}
      BY <1>0, <2>1, <2>3, <2>5 DEF AddOns!Considered
    <3>2. PICK d \in cc.deployed : /\ <<cc, d>> \in AddOns!Asked(m, P)
                                   /\ ~e.timed => ~d.timed
                                   /\ e.timed => d = e
      BY <2>5, <3>1, AddOnsConsidered
    <3>3. ~e.timed => AddOns!Faulty(m, P, S)
      BY <3>2 DEF AddOns!Faulty
    <3>4. e.timed => AddOns!ProfilesOf(cc, e) = {e.profile}
      BY <3>1 DEF AddOns!ProfilesOf
    <3>. QED BY <3>1, <3>2, <3>3, <3>4
  <2>6. AddOns!Broken(m, call, answer) => AddOns!Faulty(m, P, S)
    BY <2>5 DEF AddOns!Broken, AddOns!Kind
  <2>7. ASSUME ~AddOns!Broken(m, call, answer), NEW t \in lines
        PROVE  t \in AddOns!Table(m, P, S)
    <3>1. PICK cc \in answer : /\ AddOns!doConsiderClusterConfiguration(cc, m.cluster)
                               /\ t \in AddOns!displayAddOnsForCluster(m, cc)
      BY <2>7 DEF AddOns!Lines, AddOns!Kind
    <3>2. PICK e \in AddOns!Considered(m, cc) :
             t = [cluster |-> AddOns!Cluster(cc.ns, AddOns!GetClusterName(cc)),
                  type |-> e.type, what |-> e.what, profiles |-> AddOns!ProfilesOf(cc, e)]
      BY <3>1 DEF AddOns!displayAddOnsForCluster
    <3>3. e.timed
      BY <2>3, <2>7, <3>1 DEF AddOns!Broken, AddOns!Kind
    <3>4. /\ <<cc, e>> \in AddOns!Asked(m, P)
          /\ AddOns!ProfilesOf(cc, e) = {e.profile}
      BY <2>5, <3>1, <3>3
    <3>. DEFINE x == <<cc, e>>
    <3>5. x[1] = cc /\ x[2] = e
      OBVIOUS
    <3>. HIDE DEF x
    <3>6. /\ x \in AddOns!Asked(m, P) /\ x[2].timed
          /\ t = [cluster |-> AddOns!Cluster(x[1].ns, AddOns!GetClusterName(x[1])),
                  type |-> x[2].type, what |-> x[2].what,
                  profiles |-> {x[2].profile}]
      BY <3>2, <3>3, <3>4, <3>5 DEF x
    <3>. QED BY <3>6 DEF AddOns!Table, AddOns!ListedProfiles
  <2>8. ASSUME NEW x \in AddOnsFound(m, call, S)
        PROVE  /\ x[1] \in AddOns!Kind(answer, "ClusterConfiguration")
               /\ x[2] \in AddOns!Considered(m, x[1])
               /\ AddOns!doConsiderClusterConfiguration(x[1], m.cluster)
               /\ x[2].timed => AddOns!ProfilesOf(x[1], x[2]) = {x[2].profile}
    <3>1. x \in AddOns!Asked(m, S) /\ x[1].ns = n.name
      BY <2>2, <2>8 DEF AddOnsFound
    <3>2. <<x[1], x[2]>> \in AddOns!Asked(m, S)
      BY <3>1, AddOnsPairs
    <3>3. /\ x[1] \in S /\ x[1].kind = "ClusterConfiguration"
          /\ x[2] \in x[1].deployed
      BY <3>2, AddOnsAsked
    <3>4. S \in SUBSET Universe
      BY <1>0
    <3>. QED BY <1>0, <2>3, <3>1, <3>2, <3>3, <3>4, AddOnsConsidered DEF AddOns!Kind
  <2>9. ASSUME NEW t \in AddOnsOwed(m, call, S, P) PROVE t \in lines
    <3>1. PICK x \in AddOnsFound(m, call, S) : x[2].timed /\ t = AddOnsLine(x)
      BY <2>9 DEF AddOnsOwed
    <3>2. t \in AddOns!displayAddOnsForCluster(m, x[1])
      BY <2>8, <3>1 DEF AddOnsLine, AddOns!displayAddOnsForCluster, Cluster, AddOns!Cluster
    <3>. QED BY <2>8, <3>1, <3>2 DEF AddOns!Lines
  <2>10. AddOnsDoomed(m, call, S, P) => AddOns!Broken(m, call, answer)
    BY <2>8 DEF AddOnsDoomed, AddOns!Broken
  <2>. QED BY <2>4, <2>6, <2>7, <2>9, <2>10
<1>. QED BY <1>1, <1>2 DEF AddOnsLegit

-----------------------------------------------------------------------------
(* show dryrun                                                             *)

DryRunLegit(m, P) ==
    {List("Namespace", Any, "dryrun")} \cup
    {List("ClusterReport", n.name, "dryrun") :
        n \in {n \in P : n.kind = "Namespace" /\ m.namespace \in {Any, n.name}}}

(* The reports asked for that a call has to find. *)
DryRunFound(m, call, W) ==
    {cr \in DryRun!Asked(m, W) : call.kind = "Namespace" \/ call.ns = cr.ns}

(* The lines of one report. *)
DryRunLines(m, cr) ==
    {[cluster |-> cr.cluster, what |-> e.what,
      profile |-> IF m.rawDiff THEN cr.owner ELSE DryRun!ProfileName(cr)] :
        e \in {e \in cr.entries : m.rawDiff => e.update /\ e.message}}

DryRunOwed(m, call, S, P) ==
    UNION {DryRunLines(m, cr) :
             cr \in {cr \in DryRunFound(m, call, S) : cr.owner # None}}

DryRunDoomed(m, call, S, P) == \E cr \in DryRunFound(m, call, S) : cr.owner = None

LEMMA DryRunAsked ==
    ASSUME NEW m, NEW W, NEW cr
    PROVE  cr \in DryRun!Asked(m, W) <=>
              /\ cr \in W /\ m.namespace \in {Any, cr.ns}
              /\ DryRun!Considered(m, cr)
BY DEF DryRun!Asked, DryRun!Kind, DryRun!Considered, DryRun!doConsiderClusterReport,
       DryRun!doConsiderProfile, DryRun!Selects

LEMMA DryRunTable ==
    ASSUME NEW m, NEW W, NEW P
    PROVE  DryRun!Table(m, W, P) =
             UNION {DryRunLines(m, cr) :
                      cr \in {cr \in DryRun!Asked(m, W) : cr.owner # None}}
<1>. DEFINE right == UNION {DryRunLines(m, cr) :
                             cr \in {cr \in DryRun!Asked(m, W) : cr.owner # None}}
            Pairs == UNION {{cr} \X cr.entries : cr \in DryRun!Asked(m, W)}
            LineOf(x) == [cluster |-> x[1].cluster, what |-> x[2].what,
                          profile |-> IF m.rawDiff THEN x[1].owner
                                      ELSE DryRun!ProfileName(x[1])]
            Told(x) == x[1].owner # None /\ (m.rawDiff => x[2].update /\ x[2].message)
<1>1. DryRun!Table(m, W, P) = {LineOf(x) : x \in {x \in Pairs : Told(x)}}
  BY DEF DryRun!Table
<1>2. ASSUME NEW x \in Pairs, Told(x) PROVE LineOf(x) \in right
  <2>1. PICK cr \in DryRun!Asked(m, W) : x[1] = cr /\ x[2] \in cr.entries
    BY <1>2
  <2>2. LineOf(x) \in DryRunLines(m, cr)
    BY <1>2, <2>1 DEF DryRunLines
  <2>. QED BY <1>2, <2>1, <2>2
<1>3. ASSUME NEW t \in right PROVE t \in {LineOf(x) : x \in {x \in Pairs : Told(x)}}
  <2>1. PICK cr \in DryRun!Asked(m, W) : cr.owner # None /\ t \in DryRunLines(m, cr)
    BY <1>3
  <2>2. PICK e \in cr.entries :
          /\ m.rawDiff => e.update /\ e.message
          /\ t = [cluster |-> cr.cluster, what |-> e.what,
                  profile |-> IF m.rawDiff THEN cr.owner ELSE DryRun!ProfileName(cr)]
    BY <2>1 DEF DryRunLines
  <2>. DEFINE x == <<cr, e>>
  <2>3. x[1] = cr /\ x[2] = e /\ x \in Pairs
    BY <2>1
  <2>4. Told(x) /\ t = LineOf(x)
    BY <2>1, <2>2
  <2>. HIDE DEF x, Pairs, Told, LineOf
  <2>. QED BY <2>3, <2>4
<1>. HIDE DEF right, Pairs, Told, LineOf
<1>4. {LineOf(x) : x \in {x \in Pairs : Told(x)}} = right
  BY <1>2, <1>3
<1>. QED BY <1>1, <1>4 DEF right

LEMMA DryRunMonotone ==
    ASSUME NEW m, NEW W, NEW V, W \subseteq V, NEW P, NEW Q
    PROVE  /\ DryRun!Asked(m, W) \subseteq DryRun!Asked(m, V)
           /\ DryRun!Table(m, W, P) \subseteq DryRun!Table(m, V, Q)
           /\ DryRun!Faulty(m, W, P) => DryRun!Faulty(m, V, Q)
<1>1. DryRun!Asked(m, W) \subseteq DryRun!Asked(m, V)
  BY DEF DryRun!Asked, DryRun!Kind
<1>. QED BY <1>1, DryRunTable DEF DryRun!Faulty

LEMMA DryRunFirst ==
    ASSUME NEW m, NEW S, NEW P
    PROVE  /\ DryRun!Calls(m) \in Seq(DryRunLegit(m, P))
           /\ Range(DryRun!Calls(m)) = {List("Namespace", Any, "dryrun")}
           /\ DryRun!Table(m, S, P)
                 \subseteq DryRunOwed(m, List("Namespace", Any, "dryrun"), S, P)
           /\ DryRun!Faulty(m, S, P)
                 => DryRunDoomed(m, List("Namespace", Any, "dryrun"), S, P)
<1>. DEFINE c == List("Namespace", Any, "dryrun")
<1>1. DryRun!Calls(m) = <<c>> /\ c \in DryRunLegit(m, P) /\ c.kind = "Namespace"
  BY DEF DryRun!Calls, DryRun!List, List, DryRunLegit
<1>. HIDE DEF c
<1>2. DryRun!Calls(m) \in Seq(DryRunLegit(m, P)) /\ Range(DryRun!Calls(m)) = {c}
  BY <1>1 DEF Range
<1>3. DryRunFound(m, c, S) = DryRun!Asked(m, S)
  BY <1>1 DEF DryRunFound
<1>. QED BY <1>2, <1>3, DryRunTable DEF DryRun!Faulty, DryRunOwed, DryRunDoomed, c

(* The answers of show dryrun. *)
LEMMA DryRunAnswer ==
    ASSUME NEW m, NEW P \in SUBSET Universe, NEW W, NEW S, Between(S, W, P),
           \A o \in W : o.kind # "Namespace" =>
              \E n \in W : n.kind = "Namespace" /\ n.name = o.ns,
           NEW call \in DryRunLegit(m, P), NEW answer, answer = Answer(call, W),
           NEW read
    PROVE  /\ DryRun!Follow(m, call, answer) \subseteq DryRunLegit(m, P)
           /\ DryRun!Lines(m, call, answer, read) \subseteq DryRun!Table(m, P, S)
           /\ DryRun!Broken(m, call, answer) => DryRun!Faulty(m, P, S)
           /\ DryRunOwed(m, call, S, P) \subseteq
                DryRun!Lines(m, call, answer, read)
                \cup UNION {DryRunOwed(m, c, S, P) :
                              c \in DryRun!Follow(m, call, answer)}
           /\ ~DryRun!Broken(m, call, answer) /\ DryRunDoomed(m, call, S, P) =>
                \E c \in DryRun!Follow(m, call, answer) : DryRunDoomed(m, c, S, P)
<1>. DEFINE follow == DryRun!Follow(m, call, answer)
            lines == DryRun!Lines(m, call, answer, read)
<1>0. S \subseteq W /\ W \subseteq P
  BY DEF Between
<1>1. CASE call = List("Namespace", Any, "dryrun")
  <2>1. call.kind = "Namespace" /\ call.ns = Any /\ call.name = Any
    BY <1>1 DEF List
  <2>2. \A o : o \in answer <=> o \in W /\ o.kind = "Namespace"
    BY <2>1, AnswerProperties
  <2>3. \A cr \in answer : ~DryRun!Considered(m, cr)
    BY <2>2 DEF DryRun!Considered
  <2>4. lines = {} /\ ~DryRun!Broken(m, call, answer)
    BY <2>3 DEF DryRun!Lines, DryRun!Broken
  <2>5. follow = {List("ClusterReport", n.name, "dryrun") :
                    n \in {n \in W : n.kind = "Namespace" /\ m.namespace \in {Any, n.name}}}
    BY <2>1, <2>2 DEF DryRun!Follow, DryRun!doConsiderNamespace, DryRun!Selects,
                      DryRun!List, List
  <2>6. follow \subseteq DryRunLegit(m, P)
    BY <1>0, <2>5 DEF DryRunLegit
  <2>7. ASSUME NEW cr \in DryRunFound(m, call, S)
        PROVE  \E c \in follow : cr \in DryRunFound(m, c, S)
    <3>1. cr \in DryRun!Asked(m, S)
      BY <2>7 DEF DryRunFound
    <3>2. cr \in W /\ m.namespace \in {Any, cr.ns} /\ cr.kind = "ClusterReport"
      BY <1>0, <3>1 DEF DryRun!Asked, DryRun!Kind
    <3>3. PICK n \in W : n.kind = "Namespace" /\ n.name = cr.ns
      BY <3>2
    <3>. DEFINE c == List("ClusterReport", n.name, "dryrun")
    <3>4. c \in follow
      BY <2>5, <3>2, <3>3
    <3>5. c.ns = cr.ns
      BY <3>3 DEF List
    <3>. HIDE DEF c
    <3>. QED BY <3>1, <3>4, <3>5 DEF DryRunFound
  <2>8. DryRunOwed(m, call, S, P) \subseteq UNION {DryRunOwed(m, c, S, P) : c \in follow}
    BY <2>7 DEF DryRunOwed
  <2>9. DryRunDoomed(m, call, S, P) => \E c \in follow : DryRunDoomed(m, c, S, P)
    BY <2>7 DEF DryRunDoomed
  <2>. QED BY <2>4, <2>6, <2>8, <2>9
<1>2. CASE \E n \in P : /\ n.kind = "Namespace" /\ m.namespace \in {Any, n.name}
                       /\ call = List("ClusterReport", n.name, "dryrun")
  <2>1. PICK n \in P : /\ n.kind = "Namespace" /\ m.namespace \in {Any, n.name}
                       /\ call = List("ClusterReport", n.name, "dryrun")
    BY <1>2
  <2>2. /\ call.kind = "ClusterReport" /\ call.ns = n.name /\ call.name = Any
        /\ call.ns # Any
    BY <2>1, ObjectsAssumption DEF List
  <2>3. \A o : o \in answer <=> /\ o \in W /\ o.kind = "ClusterReport"
                                /\ o.ns = n.name
    BY <2>2, AnswerProperties
  <2>4. follow = {}
    BY <2>2 DEF DryRun!Follow
  <2>5. \A cr \in answer : DryRun!Considered(m, cr) => cr \in DryRun!Asked(m, P)
    BY <1>0, <2>1, <2>3, DryRunAsked
  <2>6. DryRun!Broken(m, call, answer) => DryRun!Faulty(m, P, S)
    BY <2>5 DEF DryRun!Broken, DryRun!Faulty
  <2>7. \A cr \in answer : DryRun!displayDryRunForCluster(m, cr) = DryRunLines(m, cr)
    <3>1. CASE m.rawDiff
      BY <3>1 DEF DryRun!displayDryRunForCluster, DryRunLines
    <3>2. CASE ~m.rawDiff
      BY <3>2 DEF DryRun!displayDryRunForCluster, DryRunLines
    <3>. QED BY <3>1, <3>2
  <2>8. lines = UNION {DryRunLines(m, cr) :
                         cr \in {cr \in answer : DryRun!Considered(m, cr) /\ cr.owner # None}}
    BY <2>7 DEF DryRun!Lines
  <2>9. lines \subseteq DryRun!Table(m, P, S)
    BY <2>5, <2>8, DryRunTable
  <2>10. ASSUME NEW cr \in DryRunFound(m, call, S)
         PROVE  cr \in answer /\ DryRun!Considered(m, cr)
    <3>1. cr \in DryRun!Asked(m, S) /\ cr.ns = n.name
      BY <2>2 DEF DryRunFound
    <3>2. cr \in W /\ DryRun!Considered(m, cr)
      BY <1>0, <3>1, DryRunAsked
    <3>3. cr.kind = "ClusterReport"
      BY <3>2 DEF DryRun!Considered
    <3>. QED BY <2>3, <3>1, <3>2, <3>3
  <2>11. DryRunOwed(m, call, S, P) \subseteq lines
    BY <2>8, <2>10 DEF DryRunOwed
  <2>12. DryRunDoomed(m, call, S, P) => DryRun!Broken(m, call, answer)
    BY <2>10 DEF DryRunDoomed, DryRun!Broken
  <2>. QED BY <2>4, <2>6, <2>9, <2>11, <2>12
<1>. QED BY <1>1, <1>2 DEF DryRunLegit

-----------------------------------------------------------------------------
(* show resources: one call, which owes all                                *)

ResourcesLegit(m) == {List("HealthCheckReport", m.clusterNamespace, "resources")}

LEMMA ResourcesAsked ==
    ASSUME NEW m, NEW W, NEW hcr, NEW s
    PROVE  <<hcr, s>> \in Resources!Asked(m, W) <=>
              /\ hcr \in W /\ hcr.kind = "HealthCheckReport"
              /\ m.clusterNamespace \in {Any, hcr.ns}
              /\ s \in Resources!Considered(m, hcr)
BY DEF Resources!Asked, Resources!Kind, Resources!Considered,
       Resources!doConsiderResourceStatus, Resources!Selects

LEMMA ResourcesPairs ==
    ASSUME NEW m, NEW W, NEW x \in Resources!Asked(m, W)
    PROVE  <<x[1], x[2]>> \in Resources!Asked(m, W)
BY DEF Resources!Asked, Resources!Kind

LEMMA ResourcesMonotone ==
    ASSUME NEW m, NEW W, NEW V, W \subseteq V, NEW P, NEW Q
    PROVE  /\ Resources!Asked(m, W) \subseteq Resources!Asked(m, V)
           /\ Resources!Table(m, W, P) \subseteq Resources!Table(m, V, Q)
           /\ Resources!Faulty(m, W, P) => Resources!Faulty(m, V, Q)
<1>1. Resources!Asked(m, W) \subseteq Resources!Asked(m, V)
  BY DEF Resources!Asked, Resources!Kind
<1>. QED BY <1>1 DEF Resources!Table, Resources!Faulty

LEMMA ResourcesFirst ==
    ASSUME NEW m
    PROVE  /\ Resources!Calls(m) \in Seq(ResourcesLegit(m))
           /\ Range(Resources!Calls(m)) = ResourcesLegit(m)
<1>. DEFINE c == List("HealthCheckReport", m.clusterNamespace, "resources")
<1>1. Resources!Calls(m) = <<c>> /\ ResourcesLegit(m) = {c}
  BY DEF Resources!Calls, Resources!List, List, ResourcesLegit
<1>. HIDE DEF c
<1>. QED BY <1>1 DEF Range

(* The answers of show resources. *)
LEMMA ResourcesAnswer ==
    ASSUME NEW m, NEW P, NEW W, NEW S, Between(S, W, P),
           NEW call \in ResourcesLegit(m), NEW answer, answer = Answer(call, W),
           NEW read
    PROVE  /\ Resources!Lines(m, call, answer, read) \subseteq Resources!Table(m, P, S)
           /\ Resources!Broken(m, call, answer) => Resources!Faulty(m, P, S)
           /\ Resources!Table(m, S, P) \subseteq Resources!Lines(m, call, answer, read)
           /\ Resources!Faulty(m, S, P) => Resources!Broken(m, call, answer)
<1>. DEFINE lines == Resources!Lines(m, call, answer, read)
            Line(hcr, s) == Resources!Line(m, hcr.cluster, s)
<1>0. S \subseteq W /\ W \subseteq P
  BY DEF Between
<1>1. \A o : o \in answer <=> /\ o \in W /\ o.kind = "HealthCheckReport"
                              /\ m.clusterNamespace \in {Any, o.ns}
  <2>1. /\ call.kind = "HealthCheckReport" /\ call.ns = m.clusterNamespace
        /\ call.name = Any
    BY DEF ResourcesLegit, List
  <2>. QED BY <2>1, AnswerProperties
<1>2. \A t : t \in lines <=>
         \E hcr \in answer : \E s \in Resources!Considered(m, hcr) :
            t = Line(hcr, s) /\ (m.full => s.content = "good")
  <2>1. CASE m.full
    BY <2>1 DEF Resources!Lines, Resources!displayResourcesInReport,
                Resources!printResource
  <2>2. CASE ~m.full
    BY <2>2 DEF Resources!Lines, Resources!displayResourcesInReport,
                Resources!displayResource
  <2>. QED BY <2>1, <2>2
<1>3. \A V, t : t \in Resources!Table(m, V, S) <=>
         \E x \in Resources!Asked(m, V) :
            t = Line(x[1], x[2]) /\ (m.full => x[2].content = "good")
  BY DEF Resources!Table
<1>. HIDE DEF Line, lines
<1>4. ASSUME NEW hcr \in answer, NEW s \in Resources!Considered(m, hcr)
      PROVE  \E x \in Resources!Asked(m, P) : x[1] = hcr /\ x[2] = s
  <2>1. <<hcr, s>> \in Resources!Asked(m, P)
    BY <1>0, <1>1, <1>4, ResourcesAsked
  <2>2. <<hcr, s>>[1] = hcr /\ <<hcr, s>>[2] = s
    OBVIOUS
  <2>. QED BY <2>1, <2>2
<1>5. ASSUME NEW x \in Resources!Asked(m, S)
      PROVE  x[1] \in answer /\ x[2] \in Resources!Considered(m, x[1])
  <2>1. <<x[1], x[2]>> \in Resources!Asked(m, S)
    BY <1>5, ResourcesPairs
  <2>. QED BY <1>0, <1>1, <2>1, ResourcesAsked
<1>6. lines \subseteq Resources!Table(m, P, S)
  BY <1>2, <1>3, <1>4
<1>7. Resources!Table(m, S, P) \subseteq lines
  <2>1. Resources!Table(m, S, P) = Resources!Table(m, S, S)
    BY DEF Resources!Table
  <2>. QED BY <1>2, <1>3, <1>5, <2>1
<1>8. Resources!Broken(m, call, answer) => Resources!Faulty(m, P, S)
  BY <1>4 DEF Resources!Broken, Resources!Faulty
<1>9. Resources!Faulty(m, S, P) => Resources!Broken(m, call, answer)
  BY <1>5 DEF Resources!Broken, Resources!Faulty
<1>. QED BY <1>6, <1>7, <1>8, <1>9 DEF lines

-----------------------------------------------------------------------------
(* show usage: a call for each list of each section                        *)

UsageLegit(m) ==
    {List(x[1], Any, x[2]) :
        x \in {x \in Usage!Kinds \X Usage!ValidKinds :
                 /\ m.kind \in {Any, x[2]}
                 /\ x[2] \in Usage!Kinds => x[2] = x[1]}}

(* What a section tells of one profile. *)
UsageShown(m, use, o) ==
    IF use \in Usage!Kinds
    THEN {t \in Usage!showUsageForProfile(o) : m.name \in {Any, o.name}}
    ELSE Usage!getReferencedResources(m, use, o)

(* A call gives the lines of its section for the profiles it finds. *)
UsageOwed(m, call, S, P) ==
    UNION {UsageShown(m, call.use, o) : o \in {o \in S : o.kind = call.kind}}

LEMMA UsageCall ==
    ASSUME NEW m
    PROVE  /\ \A kind \in Usage!Kinds, use \in Usage!ValidKinds :
                 /\ m.kind \in {Any, use}
                 /\ use \in Usage!Kinds => use = kind
                 => List(kind, Any, use) \in UsageLegit(m)
           /\ \A call \in UsageLegit(m) :
                 /\ call.kind \in Usage!Kinds /\ call.use \in Usage!ValidKinds
                 /\ call.ns = Any /\ call.name = Any
                 /\ m.kind \in {Any, call.use}
                 /\ call.use \in Usage!Kinds => call.use = call.kind
                 /\ call = List(call.kind, Any, call.use)
<1>1. ASSUME NEW kind \in Usage!Kinds, NEW use \in Usage!ValidKinds,
             m.kind \in {Any, use}, use \in Usage!Kinds => use = kind
      PROVE  List(kind, Any, use) \in UsageLegit(m)
  <2>. DEFINE x == <<kind, use>>
  <2>1. x[1] = kind /\ x[2] = use /\ x \in Usage!Kinds \X Usage!ValidKinds
    OBVIOUS
  <2>. HIDE DEF x
  <2>. QED BY <1>1, <2>1 DEF UsageLegit
<1>2. ASSUME NEW call \in UsageLegit(m)
      PROVE  /\ call.kind \in Usage!Kinds /\ call.use \in Usage!ValidKinds
             /\ call.ns = Any /\ call.name = Any
             /\ m.kind \in {Any, call.use}
             /\ call.use \in Usage!Kinds => call.use = call.kind
             /\ call = List(call.kind, Any, call.use)
  <2>1. PICK x \in Usage!Kinds \X Usage!ValidKinds :
          /\ m.kind \in {Any, x[2]}
          /\ x[2] \in Usage!Kinds => x[2] = x[1]
          /\ call = List(x[1], Any, x[2])
    BY <1>2 DEF UsageLegit
  <2>2. x[1] \in Usage!Kinds /\ x[2] \in Usage!ValidKinds
    BY <2>1
  <2>3. call.kind = x[1] /\ call.use = x[2] /\ call.ns = Any /\ call.name = Any
    BY <2>1 DEF List
  <2>. QED BY <2>1, <2>2, <2>3
<1>. QED BY <1>1, <1>2

LEMMA UsageFirst ==
    ASSUME NEW m
    PROVE  /\ Usage!Calls(m) \in Seq(UsageLegit(m))
           /\ Range(Usage!Calls(m)) = UsageLegit(m)
<1>. DEFINE L == UsageLegit(m)
            One(kind) == IF m.kind \in {Any, kind} THEN <<List(kind, Any, kind)>> ELSE <<>>
            Two(kind) == IF m.kind \in {Any, kind}
                         THEN <<List("ClusterProfile", Any, kind), List("Profile", Any, kind)>>
                         ELSE <<>>
            s1 == One("ClusterProfile")
            s2 == One("Profile")
            s3 == Two("ConfigMap")
            s4 == Two("Secret")
<1>1. Usage!Calls(m) = s1 \o s2 \o s3 \o s4
  <2>. DEFINE Section(kind, lists) ==
                IF Usage!Selects(m.kind, kind)
                THEN [i \in 1 .. Len(lists) |-> Usage!List(lists[i], Any, kind)] ELSE <<>>
  <2>1. ASSUME NEW kind, NEW a
        PROVE  Section(kind, <<a>>) = IF m.kind \in {Any, kind} THEN <<List(a, Any, kind)>>
                                      ELSE <<>>
    BY DEF Usage!Selects, Usage!List, List
  <2>2. ASSUME NEW kind, NEW a, NEW b
        PROVE  Section(kind, <<a, b>>) =
                 IF m.kind \in {Any, kind}
                 THEN <<List(a, Any, kind), List(b, Any, kind)>> ELSE <<>>
    BY DEF Usage!Selects, Usage!List, List
  <2>3. Usage!Calls(m) = Section("ClusterProfile", <<"ClusterProfile">>)
                         \o Section("Profile", <<"Profile">>)
                         \o Section("ConfigMap", <<"ClusterProfile", "Profile">>)
                         \o Section("Secret", <<"ClusterProfile", "Profile">>)
    BY DEF Usage!Calls
  <2>. HIDE DEF Section
  <2>4. /\ Section("ClusterProfile", <<"ClusterProfile">>) = s1
        /\ Section("Profile", <<"Profile">>) = s2
    BY <2>1
  <2>5. /\ Section("ConfigMap", <<"ClusterProfile", "Profile">>) = s3
        /\ Section("Secret", <<"ClusterProfile", "Profile">>) = s4
    BY <2>2
  <2>. HIDE DEF s1, s2, s3, s4
  <2>. QED BY <2>3, <2>4, <2>5
<1>2. ASSUME NEW kind \in Usage!Kinds
      PROVE  /\ One(kind) \in Seq(L)
             /\ Range(One(kind)) = {c \in L : c.use = kind}
  <2>1. CASE m.kind \in {Any, kind}
    <3>. DEFINE c == List(kind, Any, kind)
    <3>1. c \in L
      BY <1>2, <2>1, UsageCall DEF Usage!ValidKinds
    <3>2. c.use = kind
      BY DEF List
    <3>3. ASSUME NEW d \in L, d.use = kind PROVE d = c
      <4>1. d = List(d.kind, Any, d.use) /\ d.use = d.kind
        BY <1>2, <3>3, UsageCall
      <4>. QED BY <3>3, <4>1
    <3>4. One(kind) = <<c>>
      BY <2>1
    <3>. HIDE DEF c, L, One
    <3>. QED BY <3>1, <3>2, <3>3, <3>4 DEF Range
  <2>2. CASE m.kind \notin {Any, kind}
    <3>1. {c \in L : c.use = kind} = {} /\ One(kind) = <<>>
      BY <2>2, UsageCall
    <3>. HIDE DEF L, One
    <3>. QED BY <3>1 DEF Range
  <2>. QED BY <2>1, <2>2
<1>3. ASSUME NEW kind \in {"ConfigMap", "Secret"}
      PROVE  /\ Two(kind) \in Seq(L)
             /\ Range(Two(kind)) = {c \in L : c.use = kind}
  <2>1. CASE m.kind \in {Any, kind}
    <3>. DEFINE c == List("ClusterProfile", Any, kind)
                d == List("Profile", Any, kind)
    <3>1. kind \in Usage!ValidKinds /\ kind \notin Usage!Kinds
      BY <1>3 DEF Usage!ValidKinds, Usage!Kinds
    <3>2. c \in L /\ d \in L
      BY <2>1, <3>1, UsageCall DEF Usage!Kinds
    <3>3. c.use = kind /\ d.use = kind
      BY DEF List
    <3>4. ASSUME NEW e \in L, e.use = kind PROVE e = c \/ e = d
      <4>1. e = List(e.kind, Any, kind) /\ e.kind \in {"ClusterProfile", "Profile"}
        BY <3>4, UsageCall DEF Usage!Kinds
      <4>. QED BY <4>1
    <3>5. Two(kind) = <<c, d>>
      BY <2>1
    <3>. HIDE DEF c, d, L, Two
    <3>. QED BY <3>2, <3>3, <3>4, <3>5 DEF Range
  <2>2. CASE m.kind \notin {Any, kind}
    <3>1. {c \in L : c.use = kind} = {} /\ Two(kind) = <<>>
      BY <2>2, UsageCall
    <3>. HIDE DEF L, Two
    <3>. QED BY <3>1 DEF Range
  <2>. QED BY <2>1, <2>2
<1>4. \A c \in L : c.use \in {"ClusterProfile", "Profile", "ConfigMap", "Secret"}
  BY UsageCall DEF Usage!ValidKinds, Usage!Kinds
<1>5. /\ s1 \in Seq(L) /\ Range(s1) = {c \in L : c.use = "ClusterProfile"}
      /\ s2 \in Seq(L) /\ Range(s2) = {c \in L : c.use = "Profile"}
      /\ s3 \in Seq(L) /\ Range(s3) = {c \in L : c.use = "ConfigMap"}
      /\ s4 \in Seq(L) /\ Range(s4) = {c \in L : c.use = "Secret"}
  BY <1>2, <1>3 DEF Usage!Kinds
<1>. HIDE DEF s1, s2, s3, s4, L
<1>. DEFINE s12 == s1 \o s2
            s123 == s12 \o s3
            s1234 == s123 \o s4
<1>6. s12 \in Seq(L) /\ Range(s12) = Range(s1) \cup Range(s2)
  BY <1>5, ConcatProperties, RangeConcatenation
<1>. HIDE DEF s12
<1>7. s123 \in Seq(L) /\ Range(s123) = Range(s12) \cup Range(s3)
  BY <1>5, <1>6, ConcatProperties, RangeConcatenation
<1>. HIDE DEF s123
<1>8. s1234 \in Seq(L) /\ Range(s1234) = Range(s123) \cup Range(s4)
  BY <1>5, <1>7, ConcatProperties, RangeConcatenation
<1>9. Usage!Calls(m) = s1234
  BY <1>1 DEF s12, s123
<1>. HIDE DEF s1234
<1>. QED BY <1>4, <1>5, <1>6, <1>7, <1>8, <1>9 DEF L

(* The table is what the sections tell of the profiles. *)
LEMMA UsageTable ==
    ASSUME NEW m, ~Usage!Refused(m), NEW W \in SUBSET Universe, NEW P, NEW t
    PROVE  t \in Usage!Table(m, W, P) <=>
             \E call \in UsageLegit(m) : \E o \in W :
                o.kind = call.kind /\ t \in UsageShown(m, call.use, o)
<1>. DEFINE profiles == {o \in W : o.kind \in Usage!Kinds}
            own == {[kind |-> o.kind, ns |-> None, name |-> o.name,
                     home |-> o.ns, of |-> o] : o \in profiles}
            referenced == {[kind |-> x[2].kind, ns |-> x[2].ns, name |-> x[2].name,
                            home |-> x[2].ns, of |-> x[1]] :
                             x \in UNION {{o} \X o.refs : o \in profiles}}
            Asked(x) == /\ x.kind \in IF m.kind = Any THEN Usage!ValidKinds ELSE {m.kind}
                        /\ m.name \in {Any, x.name}
                        /\ x.kind \in Usage!Kinds \/ m.namespace \in {Any, x.home}
            RowsOf(x) == {Usage!Row(x.kind, x.ns, x.name, c) :
                            c \in x.of.clusters \cup {None}}
<1>1. t \in Usage!Table(m, W, P) <=>
        \E x \in own \cup referenced : Asked(x) /\ t \in RowsOf(x)
  BY DEF Usage!Table, Usage!Promised, Usage!ProfilesElsewhere, Usage!Rows,
         Usage!Named, Usage!Used, Usage!Kinds
<1>2. \A kind : kind \in (IF m.kind = Any THEN Usage!ValidKinds ELSE {m.kind})
                <=> kind \in Usage!ValidKinds /\ m.kind \in {Any, kind}
  BY DEF Usage!Refused
<1>3. \A o \in profiles : \A r \in o.refs : r.kind \notin Usage!Kinds
  BY ObjectsAssumption
<1>. DEFINE Own(o) == [kind |-> o.kind, ns |-> None, name |-> o.name,
                       home |-> o.ns, of |-> o]
            Of(o, r) == [kind |-> r.kind, ns |-> r.ns, name |-> r.name,
                         home |-> r.ns, of |-> o]
<1>4. \A x : x \in own <=> \E o \in profiles : x = Own(o)
  OBVIOUS
<1>5. \A x : x \in referenced <=> \E o \in profiles : \E r \in o.refs : x = Of(o, r)
  <2>. DEFINE Pairs == UNION {{o} \X o.refs : o \in profiles}
  <2>1. ASSUME NEW y \in Pairs
        PROVE  \E o \in profiles : \E r \in o.refs : y[1] = o /\ y[2] = r
    OBVIOUS
  <2>2. ASSUME NEW o \in profiles, NEW r \in o.refs
        PROVE  \E y \in Pairs : y[1] = o /\ y[2] = r
    <3>1. <<o, r>> \in Pairs /\ <<o, r>>[1] = o /\ <<o, r>>[2] = r
      BY <2>2
    <3>. QED BY <3>1
  <2>3. referenced = {[kind |-> x[2].kind, ns |-> x[2].ns, name |-> x[2].name,
                       home |-> x[2].ns, of |-> x[1]] : x \in Pairs}
    OBVIOUS
  <2>. HIDE DEF Pairs, referenced, profiles
  <2>. QED BY <2>1, <2>2, <2>3
<1>6. ASSUME NEW o \in profiles
      PROVE  /\ Asked(Own(o)) <=> m.kind \in {Any, o.kind} /\ m.name \in {Any, o.name}
             /\ t \in RowsOf(Own(o)) <=> t \in Usage!showUsageForProfile(o)
  <2>1. o.kind \in Usage!Kinds /\ o.kind \in Usage!ValidKinds
    BY <1>6 DEF Usage!ValidKinds
  <2>2. /\ Own(o).kind = o.kind /\ Own(o).name = o.name
        /\ Own(o).ns = None /\ Own(o).of = o
    OBVIOUS
  <2>. HIDE DEF Own
  <2>. QED BY <1>2, <2>1, <2>2 DEF Usage!showUsageForProfile
<1>7. ASSUME NEW o \in profiles, NEW r \in o.refs
      PROVE  /\ Asked(Of(o, r)) <=> /\ r.kind \in Usage!ValidKinds
                                    /\ m.kind \in {Any, r.kind}
                                    /\ Usage!shouldAddPolicyRef(m, r)
             /\ t \in RowsOf(Of(o, r)) <=>
                  t \in {Usage!Row(r.kind, r.ns, r.name, c) : c \in o.clusters \cup {None}}
  <2>1. /\ Of(o, r).kind = r.kind /\ Of(o, r).name = r.name
        /\ Of(o, r).ns = r.ns /\ Of(o, r).of = o /\ Of(o, r).home = r.ns
    OBVIOUS
  <2>2. r.kind \notin Usage!Kinds
    BY <1>3, <1>7
  <2>. HIDE DEF Of, profiles
  <2>. QED BY <1>2, <2>1, <2>2 DEF Usage!shouldAddPolicyRef, Usage!Selects
<1>8. ASSUME NEW o, NEW kind, kind \notin Usage!Kinds
      PROVE  t \in Usage!getReferencedResources(m, kind, o) <=>
               \E r \in o.refs :
                  /\ r.kind = kind /\ Usage!shouldAddPolicyRef(m, r)
                  /\ t \in {Usage!Row(r.kind, r.ns, r.name, c) :
                              c \in o.clusters \cup {None}}
  BY DEF Usage!getReferencedResources
<1>. HIDE DEF own, referenced, Asked, RowsOf, Own, Of
<1>9. ASSUME NEW x \in own \cup referenced, Asked(x), t \in RowsOf(x)
      PROVE  \E call \in UsageLegit(m) : \E o \in W :
                o.kind = call.kind /\ t \in UsageShown(m, call.use, o)
  <2>1. ASSUME NEW o \in profiles, x = Own(o)
        PROVE  /\ List(o.kind, Any, o.kind) \in UsageLegit(m)
               /\ t \in UsageShown(m, o.kind, o)
    <3>1. /\ m.kind \in {Any, o.kind} /\ m.name \in {Any, o.name}
          /\ t \in Usage!showUsageForProfile(o)
      BY <1>6, <1>9, <2>1
    <3>2. o.kind \in Usage!Kinds /\ o.kind \in Usage!ValidKinds
      BY <2>1 DEF Usage!ValidKinds
    <3>. HIDE DEF profiles
    <3>. QED BY <3>1, <3>2, UsageCall DEF UsageShown
  <2>2. ASSUME NEW o \in profiles, NEW r \in o.refs, x = Of(o, r)
        PROVE  /\ List(o.kind, Any, r.kind) \in UsageLegit(m)
               /\ t \in UsageShown(m, r.kind, o)
    <3>1. /\ r.kind \in Usage!ValidKinds /\ m.kind \in {Any, r.kind}
          /\ Usage!shouldAddPolicyRef(m, r)
          /\ t \in {Usage!Row(r.kind, r.ns, r.name, c) : c \in o.clusters \cup {None}}
      BY <1>7, <1>9, <2>2
    <3>2. r.kind \notin Usage!Kinds /\ o.kind \in Usage!Kinds
      BY <1>3, <2>2
    <3>3. t \in Usage!getReferencedResources(m, r.kind, o)
      BY <1>8, <2>2, <3>1, <3>2
    <3>. HIDE DEF profiles
    <3>. QED BY <3>1, <3>2, <3>3, UsageCall DEF UsageShown
  <2>3. \A kind, use : List(kind, Any, use).kind = kind /\ List(kind, Any, use).use = use
    BY DEF List
  <2>4. \A o \in profiles : o \in W
    OBVIOUS
  <2>. HIDE DEF profiles
  <2>. QED BY <1>4, <1>5, <1>9, <2>1, <2>2, <2>3, <2>4
<1>10. ASSUME NEW call \in UsageLegit(m), NEW o \in W, o.kind = call.kind,
              t \in UsageShown(m, call.use, o)
       PROVE  \E x \in own \cup referenced : Asked(x) /\ t \in RowsOf(x)
  <2>1. /\ o \in profiles /\ call.use \in Usage!ValidKinds /\ m.kind \in {Any, call.use}
        /\ call.use \in Usage!Kinds => call.use = o.kind
    BY <1>10, UsageCall
  <2>. HIDE DEF profiles
  <2>2. CASE call.use \in Usage!Kinds
    <3>1. Own(o) \in own
      BY <1>4, <2>1
    <3>2. t \in Usage!showUsageForProfile(o) /\ m.name \in {Any, o.name}
      BY <1>10, <2>2 DEF UsageShown
    <3>. QED BY <1>6, <2>1, <2>2, <3>1, <3>2
  <2>3. CASE call.use \notin Usage!Kinds
    <3>1. t \in Usage!getReferencedResources(m, call.use, o)
      BY <1>10, <2>3 DEF UsageShown
    <3>2. PICK r \in o.refs :
            /\ r.kind = call.use /\ Usage!shouldAddPolicyRef(m, r)
            /\ t \in {Usage!Row(r.kind, r.ns, r.name, c) : c \in o.clusters \cup {None}}
      BY <1>8, <2>3, <3>1
    <3>3. Of(o, r) \in referenced
      BY <1>5, <2>1
    <3>. QED BY <1>7, <2>1, <3>2, <3>3
  <2>. QED BY <2>2, <2>3
<1>. QED BY <1>1, <1>9, <1>10

LEMMA UsageMonotone ==
    ASSUME NEW m, NEW W, NEW V, W \subseteq V, NEW P, NEW Q
    PROVE  Usage!Table(m, W, P) \subseteq Usage!Table(m, V, Q)
BY DEF Usage!Table, Usage!Promised, Usage!ProfilesElsewhere, Usage!Rows,
       Usage!Named, Usage!Used

(* The answers of show usage. *)
LEMMA UsageAnswer ==
    ASSUME NEW m, ~Usage!Refused(m), NEW P \in SUBSET Universe, NEW W, NEW S,
           Between(S, W, P), NEW call \in UsageLegit(m),
           NEW answer, answer = Answer(call, W), NEW read
    PROVE  /\ Usage!Lines(m, call, answer, read) \subseteq Usage!Table(m, P, S)
           /\ UsageOwed(m, call, S, P) \subseteq Usage!Lines(m, call, answer, read)
<1>0. S \subseteq W /\ W \subseteq P
  BY DEF Between
<1>1. call.kind \in Usage!Kinds /\ call.ns = Any /\ call.name = Any
  BY UsageCall
<1>2. \A o : o \in answer <=> o \in W /\ o.kind = call.kind
  BY <1>1, AnswerProperties
<1>3. \A t : t \in Usage!Lines(m, call, answer, read) <=>
               \E o \in answer : t \in UsageShown(m, call.use, o)
  BY DEF Usage!Lines, UsageShown, Usage!Selects
<1>4. Usage!Lines(m, call, answer, read) \subseteq Usage!Table(m, P, S)
  BY <1>0, <1>2, <1>3, UsageTable
<1>5. UsageOwed(m, call, S, P) \subseteq Usage!Lines(m, call, answer, read)
  BY <1>0, <1>2, <1>3 DEF UsageOwed
<1>. QED BY <1>4, <1>5

-----------------------------------------------------------------------------
(* show admin-rbac: a Get for each request, cluster and reference          *)

AdminFetch(x) ==
    Fetch(AdminRbac!KindOf(x[3]), x[3].ns, x[3].name,
          [request |-> x[1].name, account |-> x[1].account, cluster |-> x[2]])

AdminLegit(m, P) ==
    {List("RoleRequest", Any, None)} \cup {AdminFetch(x) : x \in AdminRbac!Asked(m, P)}

(* The references asked for that a call has to look at. *)
AdminFound(m, call, W) ==
    {x \in AdminRbac!Asked(m, W) : call.kind = "RoleRequest" \/ call = AdminFetch(x)}

AdminLines(x, W) ==
    UNION {AdminRbac!parseReferencedResource([cluster |-> x[2], account |-> x[1].account],
                                             o.elements) :
             o \in AdminRbac!Referenced(x, W)}

AdminOwed(m, call, S, P) == UNION {AdminLines(x, S) : x \in AdminFound(m, call, S)}

AdminDoomed(m, call, S, P) ==
    \E x \in AdminFound(m, call, S) :
       \/ AdminRbac!Referenced(x, P) = {}
       \/ \E o \in AdminRbac!Referenced(x, S) : AdminRbac!Bad(o)

LEMMA AdminAsked ==
    ASSUME NEW m, NEW W, NEW rr, NEW c, NEW ref
    PROVE  <<rr, c, ref>> \in AdminRbac!Asked(m, W) <=>
              /\ rr \in W /\ rr.kind = "RoleRequest"
              /\ c \in rr.clusters /\ ref \in rr.refs
              /\ AdminRbac!parseCluster(m, c)
              /\ AdminRbac!shouldParseRoleRequest(m, rr)
BY DEF AdminRbac!Asked, AdminRbac!Kind, AdminRbac!parseCluster,
       AdminRbac!shouldParseRoleRequest, AdminRbac!Selects

LEMMA AdminTriples ==
    ASSUME NEW m, NEW W, NEW x \in AdminRbac!Asked(m, W)
    PROVE  <<x[1], x[2], x[3]>> \in AdminRbac!Asked(m, W)
BY DEF AdminRbac!Asked, AdminRbac!Kind

LEMMA AdminTable ==
    ASSUME NEW m, NEW W, NEW P
    PROVE  AdminRbac!Table(m, W, P) =
             UNION {AdminLines(x, W) : x \in AdminRbac!Asked(m, W)}
<1>1. ASSUME NEW x
      PROVE  AdminLines(x, W) =
               UNION {{AdminRbac!Line(x[2], x[1].account, e) :
                         e \in {e \in o.elements : e.type \in {"Role", "ClusterRole"}}} :
                        o \in AdminRbac!Referenced(x, W)}
  BY DEF AdminLines, AdminRbac!parseReferencedResource
<1>. QED BY <1>1 DEF AdminRbac!Table

LEMMA AdminReferenced ==
    ASSUME NEW x, NEW W, NEW V, W \subseteq V
    PROVE  /\ AdminRbac!Referenced(x, W) \subseteq AdminRbac!Referenced(x, V)
           /\ AdminLines(x, W) \subseteq AdminLines(x, V)
<1>1. AdminRbac!Referenced(x, W) \subseteq AdminRbac!Referenced(x, V)
  BY DEF AdminRbac!Referenced
<1>. QED BY <1>1 DEF AdminLines

LEMMA AdminMonotone ==
    ASSUME NEW m, NEW W, NEW V, W \subseteq V, NEW P, NEW Q, Q \subseteq P
    PROVE  /\ AdminRbac!Asked(m, W) \subseteq AdminRbac!Asked(m, V)
           /\ AdminRbac!Table(m, W, P) \subseteq AdminRbac!Table(m, V, Q)
           /\ AdminRbac!Faulty(m, W, P) => AdminRbac!Faulty(m, V, Q)
<1>1. AdminRbac!Asked(m, W) \subseteq AdminRbac!Asked(m, V)
  BY DEF AdminRbac!Asked, AdminRbac!Kind
<1>2. \A x : AdminLines(x, W) \subseteq AdminLines(x, V)
  BY AdminReferenced
<1>3. AdminRbac!Table(m, W, P) \subseteq AdminRbac!Table(m, V, Q)
  BY <1>1, <1>2, AdminTable
<1>4. \A x : /\ AdminRbac!Referenced(x, W) \subseteq AdminRbac!Referenced(x, V)
             /\ AdminRbac!Referenced(x, Q) \subseteq AdminRbac!Referenced(x, P)
  BY AdminReferenced
<1>5. AdminRbac!Faulty(m, W, P) => AdminRbac!Faulty(m, V, Q)
  BY <1>1, <1>4 DEF AdminRbac!Faulty
<1>. QED BY <1>1, <1>3, <1>5

LEMMA AdminFirst ==
    ASSUME NEW m, NEW S, NEW P
    PROVE  /\ AdminRbac!Calls(m) \in Seq(AdminLegit(m, P))
           /\ Range(AdminRbac!Calls(m)) = {List("RoleRequest", Any, None)}
           /\ AdminRbac!Table(m, S, P)
                 \subseteq AdminOwed(m, List("RoleRequest", Any, None), S, P)
           /\ AdminRbac!Faulty(m, S, P)
                 => AdminDoomed(m, List("RoleRequest", Any, None), S, P)
<1>. DEFINE c == List("RoleRequest", Any, None)
<1>1. AdminRbac!Calls(m) = <<c>> /\ c \in AdminLegit(m, P) /\ c.kind = "RoleRequest"
  BY DEF AdminRbac!Calls, AdminRbac!List, List, AdminLegit
<1>. HIDE DEF c
<1>2. AdminRbac!Calls(m) \in Seq(AdminLegit(m, P)) /\ Range(AdminRbac!Calls(m)) = {c}
  BY <1>1 DEF Range
<1>3. AdminFound(m, c, S) = AdminRbac!Asked(m, S)
  BY <1>1 DEF AdminFound
<1>. QED BY <1>2, <1>3, AdminTable DEF AdminRbac!Faulty, AdminOwed, AdminDoomed, c

(* The answers of show admin-rbac. *)
LEMMA AdminAnswer ==
    ASSUME NEW m, NEW P \in SUBSET Universe, NEW W, NEW S, Between(S, W, P),
           NEW call \in AdminLegit(m, P), NEW answer, answer = Answer(call, W),
           NEW read
    PROVE  /\ call.kind \in AdminRbac!Kinds
           /\ AdminRbac!Follow(m, call, answer) \subseteq AdminLegit(m, P)
           /\ AdminRbac!Lines(m, call, answer, read) \subseteq AdminRbac!Table(m, P, S)
           /\ AdminRbac!Broken(m, call, answer) => AdminRbac!Faulty(m, P, S)
           /\ AdminOwed(m, call, S, P) \subseteq
                AdminRbac!Lines(m, call, answer, read)
                \cup UNION {AdminOwed(m, c, S, P) :
                              c \in AdminRbac!Follow(m, call, answer)}
           /\ ~AdminRbac!Broken(m, call, answer) /\ AdminDoomed(m, call, S, P) =>
                \E c \in AdminRbac!Follow(m, call, answer) : AdminDoomed(m, c, S, P)
<1>. DEFINE follow == AdminRbac!Follow(m, call, answer)
            lines == AdminRbac!Lines(m, call, answer, read)
<1>0. S \subseteq W /\ W \subseteq P
  BY DEF Between
<1>1. CASE call = List("RoleRequest", Any, None)
  <2>1. call.kind = "RoleRequest" /\ call.ns = Any /\ call.name = Any
    BY <1>1 DEF List
  <2>2. \A o : o \in answer <=> o \in W /\ o.kind = "RoleRequest"
    BY <2>1, AnswerProperties
  <2>3. lines = {} /\ ~AdminRbac!Broken(m, call, answer) /\ call.kind \in AdminRbac!Kinds
    BY <2>1 DEF AdminRbac!Lines, AdminRbac!Broken, AdminRbac!Kinds
  <2>4. follow = {AdminFetch(x) : x \in AdminRbac!Asked(m, W)}
    <3>. DEFINE Of(rr, y) ==
                  Fetch(AdminRbac!KindOf(y[2]), y[2].ns, y[2].name,
                        [request |-> rr.name, account |-> rr.account,
                         cluster |-> y[1]])
                Pairs(rr) == {k \in rr.clusters : AdminRbac!parseCluster(m, k)} \X rr.refs
                Group(rr) == {Of(rr, y) : y \in Pairs(rr)}
                Requests == {rr \in answer : /\ rr.kind = "RoleRequest"
                                             /\ AdminRbac!shouldParseRoleRequest(m, rr)}
    <3>1. follow = UNION {Group(rr) : rr \in Requests}
      BY DEF AdminRbac!Follow, AdminRbac!Kind, AdminRbac!Fetch, Fetch
    <3>2. ASSUME NEW c \in follow PROVE \E x \in AdminRbac!Asked(m, W) : c = AdminFetch(x)
      <4>. HIDE DEF follow, Group, Requests
      <4>1. PICK rr \in Requests : c \in Group(rr)
        BY <3>1, <3>2
      <4>2. PICK y \in Pairs(rr) : c = Of(rr, y)
        BY <4>1 DEF Group
      <4>. DEFINE x == <<rr, y[1], y[2]>>
      <4>3. /\ y[1] \in rr.clusters /\ AdminRbac!parseCluster(m, y[1])
            /\ y[2] \in rr.refs
        BY <4>2
      <4>4. /\ rr \in W /\ rr.kind = "RoleRequest"
            /\ AdminRbac!shouldParseRoleRequest(m, rr)
        BY <2>2, <4>1 DEF Requests
      <4>5. x \in AdminRbac!Asked(m, W)
        BY <4>3, <4>4, AdminAsked
      <4>6. x[1] = rr /\ x[2] = y[1] /\ x[3] = y[2]
        OBVIOUS
      <4>. HIDE DEF x
      <4>7. c = AdminFetch(x)
        BY <4>2, <4>6 DEF AdminFetch
      <4>. QED BY <4>5, <4>7
    <3>3. ASSUME NEW x \in AdminRbac!Asked(m, W) PROVE AdminFetch(x) \in follow
      <4>. DEFINE y == <<x[2], x[3]>>
      <4>. HIDE DEF follow
      <4>1. <<x[1], x[2], x[3]>> \in AdminRbac!Asked(m, W)
        BY AdminTriples
      <4>2. /\ x[1] \in W /\ x[1].kind = "RoleRequest"
            /\ x[2] \in x[1].clusters /\ x[3] \in x[1].refs
            /\ AdminRbac!parseCluster(m, x[2])
            /\ AdminRbac!shouldParseRoleRequest(m, x[1])
        BY <4>1, AdminAsked
      <4>3. x[1] \in Requests
        BY <2>2, <4>2
      <4>4. y \in Pairs(x[1]) /\ y[1] = x[2] /\ y[2] = x[3]
        BY <4>2
      <4>. HIDE DEF y, Pairs, Requests
      <4>5. AdminFetch(x) \in Group(x[1])
        BY <4>4 DEF AdminFetch
      <4>. HIDE DEF Group
      <4>. QED BY <3>1, <4>3, <4>5
    <3>. HIDE DEF follow
    <3>. QED BY <3>2, <3>3
  <2>. HIDE DEF follow
  <2>5. /\ AdminRbac!Asked(m, S) \subseteq AdminRbac!Asked(m, W)
        /\ AdminRbac!Asked(m, W) \subseteq AdminRbac!Asked(m, P)
    BY <1>0, AdminMonotone
  <2>6. follow \subseteq AdminLegit(m, P)
    BY <2>4, <2>5 DEF AdminLegit
  <2>7. ASSUME NEW x \in AdminFound(m, call, S)
        PROVE  \E c \in follow : x \in AdminFound(m, c, S)
    BY <2>4, <2>5 DEF AdminFound
  <2>8. AdminOwed(m, call, S, P) \subseteq UNION {AdminOwed(m, c, S, P) : c \in follow}
    BY <2>7 DEF AdminOwed
  <2>9. AdminDoomed(m, call, S, P) => \E c \in follow : AdminDoomed(m, c, S, P)
    BY <2>7 DEF AdminDoomed
  <2>. QED BY <2>3, <2>6, <2>8, <2>9 DEF follow
<1>2. CASE \E x \in AdminRbac!Asked(m, P) : call = AdminFetch(x)
  <2>1. PICK x \in AdminRbac!Asked(m, P) : call = AdminFetch(x)
    BY <1>2
  <2>2. /\ call.kind = AdminRbac!KindOf(x[3]) /\ call.ns = x[3].ns
        /\ call.name = x[3].name
        /\ call.use.cluster = x[2] /\ call.use.account = x[1].account
    BY <2>1 DEF AdminFetch, Fetch
  <2>3. call.ns # Any /\ call.name # Any
    <3>1. <<x[1], x[2], x[3]>> \in AdminRbac!Asked(m, P)
      BY AdminTriples
    <3>2. x[1] \in P /\ x[1].kind = "RoleRequest" /\ x[3] \in x[1].refs
      BY <3>1, AdminAsked
    <3>. QED BY <2>2, <3>2, ObjectsAssumption
  <2>4. answer = AdminRbac!Referenced(x, W)
    BY <2>2, <2>3, AnswerProperties DEF AdminRbac!Referenced
  <2>5. call.kind \in {"ConfigMap", "Secret"}
    BY <2>2 DEF AdminRbac!KindOf
  <2>6. call.kind \in AdminRbac!Kinds /\ call.kind # "RoleRequest"
    BY <2>5 DEF AdminRbac!Kinds
  <2>7. follow = {}
    <3>1. \A o \in answer : o.kind # "RoleRequest"
      BY <2>2, <2>4, <2>6 DEF AdminRbac!Referenced
    <3>2. AdminRbac!Kind(answer, "RoleRequest") = {}
      BY <3>1 DEF AdminRbac!Kind
    <3>. QED BY <3>2 DEF AdminRbac!Follow
  <2>8. ASSUME NEW y, call = AdminFetch(y), NEW V
        PROVE  /\ AdminRbac!Referenced(y, V) = AdminRbac!Referenced(x, V)
               /\ AdminLines(y, V) = AdminLines(x, V)
    <3>1. /\ call.kind = AdminRbac!KindOf(y[3]) /\ call.ns = y[3].ns
          /\ call.name = y[3].name
          /\ call.use.cluster = y[2] /\ call.use.account = y[1].account
      BY <2>8 DEF AdminFetch, Fetch
    <3>2. AdminRbac!Referenced(y, V) = AdminRbac!Referenced(x, V)
      BY <2>2, <3>1 DEF AdminRbac!Referenced
    <3>. QED BY <2>2, <3>1, <3>2 DEF AdminLines
  <2>9. lines = AdminLines(x, W)
    BY <2>2, <2>4, <2>6
    DEF AdminRbac!Lines, AdminLines, AdminRbac!parseReferencedResource
  <2>10. lines \subseteq AdminRbac!Table(m, P, S)
    <3>1. AdminLines(x, W) \subseteq AdminLines(x, P)
      BY <1>0, AdminReferenced
    <3>2. AdminLines(x, P) \subseteq AdminRbac!Table(m, P, S)
      BY AdminTable
    <3>. QED BY <2>9, <3>1, <3>2
  <2>11. /\ AdminRbac!Referenced(x, S) \subseteq AdminRbac!Referenced(x, W)
         /\ AdminRbac!Referenced(x, W) \subseteq AdminRbac!Referenced(x, P)
         /\ AdminLines(x, S) \subseteq AdminLines(x, W)
    BY <1>0, AdminReferenced
  <2>12. AdminRbac!Broken(m, call, answer) => AdminRbac!Faulty(m, P, S)
    BY <2>4, <2>11 DEF AdminRbac!Broken, AdminRbac!Faulty
  <2>13. \A y \in AdminFound(m, call, S) : call = AdminFetch(y)
    BY <2>6 DEF AdminFound
  <2>14. AdminOwed(m, call, S, P) \subseteq lines
    BY <2>8, <2>9, <2>11, <2>13 DEF AdminOwed
  <2>15. AdminDoomed(m, call, S, P) => AdminRbac!Broken(m, call, answer)
    BY <2>4, <2>6, <2>8, <2>11, <2>13 DEF AdminDoomed, AdminRbac!Broken
  <2>. QED BY <2>6, <2>7, <2>10, <2>12, <2>14, <2>15
<1>. QED BY <1>1, <1>2 DEF AdminLegit

-----------------------------------------------------------------------------
(* show classifier-labels: the classifiers, and then the reports on them   *)

LabelsClassifiers(kind) == List(kind, Any, "labels")
LabelsReports(m, kind) ==
    List(kind, m.namespace, IF m.warningsOnly THEN "conflict" ELSE "managed")

LabelsLegit(m) ==
    {LabelsReports(m, kind) : kind \in ClassifierLabels!Reports} \cup
    {LabelsClassifiers(kind) : kind \in IF m.warningsOnly THEN {}
                                        ELSE ClassifierLabels!Classifiers}

(* The lines of one report, when the classifiers of S are there and none   *)
(* but those of P.                                                         *)
LabelsOf(m, r, S, P) ==
    IF m.warningsOnly
    THEN {ClassifierLabels!Line(r, key, None) : key \in r.unmanaged}
    ELSE UNION {{ClassifierLabels!Line(r, key, v) :
                   v \in ClassifierLabels!Values(r, key, S, P)} : key \in r.managed}

LabelsOwed(m, call, S, P) ==
    UNION {LabelsOf(m, r, S, P) :
             r \in {r \in ClassifierLabels!Asked(m, S) : r.kind = call.kind}}

(* All classifiers of a kind that stay have been read, and none twice.     *)
LabelsKnown(kind, read, S, P) ==
    /\ \A c \in S : c.kind = kind => c \in read
    /\ \A c \in read : c.kind = kind => c \in P
    /\ \A c, d \in read : c.kind = kind /\ d.kind = kind /\ c.name = d.name => c = d

LabelsReady(m, call, read, S, P) ==
    /\ call.kind \in ClassifierLabels!Reports
    /\ ~m.warningsOnly
    => LabelsKnown(ClassifierLabels!TypeOf(call.kind), read, S, P)

LEMMA LabelsTable ==
    ASSUME NEW m, NEW W, NEW P
    PROVE  ClassifierLabels!Table(m, W, P) =
             UNION {LabelsOf(m, r, W, P) : r \in ClassifierLabels!Asked(m, W)}
<1>1. CASE m.warningsOnly
  BY <1>1 DEF ClassifierLabels!Table, LabelsOf
<1>2. CASE ~m.warningsOnly
  BY <1>2 DEF ClassifierLabels!Table, LabelsOf
<1>. QED BY <1>1, <1>2

LEMMA LabelsMonotone ==
    ASSUME NEW m, NEW W, NEW V, W \subseteq V, NEW P, NEW Q, Q \subseteq P
    PROVE  /\ ClassifierLabels!Asked(m, W) \subseteq ClassifierLabels!Asked(m, V)
           /\ ClassifierLabels!Table(m, W, P) \subseteq ClassifierLabels!Table(m, V, Q)
<1>1. ClassifierLabels!Asked(m, W) \subseteq ClassifierLabels!Asked(m, V)
  BY DEF ClassifierLabels!Asked
<1>2. ASSUME NEW r, NEW key
      PROVE  ClassifierLabels!Values(r, key, W, P) \subseteq ClassifierLabels!Values(r, key, V, Q)
  BY DEF ClassifierLabels!Values, ClassifierLabels!Kind
<1>3. \A r : LabelsOf(m, r, W, P) \subseteq LabelsOf(m, r, V, Q)
  BY <1>2 DEF LabelsOf
<1>. QED BY <1>1, <1>3, LabelsTable

LEMMA LabelsValue ==
    ASSUME NEW r, NEW key, NEW read, NEW S, NEW P,
           LabelsKnown(ClassifierLabels!TypeOf(r.kind), read, S, P)
    PROVE  LET v == ClassifierLabels!Value(read, ClassifierLabels!TypeOf(r.kind),
                                           r.classifier, key)
           IN /\ v \in ClassifierLabels!Values(r, key, P, S)
              /\ ClassifierLabels!Values(r, key, S, P) \subseteq {v}
<1>. DEFINE kind == ClassifierLabels!TypeOf(r.kind)
            of == {c \in read : /\ c.kind = kind /\ c.name = r.classifier
                                /\ key \in DOMAIN c.labels}
            v == ClassifierLabels!Value(read, kind, r.classifier, key)
<1>1. v = IF of = {} THEN None ELSE (CHOOSE c \in of : TRUE).labels[key]
  BY DEF ClassifierLabels!Value
<1>2. /\ \A c \in S : c.kind = kind => c \in read
      /\ \A c \in read : c.kind = kind => c \in P
      /\ \A c, d \in of : c = d
  BY DEF LabelsKnown
<1>3. \A c : ClassifierLabels!Declares(c, r, key) <=>
               c.kind = kind /\ c.name = r.classifier /\ key \in DOMAIN c.labels
  BY DEF ClassifierLabels!Declares
<1>4. \A V, Q, u : u \in ClassifierLabels!Values(r, key, V, Q) <=>
         \/ \E c \in V : ClassifierLabels!Declares(c, r, key) /\ u = c.labels[key]
         \/ u = None /\ \A c \in Q : ~ClassifierLabels!Declares(c, r, key)
  BY <1>3 DEF ClassifierLabels!Values, ClassifierLabels!Kind
<1>5. \A c : c \in of <=> c \in read /\ ClassifierLabels!Declares(c, r, key)
  BY <1>3
<1>6. \A c \in S : ClassifierLabels!Declares(c, r, key) => c \in of
  BY <1>2, <1>3, <1>5
<1>7. \A c \in of : c \in P
  BY <1>2, <1>3, <1>5
<1>. HIDE DEF of, v, kind
<1>8. CASE of = {}
  BY <1>1, <1>4, <1>5, <1>6, <1>7, <1>8 DEF v, kind
<1>9. CASE of # {}
  <2>1. PICK c \in of : v = c.labels[key]
    BY <1>1, <1>9
  <2>2. v \in ClassifierLabels!Values(r, key, P, S)
    BY <1>4, <1>5, <1>7, <2>1
  <2>3. ASSUME NEW u \in ClassifierLabels!Values(r, key, S, P) PROVE u = v
    <3>1. ~(\A d \in P : ~ClassifierLabels!Declares(d, r, key))
      BY <1>5, <1>7, <2>1
    <3>2. PICK d \in S : ClassifierLabels!Declares(d, r, key) /\ u = d.labels[key]
      BY <1>4, <2>3, <3>1
    <3>3. d = c
      BY <1>2, <1>6, <2>1, <3>2
    <3>. QED BY <2>1, <3>2, <3>3
  <2>. QED BY <2>2, <2>3 DEF v, kind
<1>. QED BY <1>8, <1>9

LEMMA LabelsCall ==
    ASSUME NEW m, NEW call \in LabelsLegit(m)
    PROVE  /\ call.kind \in ClassifierLabels!Kinds /\ call.name = Any
           /\ \/ /\ call.kind \in ClassifierLabels!Reports
                 /\ call.kind \notin ClassifierLabels!Classifiers
                 /\ call.ns = m.namespace
              \/ /\ call.kind \in ClassifierLabels!Classifiers
                 /\ call.kind \notin ClassifierLabels!Reports
                 /\ call.ns = Any
BY DEF LabelsLegit, LabelsReports, LabelsClassifiers, List, ClassifierLabels!Kinds,
       ClassifierLabels!Reports, ClassifierLabels!Classifiers

(* The answers of show classifier-labels. *)
LEMMA LabelsAnswer ==
    ASSUME NEW m, NEW P, NEW W, NEW S, Between(S, W, P), NEW call \in LabelsLegit(m),
           NEW answer, answer = Answer(call, W),
           NEW read, LabelsReady(m, call, read, S, P)
    PROVE  /\ ClassifierLabels!Lines(m, call, answer, read)
                 \subseteq ClassifierLabels!Table(m, P, S)
           /\ LabelsOwed(m, call, S, P)
                 \subseteq ClassifierLabels!Lines(m, call, answer, read)
<1>. DEFINE lines == ClassifierLabels!Lines(m, call, answer, read)
<1>0. S \subseteq W /\ W \subseteq P
  BY DEF Between
<1>1. CASE call.kind \in ClassifierLabels!Classifiers
  <2>1. lines = {}
    BY <1>1 DEF ClassifierLabels!Lines
  <2>2. call.kind \notin ClassifierLabels!Reports
    BY <1>1, LabelsCall
  <2>3. LabelsOwed(m, call, S, P) = {}
    BY <2>2 DEF LabelsOwed, ClassifierLabels!Asked
  <2>. QED BY <2>1, <2>3
<1>2. CASE call.kind \notin ClassifierLabels!Classifiers
  <2>1. /\ call.kind \in ClassifierLabels!Reports /\ call.ns = m.namespace
        /\ call.name = Any
    BY <1>2, LabelsCall
  <2>2. \A o : o \in answer <=> /\ o \in W /\ o.kind = call.kind
                                /\ m.namespace \in {Any, o.ns}
    BY <2>1, AnswerProperties
  <2>3. \A o, V : o \in ClassifierLabels!Asked(m, V) <=>
           /\ o \in V /\ o.kind \in ClassifierLabels!Reports
           /\ m.namespace \in {Any, o.ns}
           /\ ClassifierLabels!matchesCluster(m, o.cluster)
    BY DEF ClassifierLabels!Asked, ClassifierLabels!matchesCluster,
           ClassifierLabels!Selects
  <2>4. lines = UNION {ClassifierLabels!Rows(m, r, read) :
                         r \in {r \in answer :
                                  ClassifierLabels!matchesCluster(m, r.cluster)}}
    BY <1>2 DEF ClassifierLabels!Lines
  <2>5. ASSUME NEW r, r.kind = call.kind
        PROVE  /\ ClassifierLabels!Rows(m, r, read) \subseteq LabelsOf(m, r, P, S)
               /\ LabelsOf(m, r, S, P) \subseteq ClassifierLabels!Rows(m, r, read)
    <3>1. CASE m.warningsOnly
      BY <3>1 DEF ClassifierLabels!Rows, ClassifierLabels!appendConflictRows, LabelsOf
    <3>2. CASE ~m.warningsOnly
      <4>1. LabelsKnown(ClassifierLabels!TypeOf(r.kind), read, S, P)
        BY <2>1, <2>5, <3>2 DEF LabelsReady
      <4>. DEFINE value(key) == ClassifierLabels!Value(read,
                                  ClassifierLabels!TypeOf(r.kind), r.classifier, key)
      <4>2. \A key : /\ value(key) \in ClassifierLabels!Values(r, key, P, S)
                     /\ ClassifierLabels!Values(r, key, S, P) \subseteq {value(key)}
        BY <4>1, LabelsValue
      <4>3. ClassifierLabels!Rows(m, r, read) =
              {ClassifierLabels!Line(r, key, value(key)) : key \in r.managed}
        BY <3>2 DEF ClassifierLabels!Rows
      <4>4. \A V, Q : LabelsOf(m, r, V, Q) =
              UNION {{ClassifierLabels!Line(r, key, v) :
                        v \in ClassifierLabels!Values(r, key, V, Q)} : key \in r.managed}
        BY <3>2 DEF LabelsOf
      <4>. HIDE DEF value
      <4>. QED BY <4>2, <4>3, <4>4
    <3>. QED BY <3>1, <3>2
  <2>6. lines \subseteq ClassifierLabels!Table(m, P, S)
    BY <1>0, <2>1, <2>2, <2>3, <2>4, <2>5, LabelsTable
  <2>7. LabelsOwed(m, call, S, P) \subseteq lines
    BY <1>0, <2>2, <2>3, <2>4, <2>5 DEF LabelsOwed
  <2>. QED BY <2>6, <2>7
<1>. QED BY <1>1, <1>2

(* What has been read while the calls of todo are left. *)
LabelsStage(m, todo, read, S, P) ==
    LET c == LabelsClassifiers("Classifier")
        d == LabelsClassifiers("ManagementClusterClassifier")
        r == LabelsReports(m, "ClassifierReport")
        q == LabelsReports(m, "ManagementClusterClassifierReport")
    IN \/ todo = <<c, d, r, q>> /\ read = {}
       \/ /\ todo = <<d, r, q>>
          /\ LabelsKnown("Classifier", read, S, P)
          /\ \A o \in read : o.kind # "ManagementClusterClassifier"
       \/ /\ todo \in {<<r, q>>, <<q>>, <<>>}
          /\ LabelsKnown("Classifier", read, S, P)
          /\ LabelsKnown("ManagementClusterClassifier", read, S, P)

LEMMA LabelsFirst ==
    ASSUME NEW m
    PROVE  /\ ClassifierLabels!Calls(m) \in Seq(LabelsLegit(m))
           /\ Range(ClassifierLabels!Calls(m)) = LabelsLegit(m)
           /\ ~m.warningsOnly =>
                \A S, P : LabelsStage(m, ClassifierLabels!Calls(m), {}, S, P)
<1>. DEFINE c == LabelsClassifiers("Classifier")
            d == LabelsClassifiers("ManagementClusterClassifier")
            r == LabelsReports(m, "ClassifierReport")
            q == LabelsReports(m, "ManagementClusterClassifierReport")
<1>1. CASE m.warningsOnly
  <2>1. ClassifierLabels!Calls(m) = <<r, q>>
    BY <1>1 DEF ClassifierLabels!Calls, ClassifierLabels!displayConflicts,
                ClassifierLabels!List, LabelsReports, List
  <2>2. LabelsLegit(m) = {r, q}
    BY <1>1 DEF LabelsLegit, ClassifierLabels!Reports
  <2>. HIDE DEF r, q
  <2>. QED BY <1>1, <2>1, <2>2 DEF Range
<1>2. CASE ~m.warningsOnly
  <2>1. ClassifierLabels!Calls(m) = <<c, d>> \o <<r, q>>
    BY <1>2 DEF ClassifierLabels!Calls, ClassifierLabels!displayManagedLabels,
                ClassifierLabels!List, LabelsClassifiers, LabelsReports, List
  <2>2. LabelsLegit(m) = {c, d, r, q}
    BY <1>2 DEF LabelsLegit, ClassifierLabels!Reports, ClassifierLabels!Classifiers
  <2>. HIDE DEF c, d, r, q
  <2>3. <<c, d>> \o <<r, q>> = <<c, d, r, q>>
    <3>. DEFINE C == {c, d, r, q}
                s == <<c, d>>
                t == <<r, q>>
                u == <<c, d, r, q>>
    <3>1. /\ s \in Seq(C) /\ Len(s) = 2 /\ s[1] = c /\ s[2] = d
          /\ t \in Seq(C) /\ Len(t) = 2 /\ t[1] = r /\ t[2] = q
          /\ u \in Seq(C) /\ Len(u) = 4
          /\ u[1] = c /\ u[2] = d /\ u[3] = r /\ u[4] = q
      OBVIOUS
    <3>. HIDE DEF C, s, t, u
    <3>. DEFINE v == s \o t
    <3>2. /\ v \in Seq(C) /\ Len(v) = Len(s) + Len(t)
          /\ \A i \in 1 .. Len(s) + Len(t) :
                v[i] = IF i <= Len(s) THEN s[i] ELSE t[i - Len(s)]
      BY <3>1, ConcatProperties
    <3>. HIDE DEF v
    <3>3. Len(v) = 4 /\ v[1] = s[1] /\ v[2] = s[2] /\ v[3] = t[3 - 2] /\ v[4] = t[4 - 2]
      BY <3>1, <3>2
    <3>4. v[1] = c /\ v[2] = d /\ v[3] = r /\ v[4] = q
      BY <3>1, <3>3
    <3>5. \A i \in 1 .. 4 : i = 1 \/ i = 2 \/ i = 3 \/ i = 4
      OBVIOUS
    <3>6. \A i \in 1 .. Len(v) : v[i] = u[i]
      BY <3>1, <3>3, <3>4, <3>5
    <3>7. v = u
      BY <3>1, <3>2, <3>3, <3>6, SeqEqual
    <3>. QED BY <3>7 DEF s, t, u, v
  <2>4. \A S, P : LabelsStage(m, <<c, d, r, q>>, {}, S, P)
    BY DEF LabelsStage, c, d, r, q
  <2>5. /\ <<c, d, r, q>> \in Seq({c, d, r, q})
        /\ Range(<<c, d, r, q>>) = {c, d, r, q}
    BY DEF Range
  <2>. QED BY <2>1, <2>2, <2>3, <2>4, <2>5
<1>. QED BY <1>1, <1>2

LEMMA LabelsStageMonotone ==
    ASSUME NEW m, NEW todo, NEW read, NEW S, NEW P, NEW R, NEW Q,
           LabelsStage(m, todo, read, S, P), R \subseteq S, P \subseteq Q
    PROVE  LabelsStage(m, todo, read, R, Q)
<1>1. \A kind : LabelsKnown(kind, read, S, P) => LabelsKnown(kind, read, R, Q)
  BY DEF LabelsKnown
<1>. QED BY <1>1 DEF LabelsStage

(* A classifier is in no namespace, so that a name stands for one. *)
LEMMA LabelsRead ==
    ASSUME NEW P \in SUBSET Universe, NEW W, NEW S, Between(S, W, P),
           \A o, q \in W : Id(o) = Id(q) => o = q,
           NEW kind \in ClassifierLabels!Classifiers, NEW read,
           \A o \in read : o.kind # kind
    PROVE  LET kept == {o \in Answer(LabelsClassifiers(kind), W) :
                          o.kind \in ClassifierLabels!Classifiers}
           IN /\ \A o : o \in kept <=> o \in W /\ o.kind = kind
              /\ LabelsKnown(kind, read \cup kept, S, P)
              /\ \A other : other # kind /\ LabelsKnown(other, read, S, P) =>
                              LabelsKnown(other, read \cup kept, S, P)
<1>. DEFINE call == LabelsClassifiers(kind)
            kept == {o \in Answer(call, W) : o.kind \in ClassifierLabels!Classifiers}
<1>1. call.kind = kind /\ call.ns = Any /\ call.name = Any
  BY DEF LabelsClassifiers, List
<1>2. \A o : o \in kept <=> o \in W /\ o.kind = kind
  BY <1>1, AnswerProperties
<1>3. S \subseteq W /\ W \subseteq P /\ W \subseteq Universe
  BY DEF Between
<1>. HIDE DEF kept, call
<1>4. ASSUME NEW o \in kept, NEW q \in kept, o.name = q.name PROVE o = q
  <2>1. /\ o \in W /\ q \in W /\ o.kind = kind /\ q.kind = kind
        /\ o.ns = None /\ q.ns = None
    BY <1>2, <1>3, ObjectsAssumption
  <2>2. Id(o) = Id(q)
    BY <1>4, <2>1 DEF Id
  <2>. QED BY <2>1, <2>2
<1>5. LabelsKnown(kind, read \cup kept, S, P)
  BY <1>2, <1>3, <1>4 DEF LabelsKnown
<1>6. ASSUME NEW other, other # kind, LabelsKnown(other, read, S, P)
      PROVE  LabelsKnown(other, read \cup kept, S, P)
  BY <1>2, <1>6 DEF LabelsKnown
<1>. QED BY <1>2, <1>5, <1>6 DEF kept, call

(* A list of reports leaves what was read as it is. *)
LEMMA LabelsUnread ==
    ASSUME NEW m, NEW kind \in ClassifierLabels!Reports, NEW W
    PROVE  {o \in Answer(LabelsReports(m, kind), W) :
              o.kind \in ClassifierLabels!Classifiers} = {}
<1>1. LabelsReports(m, kind).kind = kind /\ kind \notin ClassifierLabels!Classifiers
  BY DEF LabelsReports, List, ClassifierLabels!Reports, ClassifierLabels!Classifiers
<1>. QED BY <1>1, AnswerProperties

LEMMA LabelsStageStep ==
    ASSUME NEW m, NEW P \in SUBSET Universe, NEW W, NEW S, Between(S, W, P),
           \A o, q \in W : Id(o) = Id(q) => o = q,
           NEW todo, todo # <<>>, NEW read, LabelsStage(m, todo, read, S, P)
    PROVE  LET kept == {o \in Answer(Head(todo), W) :
                          o.kind \in ClassifierLabels!Classifiers}
           IN /\ LabelsReady(m, Head(todo), read, S, P)
              /\ LabelsStage(m, Tail(todo), read \cup kept, S, P)
<1>. DEFINE c == LabelsClassifiers("Classifier")
            d == LabelsClassifiers("ManagementClusterClassifier")
            r == LabelsReports(m, "ClassifierReport")
            q == LabelsReports(m, "ManagementClusterClassifierReport")
            kept(call) == {o \in Answer(call, W) :
                             o.kind \in ClassifierLabels!Classifiers}
<1>1. /\ "Classifier" \in ClassifierLabels!Classifiers
      /\ "ManagementClusterClassifier" \in ClassifierLabels!Classifiers
      /\ "ClassifierReport" \in ClassifierLabels!Reports
      /\ "ManagementClusterClassifierReport" \in ClassifierLabels!Reports
      /\ "Classifier" \notin ClassifierLabels!Reports
      /\ "ManagementClusterClassifier" \notin ClassifierLabels!Reports
  BY DEF ClassifierLabels!Classifiers, ClassifierLabels!Reports
<1>2. /\ c.kind = "Classifier" /\ d.kind = "ManagementClusterClassifier"
      /\ r.kind = "ClassifierReport" /\ q.kind = "ManagementClusterClassifierReport"
  BY DEF LabelsClassifiers, LabelsReports, List
<1>3. kept(r) = {} /\ kept(q) = {}
  BY <1>1, LabelsUnread
<1>4. CASE todo = <<c, d, r, q>> /\ read = {}
  <2>0. \A o \in read : o.kind # "Classifier"
    BY <1>4
  <2>1. /\ \A o : o \in kept(c) <=> o \in W /\ o.kind = "Classifier"
        /\ LabelsKnown("Classifier", read \cup kept(c), S, P)
    BY <1>1, <2>0, LabelsRead
  <2>. HIDE DEF c, d, r, q, kept
  <2>2. Head(todo) = c /\ Tail(todo) = <<d, r, q>>
    BY <1>4
  <2>3. LabelsReady(m, Head(todo), read, S, P)
    BY <1>1, <1>2, <2>2 DEF LabelsReady
  <2>4. LabelsStage(m, Tail(todo), read \cup kept(c), S, P)
    BY <1>4, <2>1, <2>2 DEF LabelsStage, c, d, r, q
  <2>. QED BY <2>2, <2>3, <2>4 DEF kept
<1>5. CASE /\ todo = <<d, r, q>>
           /\ LabelsKnown("Classifier", read, S, P)
           /\ \A o \in read : o.kind # "ManagementClusterClassifier"
  <2>1. /\ LabelsKnown("ManagementClusterClassifier", read \cup kept(d), S, P)
        /\ LabelsKnown("Classifier", read \cup kept(d), S, P)
    BY <1>1, <1>5, LabelsRead
  <2>. HIDE DEF c, d, r, q, kept
  <2>2. Head(todo) = d /\ Tail(todo) = <<r, q>>
    BY <1>5
  <2>3. LabelsReady(m, Head(todo), read, S, P)
    BY <1>1, <1>2, <2>2 DEF LabelsReady
  <2>4. LabelsStage(m, Tail(todo), read \cup kept(d), S, P)
    BY <2>1, <2>2 DEF LabelsStage, c, d, r, q
  <2>. QED BY <2>2, <2>3, <2>4 DEF kept
<1>6. CASE /\ todo \in {<<r, q>>, <<q>>, <<>>}
           /\ LabelsKnown("Classifier", read, S, P)
           /\ LabelsKnown("ManagementClusterClassifier", read, S, P)
  <2>. HIDE DEF c, d, r, q, kept
  <2>1. Head(todo) \in {r, q} /\ Tail(todo) \in {<<q>>, <<>>}
    <3>1. CASE todo = <<r, q>>
      BY <3>1
    <3>2. CASE todo = <<q>>
      BY <3>2
    <3>. QED BY <1>6, <3>1, <3>2
  <2>2. read \cup kept(Head(todo)) = read
    BY <1>3, <2>1
  <2>3. LabelsReady(m, Head(todo), read, S, P)
    BY <1>2, <1>6, <2>1 DEF LabelsReady, ClassifierLabels!TypeOf
  <2>4. LabelsStage(m, Tail(todo), read, S, P)
    BY <1>6, <2>1 DEF LabelsStage, c, d, r, q
  <2>. QED BY <2>2, <2>3, <2>4 DEF kept
<1>. QED BY <1>4, <1>5, <1>6 DEF LabelsStage

-----------------------------------------------------------------------------
(* Every subcommand                                                        *)

Legit(m, P) ==
    CASE m.sub = "addons" -> AddOnsLegit(m, P)
      [] m.sub = "dryrun" -> DryRunLegit(m, P)
      [] m.sub = "resources" -> ResourcesLegit(m)
      [] m.sub = "usage" -> UsageLegit(m)
      [] m.sub = "admin-rbac" -> AdminLegit(m, P)
      [] m.sub = "classifier-labels" -> LabelsLegit(m)

Owed(m, call, S, P) ==
    CASE m.sub = "addons" -> AddOnsOwed(m, call, S, P)
      [] m.sub = "dryrun" -> DryRunOwed(m, call, S, P)
      [] m.sub = "resources" -> Resources!Table(m, S, P)
      [] m.sub = "usage" -> UsageOwed(m, call, S, P)
      [] m.sub = "admin-rbac" -> AdminOwed(m, call, S, P)
      [] m.sub = "classifier-labels" -> LabelsOwed(m, call, S, P)

Doomed(m, call, S, P) ==
    CASE m.sub = "addons" -> AddOnsDoomed(m, call, S, P)
      [] m.sub = "dryrun" -> DryRunDoomed(m, call, S, P)
      [] m.sub = "resources" -> Resources!Faulty(m, S, P)
      [] m.sub = "admin-rbac" -> AdminDoomed(m, call, S, P)
      [] OTHER -> FALSE

Ready(m, call, read, S, P) ==
    m.sub = "classifier-labels" => LabelsReady(m, call, read, S, P)

(* More of the table with more objects, less with more that may be there.  *)
LEMMA Monotone ==
    ASSUME NEW m, m.sub \in Subcommands,
           NEW W, NEW V, W \subseteq V, NEW P, NEW Q, Q \subseteq P
    PROVE  /\ Table(m, W, P) \subseteq Table(m, V, Q)
           /\ Faulty(m, W, P) => Faulty(m, V, Q)
           /\ Legit(m, W) \subseteq Legit(m, V)
<1>1. CASE m.sub = "addons"
  <2>1. AddOnsLegit(m, W) \subseteq AddOnsLegit(m, V)
    BY DEF AddOnsLegit
  <2>. QED BY <1>1, <2>1, AddOnsMonotone DEF Table, Faulty, Legit
<1>2. CASE m.sub = "dryrun"
  <2>1. DryRunLegit(m, W) \subseteq DryRunLegit(m, V)
    BY DEF DryRunLegit
  <2>. QED BY <1>2, <2>1, DryRunMonotone DEF Table, Faulty, Legit
<1>3. CASE m.sub = "resources"
  BY <1>3, ResourcesMonotone DEF Table, Faulty, Legit
<1>4. CASE m.sub = "usage"
  BY <1>4, UsageMonotone DEF Table, Faulty, Legit, Usage!Faulty
<1>5. CASE m.sub = "admin-rbac"
  <2>1. AdminRbac!Asked(m, W) \subseteq AdminRbac!Asked(m, V)
    BY AdminMonotone
  <2>2. AdminLegit(m, W) \subseteq AdminLegit(m, V)
    BY <2>1 DEF AdminLegit
  <2>. QED BY <1>5, <2>2, AdminMonotone DEF Table, Faulty, Legit
<1>6. CASE m.sub = "classifier-labels"
  BY <1>6, LabelsMonotone DEF Table, Faulty, Legit
<1>. QED BY <1>1, <1>2, <1>3, <1>4, <1>5, <1>6 DEF Subcommands

(* The first calls owe the whole table. *)
LEMMA First ==
    ASSUME NEW m, m.sub \in Subcommands, ~Refused(m), NEW S \in SUBSET Universe, NEW P
    PROVE  /\ Calls(m) \in Seq(Legit(m, P))
           /\ Table(m, S, P) \subseteq UNION {Owed(m, c, S, P) : c \in Range(Calls(m))}
           /\ Faulty(m, S, P) => \E c \in Range(Calls(m)) : Doomed(m, c, S, P)
<1>1. CASE m.sub = "addons"
  BY <1>1, AddOnsFirst DEF Calls, Legit, Table, Owed, Faulty, Doomed
<1>2. CASE m.sub = "dryrun"
  BY <1>2, DryRunFirst DEF Calls, Legit, Table, Owed, Faulty, Doomed
<1>3. CASE m.sub = "resources"
  <2>1. Range(Resources!Calls(m)) # {}
    BY ResourcesFirst DEF ResourcesLegit
  <2>. QED BY <1>3, <2>1, ResourcesFirst DEF Calls, Legit, Table, Owed, Faulty, Doomed
<1>4. CASE m.sub = "usage"
  <2>1. ~Usage!Refused(m)
    BY <1>4 DEF Refused
  <2>2. Usage!Table(m, S, P) \subseteq UNION {UsageOwed(m, c, S, P) : c \in UsageLegit(m)}
    BY <2>1, UsageTable DEF UsageOwed
  <2>. QED BY <1>4, <2>1, <2>2, UsageFirst
           DEF Calls, Legit, Table, Owed, Faulty, Doomed, Usage!Faulty
<1>5. CASE m.sub = "admin-rbac"
  BY <1>5, AdminFirst DEF Calls, Legit, Table, Owed, Faulty, Doomed
<1>6. CASE m.sub = "classifier-labels"
  <2>1. ASSUME NEW r \in ClassifierLabels!Asked(m, S)
        PROVE  \E c \in LabelsLegit(m) : c.kind = r.kind
    <3>1. r.kind \in ClassifierLabels!Reports
      BY <2>1 DEF ClassifierLabels!Asked
    <3>2. LabelsReports(m, r.kind) \in LabelsLegit(m) /\ LabelsReports(m, r.kind).kind = r.kind
      BY <3>1 DEF LabelsLegit, LabelsReports, List
    <3>. QED BY <3>2
  <2>2. ClassifierLabels!Table(m, S, P)
          \subseteq UNION {LabelsOwed(m, c, S, P) : c \in LabelsLegit(m)}
    BY <2>1, LabelsTable DEF LabelsOwed
  <2>. QED BY <1>6, <2>2, LabelsFirst DEF Calls, Legit, Table, Owed, Faulty, Doomed
<1>. QED BY <1>1, <1>2, <1>3, <1>4, <1>5, <1>6 DEF Subcommands

(* A call that is answered hands on what it owes. *)
LEMMA Answered ==
    ASSUME NEW m, m.sub \in Subcommands, ~Refused(m), NEW P \in SUBSET Universe,
           NEW W, NEW S, Between(S, W, P), Lawful(m, W),
           NEW call \in Legit(m, P), NEW read, Ready(m, call, read, S, P),
           NEW answer, answer = Answer(call, W)
    PROVE  /\ call.kind \in Kinds(m)
           /\ Follow(m, call, answer) \subseteq Legit(m, P)
           /\ ~Broken(m, call, answer) \/ Streams(m) =>
                Lines(m, call, answer, read) \subseteq Table(m, P, S)
           /\ Broken(m, call, answer) => Faulty(m, P, S)
           /\ ~Broken(m, call, answer) =>
                Owed(m, call, S, P) \subseteq
                  Lines(m, call, answer, read)
                  \cup UNION {Owed(m, c, S, P) : c \in Follow(m, call, answer)}
           /\ ~Broken(m, call, answer) /\ Doomed(m, call, S, P) =>
                \E c \in Follow(m, call, answer) : Doomed(m, c, S, P)
<1>1. CASE m.sub = "addons"
  <2>1. call.kind \in AddOns!Kinds /\ call \in AddOnsLegit(m, P)
    BY <1>1 DEF Legit, AddOnsLegit, List, AddOns!Kinds
  <2>2. \A o \in W : o.kind # "Namespace" =>
           \E n \in W : n.kind = "Namespace" /\ n.name = o.ns
    BY <1>1 DEF Lawful, Kinds, AddOns!Kinds
  <2>. QED BY <1>1, <2>1, <2>2, AddOnsAnswer
           DEF Kinds, Follow, Lines, Broken, Table, Faulty, Owed, Doomed, Legit, Streams
<1>2. CASE m.sub = "dryrun"
  <2>1. call.kind \in DryRun!Kinds /\ call \in DryRunLegit(m, P)
    BY <1>2 DEF Legit, DryRunLegit, List, DryRun!Kinds
  <2>2. \A o \in W : o.kind # "Namespace" =>
           \E n \in W : n.kind = "Namespace" /\ n.name = o.ns
    BY <1>2 DEF Lawful, Kinds, DryRun!Kinds
  <2>. QED BY <1>2, <2>1, <2>2, DryRunAnswer
           DEF Kinds, Follow, Lines, Broken, Table, Faulty, Owed, Doomed, Legit
<1>3. CASE m.sub = "resources"
  <2>1. call.kind \in Resources!Kinds /\ call \in ResourcesLegit(m)
    BY <1>3 DEF Legit, ResourcesLegit, List, Resources!Kinds
  <2>. QED BY <1>3, <2>1, ResourcesAnswer
           DEF Kinds, Follow, Lines, Broken, Table, Faulty, Owed, Doomed
<1>4. CASE m.sub = "usage"
  <2>1. call.kind \in Usage!Kinds /\ call \in UsageLegit(m) /\ ~Usage!Refused(m)
    BY <1>4, UsageCall DEF Legit, Refused
  <2>. QED BY <1>4, <2>1, UsageAnswer
           DEF Kinds, Follow, Lines, Broken, Table, Faulty, Owed, Doomed
<1>5. CASE m.sub = "admin-rbac"
  <2>1. call \in AdminLegit(m, P)
    BY <1>5 DEF Legit
  <2>. QED BY <1>5, <2>1, AdminAnswer
           DEF Kinds, Follow, Lines, Broken, Table, Faulty, Owed, Doomed, Legit
<1>6. CASE m.sub = "classifier-labels"
  <2>1. /\ call.kind \in ClassifierLabels!Kinds /\ call \in LabelsLegit(m)
        /\ LabelsReady(m, call, read, S, P)
    BY <1>6, LabelsCall DEF Legit, Ready
  <2>. QED BY <1>6, <2>1, LabelsAnswer
           DEF Kinds, Follow, Lines, Broken, Table, Faulty, Owed, Doomed
<1>. QED BY <1>1, <1>2, <1>3, <1>4, <1>5, <1>6 DEF Subcommands

-----------------------------------------------------------------------------
(* The inductive invariant                                                 *)

Pending == proc.more \cup Range(proc.todo)

Shape ==
    /\ proc = [at |-> proc.at, cmd |-> proc.cmd, todo |-> proc.todo,
               more |-> proc.more, read |-> proc.read, lines |-> proc.lines]
    /\ proc.at \in {"calls", "ok", "failed"} /\ proc.cmd \in Commands
    /\ fault \in BOOLEAN
    /\ Between(stayed, world, seen) /\ seen \subseteq Relevant(proc.cmd)
    /\ proc.todo \in Seq(Legit(proc.cmd, seen))
    /\ proc.more \subseteq Legit(proc.cmd, seen)
    /\ proc.read \subseteq seen
    /\ Running => ~Refused(proc.cmd) /\ Lawful(proc.cmd, world)
    /\ ~Running => Pending = {}

(* The lists of classifiers come before those of reports. *)
InStage ==
    Running /\ proc.cmd.sub = "classifier-labels" /\ ~proc.cmd.warningsOnly =>
        proc.more = {} /\ LabelsStage(proc.cmd, proc.todo, proc.read, stayed, seen)

(* What the table lacks, the pending calls owe, and what ought to end the  *)
(* command dooms one of them, for whatever objects will have stayed in the *)
(* end and whatever others will have been there.                           *)
OwesFor(S, P) ==
    LET m == proc.cmd
    IN /\ Table(m, S, P) \subseteq
            proc.lines \cup UNION {Owed(m, c, S, P) : c \in Pending}
       /\ Faulty(m, S, P) => \E c \in Pending : Doomed(m, c, S, P)

Owes ==
    proc.at # "failed" =>
        \A S \in SUBSET stayed, P \in SUBSET Relevant(proc.cmd) :
            seen \subseteq P => OwesFor(S, P)

Justified ==
    proc.at = "failed" /\ ~fault => Faulty(proc.cmd, seen, stayed)

Inv == Shape /\ InStage /\ Owes /\ Sound /\ Justified

LEMMA Parts ==
    ASSUME NEW T, NEW s \in Seq(T), s # <<>>
    PROVE  /\ Head(s) \in T /\ Tail(s) \in Seq(T)
           /\ Range(s) = {Head(s)} \cup Range(Tail(s))
<1>1. /\ Head(s) \in T /\ Tail(s) \in Seq(T) /\ Len(s) \in Nat /\ Len(s) # 0
      /\ Len(Tail(s)) = Len(s) - 1
      /\ \A i \in 1 .. Len(Tail(s)) : Tail(s)[i] = s[i+1]
  BY HeadTailProperties, EmptySeq
<1>2. Head(s) = s[1] /\ DOMAIN s = 1 .. Len(s) /\ DOMAIN Tail(s) = 1 .. Len(Tail(s))
  BY <1>1
<1>3. ASSUME NEW i \in 1 .. Len(s) PROVE s[i] \in {Head(s)} \cup Range(Tail(s))
  <2>1. CASE i = 1
    BY <1>2, <2>1
  <2>2. CASE i # 1
    <3>1. i - 1 \in 1 .. Len(Tail(s)) /\ Tail(s)[i - 1] = s[i]
      BY <1>1, <2>2
    <3>. QED BY <1>2, <3>1 DEF Range
  <2>. QED BY <2>1, <2>2
<1>4. ASSUME NEW i \in 1 .. Len(Tail(s)) PROVE Tail(s)[i] \in Range(s)
  <2>1. i + 1 \in 1 .. Len(s) /\ Tail(s)[i] = s[i + 1]
    BY <1>1
  <2>. QED BY <1>2, <2>1 DEF Range
<1>5. Head(s) \in Range(s)
  BY <1>1, <1>2 DEF Range
<1>. QED BY <1>1, <1>2, <1>3, <1>4, <1>5 DEF Range

LEMMA InitInv == Init => Inv
<1>. SUFFICES ASSUME Init PROVE Inv
  OBVIOUS
<1>1. PICK m \in Commands :
        /\ world \in {W \in SUBSET Relevant(m) : Lawful(m, W)}
        /\ proc = [at |-> IF Refused(m) THEN "failed" ELSE "calls", cmd |-> m,
                   todo |-> IF Refused(m) THEN <<>> ELSE Calls(m),
                   more |-> {}, read |-> {}, lines |-> {}]
  BY DEF Init
<1>2. stayed = world /\ seen = world /\ fault = FALSE
  BY DEF Init
<1>3. m.sub \in Subcommands
  BY CommandsAssumption
<1>4. world \in SUBSET Universe /\ Between(stayed, world, seen)
  BY <1>1, <1>2 DEF Relevant, Between
<1>5. Range(<<>>) = {}
  BY DEF Range
<1>6. CASE Refused(m)
  <2>1. proc = [at |-> "failed", cmd |-> m, todo |-> <<>>, more |-> {},
                read |-> {}, lines |-> {}]
    BY <1>1, <1>6
  <2>2. /\ proc.at = "failed" /\ proc.cmd = m /\ proc.todo = <<>> /\ proc.more = {}
        /\ proc.read = {} /\ proc.lines = {}
    BY <2>1
  <2>3. Pending = {} /\ ~Running
    BY <1>5, <2>2 DEF Pending, Running
  <2>4. <<>> \in Seq(Legit(m, seen))
    OBVIOUS
  <2>5. Shape
    BY <1>1, <1>2, <1>4, <2>1, <2>2, <2>3, <2>4 DEF Shape
  <2>6. Faulty(m, seen, stayed)
    BY <1>6 DEF Refused, Faulty, Usage!Faulty
  <2>. QED BY <2>2, <2>3, <2>5, <2>6 DEF Inv, InStage, Owes, Sound, Justified
<1>7. CASE ~Refused(m)
  <2>1. proc = [at |-> "calls", cmd |-> m, todo |-> Calls(m), more |-> {},
                read |-> {}, lines |-> {}]
    BY <1>1, <1>7
  <2>2. /\ proc.at = "calls" /\ proc.cmd = m /\ proc.todo = Calls(m)
        /\ proc.more = {} /\ proc.read = {} /\ proc.lines = {}
    BY <2>1
  <2>3. Pending = Range(Calls(m)) /\ Running
    BY <2>2 DEF Pending, Running
  <2>4. Calls(m) \in Seq(Legit(m, seen))
    BY <1>3, <1>4, <1>7, First
  <2>5. Shape
    BY <1>1, <1>2, <1>4, <1>7, <2>1, <2>2, <2>3, <2>4 DEF Shape
  <2>6. ASSUME NEW S \in SUBSET stayed, NEW P PROVE OwesFor(S, P)
    <3>1. S \in SUBSET Universe
      BY <1>2, <1>4, <2>6
    <3>2. /\ Table(m, S, P) \subseteq UNION {Owed(m, c, S, P) : c \in Range(Calls(m))}
          /\ Faulty(m, S, P) => \E c \in Range(Calls(m)) : Doomed(m, c, S, P)
      <4>. HIDE DEF Init
      <4>1. m.sub \in Subcommands /\ ~Refused(m) /\ S \in SUBSET Universe
        BY <1>3, <1>7, <3>1
      <4>. QED BY ONLY <4>1, First
    <3>. QED BY <2>2, <2>3, <3>2 DEF OwesFor
  <2>7. Owes
    BY <2>6 DEF Owes
  <2>8. ASSUME m.sub = "classifier-labels", ~m.warningsOnly
        PROVE  LabelsStage(m, Calls(m), {}, stayed, seen)
    BY <2>8, LabelsFirst DEF Calls
  <2>9. InStage
    BY <2>2, <2>8 DEF InStage
  <2>. QED BY <2>2, <2>5, <2>7, <2>9 DEF Inv, Sound, Justified
<1>. QED BY <1>6, <1>7

-----------------------------------------------------------------------------
(* The steps                                                               *)

(* The call that is made is pending, legitimate and ready. *)
LEMMA NextCall ==
    ASSUME Inv, Running, NEW call \in NextCalls
    PROVE  /\ call \in Legit(proc.cmd, seen)
           /\ \A S \in SUBSET stayed : \A P : seen \subseteq P =>
                Ready(proc.cmd, call, proc.read, S, P)
           /\ proc.cmd.sub \in Subcommands /\ ~Refused(proc.cmd)
           /\ seen \in SUBSET Universe /\ Lawful(proc.cmd, world)
<1>1. Shape /\ InStage
  BY DEF Inv
<1>2. call \in Legit(proc.cmd, seen)
  <2>1. CASE proc.more # {}
    BY <1>1, <2>1 DEF NextCalls, Shape
  <2>2. CASE proc.more = {} /\ proc.todo # <<>>
    BY <1>1, <2>2, Parts DEF NextCalls, Shape
  <2>. QED BY <2>1, <2>2 DEF NextCalls
<1>3. /\ proc.cmd.sub \in Subcommands /\ ~Refused(proc.cmd)
      /\ seen \in SUBSET Universe /\ Lawful(proc.cmd, world)
  BY <1>1, CommandsAssumption DEF Shape, Relevant
<1>4. ASSUME NEW S \in SUBSET stayed, NEW P, seen \subseteq P
      PROVE  Ready(proc.cmd, call, proc.read, S, P)
  <2>. SUFFICES ASSUME proc.cmd.sub = "classifier-labels", ~proc.cmd.warningsOnly
                PROVE  LabelsReady(proc.cmd, call, proc.read, S, P)
    BY DEF Ready, LabelsReady
  <2>1. /\ proc.more = {} /\ proc.todo # <<>> /\ call = Head(proc.todo)
        /\ LabelsStage(proc.cmd, proc.todo, proc.read, stayed, seen)
    BY <1>1 DEF InStage, NextCalls
  <2>2. LabelsReady(proc.cmd, call, proc.read, stayed, seen)
    <3>1. Between(stayed, world, seen) /\ \A o, q \in world : Id(o) = Id(q) => o = q
      BY <1>1, <1>3 DEF Shape, Lawful
    <3>. QED BY <1>3, <2>1, <3>1, LabelsStageStep
  <2>. QED BY <1>4, <2>2 DEF LabelsReady, LabelsKnown
<1>. QED BY <1>2, <1>3, <1>4

(* What is left when call has been made and calls F follow from it. *)
LEMMA Left ==
    ASSUME Shape, Running, NEW call \in NextCalls, NEW F, NEW L, NEW K,
           proc' = [Without(call) EXCEPT !.more = @ \cup F, !.lines = @ \cup L,
                                         !.read = @ \cup K]
    PROVE  /\ proc' = [at |-> proc.at, cmd |-> proc.cmd, todo |-> proc.todo',
                       more |-> proc.more', read |-> proc.read \cup K,
                       lines |-> proc.lines \cup L]
           /\ proc.todo' \in Seq(Legit(proc.cmd, seen))
           /\ proc.more' \subseteq proc.more \cup F
           /\ F \subseteq Pending' /\ Pending \subseteq Pending' \cup {call}
           /\ proc.more = {} => /\ proc.todo # <<>> /\ call = Head(proc.todo)
                                /\ proc.todo' = Tail(proc.todo) /\ proc.more' = F
<1>1. /\ proc = [at |-> proc.at, cmd |-> proc.cmd, todo |-> proc.todo,
                 more |-> proc.more, read |-> proc.read, lines |-> proc.lines]
      /\ proc.todo \in Seq(Legit(proc.cmd, seen))
  BY DEF Shape
<1>2. CASE proc.more # {}
  <2>1. Without(call) = [proc EXCEPT !.more = @ \ {call}]
    BY <1>2 DEF Without
  <2>2. proc' = [at |-> proc.at, cmd |-> proc.cmd, todo |-> proc.todo,
                 more |-> (proc.more \ {call}) \cup F, read |-> proc.read \cup K,
                 lines |-> proc.lines \cup L]
    BY <1>1, <2>1
  <2>3. proc.todo' = proc.todo
    BY ONLY <2>2
  <2>4. proc.more' = (proc.more \ {call}) \cup F
    BY ONLY <2>2
  <2>. QED BY <1>1, <1>2, <2>2, <2>3, <2>4 DEF Pending
<1>3. CASE proc.more = {}
  <2>1. proc.todo # <<>> /\ call = Head(proc.todo)
    BY <1>3 DEF NextCalls
  <2>2. Without(call) = [proc EXCEPT !.todo = Tail(@)]
    BY <1>3 DEF Without
  <2>3. proc' = [at |-> proc.at, cmd |-> proc.cmd, todo |-> Tail(proc.todo),
                 more |-> F, read |-> proc.read \cup K, lines |-> proc.lines \cup L]
    BY <1>1, <1>3, <2>2
  <2>4. proc.todo' = Tail(proc.todo)
    BY ONLY <2>3
  <2>5. proc.more' = F
    BY ONLY <2>3
  <2>6. /\ Tail(proc.todo) \in Seq(Legit(proc.cmd, seen))
        /\ Range(proc.todo) = {call} \cup Range(Tail(proc.todo))
    BY <1>1, <2>1, Parts
  <2>. QED BY <1>3, <2>1, <2>3, <2>4, <2>5, <2>6 DEF Pending
<1>. QED BY <1>2, <1>3

(* What the pending calls owe, when call is no longer one of them. *)
LEMMA HandedOn ==
    ASSUME NEW m, NEW S, NEW P, NEW call, NEW F, NEW lines, NEW L,
           NEW before, NEW after, F \subseteq after, before \subseteq after \cup {call},
           Table(m, S, P) \subseteq lines \cup UNION {Owed(m, c, S, P) : c \in before},
           Faulty(m, S, P) => \E c \in before : Doomed(m, c, S, P),
           Owed(m, call, S, P) \subseteq L \cup UNION {Owed(m, c, S, P) : c \in F},
           Doomed(m, call, S, P) => \E c \in F : Doomed(m, c, S, P)
    PROVE  /\ Table(m, S, P) \subseteq
                (lines \cup L) \cup UNION {Owed(m, c, S, P) : c \in after}
           /\ Faulty(m, S, P) => \E c \in after : Doomed(m, c, S, P)
<1>1. ASSUME NEW t \in Table(m, S, P)
      PROVE  t \in (lines \cup L) \cup UNION {Owed(m, c, S, P) : c \in after}
  <2>1. CASE t \in lines
    BY <2>1
  <2>2. CASE \E c \in after : t \in Owed(m, c, S, P)
    BY <2>2
  <2>3. CASE t \in Owed(m, call, S, P)
    BY <2>3
  <2>. QED BY <2>1, <2>2, <2>3
<1>. QED BY <1>1

LEMMA CallStep == Inv /\ Call => Inv'
<1>. SUFFICES ASSUME Inv, Call PROVE Inv'
  OBVIOUS
<1>0. Running /\ UNCHANGED <<world, stayed, seen, fault>>
  BY DEF Call
<1>. DEFINE m == proc.cmd
<1>1. PICK call \in NextCalls :
        /\ ~Broken(m, call, Answer(call, world))
        /\ proc' = [Without(call) EXCEPT
                      !.more = @ \cup Follow(m, call, Answer(call, world)),
                      !.lines = @ \cup Lines(m, call, Answer(call, world), proc.read),
                      !.read = @ \cup {o \in Answer(call, world) :
                                         o.kind \in ClassifierLabels!Classifiers}]
  BY DEF Call
<1>. DEFINE answer == Answer(call, world)
            F == Follow(m, call, answer)
            L == Lines(m, call, answer, proc.read)
            K == {o \in answer : o.kind \in ClassifierLabels!Classifiers}
<1>2. /\ Shape /\ InStage /\ Owes /\ Sound
      /\ proc.at = "calls" /\ Between(stayed, world, seen)
  BY <1>0 DEF Inv, Shape, Running
<1>3. /\ call \in Legit(m, seen)
      /\ \A S \in SUBSET stayed : \A P : seen \subseteq P => Ready(m, call, proc.read, S, P)
      /\ m.sub \in Subcommands /\ ~Refused(m)
      /\ seen \in SUBSET Universe /\ Lawful(m, world)
  BY <1>0, NextCall
<1>4. /\ proc' = [at |-> proc.at, cmd |-> m, todo |-> proc.todo', more |-> proc.more',
                  read |-> proc.read \cup K, lines |-> proc.lines \cup L]
      /\ proc.todo' \in Seq(Legit(m, seen)) /\ proc.more' \subseteq proc.more \cup F
      /\ F \subseteq Pending' /\ Pending \subseteq Pending' \cup {call}
      /\ proc.more = {} => /\ proc.todo # <<>> /\ call = Head(proc.todo)
                           /\ proc.todo' = Tail(proc.todo) /\ proc.more' = F
  <2>1. proc' = [Without(call) EXCEPT !.more = @ \cup F, !.lines = @ \cup L,
                                      !.read = @ \cup K]
    BY <1>1
  <2>. HIDE DEF m, F, L, K
  <2>2. /\ proc' = [at |-> proc.at, cmd |-> proc.cmd, todo |-> proc.todo',
                    more |-> proc.more', read |-> proc.read \cup K,
                    lines |-> proc.lines \cup L]
        /\ proc.todo' \in Seq(Legit(proc.cmd, seen))
        /\ proc.more' \subseteq proc.more \cup F
        /\ F \subseteq Pending' /\ Pending \subseteq Pending' \cup {call}
        /\ proc.more = {} => /\ proc.todo # <<>> /\ call = Head(proc.todo)
                             /\ proc.todo' = Tail(proc.todo) /\ proc.more' = F
    BY <1>0, <1>2, <2>1, Left
  <2>. QED BY <2>2 DEF m
<1>5. K \subseteq seen
  BY <1>2, AnswerProperties DEF Between
<1>. HIDE DEF F, L, K
<1>6. /\ proc'.at = "calls" /\ proc'.cmd = m /\ proc'.read = proc.read \cup K
      /\ proc'.lines = proc.lines \cup L
  BY ONLY <1>2, <1>4
<1>7. ASSUME NEW S \in SUBSET stayed, NEW P \in SUBSET Universe, seen \subseteq P
      PROVE  /\ call.kind \in Kinds(m)
             /\ F \subseteq Legit(m, P)
             /\ L \subseteq Table(m, P, S)
             /\ Owed(m, call, S, P) \subseteq L \cup UNION {Owed(m, c, S, P) : c \in F}
             /\ Doomed(m, call, S, P) => \E c \in F : Doomed(m, c, S, P)
  <2>1. Between(S, world, P)
    BY <1>2, <1>7 DEF Between
  <2>2. call \in Legit(m, P)
    BY <1>3, <1>7, Monotone
  <2>3. Ready(m, call, proc.read, S, P)
    BY <1>3, <1>7
  <2>. HIDE DEF m
  <2>. QED BY <1>1, <1>3, <1>7, <2>1, <2>2, <2>3, Answered DEF F, L
<1>8. F \subseteq Legit(m, seen) /\ L \subseteq Table(m, seen, stayed)
  BY <1>3, <1>7
<1>. HIDE DEF m
<1>9. Shape'
  <2>1. proc.more' \subseteq Legit(m, seen)
    BY <1>2, <1>4, <1>8 DEF Shape, m
  <2>2. proc.read \cup K \subseteq seen
    BY <1>2, <1>5 DEF Shape
  <2>. QED BY <1>0, <1>2, <1>3, <1>4, <1>6, <2>1, <2>2 DEF Shape, Running, m
<1>10. InStage'
  <2>. SUFFICES ASSUME m.sub = "classifier-labels", ~m.warningsOnly
                PROVE  proc'.more = {} /\ LabelsStage(m, proc'.todo, proc'.read, stayed, seen)
    BY <1>0, <1>6 DEF InStage
  <2>1. proc.more = {} /\ LabelsStage(m, proc.todo, proc.read, stayed, seen)
    BY <1>0, <1>2 DEF InStage, m
  <2>2. proc'.more = {}
    BY <1>4, <2>1 DEF F, Follow
  <2>3. \A o, q \in world : Id(o) = Id(q) => o = q
    BY <1>3 DEF Lawful
  <2>4. LabelsStage(m, Tail(proc.todo), proc.read \cup K, stayed, seen)
    BY <1>2, <1>3, <1>4, <2>1, <2>3, LabelsStageStep DEF K
  <2>. QED BY <1>4, <1>6, <2>1, <2>2, <2>4
<1>11. Owes'
  <2>. SUFFICES ASSUME NEW S \in SUBSET stayed, NEW P \in SUBSET Relevant(m),
                       seen \subseteq P
                PROVE  OwesFor(S, P)'
    BY <1>0, <1>6 DEF Owes
  <2>1. /\ Table(m, S, P) \subseteq proc.lines \cup UNION {Owed(m, c, S, P) : c \in Pending}
        /\ Faulty(m, S, P) => \E c \in Pending : Doomed(m, c, S, P)
    BY <1>2 DEF Owes, OwesFor, m
  <2>2. /\ Owed(m, call, S, P) \subseteq L \cup UNION {Owed(m, c, S, P) : c \in F}
        /\ Doomed(m, call, S, P) => \E c \in F : Doomed(m, c, S, P)
    BY <1>7 DEF Relevant
  <2>3. /\ Table(m, S, P) \subseteq (proc.lines \cup L)
                                    \cup UNION {Owed(m, c, S, P) : c \in Pending'}
        /\ Faulty(m, S, P) => \E c \in Pending' : Doomed(m, c, S, P)
    BY <1>4, <2>1, <2>2, HandedOn
  <2>. QED BY <1>6, <2>3 DEF OwesFor
<1>12. Sound'
  BY <1>0, <1>2, <1>6, <1>8 DEF Sound, m
<1>. QED BY <1>6, <1>9, <1>10, <1>11, <1>12 DEF Inv, Justified

(* The command ends, for a reason, and keeps what was printed. *)
LEMMA FailStep ==
    ASSUME Inv, Running, NEW printed, Fail(printed),
           UNCHANGED <<world, stayed, seen>>, fault' \in BOOLEAN,
           Streams(proc.cmd) => printed \subseteq Table(proc.cmd, seen, stayed),
           fault' \/ Faulty(proc.cmd, seen, stayed)
    PROVE  Inv'
<1>. DEFINE kept == IF Streams(proc.cmd) THEN proc.lines \cup printed ELSE {}
<1>1. /\ proc' = [at |-> "failed", cmd |-> proc.cmd, todo |-> <<>>, more |-> {},
                  read |-> {}, lines |-> kept]
      /\ kept \subseteq Table(proc.cmd, seen, stayed)
  BY DEF Fail, Inv, Sound
<1>. HIDE DEF kept
<1>2. /\ proc'.at = "failed" /\ proc'.cmd = proc.cmd /\ proc'.todo = <<>>
      /\ proc'.more = {} /\ proc'.read = {} /\ proc'.lines = kept
  BY ONLY <1>1
<1>3. Range(<<>>) = {}
  BY DEF Range
<1>4. Pending' = {} /\ ~Running'
  BY <1>2, <1>3 DEF Pending, Running
<1>5. <<>> \in Seq(Legit(proc.cmd, seen))
  OBVIOUS
<1>6. Shape'
  BY <1>1, <1>2, <1>4, <1>5 DEF Shape, Inv
<1>. QED BY <1>1, <1>2, <1>4, <1>6 DEF Inv, InStage, Owes, Sound, Justified

LEMMA BreakStep == Inv /\ Break => Inv'
<1>. SUFFICES ASSUME Inv, Break PROVE Inv'
  OBVIOUS
<1>1. Running /\ UNCHANGED <<world, stayed, seen, fault>> /\ fault' \in BOOLEAN
  BY DEF Break, Inv, Shape
<1>2. PICK call \in NextCalls :
        /\ Broken(proc.cmd, call, Answer(call, world))
        /\ \E printed \in SUBSET Lines(proc.cmd, call, Answer(call, world), proc.read) :
              Fail(printed)
  BY DEF Break
<1>3. PICK printed \in SUBSET Lines(proc.cmd, call, Answer(call, world), proc.read) :
        Fail(printed)
  BY <1>2
<1>4. /\ call \in Legit(proc.cmd, seen)
      /\ Ready(proc.cmd, call, proc.read, stayed, seen)
      /\ proc.cmd.sub \in Subcommands /\ ~Refused(proc.cmd)
      /\ seen \in SUBSET Universe /\ Lawful(proc.cmd, world)
  BY <1>1, NextCall
<1>5. Between(stayed, world, seen)
  BY DEF Inv, Shape
<1>6. /\ Faulty(proc.cmd, seen, stayed)
      /\ Streams(proc.cmd) =>
           Lines(proc.cmd, call, Answer(call, world), proc.read)
             \subseteq Table(proc.cmd, seen, stayed)
  BY <1>2, <1>4, <1>5, Answered
<1>. QED BY <1>1, <1>3, <1>6, FailStep

LEMMA CallFailsStep == Inv /\ CallFails => Inv'
<1>. SUFFICES ASSUME Inv, CallFails PROVE Inv'
  OBVIOUS
<1>1. Running /\ Fail({}) /\ fault' = TRUE /\ UNCHANGED <<world, stayed, seen>>
  BY DEF CallFails
<1>. QED BY <1>1, FailStep

LEMMA RenderStep == Inv /\ Render => Inv'
<1>. SUFFICES ASSUME Inv, Render PROVE Inv'
  OBVIOUS
<1>1. Shape /\ Owes /\ Sound
  BY DEF Inv
<1>2. /\ Running /\ NextCalls = {} /\ UNCHANGED <<world, stayed, seen, fault>>
      /\ proc' = [proc EXCEPT !.at = "ok", !.read = {}]
  BY DEF Render
<1>3. /\ proc = [at |-> proc.at, cmd |-> proc.cmd, todo |-> proc.todo,
                 more |-> proc.more, read |-> proc.read, lines |-> proc.lines]
  BY <1>1 DEF Shape
<1>4. proc' = [at |-> "ok", cmd |-> proc.cmd, todo |-> proc.todo,
               more |-> proc.more, read |-> {}, lines |-> proc.lines]
  BY ONLY <1>2, <1>3
<1>5. /\ proc'.at = "ok" /\ proc'.cmd = proc.cmd /\ proc'.todo = proc.todo
      /\ proc'.more = proc.more /\ proc'.read = {} /\ proc'.lines = proc.lines
  BY ONLY <1>4
<1>6. proc.more = {} /\ proc.todo = <<>> /\ Range(<<>>) = {}
  <2>1. NextCalls = {}
    BY <1>2
  <2>2. proc.more = {}
    BY ONLY <2>1 DEF NextCalls
  <2>3. proc.todo = <<>>
    BY ONLY <2>1, <2>2 DEF NextCalls
  <2>. QED BY <2>2, <2>3 DEF Range
<1>7. Pending = {} /\ Pending' = {} /\ ~Running'
  BY <1>5, <1>6 DEF Pending, Running
<1>8. Shape'
  BY <1>1, <1>2, <1>4, <1>5, <1>7 DEF Shape
<1>9. Owes'
  <2>. SUFFICES ASSUME NEW S \in SUBSET stayed, NEW P \in SUBSET Relevant(proc.cmd),
                       seen \subseteq P
                PROVE  OwesFor(S, P)'
    BY <1>2, <1>5 DEF Owes
  <2>1. OwesFor(S, P)
    BY <1>1, <1>2 DEF Owes, Running
  <2>. QED BY <1>5, <1>7, <2>1 DEF OwesFor
<1>10. Sound'
  BY <1>1, <1>2, <1>5 DEF Sound
<1>. QED BY <1>5, <1>7, <1>8, <1>9, <1>10 DEF Inv, InStage, Justified

LEMMA BecomesStep ==
    ASSUME Inv, NEW W \in SUBSET Relevant(proc.cmd), Becomes(W)
    PROVE  Inv'
<1>. DEFINE m == proc.cmd
<1>1. /\ Shape /\ InStage /\ Owes /\ Sound /\ Justified
      /\ Between(stayed, world, seen) /\ seen \subseteq Relevant(m)
      /\ m.sub \in Subcommands
  BY CommandsAssumption DEF Inv, Shape
<1>2. /\ Running /\ Lawful(m, W) /\ proc' = proc /\ fault' = fault
      /\ world' = W /\ stayed' = stayed \cap W /\ seen' = seen \cup W
  BY DEF Becomes
<1>3. /\ stayed' \subseteq stayed /\ seen \subseteq seen' /\ seen' \subseteq Relevant(m)
      /\ Between(stayed', world', seen')
  BY <1>1, <1>2 DEF Between
<1>4. /\ Table(m, seen, stayed) \subseteq Table(m, seen', stayed')
      /\ Legit(m, seen) \subseteq Legit(m, seen')
  BY <1>1, <1>3, Monotone
<1>5. proc.at = "calls" /\ Running'
  BY <1>2 DEF Running
<1>6. Shape'
  <2>1. proc.todo \in Seq(Legit(m, seen')) /\ proc.more \subseteq Legit(m, seen')
    <3>1. proc.todo \in Seq(Legit(m, seen)) /\ proc.more \subseteq Legit(m, seen)
      BY <1>1 DEF Shape
    <3>. QED BY <1>4, <3>1
  <2>2. proc.read \subseteq seen'
    BY <1>1, <1>3 DEF Shape
  <2>. QED BY <1>1, <1>2, <1>3, <1>5, <2>1, <2>2 DEF Shape
<1>7. InStage'
  <2>. SUFFICES ASSUME m.sub = "classifier-labels", ~m.warningsOnly
                PROVE  proc.more = {} /\ LabelsStage(m, proc.todo, proc.read, stayed', seen')
    BY <1>2 DEF InStage
  <2>1. proc.more = {} /\ LabelsStage(m, proc.todo, proc.read, stayed, seen)
    BY <1>1, <1>2 DEF InStage
  <2>. QED BY <1>3, <2>1, LabelsStageMonotone
<1>8. Owes'
  <2>. SUFFICES ASSUME NEW S \in SUBSET stayed', NEW P \in SUBSET Relevant(m),
                       seen' \subseteq P
                PROVE  OwesFor(S, P)'
    BY <1>2 DEF Owes
  <2>1. OwesFor(S, P)
    BY <1>1, <1>3, <1>5 DEF Owes
  <2>. QED BY <1>2, <2>1 DEF OwesFor, Pending
<1>9. Sound'
  BY <1>1, <1>2, <1>4 DEF Sound
<1>10. Justified'
  BY <1>2, <1>5 DEF Justified
<1>. QED BY <1>6, <1>7, <1>8, <1>9, <1>10 DEF Inv

LEMMA NextInv == Inv /\ [Next]_vars => Inv'
<1>. SUFFICES ASSUME Inv, [Next]_vars PROVE Inv'
  OBVIOUS
<1>1. CASE Call
  BY <1>1, CallStep
<1>2. CASE Break
  BY <1>2, BreakStep
<1>3. CASE CallFails
  BY <1>3, CallFailsStep
<1>4. CASE Render
  BY <1>4, RenderStep
<1>5. world \subseteq Relevant(proc.cmd)
  BY DEF Inv, Shape, Between
<1>6. CASE Put
  <2>1. PICK o \in Relevant(proc.cmd) \ world : Becomes(world \cup {o})
    BY <1>6 DEF Put
  <2>. QED BY <1>5, <2>1, BecomesStep
<1>7. CASE Drop
  <2>1. PICK o \in world : Becomes(world \ {o})
    BY <1>7 DEF Drop
  <2>. QED BY <1>5, <2>1, BecomesStep
<1>8. CASE UNCHANGED vars
  <2>1. /\ world' = world /\ proc' = proc /\ stayed' = stayed
        /\ seen' = seen /\ fault' = fault
    BY <1>8 DEF vars
  <2>2. /\ Shape' = Shape /\ InStage' = InStage /\ Sound' = Sound
        /\ Justified' = Justified
    BY <2>1 DEF Shape, InStage, Sound, Justified, Pending, Running
  <2>3. \A S, P : OwesFor(S, P)' = OwesFor(S, P)
    BY <2>1 DEF OwesFor, Pending
  <2>4. Owes'
    BY <2>1, <2>3 DEF Inv, Owes
  <2>. QED BY <2>2, <2>4 DEF Inv
<1>. QED BY <1>1, <1>2, <1>3, <1>4, <1>6, <1>7, <1>8 DEF Next

LEMMA Invariance == Spec => []Inv
BY InitInv, NextInv, PTL DEF Spec

-----------------------------------------------------------------------------
(* The theorems                                                            *)

(* Every variable has its type: the process makes only calls of its        *)
(* subcommand, keeps only objects that were there, and its lines tell of   *)
(* objects that may be.                                                    *)
THEOREM TypeCorrect == Spec => []TypeOK
<1>1. Inv => TypeOK
  <2>. SUFFICES ASSUME Inv PROVE TypeOK
    OBVIOUS
  <2>1. Shape /\ Sound /\ Between(stayed, world, seen)
    BY DEF Inv, Shape
  <2>2. proc.cmd.sub \in Subcommands
    BY <2>1, CommandsAssumption DEF Shape
  <2>3. ASSUME NEW call \in NextCalls PROVE call.kind \in Kinds(proc.cmd)
    <3>1. Running
      <4>1. SUFFICES ASSUME ~Running PROVE NextCalls = {}
        OBVIOUS
      <4>2. proc.more = {} /\ Range(proc.todo) = {}
        BY <2>1, <4>1 DEF Shape, Pending
      <4>3. proc.todo = <<>>
        BY <2>1, <4>2, Parts DEF Shape
      <4>. QED BY <4>2, <4>3 DEF NextCalls
    <3>2. /\ call \in Legit(proc.cmd, seen)
          /\ Ready(proc.cmd, call, proc.read, stayed, seen)
          /\ ~Refused(proc.cmd) /\ seen \in SUBSET Universe /\ Lawful(proc.cmd, world)
      BY <3>1, NextCall
    <3>. QED BY <2>1, <2>2, <3>2, Answered
  <2>4. proc.lines \subseteq Table(proc.cmd, Relevant(proc.cmd), {})
    BY <2>1, <2>2, Monotone DEF Sound, Shape
  <2>. QED BY <2>1, <2>3, <2>4 DEF TypeOK, Shape, Between
<1>. QED BY <1>1, Invariance, PTL

(* A command that succeeds has shown a line for everything it was asked    *)
(* for that was there all the time, in whatever order its lists are        *)
(* answered and whatever comes and goes between them: every line of Table, *)
(* with the exceptions ShowAddOns names.                                   *)
THEOREM Completeness == Spec => []Complete
<1>1. Inv => Complete
  <2>. SUFFICES ASSUME Inv, proc.at = "ok"
                PROVE  Table(proc.cmd, stayed, seen) \subseteq proc.lines
    BY DEF Complete
  <2>1. Shape /\ Owes /\ Pending = {}
    BY DEF Inv, Shape, Running
  <2>2. OwesFor(stayed, seen)
    BY <2>1 DEF Owes, Shape
  <2>. QED BY <2>1, <2>2 DEF OwesFor
<1>. QED BY <1>1, Invariance, PTL

(* No command shows a line of what it was not asked for, or of objects     *)
(* that were not there while it ran: but for the Profiles of namespaces    *)
(* other than the one passed to show usage (ShowUsage.ProfilesElsewhere).  *)
THEOREM Soundness == Spec => []Sound
<1>1. Inv => Sound
  BY DEF Inv
<1>. QED BY <1>1, Invariance, PTL

(* A command whose calls are answered fails only for what it was asked     *)
(* for, and does not succeed if that was broken all the time.              *)
THEOREM Selectivity == Spec => []Selective
<1>1. Inv => Selective
  <2>. SUFFICES ASSUME Inv PROVE Selective
    OBVIOUS
  <2>1. proc.at = "ok" => ~Faulty(proc.cmd, stayed, seen)
    <3>. SUFFICES ASSUME proc.at = "ok" PROVE ~Faulty(proc.cmd, stayed, seen)
      OBVIOUS
    <3>1. Shape /\ Owes /\ Pending = {}
      BY DEF Inv, Shape, Running
    <3>2. OwesFor(stayed, seen)
      BY <3>1 DEF Owes, Shape
    <3>. QED BY <3>1, <3>2 DEF OwesFor
  <2>. QED BY <2>1 DEF Inv, Justified, Selective
<1>. QED BY <1>1, Invariance, PTL
===============================================================================
