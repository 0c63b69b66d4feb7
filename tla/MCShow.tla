--------------------------------- MODULE MCShow ---------------------------------
(***************************************************************************)
(* An instance of Show for TLC: a few objects of every kind, some of them  *)
(* two forms of one object, and command lines with and without filters.    *)
(***************************************************************************)
EXTENDS Show

c1 == Cluster("n1", "c1")
c2 == Cluster("n2", "c2")
Ref(kind, ns, name) == [kind |-> kind, ns |-> ns, name |-> name]
A == [kind |-> "ClusterProfile", name |-> "a"]
B == [kind |-> "Profile", name |-> "b"]

(* addons and dryrun *)
Namespaces == {[kind |-> "Namespace", ns |-> None, name |-> n] : n \in {"n1", "n2"}}

Entry(type, what, profile, timed) ==
    [type |-> type, what |-> what, profile |-> profile, timed |-> timed]
Configuration(ns, name, label, deployed) ==
    [kind |-> "ClusterConfiguration", ns |-> ns, name |-> name, label |-> label,
     deployed |-> deployed]
Configurations ==
    {Configuration("n1", "capi--c1", "c1",
                   {Entry("helm", "x", A, TRUE), Entry("helm", "x", B, TRUE),
                    Entry("resource", "y", B, TRUE)}),
     Configuration("n1", "capi--c1", "c1", {Entry("resource", "y", A, FALSE)}),
     Configuration("n2", "c2", None,
                   {Entry("helm", "x", A, TRUE), Entry("helm", "z", B, FALSE)})}
AddOn(ns, cluster, profile, helm, res) ==
    [sub |-> "addons", namespace |-> ns, cluster |-> cluster,
     profile |-> profile, helmOnly |-> helm, resourcesOnly |-> res]
AddOnLines == {AddOn(Any, Any, Any, FALSE, FALSE), AddOn("n1", Any, B, FALSE, TRUE),
               AddOn(Any, "c1", A, TRUE, FALSE), AddOn("n2", Any, A, FALSE, FALSE),
               AddOn(Any, "c2", Any, TRUE, FALSE), AddOn(Any, Any, Any, TRUE, TRUE)}

Change(what, update, message) ==
    [what |-> what, update |-> update, message |-> message]
Report(c, name, pdash, label, owner, entries) ==
    [kind |-> "ClusterReport", ns |-> c.ns, name |-> name, cluster |-> c,
     pdash |-> pdash, label |-> label, owner |-> owner, entries |-> entries]
ClusterReports ==
    {Report(c1, "a", FALSE, "a", A, {Change("x", TRUE, TRUE), Change("y", FALSE, TRUE)}),
     Report(c1, "a", FALSE, "a", None, {Change("x", TRUE, TRUE)}),
     Report(c2, "p--b", TRUE, "b", B, {Change("z", TRUE, FALSE), Change("y", TRUE, TRUE)})}
Dry(ns, cluster, profile, raw) ==
    [sub |-> "dryrun", namespace |-> ns, cluster |-> cluster,
     profile |-> profile, rawDiff |-> raw]
DryLines == {Dry(Any, Any, Any, FALSE), Dry(Any, Any, Any, TRUE), Dry("n1", Any, Any, TRUE),
             Dry(Any, "c2", Any, FALSE), Dry(Any, Any, B, FALSE)}

(* resources *)
Status(kind, ns, what, content) ==
    [group |-> "g", kind |-> kind, ns |-> ns, what |-> what, content |-> content]
Health(c, name, statuses) ==
    [kind |-> "HealthCheckReport", ns |-> c.ns, name |-> name, cluster |-> c,
     statuses |-> statuses]
HealthCheckReports ==
    {Health(c1, "h", {Status("Pod", "s1", "x", "good"), Status("Job", "s2", "y", "none")}),
     Health(c1, "h", {Status("Pod", "s1", "x", "bad")}),
     Health(c1, "i", {Status("Job", "s1", "y", "good")}),
     Health(c2, "h", {Status("Pod", "s2", "x", "good"), Status("Job", "s2", "z", "bad")})}
Res(cns, cluster, kind, ns, full) ==
    [sub |-> "resources", clusterNamespace |-> cns, cluster |-> cluster,
     group |-> Any, kind |-> kind, namespace |-> ns, full |-> full]
ResLines == {Res(Any, Any, Any, Any, FALSE), Res(Any, Any, "Pod", Any, TRUE),
             Res("n2", Any, Any, "s2", TRUE), Res(Any, "c1", Any, "s1", TRUE)}

(* usage *)
Profile(p, ns, refs, clusters) ==
    [kind |-> p.kind, ns |-> ns, name |-> p.name, refs |-> refs, clusters |-> clusters]
Profiles ==
    {Profile(A, None, {Ref("ConfigMap", "n1", "x")}, {c1, c2}),
     Profile(A, None, {Ref("Secret", "n2", "y")}, {}),
     Profile(B, "n1", {Ref("ConfigMap", "n1", "x"), Ref("Secret", "n1", "x")}, {c1}),
     Profile(B, "n2", {Ref("ConfigMap", "n2", "y")}, {c2})}
Use(kind, ns, name) ==
    [sub |-> "usage", kind |-> kind, namespace |-> ns, name |-> name]
UseLines == {Use(Any, Any, Any), Use("Secret", "n1", Any), Use("ConfigMap", Any, "x"),
             Use(Any, "n2", Any), Use("Profile", Any, "b"), Use("Pod", Any, Any)}
InNamespace == {Use(Any, "n2", Any)}

(* admin-rbac *)
Request(name, account, clusters, refs) ==
    [kind |-> "RoleRequest", ns |-> None, name |-> name,
     account |-> [ns |-> "n1", name |-> account], clusters |-> clusters, refs |-> refs]
Role(type, rule) == [type |-> type, ns |-> "s1", rule |-> rule]
Holder(kind, name, elements) ==
    [kind |-> kind, ns |-> "n1", name |-> name, elements |-> elements]
AdminObjects ==
    {Request("r", "admin", {c1, c2}, {Ref("ConfigMap", "n1", "x"), Ref("Other", "n1", "y")}),
     Request("q", "guest", {c1}, {Ref("ConfigMap", "n1", "x")}),
     Holder("ConfigMap", "x", {Role("Role", "get"), Role("Pod", "none")}),
     Holder("ConfigMap", "x", {Role("Role", "get"), Role("bad", "none")}),
     Holder("Secret", "y", {Role("ClusterRole", "list")})}
Adm(ns, cluster, account) ==
    [sub |-> "admin-rbac", namespace |-> ns, cluster |-> cluster,
     accountNs |-> Any, accountName |-> account]
AdmLines == {Adm(Any, Any, Any), Adm("n2", Any, Any), Adm(Any, "c1", "guest")}

(* classifier-labels *)
Declares(kind, name, labels) ==
    [kind |-> kind, ns |-> None, name |-> name, labels |-> labels]
Manages(kind, c, name, classifier, managed, unmanaged) ==
    [kind |-> kind, ns |-> c.ns, name |-> name, cluster |-> c,
     classifier |-> classifier, managed |-> managed, unmanaged |-> unmanaged]
LabelObjects ==
    {Declares("Classifier", "a", [key \in {"k"} |-> "v"]),
     Declares("Classifier", "a", [key \in {"k", "h"} |-> "w"]),
     Declares("ManagementClusterClassifier", "a", [key \in {"h"} |-> "u"]),
     Manages("ClassifierReport", c1, "a", "a", {"k", "h"}, {}),
     Manages("ManagementClusterClassifierReport", c2, "a", "a", {"h"}, {"k"})}
Lab(ns, cluster, warnings) ==
    [sub |-> "classifier-labels", namespace |-> ns, cluster |-> cluster,
     warningsOnly |-> warnings]
LabLines == {Lab(Any, Any, FALSE), Lab(Any, Any, TRUE), Lab("n1", Any, FALSE),
             Lab(Any, "c2", FALSE)}

AllObjects == UNION {Namespaces, Configurations, ClusterReports, HealthCheckReports,
                     Profiles, AdminObjects, LabelObjects}
AllLines == UNION {AddOnLines, DryLines, ResLines, UseLines, AdmLines, LabLines}
=============================================================================
