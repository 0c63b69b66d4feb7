----------------------------- MODULE ShowResources -----------------------------
(***************************************************************************)
(* show resources: what was collected from the clusters, from the          *)
(* HealthCheckReports.  A report has the cluster it is about and statuses  *)
(* [group, kind, ns, what, content], content being that of the collected   *)
(* resource: "none", "good", or "bad" when it does not parse.              *)
(***************************************************************************)
EXTENDS ShowCommon

Kinds == {"HealthCheckReport"}

Calls(m) == <<List("HealthCheckReport", m.clusterNamespace, "resources")>>

Follow(m, call, answer) == {}

doConsiderResourceStatus(m, s) == /\ Selects(m.group, s.group)
                                  /\ Selects(m.kind, s.kind)
                                  /\ Selects(m.namespace, s.ns)

(* The statuses a command looks at in one report. *)
Considered(m, hcr) ==
    IF Selects(m.cluster, hcr.cluster.name)
    THEN {s \in hcr.statuses : doConsiderResourceStatus(m, s)} ELSE {}

Line(m, cluster, s) ==
    [cluster |-> cluster, gk |-> <<s.group, s.kind>>, ns |-> s.ns,
     what |-> s.what, content |-> IF m.full THEN s.content ELSE "none"]

displayResource(m, hcr, s) == {Line(m, hcr.cluster, s)}

(* The resource itself, if it was collected. *)
printResource(m, hcr, s) ==
    IF s.content = "good" THEN {Line(m, hcr.cluster, s)} ELSE {}

displayResourcesInReport(m, hcr) ==
    UNION {IF m.full THEN printResource(m, hcr, s)
           ELSE displayResource(m, hcr, s) : s \in Considered(m, hcr)}

Lines(m, call, answer, read) ==
    UNION {displayResourcesInReport(m, hcr) : hcr \in answer}

Broken(m, call, answer) ==
    m.full /\ \E hcr \in answer : \E s \in Considered(m, hcr) :
                 s.content = "bad"

-----------------------------------------------------------------------------
(* "matching this group", "matching this Kind", "in this namespace", "in   *)
(* clusters in this namespace", "in cluster with name" (resources.go:234). *)
Asked(m, W) ==
    {x \in UNION {{hcr} \X hcr.statuses : hcr \in Kind(W, "HealthCheckReport")} :
        /\ m.clusterNamespace \in {Any, x[1].ns}
        /\ m.cluster \in {Any, x[1].cluster.name}
        /\ m.group \in {Any, x[2].group}
        /\ m.kind \in {Any, x[2].kind}
        /\ m.namespace \in {Any, x[2].ns}}

Table(m, W, P) ==
    {Line(m, x[1].cluster, x[2]) :
        x \in {x \in Asked(m, W) : m.full => x[2].content = "good"}}

Faulty(m, W, P) == m.full /\ \E x \in Asked(m, W) : x[2].content = "bad"
=============================================================================
