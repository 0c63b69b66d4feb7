----------------------------- MODULE ShowAdminRbac -----------------------------
(***************************************************************************)
(* show admin-rbac: what each admin may do in each cluster.  A RoleRequest *)
(* has the account of the admin, the clusters it matches and refs, a set   *)
(* of [kind, ns, name]; a ConfigMap or Secret has elements [type, ns,      *)
(* rule]: Roles, ClusterRoles, others, and "bad" ones that do not parse.   *)
(***************************************************************************)
EXTENDS ShowCommon

Kinds == {"RoleRequest", "ConfigMap", "Secret"}

Calls(m) == <<List("RoleRequest", Any, None)>>

Mistaken_parseCluster(m, cluster) == TRUE   \* shows every cluster

parseCluster(m, cluster) == /\ Selects(m.namespace, cluster.ns)
                            /\ Selects(m.cluster, cluster.name)

shouldParseRoleRequest(m, rr) == /\ Selects(m.accountNs, rr.account.ns)
                                 /\ Selects(m.accountName, rr.account.name)

(* collectResourceContent: what is not a ConfigMap is taken for a Secret.  *)
KindOf(ref) == IF ref.kind = "ConfigMap" THEN "ConfigMap" ELSE "Secret"

(* One reference is fetched for one cluster and one request, again and     *)
(* again if others have it too.                                            *)
Follow(m, call, answer) ==
    UNION {{Fetch(KindOf(x[2]), x[2].ns, x[2].name,
                  [request |-> rr.name, account |-> rr.account,
                   cluster |-> x[1]]) :
              x \in {c \in rr.clusters : parseCluster(m, c)} \X rr.refs} :
             rr \in {rr \in Kind(answer, "RoleRequest") :
                       shouldParseRoleRequest(m, rr)}}

(* processRole and processClusterRole, for one of the rules. *)
Line(cluster, account, e) ==
    [cluster |-> cluster, account |-> account,
     ns |-> IF e.type = "ClusterRole" THEN Any ELSE e.ns, rule |-> e.rule]

parseReferencedResource(use, elements) ==
    {Line(use.cluster, use.account, e) :
        e \in {e \in elements : e.type \in {"Role", "ClusterRole"}}}

Lines(m, call, answer, read) ==
    IF call.kind = "RoleRequest" THEN {}
    ELSE UNION {parseReferencedResource(call.use, o.elements) : o \in answer}

(* collectContent: an element that does not parse ends the command, as     *)
(* does a resource that is not there.                                      *)
Bad(o) == \E e \in o.elements : e.type = "bad"
Broken(m, call, answer) ==
    call.kind # "RoleRequest" /\ (answer = {} \/ \E o \in answer : Bad(o))

-----------------------------------------------------------------------------
(* "Show permissions for this ServiceAccount", "in clusters in this        *)
(* namespace", "in cluster with name" (admin_rbacs.go:333-340): the        *)
(* references of the requests that are asked for, with the cluster.        *)
Asked(m, W) ==
    {x \in UNION {{rr} \X rr.clusters \X rr.refs : rr \in Kind(W, "RoleRequest")} :
        /\ m.namespace \in {Any, x[2].ns} /\ m.cluster \in {Any, x[2].name}
        /\ m.accountNs \in {Any, x[1].account.ns}
        /\ m.accountName \in {Any, x[1].account.name}}

Referenced(x, W) == {o \in W : /\ o.kind = KindOf(x[3])
                               /\ o.ns = x[3].ns /\ o.name = x[3].name}

Table(m, W, P) ==
    UNION {UNION {{Line(x[2], x[1].account, e) :
                     e \in {e \in o.elements :
                              e.type \in {"Role", "ClusterRole"}}} :
                    o \in Referenced(x, W)} : x \in Asked(m, W)}

Faulty(m, W, P) ==
    \E x \in Asked(m, W) : \/ Referenced(x, P) = {}
                           \/ \E o \in Referenced(x, W) : Bad(o)
=============================================================================
