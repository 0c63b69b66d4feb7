------------------------- MODULE ShowClassifierLabels -------------------------
(***************************************************************************)
(* show classifier-labels: the labels which Classifiers and                *)
(* ManagementClusterClassifiers manage, or with --warnings those they do   *)
(* not get.  Both have labels, a function from keys to values; the reports *)
(* have the cluster, the name of the classifier, and the keys managed and  *)
(* unmanaged.                                                              *)
(***************************************************************************)
EXTENDS ShowCommon

Classifiers == {"Classifier", "ManagementClusterClassifier"}
Reports == {"ClassifierReport", "ManagementClusterClassifierReport"}
Kinds == Classifiers \cup Reports

(* The classifiers a report is about. *)
TypeOf(report) == IF report = "ClassifierReport" THEN "Classifier"
                  ELSE "ManagementClusterClassifier"

displayManagedLabels(m) ==
    <<List("ClassifierReport", m.namespace, "managed"),
      List("ManagementClusterClassifierReport", m.namespace, "managed")>>

displayConflicts(m) ==
    <<List("ClassifierReport", m.namespace, "conflict"),
      List("ManagementClusterClassifierReport", m.namespace, "conflict")>>

Calls(m) ==
    IF m.warningsOnly THEN displayConflicts(m)
    ELSE <<List("Classifier", Any, "labels"),
           List("ManagementClusterClassifier", Any, "labels")>>
         \o displayManagedLabels(m)

Follow(m, call, answer) == {}

matchesCluster(m, cluster) == /\ Selects(m.namespace, cluster.ns)
                              /\ Selects(m.cluster, cluster.name)

(* buildClassifierLabelMap and buildMCCLabelMap, from what was read, and   *)
(* the value they give a key: none if there is no such entry.              *)
Value(read, kind, classifier, key) ==
    LET of == {c \in read : /\ c.kind = kind /\ c.name = classifier
                            /\ key \in DOMAIN c.labels}
    IN IF of = {} THEN None ELSE (CHOOSE c \in of : TRUE).labels[key]

Line(r, key, value) == [cluster |-> r.cluster, key |-> key, value |-> value,
                        classifier |-> r.classifier, type |-> TypeOf(r.kind)]

appendConflictRows(r) == {Line(r, key, None) : key \in r.unmanaged}

Rows(m, r, read) ==
    IF m.warningsOnly THEN appendConflictRows(r)
    ELSE {Line(r, key, Value(read, TypeOf(r.kind), r.classifier, key)) :
             key \in r.managed}

Lines(m, call, answer, read) ==
    IF call.kind \in Classifiers THEN {}
    ELSE UNION {Rows(m, r, read) :
                  r \in {r \in answer : matchesCluster(m, r.cluster)}}

Broken(m, call, answer) == FALSE

-----------------------------------------------------------------------------
(* "labels for clusters in this namespace", "for the cluster with this     *)
(* name", "only label conflicts" (classifier_labels.go:220-225).  A label  *)
(* has the value its classifier declares, and none without a classifier    *)
(* that declares it.                                                       *)
Asked(m, W) == {r \in W : /\ r.kind \in Reports
                          /\ m.namespace \in {Any, r.ns}
                          /\ m.namespace \in {Any, r.cluster.ns}
                          /\ m.cluster \in {Any, r.cluster.name}}

Declares(c, r, key) == /\ c.kind = TypeOf(r.kind) /\ c.name = r.classifier
                       /\ key \in DOMAIN c.labels

Values(r, key, W, P) ==
    {c.labels[key] : c \in {c \in Kind(W, TypeOf(r.kind)) : Declares(c, r, key)}}
    \cup {v \in {None} : \A c \in Kind(P, TypeOf(r.kind)) : ~Declares(c, r, key)}

Table(m, W, P) ==
    IF m.warningsOnly
    THEN UNION {{Line(r, key, None) : key \in r.unmanaged} : r \in Asked(m, W)}
    ELSE UNION {UNION {{Line(r, key, v) : v \in Values(r, key, W, P)} :
                         key \in r.managed} : r \in Asked(m, W)}

Faulty(m, W, P) == FALSE
=============================================================================
