------------------------------ MODULE ShowCommon ------------------------------
(***************************************************************************)
(* What the modules of the show subcommands share.                         *)
(*                                                                         *)
(* An object of the API server is a record with its kind, ns, name and the *)
(* fields the subcommand prints.  Each module gives, for a command m,      *)
(*   Calls(m)          the calls it makes for certain, in their order;     *)
(*   Follow(m, c, a)   the calls it makes because call c was answered a;   *)
(*   Lines(m, c, a, r) the lines it then adds to its table, r being the    *)
(*                     objects it has kept from earlier answers;           *)
(*   Broken(m, c, a)   whether that answer ends it with an error;          *)
(*   Table(m, W, P)    the lines it ought to show when the objects of W    *)
(*                     are there and none but those of P.  More of them    *)
(*                     with a larger W, less with a larger P;              *)
(*   Faulty(m, W, P)   whether it ought to end with an error.              *)
(* The first four follow the code; the other two follow what the help      *)
(* texts promise, and look at all objects at once.  Where the code does    *)
(* something else, Table has an exception, in a definition that says so.   *)
(***************************************************************************)
EXTENDS Naturals, Sequences

CONSTANTS Any,   \* an option that is not given; every namespace; every name
          None   \* a label or a value that is not there; no namespace

(* An option, and what it is compared with. *)
Selects(passed, value) == passed \in {Any, value}

List(kind, ns, use) == [kind |-> kind, ns |-> ns, name |-> Any, use |-> use]
Fetch(kind, ns, name, use) ==
    [kind |-> kind, ns |-> ns, name |-> name, use |-> use]

(* The server answers with the objects there are. *)
Answer(call, W) == {o \in W : /\ o.kind = call.kind
                              /\ Selects(call.ns, o.ns)
                              /\ Selects(call.name, o.name)}

Kind(W, kind) == {o \in W : o.kind = kind}
Cluster(ns, name) == [ns |-> ns, name |-> name]

-----------------------------------------------------------------------------
(* show/utils.go                                                           *)

doConsiderNamespace(n, passedNamespace) == Selects(passedNamespace, n.name)

doConsiderClusterConfiguration(cc, passedCluster) ==
    passedCluster = Any \/ (cc.label # None /\ cc.label = passedCluster)

doConsiderClusterReport(cr, passedCluster) ==
    Selects(passedCluster, cr.cluster.name)

doConsiderProfile(profileNames, passedProfile) ==
    passedProfile = Any \/ passedProfile \in profileNames
=============================================================================
