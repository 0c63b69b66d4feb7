------------------------------- MODULE ShowUsage -------------------------------
(***************************************************************************)
(* show usage: which clusters are affected by a ClusterProfile, a Profile, *)
(* or a ConfigMap or Secret they reference.  A profile has refs, a set of  *)
(* [kind, ns, name], and the clusters it matches.                          *)
(***************************************************************************)
EXTENDS ShowCommon

Kinds == {"ClusterProfile", "Profile"}
ValidKinds == Kinds \cup {"ConfigMap", "Secret"}

(* A --kind that is none of the four is refused before any call. *)
Refused(m) == m.kind \notin ValidKinds \cup {Any}

(* The sections of the table, each with the lists it is made from. *)
Mistaken_Calls(m) ==   \* the lists of the first section serve the others
    <<List("ClusterProfile", Any, "ClusterProfile"),
      List("Profile", Any, "Profile")>>

Calls(m) ==
    LET Section(kind, lists) == IF Selects(m.kind, kind)
                                THEN [i \in 1 .. Len(lists) |->
                                        List(lists[i], Any, kind)]
                                ELSE <<>>
    IN Section("ClusterProfile", <<"ClusterProfile">>)
       \o Section("Profile", <<"Profile">>)
       \o Section("ConfigMap", <<"ClusterProfile", "Profile">>)
       \o Section("Secret", <<"ClusterProfile", "Profile">>)

Follow(m, call, answer) == {}

(* A row, with one of its clusters, or None for the row as such. *)
Row(kind, ns, name, cluster) ==
    [kind |-> kind, ns |-> ns, name |-> name, cluster |-> cluster]

showUsageForProfile(profile) ==
    {Row(profile.kind, None, profile.name, c) :
        c \in profile.clusters \cup {None}}

shouldAddPolicyRef(m, ref) == Selects(m.namespace, ref.ns) /\ Selects(m.name, ref.name)

getReferencedResources(m, kind, profile) ==
    LET refs == {r \in profile.refs : r.kind = kind /\ shouldAddPolicyRef(m, r)}
    IN UNION {{Row(kind, r.ns, r.name, c) : c \in profile.clusters \cup {None}} :
                r \in refs}

Lines(m, call, answer, read) ==
    IF call.use \in Kinds
    THEN UNION {showUsageForProfile(o) :
                  o \in {o \in answer : Selects(m.name, o.name)}}
    ELSE UNION {getReferencedResources(m, call.use, o) : o \in answer}

Broken(m, call, answer) == FALSE

-----------------------------------------------------------------------------
(* "for each ClusterProfile lists all CAPI clusters currently matching;    *)
(* for each ConfigMap/Secret referenced by at least one ClusterProfile,    *)
(* lists all CAPI clusters where content of such resource is currently     *)
(* deployed" (usage.go:301-305): what is used, with the namespace it is in *)
(* and the profile that makes it so.  The row of a profile names no        *)
(* namespace.                                                              *)
Used(W) ==
    LET profiles == {o \in W : o.kind \in Kinds}
    IN {[kind |-> o.kind, ns |-> None, name |-> o.name, home |-> o.ns, of |-> o] :
          o \in profiles}
       \cup {[kind |-> x[2].kind, ns |-> x[2].ns, name |-> x[2].name,
              home |-> x[2].ns, of |-> x[1]] :
               x \in UNION {{o} \X o.refs : o \in profiles}}

(* What is used of the --kind and --name passed. *)
Named(m, W) ==
    {x \in Used(W) : /\ x.kind \in IF m.kind = Any THEN ValidKinds ELSE {m.kind}
                     /\ m.name \in {Any, x.name}}

Rows(X) == UNION {{Row(x.kind, x.ns, x.name, c) : c \in x.of.clusters \cup {None}} :
                    x \in X}

(* "resources in this namespace only" (usage.go:292): ClusterProfiles are  *)
(* in none, all else is asked for by the namespace it is in.               *)
Promised(m, W) ==
    Rows({x \in Named(m, W) : x.kind = "ClusterProfile" \/ m.namespace \in {Any, x.home}})

(* An exception: the code shows the Profiles of all namespaces. *)
ProfilesElsewhere(m, W) == Rows({x \in Named(m, W) : x.kind = "Profile"})

Table(m, W, P) == Promised(m, W) \cup ProfilesElsewhere(m, W)

Faulty(m, W, P) == Refused(m)
=============================================================================
