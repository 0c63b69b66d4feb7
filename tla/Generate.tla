------------------------------ MODULE Generate ------------------------------
(***************************************************************************)
(* internal/commands/generate: a kubeconfig for a ServiceAccount.          *)
(*                                                                         *)
(* GenerateKubeconfigForServiceAccount works on one cluster, in which it   *)
(* may create a namespace, a ServiceAccount, a ClusterRole and a           *)
(* ClusterRoleBinding, and hands out a token: a requested one, or that of  *)
(* a Secret which the token controller fills in its own time.  The actions *)
(* here are the calls of one process; module Fleet has the commands that   *)
(* make them.                                                              *)
(*                                                                         *)
(* Mistaken_X is a mistaken form of the definition of X that follows it;   *)
(* no specification uses it.                                               *)
(***************************************************************************)
EXTENDS Naturals, FiniteSets

CONSTANTS
    Procs,           \* the terminals a user runs sveltosctl from
    Contexts,        \* contexts of the kubeconfig file, one a cluster
    Unknown,         \* names of contexts that are not in the file
    Accounts,        \* pairs namespace/name of a ServiceAccount
    NamespaceOf,     \* a namespace, named by one of the accounts it holds
    Projectsveltos,  \* the account projectsveltos/projectsveltos
    Commands,        \* the command lines that may be run
    Faults,          \* how an API call may fail: "refused", "lost"
    MaxRetries,      \* maxRetries of getToken
    Nobody

ASSUME AccountsAssumption == /\ NamespaceOf \in [Accounts -> Accounts]
                             /\ Projectsveltos \in Accounts
                             /\ Nobody \notin Accounts
ASSUME RetriesAssumption == /\ MaxRetries \in Nat
                            /\ Faults \subseteq {"refused", "lost"}

(* The command lines of `generate kubeconfig`, and of `register cluster    *)
(* --fleet-cluster-context`, which asks for account and create as these do.*)
GenerateLines == [op : {"generate"}, context : Contexts \cup Unknown,
                  account : Accounts, create : BOOLEAN, satoken : BOOLEAN]
FleetLines == [op : {"fleet"}, context : Contexts \cup Unknown,
               account : {Projectsveltos}, create : {TRUE}, satoken : BOOLEAN]

ASSUME CommandsAssumption == /\ Commands # {}
                             /\ Commands \subseteq GenerateLines \cup FleetLines

(* What the commands write in a cluster.  The ClusterRole and its binding  *)
(* are called projectsveltos whatever the account.                         *)
Objects == [namespaces : SUBSET {NamespaceOf[a] : a \in Accounts},
            accounts   : SUBSET Accounts,
            role       : BOOLEAN,
            bound      : Accounts \cup {Nobody},  \* subject of the binding
            secrets    : [Accounts -> {"none", "empty", "filled"}]]

Kubeconfigs == [cluster : Contexts, account : Accounts]
NoKubeconfig == [cluster |-> Nobody, account |-> Nobody]

VARIABLES
    server,  \* the API servers: what each cluster holds
    proc     \* the local state of every process

Functions == {"createNamespace", "createServiceAccount", "createClusterRole",
              "createClusterRoleBinding", "getNamespace", "getServiceAccount",
              "createSecret", "getToken", "sleep",
              "getServiceAccountTokenRequest", "generated"}
Switches == {"getKubeconfigData", "createKubeconfig", "switchContext",
             "getConfig", "resetContext", "restoreContext",
             "onboardSveltosCluster"}
Ended == {"ready", "ok", "failed"}

Locals == [at         : Functions \cup Switches \cup Ended,
           cmd        : Commands,
           management : Contexts,  \* the cluster of GetAccessInstance
           outer      : Contexts,  \* currentContext of getKubeconfigData
           inner      : Contexts,  \* currentContext of createKubeconfig
           target     : Contexts,  \* the cluster of remoteRestConfig
           kubeconfig : Kubeconfigs \cup {NoKubeconfig},
           misses     : 0 .. MaxRetries + 1]  \* history: failed Gets of
                                              \* getToken, counted that far

Running(p) == proc[p].at \notin Ended

(* A process that goes on to f with a command, whose clients all are of    *)
(* cluster c.                                                              *)
Process(f, m, c) == [at |-> f, cmd |-> m, management |-> c, outer |-> c,
                     inner |-> c, target |-> c, kubeconfig |-> NoKubeconfig,
                     misses |-> 0]

(* One that has ended keeps nothing. *)
Goes(p, to) ==
    proc' = [proc EXCEPT
               ![p] = IF to \in Ended
                      THEN Process(to, @.cmd, CHOOSE c \in Contexts : TRUE)
                      ELSE [@ EXCEPT !.at = to]]

Target(p) == server[proc[p].target]

Empty == [namespaces |-> {}, accounts |-> {}, role |-> FALSE,
          bound |-> Nobody, secrets |-> [a \in Accounts |-> "none"]]

-----------------------------------------------------------------------------
(* Create through the plain client: no retries, AlreadyExists is success.  *)
(* The server admits the object unless it is there or has no namespace.    *)
Create(p, missing, housed, written, next) ==
    \E answer \in {"served"} \cup Faults :
       /\ server' = IF missing /\ housed /\ answer # "refused"
                    THEN [server EXCEPT ![proc[p].target] = written] ELSE server
       /\ Goes(p, IF answer = "served" /\ (missing => housed) THEN next
                  ELSE "failed")

(* Get through the plain client; NotFound is an error. *)
Get(p, exists, next) ==
    /\ \/ exists /\ Goes(p, next)
       \/ (~exists \/ Faults # {}) /\ Goes(p, "failed")
    /\ UNCHANGED server

Housed(p) == NamespaceOf[proc[p].cmd.account] \in Target(p).namespaces

(* The first call, for any target. *)
EntryPoint(m) == IF m.create THEN "createNamespace" ELSE "getNamespace"

(* The token, once the account is there. *)
TokenCall(m) == IF m.satoken THEN "createSecret"
                ELSE "getServiceAccountTokenRequest"

createNamespace(p) ==
    LET n == NamespaceOf[proc[p].cmd.account]
    IN /\ proc[p].at = "createNamespace"
       /\ Create(p, n \notin Target(p).namespaces, TRUE,
                 [Target(p) EXCEPT !.namespaces = @ \cup {n}],
                 "createServiceAccount")

Mistaken_createServiceAccount(p) ==   \* logs only
    /\ proc[p].at = "createServiceAccount"
    /\ Goes(p, "createClusterRole")
    /\ UNCHANGED server

createServiceAccount(p) ==
    LET a == proc[p].cmd.account
    IN /\ proc[p].at = "createServiceAccount"
       /\ Create(p, a \notin Target(p).accounts, Housed(p),
                 [Target(p) EXCEPT !.accounts = @ \cup {a}],
                 "createClusterRole")

createClusterRole(p) ==
    /\ proc[p].at = "createClusterRole"
    /\ Create(p, ~Target(p).role, TRUE, [Target(p) EXCEPT !.role = TRUE],
              "createClusterRoleBinding")

(* A binding made for another account stays as it is. *)
createClusterRoleBinding(p) ==
    /\ proc[p].at = "createClusterRoleBinding"
    /\ Create(p, Target(p).bound = Nobody, TRUE,
              [Target(p) EXCEPT !.bound = proc[p].cmd.account],
              TokenCall(proc[p].cmd))

getNamespace(p) == /\ proc[p].at = "getNamespace"
                   /\ Get(p, Housed(p), "getServiceAccount")

getServiceAccount(p) ==
    /\ proc[p].at = "getServiceAccount"
    /\ Get(p, proc[p].cmd.account \in Target(p).accounts,
           TokenCall(proc[p].cmd))

createSecret(p) ==
    LET a == proc[p].cmd.account
    IN /\ proc[p].at = "createSecret"
       /\ Create(p, Target(p).secrets[a] = "none", Housed(p),
                 [Target(p) EXCEPT !.secrets[a] = "empty"], "getToken")

(* getKubeconfigFromToken *)
Generated(p) ==
    proc' = [proc EXCEPT ![p].at = "generated",
                         ![p].kubeconfig = [cluster |-> proc[p].target,
                                            account |-> proc[p].cmd.account]]

Mistaken_getToken(p) ==   \* takes what the Secret holds
    /\ proc[p].at = "getToken"
    /\ Target(p).secrets[proc[p].cmd.account] # "none"
    /\ Generated(p)
    /\ UNCHANGED server

(* One round of the loop.  The variable retries stays 0: no error is ever  *)
(* returned.                                                               *)
getToken(p) ==
    LET secret == Target(p).secrets[proc[p].cmd.account]
    IN /\ proc[p].at = "getToken"
       /\ UNCHANGED server
       /\ \/ secret = "filled" /\ Generated(p)
          \/ secret = "empty" /\ Goes(p, "sleep")
          \/ /\ secret = "none" \/ Faults # {}
             /\ proc' = [proc EXCEPT ![p].at = "sleep",
                                     ![p].misses = IF @ <= MaxRetries THEN @ + 1
                                                   ELSE @]

sleep(p) == /\ proc[p].at = "sleep"
            /\ Goes(p, "getToken")
            /\ UNCHANGED server

(* The server issues a token for an account that exists. *)
getServiceAccountTokenRequest(p) ==
    /\ proc[p].at = "getServiceAccountTokenRequest"
    /\ UNCHANGED server
    /\ \/ proc[p].cmd.account \in Target(p).accounts /\ Generated(p)
       \/ /\ proc[p].cmd.account \notin Target(p).accounts \/ Faults # {}
          /\ Goes(p, "failed")

GenerateStep(p) ==
    \/ createNamespace(p) \/ createServiceAccount(p)
    \/ createClusterRole(p) \/ createClusterRoleBinding(p)
    \/ getNamespace(p) \/ getServiceAccount(p)
    \/ createSecret(p) \/ getToken(p) \/ sleep(p)
    \/ getServiceAccountTokenRequest(p)

(* The token controller of a cluster fills the Secret of an account. *)
Fill(c, a) ==
    /\ server[c].secrets[a] = "empty" /\ a \in server[c].accounts
    /\ server' = [server EXCEPT ![c].secrets[a] = "filled"]
    /\ UNCHANGED proc

-----------------------------------------------------------------------------
(* A kubeconfig that is handed out is for an account which exists in its   *)
(* cluster; where resources were to be created, the ClusterRole exists,    *)
(* and a binding of it to some account that exists (Granted asks whether   *)
(* it is the account of the kubeconfig); one made from a Secret has a      *)
(* token in it.  The calls that saw these took place in the cluster the    *)
(* kubeconfig points to, whatever other commands did meanwhile.            *)
Usable ==
    \A p \in Procs : proc[p].kubeconfig # NoKubeconfig =>
        LET k == proc[p].kubeconfig
            m == proc[p].cmd
        IN /\ k.account \in server[k.cluster].accounts
           /\ m.satoken => server[k.cluster].secrets[k.account] = "filled"
           /\ m.create => /\ server[k.cluster].role
                          /\ server[k.cluster].bound
                                \in server[k.cluster].accounts

(* "A ClusterRoleBinding granting the ServiceAccount cluster-admin         *)
(* permissions" (generate_kubeconfig.go:370): when a kubeconfig is handed  *)
(* out with --create, the binding names its account.  With one binding for *)
(* all accounts, which is never updated, it does not.                      *)
Granted ==
    \A p \in Procs : proc[p].kubeconfig # NoKubeconfig /\ proc[p].cmd.create =>
        LET k == proc[p].kubeconfig
        IN server[k.cluster].bound = k.account
=============================================================================
