-------------------------------- MODULE Fleet --------------------------------
(***************************************************************************)
(* internal/commands/onboard/cluster.go: `register cluster                 *)
(* --fleet-cluster-context`, beside `generate kubeconfig`.                 *)
(*                                                                         *)
(* The kubeconfig file has one current-context, shared by every process.   *)
(* A process reads it when it starts: that is its management cluster.      *)
(* Registering a fleet cluster then points it at the fleet cluster, builds *)
(* a client from the file, generates a kubeconfig, and points it back,     *)
(* twice.  Its last step stands for the push mode of module Onboard.       *)
(*                                                                         *)
(* Mistaken_X is a mistaken form of the definition of X that follows it;   *)
(* no specification uses it.                                               *)
(***************************************************************************)
EXTENDS Generate

VARIABLES
    current,  \* the kubeconfig file: current-context
    found     \* history: the context a process found when it started, as
              \* long as nobody else has switched since, else Nobody

vars == <<server, proc, current, found>>

ASSUME ContextsAssumption == /\ Contexts \cap Unknown = {}
                             /\ Nobody \notin Contexts \cup Unknown

Init == /\ server = [c \in Contexts |-> Empty]
        /\ current \in Contexts
        /\ proc = [p \in Procs |->
                     Process("ready", CHOOSE m \in Commands : TRUE, current)]
        /\ found = [p \in Procs |-> Nobody]

(* main builds the clients of the management cluster from the file. *)
Begin(p) ==
    /\ ~Running(p)
    /\ \E m \in Commands :
         proc' = [proc EXCEPT
                    ![p] = Process(IF m.op = "fleet" THEN "getKubeconfigData"
                                   ELSE EntryPoint(m), m, current)]
    /\ found' = [found EXCEPT ![p] = current]
    /\ UNCHANGED <<server, current>>

(* getCurrentContext, called twice. *)
ReadsContext(p, field, next) ==
    /\ \/ proc' = [proc EXCEPT ![p].at = next, ![p][field] = current]
       \/ Faults # {} /\ Goes(p, "failed")
    /\ UNCHANGED <<server, current, found>>

getKubeconfigData(p) == /\ proc[p].at = "getKubeconfigData"
                        /\ ReadsContext(p, "outer", "createKubeconfig")

createKubeconfig(p) == /\ proc[p].at = "createKubeconfig"
                       /\ ReadsContext(p, "inner", "switchContext")

Mistaken_switchCurrentContext(p, c, next) ==   \* does not look for c
    /\ \/ /\ current' = c
          /\ found' = [q \in Procs |-> IF q = p THEN found[q] ELSE Nobody]
          /\ Goes(p, next)
       \/ Faults # {} /\ Goes(p, "failed") /\ UNCHANGED <<current, found>>
    /\ UNCHANGED server

(* switchCurrentContext: c has to be in the file. *)
switchCurrentContext(p, c, next) ==
    /\ \/ /\ c \in Contexts
          /\ current' = c
          /\ found' = [q \in Procs |-> IF q = p THEN found[q] ELSE Nobody]
          /\ Goes(p, next)
       \/ /\ c \notin Contexts \/ Faults # {}
          /\ Goes(p, "failed")
          /\ UNCHANGED <<current, found>>
    /\ UNCHANGED server

switchContext(p) ==
    /\ proc[p].at = "switchContext"
    /\ switchCurrentContext(p, proc[p].cmd.context, "getConfig")

Mistaken_getConfig(p) ==   \* the configuration the process has already
    /\ proc[p].at = "getConfig"
    /\ proc' = [proc EXCEPT ![p].at = EntryPoint(proc[p].cmd),
                            ![p].target = proc[p].management]
    /\ UNCHANGED <<server, current, found>>

(* ctrl.GetConfig reads the file once more. *)
getConfig(p) ==
    /\ proc[p].at = "getConfig"
    /\ \/ proc' = [proc EXCEPT ![p].at = EntryPoint(proc[p].cmd),
                               ![p].target = current]
       \/ Faults # {} /\ Goes(p, "failed")
    /\ UNCHANGED <<server, current, found>>

(* GenerateKubeconfigForServiceAccount has returned. *)
generated(p) ==
    /\ proc[p].at = "generated"
    /\ Goes(p, IF proc[p].cmd.op = "fleet" THEN "resetContext" ELSE "ok")
    /\ UNCHANGED <<server, current, found>>

Mistaken_resetContext(p) ==   \* to the context of the fleet cluster
    /\ proc[p].at = "resetContext"
    /\ switchCurrentContext(p, proc[p].cmd.context, "onboardSveltosCluster")

resetContext(p) ==
    /\ proc[p].at = "resetContext"
    /\ switchCurrentContext(p, proc[p].inner, "restoreContext")

restoreContext(p) ==
    /\ proc[p].at = "restoreContext"
    /\ switchCurrentContext(p, proc[p].outer, "onboardSveltosCluster")

(* onboardSveltosCluster as a whole, with the kubeconfig and the           *)
(* management cluster of the process: module Onboard has its calls.        *)
onboardSveltosCluster(p) ==
    /\ proc[p].at = "onboardSveltosCluster"
    /\ \/ Goes(p, "ok")
       \/ Faults # {} /\ Goes(p, "failed")
    /\ UNCHANGED <<server, current, found>>

FleetStep(p) == \/ getKubeconfigData(p) \/ createKubeconfig(p)
                \/ switchContext(p) \/ getConfig(p) \/ generated(p)
                \/ resetContext(p) \/ restoreContext(p)
                \/ onboardSveltosCluster(p)

Step(p) == \/ FleetStep(p)
           \/ GenerateStep(p) /\ UNCHANGED <<current, found>>

TokenController == /\ \E c \in Contexts, a \in Accounts : Fill(c, a)
                   /\ UNCHANGED <<current, found>>

Next == TokenController \/ \E p \in Procs : Begin(p) \/ Step(p)

Spec == Init /\ [][Next]_vars

(* A command runs on while its calls are answered; the token controller    *)
(* gets round to every Secret.                                             *)
FairSpec == /\ Spec
            /\ WF_vars(TokenController)
            /\ \A p \in Procs : WF_vars(Step(p))

-----------------------------------------------------------------------------
(* Properties                                                              *)

(* Every variable has its type. *)
TypeOK ==
    /\ server \in [Contexts -> Objects]
    /\ proc \in [Procs -> Locals]
    /\ current \in Contexts
    /\ found \in [Procs -> Contexts \cup {Nobody}]

Undisturbed(p) == proc[p].cmd.op = "fleet" /\ found[p] # Nobody

(* Registering a fleet cluster, while no other process switches contexts,  *)
(* leaves the file as it was found when it succeeds; when it fails, the    *)
(* file points there or to the fleet cluster.                              *)
ContextRestored ==
    \A p \in Procs : Undisturbed(p) =>
        /\ proc[p].at = "ok" => current = found[p]
        /\ proc[p].at = "failed" => current \in {found[p], proc[p].cmd.context}

(* README.md:81-86: an undisturbed registration takes place in the cluster *)
(* that was current when it started, with a kubeconfig for the             *)
(* ServiceAccount projectsveltos of the cluster that was asked for.        *)
RegistersAskedCluster ==
    \A p \in Procs : Undisturbed(p) /\ proc[p].at = "onboardSveltosCluster" =>
        /\ proc[p].management = found[p]
        /\ proc[p].kubeconfig = [cluster |-> proc[p].cmd.context,
                                 account |-> Projectsveltos]

(* Every command ends, unless a Get of getToken has failed: getToken waits *)
(* for a token as long as it takes, and the token controller provides it.  *)
WaitEnds == \A p \in Procs :
                Running(p) ~> (~Running(p) \/ proc[p].misses > 0)
=============================================================================
