------------------------------ MODULE FleetProofs ------------------------------
(***************************************************************************)
(* Theorems about Fleet, for any number of processes, contexts, accounts   *)
(* and command lines.                                                      *)
(***************************************************************************)
EXTENDS Fleet, TLAPS

Positions == Functions \cup Switches \cup Ended

-----------------------------------------------------------------------------
(* Types                                                                   *)

LEMMA CommandType ==
    ASSUME NEW m \in Commands
    PROVE  /\ m.account \in Accounts /\ m.satoken \in BOOLEAN
           /\ m.create \in BOOLEAN
           /\ m.op = "fleet" => m.account = Projectsveltos /\ m.create
           /\ EntryPoint(m) \in Functions /\ TokenCall(m) \in Functions
BY CommandsAssumption, AccountsAssumption
   DEF GenerateLines, FleetLines, EntryPoint, TokenCall, Functions

LEMMA LocalType ==
    ASSUME TypeOK, NEW p \in Procs
    PROVE  /\ proc[p] \in Locals
           /\ proc[p].cmd \in Commands
           /\ proc[p].target \in Contexts
           /\ server[proc[p].target] \in Objects
BY DEF TypeOK, Locals

LEMMA ProcessType ==
    ASSUME NEW f \in Positions, NEW m \in Commands, NEW c \in Contexts
    PROVE  Process(f, m, c) \in Locals
BY RetriesAssumption DEF Process, Locals, Positions

(* What a step does to a process that goes on: its own state changes, and  *)
(* nobody else's.                                                          *)
Alone(p) == \A q \in Procs : q # p => proc'[q] = proc[q]
Kept(p) == /\ proc'[p].cmd = proc[p].cmd
           /\ proc'[p].management = proc[p].management
           /\ proc'[p].outer = proc[p].outer
           /\ proc'[p].inner = proc[p].inner
           /\ proc'[p].target = proc[p].target

LEMMA GoesMeans ==
    ASSUME TypeOK, NEW p \in Procs, NEW to \in Positions, Goes(p, to)
    PROVE  /\ proc' \in [Procs -> Locals]
           /\ Alone(p)
           /\ proc'[p].at = to /\ proc'[p].cmd = proc[p].cmd
           /\ to \in Ended => proc'[p].kubeconfig = NoKubeconfig
           /\ to \notin Ended => /\ Kept(p)
                                 /\ proc'[p].kubeconfig = proc[p].kubeconfig
<1>. DEFINE c == CHOOSE c \in Contexts : TRUE
<1>1. /\ proc[p] \in Locals /\ proc[p].cmd \in Commands
      /\ proc[p].target \in Contexts /\ proc \in [Procs -> Locals]
  BY LocalType DEF TypeOK
<1>2. c \in Contexts
  BY <1>1
<1>3. CASE to \in Ended
  <2>1. proc' = [proc EXCEPT ![p] = Process(to, proc[p].cmd, c)]
    BY <1>1, <1>3 DEF Goes
  <2>2. Process(to, proc[p].cmd, c) \in Locals
    BY <1>1, <1>2, ProcessType
  <2>3. proc'[p] = Process(to, proc[p].cmd, c)
    BY <1>1, <2>1
  <2>. QED BY <1>1, <1>3, <2>1, <2>2, <2>3 DEF Process, Alone
<1>4. CASE to \notin Ended
  <2>1. proc' = [proc EXCEPT ![p] = [proc[p] EXCEPT !.at = to]]
    BY <1>1, <1>4 DEF Goes
  <2>2. [proc[p] EXCEPT !.at = to] \in Locals
    BY <1>1 DEF Locals, Positions
  <2>3. proc'[p] = [proc[p] EXCEPT !.at = to]
    BY <1>1, <2>1
  <2>. QED BY <1>1, <1>4, <2>1, <2>2, <2>3 DEF Alone, Kept, Locals
<1>. QED BY <1>3, <1>4

LEMMA CreateType ==
    ASSUME TypeOK, NEW p \in Procs, NEW next \in Positions,
           NEW missing \in BOOLEAN, NEW housed \in BOOLEAN,
           NEW written \in Objects, Create(p, missing, housed, written, next)
    PROVE  server' \in [Contexts -> Objects] /\ proc' \in [Procs -> Locals]
<1>1. PICK answer \in {"served"} \cup Faults :
         /\ server' = IF missing /\ housed /\ answer # "refused"
                      THEN [server EXCEPT ![proc[p].target] = written] ELSE server
         /\ Goes(p, IF answer = "served" /\ (missing => housed) THEN next
                    ELSE "failed")
  BY DEF Create
<1>2. (IF answer = "served" /\ (missing => housed) THEN next ELSE "failed") \in Positions
  BY DEF Positions, Ended
<1>3. proc' \in [Procs -> Locals]
  BY <1>1, <1>2, GoesMeans
<1>4. server' \in [Contexts -> Objects]
  BY <1>1, LocalType DEF TypeOK
<1>. QED BY <1>3, <1>4

LEMMA GenerateType ==
    ASSUME TypeOK, NEW p \in Procs, GenerateStep(p)
    PROVE  server' \in [Contexts -> Objects] /\ proc' \in [Procs -> Locals]
<1>. DEFINE s == server[proc[p].target]
            a == proc[p].cmd.account
            n == NamespaceOf[a]
<1>1. /\ proc[p] \in Locals /\ proc[p].cmd \in Commands
      /\ proc[p].target \in Contexts /\ s \in Objects
      /\ server \in [Contexts -> Objects] /\ proc \in [Procs -> Locals]
  BY LocalType DEF TypeOK
<1>2. /\ a \in Accounts /\ n \in {NamespaceOf[b] : b \in Accounts}
      /\ TokenCall(proc[p].cmd) \in Positions
  BY <1>1, CommandType DEF Positions
<1>3. {"createServiceAccount", "createClusterRole", "createClusterRoleBinding",
       "getServiceAccount", "getToken", "sleep", "failed", "ok"} \subseteq Positions
  BY DEF Positions, Functions, Ended
<1>4. Housed(p) \in BOOLEAN /\ (n \notin s.namespaces) \in BOOLEAN
      /\ (a \notin s.accounts) \in BOOLEAN /\ (~s.role) \in BOOLEAN
      /\ (s.bound = Nobody) \in BOOLEAN /\ (s.secrets[a] = "none") \in BOOLEAN
  BY DEF Housed
<1>5. CASE createNamespace(p)
  <2>1. [s EXCEPT !.namespaces = @ \cup {n}] \in Objects
    BY <1>1, <1>2 DEF Objects
  <2>. QED BY <1>3, <1>4, <1>5, <2>1, CreateType DEF createNamespace, Target
<1>6. CASE createServiceAccount(p)
  <2>1. [s EXCEPT !.accounts = @ \cup {a}] \in Objects
    BY <1>1, <1>2 DEF Objects
  <2>. QED BY <1>3, <1>4, <1>6, <2>1, CreateType DEF createServiceAccount, Target
<1>7. CASE createClusterRole(p)
  <2>1. [s EXCEPT !.role = TRUE] \in Objects
    BY <1>1 DEF Objects
  <2>. QED BY <1>3, <1>4, <1>7, <2>1, CreateType DEF createClusterRole, Target
<1>8. CASE createClusterRoleBinding(p)
  <2>1. [s EXCEPT !.bound = a] \in Objects
    BY <1>1, <1>2 DEF Objects
  <2>. QED BY <1>2, <1>4, <1>8, <2>1, CreateType DEF createClusterRoleBinding, Target
<1>9. CASE createSecret(p)
  <2>1. [s EXCEPT !.secrets[a] = "empty"] \in Objects
    BY <1>1, <1>2 DEF Objects
  <2>. QED BY <1>3, <1>4, <1>9, <2>1, CreateType DEF createSecret, Target
<1>10. CASE getNamespace(p) \/ getServiceAccount(p)
  <2>1. PICK to \in Positions : Goes(p, to) /\ UNCHANGED server
    BY <1>2, <1>3, <1>10 DEF getNamespace, getServiceAccount, Get
  <2>. QED BY <1>1, <2>1, GoesMeans
<1>11. ASSUME Generated(p) PROVE proc' \in [Procs -> Locals]
  <2>. DEFINE l == [proc[p] EXCEPT !.at = "generated",
                       !.kubeconfig = [cluster |-> proc[p].target, account |-> a]]
  <2>1. l \in Locals
    BY <1>1, <1>2 DEF Locals, Kubeconfigs, Functions
  <2>2. proc' = [proc EXCEPT ![p] = l]
    BY <1>1, <1>11 DEF Generated
  <2>. QED BY <1>1, <2>1, <2>2
<1>12. CASE getToken(p)
  <2>1. UNCHANGED server
    BY <1>12 DEF getToken
  <2>2. CASE Generated(p)
    BY <1>1, <1>11, <2>1, <2>2
  <2>3. CASE Goes(p, "sleep")
    BY <1>1, <1>3, <2>1, <2>3, GoesMeans
  <2>4. CASE proc' = [proc EXCEPT ![p].at = "sleep",
                        ![p].misses = IF @ <= MaxRetries THEN @ + 1 ELSE @]
    <3>. DEFINE l == [proc[p] EXCEPT !.at = "sleep",
                        !.misses = IF @ <= MaxRetries THEN @ + 1 ELSE @]
    <3>1. proc[p].misses \in 0 .. MaxRetries + 1
      BY <1>1 DEF Locals
    <3>2. (IF proc[p].misses <= MaxRetries THEN proc[p].misses + 1
           ELSE proc[p].misses) \in 0 .. MaxRetries + 1
      BY <3>1, RetriesAssumption
    <3>3. l \in Locals
      BY <1>1, <3>2 DEF Locals, Functions
    <3>4. proc' = [proc EXCEPT ![p] = l]
      BY <1>1, <2>4
    <3>. QED BY <1>1, <2>1, <3>3, <3>4
  <2>. QED BY <1>12, <2>2, <2>3, <2>4 DEF getToken
<1>13. CASE sleep(p)
  BY <1>1, <1>3, <1>13, GoesMeans DEF sleep
<1>14. CASE getServiceAccountTokenRequest(p)
  BY <1>1, <1>3, <1>11, <1>14, GoesMeans DEF getServiceAccountTokenRequest
<1>. QED BY <1>5, <1>6, <1>7, <1>8, <1>9, <1>10, <1>12, <1>13, <1>14 DEF GenerateStep

LEMMA SwitchType ==
    ASSUME TypeOK, NEW p \in Procs, NEW c, NEW next \in Positions,
           switchCurrentContext(p, c, next)
    PROVE  TypeOK'
<1>1. "failed" \in Positions
  BY DEF Positions, Ended
<1>2. proc' \in [Procs -> Locals]
  BY <1>1, GoesMeans DEF switchCurrentContext
<1>3. current' \in Contexts /\ found' \in [Procs -> Contexts \cup {Nobody}]
  BY DEF switchCurrentContext, TypeOK
<1>. QED BY <1>2, <1>3 DEF switchCurrentContext, TypeOK

LEMMA FleetType ==
    ASSUME TypeOK, NEW p \in Procs, FleetStep(p)
    PROVE  TypeOK'
<1>1. {"createKubeconfig", "switchContext", "getConfig", "resetContext",
       "restoreContext", "onboardSveltosCluster", "ok", "failed"} \subseteq Positions
  BY DEF Positions, Switches, Ended
<1>2. /\ proc[p] \in Locals /\ proc[p].cmd \in Commands
      /\ proc \in [Procs -> Locals] /\ current \in Contexts
  BY LocalType DEF TypeOK
<1>3. ASSUME UNCHANGED <<server, current, found>>, proc' \in [Procs -> Locals]
      PROVE  TypeOK'
  BY <1>3 DEF TypeOK
<1>4. CASE getKubeconfigData(p)
  <2>1. CASE proc' = [proc EXCEPT ![p].at = "createKubeconfig", ![p]["outer"] = current]
    <3>1. [proc[p] EXCEPT !.at = "createKubeconfig", !["outer"] = current] \in Locals
      BY <1>2 DEF Locals, Switches
    <3>. QED BY <1>2, <1>3, <1>4, <2>1, <3>1 DEF getKubeconfigData, ReadsContext
  <2>2. CASE Goes(p, "failed")
    BY <1>1, <1>3, <1>4, <2>2, GoesMeans DEF getKubeconfigData, ReadsContext
  <2>. QED BY <1>4, <2>1, <2>2 DEF getKubeconfigData, ReadsContext
<1>5. CASE createKubeconfig(p)
  <2>1. CASE proc' = [proc EXCEPT ![p].at = "switchContext", ![p]["inner"] = current]
    <3>1. [proc[p] EXCEPT !.at = "switchContext", !["inner"] = current] \in Locals
      BY <1>2 DEF Locals, Switches
    <3>. QED BY <1>2, <1>3, <1>5, <2>1, <3>1 DEF createKubeconfig, ReadsContext
  <2>2. CASE Goes(p, "failed")
    BY <1>1, <1>3, <1>5, <2>2, GoesMeans DEF createKubeconfig, ReadsContext
  <2>. QED BY <1>5, <2>1, <2>2 DEF createKubeconfig, ReadsContext
<1>6. CASE switchContext(p)
  BY <1>1, <1>6, SwitchType DEF switchContext
<1>7. CASE getConfig(p)
  <2>1. CASE proc' = [proc EXCEPT ![p].at = EntryPoint(proc[p].cmd),
                                  ![p].target = current]
    <3>1. [proc[p] EXCEPT !.at = EntryPoint(proc[p].cmd), !.target = current] \in Locals
      BY <1>2, CommandType DEF Locals
    <3>. QED BY <1>2, <1>3, <1>7, <2>1, <3>1 DEF getConfig
  <2>2. CASE Goes(p, "failed")
    BY <1>1, <1>3, <1>7, <2>2, GoesMeans DEF getConfig
  <2>. QED BY <1>7, <2>1, <2>2 DEF getConfig
<1>8. CASE generated(p)
  <2>1. PICK to \in Positions : Goes(p, to)
    BY <1>1, <1>8 DEF generated
  <2>. QED BY <1>3, <1>8, <2>1, GoesMeans DEF generated
<1>9. CASE resetContext(p)
  BY <1>1, <1>9, SwitchType DEF resetContext
<1>10. CASE restoreContext(p)
  BY <1>1, <1>10, SwitchType DEF restoreContext
<1>11. CASE onboardSveltosCluster(p)
  BY <1>1, <1>3, <1>11, GoesMeans DEF onboardSveltosCluster
<1>. QED BY <1>4, <1>5, <1>6, <1>7, <1>8, <1>9, <1>10, <1>11 DEF FleetStep

LEMMA BeginType ==
    ASSUME TypeOK, NEW p \in Procs, Begin(p)
    PROVE  TypeOK'
<1>1. PICK m \in Commands :
         proc' = [proc EXCEPT
                    ![p] = Process(IF m.op = "fleet" THEN "getKubeconfigData"
                                   ELSE EntryPoint(m), m, current)]
  BY DEF Begin
<1>2. (IF m.op = "fleet" THEN "getKubeconfigData" ELSE EntryPoint(m)) \in Positions
  BY CommandType DEF Positions, Switches
<1>3. proc' \in [Procs -> Locals]
  BY <1>1, <1>2, ProcessType DEF TypeOK
<1>. QED BY <1>3 DEF Begin, TypeOK

LEMMA ControllerType ==
    ASSUME TypeOK, TokenController
    PROVE  TypeOK'
<1>1. PICK c \in Contexts, a \in Accounts : Fill(c, a)
  BY DEF TokenController
<1>2. [server[c] EXCEPT !.secrets[a] = "filled"] \in Objects
  BY DEF TypeOK, Objects
<1>3. server' = [server EXCEPT ![c] = [server[c] EXCEPT !.secrets[a] = "filled"]]
  BY <1>1 DEF Fill, TypeOK
<1>. QED BY <1>1, <1>2, <1>3 DEF Fill, TokenController, TypeOK

LEMMA InitType == Init => TypeOK
<1>. SUFFICES ASSUME Init PROVE TypeOK
  OBVIOUS
<1>. DEFINE m == CHOOSE m \in Commands : TRUE
<1>1. m \in Commands
  BY CommandsAssumption
<1>2. Process("ready", m, current) \in Locals
  BY <1>1, ProcessType DEF Init, Positions, Ended
<1>3. Empty \in Objects
  BY DEF Empty, Objects
<1>. QED BY <1>2, <1>3 DEF Init, TypeOK

LEMMA NextType == TypeOK /\ [Next]_vars => TypeOK'
<1>. SUFFICES ASSUME TypeOK, [Next]_vars PROVE TypeOK'
  OBVIOUS
<1>1. CASE TokenController
  BY <1>1, ControllerType
<1>2. ASSUME NEW p \in Procs, Begin(p) PROVE TypeOK'
  BY <1>2, BeginType
<1>3. ASSUME NEW p \in Procs, FleetStep(p) PROVE TypeOK'
  BY <1>3, FleetType
<1>4. ASSUME NEW p \in Procs, GenerateStep(p), UNCHANGED <<current, found>>
      PROVE  TypeOK'
  BY <1>4, GenerateType DEF TypeOK
<1>5. CASE UNCHANGED vars
  BY <1>5 DEF vars, TypeOK
<1>. QED BY <1>1, <1>2, <1>3, <1>4, <1>5 DEF Next, Step

(* In every state each cluster holds well-formed objects, each process is  *)
(* at a call of its command, and the file names a context that is in it.   *)
THEOREM TypeCorrect == Spec => []TypeOK
BY InitType, NextType, PTL DEF Spec

-----------------------------------------------------------------------------
(* The inductive invariant                                                 *)

After == {"generated", "resetContext", "restoreContext", "onboardSveltosCluster"}
WithBinding == {"createSecret", "getToken", "sleep", "getServiceAccountTokenRequest"}
WithRole == WithBinding \cup {"createClusterRoleBinding"}
WithAccount == WithRole \cup {"createClusterRole"}

(* What a process has seen to, by where it is. *)
Progress(p) ==
    LET s == proc[p]
        m == s.cmd
        t == server[s.target]
    IN /\ s.at \in {"getNamespace", "getServiceAccount"} => ~m.create
       /\ s.at \in {"createSecret", "getToken", "sleep"} => m.satoken
       /\ s.at = "getServiceAccountTokenRequest" => ~m.satoken
       /\ s.at \in WithAccount \cup After => m.account \in t.accounts
       /\ m.create /\ s.at \in WithRole \cup After => t.role
       /\ m.create /\ s.at \in WithBinding \cup After => t.bound \in t.accounts
       /\ m.satoken /\ s.at \in After => t.secrets[m.account] = "filled"
       /\ s.kubeconfig = IF s.at \in After
                         THEN [cluster |-> s.target, account |-> m.account]
                         ELSE NoKubeconfig

Home == {"getKubeconfigData", "createKubeconfig", "switchContext",
         "restoreContext", "onboardSveltosCluster", "ok"}
Away == Functions \cup {"getConfig", "resetContext"}

(* Where the file points while a registration is on its way. *)
Way(p) ==
    Undisturbed(p) =>
        /\ proc[p].at # "ready"
        /\ proc[p].at \in Home => current = found[p]
        /\ proc[p].at \in Away => current = proc[p].cmd.context
        /\ proc[p].at = "failed" => current \in {found[p], proc[p].cmd.context}
        /\ proc[p].at \notin Ended => /\ proc[p].management = found[p]
                                      /\ proc[p].outer = found[p]
                                      /\ proc[p].inner = found[p]
        /\ proc[p].at \in Functions \cup After =>
               proc[p].target = proc[p].cmd.context

(* The account a cluster-admin binding was made for is there. *)
Bounded(s) == s.bound \in s.accounts \cup {Nobody}

Inv == /\ \A c \in Contexts : Bounded(server[c])
       /\ \A p \in Procs : Progress(p) /\ Way(p)

(* What was created stays, and a binding is not made for nobody's account. *)
Grows ==
    \A c \in Contexts :
        /\ server[c].accounts \subseteq server'[c].accounts
        /\ server[c].role => server'[c].role
        /\ server[c].bound \in server[c].accounts =>
               server'[c].bound \in server'[c].accounts
        /\ Bounded(server[c]) => Bounded(server'[c])
        /\ \A a \in Accounts : server[c].secrets[a] = "filled" =>
                                   server'[c].secrets[a] = "filled"

LEMMA SameGrows == UNCHANGED server => Grows
BY DEF Grows

(* A step of p in the interest of the others: it leaves them where they    *)
(* are, and either leaves the file or makes them disturbed.                *)
Considerate(p) ==
    /\ Grows
    /\ Alone(p)
    /\ \A q \in Procs : q # p => \/ found'[q] = Nobody
                                 \/ found'[q] = found[q] /\ current' = current

LEMMA ProgressKept ==
    ASSUME TypeOK, NEW p \in Procs, Progress(p), Grows, proc'[p] = proc[p]
    PROVE  Progress(p)'
<1>1. /\ proc[p].target \in Contexts /\ proc[p].cmd \in Commands
      /\ proc[p].cmd.account \in Accounts
  BY LocalType, CommandType
<1>. DEFINE t == server[proc[p].target]
            u == server'[proc[p].target]
<1>2. /\ t.accounts \subseteq u.accounts /\ (t.role => u.role)
      /\ (t.bound \in t.accounts => u.bound \in u.accounts)
      /\ (t.secrets[proc[p].cmd.account] = "filled" =>
             u.secrets[proc[p].cmd.account] = "filled")
  BY <1>1 DEF Grows
<1>. QED BY <1>2 DEF Progress

LEMMA OthersKeep ==
    ASSUME TypeOK, Inv, NEW p \in Procs, Considerate(p),
           NEW q \in Procs, q # p
    PROVE  Progress(q)' /\ Way(q)'
<1>1. Progress(q) /\ Way(q) /\ Grows /\ proc'[q] = proc[q]
  BY DEF Inv, Considerate, Alone
<1>2. Progress(q)'
  BY <1>1, ProgressKept
<1>3. CASE found'[q] = Nobody
  BY <1>2, <1>3 DEF Way, Undisturbed
<1>4. CASE found'[q] = found[q] /\ current' = current
  <2>1. Undisturbed(q)' = Undisturbed(q)
    BY <1>1, <1>4 DEF Undisturbed
  <2>. QED BY <1>1, <1>2, <1>4, <2>1 DEF Way
<1>. QED BY <1>3, <1>4 DEF Considerate

(* A process that fails leaves the file where it is. *)
LEMMA Fails ==
    ASSUME TypeOK, NEW p \in Procs, Way(p), Running(p),
           proc[p].at \in Home \cup Away, Goes(p, "failed"),
           UNCHANGED <<current, found>>
    PROVE  Progress(p)' /\ Way(p)'
<1>1. "failed" \in Positions /\ "failed" \in Ended
  BY DEF Positions, Ended
<1>2. /\ proc'[p].at = "failed" /\ proc'[p].cmd = proc[p].cmd
      /\ proc'[p].kubeconfig = NoKubeconfig
  BY <1>1, GoesMeans
<1>3. Progress(p)'
  BY <1>2 DEF Progress, WithAccount, WithRole, WithBinding, After
<1>4. Undisturbed(p)' = Undisturbed(p)
  BY <1>2 DEF Undisturbed
<1>5. Way(p)'
  BY <1>1, <1>2, <1>4 DEF Way, Home, Away, Functions, After
<1>. QED BY <1>3, <1>5

(* The steps of the calls on a cluster. *)
Works(p) ==
    /\ Grows /\ Alone(p)
    /\ proc'[p].cmd = proc[p].cmd
    /\ \/ Goes(p, "failed")
       \/ proc'[p].at \in Functions /\ Kept(p) /\ Progress(p)'

LEMMA CreateMeans ==
    ASSUME TypeOK, NEW p \in Procs, NEW next \in Positions \ Ended,
           NEW missing \in BOOLEAN, NEW housed,
           NEW written \in Objects, Create(p, missing, housed, written, next)
    PROVE  /\ \/ server' = server
              \/ missing /\ server' = [server EXCEPT ![proc[p].target] = written]
           /\ \/ Goes(p, "failed")
              \/ /\ Goes(p, next)
                 /\ missing => server'[proc[p].target] = written
                 /\ ~missing => server' = server
<1>1. PICK answer \in {"served"} \cup Faults :
         /\ server' = IF missing /\ housed /\ answer # "refused"
                      THEN [server EXCEPT ![proc[p].target] = written] ELSE server
         /\ Goes(p, IF answer = "served" /\ (missing => housed) THEN next
                    ELSE "failed")
  BY DEF Create
<1>2. proc[p].target \in Contexts
  BY LocalType
<1>3. CASE answer = "served" /\ (missing => housed)
  BY <1>1, <1>2, <1>3 DEF TypeOK
<1>4. CASE ~(answer = "served" /\ (missing => housed))
  BY <1>1, <1>4
<1>. QED BY <1>3, <1>4

(* One object of the target grows, if at all. *)
LEMMA WriteGrows ==
    ASSUME TypeOK, NEW p \in Procs, NEW written \in Objects,
           LET s == server[proc[p].target]
           IN /\ s.accounts \subseteq written.accounts
              /\ s.role => written.role
              /\ s.bound \in s.accounts => written.bound \in written.accounts
              /\ Bounded(s) => Bounded(written)
              /\ \A a \in Accounts : s.secrets[a] = "filled" =>
                                         written.secrets[a] = "filled",
           \/ server' = server
           \/ server' = [server EXCEPT ![proc[p].target] = written]
    PROVE  Grows
<1>1. CASE server' = server
  BY <1>1, SameGrows
<1>2. CASE server' = [server EXCEPT ![proc[p].target] = written]
  BY <1>2 DEF Grows, TypeOK
<1>. QED BY <1>1, <1>2

(* A process that goes on from one call of a cluster to the next. *)
LEMMA GoesOn ==
    ASSUME TypeOK, NEW p \in Procs, NEW to \in Functions, Goes(p, to)
    PROVE  /\ Alone(p) /\ Kept(p) /\ proc'[p].at = to
           /\ proc'[p].kubeconfig = proc[p].kubeconfig
BY GoesMeans DEF Positions, Functions, Ended

LEMMA FailsAlone ==
    ASSUME TypeOK, NEW p \in Procs, Goes(p, "failed")
    PROVE  Alone(p) /\ proc'[p].cmd = proc[p].cmd
BY GoesMeans DEF Positions, Ended

(* What is in u is in w. *)
Enlarges(u, w) ==
    /\ u.accounts \subseteq w.accounts
    /\ u.role => w.role
    /\ u.bound \in u.accounts => w.bound \in w.accounts
    /\ Bounded(u) => Bounded(w)
    /\ \A a \in Accounts : u.secrets[a] = "filled" => w.secrets[a] = "filled"

(* A call that creates an object, given what it has to see to. *)
LEMMA CreateWorks ==
    ASSUME TypeOK, NEW p \in Procs, NEW next \in Functions,
           NEW missing \in BOOLEAN, NEW housed,
           NEW written \in Objects, Create(p, missing, housed, written, next),
           missing => Enlarges(server[proc[p].target], written)
    PROVE  /\ Grows /\ Alone(p) /\ proc'[p].cmd = proc[p].cmd
           /\ \/ Goes(p, "failed")
              \/ /\ proc'[p].at = next /\ Kept(p)
                 /\ proc'[p].kubeconfig = proc[p].kubeconfig
                 /\ missing => server'[proc[p].target] = written
                 /\ ~missing => server' = server
<1>1. next \in Positions \ Ended
  BY DEF Positions, Functions, Ended
<1>2. /\ \/ server' = server
         \/ missing /\ server' = [server EXCEPT ![proc[p].target] = written]
      /\ \/ Goes(p, "failed")
         \/ /\ Goes(p, next)
            /\ missing => server'[proc[p].target] = written
            /\ ~missing => server' = server
  BY <1>1, CreateMeans
<1>3. Grows
  BY <1>2, SameGrows, WriteGrows DEF Enlarges
<1>4. CASE Goes(p, "failed")
  BY <1>3, <1>4, FailsAlone
<1>5. CASE ~Goes(p, "failed")
  BY <1>2, <1>3, <1>5, GoesOn DEF Kept
<1>. QED BY <1>4, <1>5

LEMMA GenerateWorks ==
    ASSUME TypeOK, NEW p \in Procs, Progress(p), GenerateStep(p),
           Bounded(server[proc[p].target])
    PROVE  Works(p)
<1>. DEFINE s == server[proc[p].target]
            m == proc[p].cmd
            a == m.account
            n == NamespaceOf[a]
<1>1. /\ proc[p] \in Locals /\ m \in Commands /\ s \in Objects
      /\ proc[p].target \in Contexts
      /\ server \in [Contexts -> Objects] /\ proc \in [Procs -> Locals]
  BY LocalType DEF TypeOK
<1>2. /\ a \in Accounts /\ n \in {NamespaceOf[b] : b \in Accounts}
      /\ TokenCall(m) \in Functions /\ a # Nobody
      /\ m.create \in BOOLEAN /\ m.satoken \in BOOLEAN
  BY <1>1, CommandType, AccountsAssumption
<1>3. {"createServiceAccount", "createClusterRole", "createClusterRoleBinding",
       "getServiceAccount", "getToken", "sleep", "generated"} \subseteq Functions
  BY DEF Functions
<1>4. Housed(p) = (n \in s.namespaces)
  BY DEF Housed, Target
<1>5. TokenCall(m) = IF m.satoken THEN "createSecret"
                     ELSE "getServiceAccountTokenRequest"
  BY DEF TokenCall
<1>6. CASE createNamespace(p)
  <2>. DEFINE w == [s EXCEPT !.namespaces = @ \cup {n}]
  <2>1. w \in Objects /\ w.accounts = s.accounts /\ w.role = s.role
        /\ w.bound = s.bound /\ w.secrets = s.secrets
    BY <1>1, <1>2 DEF Objects
  <2>2. Create(p, n \notin s.namespaces, TRUE, w, "createServiceAccount")
    BY <1>6 DEF createNamespace, Target
  <2>0. ((n \notin s.namespaces) \in BOOLEAN) /\ Enlarges(s, w)
    BY <1>1, <1>2, <2>1 DEF Objects, Enlarges, Bounded
  <2>. HIDE DEF w
  <2>3. /\ Grows /\ Alone(p) /\ proc'[p].cmd = m
        /\ \/ Goes(p, "failed")
           \/ /\ proc'[p].at = "createServiceAccount" /\ Kept(p)
              /\ proc'[p].kubeconfig = proc[p].kubeconfig
    BY <1>3, <2>1, <2>2, <2>0, CreateWorks
  <2>4. proc[p].kubeconfig = NoKubeconfig
    BY <1>6 DEF createNamespace, Progress, After
  <2>. QED BY <1>3, <2>3, <2>4
    DEF Works, Progress, After, WithAccount, WithRole, WithBinding
<1>7. CASE createServiceAccount(p)
  <2>. DEFINE w == [s EXCEPT !.accounts = @ \cup {a}]
  <2>1. w \in Objects /\ w.accounts = s.accounts \cup {a} /\ w.role = s.role
        /\ w.bound = s.bound /\ w.secrets = s.secrets
    BY <1>1, <1>2 DEF Objects
  <2>2. Create(p, a \notin s.accounts, n \in s.namespaces, w,
             "createClusterRole")
    BY <1>4, <1>7 DEF createServiceAccount, Target
  <2>0. ((a \notin s.accounts) \in BOOLEAN) /\ Enlarges(s, w)
    BY <1>1, <1>2, <2>1 DEF Objects, Enlarges, Bounded
  <2>. HIDE DEF w
  <2>3. /\ Grows /\ Alone(p) /\ proc'[p].cmd = m
        /\ \/ Goes(p, "failed")
           \/ /\ proc'[p].at = "createClusterRole" /\ Kept(p)
              /\ proc'[p].kubeconfig = proc[p].kubeconfig
              /\ a \notin s.accounts => server'[proc[p].target] = w
              /\ ~(a \notin s.accounts) => server' = server
    BY <1>3, <2>1, <2>2, <2>0, CreateWorks
  <2>4. proc[p].kubeconfig = NoKubeconfig
    BY <1>7 DEF createServiceAccount, Progress, After
  <2>. QED BY <1>3, <2>1, <2>3, <2>4
    DEF Works, Kept, Progress, After, WithAccount, WithRole, WithBinding
<1>8. CASE createClusterRole(p)
  <2>. DEFINE w == [s EXCEPT !.role = TRUE]
  <2>1. w \in Objects /\ w.accounts = s.accounts /\ w.role
        /\ w.bound = s.bound /\ w.secrets = s.secrets
    BY <1>1, <1>2 DEF Objects
  <2>2. Create(p, ~s.role, TRUE, w, "createClusterRoleBinding")
    BY <1>8 DEF createClusterRole, Target
  <2>0. ((~s.role) \in BOOLEAN) /\ Enlarges(s, w)
    BY <1>1, <1>2, <2>1 DEF Objects, Enlarges, Bounded
  <2>. HIDE DEF w
  <2>3. /\ Grows /\ Alone(p) /\ proc'[p].cmd = m
        /\ \/ Goes(p, "failed")
           \/ /\ proc'[p].at = "createClusterRoleBinding" /\ Kept(p)
              /\ proc'[p].kubeconfig = proc[p].kubeconfig
              /\ ~s.role => server'[proc[p].target] = w
              /\ ~(~s.role) => server' = server
    BY <1>3, <2>1, <2>2, <2>0, CreateWorks
  <2>4. proc[p].kubeconfig = NoKubeconfig /\ a \in s.accounts
    BY <1>8 DEF createClusterRole, Progress, After, WithAccount
  <2>. QED BY <1>3, <2>1, <2>3, <2>4
    DEF Works, Kept, Progress, After, WithAccount, WithRole, WithBinding
<1>9. CASE createClusterRoleBinding(p)
  <2>. DEFINE w == [s EXCEPT !.bound = a]
  <2>1. w \in Objects /\ w.accounts = s.accounts /\ w.role = s.role
        /\ w.bound = a /\ w.secrets = s.secrets
    BY <1>1, <1>2 DEF Objects
  <2>2. Create(p, s.bound = Nobody, TRUE, w, TokenCall(m))
    BY <1>9 DEF createClusterRoleBinding, Target
  <2>0. a \in s.accounts /\ ((s.bound = Nobody) \in BOOLEAN) /\ Enlarges(s, w)
    BY <1>1, <1>2, <1>9, <2>1
    DEF createClusterRoleBinding, Progress, After, WithAccount, WithRole,
        Objects, Enlarges, Bounded
  <2>. HIDE DEF w
  <2>3. /\ Grows /\ Alone(p) /\ proc'[p].cmd = m
        /\ \/ Goes(p, "failed")
           \/ /\ proc'[p].at = TokenCall(m) /\ Kept(p)
              /\ proc'[p].kubeconfig = proc[p].kubeconfig
              /\ s.bound = Nobody => server'[proc[p].target] = w
              /\ ~(s.bound = Nobody) => server' = server
    BY <1>2, <2>1, <2>2, <2>0, CreateWorks
  <2>4. /\ proc[p].kubeconfig = NoKubeconfig /\ a \in s.accounts
        /\ m.create => s.role
    BY <1>9 DEF createClusterRoleBinding, Progress, After, WithAccount, WithRole
  <2>5. s.bound = Nobody \/ s.bound \in s.accounts
    BY DEF Bounded
  <2>. QED BY <1>2, <1>5, <2>1, <2>3, <2>4, <2>5
    DEF Works, Kept, Progress, After, WithAccount, WithRole, WithBinding
<1>10. CASE createSecret(p)
  <2>. DEFINE w == [s EXCEPT !.secrets[a] = "empty"]
  <2>1. w \in Objects /\ w.accounts = s.accounts /\ w.role = s.role
        /\ w.bound = s.bound
        /\ \A b \in Accounts : b # a => w.secrets[b] = s.secrets[b]
    BY <1>1, <1>2 DEF Objects
  <2>2. Create(p, s.secrets[a] = "none", n \in s.namespaces, w, "getToken")
    BY <1>4, <1>10 DEF createSecret, Target
  <2>0. /\ (s.secrets[a] = "none") \in BOOLEAN
        /\ s.secrets[a] = "none" => Enlarges(s, w)
    BY <1>1, <1>2, <2>1 DEF Objects, Enlarges, Bounded
  <2>. HIDE DEF w
  <2>3. /\ Grows /\ Alone(p) /\ proc'[p].cmd = m
        /\ \/ Goes(p, "failed")
           \/ /\ proc'[p].at = "getToken" /\ Kept(p)
              /\ proc'[p].kubeconfig = proc[p].kubeconfig
              /\ s.secrets[a] = "none" => server'[proc[p].target] = w
              /\ ~(s.secrets[a] = "none") => server' = server
    BY <1>3, <2>1, <2>2, <2>0, CreateWorks
  <2>4. /\ proc[p].kubeconfig = NoKubeconfig /\ a \in s.accounts
        /\ m.create => s.role /\ s.bound \in s.accounts
        /\ m.satoken
    BY <1>10 DEF createSecret, Progress, After, WithAccount, WithRole, WithBinding
  <2>. QED BY <1>3, <2>1, <2>3, <2>4
    DEF Works, Kept, Progress, After, WithAccount, WithRole, WithBinding
<1>11. ASSUME NEW to \in Functions \cup {"failed"}, Goes(p, to), UNCHANGED server,
              to \in WithBinding => proc[p].at \in WithBinding,
              to \in {"getToken", "sleep"} => m.satoken,
              to \in {"getServiceAccount", "getToken", "sleep", "failed"},
              to = "getServiceAccount" => ~m.create,
              proc[p].at \notin After
       PROVE  Works(p)
  <2>1. CASE to = "failed"
    BY <1>11, <2>1, SameGrows, FailsAlone DEF Works
  <2>2. CASE to \in Functions
    <3>1. /\ Grows /\ Alone(p) /\ Kept(p) /\ proc'[p].at = to
          /\ proc'[p].kubeconfig = proc[p].kubeconfig
      BY <1>11, <2>2, SameGrows, GoesOn
    <3>. QED BY <1>11, <2>2, <3>1
      DEF Works, Kept, Progress, After, WithAccount, WithRole, WithBinding
  <2>. QED BY <2>1, <2>2
<1>12. CASE getNamespace(p)
  <2>1. ~m.create
    BY <1>12 DEF getNamespace, Progress
  <2>2. PICK to \in {"getServiceAccount", "failed"} : Goes(p, to) /\ UNCHANGED server
    BY <1>12 DEF getNamespace, Get
  <2>. QED BY <1>3, <1>11, <1>12, <2>1, <2>2 DEF getNamespace, WithBinding, After
<1>13. CASE getServiceAccount(p)
  <2>1. ~m.create /\ proc[p].at = "getServiceAccount" /\ proc[p].kubeconfig = NoKubeconfig
    BY <1>13 DEF getServiceAccount, Progress, After
  <2>2. UNCHANGED server
    BY <1>13 DEF getServiceAccount, Get
  <2>3. CASE Goes(p, "failed")
    BY <2>2, <2>3, SameGrows, FailsAlone DEF Works
  <2>4. CASE ~Goes(p, "failed")
    <3>1. a \in s.accounts /\ Goes(p, TokenCall(m))
      BY <1>13, <2>4 DEF getServiceAccount, Get, Target
    <3>2. /\ Grows /\ Alone(p) /\ Kept(p) /\ proc'[p].at = TokenCall(m)
          /\ proc'[p].kubeconfig = proc[p].kubeconfig
      BY <1>2, <2>2, <3>1, SameGrows, GoesOn
    <3>. QED BY <1>2, <1>5, <2>1, <2>2, <3>1, <3>2
      DEF Works, Kept, Progress, After, WithAccount, WithRole, WithBinding
  <2>. QED BY <2>3, <2>4
<1>14. ASSUME Generated(p), UNCHANGED server, proc[p].at \in WithBinding,
              m.satoken => s.secrets[a] = "filled", a \in s.accounts
       PROVE  Works(p)
  <2>1. /\ Alone(p) /\ Kept(p) /\ proc'[p].at = "generated"
        /\ proc'[p].kubeconfig = [cluster |-> proc[p].target, account |-> a]
    BY <1>1, <1>14 DEF Generated, Alone, Kept, Locals
  <2>2. m.create => s.role /\ s.bound \in s.accounts
    BY <1>14 DEF Progress, WithRole
  <2>. QED BY <1>3, <1>14, <2>1, <2>2, SameGrows
    DEF Works, Kept, Progress, After, WithAccount, WithRole, WithBinding
<1>15. CASE getToken(p)
  <2>1. /\ UNCHANGED server /\ proc[p].at = "getToken" /\ m.satoken
        /\ a \in s.accounts
    BY <1>15 DEF getToken, Progress, WithAccount, WithRole, WithBinding
  <2>2. CASE s.secrets[a] = "filled" /\ Generated(p)
    BY <1>14, <2>1, <2>2 DEF WithBinding
  <2>3. CASE Goes(p, "sleep")
    BY <1>3, <1>11, <2>1, <2>3 DEF WithBinding, After
  <2>4. CASE proc' = [proc EXCEPT ![p].at = "sleep",
                        ![p].misses = IF @ <= MaxRetries THEN @ + 1 ELSE @]
    <3>1. /\ Alone(p) /\ Kept(p) /\ proc'[p].at = "sleep"
          /\ proc'[p].kubeconfig = proc[p].kubeconfig
      BY <1>1, <2>4 DEF Alone, Kept, Locals
    <3>. QED BY <1>3, <2>1, <3>1, SameGrows
      DEF Works, Kept, Progress, After, WithAccount, WithRole, WithBinding
  <2>. QED BY <1>15, <2>2, <2>3, <2>4 DEF getToken, Target
<1>16. CASE sleep(p)
  <2>1. proc[p].at = "sleep" /\ m.satoken
    BY <1>16 DEF sleep, Progress
  <2>. QED BY <1>3, <1>11, <1>16, <2>1 DEF sleep, WithBinding, After
<1>17. CASE getServiceAccountTokenRequest(p)
  <2>1. /\ proc[p].at = "getServiceAccountTokenRequest" /\ ~m.satoken
        /\ UNCHANGED server
    BY <1>17 DEF getServiceAccountTokenRequest, Progress
  <2>2. CASE Goes(p, "failed")
    BY <2>1, <2>2, SameGrows, FailsAlone DEF Works
  <2>3. CASE ~Goes(p, "failed")
    <3>1. a \in s.accounts /\ Generated(p)
      BY <1>17, <2>3 DEF getServiceAccountTokenRequest, Target
    <3>. QED BY <1>14, <2>1, <3>1 DEF WithBinding
  <2>. QED BY <2>2, <2>3
<1>. QED BY <1>6, <1>7, <1>8, <1>9, <1>10, <1>12, <1>13, <1>15, <1>16, <1>17
  DEF GenerateStep

LEMMA GenerateKeeps ==
    ASSUME TypeOK, Inv, NEW p \in Procs, GenerateStep(p),
           UNCHANGED <<current, found>>
    PROVE  Considerate(p) /\ Progress(p)' /\ Way(p)'
<1>1. Progress(p) /\ Way(p) /\ Bounded(server[proc[p].target])
  BY LocalType DEF Inv
<1>2. Works(p)
  BY <1>1, GenerateWorks
<1>3. proc[p].at \in Functions
  BY DEF GenerateStep, createNamespace, createServiceAccount, createClusterRole,
         createClusterRoleBinding, getNamespace, getServiceAccount, createSecret,
         getToken, sleep, getServiceAccountTokenRequest, Functions
<1>4. Considerate(p)
  BY <1>2 DEF Works, Considerate
<1>5. CASE Goes(p, "failed")
  <2>1. proc[p].at \in Home \cup Away /\ Running(p)
    BY <1>3 DEF Away, Running, Functions, Ended
  <2>. QED BY <1>1, <1>4, <1>5, <2>1, Fails
<1>6. CASE proc'[p].at \in Functions /\ Kept(p) /\ Progress(p)'
  <2>1. Undisturbed(p)' = Undisturbed(p)
    BY <1>6 DEF Undisturbed, Kept
  <2>. QED BY <1>1, <1>3, <1>4, <1>6, <2>1
    DEF Way, Kept, Home, Away, Functions, After, Ended
<1>. QED BY <1>2, <1>5, <1>6 DEF Works

(* A switch of the current-context that goes on to the next step. *)
LEMMA SwitchKeeps ==
    ASSUME TypeOK, Inv, NEW p \in Procs, NEW c, NEW next \in Switches,
           switchCurrentContext(p, c, next), ~Goes(p, "failed")
    PROVE  /\ Considerate(p) /\ current' = c /\ Kept(p)
           /\ server' = server /\ found'[p] = found[p]
           /\ proc'[p].at = next /\ proc'[p].kubeconfig = proc[p].kubeconfig
<1>1. next \in Positions /\ next \notin Ended
  BY DEF Positions, Switches, Ended
<1>2. /\ current' = c /\ Goes(p, next) /\ server' = server
      /\ found' = [q \in Procs |-> IF q = p THEN found[q] ELSE Nobody]
  BY DEF switchCurrentContext
<1>3. /\ Alone(p) /\ proc'[p].at = next /\ Kept(p)
      /\ proc'[p].kubeconfig = proc[p].kubeconfig
  BY <1>1, <1>2, GoesMeans
<1>. QED BY <1>2, <1>3, SameGrows DEF Considerate

LEMMA SwitchFails ==
    ASSUME TypeOK, NEW p \in Procs, NEW c, NEW next \in Switches,
           switchCurrentContext(p, c, next), Goes(p, "failed")
    PROVE  UNCHANGED <<server, current, found>>
<1>1. next \in Positions /\ "failed" \in Positions /\ next # "failed"
  BY DEF Positions, Switches, Ended
<1>2. proc'[p].at = "failed"
  BY <1>1, GoesMeans
<1>3. ~Goes(p, next)
  BY <1>1, <1>2, GoesMeans
<1>. QED BY <1>3 DEF switchCurrentContext

LEMMA FailsKeeps ==
    ASSUME TypeOK, Inv, NEW p \in Procs, Running(p),
           proc[p].at \in Home \cup Away, Goes(p, "failed"),
           UNCHANGED <<server, current, found>>
    PROVE  Considerate(p) /\ Progress(p)' /\ Way(p)'
<1>1. Way(p)
  BY DEF Inv
<1>2. Progress(p)' /\ Way(p)'
  BY <1>1, Fails
<1>3. Considerate(p)
  BY FailsAlone, SameGrows DEF Considerate
<1>. QED BY <1>2, <1>3

LEMMA FleetKeeps ==
    ASSUME TypeOK, Inv, NEW p \in Procs, FleetStep(p)
    PROVE  Considerate(p) /\ Progress(p)' /\ Way(p)'
<1>1. /\ Progress(p) /\ Way(p) /\ proc[p] \in Locals
      /\ proc \in [Procs -> Locals] /\ proc[p].cmd \in Commands
  BY LocalType DEF Inv, TypeOK
<1>2. /\ server' = server
      /\ proc[p].at \in Home \cup Away /\ Running(p)
  BY DEF FleetStep, getKubeconfigData, createKubeconfig, switchContext,
         getConfig, generated, resetContext, restoreContext,
         onboardSveltosCluster, ReadsContext, switchCurrentContext,
         Home, Away, Functions, Running, Ended
<1>3. ASSUME Goes(p, "failed"), UNCHANGED <<server, current, found>>
      PROVE  Considerate(p) /\ Progress(p)' /\ Way(p)'
  BY <1>2, <1>3, FailsKeeps
<1>4. {"createKubeconfig", "switchContext", "getConfig", "restoreContext",
       "onboardSveltosCluster"} \subseteq Switches
  BY DEF Switches
<1>5. CASE getKubeconfigData(p)
  <2>1. proc[p].at = "getKubeconfigData" /\ UNCHANGED <<server, current, found>>
    BY <1>5 DEF getKubeconfigData, ReadsContext
  <2>2. CASE proc' = [proc EXCEPT ![p].at = "createKubeconfig", ![p]["outer"] = current]
    <3>. DEFINE l == [proc[p] EXCEPT !.at = "createKubeconfig", !["outer"] = current]
    <3>1. /\ Alone(p) /\ proc'[p] = l
      BY <1>1, <2>2 DEF Alone
    <3>2. /\ l.at = "createKubeconfig" /\ l.cmd = proc[p].cmd /\ l.outer = current
          /\ l.inner = proc[p].inner /\ l.management = proc[p].management
          /\ l.kubeconfig = proc[p].kubeconfig
      BY <1>1 DEF Locals
    <3>. HIDE DEF l
    <3>3. Undisturbed(p)' = Undisturbed(p)
      BY <2>1, <3>1, <3>2 DEF Undisturbed
    <3>. QED BY <1>1, <2>1, <3>1, <3>2, <3>3, SameGrows
      DEF Considerate, Progress, Way, Home, Away, Functions, Ended, After,
          WithAccount, WithRole, WithBinding
  <2>. QED BY <1>3, <1>5, <2>1, <2>2 DEF getKubeconfigData, ReadsContext
<1>6. CASE createKubeconfig(p)
  <2>1. proc[p].at = "createKubeconfig" /\ UNCHANGED <<server, current, found>>
    BY <1>6 DEF createKubeconfig, ReadsContext
  <2>2. CASE proc' = [proc EXCEPT ![p].at = "switchContext", ![p]["inner"] = current]
    <3>. DEFINE l == [proc[p] EXCEPT !.at = "switchContext", !["inner"] = current]
    <3>1. /\ Alone(p) /\ proc'[p] = l
      BY <1>1, <2>2 DEF Alone
    <3>2. /\ l.at = "switchContext" /\ l.cmd = proc[p].cmd /\ l.inner = current
          /\ l.outer = proc[p].outer /\ l.management = proc[p].management
          /\ l.kubeconfig = proc[p].kubeconfig
      BY <1>1 DEF Locals
    <3>. HIDE DEF l
    <3>3. Undisturbed(p)' = Undisturbed(p)
      BY <2>1, <3>1, <3>2 DEF Undisturbed
    <3>. QED BY <1>1, <2>1, <3>1, <3>2, <3>3, SameGrows
      DEF Considerate, Progress, Way, Home, Away, Functions, Ended, After,
          WithAccount, WithRole, WithBinding
  <2>. QED BY <1>3, <1>6, <2>1, <2>2 DEF createKubeconfig, ReadsContext
<1>7. CASE switchContext(p)
  <2>1. switchCurrentContext(p, proc[p].cmd.context, "getConfig")
        /\ proc[p].at = "switchContext"
    BY <1>7 DEF switchContext
  <2>2. CASE Goes(p, "failed")
    BY <1>3, <1>4, <2>1, <2>2, SwitchFails
  <2>3. CASE ~Goes(p, "failed")
    <3>1. /\ Considerate(p) /\ current' = proc[p].cmd.context /\ Kept(p)
          /\ server' = server /\ found'[p] = found[p]
          /\ proc'[p].at = "getConfig" /\ proc'[p].kubeconfig = proc[p].kubeconfig
      BY <1>4, <2>1, <2>3, SwitchKeeps
    <3>2. Undisturbed(p)' = Undisturbed(p)
      BY <3>1 DEF Undisturbed, Kept
    <3>. QED BY <1>1, <2>1, <3>1, <3>2
      DEF Kept, Progress, Way, Home, Away, Functions, Ended, After,
          WithAccount, WithRole, WithBinding
  <2>. QED BY <2>2, <2>3
<1>8. CASE getConfig(p)
  <2>1. proc[p].at = "getConfig" /\ UNCHANGED <<server, current, found>>
    BY <1>8 DEF getConfig
  <2>2. CASE proc' = [proc EXCEPT ![p].at = EntryPoint(proc[p].cmd),
                                  ![p].target = current]
    <3>. DEFINE l == [proc[p] EXCEPT !.at = EntryPoint(proc[p].cmd),
                                     !.target = current]
    <3>1. /\ Alone(p) /\ proc'[p] = l
      BY <1>1, <2>2 DEF Alone
    <3>2. /\ l.at = EntryPoint(proc[p].cmd) /\ l.cmd = proc[p].cmd
          /\ l.target = current /\ l.outer = proc[p].outer
          /\ l.inner = proc[p].inner /\ l.management = proc[p].management
          /\ l.kubeconfig = proc[p].kubeconfig
      BY <1>1 DEF Locals
    <3>. HIDE DEF l
    <3>3. Undisturbed(p)' = Undisturbed(p)
      BY <2>1, <3>1, <3>2 DEF Undisturbed
    <3>4. \/ l.at = "createNamespace"
          \/ l.at = "getNamespace" /\ ~proc[p].cmd.create
      BY <3>2 DEF EntryPoint
    <3>. QED BY <1>1, <2>1, <3>1, <3>2, <3>3, <3>4, SameGrows
      DEF Considerate, Progress, Way, Home, Away, Functions, Ended, After,
          WithAccount, WithRole, WithBinding
  <2>. QED BY <1>3, <1>8, <2>1, <2>2 DEF getConfig
<1>9. CASE generated(p)
  <2>1. /\ proc[p].at = "generated" /\ UNCHANGED <<server, current, found>>
        /\ "ok" \in Positions /\ "resetContext" \in Positions \ Ended
        /\ "ok" \in Ended
    BY <1>9 DEF generated, Positions, Switches, Ended
  <2>2. CASE proc[p].cmd.op = "fleet"
    <3>1. /\ Alone(p) /\ Kept(p) /\ proc'[p].at = "resetContext"
          /\ proc'[p].kubeconfig = proc[p].kubeconfig
      BY <1>9, <2>1, <2>2, GoesMeans DEF generated
    <3>2. Undisturbed(p)' = Undisturbed(p)
      BY <2>1, <3>1 DEF Undisturbed, Kept
    <3>. QED BY <1>1, <2>1, <3>1, <3>2, SameGrows
      DEF Considerate, Kept, Progress, Way, Home, Away, Functions, Ended, After,
          WithAccount, WithRole, WithBinding
  <2>3. CASE proc[p].cmd.op # "fleet"
    <3>1. /\ Alone(p) /\ proc'[p].at = "ok" /\ proc'[p].cmd = proc[p].cmd
          /\ proc'[p].kubeconfig = NoKubeconfig
      BY <1>9, <2>1, <2>3, GoesMeans DEF generated
    <3>2. Way(p)'
      BY <2>3, <3>1 DEF Way, Undisturbed
    <3>3. Progress(p)'
      BY <3>1 DEF Progress, After, WithAccount, WithRole, WithBinding
    <3>. QED BY <2>1, <3>1, <3>2, <3>3, SameGrows DEF Considerate
  <2>. QED BY <2>2, <2>3
<1>10. CASE resetContext(p)
  <2>1. switchCurrentContext(p, proc[p].inner, "restoreContext")
        /\ proc[p].at = "resetContext"
    BY <1>10 DEF resetContext
  <2>2. CASE Goes(p, "failed")
    BY <1>3, <1>4, <2>1, <2>2, SwitchFails
  <2>3. CASE ~Goes(p, "failed")
    <3>1. /\ Considerate(p) /\ current' = proc[p].inner /\ Kept(p)
          /\ server' = server /\ found'[p] = found[p]
          /\ proc'[p].at = "restoreContext" /\ proc'[p].kubeconfig = proc[p].kubeconfig
      BY <1>4, <2>1, <2>3, SwitchKeeps
    <3>2. Undisturbed(p)' = Undisturbed(p)
      BY <3>1 DEF Undisturbed, Kept
    <3>. QED BY <1>1, <2>1, <3>1, <3>2
      DEF Kept, Progress, Way, Home, Away, Functions, Ended, After,
          WithAccount, WithRole, WithBinding
  <2>. QED BY <2>2, <2>3
<1>11. CASE restoreContext(p)
  <2>1. switchCurrentContext(p, proc[p].outer, "onboardSveltosCluster")
        /\ proc[p].at = "restoreContext"
    BY <1>11 DEF restoreContext
  <2>2. CASE Goes(p, "failed")
    BY <1>3, <1>4, <2>1, <2>2, SwitchFails
  <2>3. CASE ~Goes(p, "failed")
    <3>1. /\ Considerate(p) /\ current' = proc[p].outer /\ Kept(p)
          /\ server' = server /\ found'[p] = found[p]
          /\ proc'[p].at = "onboardSveltosCluster"
          /\ proc'[p].kubeconfig = proc[p].kubeconfig
      BY <1>4, <2>1, <2>3, SwitchKeeps
    <3>2. Undisturbed(p)' = Undisturbed(p)
      BY <3>1 DEF Undisturbed, Kept
    <3>. QED BY <1>1, <2>1, <3>1, <3>2
      DEF Kept, Progress, Way, Home, Away, Functions, Ended, After,
          WithAccount, WithRole, WithBinding
  <2>. QED BY <2>2, <2>3
<1>12. CASE onboardSveltosCluster(p)
  <2>1. /\ proc[p].at = "onboardSveltosCluster"
        /\ UNCHANGED <<server, current, found>>
        /\ "ok" \in Positions /\ "ok" \in Ended
    BY <1>12 DEF onboardSveltosCluster, Positions, Ended
  <2>2. CASE Goes(p, "ok")
    <3>1. /\ Alone(p) /\ proc'[p].at = "ok" /\ proc'[p].cmd = proc[p].cmd
          /\ proc'[p].kubeconfig = NoKubeconfig
      BY <2>1, <2>2, GoesMeans
    <3>2. Undisturbed(p)' = Undisturbed(p)
      BY <2>1, <3>1 DEF Undisturbed
    <3>. QED BY <1>1, <2>1, <3>1, <3>2, SameGrows
      DEF Considerate, Progress, Way, Home, Away, Functions, Ended, After,
          WithAccount, WithRole, WithBinding
  <2>. QED BY <1>3, <1>12, <2>1, <2>2 DEF onboardSveltosCluster
<1>. QED BY <1>5, <1>6, <1>7, <1>8, <1>9, <1>10, <1>11, <1>12 DEF FleetStep

LEMMA BeginKeeps ==
    ASSUME TypeOK, Inv, NEW p \in Procs, Begin(p)
    PROVE  Considerate(p) /\ Progress(p)' /\ Way(p)'
<1>1. PICK m \in Commands :
         proc' = [proc EXCEPT
                    ![p] = Process(IF m.op = "fleet" THEN "getKubeconfigData"
                                   ELSE EntryPoint(m), m, current)]
  BY DEF Begin
<1>. DEFINE f == IF m.op = "fleet" THEN "getKubeconfigData" ELSE EntryPoint(m)
<1>2. /\ proc \in [Procs -> Locals] /\ found \in [Procs -> Contexts \cup {Nobody}]
      /\ server' = server /\ current' = current
      /\ found' = [found EXCEPT ![p] = current]
  BY DEF Begin, TypeOK
<1>3. /\ Alone(p) /\ proc'[p] = Process(f, m, current)
  BY <1>1, <1>2 DEF Alone
<1>4. /\ proc'[p].at = f /\ proc'[p].cmd = m /\ proc'[p].management = current
      /\ proc'[p].outer = current /\ proc'[p].inner = current
      /\ proc'[p].kubeconfig = NoKubeconfig
  BY <1>3 DEF Process
<1>5. /\ found'[p] = current
      /\ \A q \in Procs : q # p => found'[q] = found[q]
  BY <1>2
<1>6. Considerate(p)
  BY <1>2, <1>3, <1>5, SameGrows DEF Considerate
<1>7. \/ f = "getKubeconfigData" /\ m.op = "fleet"
      \/ f = "createNamespace" /\ m.op # "fleet"
      \/ f = "getNamespace" /\ m.op # "fleet" /\ ~m.create
  BY DEF EntryPoint
<1>. HIDE DEF f
<1>8. Progress(p)'
  BY <1>4, <1>7 DEF Progress, After, WithAccount, WithRole, WithBinding
<1>9. Way(p)'
  BY <1>2, <1>4, <1>5, <1>7
  DEF Way, Undisturbed, Home, Away, Functions, After, Ended
<1>. QED BY <1>6, <1>8, <1>9

LEMMA InitInv == Init => Inv
BY DEF Init, Inv, Bounded, Empty, Progress, Way, Undisturbed, Process, After,
       WithAccount, WithRole, WithBinding

LEMMA NextInv == TypeOK /\ Inv /\ [Next]_vars => Inv'
<1>. SUFFICES ASSUME TypeOK, Inv, [Next]_vars PROVE Inv'
  OBVIOUS
<1>0. Grows => \A c \in Contexts : Bounded(server'[c])
  BY DEF Inv, Grows
<1>1. ASSUME NEW p \in Procs, Considerate(p), Progress(p)', Way(p)'
      PROVE  Inv'
  BY <1>0, <1>1, OthersKeep DEF Inv, Considerate
<1>2. CASE TokenController
  <2>1. PICK c \in Contexts, a \in Accounts : Fill(c, a)
    BY <1>2 DEF TokenController
  <2>2. UNCHANGED <<proc, current, found>>
    BY <1>2, <2>1 DEF TokenController, Fill
  <2>3. Grows
    BY <2>1 DEF Fill, Grows, Bounded, TypeOK, Objects
  <2>4. ASSUME NEW q \in Procs PROVE Progress(q)' /\ Way(q)'
    <3>1. Progress(q) /\ Way(q) /\ proc'[q] = proc[q]
      BY <2>2 DEF Inv
    <3>2. Progress(q)'
      BY <2>3, <3>1, ProgressKept
    <3>. QED BY <2>2, <3>1, <3>2 DEF Way, Undisturbed
  <2>. QED BY <1>0, <2>3, <2>4 DEF Inv
<1>3. ASSUME NEW p \in Procs, Begin(p) PROVE Inv'
  BY <1>1, <1>3, BeginKeeps
<1>4. ASSUME NEW p \in Procs, FleetStep(p) PROVE Inv'
  BY <1>1, <1>4, FleetKeeps
<1>5. ASSUME NEW p \in Procs, GenerateStep(p), UNCHANGED <<current, found>>
      PROVE  Inv'
  BY <1>1, <1>5, GenerateKeeps
<1>6. CASE UNCHANGED vars
  BY <1>6 DEF vars, Inv, Progress, Way, Undisturbed
<1>. QED BY <1>2, <1>3, <1>4, <1>5, <1>6 DEF Next, Step

LEMMA InvHolds == Spec => [](TypeOK /\ Inv)
<1>1. Init => TypeOK /\ Inv
  BY InitType, InitInv
<1>2. TypeOK /\ Inv /\ [Next]_vars => (TypeOK /\ Inv)'
  BY NextType, NextInv
<1>. QED BY <1>1, <1>2, PTL DEF Spec

-----------------------------------------------------------------------------
(* A kubeconfig that is handed out is for an account which is there, with  *)
(* the ClusterRole, a binding of it to some account that is there, and the *)
(* token it was generated with.                                            *)
THEOREM KubeconfigsAreUsable == Spec => []Usable
<1>1. TypeOK /\ Inv => Usable
  <2>. SUFFICES ASSUME TypeOK, Inv, NEW p \in Procs,
                       proc[p].kubeconfig # NoKubeconfig
                PROVE  LET k == proc[p].kubeconfig
                           m == proc[p].cmd
                       IN /\ k.account \in server[k.cluster].accounts
                          /\ m.satoken => server[k.cluster].secrets[k.account] = "filled"
                          /\ m.create => /\ server[k.cluster].role
                                         /\ server[k.cluster].bound
                                              \in server[k.cluster].accounts
    BY DEF Usable
  <2>1. Progress(p)
    BY DEF Inv
  <2>2. /\ proc[p].at \in After
        /\ proc[p].kubeconfig = [cluster |-> proc[p].target,
                                 account |-> proc[p].cmd.account]
    BY <2>1 DEF Progress
  <2>. QED BY <2>1, <2>2 DEF Progress
<1>. QED BY <1>1, InvHolds, PTL

(* Registering a fleet cluster leaves the user's current-context as it was *)
(* found, and on the fleet cluster at worst when it fails.                 *)
THEOREM ContextIsRestored == Spec => []ContextRestored
<1>1. Inv => ContextRestored
  BY DEF Inv, Way, ContextRestored, Home
<1>. QED BY <1>1, InvHolds, PTL

(* The cluster that is registered is the one that was asked for, in the    *)
(* management cluster that was current.                                    *)
THEOREM AskedClusterIsRegistered == Spec => []RegistersAskedCluster
<1>1. TypeOK /\ Inv => RegistersAskedCluster
  <2>. SUFFICES ASSUME TypeOK, Inv, NEW p \in Procs, Undisturbed(p),
                       proc[p].at = "onboardSveltosCluster"
                PROVE  /\ proc[p].management = found[p]
                       /\ proc[p].kubeconfig = [cluster |-> proc[p].cmd.context,
                                                account |-> Projectsveltos]
    BY DEF RegistersAskedCluster
  <2>1. Progress(p) /\ Way(p)
    BY DEF Inv
  <2>2. proc[p].cmd.account = Projectsveltos
    BY LocalType, CommandType DEF Undisturbed
  <2>3. proc[p].management = found[p] /\ proc[p].target = proc[p].cmd.context
    BY <2>1 DEF Way, Ended, After
  <2>4. proc[p].kubeconfig = [cluster |-> proc[p].target,
                              account |-> proc[p].cmd.account]
    BY <2>1 DEF Progress, After
  <2>. QED BY <2>2, <2>3, <2>4
<1>. QED BY <1>1, InvHolds, PTL
=============================================================================
