---------------------------------- MODULE Show ----------------------------------
(***************************************************************************)
(* internal/commands/show: one command that shows a table.                 *)
(*                                                                         *)
(* It makes one List or Get after the other, each of which sees the        *)
(* objects as they are at that moment, while controllers and users create  *)
(* and delete them; an object that changes is one that goes and another    *)
(* that comes.  What the calls of a subcommand are, and what it shows of   *)
(* their answers, is in the module of the subcommand.                      *)
(***************************************************************************)
EXTENDS ShowCommon, FiniteSets

CONSTANTS Universe,   \* the objects that may come
          Commands,   \* the command lines that may be run
          Faults,     \* whether calls may fail
          MaxTouched  \* bound: so many objects come or go meanwhile

AddOns == INSTANCE ShowAddOns
DryRun == INSTANCE ShowDryRun
Resources == INSTANCE ShowResources
Usage == INSTANCE ShowUsage
AdminRbac == INSTANCE ShowAdminRbac
ClassifierLabels == INSTANCE ShowClassifierLabels

Subcommands == {"addons", "dryrun", "resources", "usage", "admin-rbac",
                "classifier-labels"}

ASSUME CommandsAssumption == \A m \in Commands : m.sub \in Subcommands
ASSUME BoundsAssumption == MaxTouched \in Nat /\ Faults \in BOOLEAN

(* What the types of the objects say: what has a name has one that is not  *)
(* empty; a profile deploys charts and resources, and references no        *)
(* profiles; a Classifier is in no namespace.                              *)
ASSUME ObjectsAssumption ==
    \A o \in Universe :
      /\ o.kind = "Namespace" => o.name # Any
      /\ o.kind = "ClusterConfiguration" =>
           \A e \in o.deployed : e.type \in {"helm", "resource"}
      /\ o.kind \in Usage!Kinds => \A r \in o.refs : r.kind \notin Usage!Kinds
      /\ o.kind = "RoleRequest" => \A r \in o.refs : Any \notin {r.ns, r.name}
      /\ o.kind \in ClassifierLabels!Classifiers => o.ns = None

(* The subcommand of a command line. *)
Kinds(m) ==
    CASE m.sub = "addons" -> AddOns!Kinds
      [] m.sub = "dryrun" -> DryRun!Kinds
      [] m.sub = "resources" -> Resources!Kinds
      [] m.sub = "usage" -> Usage!Kinds
      [] m.sub = "admin-rbac" -> AdminRbac!Kinds
      [] m.sub = "classifier-labels" -> ClassifierLabels!Kinds

Calls(m) ==
    CASE m.sub = "addons" -> AddOns!Calls(m)
      [] m.sub = "dryrun" -> DryRun!Calls(m)
      [] m.sub = "resources" -> Resources!Calls(m)
      [] m.sub = "usage" -> Usage!Calls(m)
      [] m.sub = "admin-rbac" -> AdminRbac!Calls(m)
      [] m.sub = "classifier-labels" -> ClassifierLabels!Calls(m)

Follow(m, call, answer) ==
    CASE m.sub = "addons" -> AddOns!Follow(m, call, answer)
      [] m.sub = "dryrun" -> DryRun!Follow(m, call, answer)
      [] m.sub = "admin-rbac" -> AdminRbac!Follow(m, call, answer)
      [] OTHER -> {}

Lines(m, call, answer, read) ==
    CASE m.sub = "addons" -> AddOns!Lines(m, call, answer, read)
      [] m.sub = "dryrun" -> DryRun!Lines(m, call, answer, read)
      [] m.sub = "resources" -> Resources!Lines(m, call, answer, read)
      [] m.sub = "usage" -> Usage!Lines(m, call, answer, read)
      [] m.sub = "admin-rbac" -> AdminRbac!Lines(m, call, answer, read)
      [] m.sub = "classifier-labels" ->
             ClassifierLabels!Lines(m, call, answer, read)

Broken(m, call, answer) ==
    CASE m.sub = "addons" -> AddOns!Broken(m, call, answer)
      [] m.sub = "dryrun" -> DryRun!Broken(m, call, answer)
      [] m.sub = "resources" -> Resources!Broken(m, call, answer)
      [] m.sub = "admin-rbac" -> AdminRbac!Broken(m, call, answer)
      [] OTHER -> FALSE

Table(m, W, P) ==
    CASE m.sub = "addons" -> AddOns!Table(m, W, P)
      [] m.sub = "dryrun" -> DryRun!Table(m, W, P)
      [] m.sub = "resources" -> Resources!Table(m, W, P)
      [] m.sub = "usage" -> Usage!Table(m, W, P)
      [] m.sub = "admin-rbac" -> AdminRbac!Table(m, W, P)
      [] m.sub = "classifier-labels" -> ClassifierLabels!Table(m, W, P)

Faulty(m, W, P) ==
    CASE m.sub = "addons" -> AddOns!Faulty(m, W, P)
      [] m.sub = "dryrun" -> DryRun!Faulty(m, W, P)
      [] m.sub = "resources" -> Resources!Faulty(m, W, P)
      [] m.sub = "usage" -> Usage!Faulty(m, W, P)
      [] m.sub = "admin-rbac" -> AdminRbac!Faulty(m, W, P)
      [] OTHER -> FALSE

Refused(m) == m.sub = "usage" /\ Usage!Refused(m)

(* What is printed at once instead of with the table at the end. *)
Streams(m) == \/ m.sub = "dryrun" /\ m.rawDiff
              \/ m.sub = "resources" /\ m.full

-----------------------------------------------------------------------------
VARIABLES
    world,   \* the objects there are
    proc,    \* the local state of the process
    stayed,  \* history: the objects that were there all the time
    seen,    \* history: those that were there at some time
    fault    \* history: whether a call has failed

vars == <<world, proc, stayed, seen, fault>>

Id(o) == <<o.kind, o.ns, o.name>>

(* The server: a name is used once, a namespace is there before its        *)
(* objects are and as long as they are, where the command looks at         *)
(* namespaces.                                                             *)
Lawful(m, W) ==
    /\ \A o, q \in W : Id(o) = Id(q) => o = q
    /\ "Namespace" \in Kinds(m) =>
         \A o \in W : o.kind # "Namespace" =>
             \E n \in W : n.kind = "Namespace" /\ n.name = o.ns

Relevant(m) == {o \in Universe : o.kind \in Kinds(m)}

Running == proc.at = "calls"

Init ==
    /\ \E m \in Commands :
         /\ world \in {W \in SUBSET Relevant(m) : Lawful(m, W)}
         /\ proc = [at |-> IF Refused(m) THEN "failed" ELSE "calls", cmd |-> m,
                    todo |-> IF Refused(m) THEN <<>> ELSE Calls(m),
                    more |-> {}, read |-> {}, lines |-> {}]
    /\ stayed = world /\ seen = world /\ fault = FALSE

(* The next call: one of those that follow from the last answers (in the   *)
(* order of a List or of a Go map, which can be any), or else the next one *)
(* of the sequence.                                                        *)
NextCalls == IF proc.more # {} THEN proc.more
             ELSE IF proc.todo # <<>> THEN {Head(proc.todo)} ELSE {}

Without(call) ==
    IF proc.more # {} THEN [proc EXCEPT !.more = @ \ {call}]
    ELSE [proc EXCEPT !.todo = Tail(@)]

(* A call is answered, and the process does with the answer what it does.  *)
Call ==
    /\ Running
    /\ \E call \in NextCalls :
         LET m == proc.cmd
             answer == Answer(call, world)
         IN /\ ~Broken(m, call, answer)
            /\ proc' = [Without(call) EXCEPT
                          !.more = @ \cup Follow(m, call, answer),
                          !.lines = @ \cup Lines(m, call, answer, proc.read),
                          !.read = @ \cup {o \in answer :
                                        o.kind \in ClassifierLabels!Classifiers}]
    /\ UNCHANGED <<world, stayed, seen, fault>>

(* The command ends with an error: no table, but what was printed stays.   *)
Fail(printed) ==
    proc' = [at |-> "failed", cmd |-> proc.cmd, todo |-> <<>>, more |-> {},
             read |-> {},
             lines |-> IF Streams(proc.cmd) THEN proc.lines \cup printed
                       ELSE {}]

Break ==
    /\ Running
    /\ \E call \in NextCalls :
         LET answer == Answer(call, world)
         IN /\ Broken(proc.cmd, call, answer)
            /\ \E printed \in SUBSET Lines(proc.cmd, call, answer, proc.read) :
                  Fail(printed)
    /\ UNCHANGED <<world, stayed, seen, fault>>

CallFails ==
    /\ Running /\ Faults /\ NextCalls # {}
    /\ Fail({})
    /\ fault' = TRUE
    /\ UNCHANGED <<world, stayed, seen>>

(* table.Render *)
Render ==
    /\ Running /\ NextCalls = {}
    /\ proc' = [proc EXCEPT !.at = "ok", !.read = {}]
    /\ UNCHANGED <<world, stayed, seen, fault>>

(* Others create and delete objects. *)
Becomes(W) ==
    /\ Running /\ Lawful(proc.cmd, W)
    /\ world' = W
    /\ stayed' = stayed \cap W
    /\ seen' = seen \cup W
    /\ Cardinality(seen' \ stayed') <= MaxTouched
    /\ UNCHANGED <<proc, fault>>

Put == \E o \in Relevant(proc.cmd) \ world : Becomes(world \cup {o})
Drop == \E o \in world : Becomes(world \ {o})

Next == Call \/ Break \/ CallFails \/ Render \/ Put \/ Drop

Spec == Init /\ [][Next]_vars

-----------------------------------------------------------------------------
(* Properties                                                              *)

(* Every variable has its type; a line tells of objects that may be. *)
TypeOK ==
    /\ stayed \subseteq world /\ world \subseteq seen
    /\ seen \subseteq Relevant(proc.cmd)
    /\ fault \in BOOLEAN
    /\ proc.at \in {"calls", "ok", "failed"} /\ proc.cmd \in Commands
    /\ \A call \in NextCalls : call.kind \in Kinds(proc.cmd)
    /\ proc.read \subseteq seen
    /\ proc.lines \subseteq Table(proc.cmd, Relevant(proc.cmd), {})

(* What a command has shown when it succeeds has a line for everything it  *)
(* was asked for that was there all the time, however the lists it is made *)
(* of are torn apart by what comes and goes.  What it was asked for is     *)
(* Table; that has show addons leave out, under --cluster, configurations  *)
(* without the label, and give each profile a row of its own.              *)
Complete == proc.at = "ok" => Table(proc.cmd, stayed, seen) \subseteq proc.lines

(* A command shows nothing but what it was asked for, of objects that were *)
(* there while it ran: and, in show usage, the Profiles of namespaces      *)
(* other than the one passed, which NamespaceOnly is about.                *)
Sound == proc.lines \subseteq Table(proc.cmd, seen, stayed)

(* A command whose calls are answered fails for what it was asked for and  *)
(* nothing else; and it does not succeed if that was broken all the time.  *)
Selective ==
    /\ proc.at = "failed" /\ ~fault => Faulty(proc.cmd, seen, stayed)
    /\ proc.at = "ok" => ~Faulty(proc.cmd, stayed, seen)

(* "Show usage information for resources in this namespace only"           *)
(* (usage.go:292): it also shows the Profiles of other namespaces.         *)
NamespaceOnly ==
    proc.cmd.sub = "usage" /\ proc.at = "ok" =>
        proc.lines \subseteq Usage!Promised(proc.cmd, seen)
=============================================================================
