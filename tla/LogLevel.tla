------------------------------ MODULE LogLevel ------------------------------
(***************************************************************************)
(* internal/commands/loglevel: `sveltosctl log-level show|set|unset`.      *)
(*                                                                         *)
(* The log levels of all Sveltos components are one list in one object,    *)
(* the DebuggingConfiguration "default".  A command reads it, rewrites the *)
(* list, reads it again for a resourceVersion, and a third time to decide  *)
(* whether to create it; other commands and kubectl run in between.        *)
(*                                                                         *)
(* Mistaken_X is a mistaken form of the definition of X that follows it;   *)
(* no specification uses it.                                               *)
(***************************************************************************)
EXTENDS Naturals, SequencesExt

CONSTANTS
    Procs,          \* the terminals a user runs sveltosctl from
    Components,     \* Sveltos components, numbered in the order of their names
    Levels,
    Commands,       \* the command lines that may be run
    Faults,         \* how an API call may fail: "refused", "lost"
    Churn,          \* what kubectl does meanwhile: "delete"
    BlankAccepted,  \* whether the server accepts entries without a component:
                    \* {TRUE}, {FALSE}, or both as nobody knows
    MaxEntries,     \* bound: commands start while the list has room for more
    Absent

Blank == 0   \* the empty component name; it sorts first
NoLevel == 0
Entries == [component : Components \cup {Blank}, level : Levels \cup {NoLevel}]
ZeroEntry == [component |-> Blank, level |-> NoLevel]
Lists == Seq(Entries)

ASSUME ComponentsAssumption == /\ Components \subseteq Nat \ {Blank}
                               /\ IsFiniteSet(Components)
                               /\ Levels \subseteq Nat \ {NoLevel}
                               /\ BlankAccepted \subseteq BOOLEAN
                               /\ MaxEntries \in Nat
ASSUME EventsAssumption == /\ Faults \subseteq {"refused", "lost"}
                           /\ Churn \subseteq {"delete"}
ASSUME AbsentAssumption == Absent \notin Lists

Lines(op) == [op : {op}, component : Components, level : Levels]
ShowLines  == Lines("show")
SetLines   == Lines("set")     \* --component with one of --info, --debug, ...
UnsetLines == Lines("unset")

ASSUME CommandsAssumption ==
    /\ Commands # {}
    /\ Commands \subseteq ShowLines \cup SetLines \cup UnsetLines

VARIABLES
    store,  \* the API server: the list of the DebuggingConfiguration, or Absent
    proc,   \* the local state of every invocation
    start   \* history: the store an invocation started with, as long as nobody
            \* else has changed it since, else Absent

vars == <<store, proc, start>>

Ended == {"ready", "ok", "failed"}
Locals == [at   : {"collect", "read", "check", "create", "update"} \cup Ended,
           cmd  : Commands,
           spec : Lists,                         \* the list to write
           held : {"none", "latest", "old"}]     \* metadata.resourceVersion

Running(p) == proc[p].at \notin Ended

Begun(f, m) == [at |-> f, cmd |-> m, spec |-> <<>>, held |-> "none"]

(* The list of a store; an object that is absent is read as an empty one. *)
ListOf(s) == IF s = Absent THEN <<>> ELSE s

Init == /\ store \in {Absent} \cup
              {[i \in DOMAIN s |-> [component |-> s[i], level |-> f[s[i]]]] :
                  s \in UNION {SetToSeqs(S) : S \in SUBSET Components},
                  f \in [Components -> Levels]}
        /\ proc = [p \in Procs |-> Begun("ready", CHOOSE m \in Commands : TRUE)]
        /\ start = [p \in Procs |-> Absent]

-----------------------------------------------------------------------------
(* The lists a command computes                                            *)

Positions(list, c) == {i \in DOMAIN list : list[i].component = c}

Mistaken_Sorted(list) == {list}   \* as read

(* The entries of a list in another order, or some of them. *)
Arranged(list, order) == [i \in DOMAIN order |-> list[order[i]]]

(* The orders sort.Sort may leave: it is not stable. *)
Sorted(list) ==
    {Arranged(list, order) :
        order \in {o \in SetToSeqs(DOMAIN list) :
                     \A i, j \in DOMAIN o :
                        i < j => list[o[i]].component <= list[o[j]].component}}

Swapped_SetIn(list, c, l) ==   \* the arguments exchanged
    Append(list, [component |-> l, level |-> c])

Mistaken_SetIn(list, c, l) ==   \* never looks for the component
    Append(list, [component |-> c, level |-> l])

(* The loop fills a list of zero values and breaks at the component: the   *)
(* entries after it stay zero.                                             *)
SetIn(list, c, l) ==
    IF Positions(list, c) = {}
    THEN Append(list, [component |-> c, level |-> l])
    ELSE LET found == CHOOSE i \in Positions(list, c) :
                        \A j \in Positions(list, c) : i <= j
         IN [i \in DOMAIN list |->
               IF i < found THEN list[i]
               ELSE IF i = found THEN [component |-> c, level |-> l]
               ELSE ZeroEntry]

(* The loop keeps the other entries, in their order: there is one list. *)
UnsetIn(list, c) ==
    {Arranged(list, order) :
        order \in {o \in SetToSeqs(DOMAIN list \ Positions(list, c)) :
                     \A i, j \in DOMAIN o : i < j => o[i] < o[j]}}

-----------------------------------------------------------------------------
Begin(p) ==
    /\ ~Running(p)
    /\ \A list \in {ListOf(store)} \cup {proc[q].spec : q \in Procs} :
         Len(list) + Cardinality({q \in Procs : Running(q)}) < MaxEntries
    /\ \E m \in Commands :
         proc' = [proc EXCEPT ![p] = Begun("collect", m)]
    /\ start' = [start EXCEPT ![p] = ListOf(store)]
    /\ UNCHANGED store

Goes(p, to) == proc' = [proc EXCEPT ![p].at = to]
Ends(p, f) == proc' = [proc EXCEPT ![p] = Begun(f, @.cmd)]

(* The first read.  show reports its failure; set and unset end as if all  *)
(* were done.                                                              *)
collectLogLevelConfiguration(p) ==
    LET m == proc[p].cmd
        Holds(to, list) == proc' = [proc EXCEPT ![p].at = to, ![p].spec = list]
    IN /\ proc[p].at = "collect"
       /\ UNCHANGED <<store, start>>
       /\ \/ /\ Faults # {}
             /\ Ends(p, IF m.op = "show" THEN "failed" ELSE "ok")
          \/ \E cc \in Sorted(ListOf(store)) :
               \/ /\ m.op = "show"
                  /\ Ends(p, "ok")   \* prints cc
               \/ /\ m.op = "set"
                  /\ Holds("read", SetIn(cc, m.component, m.level))
               \/ /\ m.op = "unset" /\ Positions(cc, m.component) # {}
                  /\ \E spec \in UnsetIn(cc, m.component) : Holds("read", spec)
               \/ /\ m.op = "unset" /\ Positions(cc, m.component) = {}
                  /\ Ends(p, "ok")

(* The second read: the object whose list is replaced. *)
updateLogLevelConfiguration(p) ==
    /\ proc[p].at = "read"
    /\ UNCHANGED <<store, start>>
    /\ \/ Faults # {} /\ Ends(p, "failed")
       \/ proc' = [proc EXCEPT ![p].at = "check",
                               ![p].held = IF store = Absent THEN "none"
                                           ELSE "latest"]

(* The third read, of UpdateDebuggingConfiguration. *)
checkExists(p) ==
    /\ proc[p].at = "check"
    /\ UNCHANGED <<store, start>>
    /\ \/ Faults # {} /\ Ends(p, "failed")
       \/ Goes(p, IF store = Absent THEN "create" ELSE "update")

(* What the invocations hold of the object once p, or kubectl, has changed *)
(* the store to s.                                                         *)
Outdated(q, s) == IF s # store /\ proc[q].held = "latest" THEN "old"
                  ELSE proc[q].held

(* A write of p, which the server admits or not. *)
Write(p, admitted, next) ==
    \E answer \in {"served"} \cup Faults :
       LET applied == admitted /\ answer # "refused"
           s == IF applied THEN proc[p].spec ELSE store
       IN /\ store' = s
          /\ proc' = [q \in Procs |->
                        IF q # p THEN [proc[q] EXCEPT !.held = Outdated(q, s)]
                        ELSE IF applied /\ answer = "served" THEN next
                        ELSE Begun("failed", proc[p].cmd)]
          /\ start' = [q \in Procs |->
                         IF q # p /\ s # store THEN Absent ELSE start[q]]

(* The entries of the list have to be valid: blank ones may not be. *)
Valid(list, blanks) == blanks \/ Positions(list, Blank) = {}

(* An object read before carries a resourceVersion, with which the server  *)
(* creates nothing.  Create sets the resourceVersion.                      *)
createConfiguration(p) ==
    /\ proc[p].at = "create"
    /\ \E blanks \in BlankAccepted :
         Write(p, /\ store = Absent /\ proc[p].held = "none"
                  /\ Valid(proc[p].spec, blanks),
               [proc[p] EXCEPT !.at = "update", !.held = "latest"])

(* The server admits an update of the version it holds, and no other; the  *)
(* update after a create writes the same again.                            *)
updateConfiguration(p) ==
    /\ proc[p].at = "update"
    /\ \E blanks \in BlankAccepted :
         Write(p, /\ store # Absent /\ proc[p].held = "latest"
                  /\ Valid(proc[p].spec, blanks),
               Begun("ok", proc[p].cmd))

(* Someone removes the object with kubectl. *)
Delete ==
    /\ "delete" \in Churn
    /\ store # Absent
    /\ store' = Absent
    /\ proc' = [q \in Procs |-> [proc[q] EXCEPT !.held = Outdated(q, Absent)]]
    /\ start' = [q \in Procs |-> Absent]

Step(p) == \/ collectLogLevelConfiguration(p)
           \/ updateLogLevelConfiguration(p)
           \/ checkExists(p)
           \/ createConfiguration(p)
           \/ updateConfiguration(p)

Next == Delete \/ \E p \in Procs : Begin(p) \/ Step(p)

Spec == Init /\ [][Next]_vars

-----------------------------------------------------------------------------
(* Properties                                                              *)

(* Every variable has its type. *)
TypeOK == /\ store \in Lists \cup {Absent}
          /\ proc \in [Procs -> Locals]
          /\ start \in [Procs -> Lists \cup {Absent}]

LevelIn(list, c) == {list[i].level : i \in Positions(list, c)}

(* No component is listed twice, nor without a level, however the commands *)
(* interleave: a component has one log level (set.go looks for the         *)
(* component in a list it has read two calls before it writes).            *)
OneLevel == store # Absent =>
    \A c \in Components : /\ Cardinality(Positions(store, c)) <= 1
                          /\ NoLevel \notin LevelIn(store, c)

Undisturbed(p) == ~Running(p) /\ start[p] # Absent

(* A command during which nobody else writes changes nothing or does its   *)
(* work: unset removes its component and nothing else, set leaves its      *)
(* component at its level, the components that sort before it as they were *)
(* and, when it is new, all others too.  It does so whatever call fails    *)
(* and whatever the server accepts.  Of the components that sort after a   *)
(* component that was there nothing is said: set wipes their levels, as    *)
(* SetsOnlyItsOwn shows.                                                   *)
AllOrNothing ==
    \A p \in Procs : Undisturbed(p) /\ ListOf(store) # start[p] =>
        LET m == proc[p].cmd
            Kept(c) == LevelIn(ListOf(store), c) = LevelIn(start[p], c)
        IN \/ /\ m.op = "unset"
              /\ Positions(ListOf(store), m.component) = {}
              /\ \A c \in Components \ {m.component} : Kept(c)
           \/ /\ m.op = "set"
              /\ LevelIn(ListOf(store), m.component) = {m.level}
              /\ \A c \in Components \ {m.component} :
                    c < m.component \/ Positions(start[p], m.component) = {}
                       => Kept(c)

(* "set log severity for the specified component" (set.go:80): with no     *)
(* call failing and nobody else writing, set leaves every component but    *)
(* its own as it was.                                                      *)
SetsOnlyItsOwn ==
    \A p \in Procs : Undisturbed(p) /\ proc[p].cmd.op = "set" /\ proc[p].at # "ready" =>
        \A c \in Components :
            LevelIn(ListOf(store), c) = IF c = proc[p].cmd.component
                                        THEN {proc[p].cmd.level}
                                        ELSE LevelIn(start[p], c)
=============================================================================
