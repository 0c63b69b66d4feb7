---------------------------- MODULE LogLevelProofs ----------------------------
(***************************************************************************)
(* Theorems about LogLevel, for any invocations, components, levels, faults *)
(* and deletions.                                                          *)
(***************************************************************************)
EXTENDS LogLevel, WalkTheorems

-----------------------------------------------------------------------------
(* Lists of entries                                                        *)

(* No component is listed twice, nor without a level. *)
OneLevelIn(list) ==
    /\ \A i, j \in DOMAIN list :
          /\ list[i].component = list[j].component
          /\ list[i].component \in Components
          => i = j
    /\ \A i \in DOMAIN list :
          list[i].component \in Components => list[i].level # NoLevel

(* The list is in the order of the names. *)
InOrder(list) == \A i, j \in DOMAIN list :
                    i < j => list[i].component <= list[j].component

LEMMA ListType ==
    ASSUME NEW list \in Lists
    PROVE  /\ Len(list) \in Nat /\ DOMAIN list = 1 .. Len(list)
           /\ list \in [1 .. Len(list) -> Entries]
           /\ IsFiniteSet(DOMAIN list)
           /\ \A i \in DOMAIN list : /\ list[i] \in Entries
                                    /\ list[i].component \in Nat
<1>1. /\ Len(list) \in Nat /\ DOMAIN list = 1 .. Len(list)
      /\ list \in [1 .. Len(list) -> Entries]
  BY LenProperties DEF Lists
<1>2. IsFiniteSet(DOMAIN list)
  BY <1>1, FS_Interval
<1>3. ASSUME NEW e \in Entries PROVE e.component \in Nat
  <2>1. e.component \in Components \cup {Blank}
    BY DEF Entries
  <2>2. Components \subseteq Nat /\ Blank \in Nat
    BY ComponentsAssumption DEF Blank
  <2>. QED BY <2>1, <2>2
<1>4. \A i \in DOMAIN list : list[i] \in Entries
  BY <1>1
<1>5. \A i \in DOMAIN list : list[i] \in Entries /\ list[i].component \in Nat
  BY <1>3, <1>4
<1>. QED BY <1>1, <1>2, <1>5

(* A selection of the positions of a list, in any order. *)
LEMMA ArrangedProperties ==
    ASSUME NEW list \in Lists, NEW S \in SUBSET DOMAIN list,
           NEW order \in SetToSeqs(S)
    PROVE  /\ Arranged(list, order) \in Lists
           /\ DOMAIN Arranged(list, order) = DOMAIN order
           /\ \A i \in DOMAIN order : /\ order[i] \in S
                                     /\ Arranged(list, order)[i] = list[order[i]]
           /\ \A k \in S : \E i \in DOMAIN order : order[i] = k
           /\ OneLevelIn(list) => OneLevelIn(Arranged(list, order))
<1>1. IsFiniteSet(S)
  BY ListType, FS_Subset
<1>2. order \in Seq(S) /\ IsInjective(order) /\ ToSet(order) = S
  BY <1>1, WalkProperties
<1>3. /\ DOMAIN order = 1 .. Len(order) /\ Len(order) \in Nat
      /\ \A i \in DOMAIN order : order[i] \in S
  BY <1>2, LenProperties
<1>. DEFINE out == Arranged(list, order)
<1>4. /\ DOMAIN out = DOMAIN order
      /\ \A i \in DOMAIN order : out[i] = list[order[i]]
  BY DEF Arranged
<1>5. out \in Lists
  <2>1. \A i \in 1 .. Len(order) : list[order[i]] \in Entries
    BY <1>3, ListType
  <2>2. out = [i \in 1 .. Len(order) |-> list[order[i]]]
    BY <1>3 DEF Arranged
  <2>. QED BY <1>3, <2>1, <2>2, IsASeq DEF Lists
<1>6. \A k \in S : \E i \in DOMAIN order : order[i] = k
  BY <1>2 DEF ToSet
<1>7. ASSUME OneLevelIn(list) PROVE OneLevelIn(out)
  BY <1>2, <1>3, <1>4, <1>7 DEF OneLevelIn, IsInjective
<1>. QED BY <1>3, <1>4, <1>5, <1>6, <1>7

(* Sorting keeps the entries. *)
LEMMA SortedProperties ==
    ASSUME NEW list \in Lists, NEW out \in Sorted(list)
    PROVE  /\ out \in Lists /\ InOrder(out)
           /\ OneLevelIn(list) => OneLevelIn(out)
           /\ \A c : LevelIn(out, c) = LevelIn(list, c)
           /\ \A c : Positions(out, c) = {} <=> Positions(list, c) = {}
<1>1. PICK order \in SetToSeqs(DOMAIN list) :
         /\ out = Arranged(list, order)
         /\ \A i, j \in DOMAIN order :
               i < j => list[order[i]].component <= list[order[j]].component
  BY DEF Sorted
<1>2. /\ out \in Lists /\ DOMAIN out = DOMAIN order
      /\ \A i \in DOMAIN order : /\ order[i] \in DOMAIN list
                                /\ out[i] = list[order[i]]
      /\ \A k \in DOMAIN list : \E i \in DOMAIN order : order[i] = k
      /\ OneLevelIn(list) => OneLevelIn(out)
  BY <1>1, ArrangedProperties
<1>3. InOrder(out)
  BY <1>1, <1>2 DEF InOrder
<1>4. ASSUME NEW c PROVE LevelIn(out, c) = LevelIn(list, c)
  BY <1>2 DEF LevelIn, Positions
<1>5. ASSUME NEW c PROVE Positions(out, c) = {} <=> Positions(list, c) = {}
  BY <1>2 DEF Positions
<1>. QED BY <1>2, <1>3, <1>4, <1>5

(* unset takes out its component and nothing else. *)
LEMMA UnsetProperties ==
    ASSUME NEW list \in Lists, NEW c, NEW out \in UnsetIn(list, c)
    PROVE  /\ out \in Lists
           /\ OneLevelIn(list) => OneLevelIn(out)
           /\ Positions(out, c) = {}
           /\ \A d : d # c => LevelIn(out, d) = LevelIn(list, d)
<1>. DEFINE S == DOMAIN list \ Positions(list, c)
<1>1. PICK order \in SetToSeqs(S) : out = Arranged(list, order)
  BY DEF UnsetIn
<1>2. /\ out \in Lists /\ DOMAIN out = DOMAIN order
      /\ \A i \in DOMAIN order : order[i] \in S /\ out[i] = list[order[i]]
      /\ \A k \in S : \E i \in DOMAIN order : order[i] = k
      /\ OneLevelIn(list) => OneLevelIn(out)
  BY <1>1, ArrangedProperties
<1>3. Positions(out, c) = {}
  BY <1>2 DEF Positions
<1>4. ASSUME NEW d, d # c PROVE LevelIn(out, d) = LevelIn(list, d)
  BY <1>2, <1>4 DEF LevelIn, Positions
<1>. QED BY <1>2, <1>3, <1>4

(* set gives its component its level and, where the component was listed,  *)
(* keeps the entries before it; where it was not, it keeps all.            *)
LEMMA SetProperties ==
    ASSUME NEW list \in Lists, OneLevelIn(list),
           NEW c \in Components, NEW l \in Levels
    PROVE  /\ SetIn(list, c, l) \in Lists
           /\ OneLevelIn(SetIn(list, c, l))
           /\ LevelIn(SetIn(list, c, l), c) = {l}
           /\ Positions(list, c) = {} =>
                 \A d \in Components \ {c} :
                    LevelIn(SetIn(list, c, l), d) = LevelIn(list, d)
           /\ InOrder(list) =>
                 \A d \in Components : d < c =>
                    LevelIn(SetIn(list, c, l), d) = LevelIn(list, d)
<1>. DEFINE out == SetIn(list, c, l)
            n == Len(list)
            e == [component |-> c, level |-> l]
<1>1. /\ n \in Nat /\ DOMAIN list = 1 .. n
      /\ list \in [1 .. n -> Entries] /\ list \in Seq(Entries)
      /\ \A i \in 1 .. n : list[i] \in Entries /\ list[i].component \in Nat
  BY ListType DEF Lists
<1>2. /\ e \in Entries /\ e.component = c /\ e.level = l
      /\ l # NoLevel /\ c \in Nat /\ c # Blank /\ Blank \notin Components
      /\ \A d \in Components : d \in Nat
  BY ComponentsAssumption DEF Entries
<1>3. ZeroEntry \in Entries /\ ZeroEntry.component = Blank
  BY DEF ZeroEntry, Entries
<1>. HIDE DEF n, e
<1>4. CASE Positions(list, c) = {}
  <2>1. out = Append(list, e)
    BY <1>4 DEF SetIn, e
  <2>2. /\ out \in Seq(Entries) /\ Len(out) = n + 1
        /\ \A i \in 1 .. n : out[i] = list[i]
        /\ out[n + 1] = e
    BY <1>1, <1>2, <2>1, AppendProperties DEF n
  <2>3. DOMAIN out = 1 .. n + 1
    BY <1>1, <2>2, LenProperties
  <2>4. \A i \in 1 .. n : list[i].component # c
    BY <1>1, <1>4 DEF Positions
  <2>. HIDE DEF out
  <2>5. \A i \in 1 .. n + 1 : i \in 1 .. n \/ i = n + 1
    BY <1>1
  <2>6. n + 1 \in 1 .. n + 1 /\ \A i \in 1 .. n : i \in 1 .. n + 1
    BY <1>1
  <2>7. OneLevelIn(out)
    BY <1>1, <1>2, <2>2, <2>3, <2>4, <2>5 DEF OneLevelIn
  <2>8. LevelIn(out, c) = {l}
    BY <1>2, <2>2, <2>3, <2>4, <2>5, <2>6 DEF LevelIn, Positions
  <2>9. ASSUME NEW d \in Components, d # c
        PROVE  LevelIn(out, d) = LevelIn(list, d)
    BY <1>1, <1>2, <2>2, <2>3, <2>5, <2>6, <2>9 DEF LevelIn, Positions
  <2>10. \A d \in Components : d < c => d # c
    BY <1>2
  <2>. QED BY <2>2, <2>7, <2>8, <2>9, <2>10 DEF Lists, out
<1>5. CASE Positions(list, c) # {}
  <2>1. PICK f \in Positions(list, c) : TRUE
    BY <1>5
  <2>2. f \in 1 .. n /\ list[f].component = c
    BY <1>1, <2>1 DEF Positions
  <2>3. \A i \in 1 .. n : list[i].component = c => i = f
    BY <1>1, <2>2 DEF OneLevelIn
  <2>4. Positions(list, c) = {f}
    BY <1>1, <2>2, <2>3 DEF Positions
  <2>5. f = CHOOSE i \in Positions(list, c) : \A j \in Positions(list, c) : i <= j
    BY <1>1, <2>2, <2>4
  <2>6. out = [i \in 1 .. n |-> IF i < f THEN list[i]
                               ELSE IF i = f THEN e ELSE ZeroEntry]
    BY <1>1, <1>5, <2>5 DEF SetIn, e
  <2>. HIDE DEF out
  <2>7. /\ DOMAIN out = 1 .. n
        /\ \A i \in 1 .. n : i < f => out[i] = list[i]
        /\ out[f] = e
        /\ \A i \in 1 .. n : i > f => out[i] = ZeroEntry
        /\ \A i \in 1 .. n : i < f \/ i = f \/ i > f
    BY <1>1, <2>2, <2>6
  <2>8. out \in Lists
    <3>1. \A i \in 1 .. n : (IF i < f THEN list[i] ELSE IF i = f THEN e
                             ELSE ZeroEntry) \in Entries
      BY <1>1, <1>2, <1>3
    <3>. QED BY <1>1, <2>6, <3>1, IsASeq DEF Lists
  <2>9. OneLevelIn(out)
    <3>1. \A i \in 1 .. n : out[i].component \in Components =>
             i = f \/ (i < f /\ out[i] = list[i])
      BY <1>2, <1>3, <2>7
    <3>2. \A i \in 1 .. n : i < f => list[i].component # c
      BY <1>1, <2>2, <2>3
    <3>3. ASSUME NEW i \in 1 .. n, NEW j \in 1 .. n,
                 out[i].component = out[j].component,
                 out[i].component \in Components
          PROVE  i = j
      BY <1>1, <1>2, <2>7, <3>1, <3>2, <3>3 DEF OneLevelIn
    <3>4. ASSUME NEW i \in 1 .. n, out[i].component \in Components
          PROVE  out[i].level # NoLevel
      BY <1>1, <1>2, <2>7, <3>1, <3>4 DEF OneLevelIn
    <3>. QED BY <2>7, <3>3, <3>4 DEF OneLevelIn
  <2>10. LevelIn(out, c) = {l}
    <3>1. Positions(out, c) = {f}
      BY <1>1, <1>2, <1>3, <2>2, <2>3, <2>7 DEF Positions
    <3>. QED BY <1>2, <2>7, <3>1 DEF LevelIn
  <2>11. ASSUME InOrder(list), NEW d \in Components, d < c
         PROVE  LevelIn(out, d) = LevelIn(list, d)
    <3>1. \A i \in 1 .. n : list[i].component = d => i < f
      <4>. SUFFICES ASSUME NEW i \in 1 .. n, list[i].component = d, ~(i < f)
                    PROVE  FALSE
        OBVIOUS
      <4>1. i # f
        BY <1>2, <2>2, <2>11
      <4>2. f < i
        BY <1>1, <2>2, <4>1
      <4>3. c <= d
        BY <1>1, <2>2, <2>11, <4>2 DEF InOrder
      <4>4. c \in Nat /\ d \in Nat /\ d < c
        BY <1>2, <2>11
      <4>. QED BY <4>3, <4>4
    <3>2. Positions(out, d) = Positions(list, d)
      BY <1>1, <1>2, <1>3, <2>7, <2>11, <3>1 DEF Positions
    <3>3. \A i \in Positions(list, d) : out[i] = list[i]
      BY <1>1, <2>7, <3>1 DEF Positions
    <3>. QED BY <3>2, <3>3 DEF LevelIn
  <2>. QED BY <1>5, <2>8, <2>9, <2>10, <2>11 DEF out
<1>. QED BY <1>4, <1>5

-----------------------------------------------------------------------------
(* The inductive invariant                                                 *)

(* What a command that does its work makes of a list. *)
Effect(m, before, after) ==
    \/ /\ m.op = "unset"
       /\ Positions(after, m.component) = {}
       /\ \A c \in Components \ {m.component} :
             LevelIn(after, c) = LevelIn(before, c)
    \/ /\ m.op = "set"
       /\ LevelIn(after, m.component) = {m.level}
       /\ \A c \in Components \ {m.component} :
             c < m.component \/ Positions(before, m.component) = {}
             => LevelIn(after, c) = LevelIn(before, c)

(* The list stored, and each list on its way to be stored. *)
Levelled == /\ OneLevelIn(ListOf(store))
            /\ \A p \in Procs : OneLevelIn(proc[p].spec)

Reading == {"ready", "collect", "read", "check", "create"}
Writing == {"read", "check", "create", "update"}

(* How far the work of an undisturbed invocation r has come, which began   *)
(* with the list before and has made it what it is now.                    *)
Progress(r, before, now) ==
    /\ r.at \in Reading => now = before
    /\ r.at = "update" => now = before \/ now = r.spec
    /\ r.at \in Writing => Effect(r.cmd, before, r.spec)
    /\ r.at \in {"ok", "failed"} => now = before \/ Effect(r.cmd, before, now)

Faithful(p) ==
    start[p] # Absent => Progress(proc[p], start[p], ListOf(store))

Inv == TypeOK /\ Levelled /\ \A p \in Procs : Faithful(p)

-----------------------------------------------------------------------------
(* Types                                                                   *)

LEMMA CommandType ==
    ASSUME NEW m \in Commands
    PROVE  /\ m.op \in {"show", "set", "unset"}
           /\ m.component \in Components /\ m.level \in Levels
BY CommandsAssumption DEF ShowLines, SetLines, UnsetLines, Lines

LEMMA EmptyList == <<>> \in Lists /\ OneLevelIn(<<>>) /\ DOMAIN <<>> = {}
<1>1. <<>> \in Lists /\ DOMAIN <<>> = {}
  BY EmptySeq DEF Lists
<1>. QED BY <1>1 DEF OneLevelIn

LEMMA StoreType ==
    ASSUME NEW s \in Lists \cup {Absent}
    PROVE  /\ ListOf(s) \in Lists
           /\ s \in Lists => ListOf(s) = s /\ s # Absent
BY EmptyList, AbsentAssumption DEF ListOf

LEMMA BegunType ==
    ASSUME NEW m \in Commands, NEW f \in Ended \cup {"collect"}
    PROVE  /\ Begun(f, m) \in Locals
           /\ Begun(f, m).at = f /\ Begun(f, m).cmd = m
           /\ Begun(f, m).spec = <<>>
BY EmptyList DEF Begun, Locals

LEMMA LocalType ==
    ASSUME TypeOK, NEW p \in Procs
    PROVE  /\ proc[p] \in Locals
           /\ proc[p].cmd \in Commands /\ proc[p].spec \in Lists
           /\ start[p] \in Lists \cup {Absent}
           /\ store \in Lists \cup {Absent}
BY DEF TypeOK, Locals

(* The lists the server may hold when the commands begin. *)
LEMMA FirstList ==
    ASSUME NEW S \in SUBSET Components, NEW s \in SetToSeqs(S),
           NEW f \in [Components -> Levels]
    PROVE  LET list == [i \in DOMAIN s |-> [component |-> s[i], level |-> f[s[i]]]]
           IN list \in Lists /\ OneLevelIn(list)
<1>. DEFINE list == [i \in DOMAIN s |-> [component |-> s[i], level |-> f[s[i]]]]
<1>1. IsFiniteSet(S)
  BY ComponentsAssumption, FS_Subset
<1>2. s \in Seq(S) /\ IsInjective(s)
  BY <1>1, WalkProperties
<1>3. /\ DOMAIN s = 1 .. Len(s) /\ Len(s) \in Nat
      /\ \A i \in DOMAIN s : s[i] \in Components
  BY <1>2, LenProperties
<1>4. NoLevel \notin Levels
  BY ComponentsAssumption
<1>5. \A i \in DOMAIN s : /\ list[i] = [component |-> s[i], level |-> f[s[i]]]
                          /\ list[i] \in Entries
                          /\ list[i].component = s[i]
                          /\ list[i].level \in Levels
  BY <1>3 DEF Entries
<1>6. list = [i \in 1 .. Len(s) |-> [component |-> s[i], level |-> f[s[i]]]]
  BY <1>3
<1>7. list \in Lists
  <2>1. \A i \in 1 .. Len(s) : [component |-> s[i], level |-> f[s[i]]] \in Entries
    BY <1>3, <1>5
  <2>. QED BY <1>3, <1>6, <2>1, IsASeq DEF Lists
<1>8. DOMAIN list = DOMAIN s
  OBVIOUS
<1>. HIDE DEF list
<1>9. OneLevelIn(list)
  BY <1>2, <1>4, <1>5, <1>8 DEF OneLevelIn, IsInjective
<1>. QED BY <1>7, <1>9 DEF list

LEMMA InitInv == Init => Inv
<1>. SUFFICES ASSUME Init PROVE Inv
  OBVIOUS
<1>1. store \in Lists \cup {Absent} /\ OneLevelIn(ListOf(store))
  <2>1. CASE store = Absent
    BY <2>1, EmptyList DEF ListOf
  <2>2. CASE store # Absent
    <3>1. PICK s \in UNION {SetToSeqs(S) : S \in SUBSET Components},
               f \in [Components -> Levels] :
             store = [i \in DOMAIN s |-> [component |-> s[i], level |-> f[s[i]]]]
      BY <2>2 DEF Init
    <3>2. PICK S \in SUBSET Components : s \in SetToSeqs(S)
      BY <3>1
    <3>3. store \in Lists /\ OneLevelIn(store)
      BY <3>1, <3>2, FirstList
    <3>. QED BY <3>3, StoreType
  <2>. QED BY <2>1, <2>2
<1>. DEFINE m == CHOOSE m \in Commands : TRUE
<1>2. m \in Commands
  BY CommandsAssumption
<1>. HIDE DEF m
<1>3. /\ proc = [p \in Procs |-> Begun("ready", m)]
      /\ start = [p \in Procs |-> Absent]
  BY DEF Init, m
<1>4. Begun("ready", m) \in Locals /\ Begun("ready", m).spec = <<>>
  BY <1>2, BegunType DEF Ended
<1>5. TypeOK
  BY <1>1, <1>3, <1>4 DEF TypeOK
<1>6. Levelled
  BY <1>1, <1>3, <1>4, EmptyList DEF Levelled
<1>7. \A p \in Procs : Faithful(p)
  BY <1>3 DEF Faithful
<1>. QED BY <1>5, <1>6, <1>7 DEF Inv

-----------------------------------------------------------------------------
(* Steps                                                                   *)

(* A step of p that leaves the store alone. *)
LEMMA LocalStep ==
    ASSUME Inv, NEW p \in Procs, NEW r \in Locals, NEW b \in Lists \cup {Absent},
           proc' = [proc EXCEPT ![p] = r], start' = [start EXCEPT ![p] = b],
           store' = store,
           OneLevelIn(r.spec), b # Absent => Progress(r, b, ListOf(store))
    PROVE  Inv'
<1>1. TypeOK'
  BY DEF Inv, TypeOK
<1>2. /\ proc'[p] = r /\ start'[p] = b
      /\ \A q \in Procs : q # p => proc'[q] = proc[q] /\ start'[q] = start[q]
  BY DEF Inv, TypeOK
<1>3. Levelled'
  BY <1>2 DEF Inv, Levelled
<1>4. ASSUME NEW q \in Procs PROVE Faithful(q)'
  <2>1. CASE q = p
    BY <1>2, <2>1 DEF Faithful
  <2>2. CASE q # p
    BY <1>2, <2>2 DEF Inv, Faithful
  <2>. QED BY <2>1, <2>2
<1>. QED BY <1>1, <1>3, <1>4 DEF Inv

(* The history of p is as it was. *)
LEMMA QuietStep ==
    ASSUME Inv, NEW p \in Procs, NEW r \in Locals,
           proc' = [proc EXCEPT ![p] = r], UNCHANGED <<store, start>>,
           OneLevelIn(r.spec),
           start[p] # Absent => Progress(r, start[p], ListOf(store))
    PROVE  Inv'
<1>1. start' = [start EXCEPT ![p] = start[p]] /\ start[p] \in Lists \cup {Absent}
  BY DEF Inv, TypeOK
<1>. QED BY <1>1, LocalStep

(* An invocation ends without a word about the store but what holds of it. *)
LEMMA EndsInv ==
    ASSUME Inv, NEW p \in Procs, NEW f \in {"ok", "failed"}, Ends(p, f),
           UNCHANGED <<store, start>>,
           proc[p].at \in {"collect", "read", "check"}
    PROVE  Inv'
<1>. DEFINE r == Begun(f, proc[p].cmd)
<1>1. proc' = [proc EXCEPT ![p] = r]
  BY DEF Ends
<1>2. /\ r \in Locals /\ OneLevelIn(r.spec)
      /\ r.at = f /\ r.cmd = proc[p].cmd
  BY LocalType, BegunType, EmptyList DEF Inv, Ended
<1>3. start[p] # Absent => ListOf(store) = start[p]
  BY DEF Inv, Faithful, Progress, Reading
<1>. HIDE DEF r
<1>4. start[p] # Absent => Progress(r, start[p], ListOf(store))
  BY <1>2, <1>3 DEF Progress, Reading, Writing
<1>. QED BY <1>1, <1>2, <1>4, QuietStep

LEMMA BeginInv ==
    ASSUME Inv, NEW p \in Procs, Begin(p) PROVE Inv'
<1>1. PICK m \in Commands : proc' = [proc EXCEPT ![p] = Begun("collect", m)]
  BY DEF Begin
<1>. DEFINE r == Begun("collect", m)
            b == ListOf(store)
<1>2. /\ start' = [start EXCEPT ![p] = b] /\ store' = store
      /\ b \in Lists \cup {Absent}
  BY LocalType, StoreType DEF Begin, Inv
<1>3. /\ r \in Locals /\ OneLevelIn(r.spec) /\ r.at = "collect"
  BY BegunType, EmptyList
<1>. HIDE DEF r
<1>4. Progress(r, b, ListOf(store))
  BY <1>3 DEF Progress, Reading, Writing
<1>. HIDE DEF b
<1>. QED BY <1>1, <1>2, <1>3, <1>4, LocalStep DEF r

LEMMA CollectInv ==
    ASSUME Inv, NEW p \in Procs, collectLogLevelConfiguration(p) PROVE Inv'
<1>. DEFINE m == proc[p].cmd
            list == ListOf(store)
            Holds(spec) == proc' = [proc EXCEPT ![p].at = "read", ![p].spec = spec]
<1>1. /\ proc[p].at = "collect" /\ UNCHANGED <<store, start>>
      /\ proc[p] \in Locals /\ m \in Commands /\ list \in Lists
      /\ m.op \in {"show", "set", "unset"}
      /\ m.component \in Components /\ m.level \in Levels
      /\ OneLevelIn(list)
      /\ start[p] # Absent => list = start[p]
  BY LocalType, StoreType, CommandType
  DEF Inv, Levelled, Faithful, Progress, Reading, collectLogLevelConfiguration
<1>2. ASSUME NEW f \in {"ok", "failed"}, Ends(p, f) PROVE Inv'
  BY <1>1, <1>2, EndsInv
<1>3. ASSUME NEW spec \in Lists, OneLevelIn(spec), Effect(m, list, spec), Holds(spec)
      PROVE  Inv'
  <2>. DEFINE r == [proc[p] EXCEPT !.at = "read", !.spec = spec]
  <2>1. proc' = [proc EXCEPT ![p] = r]
    BY <1>3 DEF Inv, TypeOK
  <2>2. /\ r \in Locals /\ OneLevelIn(r.spec)
        /\ r.at = "read" /\ r.cmd = m /\ r.spec = spec
    BY <1>1, <1>3 DEF Locals
  <2>. HIDE DEF r, m, list
  <2>3. start[p] # Absent => Progress(r, start[p], list)
    BY <1>1, <1>3, <2>2 DEF Progress, Reading, Writing
  <2>. QED BY <1>1, <2>1, <2>2, <2>3, QuietStep DEF list
<1>4. CASE Ends(p, IF m.op = "show" THEN "failed" ELSE "ok")
  BY <1>2, <1>4
<1>5. ASSUME NEW cc \in Sorted(list),
             \/ m.op = "show" /\ Ends(p, "ok")
             \/ m.op = "set" /\ Holds(SetIn(cc, m.component, m.level))
             \/ /\ m.op = "unset" /\ Positions(cc, m.component) # {}
                /\ \E spec \in UnsetIn(cc, m.component) : Holds(spec)
             \/ m.op = "unset" /\ Ends(p, "ok")
      PROVE  Inv'
  <2>1. /\ cc \in Lists /\ InOrder(cc) /\ OneLevelIn(cc)
        /\ \A c : LevelIn(cc, c) = LevelIn(list, c)
        /\ \A c : Positions(cc, c) = {} <=> Positions(list, c) = {}
    BY <1>1, <1>5, SortedProperties
  <2>2. CASE Ends(p, "ok")
    BY <1>2, <2>2
  <2>3. CASE m.op = "set" /\ Holds(SetIn(cc, m.component, m.level))
    <3>. DEFINE spec == SetIn(cc, m.component, m.level)
    <3>1. /\ spec \in Lists /\ OneLevelIn(spec)
          /\ LevelIn(spec, m.component) = {m.level}
          /\ Positions(cc, m.component) = {} =>
                \A d \in Components \ {m.component} : LevelIn(spec, d) = LevelIn(cc, d)
          /\ \A d \in Components : d < m.component => LevelIn(spec, d) = LevelIn(cc, d)
      BY <1>1, <2>1, SetProperties
    <3>. HIDE DEF spec
    <3>2. Effect(m, list, spec)
      BY <2>1, <2>3, <3>1 DEF Effect
    <3>3. Holds(spec)
      BY <2>3 DEF spec
    <3>. QED BY <1>3, <3>1, <3>2, <3>3
  <2>4. ASSUME m.op = "unset", NEW spec \in UnsetIn(cc, m.component), Holds(spec)
        PROVE  Inv'
    <3>1. /\ spec \in Lists /\ OneLevelIn(spec)
          /\ Positions(spec, m.component) = {}
          /\ \A d : d # m.component => LevelIn(spec, d) = LevelIn(cc, d)
      BY <2>1, <2>4, UnsetProperties
    <3>2. Effect(m, list, spec)
      BY <2>1, <2>4, <3>1 DEF Effect
    <3>. QED BY <1>3, <2>4, <3>1, <3>2
  <2>. QED BY <1>5, <2>2, <2>3, <2>4
<1>. QED BY <1>4, <1>5 DEF collectLogLevelConfiguration

LEMMA ReadInv ==
    ASSUME Inv, NEW p \in Procs, updateLogLevelConfiguration(p) PROVE Inv'
<1>. DEFINE held == IF store = Absent THEN "none" ELSE "latest"
            r == [proc[p] EXCEPT !.at = "check", !.held = held]
<1>1. proc[p].at = "read" /\ UNCHANGED <<store, start>>
  BY DEF updateLogLevelConfiguration
<1>2. CASE Ends(p, "failed")
  BY <1>1, <1>2, EndsInv
<1>3. CASE proc' = [proc EXCEPT ![p].at = "check", ![p].held = held]
  <2>1. proc' = [proc EXCEPT ![p] = r]
    BY <1>3 DEF Inv, TypeOK
  <2>2. /\ r \in Locals /\ OneLevelIn(r.spec)
        /\ r.at = "check" /\ r.cmd = proc[p].cmd /\ r.spec = proc[p].spec
    BY LocalType DEF Inv, Levelled, Locals
  <2>. HIDE DEF r
  <2>3. start[p] # Absent => Progress(r, start[p], ListOf(store))
    BY <1>1, <2>2 DEF Inv, Faithful, Progress, Reading, Writing
  <2>. QED BY <1>1, <2>1, <2>2, <2>3, QuietStep
<1>. QED BY <1>2, <1>3 DEF updateLogLevelConfiguration

LEMMA CheckInv ==
    ASSUME Inv, NEW p \in Procs, checkExists(p) PROVE Inv'
<1>. DEFINE to == IF store = Absent THEN "create" ELSE "update"
            r == [proc[p] EXCEPT !.at = to]
<1>1. proc[p].at = "check" /\ UNCHANGED <<store, start>>
  BY DEF checkExists
<1>2. CASE Ends(p, "failed")
  BY <1>1, <1>2, EndsInv
<1>3. CASE Goes(p, to)
  <2>1. proc' = [proc EXCEPT ![p] = r]
    BY <1>3 DEF Inv, TypeOK, Goes
  <2>2. /\ r \in Locals /\ OneLevelIn(r.spec)
        /\ r.at \in {"create", "update"}
        /\ r.cmd = proc[p].cmd /\ r.spec = proc[p].spec
    BY LocalType DEF Inv, Levelled, Locals
  <2>. HIDE DEF r
  <2>3. start[p] # Absent => Progress(r, start[p], ListOf(store))
    BY <1>1, <2>2 DEF Inv, Faithful, Progress, Reading, Writing
  <2>. QED BY <1>1, <2>1, <2>2, <2>3, QuietStep
<1>. QED BY <1>2, <1>3 DEF checkExists

(* What another invocation holds of the object may get old, and no more. *)
LEMMA OutdatedType ==
    ASSUME TypeOK, NEW q \in Procs, NEW s
    PROVE  LET r == [proc[q] EXCEPT !.held = Outdated(q, s)]
           IN /\ r \in Locals
              /\ r.at = proc[q].at /\ r.cmd = proc[q].cmd
              /\ r.spec = proc[q].spec
BY LocalType DEF Locals, Outdated

(* A write, however it is answered. *)
LEMMA WriteInv ==
    ASSUME Inv, NEW p \in Procs, NEW admitted \in BOOLEAN, NEW next \in Locals,
           Write(p, admitted, next),
           proc[p].at \in {"create", "update"},
           next.cmd = proc[p].cmd,
           \/ next.at = "ok" /\ next.spec = <<>>
           \/ next.at = "update" /\ next.spec = proc[p].spec
    PROVE  Inv'
<1>1. PICK answer \in {"served"} \cup Faults :
         LET applied == admitted /\ answer # "refused"
             s == IF applied THEN proc[p].spec ELSE store
         IN /\ store' = s
            /\ proc' = [q \in Procs |->
                          IF q # p THEN [proc[q] EXCEPT !.held = Outdated(q, s)]
                          ELSE IF applied /\ answer = "served" THEN next
                          ELSE Begun("failed", proc[p].cmd)]
            /\ start' = [q \in Procs |->
                           IF q # p /\ s # store THEN Absent ELSE start[q]]
  BY DEF Write
<1>. DEFINE applied == admitted /\ answer # "refused"
            s == IF applied THEN proc[p].spec ELSE store
            r == IF applied /\ answer = "served" THEN next
                 ELSE Begun("failed", proc[p].cmd)
            other(q) == [proc[q] EXCEPT !.held = Outdated(q, s)]
<1>2. /\ store' = s
      /\ proc' = [q \in Procs |-> IF q # p THEN other(q) ELSE r]
      /\ start' = [q \in Procs |-> IF q # p /\ s # store THEN Absent ELSE start[q]]
  BY <1>1
<1>3. /\ proc[p].cmd \in Commands /\ proc[p].spec \in Lists
      /\ store \in Lists \cup {Absent}
      /\ start \in [Procs -> Lists \cup {Absent}]
      /\ OneLevelIn(proc[p].spec) /\ OneLevelIn(ListOf(store))
      /\ ListOf(proc[p].spec) = proc[p].spec
  BY LocalType, StoreType DEF Inv, Levelled, TypeOK
<1>4. /\ Begun("failed", proc[p].cmd) \in Locals
      /\ Begun("failed", proc[p].cmd).at = "failed"
      /\ Begun("failed", proc[p].cmd).cmd = proc[p].cmd
      /\ Begun("failed", proc[p].cmd).spec = <<>>
  BY <1>3, BegunType DEF Ended
<1>5. s \in {store, proc[p].spec} /\ s \in Lists \cup {Absent}
  BY <1>3
<1>6. /\ r \in Locals /\ r.cmd = proc[p].cmd
      /\ \/ r.at \in {"ok", "failed"} /\ r.spec = <<>>
         \/ r.at = "update" /\ r.spec = proc[p].spec /\ s = proc[p].spec
  BY <1>4
<1>7. \A q \in Procs : /\ other(q) \in Locals
                       /\ other(q).at = proc[q].at /\ other(q).cmd = proc[q].cmd
                       /\ other(q).spec = proc[q].spec
  BY OutdatedType DEF Inv
<1>. HIDE DEF r, s, other
<1>8. /\ \A q \in Procs : /\ proc'[q] = IF q # p THEN other(q) ELSE r
                          /\ start'[q] = IF q # p /\ s # store THEN Absent
                                         ELSE start[q]
  BY <1>2
<1>9. TypeOK'
  <2>1. store' \in Lists \cup {Absent}
    BY <1>2, <1>5
  <2>2. proc' \in [Procs -> Locals]
    BY <1>2, <1>6, <1>7
  <2>3. start' \in [Procs -> Lists \cup {Absent}]
    BY <1>2, <1>3
  <2>. QED BY <2>1, <2>2, <2>3 DEF TypeOK
<1>10. Levelled'
  <2>1. OneLevelIn(ListOf(store'))
    BY <1>2, <1>3, <1>5
  <2>2. ASSUME NEW q \in Procs PROVE OneLevelIn(proc'[q].spec)
    BY <1>3, <1>6, <1>7, <1>8, EmptyList DEF Inv, Levelled
  <2>. QED BY <2>1, <2>2 DEF Levelled
<1>11. ASSUME NEW q \in Procs PROVE Faithful(q)'
  <2>. SUFFICES ASSUME start'[q] # Absent
                PROVE  Progress(proc'[q], start'[q], ListOf(store'))
    BY DEF Faithful
  <2>1. start'[q] = start[q] /\ Progress(proc[q], start[q], ListOf(store))
    BY <1>8 DEF Inv, Faithful
  <2>2. CASE q # p
    <3>1. store' = store
      BY <1>2, <1>8, <2>2
    <3>2. proc'[q] = other(q)
      BY <1>8, <2>2
    <3>. QED BY <1>7, <2>1, <3>1, <3>2 DEF Progress
  <2>3. CASE q = p
    <3>1. /\ Effect(proc[p].cmd, start[p], proc[p].spec)
          /\ \/ ListOf(store) = start[p]
             \/ ListOf(store) = proc[p].spec
      BY <2>1, <2>3 DEF Progress, Reading, Writing
    <3>2. proc'[q] = r /\ start'[q] = start[p]
      BY <1>8, <2>1, <2>3
    <3>3. \/ ListOf(store') = start[p]
          \/ ListOf(store') = proc[p].spec
      BY <1>2, <1>3, <1>5, <3>1
    <3>4. CASE r.at \in {"ok", "failed"}
      BY <1>6, <3>1, <3>2, <3>3, <3>4 DEF Progress, Reading, Writing
    <3>5. CASE r.at = "update" /\ r.spec = proc[p].spec
      BY <1>6, <3>1, <3>2, <3>3, <3>5 DEF Progress, Reading, Writing
    <3>. QED BY <1>6, <3>4, <3>5
  <2>. QED BY <2>2, <2>3
<1>. QED BY <1>9, <1>10, <1>11 DEF Inv

LEMMA CreateInv ==
    ASSUME Inv, NEW p \in Procs, createConfiguration(p) PROVE Inv'
<1>. DEFINE next == [proc[p] EXCEPT !.at = "update", !.held = "latest"]
            Admitted(blanks) == /\ store = Absent /\ proc[p].held = "none"
                                /\ Valid(proc[p].spec, blanks)
<1>1. PICK blanks \in BlankAccepted : Write(p, Admitted(blanks), next)
  BY DEF createConfiguration
<1>2. /\ next \in Locals /\ next.cmd = proc[p].cmd
      /\ next.at = "update" /\ next.spec = proc[p].spec
  BY LocalType DEF Inv, Locals
<1>3. proc[p].at = "create"
  BY DEF createConfiguration
<1>4. Admitted(blanks) \in BOOLEAN
  BY ComponentsAssumption DEF Valid
<1>. HIDE DEF next, Admitted
<1>. QED BY <1>1, <1>2, <1>3, <1>4, WriteInv

LEMMA UpdateInv ==
    ASSUME Inv, NEW p \in Procs, updateConfiguration(p) PROVE Inv'
<1>. DEFINE next == Begun("ok", proc[p].cmd)
            Admitted(blanks) == /\ store # Absent /\ proc[p].held = "latest"
                                /\ Valid(proc[p].spec, blanks)
<1>1. PICK blanks \in BlankAccepted : Write(p, Admitted(blanks), next)
  BY DEF updateConfiguration
<1>2. /\ next \in Locals /\ next.cmd = proc[p].cmd
      /\ next.at = "ok" /\ next.spec = <<>>
  BY LocalType, BegunType DEF Inv, Ended
<1>3. proc[p].at = "update"
  BY DEF updateConfiguration
<1>4. Admitted(blanks) \in BOOLEAN
  BY ComponentsAssumption DEF Valid
<1>. HIDE DEF next, Admitted
<1>. QED BY <1>1, <1>2, <1>3, <1>4, WriteInv

LEMMA DeleteInv == ASSUME Inv, Delete PROVE Inv'
<1>1. /\ store' = Absent /\ start' = [q \in Procs |-> Absent]
      /\ proc' = [q \in Procs |-> [proc[q] EXCEPT !.held = Outdated(q, Absent)]]
  BY DEF Delete
<1>2. \A q \in Procs : /\ proc'[q] \in Locals
                       /\ proc'[q].spec = proc[q].spec
  BY <1>1, OutdatedType DEF Inv
<1>3. TypeOK'
  BY <1>1, <1>2 DEF TypeOK
<1>4. Levelled'
  BY <1>1, <1>2, EmptyList DEF Inv, Levelled, ListOf
<1>5. \A q \in Procs : Faithful(q)'
  BY <1>1 DEF Faithful
<1>. QED BY <1>3, <1>4, <1>5 DEF Inv

LEMMA NextInv == Inv /\ [Next]_vars => Inv'
<1>. SUFFICES ASSUME Inv, [Next]_vars PROVE Inv'
  OBVIOUS
<1>1. CASE Delete
  BY <1>1, DeleteInv
<1>2. ASSUME NEW p \in Procs, Begin(p) PROVE Inv'
  BY <1>2, BeginInv
<1>3. ASSUME NEW p \in Procs, Step(p) PROVE Inv'
  BY <1>3, CollectInv, ReadInv, CheckInv, CreateInv, UpdateInv DEF Step
<1>4. CASE UNCHANGED vars
  BY <1>4 DEF vars, Inv, TypeOK, Levelled, Faithful
<1>. QED BY <1>1, <1>2, <1>3, <1>4 DEF Next

-----------------------------------------------------------------------------
(* Theorems                                                                *)

LEMMA Invariance == Spec => []Inv
BY InitInv, NextInv, PTL DEF Spec

(* Every variable has its type, for any invocations, lists and faults. *)
THEOREM TypeCorrect == Spec => []TypeOK
<1>1. Inv => TypeOK
  BY DEF Inv
<1>. QED BY <1>1, Invariance, PTL

(* The list in the server has no component twice, nor one without a level, *)
(* whichever commands interleave, fail or are answered and not heard.      *)
THEOREM OneLevelEach == Spec => []OneLevel
<1>1. ASSUME Inv PROVE OneLevel
  <2>. SUFFICES ASSUME store # Absent, NEW c \in Components
                PROVE  /\ Cardinality(Positions(store, c)) <= 1
                       /\ NoLevel \notin LevelIn(store, c)
    BY DEF OneLevel
  <2>1. /\ store \in Lists /\ OneLevelIn(store)
    BY <1>1, StoreType DEF Inv, TypeOK, Levelled, ListOf
  <2>2. \A i, j \in Positions(store, c) : i = j
    BY <2>1 DEF OneLevelIn, Positions
  <2>3. Cardinality(Positions(store, c)) <= 1
    <3>1. CASE Positions(store, c) = {}
      BY <3>1, FS_EmptySet
    <3>2. ASSUME NEW i \in Positions(store, c)
          PROVE  Cardinality(Positions(store, c)) = 1
      <4>1. Positions(store, c) = {i}
        BY <2>2, <3>2
      <4>. QED BY <4>1, FS_Singleton
    <3>. QED BY <3>1, <3>2
  <2>4. NoLevel \notin LevelIn(store, c)
    BY <2>1 DEF OneLevelIn, LevelIn, Positions
  <2>. QED BY <2>3, <2>4
<1>. QED BY <1>1, Invariance, PTL

(* A command during which nobody else writes changes nothing or does its   *)
(* work, at whatever call it fails: but for the components that sort after *)
(* one that set changes, of which nothing is said.                         *)
THEOREM Atomic == Spec => []AllOrNothing
<1>1. ASSUME Inv PROVE AllOrNothing
  <2>. SUFFICES ASSUME NEW p \in Procs, Undisturbed(p), ListOf(store) # start[p]
                PROVE  Effect(proc[p].cmd, start[p], ListOf(store))
    BY DEF AllOrNothing, Effect
  <2>1. proc[p].at \in {"ready", "ok", "failed"} /\ start[p] # Absent
    BY DEF Undisturbed, Running, Ended
  <2>. QED BY <1>1, <2>1 DEF Inv, Faithful, Progress, Reading
<1>. QED BY <1>1, Invariance, PTL
===============================================================================
