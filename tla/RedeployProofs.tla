--------------------------- MODULE RedeployProofs ---------------------------
(***************************************************************************)
(* Theorems about Redeploy: it implements ResetOrder, for any summaries,   *)
(* dependencies, invocations and faults.                                   *)
(***************************************************************************)
EXTENDS Redeploy, WalkTheorems

-----------------------------------------------------------------------------
(* Dependencies                                                            *)

(* No dependencies run in a circle among the summaries of T. *)
NoCircle(deps, T) ==
    \A S \in SUBSET T : S # {} => \E n \in S : deps[n] \cap S = {}

(* Each of s depends on summaries of D and earlier ones of s only. *)
Ordered(s, D, deps) ==
    \A i \in 1 .. Len(s) :
        deps[s[i]] \subseteq D \cup {s[j] : j \in 1 .. i - 1}

LEMMA PlanCircle ==
    ASSUME TypeOK, NEW p \in Procs
    PROVE  Abstract!Circular(Plan(p))
             <=> ~NoCircle(proc[p].dependencies, proc[p].listed)
BY DEF Abstract!Circular, Plan, NoCircle

LEMMA OrderedClosed ==
    ASSUME NEW s \in Seq(Names), NEW D, NEW deps, Ordered(s, D, deps)
    PROVE  \A n \in ToSet(s) : deps[n] \subseteq D \cup ToSet(s)
<1>1. DOMAIN s = 1 .. Len(s) /\ Len(s) \in Nat
  BY LenProperties
<1>2. ASSUME NEW i \in 1 .. Len(s)
      PROVE  deps[s[i]] \subseteq D \cup ToSet(s)
  <2>1. \A j \in 1 .. i - 1 : j \in 1 .. Len(s)
    BY <1>1
  <2>2. {s[j] : j \in 1 .. i - 1} \subseteq ToSet(s)
    BY <1>1, <2>1 DEF ToSet
  <2>. QED BY <2>2 DEF Ordered
<1>. QED BY <1>1, <1>2 DEF ToSet

(* What has all its dependencies in an order may be appended to it. *)
LEMMA OrderedAppend ==
    ASSUME NEW s \in Seq(Names), NEW D, NEW deps, Ordered(s, D, deps),
           NEW n \in Names, deps[n] \subseteq D \cup ToSet(s)
    PROVE  Ordered(Append(s, n), D, deps)
<1>. DEFINE t == Append(s, n)
<1>1. /\ Len(s) \in Nat /\ DOMAIN s = 1 .. Len(s)
      /\ Len(t) = Len(s) + 1 /\ t[Len(s) + 1] = n
      /\ \A i \in 1 .. Len(s) : t[i] = s[i]
  BY LenProperties, AppendProperties
<1>. HIDE DEF t
<1>2. ASSUME NEW i \in 1 .. Len(t)
      PROVE  deps[t[i]] \subseteq D \cup {t[j] : j \in 1 .. i - 1}
  <2>1. CASE i = Len(s) + 1
    <3>1. ToSet(s) = {t[j] : j \in 1 .. i - 1}
      BY <2>1, <1>1 DEF ToSet
    <3>. QED BY <3>1, <2>1, <1>1
  <2>2. CASE i \in 1 .. Len(s)
    <3>1. \A j \in 1 .. i - 1 : t[j] = s[j]
      BY <2>2, <1>1
    <3>. QED BY <3>1, <2>2, <1>1 DEF Ordered
  <2>. QED BY <2>1, <2>2, <1>1
<1>. QED BY <1>2 DEF Ordered, t

(* Once its first summary is reset, the rest of an order is one. *)
LEMMA OrderedTail ==
    ASSUME NEW s \in Seq(Names), NEW D, NEW deps, Ordered(s, D, deps), s # <<>>
    PROVE  /\ deps[Head(s)] \subseteq D
           /\ Ordered(Tail(s), D \cup {Head(s)}, deps)
<1>. DEFINE t == Tail(s)
<1>1. /\ Len(s) \in Nat \ {0} /\ Len(t) = Len(s) - 1
      /\ \A i \in 1 .. Len(s) - 1 : t[i] = s[i + 1]
      /\ Head(s) = s[1]
  BY HeadTailProperties, EmptySeq
<1>. HIDE DEF t
<1>2. deps[s[1]] \subseteq D \cup {s[j] : j \in 1 .. 1 - 1}
  BY <1>1 DEF Ordered
<1>3. ASSUME NEW i \in 1 .. Len(t)
      PROVE  deps[t[i]] \subseteq D \cup {s[1]} \cup {t[j] : j \in 1 .. i - 1}
  <2>1. i + 1 \in 1 .. Len(s) /\ t[i] = s[i + 1] /\ (i + 1) - 1 = i
    BY <1>1
  <2>2. deps[t[i]] \subseteq D \cup {s[j] : j \in 1 .. i}
    BY <2>1 DEF Ordered
  <2>3. ASSUME NEW j \in 1 .. i, j # 1
        PROVE  \E k \in 1 .. i - 1 : s[j] = t[k]
    <3>1. j - 1 \in 1 .. i - 1 /\ j - 1 \in 1 .. Len(s) - 1 /\ (j - 1) + 1 = j
      BY <2>3, <1>1
    <3>. QED BY <3>1, <1>1
  <2>. QED BY <2>2, <2>3
<1>. QED BY <1>1, <1>2, <1>3 DEF Ordered, t

(* Of the summaries L, those in O are in order and those in Q may follow.  *)
KahnState(deps, L, O, Q) ==
    /\ O \cap Q = {} /\ O \cup Q \subseteq L
    /\ \A m \in O \cup Q : deps[m] \subseteq O
    /\ \A m \in L : deps[m] \subseteq O => m \in O \cup Q
    /\ NoCircle(deps, O)

(* The summaries that wait for n only. *)
Freed(deps, O, n) ==
    {m \in Names : n \in deps[m] /\ Cardinality(deps[m] \ O) = 1}

(* n leaves the queue Q for the order O, and what it frees joins the queue. *)
KahnStep(deps, L, O, Q, n) ==
    /\ Freed(deps, O, n) \cap (O \cup Q) = {}
    /\ Freed(deps, O, n) \subseteq L
    /\ \A m \in Names : Cardinality(deps[m] \ (O \cup {n})) =
          IF n \in deps[m] THEN Cardinality(deps[m] \ O) - 1
                          ELSE Cardinality(deps[m] \ O)
    /\ KahnState(deps, L, O \cup {n}, (Q \ {n}) \cup Freed(deps, O, n))

(* One round of Kahn's algorithm, seen as a step of sets. *)
LEMMA KahnRound ==
    ASSUME NEW L \in SUBSET Names, NEW deps \in [Names -> SUBSET Names],
           \A m \in Names : m \notin L => deps[m] = {},
           NEW O, NEW Q, NEW n \in Q, KahnState(deps, L, O, Q)
    PROVE  KahnStep(deps, L, O, Q, n)
<1>. DEFINE R == Freed(deps, O, n)
<1>. USE DEF KahnState, KahnStep, Freed
<1>1. n \notin O /\ deps[n] \subseteq O /\ n \in Names /\ O \subseteq Names
  OBVIOUS
<1>2. ASSUME NEW m \in Names
      PROVE  /\ IsFiniteSet(deps[m] \ O)
             /\ Cardinality(deps[m] \ O) \in Nat
  <2>1. IsFiniteSet(deps[m] \ O)
    BY FS_Subset, SummariesAssumption
  <2>. QED BY <2>1, FS_CardinalityType
<1>3. ASSUME NEW m \in Names
      PROVE  Cardinality(deps[m] \ (O \cup {n})) =
               IF n \in deps[m] THEN Cardinality(deps[m] \ O) - 1
                               ELSE Cardinality(deps[m] \ O)
  <2>1. deps[m] \ (O \cup {n}) = (deps[m] \ O) \ {n}
    OBVIOUS
  <2>2. Cardinality((deps[m] \ O) \ {n}) =
          IF n \in deps[m] \ O THEN Cardinality(deps[m] \ O) - 1
                              ELSE Cardinality(deps[m] \ O)
    BY <1>2, FS_RemoveElement
  <2>3. n \in deps[m] \ O <=> n \in deps[m]
    BY <1>1
  <2>. QED BY <2>1, <2>2, <2>3
<1>4. R \cap (O \cup Q) = {}
  BY <1>1
<1>5. ASSUME NEW m \in Names, n \in deps[m]
      PROVE  Cardinality(deps[m] \ O) = 1 <=> deps[m] \subseteq O \cup {n}
  <2>1. Cardinality(deps[m] \ O) = 1 <=> \E x : deps[m] \ O = {x}
    BY <1>2, FS_Singleton
  <2>2. n \in deps[m] \ O
    BY <1>1, <1>5
  <2>3. (\E x : deps[m] \ O = {x}) <=> deps[m] \ O = {n}
    BY <2>2
  <2>4. deps[m] \ O = {n} <=> deps[m] \subseteq O \cup {n}
    BY <2>2
  <2>. QED BY <2>1, <2>3, <2>4
<1>6. \A m \in R : deps[m] \subseteq O \cup {n}
  BY <1>5
<1>7. ASSUME NEW m \in L, deps[m] \subseteq O \cup {n}
      PROVE  m \in O \cup {n} \cup (Q \ {n}) \cup R
  <2>1. CASE n \in deps[m]
    BY <2>1, <1>5, <1>7
  <2>2. CASE n \notin deps[m]
    BY <2>2, <1>7
  <2>. QED BY <2>1, <2>2
<1>8. NoCircle(deps, O \cup {n})
  <2>. SUFFICES ASSUME NEW S \in SUBSET (O \cup {n}), S # {},
                       \A m \in S : deps[m] \cap S # {}
                PROVE  FALSE
    BY DEF NoCircle
  <2>. DEFINE T == S \ {n}
  <2>1. T \in SUBSET O
    OBVIOUS
  <2>2. T # {}
    <3>1. CASE n \in S
      <4>1. deps[n] \cap S # {}
        BY <3>1
      <4>. QED BY <4>1, <1>1
    <3>2. CASE n \notin S
      BY <3>2
    <3>. QED BY <3>1, <3>2
  <2>3. \A m \in T : deps[m] \cap T # {}
    BY <2>1, <1>1
  <2>. QED BY <2>1, <2>2, <2>3 DEF NoCircle
<1>9. R \subseteq L
  OBVIOUS
<1>10. \A m \in O \cup {n} \cup (Q \ {n}) : deps[m] \subseteq O \cup {n}
  BY <1>1
<1>. QED BY <1>1, <1>3, <1>4, <1>6, <1>7, <1>8, <1>9, <1>10

-----------------------------------------------------------------------------
(* The invariant                                                           *)

(* While it sorts, an invocation has an order O that is closed under       *)
(* dependencies and free of circles, a queue Q of summaries that may come  *)
(* next, and the number of dependencies each summary still waits for.      *)
Sorting(r) ==
    LET O == ToSet(r.resetOrder)
        Q == ToSet(r.queue)
    IN /\ IsInjective(r.resetOrder) /\ IsInjective(r.queue)
       /\ KahnState(r.dependencies, r.listed, O, Q)
       /\ Ordered(r.resetOrder, {}, r.dependencies)
       /\ \A n \in Names :
             r.outgoingCount[n] = Cardinality(r.dependencies[n] \ O)

(* While it resets, what is left of the order is all that D lacks. *)
Resetting(r, D) ==
    /\ IsInjective(r.resetOrder)
    /\ D \cap ToSet(r.resetOrder) = {}
    /\ D \cup ToSet(r.resetOrder) = r.listed
    /\ Ordered(r.resetOrder, D, r.dependencies)

(* Of an invocation with local state r that has patched D. *)
Steady(r, D) ==
    /\ \A n \in Names : /\ r.dependencies[n] \subseteq r.listed
                        /\ n \notin r.listed => r.dependencies[n] = {}
    /\ r.at \in {"ready", "list"} => r.listed = {} /\ r.resetOrder = <<>>
    /\ r.at \in {"ready", "list", "sort", "cycle"} => D = {}
    /\ r.at = "sort" => Sorting(r)
    /\ r.at = "reset" => Resetting(r, D)
    /\ r.at \in {"reset", "ok"} => NoCircle(r.dependencies, r.listed)
    /\ r.at = "cycle" => ~NoCircle(r.dependencies, r.listed)

IInv == TypeOK /\ \A p \in Procs : Steady(proc[p], patched[p])

(* A step of p leaves the other invocations as they are. *)
LEMMA ProcessStep ==
    ASSUME IInv, NEW p \in Procs, NEW r \in Locals, NEW D \in SUBSET Names,
           proc' = [proc EXCEPT ![p] = r],
           patched' = [patched EXCEPT ![p] = D],
           status' \in [Names -> {Absent} \cup SUBSET Fields],
           dependsOn' = dependsOn,
           Steady(r, D)
    PROVE  IInv'
<1>1. TypeOK'
  BY DEF IInv, TypeOK
<1>2. ASSUME NEW q \in Procs
      PROVE  Steady(proc'[q], patched'[q])
  <2>1. CASE q = p
    BY <2>1 DEF IInv, TypeOK
  <2>2. CASE q # p
    <3>1. proc'[q] = proc[q] /\ patched'[q] = patched[q]
      BY <2>2 DEF IInv, TypeOK
    <3>. QED BY <3>1 DEF IInv
  <2>. QED BY <2>1, <2>2
<1>. QED BY <1>1, <1>2 DEF IInv

LEMMA InvocationType ==
    ASSUME NEW f \in {"list", "sort", "reset"} \cup Ended, NEW c \in Clusters,
           NEW listed \in SUBSET Names, NEW deps \in [Names -> SUBSET Names]
    PROVE  Invocation(f, c, listed, deps) \in Locals
<1>1. EmptyMap \in [Names -> SUBSET Fields]
  BY DEF EmptyMap
<1>2. [n \in Names |-> 0] \in [Names -> Nat]
  OBVIOUS
<1>3. <<>> \in Seq(Names)
  BY EmptySeq
<1>. QED BY <1>1, <1>2, <1>3 DEF Invocation, Locals

LEMMA GoesType ==
    ASSUME NEW r \in Locals, NEW f \in {"list", "sort", "reset"} \cup Ended
    PROVE  [r EXCEPT !.at = f] \in Locals
BY DEF Locals

LEMMA InitInv == ASSUME Init PROVE IInv
<1>1. PICK c \in Clusters : proc = [p \in Procs |-> Begun("ready", c)]
  BY DEF Init
<1>2. Begun("ready", c) \in Locals
  BY InvocationType DEF Begun, Ended, EmptyMap
<1>3. TypeOK
  BY <1>1, <1>2, SummariesAssumption DEF Init, TypeOK
<1>4. Steady(Begun("ready", c), {})
  BY DEF Steady, Begun, Invocation, EmptyMap
<1>. QED BY <1>1, <1>3, <1>4 DEF IInv, Init

LEMMA ForceDeploymentInv ==
    ASSUME IInv, NEW p \in Procs, ForceDeployment(p)
    PROVE  IInv'
<1>1. PICK c \in Clusters : proc' = [proc EXCEPT ![p] = Begun("list", c)]
  BY DEF ForceDeployment
<1>2. Begun("list", c) \in Locals
  BY InvocationType DEF Begun, EmptyMap
<1>3. Steady(Begun("list", c), {})
  BY DEF Steady, Begun, Invocation, EmptyMap
<1>. QED BY <1>1, <1>2, <1>3, ProcessStep DEF ForceDeployment, IInv, TypeOK

(* Ending is steady where the conditions on how it ends are met. *)
LEMMA EndsInv ==
    ASSUME IInv, NEW p \in Procs, NEW f \in Ended \ {"ready"}, Ends(p, f),
           NEW D \in SUBSET Names, patched' = [patched EXCEPT ![p] = D],
           status' \in [Names -> {Absent} \cup SUBSET Fields],
           dependsOn' = dependsOn,
           f = "ok" => NoCircle(proc[p].dependencies, proc[p].listed),
           f = "cycle" => /\ ~NoCircle(proc[p].dependencies, proc[p].listed)
                          /\ D = {}
    PROVE  IInv'
<1>. DEFINE r == Invocation(f, proc[p].cluster, proc[p].listed,
                            proc[p].dependencies)
<1>1. proc[p] \in Locals
  BY DEF IInv, TypeOK
<1>2. r \in Locals
  BY <1>1, InvocationType DEF Locals
<1>3. proc' = [proc EXCEPT ![p] = r]
  BY DEF Ends
<1>4. Steady(proc[p], patched[p])
  BY DEF IInv
<1>5. /\ r.at = f /\ r.listed = proc[p].listed
      /\ r.dependencies = proc[p].dependencies
  BY DEF Invocation
<1>6. Steady(r, D)
  BY <1>4, <1>5 DEF Steady, Ended
<1>. HIDE DEF r
<1>. QED BY <1>2, <1>3, <1>6, ProcessStep

(* Its three forms. *)
LEMMA FailedInv ==
    ASSUME IInv, NEW p \in Procs, Ends(p, "failed"),
           NEW D \in SUBSET Names, patched' = [patched EXCEPT ![p] = D],
           status' \in [Names -> {Absent} \cup SUBSET Fields],
           dependsOn' = dependsOn
    PROVE  IInv'
<1>1. "failed" \in Ended \ {"ready"} /\ "failed" # "ok" /\ "failed" # "cycle"
  BY DEF Ended
<1>. QED BY <1>1, EndsInv

LEMMA OkInv ==
    ASSUME IInv, NEW p \in Procs, Ends(p, "ok"),
           NoCircle(proc[p].dependencies, proc[p].listed),
           UNCHANGED <<status, dependsOn, patched>>
    PROVE  IInv'
<1>1. "ok" \in Ended \ {"ready"} /\ "ok" # "cycle"
  BY DEF Ended
<1>2. /\ status' \in [Names -> {Absent} \cup SUBSET Fields]
      /\ patched[p] \in SUBSET Names
      /\ patched' = [patched EXCEPT ![p] = patched[p]]
      /\ dependsOn' = dependsOn
  BY DEF IInv, TypeOK
<1>. QED BY <1>1, <1>2, EndsInv

LEMMA CycleInv ==
    ASSUME IInv, NEW p \in Procs, Ends(p, "cycle"), patched[p] = {},
           ~NoCircle(proc[p].dependencies, proc[p].listed),
           UNCHANGED <<status, dependsOn, patched>>
    PROVE  IInv'
<1>1. "cycle" \in Ended \ {"ready"} /\ "cycle" # "ok"
  BY DEF Ended
<1>2. /\ status' \in [Names -> {Absent} \cup SUBSET Fields]
      /\ {} \in SUBSET Names
      /\ patched' = [patched EXCEPT ![p] = {}]
      /\ dependsOn' = dependsOn
  BY DEF IInv, TypeOK
<1>. QED BY <1>1, <1>2, EndsInv

LEMMA ListedFinite ==
    ASSUME NEW S \in SUBSET Names
    PROVE  IsFiniteSet(S) /\ Cardinality(S) \in Nat
BY SummariesAssumption, FS_Subset, FS_CardinalityType

LEMMA listSummariesInv ==
    ASSUME IInv, NEW p \in Procs, listSummaries(p)
    PROVE  IInv'
<1>. DEFINE listed == Listed(proc[p].cluster)
            deps == Within(listed)
            first == {n \in listed : deps[n] = {}}
<1>1. /\ proc[p] \in Locals /\ proc[p].at = "list"
      /\ proc[p].listed = {} /\ patched[p] = {}
      /\ status' = status /\ dependsOn' = dependsOn /\ patched' = patched
      /\ status \in [Names -> {Absent} \cup SUBSET Fields]
      /\ dependsOn \in [Names -> SUBSET Names]
      /\ patched \in [Procs -> SUBSET Names]
  BY DEF IInv, TypeOK, Steady, listSummaries
<1>2. CASE \E f \in {"failed", "ok"} : Ends(p, f)
  <2>1. patched' = [patched EXCEPT ![p] = {}]
    BY <1>1
  <2>2. NoCircle(proc[p].dependencies, proc[p].listed)
    BY <1>1 DEF NoCircle
  <2>. QED BY <1>1, <1>2, <2>1, <2>2, EndsInv DEF Ended
<1>3. ASSUME NEW queue \in SetToSeqs(first),
             proc' = [proc EXCEPT
                        ![p].at = "sort",
                        ![p].listed = listed,
                        ![p].csMap = [n \in Names |->
                            IF n \in listed THEN status[n] ELSE {}],
                        ![p].dependencies = deps,
                        ![p].outgoingCount =
                            [n \in Names |-> Cardinality(deps[n])],
                        ![p].queue = queue]
      PROVE  IInv'
  <2>. DEFINE map == [n \in Names |-> IF n \in listed THEN status[n] ELSE {}]
              count == [n \in Names |-> Cardinality(deps[n])]
              r == [proc[p] EXCEPT !.at = "sort", !.listed = listed,
                                   !.csMap = map, !.dependencies = deps,
                                   !.outgoingCount = count, !.queue = queue]
  <2>1. /\ listed \in SUBSET Names
        /\ deps \in [Names -> SUBSET Names]
        /\ map \in [Names -> SUBSET Fields]
    BY <1>1 DEF Listed, Within
  <2>2. count \in [Names -> Nat]
    BY <2>1, ListedFinite
  <2>3. first \in SUBSET Names
    BY <2>1
  <2>4. queue \in Seq(first) /\ IsInjective(queue) /\ ToSet(queue) = first
    BY <2>3, ListedFinite, WalkProperties
  <2>5. queue \in Seq(Names)
    BY <2>3, <2>4, SeqMonotonic
  <2>6. proc' = [proc EXCEPT ![p] = r]
    BY <1>3
  <2>7. /\ \A n \in Names : deps[n] \subseteq listed
        /\ \A n \in Names : n \notin listed => deps[n] = {}
    BY <1>1 DEF Within
  <2>8. proc[p].resetOrder = <<>>
    BY <1>1 DEF IInv, Steady
  <2>9. r \in Locals
    BY <1>1, <2>1, <2>2, <2>5 DEF Locals
  <2>10. /\ r.at = "sort" /\ r.listed = listed /\ r.dependencies = deps
         /\ r.outgoingCount = count /\ r.queue = queue /\ r.resetOrder = <<>>
    BY <1>1, <2>8 DEF Locals
  <2>11. /\ ToSet(<<>>) = {} /\ IsInjective(<<>>) /\ Ordered(<<>>, {}, deps)
    BY DEF ToSet, IsInjective, Ordered
  <2>12. /\ first \subseteq listed
         /\ \A n \in first : deps[n] \subseteq {}
         /\ \A n \in listed : deps[n] \subseteq {} => n \in {} \cup first
    OBVIOUS
  <2>13. \A n \in Names : count[n] = Cardinality(deps[n] \ {})
    <3>1. \A n \in Names : deps[n] \ {} = deps[n]
      OBVIOUS
    <3>. QED BY <3>1
  <2>14. KahnState(deps, listed, {}, first)
    BY <2>12 DEF NoCircle, KahnState
  <2>. HIDE DEF r, first, deps, listed, count, map
  <2>15. Sorting(r)
    BY <2>4, <2>10, <2>11, <2>12, <2>13, <2>14 DEF Sorting
  <2>16. Steady(r, {})
    BY <2>7, <2>10, <2>15 DEF Steady
  <2>17. patched' = [patched EXCEPT ![p] = {}]
    BY <1>1
  <2>. QED BY <1>1, <2>6, <2>9, <2>16, <2>17, ProcessStep
<1>. QED BY <1>2, <1>3 DEF listSummaries

(* The facts about an invocation that its steps start from. *)
LEMMA LocalFacts ==
    ASSUME IInv, NEW p \in Procs
    PROVE  /\ proc[p] \in Locals /\ Steady(proc[p], patched[p])
           /\ patched[p] \in SUBSET Names
           /\ proc[p].listed \in SUBSET Names
           /\ proc[p].dependencies \in [Names -> SUBSET Names]
           /\ proc[p].outgoingCount \in [Names -> Nat]
           /\ proc[p].queue \in Seq(Names)
           /\ proc[p].resetOrder \in Seq(Names)
           /\ status \in [Names -> {Absent} \cup SUBSET Fields]
           /\ patched = [patched EXCEPT ![p] = patched[p]]
BY DEF IInv, TypeOK, Locals

LEMMA popQueueInv ==
    ASSUME IInv, NEW p \in Procs, popQueue(p)
    PROVE  IInv'
<1>. DEFINE deps == proc[p].dependencies
            listed == proc[p].listed
            order == proc[p].resetOrder
            queue == proc[p].queue
            old == proc[p].outgoingCount
            O == ToSet(order)
            Q == ToSet(queue)
            n == Head(queue)
            R == Released(p, n)
            count == [m \in Names |-> IF n \in deps[m] THEN old[m] - 1 ELSE old[m]]
<1>1. /\ proc[p].at = "sort" /\ queue # <<>> /\ Sorting(proc[p])
      /\ patched' = patched /\ status' = status /\ dependsOn' = dependsOn
      /\ patched[p] = {}
      /\ \A m \in Names : /\ deps[m] \subseteq listed
                          /\ m \notin listed => deps[m] = {}
  BY LocalFacts DEF popQueue, Steady
<1>2. PICK next \in SetToSeqs(R) :
        proc' = [proc EXCEPT ![p].queue = Tail(@) \o next,
                             ![p].resetOrder = Append(@, n),
                             ![p].outgoingCount =
                                 [m \in Names |-> IF n \in deps[m] THEN @[m] - 1
                                                 ELSE @[m]]]
  BY DEF popQueue
<1>3. /\ IsInjective(order) /\ IsInjective(queue)
      /\ KahnState(deps, listed, O, Q)
      /\ Ordered(order, {}, deps)
      /\ \A m \in Names : old[m] = Cardinality(deps[m] \ O)
  BY <1>1 DEF Sorting
<1>4. /\ deps \in [Names -> SUBSET Names] /\ listed \in SUBSET Names
      /\ order \in Seq(Names) /\ queue \in Seq(Names)
      /\ old \in [Names -> Nat]
  BY LocalFacts
<1>5. /\ n \in Names /\ Tail(queue) \in Seq(Names) /\ IsInjective(Tail(queue))
      /\ n \notin ToSet(Tail(queue)) /\ Q = ToSet(Tail(queue)) \cup {n}
  BY <1>1, <1>3, <1>4, TailWalk
<1>6. R = Freed(deps, O, n)
  BY <1>3 DEF Released, Freed
<1>7. /\ n \in Q /\ n \notin O /\ deps[n] \subseteq O
      /\ O \subseteq Names /\ Q \subseteq Names
      /\ \A m \in Names : m \notin listed => deps[m] = {}
  BY <1>1, <1>3, <1>4, <1>5 DEF KahnState
<1>. HIDE DEF O, Q, n, R, order, queue, deps, listed, old
<1>8. /\ R \cap (O \cup Q) = {} /\ R \subseteq listed
      /\ \A m \in Names : Cardinality(deps[m] \ (O \cup {n})) =
            IF n \in deps[m] THEN Cardinality(deps[m] \ O) - 1
                            ELSE Cardinality(deps[m] \ O)
      /\ KahnState(deps, listed, O \cup {n}, (Q \ {n}) \cup R)
  <2>1. n \in Q /\ deps \in [Names -> SUBSET Names] /\ listed \in SUBSET Names
    BY <1>4, <1>7
  <2>2. \A m \in Names : m \notin listed => deps[m] = {}
    BY <1>7
  <2>3. KahnState(deps, listed, O, Q)
    BY <1>3
  <2>4. KahnStep(deps, listed, O, Q, n)
    BY <2>1, <2>2, <2>3, KahnRound
  <2>. QED BY <1>6, <2>4 DEF KahnStep
<1>9. R \in SUBSET Names
  BY <1>4, <1>8
<1>10. next \in Seq(R) /\ IsInjective(next) /\ ToSet(next) = R
  BY <1>9, ListedFinite, WalkProperties
<1>11. next \in Seq(Names)
  BY <1>9, <1>10, SeqMonotonic
<1>12. /\ Tail(queue) \o next \in Seq(Names)
       /\ IsInjective(Tail(queue) \o next)
       /\ ToSet(Tail(queue) \o next) = (Q \ {n}) \cup R
  <2>1. ToSet(Tail(queue)) = Q \ {n}
    BY <1>5
  <2>2. ToSet(Tail(queue)) \cap ToSet(next) = {}
    BY <1>8, <1>10, <2>1
  <2>3. Tail(queue) \in Seq(Names) /\ IsInjective(Tail(queue)) /\ IsInjective(next)
    BY <1>5, <1>10
  <2>. DEFINE rest == Tail(queue)
  <2>4. rest \in Seq(Names) /\ IsInjective(rest) /\ ToSet(rest) \cap ToSet(next) = {}
    BY <2>2, <2>3
  <2>. HIDE DEF rest
  <2>5. /\ rest \o next \in Seq(Names)
        /\ IsInjective(rest \o next)
        /\ ToSet(rest \o next) = ToSet(rest) \cup ToSet(next)
    BY <1>11, <2>3, <2>4, ConcatWalks
  <2>. QED BY <1>10, <2>1, <2>5 DEF rest
<1>13. /\ Append(order, n) \in Seq(Names)
       /\ IsInjective(Append(order, n))
       /\ ToSet(Append(order, n)) = O \cup {n}
  BY <1>3, <1>4, <1>7, AppendWalk DEF O
<1>14. Ordered(Append(order, n), {}, deps)
  BY <1>3, <1>4, <1>7, OrderedAppend DEF O
<1>15. \A m \in Names : count[m] = Cardinality(deps[m] \ (O \cup {n}))
  BY <1>3, <1>8
<1>16. count \in [Names -> Nat]
  <2>1. \A m \in Names : Cardinality(deps[m] \ (O \cup {n})) \in Nat
    BY <1>4, ListedFinite
  <2>. QED BY <1>15, <2>1
<1>. DEFINE r == [proc[p] EXCEPT !.queue = Tail(queue) \o next,
                                 !.resetOrder = Append(order, n),
                                 !.outgoingCount = count]
<1>17. proc' = [proc EXCEPT ![p] = r]
  BY <1>2 DEF queue, order, old
<1>18. r \in Locals
  <2>1. /\ proc[p] \in Locals
        /\ Tail(queue) \o next \in Seq(Names)
        /\ Append(order, n) \in Seq(Names)
        /\ count \in [Names -> Nat]
    BY <1>12, <1>13, <1>16, LocalFacts
  <2>. DEFINE q == Tail(queue) \o next
              o == Append(order, n)
  <2>2. q \in Seq(Names) /\ o \in Seq(Names)
    BY <2>1
  <2>. HIDE DEF count, q, o
  <2>3. [proc[p] EXCEPT !.queue = q, !.resetOrder = o, !.outgoingCount = count]
          \in Locals
    BY <2>1, <2>2 DEF Locals
  <2>. QED BY <2>3 DEF q, o
<1>19. /\ r.at = "sort" /\ r.listed = listed /\ r.dependencies = deps
       /\ r.outgoingCount = count /\ r.queue = Tail(queue) \o next
       /\ r.resetOrder = Append(order, n)
  BY <1>1, LocalFacts DEF Locals, listed, deps
<1>. HIDE DEF r, count
<1>21. Sorting(r)
  BY <1>8, <1>12, <1>13, <1>14, <1>15, <1>19 DEF Sorting
<1>22. Steady(r, {})
  BY <1>1, <1>19, <1>21 DEF Steady, deps, listed
<1>23. patched' = [patched EXCEPT ![p] = {}]
  BY <1>1, LocalFacts
<1>. QED BY <1>1, <1>17, <1>18, <1>22, <1>23, LocalFacts, ProcessStep

(* The sort is over: if some summary is not in the order there is a circle *)
(* among those that are not, and if all are there is none.                 *)
LEMMA checkCycleInv ==
    ASSUME IInv, NEW p \in Procs, checkCycle(p)
    PROVE  IInv'
<1>. DEFINE deps == proc[p].dependencies
            listed == proc[p].listed
            order == proc[p].resetOrder
            O == ToSet(order)
<1>1. /\ proc[p].at = "sort" /\ proc[p].queue = <<>> /\ Sorting(proc[p])
      /\ patched' = patched /\ status' = status /\ dependsOn' = dependsOn
      /\ patched[p] = {}
      /\ \A m \in Names : deps[m] \subseteq listed
  BY LocalFacts DEF checkCycle, Steady
<1>2. ToSet(<<>>) = {}
  BY DEF ToSet
<1>3. /\ IsInjective(order) /\ Ordered(order, {}, deps)
      /\ KahnState(deps, listed, O, {})
  BY <1>1, <1>2 DEF Sorting
<1>4. /\ listed \in SUBSET Names /\ order \in Seq(Names)
      /\ deps \in [Names -> SUBSET Names]
  BY LocalFacts
<1>5. O \subseteq listed
  BY <1>3 DEF KahnState
<1>6. order \in Seq(listed)
  <2>1. Len(order) \in Nat /\ DOMAIN order = 1 .. Len(order)
    BY <1>4, LenProperties
  <2>2. \A i \in 1 .. Len(order) : order[i] \in listed
    BY <1>5, <2>1 DEF ToSet
  <2>3. order \in [1 .. Len(order) -> listed]
    BY <1>4, <2>1, <2>2, LenProperties
  <2>. QED BY <2>1, <2>3, SeqDef
<1>7. Len(order) = Cardinality(listed) <=> O = listed
  BY <1>3, <1>4, <1>6, ListedFinite, ElementsCounted
<1>8. CASE O = listed
  <2>1. Goes(p, "reset")
    BY <1>7, <1>8 DEF checkCycle
  <2>. DEFINE r == [proc[p] EXCEPT !.at = "reset"]
  <2>2. r \in Locals /\ proc' = [proc EXCEPT ![p] = r]
    BY <2>1, LocalFacts, GoesType DEF Goes
  <2>3. /\ r.at = "reset" /\ r.listed = listed /\ r.dependencies = deps
        /\ r.resetOrder = order
    BY LocalFacts DEF Locals
  <2>. HIDE DEF r
  <2>4. NoCircle(deps, listed)
    BY <1>3, <1>8 DEF KahnState
  <2>5. Resetting(r, {})
    BY <1>3, <1>8, <2>3 DEF Resetting
  <2>6. Steady(r, {})
    BY <1>1, <2>3, <2>4, <2>5, LocalFacts DEF Steady
  <2>7. patched' = [patched EXCEPT ![p] = {}]
    BY <1>1, LocalFacts
  <2>. QED BY <1>1, <2>2, <2>6, <2>7, LocalFacts, ProcessStep
<1>9. CASE O # listed
  <2>1. Ends(p, "cycle")
    BY <1>7, <1>9 DEF checkCycle
  <2>2. ~NoCircle(deps, listed)
    <3>. DEFINE S == listed \ O
    <3>1. S \in SUBSET listed /\ S # {}
      BY <1>5, <1>9
    <3>2. ASSUME NEW m \in S
          PROVE  deps[m] \cap S # {}
      <4>1. ~(deps[m] \subseteq O)
        BY <1>3 DEF KahnState
      <4>. QED BY <4>1, <1>1, <1>4
    <3>. QED BY <3>1, <3>2 DEF NoCircle
  <2>. QED BY <1>1, <2>1, <2>2, CycleInv
<1>. QED BY <1>8, <1>9

LEMMA patchStatusInv ==
    ASSUME IInv, NEW p \in Procs, patchStatus(p)
    PROVE  IInv'
<1>. DEFINE deps == proc[p].dependencies
            listed == proc[p].listed
            todo == proc[p].resetOrder
            D == patched[p]
            n == Head(todo)
<1>1. /\ proc[p].at = "reset" /\ todo # <<>> /\ Resetting(proc[p], D)
      /\ dependsOn' = dependsOn
      /\ NoCircle(deps, listed)
  BY LocalFacts DEF patchStatus, Steady
<1>2. /\ IsInjective(todo) /\ D \cap ToSet(todo) = {}
      /\ D \cup ToSet(todo) = listed /\ Ordered(todo, D, deps)
  BY <1>1 DEF Resetting
<1>3. todo \in Seq(Names) /\ D \in SUBSET Names
  BY LocalFacts
<1>4. /\ n \in Names /\ Tail(todo) \in Seq(Names) /\ IsInjective(Tail(todo))
      /\ n \notin ToSet(Tail(todo)) /\ ToSet(todo) = ToSet(Tail(todo)) \cup {n}
  BY <1>1, <1>2, <1>3, TailWalk
<1>5. Ordered(Tail(todo), D \cup {n}, deps)
  BY <1>1, <1>2, <1>3, OrderedTail
<1>6. status' \in [Names -> {Absent} \cup SUBSET Fields]
  <2>1. \A x \in Names : status[x] # Absent => Cleared(p, x) \in SUBSET Fields
    BY LocalFacts DEF Cleared
  <2>2. status' = status \/ (/\ status[n] # Absent
                             /\ status' = [status EXCEPT ![n] = Cleared(p, n)])
    BY DEF patchStatus
  <2>. QED BY <1>4, <2>1, <2>2, LocalFacts
<1>7. PICK E \in {D, D \cup {n}} : patched' = [patched EXCEPT ![p] = E]
  BY LocalFacts DEF patchStatus
<1>8. CASE Ends(p, "failed")
  <2>1. E \in SUBSET Names /\ dependsOn' = dependsOn
    BY <1>1, <1>3, <1>4
  <2>. HIDE DEF D, n
  <2>. QED BY <1>6, <1>7, <1>8, <2>1, FailedInv
<1>9. CASE /\ proc' = [proc EXCEPT ![p].resetOrder = Tail(@)]
           /\ patched' = [patched EXCEPT ![p] = D \cup {n}]
  <2>. DEFINE r == [proc[p] EXCEPT !.resetOrder = Tail(todo)]
  <2>1. proc' = [proc EXCEPT ![p] = r]
    BY <1>9
  <2>2. r \in Locals
    BY <1>4, LocalFacts DEF Locals
  <2>3. /\ r.at = "reset" /\ r.listed = listed /\ r.dependencies = deps
        /\ r.resetOrder = Tail(todo)
    BY <1>1, LocalFacts DEF Locals
  <2>. HIDE DEF r
  <2>4. /\ (D \cup {n}) \cap ToSet(Tail(todo)) = {}
        /\ (D \cup {n}) \cup ToSet(Tail(todo)) = listed
    BY <1>2, <1>4
  <2>5. Resetting(r, D \cup {n})
    BY <1>4, <1>5, <2>3, <2>4 DEF Resetting
  <2>6. Steady(r, D \cup {n})
    BY <1>1, <2>3, <2>5, LocalFacts DEF Steady
  <2>7. dependsOn' = dependsOn /\ D \cup {n} \in SUBSET Names
    BY <1>1, <1>3, <1>4
  <2>8. patched' = [patched EXCEPT ![p] = D \cup {n}]
    BY <1>9
  <2>. HIDE DEF D, n
  <2>. QED BY <1>6, <2>1, <2>2, <2>6, <2>7, <2>8, ProcessStep
<1>. QED BY <1>8, <1>9 DEF patchStatus

LEMMA EndingInv ==
    ASSUME IInv, NEW p \in Procs, allReset(p) \/ Crash(p)
    PROVE  IInv'
<1>1. patched' = patched /\ status' = status /\ dependsOn' = dependsOn
  BY DEF allReset, Crash
<1>2. CASE allReset(p)
  <2>1. NoCircle(proc[p].dependencies, proc[p].listed)
    BY <1>2, LocalFacts DEF allReset, Steady
  <2>. QED BY <1>1, <1>2, <2>1, OkInv DEF allReset
<1>3. CASE Crash(p)
  <2>1. /\ status' \in [Names -> {Absent} \cup SUBSET Fields]
        /\ patched[p] \in SUBSET Names
        /\ patched' = [patched EXCEPT ![p] = patched[p]]
    BY <1>1, LocalFacts
  <2>2. Ends(p, "failed")
    BY <1>3 DEF Crash
  <2>. QED BY <1>1, <2>1, <2>2, FailedInv
<1>. QED BY <1>2, <1>3

(* What the controller writes is noted, and changes nothing else of an     *)
(* invocation.                                                             *)
LEMMA ReconcileNoted ==
    ASSUME IInv, NEW n \in Names, Reconcile(n), NEW p \in Procs
    PROVE  /\ proc' \in [Procs -> Locals] /\ patched' = patched
           /\ \E W \in SUBSET Names : proc'[p] = [proc[p] EXCEPT !.written = W]
           /\ proc[p].written \subseteq proc'[p].written
           /\ proc[p].at \in {"sort", "reset"} => n \in proc'[p].written
           /\ proc'[p].at = proc[p].at /\ proc'[p].cluster = proc[p].cluster
           /\ proc'[p].listed = proc[p].listed
           /\ proc'[p].csMap = proc[p].csMap
           /\ proc'[p].dependencies = proc[p].dependencies
           /\ proc'[p].outgoingCount = proc[p].outgoingCount
           /\ proc'[p].queue = proc[p].queue
           /\ proc'[p].resetOrder = proc[p].resetOrder
<1>. DEFINE Noted(r) == IF r.at \in {"sort", "reset"}
                        THEN [r EXCEPT !.written = r.written \cup {n}] ELSE r
<1>1. proc' = [q \in Procs |-> Noted(proc[q])] /\ patched' = patched
  BY DEF Reconcile
<1>2. ASSUME NEW r \in Locals
      PROVE  /\ Noted(r) \in Locals
             /\ \E W \in SUBSET Names : Noted(r) = [r EXCEPT !.written = W]
             /\ r.written \subseteq Noted(r).written
             /\ r.at \in {"sort", "reset"} => n \in Noted(r).written
             /\ Noted(r).at = r.at /\ Noted(r).cluster = r.cluster
             /\ Noted(r).listed = r.listed /\ Noted(r).csMap = r.csMap
             /\ Noted(r).dependencies = r.dependencies
             /\ Noted(r).outgoingCount = r.outgoingCount
             /\ Noted(r).queue = r.queue /\ Noted(r).resetOrder = r.resetOrder
  <2>. DEFINE W == r.written \cup {n}
  <2>1. W \in SUBSET Names /\ r.written \in SUBSET Names
    BY DEF Locals
  <2>. HIDE DEF W
  <2>2. [r EXCEPT !.written = W] \in Locals /\ r = [r EXCEPT !.written = r.written]
    BY <2>1 DEF Locals
  <2>3. CASE r.at \in {"sort", "reset"}
    <3>1. Noted(r) = [r EXCEPT !.written = W]
      BY <2>3 DEF W
    <3>. QED BY <2>1, <2>2, <3>1 DEF Locals, W
  <2>4. CASE r.at \notin {"sort", "reset"}
    <3>1. Noted(r) = r
      BY <2>4
    <3>. QED BY <2>1, <2>2, <2>4, <3>1
  <2>. QED BY <2>3, <2>4
<1>3. \A q \in Procs : proc[q] \in Locals
  BY DEF IInv, TypeOK
<1>. HIDE DEF Noted
<1>. QED BY <1>1, <1>2, <1>3

LEMMA ReconcileInv ==
    ASSUME IInv, NEW n \in Names, Reconcile(n)
    PROVE  IInv'
<1>1. /\ status' \in [Names -> {Absent} \cup SUBSET Fields]
      /\ dependsOn' = dependsOn
  BY DEF IInv, TypeOK, Reconcile
<1>2. ASSUME NEW p \in Procs
      PROVE  Steady(proc'[p], patched'[p]) /\ proc' \in [Procs -> Locals]
                                          /\ patched' = patched
  BY ReconcileNoted DEF IInv, Steady, Sorting, Resetting
<1>3. CASE Procs = {}
  BY <1>1, <1>3 DEF IInv, TypeOK, Reconcile
<1>. QED BY <1>1, <1>2, <1>3 DEF IInv, TypeOK

(* What users do, and the controller but for what it writes, no invocation *)
(* notices.                                                                *)
LEMMA OutsideInv ==
    ASSUME IInv, (\E n \in Names : Delete(n) \/ CreateSummary(n)) \/ Edit
    PROVE  IInv'
<1>1. proc' = proc /\ patched' = patched
  BY DEF Delete, CreateSummary, Edit
<1>2. status' \in [Names -> {Absent} \cup SUBSET Fields]
  BY DEF IInv, TypeOK, Delete, CreateSummary, Edit
<1>3. dependsOn' \in [Names -> SUBSET Names]
  BY SummariesAssumption DEF IInv, TypeOK, Delete, CreateSummary, Edit
<1>. QED BY <1>1, <1>2, <1>3 DEF IInv, TypeOK

LEMMA NextInv == ASSUME IInv, [Next]_vars PROVE IInv'
<1>1. ASSUME NEW p \in Procs, ForceDeployment(p) \/ Step(p) \/ Crash(p)
      PROVE  IInv'
  BY <1>1, ForceDeploymentInv, listSummariesInv, popQueueInv, checkCycleInv,
     patchStatusInv, EndingInv DEF Step
<1>2. CASE UNCHANGED vars
  BY <1>2 DEF IInv, TypeOK, vars
<1>. QED BY <1>1, <1>2, ReconcileInv, OutsideInv DEF Next

(* No number of invocations, faults and changes to the summaries makes an  *)
(* invocation hold anything but what its type allows: in particular the    *)
(* counts of dependencies never fall below zero.                           *)
THEOREM TypeCorrect == Spec => []TypeOK
<1>1. Init => IInv
  BY InitInv
<1>2. IInv /\ [Next]_vars => IInv'
  BY NextInv
<1>3. IInv => TypeOK
  BY DEF IInv
<1>. QED BY <1>1, <1>2, <1>3, PTL DEF Spec

(* The sort refuses the dependencies of a cluster exactly when they are    *)
(* circular, for any dependencies, and before anything is patched.         *)
THEOREM CyclesAreRefused == Spec => []CyclesRefused
<1>1. Init => IInv
  BY InitInv
<1>2. IInv /\ [Next]_vars => IInv'
  BY NextInv
<1>3. IInv => CyclesRefused
  <2>. SUFFICES ASSUME IInv, NEW p \in Procs
                PROVE  /\ proc[p].at \in {"reset", "ok"}
                              => ~Abstract!Circular(Plan(p))
                       /\ proc[p].at = "cycle" => /\ Abstract!Circular(Plan(p))
                                                  /\ patched[p] = {}
    BY DEF CyclesRefused
  <2>1. Steady(proc[p], patched[p]) /\ TypeOK
    BY DEF IInv
  <2>2. Abstract!Circular(Plan(p))
          <=> ~NoCircle(proc[p].dependencies, proc[p].listed)
    BY <2>1, PlanCircle
  <2>. QED BY <2>1, <2>2 DEF Steady
<1>. QED BY <1>1, <1>2, <1>3, PTL DEF Spec
-----------------------------------------------------------------------------
(* The refinement of ResetOrder                                            *)

PlanOf(r) == [n \in r.listed |-> r.dependencies[n]]
OutcomeOf(r) == CASE r.at = "ready"               -> "idle"
                  [] r.at = "ok"                  -> "ok"
                  [] r.at \in {"failed", "cycle"} -> "failed"
                  [] OTHER                        -> "running"

plans == [p \in Procs |-> Plan(p)]
outcomes == [p \in Procs |-> Outcome(p)]

(* What a step of p does to the abstract state. *)
LEMMA MappedStep ==
    ASSUME IInv, NEW p \in Procs, NEW r, proc' = [proc EXCEPT ![p] = r]
    PROVE  /\ plans' = [plans EXCEPT ![p] = PlanOf(r)]
           /\ outcomes' = [outcomes EXCEPT ![p] = OutcomeOf(r)]
           /\ plans[p] = PlanOf(proc[p]) /\ outcomes[p] = OutcomeOf(proc[p])
<1>1. /\ \A q \in Procs : plans[q] = PlanOf(proc[q])
      /\ \A q \in Procs : outcomes[q] = OutcomeOf(proc[q])
  BY DEF plans, outcomes, Plan, Outcome, PlanOf, OutcomeOf
<1>2. /\ \A q \in Procs : plans'[q] = PlanOf(proc'[q])
      /\ \A q \in Procs : outcomes'[q] = OutcomeOf(proc'[q])
  BY DEF plans, outcomes, Plan, Outcome, PlanOf, OutcomeOf
<1>3. \A q \in Procs : proc'[q] = IF q = p THEN r ELSE proc[q]
  BY DEF IInv, TypeOK
<1>4. /\ plans' = [q \in Procs |-> plans'[q]]
      /\ plans = [q \in Procs |-> plans[q]]
      /\ outcomes' = [q \in Procs |-> outcomes'[q]]
      /\ outcomes = [q \in Procs |-> outcomes[q]]
  BY DEF plans, outcomes
<1>5. \A q \in Procs : plans'[q] = IF q = p THEN PlanOf(r) ELSE plans[q]
  BY <1>1, <1>2, <1>3
<1>6. \A q \in Procs :
         outcomes'[q] = IF q = p THEN OutcomeOf(r) ELSE outcomes[q]
  BY <1>1, <1>2, <1>3
<1>. HIDE DEF plans, outcomes
<1>7. plans' = [plans EXCEPT ![p] = PlanOf(r)]
  BY <1>4, <1>5
<1>8. outcomes' = [outcomes EXCEPT ![p] = OutcomeOf(r)]
  BY <1>4, <1>6
<1>. QED BY <1>1, <1>7, <1>8

LEMMA MappedEnd ==
    ASSUME IInv, NEW p \in Procs, proc[p].at \in {"list", "sort", "reset"},
           NEW f \in {"ok", "failed", "cycle"}, Ends(p, f)
    PROVE  /\ plans' = plans
           /\ outcomes[p] = "running"
           /\ outcomes' = [outcomes EXCEPT ![p] = IF f = "ok" THEN "ok"
                                                  ELSE "failed"]
<1>. DEFINE r == Invocation(f, proc[p].cluster, proc[p].listed,
                            proc[p].dependencies)
<1>1. proc' = [proc EXCEPT ![p] = r]
  BY DEF Ends
<1>2. /\ r.at = f /\ r.listed = proc[p].listed
      /\ r.dependencies = proc[p].dependencies
  BY DEF Invocation
<1>. HIDE DEF r
<1>3. PlanOf(r) = PlanOf(proc[p])
  BY <1>2 DEF PlanOf
<1>4. OutcomeOf(r) = (IF f = "ok" THEN "ok" ELSE "failed")
  BY <1>2 DEF OutcomeOf
<1>5. OutcomeOf(proc[p]) = "running"
  BY DEF OutcomeOf
<1>6. plans = [plans EXCEPT ![p] = plans[p]]
  BY DEF plans
<1>7. /\ plans' = [plans EXCEPT ![p] = PlanOf(r)]
      /\ outcomes' = [outcomes EXCEPT ![p] = OutcomeOf(r)]
      /\ plans[p] = PlanOf(proc[p]) /\ outcomes[p] = OutcomeOf(proc[p])
  BY <1>1, MappedStep
<1>. QED BY <1>3, <1>4, <1>5, <1>6, <1>7

LEMMA FailMapped ==
    ASSUME IInv, NEW p \in Procs, proc[p].at \in {"list", "sort", "reset"},
           NEW f \in {"failed", "cycle"}, Ends(p, f), patched' = patched
    PROVE  Abstract!Fail(p)
BY MappedEnd DEF Abstract!Fail, plans, outcomes

LEMMA SucceedMapped ==
    ASSUME IInv, NEW p \in Procs, proc[p].at \in {"list", "sort", "reset"},
           Ends(p, "ok"), patched' = patched, patched[p] = proc[p].listed
    PROVE  Abstract!Succeed(p)
<1>1. DOMAIN plans[p] = proc[p].listed
  BY DEF plans, Plan
<1>. QED BY <1>1, MappedEnd DEF Abstract!Succeed, plans, outcomes

LEMMA BeginMapped ==
    ASSUME IInv, NEW p \in Procs, ForceDeployment(p)
    PROVE  Abstract!Begin(p)
<1>1. PICK c \in Clusters : proc' = [proc EXCEPT ![p] = Begun("list", c)]
  BY DEF ForceDeployment
<1>2. /\ plans' = [plans EXCEPT ![p] = PlanOf(Begun("list", c))]
      /\ outcomes' = [outcomes EXCEPT ![p] = OutcomeOf(Begun("list", c))]
      /\ outcomes[p] = OutcomeOf(proc[p])
  BY <1>1, MappedStep
<1>3. /\ PlanOf(Begun("list", c)) = Abstract!NoPlan
      /\ OutcomeOf(Begun("list", c)) = "running"
  BY DEF PlanOf, OutcomeOf, Begun, Invocation, Abstract!NoPlan
<1>4. OutcomeOf(proc[p]) # "running"
  BY DEF ForceDeployment, OutcomeOf, Ended
<1>. QED BY <1>2, <1>3, <1>4 DEF Abstract!Begin, ForceDeployment, plans, outcomes

(* A step that leaves plan and outcome of p alone. *)
LEMMA StutterMapped ==
    ASSUME IInv, NEW p \in Procs, NEW r, proc' = [proc EXCEPT ![p] = r],
           PlanOf(r) = PlanOf(proc[p]), OutcomeOf(r) = OutcomeOf(proc[p])
    PROVE  plans' = plans /\ outcomes' = outcomes
<1>1. /\ plans = [plans EXCEPT ![p] = plans[p]]
      /\ outcomes = [outcomes EXCEPT ![p] = outcomes[p]]
  BY DEF plans, outcomes
<1>2. /\ plans' = [plans EXCEPT ![p] = PlanOf(r)]
      /\ outcomes' = [outcomes EXCEPT ![p] = OutcomeOf(r)]
      /\ plans[p] = PlanOf(proc[p]) /\ outcomes[p] = OutcomeOf(proc[p])
  BY MappedStep
<1>. QED BY <1>1, <1>2

LEMMA listSummariesMapped ==
    ASSUME IInv, NEW p \in Procs, listSummaries(p)
    PROVE  Abstract!Choose(p) \/ Abstract!Fail(p) \/ Abstract!Succeed(p)
<1>. DEFINE listed == Listed(proc[p].cluster)
            deps == Within(listed)
            first == {n \in listed : deps[n] = {}}
            map == [n \in Names |-> IF n \in listed THEN status[n] ELSE {}]
            count == [n \in Names |-> Cardinality(deps[n])]
<1>1. /\ proc[p].at = "list" /\ patched' = patched
      /\ patched[p] = {} /\ proc[p].listed = {}
  BY LocalFacts DEF listSummaries, Steady
<1>2. CASE Ends(p, "failed")
  BY <1>1, <1>2, FailMapped
<1>3. CASE Ends(p, "ok")
  BY <1>1, <1>3, SucceedMapped
<1>4. ASSUME NEW queue,
             proc' = [proc EXCEPT ![p].at = "sort", ![p].listed = listed,
                                  ![p].csMap = map, ![p].dependencies = deps,
                                  ![p].outgoingCount = count,
                                  ![p].queue = queue]
      PROVE  Abstract!Choose(p)
  <2>. DEFINE r == [proc[p] EXCEPT !.at = "sort", !.listed = listed,
                                   !.csMap = map, !.dependencies = deps,
                                   !.outgoingCount = count, !.queue = queue]
  <2>1. proc' = [proc EXCEPT ![p] = r]
    BY <1>4
  <2>2. r.at = "sort" /\ r.listed = listed /\ r.dependencies = deps
    BY LocalFacts DEF Locals
  <2>3. /\ listed \in SUBSET Names
        /\ \A n \in listed : deps[n] \in SUBSET listed
    BY DEF Listed, Within
  <2>. HIDE DEF r, listed, deps
  <2>4. Abstract!IsPlan(PlanOf(r))
    <3>1. PlanOf(r) \in [listed -> SUBSET listed] /\ DOMAIN PlanOf(r) = listed
      BY <2>2, <2>3 DEF PlanOf
    <3>. QED BY <2>3, <3>1 DEF Abstract!IsPlan
  <2>5. OutcomeOf(r) = "running" /\ OutcomeOf(proc[p]) = "running"
    BY <1>1, <2>2 DEF OutcomeOf
  <2>6. PlanOf(proc[p]) = Abstract!NoPlan
    BY <1>1 DEF PlanOf, Abstract!NoPlan
  <2>7. outcomes = [outcomes EXCEPT ![p] = outcomes[p]]
    BY DEF outcomes
  <2>8. /\ plans' = [plans EXCEPT ![p] = PlanOf(r)]
        /\ outcomes' = [outcomes EXCEPT ![p] = OutcomeOf(r)]
        /\ plans[p] = PlanOf(proc[p]) /\ outcomes[p] = OutcomeOf(proc[p])
    BY <2>1, MappedStep
  <2>9. /\ plans[p] = Abstract!NoPlan /\ outcomes[p] = "running"
        /\ outcomes' = outcomes /\ plans'[p] = PlanOf(r)
    <3>1. p \in DOMAIN plans
      BY DEF plans
    <3>. QED BY <2>5, <2>6, <2>7, <2>8, <3>1
  <2>. QED BY <1>1, <2>4, <2>8, <2>9 DEF Abstract!Choose, plans, outcomes
<1>. QED BY <1>2, <1>3, <1>4 DEF listSummaries

LEMMA popQueueMapped ==
    ASSUME IInv, NEW p \in Procs, popQueue(p)
    PROVE  plans' = plans /\ outcomes' = outcomes /\ patched' = patched
<1>. DEFINE n == Head(proc[p].queue)
            order == Append(proc[p].resetOrder, n)
            count == [m \in Names |->
                        IF n \in proc[p].dependencies[m]
                        THEN proc[p].outgoingCount[m] - 1
                        ELSE proc[p].outgoingCount[m]]
<1>1. PICK next : proc' = [proc EXCEPT ![p].queue = Tail(@) \o next,
                                       ![p].resetOrder = Append(@, n),
                                       ![p].outgoingCount =
                                  [m \in Names |->
                                     IF n \in proc[p].dependencies[m]
                                     THEN @[m] - 1 ELSE @[m]]]
  BY DEF popQueue
<1>. DEFINE r == [proc[p] EXCEPT !.queue = Tail(proc[p].queue) \o next,
                                 !.resetOrder = order,
                                 !.outgoingCount = count]
<1>2. proc' = [proc EXCEPT ![p] = r]
  BY <1>1
<1>3. /\ r.at = proc[p].at /\ r.listed = proc[p].listed
      /\ r.dependencies = proc[p].dependencies
  BY LocalFacts DEF Locals
<1>. HIDE DEF r
<1>4. PlanOf(r) = PlanOf(proc[p]) /\ OutcomeOf(r) = OutcomeOf(proc[p])
  BY <1>3 DEF PlanOf, OutcomeOf
<1>. QED BY <1>2, <1>4, StutterMapped DEF popQueue

LEMMA checkCycleMapped ==
    ASSUME IInv, NEW p \in Procs, checkCycle(p)
    PROVE  \/ Abstract!Fail(p)
           \/ plans' = plans /\ outcomes' = outcomes /\ patched' = patched
<1>1. proc[p].at = "sort" /\ patched' = patched
  BY DEF checkCycle
<1>2. CASE Ends(p, "cycle")
  BY <1>1, <1>2, FailMapped
<1>3. CASE Goes(p, "reset")
  <2>. DEFINE r == [proc[p] EXCEPT !.at = "reset"]
  <2>1. proc' = [proc EXCEPT ![p] = r]
    BY <1>3 DEF Goes
  <2>2. /\ r.at = "reset" /\ r.listed = proc[p].listed
        /\ r.dependencies = proc[p].dependencies
    BY LocalFacts DEF Locals
  <2>. HIDE DEF r
  <2>3. PlanOf(r) = PlanOf(proc[p]) /\ OutcomeOf(r) = OutcomeOf(proc[p])
    BY <1>1, <2>2 DEF PlanOf, OutcomeOf
  <2>. QED BY <1>1, <2>1, <2>3, StutterMapped
<1>. QED BY <1>2, <1>3 DEF checkCycle

(* The summary patched next belongs to the plan, is not yet reset, and     *)
(* all it depends on is.                                                   *)
LEMMA NextInPlan ==
    ASSUME IInv, NEW p \in Procs, proc[p].at = "reset",
           proc[p].resetOrder # <<>>
    PROVE  LET n == Head(proc[p].resetOrder)
           IN /\ ~Abstract!Circular(Plan(p))
              /\ n \in Names /\ n \in DOMAIN Plan(p) \ patched[p]
              /\ Plan(p)[n] \subseteq patched[p]
<1>. DEFINE todo == proc[p].resetOrder
            D == patched[p]
            n == Head(todo)
            deps == proc[p].dependencies
<1>1. /\ todo \in Seq(Names) /\ D \in SUBSET Names
      /\ Resetting(proc[p], D) /\ NoCircle(deps, proc[p].listed)
  BY LocalFacts DEF Steady
<1>2. /\ IsInjective(todo) /\ D \cap ToSet(todo) = {}
      /\ D \cup ToSet(todo) = proc[p].listed /\ Ordered(todo, D, deps)
  BY <1>1 DEF Resetting
<1>3. n \in Names /\ ToSet(todo) = ToSet(Tail(todo)) \cup {n}
  BY <1>1, <1>2, TailWalk
<1>4. deps[n] \subseteq D
  BY <1>1, <1>2, OrderedTail
<1>5. ~Abstract!Circular(Plan(p))
  BY <1>1, LocalFacts, PlanCircle DEF IInv, Steady
<1>. QED BY <1>2, <1>3, <1>4, <1>5 DEF Plan

LEMMA patchStatusMapped ==
    ASSUME IInv, NEW p \in Procs, patchStatus(p)
    PROVE  Abstract!Fail(p) \/ \E n \in Names : Abstract!Reset(p, n)
<1>. DEFINE n == Head(proc[p].resetOrder)
            D == patched[p]
<1>1. proc[p].at = "reset" /\ proc[p].resetOrder # <<>>
  BY DEF patchStatus
<1>2. CASE Ends(p, "failed") /\ patched' = patched
  BY <1>1, <1>2, FailMapped
<1>3. ASSUME patched' = [patched EXCEPT ![p] = @ \cup {n}],
             \/ Ends(p, "failed")
             \/ proc' = [proc EXCEPT ![p].resetOrder = Tail(@)]
      PROVE  \E x \in Names : Abstract!Reset(p, x)
  <2>1. /\ ~Abstract!Circular(plans[p])
        /\ n \in Names /\ n \in DOMAIN plans[p] \ D
        /\ plans[p][n] \subseteq D
    BY <1>1, NextInPlan DEF plans
  <2>2. CASE Ends(p, "failed")
    <3>1. /\ plans' = plans /\ outcomes[p] = "running"
          /\ outcomes' = [outcomes EXCEPT ![p] = "failed"]
      BY <1>1, <2>2, MappedEnd
    <3>. QED BY <1>3, <2>1, <3>1 DEF Abstract!Reset, plans, outcomes
  <2>3. CASE proc' = [proc EXCEPT ![p].resetOrder = Tail(@)]
    <3>. DEFINE r == [proc[p] EXCEPT !.resetOrder = Tail(@)]
    <3>1. proc' = [proc EXCEPT ![p] = r]
      BY <2>3
    <3>2. /\ r.at = "reset" /\ r.listed = proc[p].listed
          /\ r.dependencies = proc[p].dependencies
      BY <1>1, LocalFacts DEF Locals
    <3>. HIDE DEF r
    <3>3. /\ PlanOf(r) = PlanOf(proc[p])
          /\ OutcomeOf(r) = "running" /\ OutcomeOf(proc[p]) = "running"
      BY <1>1, <3>2 DEF PlanOf, OutcomeOf
    <3>4. plans' = plans /\ outcomes' = outcomes
      BY <3>1, <3>3, StutterMapped
    <3>5. outcomes[p] = "running"
      BY <3>1, <3>3, MappedStep
    <3>6. outcomes' = [outcomes EXCEPT ![p] = "running"]
      BY <3>4, <3>5 DEF outcomes
    <3>. QED BY <1>3, <2>1, <3>4, <3>5, <3>6 DEF Abstract!Reset, plans, outcomes
  <2>. QED BY <1>3, <2>2, <2>3
<1>. QED BY <1>2, <1>3 DEF patchStatus

LEMMA EndingMapped ==
    ASSUME IInv, NEW p \in Procs, allReset(p) \/ Crash(p)
    PROVE  Abstract!Succeed(p) \/ Abstract!Fail(p)
<1>1. CASE allReset(p)
  <2>1. /\ proc[p].at = "reset" /\ proc[p].resetOrder = <<>>
        /\ Ends(p, "ok") /\ patched' = patched
    BY <1>1 DEF allReset
  <2>2. Resetting(proc[p], patched[p])
    BY <2>1, LocalFacts DEF Steady
  <2>3. ToSet(<<>>) = {}
    BY DEF ToSet
  <2>4. patched[p] = proc[p].listed
    BY <2>1, <2>2, <2>3 DEF Resetting
  <2>. QED BY <2>1, <2>4, SucceedMapped
<1>2. CASE Crash(p)
  <2>1. Ends(p, "failed") /\ patched' = patched
    BY <1>2 DEF Crash
  <2>2. proc[p].at \in {"list", "sort", "reset"}
    BY <1>2, LocalFacts DEF Crash, Locals
  <2>. QED BY <2>1, <2>2, FailMapped
<1>. QED BY <1>1, <1>2

LEMMA InitMapped == ASSUME Init PROVE Abstract!Init
<1>1. PICK c \in Clusters : proc = [p \in Procs |-> Begun("ready", c)]
  BY DEF Init
<1>2. Begun("ready", c).listed = {} /\ Begun("ready", c).at = "ready"
  BY DEF Begun, Invocation
<1>3. \A p \in Procs : /\ Plan(p) = Abstract!NoPlan
                       /\ Outcome(p) = "idle"
  BY <1>1, <1>2 DEF Plan, Outcome, Abstract!NoPlan
<1>. QED BY <1>3 DEF Init, Abstract!Init

LEMMA NextMapped ==
    ASSUME IInv, [Next]_vars
    PROVE  [Abstract!Next]_(Abstract!vars)
<1>. DEFINE Same == plans' = plans /\ outcomes' = outcomes /\ patched' = patched
<1>1. Same => UNCHANGED Abstract!vars
  BY DEF Abstract!vars, plans, outcomes
<1>2. ASSUME NEW p \in Procs, ForceDeployment(p) \/ Step(p) \/ Crash(p)
      PROVE  Abstract!Next \/ Same
  BY <1>2, BeginMapped, listSummariesMapped, popQueueMapped, checkCycleMapped,
     patchStatusMapped, EndingMapped DEF Step, Abstract!Next
<1>3. CASE UNCHANGED <<proc, patched>>
  <2>1. /\ \A p \in Procs : Plan(p)' = Plan(p)
        /\ \A p \in Procs : Outcome(p)' = Outcome(p)
    BY <1>3 DEF Plan, Outcome
  <2>. QED BY <1>1, <1>3, <2>1 DEF plans, outcomes
<1>4. CASE UNCHANGED vars \/ Edit \/ \E n \in Names : Delete(n) \/ CreateSummary(n)
  BY <1>3, <1>4 DEF vars, Edit, Delete, CreateSummary
<1>5. ASSUME NEW n \in Names, Reconcile(n) PROVE Same
  <2>1. /\ \A p \in Procs : Plan(p)' = Plan(p)
        /\ \A p \in Procs : Outcome(p)' = Outcome(p)
    BY <1>5, ReconcileNoted DEF Plan, Outcome
  <2>2. patched' = patched
    BY <1>5 DEF Reconcile
  <2>. QED BY <2>1, <2>2 DEF plans, outcomes
<1>. QED BY <1>1, <1>2, <1>4, <1>5 DEF Next

(* An invocation resets the summaries it listed after those they depend    *)
(* on, each at most once, and only reports success when all are reset:     *)
(* Redeploy implements ResetOrder, whatever happens to the summaries.      *)
THEOREM OrderIsKept == Spec => KeepsOrder
<1>1. Init => IInv
  BY InitInv
<1>2. IInv /\ [Next]_vars => IInv'
  BY NextInv
<1>3. Init => Abstract!Init
  BY InitMapped
<1>4. IInv /\ [Next]_vars => [Abstract!Next]_(Abstract!vars)
  BY NextMapped
<1>. QED BY <1>1, <1>2, <1>3, <1>4, PTL DEF Spec, KeepsOrder, Abstract!Spec

-----------------------------------------------------------------------------
(* Nothing comes back that has been cleared                                *)

(* A summary with nothing in its status, or none. *)
Bare(n) == status[n] \in {{}, Absent}

(* What an invocation still has to clear of its cluster it listed, with    *)
(* all that the status holds now, or the controller has written it since;  *)
(* it listed nothing else.                                                 *)
Remembers(p) ==
    proc[p].at \in {"sort", "reset"} =>
      /\ \A n \in proc[p].listed : ClusterOf[n] = proc[p].cluster
      /\ \A n \in Names : ClusterOf[n] = proc[p].cluster =>
           \/ Bare(n) \/ n \in proc[p].written
           \/ /\ n \in proc[p].listed \ patched[p]
              /\ status[n] \subseteq proc[p].csMap[n]

Remembered == \A p \in Procs : Remembers(p)

LEMMA InitRemembered == Init => Remembered
BY DEF Init, Begun, Invocation, Remembered, Remembers

(* Unless the controller works on them, statuses only lose fields. *)
LEMMA StatusShrinks ==
    ASSUME IInv, [Next]_vars, NEW n \in Names
    PROVE  \/ Bare(n)' \/ Reconcile(n)
           \/ status'[n] = status[n]
           \/ status[n] # Absent /\ status'[n] \subseteq status[n]
<1>1. status \in [Names -> {Absent} \cup SUBSET Fields]
  BY DEF IInv, TypeOK
<1>2. ASSUME NEW p \in Procs, patchStatus(p)
      PROVE  \/ status' = status
             \/ \E m \in Names : /\ status[m] # Absent
                                 /\ status' = [status EXCEPT ![m] = Cleared(p, m)]
  <2>1. Head(proc[p].resetOrder) \in Names
    BY <1>2, LocalFacts, TailWalk DEF patchStatus, Steady, Resetting
  <2>. QED BY <1>2, <2>1 DEF patchStatus
<1>3. ASSUME NEW p \in Procs, patchStatus(p)
      PROVE  status'[n] = status[n] \/ (status[n] # Absent /\ status'[n] \subseteq status[n])
  BY <1>1, <1>2, <1>3 DEF Cleared
<1>4. ASSUME NEW p \in Procs, \/ ForceDeployment(p) \/ listSummaries(p) \/ popQueue(p)
                              \/ checkCycle(p) \/ allReset(p) \/ Crash(p)
      PROVE  status' = status
  BY <1>4 DEF ForceDeployment, listSummaries, popQueue, checkCycle, allReset, Crash
<1>5. ASSUME NEW m \in Names, Delete(m) \/ CreateSummary(m)
      PROVE  status'[n] = status[n] \/ Bare(n)'
  BY <1>1, <1>5 DEF Delete, CreateSummary, Bare
<1>6. ASSUME NEW m \in Names, Reconcile(m), m # n PROVE status'[n] = status[n]
  BY <1>1, <1>6 DEF Reconcile
<1>7. CASE Edit \/ UNCHANGED vars
  BY <1>7 DEF Edit, vars
<1>. QED BY <1>3, <1>4, <1>5, <1>6, <1>7 DEF Next, Step

(* An invocation that is not touched goes on remembering. *)
LEMMA StillRemembers ==
    ASSUME IInv, [Next]_vars, NEW p \in Procs, Remembers(p),
           proc[p].at \in {"sort", "reset"}, proc'[p].cluster = proc[p].cluster,
           proc'[p].listed = proc[p].listed, proc'[p].csMap = proc[p].csMap,
           proc[p].written \subseteq proc'[p].written,
           \A n \in Names : n \in patched'[p] \ patched[p] =>
                               Bare(n)' \/ n \in proc'[p].written
    PROVE  Remembers(p)'
<1>. SUFFICES ASSUME NEW n \in Names, ClusterOf[n] = proc[p].cluster, ~Bare(n)',
                     n \notin proc'[p].written
              PROVE  /\ n \in proc[p].listed \ patched'[p]
                     /\ status'[n] \subseteq proc[p].csMap[n]
  BY DEF Remembers
<1>1. \/ status'[n] = status[n]
      \/ status[n] # Absent /\ status'[n] \subseteq status[n]
  <2>1. ASSUME Reconcile(n) PROVE FALSE
    BY <2>1, ReconcileNoted
  <2>. QED BY <2>1, StatusShrinks
<1>2. ~Bare(n)
  BY <1>1 DEF Bare
<1>3. n \in proc[p].listed \ patched[p] /\ status[n] \subseteq proc[p].csMap[n]
  BY <1>2 DEF Remembers
<1>. QED BY <1>1, <1>3

(* Only a step of its own changes an invocation. *)
LEMMA OthersKeep ==
    ASSUME IInv, NEW q \in Procs, ForceDeployment(q) \/ Step(q) \/ Crash(q),
           NEW p \in Procs, p # q
    PROVE  proc'[p] = proc[p] /\ patched'[p] = patched[p]
BY DEF IInv, TypeOK, ForceDeployment, Step, listSummaries, popQueue, checkCycle,
       patchStatus, allReset, Crash, Ends, Goes

(* What an invocation lists, and what a round of the sort leaves alone. *)
LEMMA ListingLeads ==
    ASSUME IInv, NEW p \in Procs, listSummaries(p)
    PROVE  \/ Ends(p, "failed")
           \/ Ends(p, "ok") /\ Listed(proc[p].cluster) = {}
           \/ /\ proc'[p].at = "sort" /\ proc'[p].cluster = proc[p].cluster
              /\ proc'[p].listed = Listed(proc[p].cluster)
              /\ proc'[p].csMap = [n \in Names |->
                    IF n \in Listed(proc[p].cluster) THEN status[n] ELSE {}]
<1>. DEFINE listed == Listed(proc[p].cluster)
            deps == Within(listed)
            csMap == [n \in Names |-> IF n \in listed THEN status[n] ELSE {}]
<1>1. proc \in [Procs -> Locals] /\ proc[p] \in Locals
  BY DEF IInv, TypeOK
<1>2. CASE \E queue, counts :
             proc' = [proc EXCEPT ![p].at = "sort", ![p].listed = listed,
                                  ![p].csMap = csMap, ![p].dependencies = deps,
                                  ![p].outgoingCount = counts, ![p].queue = queue]
  <2>. HIDE DEF listed, deps, csMap
  <2>1. /\ proc'[p].at = "sort" /\ proc'[p].cluster = proc[p].cluster
        /\ proc'[p].listed = listed /\ proc'[p].csMap = csMap
    BY <1>1, <1>2 DEF Locals
  <2>. QED BY <2>1 DEF listed, csMap
<1>. QED BY <1>2 DEF listSummaries

LEMMA SortingKeeps ==
    ASSUME IInv, NEW p \in Procs, popQueue(p)
    PROVE  /\ proc[p].at = "sort" /\ proc'[p].at = "sort" /\ patched' = patched
           /\ proc'[p].cluster = proc[p].cluster /\ proc'[p].csMap = proc[p].csMap
           /\ proc'[p].listed = proc[p].listed
           /\ proc'[p].written = proc[p].written
<1>1. proc \in [Procs -> Locals] /\ proc[p] \in Locals
  BY DEF IInv, TypeOK
<1>2. /\ proc[p].at = "sort" /\ patched' = patched
      /\ \E queue, order, counts :
           proc' = [proc EXCEPT ![p].queue = queue, ![p].resetOrder = order,
                                ![p].outgoingCount = counts]
  BY DEF popQueue
<1>. QED BY <1>1, <1>2 DEF Locals

(* An invocation that has ended, or begins again, has nothing to remember. *)
LEMMA EndedRemembers ==
    ASSUME IInv, NEW p \in Procs,
           \/ ForceDeployment(p)
           \/ \E f \in Ended : Ends(p, f)
    PROVE  proc'[p].at \notin {"sort", "reset"}
BY DEF IInv, TypeOK, ForceDeployment, Ends, Begun, Invocation, Ended

LEMMA OwnRemembers ==
    ASSUME IInv, [Next]_vars, NEW p \in Procs, Remembers(p),
           ForceDeployment(p) \/ Step(p) \/ Crash(p)
    PROVE  Remembers(p)'
<1>1. /\ proc \in [Procs -> Locals] /\ proc[p] \in Locals
      /\ patched \in [Procs -> SUBSET Names]
      /\ status \in [Names -> {Absent} \cup SUBSET Fields]
  BY DEF IInv, TypeOK
<1>2. CASE ForceDeployment(p) \/ \E f \in Ended : Ends(p, f)
  BY <1>2, EndedRemembers DEF Remembers
<1>3. CASE listSummaries(p) /\ ~\E f \in Ended : Ends(p, f)
  <2>. DEFINE listed == Listed(proc[p].cluster)
              csMap == [n \in Names |-> IF n \in listed THEN status[n] ELSE {}]
  <2>1. status' = status /\ patched' = patched /\ proc[p].at = "list"
    BY <1>3 DEF listSummaries
  <2>2. /\ proc'[p].cluster = proc[p].cluster
        /\ proc'[p].listed = listed /\ proc'[p].csMap = csMap
    BY <1>3, ListingLeads DEF Ended
  <2>. HIDE DEF listed, csMap
  <2>3. patched'[p] = {}
    BY <2>1, LocalFacts DEF Steady
  <2>4. ASSUME NEW n \in Names, ClusterOf[n] = proc[p].cluster, ~Bare(n)'
        PROVE  n \in listed \ patched'[p] /\ status'[n] \subseteq csMap[n]
    BY <2>1, <2>3, <2>4 DEF listed, csMap, Listed, Bare
  <2>5. \A n \in listed : ClusterOf[n] = proc[p].cluster
    BY DEF listed, Listed
  <2>. QED BY <2>2, <2>4, <2>5 DEF Remembers
<1>4. CASE popQueue(p)
  BY <1>4, SortingKeeps, StillRemembers
<1>5. CASE checkCycle(p) /\ Goes(p, "reset")
  <2>1. /\ proc[p].at = "sort" /\ patched' = patched
        /\ proc' = [proc EXCEPT ![p].at = "reset"]
    BY <1>5 DEF checkCycle, Goes
  <2>2. /\ proc'[p].cluster = proc[p].cluster /\ proc'[p].csMap = proc[p].csMap
        /\ proc'[p].listed = proc[p].listed /\ proc'[p].written = proc[p].written
    BY <1>1, <2>1 DEF Locals
  <2>. QED BY <2>1, <2>2, StillRemembers
<1>6. CASE patchStatus(p) /\ ~Ends(p, "failed")
  <2>. DEFINE n == Head(proc[p].resetOrder)
  <2>1. /\ proc[p].at = "reset" /\ proc[p].resetOrder # <<>>
        /\ status[n] # Absent /\ status' = [status EXCEPT ![n] = Cleared(p, n)]
        /\ patched' = [patched EXCEPT ![p] = @ \cup {n}]
        /\ proc' = [proc EXCEPT ![p].resetOrder = Tail(@)]
    BY <1>6 DEF patchStatus
  <2>2. Resetting(proc[p], patched[p]) /\ proc[p].resetOrder \in Seq(Names)
        /\ proc[p].listed \in SUBSET Names
    BY <2>1, LocalFacts DEF Steady
  <2>3. n \in Names /\ n \in proc[p].listed
    BY <2>1, <2>2, TailWalk DEF Resetting
  <2>4. patched'[p] = patched[p] \cup {n}
    BY <1>1, <2>1
  <2>5. /\ proc'[p].cluster = proc[p].cluster /\ proc'[p].csMap = proc[p].csMap
        /\ proc'[p].listed = proc[p].listed /\ proc'[p].written = proc[p].written
    BY <1>1, <2>1 DEF Locals
  <2>6. status'[n] = status[n] \ proc[p].csMap[n]
    BY <1>1, <2>1, <2>3 DEF Cleared
  <2>7. ClusterOf[n] = proc[p].cluster
    BY <2>1, <2>3 DEF Remembers
  <2>8. \/ Bare(n) \/ n \in proc'[p].written
        \/ status[n] \subseteq proc[p].csMap[n]
    BY <2>1, <2>3, <2>5, <2>7 DEF Remembers
  <2>9. status'[n] \in {{}, Absent} \/ n \in proc'[p].written
    BY <2>1, <2>6, <2>8 DEF Bare
  <2>. HIDE DEF n
  <2>10. \A x \in Names : x \in patched'[p] \ patched[p] =>
                              Bare(x)' \/ x \in proc'[p].written
    BY <2>4, <2>9 DEF Bare
  <2>. QED BY <2>1, <2>5, <2>10, StillRemembers
<1>7. CASE allReset(p) \/ Crash(p)
  BY <1>2, <1>7 DEF allReset, Crash, Ended
<1>. QED BY <1>2, <1>3, <1>4, <1>5, <1>6, <1>7
     DEF Step, checkCycle, patchStatus, Ended

LEMMA NextRemembered ==
    ASSUME IInv, Remembered, [Next]_vars
    PROVE  Remembered'
<1>. SUFFICES ASSUME NEW p \in Procs PROVE Remembers(p)'
  BY DEF Remembered
<1>1. Remembers(p)
  BY DEF Remembered
<1>2. CASE proc'[p] = proc[p] /\ patched'[p] = patched[p]
  <2>1. CASE proc[p].at \in {"sort", "reset"}
    BY <1>1, <1>2, <2>1, StillRemembers
  <2>2. CASE proc[p].at \notin {"sort", "reset"}
    BY <1>2, <2>2 DEF Remembers
  <2>. QED BY <2>1, <2>2
<1>3. ASSUME NEW q \in Procs, ForceDeployment(q) \/ Step(q) \/ Crash(q)
      PROVE  Remembers(p)'
  <2>1. CASE p = q
    BY <1>1, <1>3, <2>1, OwnRemembers
  <2>2. CASE p # q
    BY <1>2, <1>3, <2>2, OthersKeep
  <2>. QED BY <2>1, <2>2
<1>4. CASE UNCHANGED vars \/ Edit \/ \E n \in Names : Delete(n) \/ CreateSummary(n)
  BY <1>2, <1>4 DEF vars, Edit, Delete, CreateSummary
<1>5. ASSUME NEW n \in Names, Reconcile(n)
      PROVE  Remembers(p)'
  <2>1. CASE proc[p].at \in {"sort", "reset"}
    BY <1>1, <1>5, <2>1, ReconcileNoted, StillRemembers
  <2>2. CASE proc[p].at \notin {"sort", "reset"}
    BY <1>5, <2>2, ReconcileNoted DEF Remembers
  <2>. QED BY <2>1, <2>2
<1>. QED BY <1>3, <1>4, <1>5 DEF Next

(* An invocation that succeeds leaves no summary of its cluster with a     *)
(* status but those the controller has written since the List: whichever   *)
(* profiles are changed or removed meanwhile, and beside any number of     *)
(* other invocations.                                                      *)
THEOREM StatusesAreCleared == Spec => Redeployed
<1>. DEFINE Cleans(p) ==
              proc[p].at # "ok" /\ proc'[p].at = "ok" =>
                \A n \in Names : ClusterOf[n] = proc[p].cluster =>
                  status'[n] \in {{}, Absent} \/ n \in proc[p].written
<1>1. ASSUME IInv, Remembered, [Next]_vars, NEW p \in Procs PROVE Cleans(p)
  <2>. SUFFICES ASSUME proc[p].at # "ok", proc'[p].at = "ok",
                       NEW n \in Names, ClusterOf[n] = proc[p].cluster
                PROVE  status'[n] \in {{}, Absent} \/ n \in proc[p].written
    OBVIOUS
  <2>1. proc \in [Procs -> Locals] /\ proc'[p].at # proc[p].at
    BY <1>1 DEF IInv, TypeOK
  <2>2. ForceDeployment(p) \/ Step(p) \/ Crash(p)
    <3>1. ASSUME NEW q \in Procs, ForceDeployment(q) \/ Step(q) \/ Crash(q) PROVE p = q
      BY <1>1, <2>1, <3>1, OthersKeep
    <3>2. CASE UNCHANGED vars \/ Edit \/ \E m \in Names : Delete(m) \/ CreateSummary(m)
      BY <2>1, <3>2 DEF vars, Edit, Delete, CreateSummary
    <3>3. ASSUME NEW m \in Names, Reconcile(m) PROVE FALSE
      BY <1>1, <2>1, <3>3, ReconcileNoted
    <3>. QED BY <1>1, <3>1, <3>2, <3>3 DEF Next
  <2>3. ASSUME ForceDeployment(p) PROVE FALSE
    BY <2>1, <2>3 DEF ForceDeployment, Begun, Invocation
  <2>4. ASSUME NEW f \in Ended \ {"ok"}, Ends(p, f) PROVE FALSE
    BY <2>1, <2>4 DEF Ends, Invocation
  <2>5. CASE listSummaries(p) /\ Listed(proc[p].cluster) = {}
    <3>1. status' = status
      BY <2>5 DEF listSummaries
    <3>. QED BY <2>5, <3>1 DEF Listed
  <2>6. ASSUME listSummaries(p), Listed(proc[p].cluster) # {} PROVE FALSE
    BY <1>1, <2>4, <2>6, ListingLeads DEF Ended
  <2>7. ASSUME popQueue(p) PROVE FALSE
    BY <1>1, <2>7, SortingKeeps
  <2>8. ASSUME checkCycle(p) PROVE FALSE
    <3>1. CASE Goes(p, "reset")
      BY <2>1, <3>1 DEF Goes, Locals
    <3>. QED BY <2>4, <2>8, <3>1 DEF checkCycle, Ended
  <2>9. ASSUME patchStatus(p) PROVE FALSE
    <3>1. CASE proc' = [proc EXCEPT ![p].resetOrder = Tail(@)] /\ proc[p].at = "reset"
      BY <2>1, <3>1 DEF Locals
    <3>. QED BY <2>4, <2>9, <3>1 DEF patchStatus, Ended
  <2>10. CASE allReset(p)
    <3>1. /\ proc[p].at = "reset" /\ proc[p].resetOrder = <<>> /\ status' = status
      BY <2>10 DEF allReset
    <3>2. Resetting(proc[p], patched[p]) /\ ToSet(<<>>) = {}
      BY <1>1, <3>1, LocalFacts DEF Steady, ToSet
    <3>3. patched[p] = proc[p].listed
      BY <3>1, <3>2 DEF Resetting
    <3>. QED BY <1>1, <3>1, <3>3 DEF Remembered, Remembers, Bare
  <2>11. ~Crash(p)
    BY <2>4 DEF Crash, Ended
  <2>. QED BY <2>2, <2>3, <2>5, <2>6, <2>7, <2>8, <2>9, <2>10, <2>11 DEF Step
<1>2. IInv /\ Remembered /\ [Next]_vars => [\A p \in Procs : Cleans(p)]_vars
  BY <1>1
<1>3. IInv /\ Remembered /\ [Next]_vars => IInv' /\ Remembered'
  BY NextInv, NextRemembered
<1>4. Init => IInv /\ Remembered
  BY InitInv, InitRemembered
<1>. QED BY <1>2, <1>3, <1>4, PTL DEF Spec, Redeployed
=============================================================================
