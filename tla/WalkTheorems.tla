------------------------------ MODULE WalkTheorems ------------------------------
(***************************************************************************)
(* Sequences without repetitions, such as the walk of a Go map, the order  *)
(* of a sort or the selection from a list.                                 *)
(***************************************************************************)
EXTENDS Naturals, SequencesExt, FiniteSetTheorems, SequenceTheorems, TLAPS

(* A walk of a map is a sequence of its keys without repetitions.          *)
LEMMA WalkProperties ==
    ASSUME NEW S, IsFiniteSet(S), NEW s \in SetToSeqs(S)
    PROVE  s \in Seq(S) /\ IsInjective(s) /\ ToSet(s) = S
<1>. DEFINE N == 1 .. Cardinality(S)
<1>1. Cardinality(S) \in Nat /\ s \in [N -> S]
  BY FS_CardinalityType DEF SetToSeqs
<1>2. s \in Injection(N, S)
  BY DEF SetToSeqs, Injection, IsInjective
<1>3. Cardinality(N) = Cardinality(S)
  BY <1>1, FS_Interval
<1>4. s \in Surjection(N, S)
  BY <1>2, <1>3, FS_Injection
<1>5. ToSet(s) = S
  BY <1>1, <1>4 DEF ToSet, Surjection
<1>. QED BY <1>1, <1>2, <1>5 DEF Injection, IsInjective

(* The elements of a sequence without repetitions, counted. *)
LEMMA ElementsCounted ==
    ASSUME NEW S, IsFiniteSet(S), NEW s \in Seq(S), IsInjective(s)
    PROVE  ToSet(s) \subseteq S /\ (Len(s) = Cardinality(S) <=> ToSet(s) = S)
<1>. DEFINE N == 1 .. Len(s)
<1>1. Len(s) \in Nat /\ s \in Injection(N, S)
  BY LenProperties DEF Injection, IsInjective
<1>2. Cardinality(N) = Len(s)
  <2>1. Cardinality(N) = IF 1 > Len(s) THEN 0 ELSE Len(s) - 1 + 1
    BY <1>1, FS_Interval
  <2>. QED BY <2>1, <1>1
<1>3. Cardinality(N) = Cardinality(S) <=> s \in Surjection(N, S)
  BY <1>1, FS_Injection
<1>4. s \in Surjection(N, S) <=> ToSet(s) = S
  BY DEF Surjection, ToSet
<1>. QED BY <1>2, <1>3, <1>4 DEF ToSet

LEMMA AppendWalk ==
    ASSUME NEW S, NEW s \in Seq(S), IsInjective(s), NEW x \in S, x \notin ToSet(s)
    PROVE  /\ Append(s, x) \in Seq(S)
           /\ IsInjective(Append(s, x))
           /\ ToSet(Append(s, x)) = ToSet(s) \cup {x}
BY AppendProperties DEF IsInjective, ToSet

LEMMA TailWalk ==
    ASSUME NEW S, NEW s \in Seq(S), IsInjective(s), s # <<>>
    PROVE  /\ Head(s) \in S /\ Tail(s) \in Seq(S)
           /\ IsInjective(Tail(s))
           /\ Head(s) \notin ToSet(Tail(s))
           /\ ToSet(s) = ToSet(Tail(s)) \cup {Head(s)}
<1>1. /\ Head(s) \in S /\ Tail(s) \in Seq(S)
      /\ Len(Tail(s)) = Len(s) - 1 /\ Len(s) \in Nat \ {0}
      /\ \A i \in 1 .. Len(s) - 1 : Tail(s)[i] = s[i + 1]
      /\ Head(s) = s[1]
  BY HeadTailProperties, EmptySeq
<1>2. DOMAIN s = 1 .. Len(s) /\ DOMAIN Tail(s) = 1 .. Len(s) - 1
  BY <1>1, LenProperties
<1>3. IsInjective(Tail(s))
  <2>. SUFFICES ASSUME NEW i \in 1 .. Len(s) - 1, NEW j \in 1 .. Len(s) - 1,
                       Tail(s)[i] = Tail(s)[j]
                PROVE  i = j
    BY <1>2 DEF IsInjective
  <2>1. s[i + 1] = s[j + 1] /\ i + 1 \in 1 .. Len(s) /\ j + 1 \in 1 .. Len(s)
    BY <1>1
  <2>2. i + 1 = j + 1
    BY <2>1, <1>2 DEF IsInjective
  <2>. QED BY <2>2
<1>4. Head(s) \notin ToSet(Tail(s))
  <2>. SUFFICES ASSUME NEW i \in 1 .. Len(s) - 1, Tail(s)[i] = Head(s)
                PROVE  FALSE
    BY <1>2 DEF ToSet
  <2>1. s[i + 1] = s[1] /\ i + 1 \in 1 .. Len(s) /\ 1 \in 1 .. Len(s)
    BY <1>1
  <2>2. i + 1 = 1
    BY <2>1, <1>2 DEF IsInjective
  <2>. QED BY <2>2
<1>5. ToSet(s) \subseteq ToSet(Tail(s)) \cup {Head(s)}
  <2>. SUFFICES ASSUME NEW i \in 1 .. Len(s), i # 1
                PROVE  s[i] \in ToSet(Tail(s))
    BY <1>1, <1>2 DEF ToSet
  <2>1. i - 1 \in 1 .. Len(s) - 1 /\ Tail(s)[i - 1] = s[i]
    BY <1>1
  <2>. QED BY <2>1, <1>2 DEF ToSet
<1>6. ToSet(Tail(s)) \cup {Head(s)} \subseteq ToSet(s)
  <2>1. ASSUME NEW i \in 1 .. Len(s) - 1
        PROVE  Tail(s)[i] \in ToSet(s)
    <3>1. i + 1 \in DOMAIN s /\ Tail(s)[i] = s[i + 1]
      BY <1>1, <1>2
    <3>. QED BY <3>1 DEF ToSet
  <2>. QED BY <1>1, <1>2, <2>1 DEF ToSet
<1>. QED BY <1>1, <1>3, <1>4, <1>5, <1>6

LEMMA ConcatWalks ==
    ASSUME NEW S, NEW s \in Seq(S), NEW t \in Seq(S),
           IsInjective(s), IsInjective(t), ToSet(s) \cap ToSet(t) = {}
    PROVE  /\ s \o t \in Seq(S)
           /\ IsInjective(s \o t)
           /\ ToSet(s \o t) = ToSet(s) \cup ToSet(t)
<1>. DEFINE u == s \o t
            m == Len(s)
            n == Len(t)
<1>1. /\ u \in Seq(S) /\ Len(u) = m + n
      /\ \A i \in 1 .. m + n : u[i] = IF i <= m THEN s[i] ELSE t[i - m]
  BY ConcatProperties
<1>2. /\ m \in Nat /\ DOMAIN s = 1 .. m
      /\ n \in Nat /\ DOMAIN t = 1 .. n
  BY LenProperties
<1>3. DOMAIN u = 1 .. m + n
  BY <1>1, LenProperties
<1>. HIDE DEF u, m, n
<1>4. \A i \in 1 .. m : i \in 1 .. m + n /\ u[i] = s[i]
  BY <1>1, <1>2
<1>5. \A i \in 1 .. n : i + m \in 1 .. m + n /\ u[i + m] = t[i]
  BY <1>1, <1>2
<1>6. \A i \in 1 .. m + n : i \in 1 .. m \/ i - m \in 1 .. n
  BY <1>2
<1>7. \A i \in 1 .. m + n : i - m \in 1 .. n => u[i] = t[i - m]
  BY <1>1, <1>2
<1>8. \A i \in 1 .. m : s[i] \in ToSet(s)
  BY <1>2 DEF ToSet
<1>9. \A i \in 1 .. n : t[i] \in ToSet(t)
  BY <1>2 DEF ToSet
<1>10. IsInjective(u)
  <2>. SUFFICES ASSUME NEW i \in 1 .. m + n, NEW j \in 1 .. m + n, u[i] = u[j]
                PROVE  i = j
    BY <1>3 DEF IsInjective
  <2>1. CASE i \in 1 .. m /\ j \in 1 .. m
    BY <2>1, <1>4, <1>2 DEF IsInjective
  <2>2. CASE i \in 1 .. m /\ j - m \in 1 .. n
    BY <2>2, <1>4, <1>7, <1>8, <1>9
  <2>3. CASE i - m \in 1 .. n /\ j \in 1 .. m
    BY <2>3, <1>4, <1>7, <1>8, <1>9
  <2>4. CASE i - m \in 1 .. n /\ j - m \in 1 .. n
    <3>1. i - m = j - m
      BY <2>4, <1>7, <1>2 DEF IsInjective
    <3>. QED BY <3>1, <1>2
  <2>. QED BY <2>1, <2>2, <2>3, <2>4, <1>6
<1>11. ToSet(u) \subseteq ToSet(s) \cup ToSet(t)
  <2>. SUFFICES ASSUME NEW i \in 1 .. m + n
                PROVE  u[i] \in ToSet(s) \cup ToSet(t)
    BY <1>3 DEF ToSet
  <2>. QED BY <1>4, <1>6, <1>7, <1>8, <1>9
<1>12. ToSet(s) \subseteq ToSet(u)
  BY <1>2, <1>3, <1>4 DEF ToSet
<1>13. ToSet(t) \subseteq ToSet(u)
  BY <1>2, <1>3, <1>5 DEF ToSet
<1>. QED BY <1>1, <1>10, <1>11, <1>12, <1>13 DEF u
=================================================================================
