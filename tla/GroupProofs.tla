---------------------------- MODULE GroupProofs ----------------------------
(***************************************************************************)
(* Group::addBreakingClausesTo for every list of subgroups, with any       *)
(* permutations and matrices, whichever literal each pass over the orbits  *)
(* picks and in whatever order the containers are iterated:                *)
(*   - while literals are chosen, the permutations that are left fix all   *)
(*     those chosen before (OnlyStabilizersLeft);                          *)
(*   - the order it returns has exactly one literal of every variable that *)
(*     a permutation or a row swap of the subgroup moves (OrderComplete).  *)
(*                                                                         *)
(* The first invariant follows eliminateNonStabilizers through its loop:   *)
(* the permutations below position j fix the newest literal as well, and   *)
(* the one that swapErase moves into the gap has not been examined.  The   *)
(* second rests on it: a literal that is moved by a permutation that is    *)
(* left is none of those chosen before.                                    *)
(***************************************************************************)
EXTENDS GroupBreaking, BreakerProofs, SequenceTheorems

LOCAL INSTANCE SequencesExt

-----------------------------------------------------------------------------
(* Two sequences one after the other hold what each of them holds. *)
LEMMA ConcatSet ==
  ASSUME NEW T, NEW s \in Seq(T), NEW t \in Seq(T)
  PROVE  /\ s \o t \in Seq(T) /\ ToSet(s \o t) = ToSet(s) \cup ToSet(t)
<1>1. /\ s \o t \in Seq(T) /\ Len(s \o t) = Len(s) + Len(t)
      /\ \A k \in 1 .. Len(s) + Len(t) :
           (s \o t)[k] = IF k <= Len(s) THEN s[k] ELSE t[k - Len(s)]
  BY ConcatProperties
<1> DEFINE u == s \o t
<1>2. /\ Len(s) \in Nat /\ Len(t) \in Nat
      /\ DOMAIN s = 1 .. Len(s) /\ DOMAIN t = 1 .. Len(t)
      /\ DOMAIN u = 1 .. Len(s) + Len(t)
  BY <1>1
<1> HIDE DEF u
<1>3. \A k \in DOMAIN s : k \in DOMAIN u /\ u[k] = s[k]
  BY <1>1, <1>2 DEF u
<1>4. \A k \in DOMAIN t : k + Len(s) \in DOMAIN u /\ u[k + Len(s)] = t[k]
  BY <1>1, <1>2 DEF u
<1>5. \A k \in DOMAIN u : (k \in DOMAIN s /\ u[k] = s[k])
         \/ (k - Len(s) \in DOMAIN t /\ u[k] = t[k - Len(s)])
  BY <1>1, <1>2 DEF u
<1>6. ToSet(u) = ToSet(s) \cup ToSet(t)
  BY <1>3, <1>4, <1>5 DEF ToSet
<1>7. QED
  BY <1>1, <1>6 DEF u

(* A concatenation holds what its parts hold. *)
LEMMA FlattenFacts ==
  ASSUME NEW T, NEW ss \in Seq(Seq(T))
  PROVE  /\ FlattenSeq(ss) \in Seq(T)
         /\ \A x : x \in ToSet(FlattenSeq(ss)) <=>
                     \E k \in 1 .. Len(ss) : x \in ToSet(ss[k])
<1>1. CASE Len(ss) = 0
  <2>1. ss = <<>>
    BY <1>1, EmptySeq
  <2>2. FlattenSeq(ss) = <<>>
    BY <1>1, <2>1 DEF FlattenSeq
  <2>3. <<>> \in Seq(T) /\ ToSet(<<>>) = {}
    BY DEF ToSet
  <2>4. ~\E k \in 1 .. Len(ss) : TRUE
    BY <1>1
  <2>5. QED
    BY <2>2, <2>3, <2>4
<1>2. CASE Len(ss) # 0
  <2> DEFINE n == Len(ss)
  <2>1. n \in Nat /\ n - 1 \in Nat /\ \A k \in 1 .. n : ss[k] \in Seq(T)
    BY <1>2
  <2> HIDE DEF n
  <2>2. PICK G : G = [k \in 1 .. n - 1 |-> [y \in Seq(T) |-> y \o ss[k + 1]]]
    OBVIOUS
  <2>3. \A k \in 1 .. n - 1 : Maps(G[k], Seq(T))
    <3>1. \A k \in 1 .. n - 1 : k + 1 \in 1 .. n
      BY <2>1
    <3>2. QED
      BY <2>1, <2>2, <3>1 DEF Maps
  <2>4. PICK f : LoopRun(f, ss[1], G, n - 1, Seq(T))
    <3>1. ss[1] \in Seq(T)
      BY <2>1
    <3>2. QED
      BY <2>1, <2>3, <3>1, LoopRunExists
  <2>5. PICK e : e = [k \in 1 .. n |-> f[k - 1]]
    OBVIOUS
  <2>6. e = [k \in 1 .. n |-> IF k = 1 THEN ss[k] ELSE e[k - 1] \o ss[k]]
    <3>1. \A k \in 1 .. n : k # 1 => /\ k - 1 \in 1 .. n - 1 /\ k - 1 \in 1 .. n
                                     /\ (k - 1) + 1 = k /\ k - 1 \in 0 .. n - 1
                                     /\ (k - 1) - 1 \in 0 .. n - 1
      BY <2>1
    <3>2. f[0] = ss[1] /\ \A k \in 0 .. n - 1 : f[k] \in Seq(T)
      BY <2>4 DEF LoopRun
    <3>3. \A k \in 1 .. n : k # 1 => f[k - 1] = G[k - 1][f[(k - 1) - 1]]
      BY <2>4, <3>1 DEF LoopRun
    <3>4. \A k \in 1 .. n : k # 1 => f[k - 1] = f[(k - 1) - 1] \o ss[k]
      BY <2>2, <3>1, <3>2, <3>3
    <3>5. ASSUME NEW k \in 1 .. n
          PROVE  e[k] = IF k = 1 THEN ss[k] ELSE e[k - 1] \o ss[k]
      <4>1. e[k] = f[k - 1]
        BY <2>5
      <4>2. CASE k = 1
        BY <3>2, <4>1, <4>2
      <4>3. CASE k # 1
        <5>1. e[k - 1] = f[(k - 1) - 1]
          BY <2>5, <3>1, <4>3
        <5>2. QED
          BY <3>4, <4>1, <4>3, <5>1
      <4>4. QED
        BY <4>2, <4>3
    <3>6. QED
      BY <2>5, <3>5
  <2>7. PICK r : /\ r = [k \in 1 .. n |-> IF k = 1 THEN ss[k] ELSE r[k - 1] \o ss[k]]
                 /\ FlattenSeq(ss) = r[n]
    BY <1>2, <2>6, Zenon DEF FlattenSeq, n
  <2>8. \A k \in 1 .. n : r[k] = IF k = 1 THEN ss[k] ELSE r[k - 1] \o ss[k]
    BY <2>7, Zenon
  <2> DEFINE Holds(k) == /\ r[k] \in Seq(T)
                         /\ \A x : x \in ToSet(r[k]) <=>
                                     \E m \in 1 .. k : x \in ToSet(ss[m])
             A == {k \in Nat : k + 1 <= n => Holds(k + 1)}
  <2>9. 0 \in A
    <3>1. r[1] = ss[1] /\ 1 .. 1 = {1}
      BY <2>1, <2>8
    <3>2. Holds(1)
      BY <2>1, <3>1
    <3>3. QED
      BY <3>2
  <2>10. ASSUME NEW k \in Nat, k \in A PROVE k + 1 \in A
    <3>1. SUFFICES ASSUME (k + 1) + 1 <= n PROVE Holds((k + 1) + 1)
      OBVIOUS
    <3>2. k + 1 \in 1 .. n /\ (k + 1) + 1 \in 1 .. n /\ (k + 1) + 1 # 1
          /\ ((k + 1) + 1) - 1 = k + 1
          /\ \A m : m \in 1 .. (k + 1) + 1 <=> (m \in 1 .. k + 1 \/ m = (k + 1) + 1)
      BY <2>1, <3>1
    <3>3. Holds(k + 1)
      BY <2>1, <2>10, <3>2
    <3>4. r[(k + 1) + 1] = r[k + 1] \o ss[(k + 1) + 1] /\ ss[(k + 1) + 1] \in Seq(T)
      BY <2>1, <2>8, <3>2
    <3>5. /\ r[(k + 1) + 1] \in Seq(T)
          /\ ToSet(r[(k + 1) + 1]) = ToSet(r[k + 1]) \cup ToSet(ss[(k + 1) + 1])
      BY <3>3, <3>4, ConcatSet
    <3>6. QED
      BY <3>2, <3>3, <3>5
  <2> HIDE DEF A, Holds
  <2>11. n - 1 \in A
    BY <2>1, <2>9, <2>10, SetInduction
  <2>12. Holds(n)
    BY <2>1, <2>11 DEF A
  <2>13. QED
    BY <2>7, <2>12 DEF Holds, n
<1>3. QED
  BY <1>1, <1>2

(* The orders in which a finite set may be listed hold each element once. *)
LEMMA ListingFacts ==
  ASSUME NEW S, IsFiniteSet(S), NEW s \in SetToSeqs(S)
  PROVE  /\ s \in Seq(S) /\ ToSet(s) = S
         /\ \A m, k \in 1 .. Len(s) : m # k => s[m] # s[k]
<1> DEFINE n == Cardinality(S)
<1>1. n \in Nat
  BY FS_CardinalityType
<1>2. s \in [1 .. n -> S] /\ \A m, k \in 1 .. n : m # k => s[m] # s[k]
  BY DEF SetToSeqs
<1>3. s \in Seq(S) /\ Len(s) = n /\ DOMAIN s = 1 .. n
  BY <1>1, <1>2
<1> HIDE DEF n
<1>4. Distinct(s, n, S)
  BY <1>2 DEF Distinct
<1>5. \A x \in S : \E k \in 1 .. n : s[k] = x
  BY <1>4, DistinctOnto DEF n
<1>6. QED
  BY <1>2, <1>3, <1>5 DEF ToSet

-----------------------------------------------------------------------------
(* One turn of EachVariableOnce. *)
Take(t, l) ==
  IF l \in ToSet(t) \/ Neg(l) \in ToSet(t) THEN t ELSE Append(t, l)

(* Appending adds one element. *)
LEMMA AppendSet ==
  ASSUME NEW T, NEW s \in Seq(T), NEW x \in T
  PROVE  /\ Append(s, x) \in Seq(T) /\ Len(Append(s, x)) = Len(s) + 1
         /\ \A k \in 1 .. Len(s) : Append(s, x)[k] = s[k]
         /\ Append(s, x)[Len(s) + 1] = x
         /\ ToSet(Append(s, x)) = ToSet(s) \cup {x}
<1>1. /\ Append(s, x) \in Seq(T) /\ Len(Append(s, x)) = Len(s) + 1
      /\ \A k \in 1 .. Len(s) : Append(s, x)[k] = s[k]
      /\ Append(s, x)[Len(s) + 1] = x
  BY AppendProperties
<1> DEFINE u == Append(s, x)
<1>2. Len(s) \in Nat /\ DOMAIN s = 1 .. Len(s) /\ DOMAIN u = 1 .. Len(s) + 1
  BY <1>1
<1> HIDE DEF u
<1>3. \A k : k \in DOMAIN u <=> k \in DOMAIN s \/ k = Len(s) + 1
  BY <1>2
<1>4. (\A k \in DOMAIN s : u[k] = s[k]) /\ u[Len(s) + 1] = x
  BY <1>1, <1>2 DEF u
<1>5. ToSet(u) = ToSet(s) \cup {x}
  BY <1>3, <1>4 DEF ToSet
<1>6. QED
  BY <1>1, <1>5 DEF u

(* A turn keeps an order and covers one variable more. *)
LEMMA TakeFacts ==
  ASSUME NEW t, IsOrder(t), NEW l \in Lits
  PROVE  /\ IsOrder(Take(t, l)) /\ ToSet(Take(t, l)) \subseteq ToSet(t) \cup {l}
         /\ ToSet(t) \subseteq ToSet(Take(t, l))
         /\ \E x \in ToSet(Take(t, l)) : VarOf(x) = VarOf(l)
<1>1. /\ t \in Seq(Lits) /\ Len(t) \in Nat
      /\ \A m, k \in 1 .. Len(t) : m # k => VarOf(t[m]) # VarOf(t[k])
      /\ \A k \in 1 .. Len(t) : t[k] \in Lits /\ t[k] \in ToSet(t)
      /\ \A x \in ToSet(t) : \E k \in 1 .. Len(t) : t[k] = x
  BY DEF IsOrder, ToSet
<1>2. CASE l \in ToSet(t) \/ Neg(l) \in ToSet(t)
  <2>1. Take(t, l) = t
    BY <1>2 DEF Take
  <2>2. \E x \in ToSet(t) : VarOf(x) = VarOf(l)
    BY <1>2, LitFacts, NegFacts
  <2>3. QED
    BY <2>1, <2>2
<1>3. CASE l \notin ToSet(t) /\ Neg(l) \notin ToSet(t)
  <2> DEFINE u == Append(t, l)
  <2>1. Take(t, l) = u
    BY <1>3 DEF Take
  <2>2. /\ u \in Seq(Lits) /\ Len(u) = Len(t) + 1
        /\ \A k \in 1 .. Len(t) : u[k] = t[k]
        /\ u[Len(t) + 1] = l
        /\ ToSet(u) = ToSet(t) \cup {l}
    BY <1>1, AppendSet
  <2> HIDE DEF u
  <2>3. \A k \in 1 .. Len(t) : VarOf(t[k]) # VarOf(l)
    <3>1. SUFFICES ASSUME NEW k \in 1 .. Len(t), VarOf(t[k]) = VarOf(l) PROVE FALSE
      OBVIOUS
    <3>2. t[k] \in Nat /\ l \in Nat
      BY <1>1, LitFacts
    <3>3. t[k] = l \/ t[k] = Neg(l)
      BY <3>1, <3>2, SameVar
    <3>4. QED
      BY <1>1, <1>3, <3>3
  <2>4. \A k \in 1 .. Len(u) : k \in 1 .. Len(t) \/ k = Len(t) + 1
    BY <1>1, <2>2
  <2>5. IsOrder(u)
    <3>1. \A m, k \in 1 .. Len(u) : m # k => VarOf(u[m]) # VarOf(u[k])
      BY <1>1, <2>2, <2>3, <2>4
    <3>2. QED
      BY <2>2, <3>1 DEF IsOrder
  <2>6. QED
    BY <2>1, <2>2, <2>5
<1>4. QED
  BY <1>2, <1>3

(* The literals of a vector, each variable once, are an order of them all. *)
LEMMA EachVariableOnceFacts ==
  ASSUME NEW s \in Seq(Lits)
  PROVE  /\ IsOrder(EachVariableOnce(s))
         /\ ToSet(EachVariableOnce(s)) \subseteq ToSet(s)
         /\ \A l \in ToSet(s) :
               \E x \in ToSet(EachVariableOnce(s)) : VarOf(x) = VarOf(l)
<1> DEFINE n == Len(s)
<1>1. /\ n \in Nat /\ \A k \in 1 .. n : s[k] \in Lits /\ s[k] \in ToSet(s)
      /\ \A l \in ToSet(s) : \E k \in 1 .. n : s[k] = l
  BY DEF ToSet
<1> HIDE DEF n
<1>2. PICK T : T = {t \in Seq(Lits) : IsOrder(t)}
  OBVIOUS
<1>3. /\ \A t : t \in T <=> IsOrder(t)
      /\ <<>> \in T /\ ToSet(<<>>) = {}
      /\ \A t \in T, k \in 1 .. n : Take(t, s[k]) \in T
  <2>1. \A t : t \in T <=> IsOrder(t)
    BY <1>2 DEF IsOrder
  <2>2. IsOrder(<<>>) /\ ToSet(<<>>) = {}
    BY DEF IsOrder, ToSet
  <2>3. QED
    BY <1>1, <2>1, <2>2, TakeFacts
<1>4. PICK G : G = [k \in 1 .. n |-> [t \in T |-> Take(t, s[k])]]
  OBVIOUS
<1>5. PICK f : LoopRun(f, <<>>, G, n, T)
  <2>1. \A k \in 1 .. n : Maps(G[k], T)
    BY <1>3, <1>4 DEF Maps
  <2>2. <<>> \in T
    BY <1>3
  <2>3. QED
    BY <1>1, <2>1, <2>2, LoopRunExists
<1>6. \A k \in 0 .. n : k # 0 => k \in 1 .. n /\ k - 1 \in 0 .. n
  BY <1>1
<1>7. f = [k \in 0 .. n |-> IF k = 0 THEN <<>> ELSE Take(f[k - 1], s[k])]
  <2>1. f \in [0 .. n -> T] /\ f[0] = <<>>
    BY <1>5 DEF LoopRun
  <2>2. ASSUME NEW k \in 0 .. n, k # 0 PROVE f[k] = Take(f[k - 1], s[k])
    <3>1. f[k] = G[k][f[k - 1]] /\ f[k - 1] \in T
      BY <1>5, <1>6, <2>1, <2>2 DEF LoopRun
    <3>2. QED
      BY <1>4, <1>6, <2>2, <3>1
  <2>3. QED
    BY <2>1, <2>2
<1>8. PICK r : /\ r = [k \in 0 .. n |-> IF k = 0 THEN <<>> ELSE Take(r[k - 1], s[k])]
               /\ EachVariableOnce(s) = r[n]
  BY <1>7, Zenon DEF EachVariableOnce, Take, n
<1>9. \A k \in 0 .. n : r[k] = IF k = 0 THEN <<>> ELSE Take(r[k - 1], s[k])
  BY <1>8, Zenon
<1> DEFINE Holds(k) == /\ IsOrder(r[k])
                       /\ \A x \in ToSet(r[k]) : x \in ToSet(s)
                       /\ \A m \in 1 .. k :
                             \E x \in ToSet(r[k]) : VarOf(x) = VarOf(s[m])
           A == {k \in Nat : k <= n => Holds(k)}
<1>10. 0 \in A
  <2>1. r[0] = <<>>
    BY <1>1, <1>9
  <2>2. IsOrder(<<>>) /\ ToSet(<<>>) = {}
    BY <1>3
  <2>3. QED
    BY <2>1, <2>2
<1>11. ASSUME NEW k \in Nat, k \in A PROVE k + 1 \in A
  <2>1. SUFFICES ASSUME k + 1 <= n PROVE Holds(k + 1)
    OBVIOUS
  <2>2. /\ k + 1 \in 1 .. n /\ k + 1 \in 0 .. n /\ k + 1 # 0 /\ (k + 1) - 1 = k
        /\ k <= n /\ \A m \in 1 .. k + 1 : m \in 1 .. k \/ m = k + 1
    BY <1>1, <2>1
  <2>3. Holds(k)
    BY <1>11, <2>2
  <2>4. r[k + 1] = Take(r[k], s[k + 1]) /\ s[k + 1] \in Lits /\ s[k + 1] \in ToSet(s)
    BY <1>1, <1>9, <2>2
  <2> DEFINE u == Take(r[k], s[k + 1])
  <2>5. /\ IsOrder(u) /\ ToSet(u) \subseteq ToSet(r[k]) \cup {s[k + 1]}
        /\ ToSet(r[k]) \subseteq ToSet(u)
        /\ \E x \in ToSet(u) : VarOf(x) = VarOf(s[k + 1])
    BY <2>3, <2>4, TakeFacts
  <2> HIDE DEF u
  <2>6. \A x \in ToSet(u) : x \in ToSet(s)
    BY <2>3, <2>4, <2>5
  <2>7. \A m \in 1 .. k + 1 : \E x \in ToSet(u) : VarOf(x) = VarOf(s[m])
    BY <2>2, <2>3, <2>5
  <2>8. QED
    BY <2>4, <2>5, <2>6, <2>7 DEF u
<1> HIDE DEF A, Holds
<1>12. n \in A
  BY <1>1, <1>10, <1>11, SetInduction
<1>13. Holds(n)
  BY <1>1, <1>12 DEF A
<1>14. QED
  BY <1>1, <1>8, <1>13 DEF Holds

-----------------------------------------------------------------------------
(* A choice that a pass over the orbits may end with. *)
PossiblePicks(ps, os) ==
  {c \in [lit : Lits \cup {Undef}, orb : SUBSET Lits, occurrence : Nat] :
     c.lit = Undef \/ (c.orb \in os /\ c.lit \in Candidates(ps, c.orb))}

(* Occurrences are counted; a literal that occurs is moved. *)
LEMMA OccurrenceFacts ==
  ASSUME NEW ps, Len(ps) \in Nat, NEW l
  PROVE  /\ Occurrence(ps, l) \in Nat
         /\ Occurrence(ps, l) > 0 => \E k \in 1 .. Len(ps) : l \in PosDomain(ps[k])
<1> DEFINE K == {k \in 1 .. Len(ps) : l \in PosDomain(ps[k])}
<1>1. IsFiniteSet(1 .. Len(ps)) /\ K \subseteq 1 .. Len(ps)
  BY FS_Interval
<1>2. IsFiniteSet(K)
  BY <1>1, FS_Subset
<1>3. Cardinality(K) \in Nat /\ (K = {} => Cardinality(K) = 0)
  BY <1>2, FS_CardinalityType, FS_EmptySet
<1>4. QED
  BY <1>3 DEF Occurrence

(* A turn of the loop replaces a choice by another one. *)
LEMMA ReplaceFacts ==
  ASSUME NEW ps, Len(ps) \in Nat, NEW os \in SUBSET SUBSET Lits, NEW orbit \in os,
         NEW b \in PossiblePicks(ps, os)
  PROVE  Replace(ps, b, orbit) \subseteq PossiblePicks(ps, os)
<1> SUFFICES ASSUME NEW c \in Replace(ps, b, orbit) PROVE c \in PossiblePicks(ps, os)
  OBVIOUS
<1>1. CASE c = b
  BY <1>1
<1>2. CASE c # b
  <2>1. PICK l \in Candidates(ps, orbit) :
           c = [lit |-> l, orb |-> orbit, occurrence |-> Occurrence(ps, l)]
    BY <1>2 DEF Replace
  <2>2. l \in Lits /\ Occurrence(ps, l) \in Nat
    BY <2>1, OccurrenceFacts DEF Candidates
  <2>3. QED
    BY <2>1, <2>2 DEF PossiblePicks
<1>3. QED
  BY <1>1, <1>2

(* What the loop over the orbits ends with is a choice. *)
LEMMA ScanFacts ==
  ASSUME NEW ps, Len(ps) \in Nat, NEW os \in SUBSET SUBSET Lits, NEW s \in Seq(os)
  PROVE  Scan(ps, s) \subseteq PossiblePicks(ps, os)
<1> DEFINE n == Len(s)
           C == PossiblePicks(ps, os)
           Turn(B, o) == UNION {Replace(ps, b, o) : b \in B}
<1>1. n \in Nat /\ \A k \in 1 .. n : s[k] \in os
  OBVIOUS
<1>2. {NoChoice(ps)} \in SUBSET C
  BY DEF PossiblePicks, NoChoice
<1>3. \A B \in SUBSET C, o \in os : Turn(B, o) \in SUBSET C
  BY ReplaceFacts
<1> HIDE DEF n, C, Turn
<1>4. PICK G : G = [k \in 1 .. n |-> [B \in SUBSET C |-> Turn(B, s[k])]]
  OBVIOUS
<1>5. PICK f : LoopRun(f, {NoChoice(ps)}, G, n, SUBSET C)
  <2>1. \A k \in 1 .. n : Maps(G[k], SUBSET C)
    BY <1>1, <1>3, <1>4 DEF Maps
  <2>2. QED
    BY <1>1, <1>2, <2>1, LoopRunExists
<1>6. \A k \in 0 .. n : k # 0 => k \in 1 .. n /\ k - 1 \in 0 .. n
  BY <1>1
<1>7. f = [k \in 0 .. n |-> IF k = 0 THEN {NoChoice(ps)} ELSE Turn(f[k - 1], s[k])]
  <2>1. f \in [0 .. n -> SUBSET C] /\ f[0] = {NoChoice(ps)}
    BY <1>5 DEF LoopRun
  <2>2. ASSUME NEW k \in 0 .. n, k # 0 PROVE f[k] = Turn(f[k - 1], s[k])
    <3>1. f[k] = G[k][f[k - 1]] /\ f[k - 1] \in SUBSET C
      BY <1>5, <1>6, <2>1, <2>2 DEF LoopRun
    <3>2. QED
      BY <1>4, <1>6, <2>2, <3>1
  <2>3. QED
    BY <2>1, <2>2
<1>8. PICK r : /\ r = [k \in 0 .. n |-> IF k = 0 THEN {NoChoice(ps)}
                                         ELSE Turn(r[k - 1], s[k])]
               /\ Scan(ps, s) = r[n]
  BY <1>7, Zenon DEF Scan, Turn, n
<1>9. \A k \in 0 .. n : r[k] = IF k = 0 THEN {NoChoice(ps)} ELSE Turn(r[k - 1], s[k])
  BY <1>8, Zenon
<1> DEFINE A == {k \in Nat : k <= n => r[k] \in SUBSET C}
<1>10. 0 \in A
  BY <1>1, <1>2, <1>9
<1>11. ASSUME NEW k \in Nat, k \in A PROVE k + 1 \in A
  <2>1. k + 1 <= n => /\ k + 1 \in 1 .. n /\ k + 1 \in 0 .. n /\ k + 1 # 0
                      /\ (k + 1) - 1 = k /\ k <= n
    BY <1>1
  <2>2. k + 1 <= n => r[k + 1] = Turn(r[k], s[k + 1])
    BY <1>9, <2>1
  <2>3. k + 1 <= n => r[k] \in SUBSET C
    BY <1>11, <2>1
  <2>4. QED
    BY <1>1, <1>3, <2>1, <2>2, <2>3
<1> HIDE DEF A
<1>12. n \in A
  BY <1>1, <1>10, <1>11, SetInduction
<1>13. r[n] \in SUBSET C
  BY <1>1, <1>12 DEF A
<1>14. QED
  BY <1>8, <1>13 DEF C

(* A literal that is picked lies in its orbit and outside the matrices,    *)
(* and one of the permutations moves it.                                   *)
LEMMA PickFacts ==
  ASSUME NEW ps \in Seq(LitPerms), NEW c \in Picks(ps), c.lit # Undef
  PROVE  /\ \E l \in Lits : c.orb = OrbitOf(ToSet(ps), l)
         /\ c.lit \in c.orb /\ c.lit \notin MatrixLits
         /\ \E k \in 1 .. Len(ps) : c.lit \in PosDomain(ps[k])
<1>1. ToSet(ps) \in SUBSET LitPerms /\ Len(ps) \in Nat
  BY DEF ToSet
<1>2. \A o \in Orbits(ps) : \E l \in Lits : o = OrbitOf(ToSet(ps), l)
  <2>1. \A p \in ToSet(ps) : PosDomain(p) \subseteq Lits
    BY <1>1 DEF PosDomain, Domain, LitPerms
  <2>2. QED
    BY <2>1 DEF Orbits
<1>3. Orbits(ps) \in SUBSET SUBSET Lits
  <2>1. PICK gens : gens = ToSet(ps)
    OBVIOUS
  <2>2. \A l \in Lits : OrbitOf(gens, l) \subseteq Lits
    BY <1>1, <2>1, OrbitFacts
  <2>3. QED
    BY <1>2, <2>1, <2>2
<1>4. IsFiniteSet(Orbits(ps))
  <2>1. IsFiniteSet(Lits)
    BY FS_Interval, NVarsAssumption DEF Lits
  <2>2. IsFiniteSet(SUBSET Lits)
    BY <2>1, FS_SUBSET
  <2>3. QED
    BY <1>3, <2>2, FS_Subset
<1>5. PICK s \in SetToSeqs(Orbits(ps)) : c \in Scan(ps, s)
  BY DEF Picks
<1>6. s \in Seq(Orbits(ps))
  BY <1>4, ListingFacts
<1>7. c \in PossiblePicks(ps, Orbits(ps))
  BY <1>1, <1>3, <1>5, <1>6, ScanFacts
<1>8. c.orb \in Orbits(ps) /\ c.lit \in Candidates(ps, c.orb)
  BY <1>7 DEF PossiblePicks
<1>9. QED
  BY <1>1, <1>2, <1>8, OccurrenceFacts DEF Candidates

-----------------------------------------------------------------------------
GeneratorsOf(group) ==
  ToSet(group.permutations) \cup ToSet(RowSwaps(group.matrices))

(* The elements of a vector are what stands at its positions. *)
LEMMA Elements ==
  ASSUME NEW T, NEW s \in Seq(T)
  PROVE  /\ Len(s) \in Nat /\ ToSet(s) \subseteq T
         /\ \A k \in 1 .. Len(s) : s[k] \in T /\ s[k] \in ToSet(s)
         /\ \A x \in ToSet(s) : \E k \in 1 .. Len(s) : x = s[k]
BY DEF ToSet

(* The vector that a loop over 1 .. n - 1 fills. *)
LEMMA Filled ==
  ASSUME NEW P, NEW n \in Nat, NEW f \in [1 .. n - 1 -> P]
  PROVE  /\ f \in Seq(P)
         /\ \A x \in ToSet(f) : \E k \in 1 .. n - 1 : x = f[k]
<1>1. DOMAIN f = 1 .. n - 1
  OBVIOUS
<1>2. CASE n = 0
  <2>1. 1 .. n - 1 = 1 .. 0
    BY <1>2
  <2>2. f \in [1 .. 0 -> P]
    BY <2>1
  <2>3. f \in Seq(P)
    BY <2>2
  <2>4. QED
    BY <1>1, <2>3 DEF ToSet
<1>3. CASE n # 0
  <2>1. n - 1 \in Nat
    BY <1>3
  <2>2. f \in Seq(P)
    BY <2>1
  <2>3. QED
    BY <1>1, <2>2 DEF ToSet
<1>4. QED
  BY <1>2, <1>3

(* A swap of the list exchanges two consecutive rows of one matrix. *)
LEMMA RowSwapsOfRows ==
  ASSUME NEW ms \in Seq(Seq(Seq(Lits)))
  PROVE  /\ \E T : RowSwaps(ms) \in Seq(T)
         /\ \A p \in ToSet(RowSwaps(ms)) :
               \E m \in 1 .. Len(ms) : \E r \in 1 .. Len(ms[m]) - 1 :
                  p = RowSwap(ms[m][r], ms[m][r + 1])
<1> DEFINE swaps(m) == [r \in 1 .. Len(ms[m]) - 1 |-> RowSwap(ms[m][r], ms[m][r + 1])]
           P == UNION {{RowSwap(ms[m][r], ms[m][r + 1]) : r \in 1 .. Len(ms[m]) - 1} :
                         m \in 1 .. Len(ms)}
           ss == [m \in 1 .. Len(ms) |-> swaps(m)]
<1>1. ASSUME NEW m \in 1 .. Len(ms)
      PROVE  /\ Len(ms[m]) \in Nat
             /\ \A r \in 1 .. Len(ms[m]) - 1 : RowSwap(ms[m][r], ms[m][r + 1]) \in P
  <2> DEFINE Q == {RowSwap(ms[m][r], ms[m][r + 1]) : r \in 1 .. Len(ms[m]) - 1}
  <2>1. Len(ms[m]) \in Nat
    OBVIOUS
  <2>2. Q \subseteq P
    OBVIOUS
  <2>3. \A r \in 1 .. Len(ms[m]) - 1 : RowSwap(ms[m][r], ms[m][r + 1]) \in Q
    OBVIOUS
  <2> HIDE DEF P, Q
  <2>4. QED
    BY <2>1, <2>2, <2>3
<1> HIDE DEF P
<1>2. ASSUME NEW m \in 1 .. Len(ms)
      PROVE  /\ swaps(m) \in Seq(P)
             /\ \A x \in ToSet(swaps(m)) : \E r \in 1 .. Len(ms[m]) - 1 :
                   x = RowSwap(ms[m][r], ms[m][r + 1])
  <2>1. PICK n \in Nat : n = Len(ms[m])
    BY <1>1
  <2>2. PICK f : f = swaps(m)
    OBVIOUS
  <2>3. f \in [1 .. n - 1 -> P]
    BY <1>1, <2>1, <2>2
  <2>4. \A r \in 1 .. n - 1 : f[r] = RowSwap(ms[m][r], ms[m][r + 1])
    BY <2>1, <2>2
  <2> HIDE DEF swaps
  <2>5. f \in Seq(P)
    BY <2>3, Filled
  <2>6. \A x \in ToSet(f) : \E r \in 1 .. n - 1 : x = f[r]
    BY <2>3 DEF ToSet
  <2>7. QED
    BY <2>1, <2>2, <2>4, <2>5, <2>6
<1> HIDE DEF swaps
<1>3. ss \in Seq(Seq(P)) /\ Len(ss) = Len(ms)
      /\ \A m \in 1 .. Len(ms) : ss[m] = swaps(m)
  <2>1. PICK n \in Nat : n = Len(ms)
    OBVIOUS
  <2>2. PICK f : f = [m \in 1 .. n |-> swaps(m)]
    OBVIOUS
  <2>3. \A m \in 1 .. n : swaps(m) \in Seq(P)
    BY <1>2, <2>1
  <2>4. f \in [1 .. n -> Seq(P)] /\ \A m \in 1 .. n : f[m] = swaps(m)
    BY <2>2, <2>3
  <2>5. f \in Seq(Seq(P)) /\ Len(f) = n
    BY <2>4, Filled
  <2>6. ss = f
    BY <2>1, <2>2
  <2>7. QED
    BY <2>1, <2>4, <2>5, <2>6
<1>4. RowSwaps(ms) = FlattenSeq(ss)
  BY DEF RowSwaps, swaps
<1> HIDE DEF ss
<1>5. RowSwaps(ms) \in Seq(P)
  BY <1>3, <1>4, FlattenFacts
<1>6. \A p \in ToSet(RowSwaps(ms)) : \E m \in 1 .. Len(ms) : p \in ToSet(ss[m])
  BY <1>3, <1>4, FlattenFacts
<1>7. \A p \in ToSet(RowSwaps(ms)) : \E m \in 1 .. Len(ms) : p \in ToSet(swaps(m))
  BY <1>3, <1>6
<1>8. QED
  BY <1>2, <1>5, <1>7

(* The literals of a matrix, row by row. *)
LEMMA MatrixRows ==
  ASSUME NEW ms \in Seq(Seq(Seq(Lits)))
  PROVE  /\ FlattenSeq(FlattenSeq(ms)) \in Seq(Lits)
         /\ ToSet(FlattenSeq(FlattenSeq(ms))) = LitsIn(ms)
         /\ LitsIn(ms) \subseteq Lits
<1> DEFINE rows == FlattenSeq(ms)
<1>1. rows \in Seq(Seq(Lits))
      /\ \A row : row \in ToSet(rows) <=> \E m \in 1 .. Len(ms) : row \in ToSet(ms[m])
  BY FlattenFacts
<1> HIDE DEF rows
<1>2. FlattenSeq(rows) \in Seq(Lits)
      /\ \A l : l \in ToSet(FlattenSeq(rows)) <=>
                  \E k \in 1 .. Len(rows) : l \in ToSet(rows[k])
  BY <1>1, FlattenFacts
<1>3. \A l : l \in ToSet(FlattenSeq(rows)) <=>
               \E row \in ToSet(rows) : l \in ToSet(row)
  <2>1. /\ \A k \in 1 .. Len(rows) : rows[k] \in ToSet(rows)
        /\ \A row \in ToSet(rows) : \E k \in 1 .. Len(rows) : row = rows[k]
    BY <1>1, Elements
  <2>2. QED
    BY <1>2, <2>1
<1>4. ASSUME NEW m \in 1 .. Len(ms), NEW row
      PROVE  row \in ToSet(ms[m]) <=> \E r \in 1 .. Len(ms[m]) : row = ms[m][r]
  <2>1. ms[m] \in Seq(Seq(Lits))
    OBVIOUS
  <2>2. /\ \A k \in 1 .. Len(ms[m]) : ms[m][k] \in ToSet(ms[m])
        /\ \A x \in ToSet(ms[m]) : \E k \in 1 .. Len(ms[m]) : x = ms[m][k]
    BY <2>1, Elements
  <2>3. QED
    BY <2>2
<1>5. \A l : l \in LitsIn(ms) <=>
        \E m \in 1 .. Len(ms) : \E r \in 1 .. Len(ms[m]) : l \in ToSet(ms[m][r])
  BY DEF LitsIn
<1>6. \A l : l \in ToSet(FlattenSeq(rows)) <=> l \in LitsIn(ms)
  <2>1. \A l : l \in LitsIn(ms) <=>
          \E m \in 1 .. Len(ms) : \E row \in ToSet(ms[m]) : l \in ToSet(row)
    <3>1. ASSUME NEW l, NEW m \in 1 .. Len(ms)
          PROVE  (\E r \in 1 .. Len(ms[m]) : l \in ToSet(ms[m][r]))
                   <=> \E row \in ToSet(ms[m]) : l \in ToSet(row)
      <4>1. ASSUME NEW r \in 1 .. Len(ms[m]), l \in ToSet(ms[m][r])
            PROVE  \E row \in ToSet(ms[m]) : l \in ToSet(row)
        BY <1>4, <4>1
      <4>2. ASSUME NEW row \in ToSet(ms[m]), l \in ToSet(row)
            PROVE  \E r \in 1 .. Len(ms[m]) : l \in ToSet(ms[m][r])
        <5>1. PICK r \in 1 .. Len(ms[m]) : row = ms[m][r]
          BY <1>4, <4>2, Zenon
        <5>2. QED
          BY <4>2, <5>1
      <4>3. QED
        BY <4>1, <4>2
    <3>2. QED
      BY <1>5, <3>1, Zenon
  <2>2. QED
    BY <1>1, <1>3, <2>1, Zenon
<1>7. ToSet(FlattenSeq(rows)) \subseteq Lits
  BY <1>2 DEF ToSet
<1>8. QED
  BY <1>2, <1>6, <1>7 DEF rows

(* What the steps before leave behind, group by group. *)
LEMMA GroupFacts ==
  ASSUME NEW list \in GroupLists, NEW k \in 1 .. Len(list)
  PROVE  /\ list[k] \in GroupType
         /\ ToSet(list[k].permutations) \subseteq LitPerms
         /\ ToSet(RowSwaps(list[k].matrices)) \subseteq LitPerms
         /\ LitsIn(list[k].matrices) \subseteq Lits
         /\ \A l \in LitsIn(list[k].matrices) : Neg(l) \in LitsIn(list[k].matrices)
         /\ \A p \in ToSet(RowSwaps(list[k].matrices)) :
               Domain(p) \subseteq LitsIn(list[k].matrices)
<1>1. list \in Seq(GroupType)
  BY GroupListsAssumption
<1> DEFINE ps == list[k].permutations
           ms == list[k].matrices
<1>2. list[k] \in GroupType /\ ps \in Seq(Symmetries) /\ ms \in Seq(Seq(Seq(Lits)))
  <2>1. list[k] \in GroupType
    BY <1>1
  <2>2. QED
    BY <2>1 DEF GroupType
<1>3. ToSet(ps) \subseteq LitPerms
  BY <1>2, SymmetriesAssumption DEF ToSet
<1>4. /\ ToSet(RowSwaps(ms)) \subseteq LitPerms
      /\ \A l \in LitsIn(ms) : Neg(l) \in LitsIn(ms)
  BY GroupListsAssumption
<1> HIDE DEF ps, ms
<1>5. ASSUME NEW p \in ToSet(RowSwaps(ms)), NEW l \in Domain(p)
      PROVE  l \in LitsIn(ms)
  <2>1. PICK m \in 1 .. Len(ms) : \E r \in 1 .. Len(ms[m]) - 1 :
           p = RowSwap(ms[m][r], ms[m][r + 1])
    BY <1>2, RowSwapsOfRows
  <2>2. PICK r \in 1 .. Len(ms[m]) - 1 : p = RowSwap(ms[m][r], ms[m][r + 1])
    BY <2>1
  <2>3. Len(ms[m]) \in Nat /\ r \in 1 .. Len(ms[m]) /\ r + 1 \in 1 .. Len(ms[m])
        /\ ms[m][r] \in Seq(Lits) /\ ms[m][r + 1] \in Seq(Lits)
    <3>1. ms[m] \in Seq(Seq(Lits))
      BY <1>2
    <3>2. Len(ms[m]) \in Nat /\ r \in 1 .. Len(ms[m]) /\ r + 1 \in 1 .. Len(ms[m])
      BY <3>1
    <3>3. QED
      BY <3>1, <3>2
  <2>4. l \in Lits /\ p[l] # l
    BY <2>2 DEF Domain, RowSwap
  <2>5. InSeq(l, ms[m][r]) \/ InSeq(l, ms[m][r + 1])
    BY <2>2, <2>4 DEF RowSwap
  <2>6. l \in ToSet(ms[m][r]) \/ l \in ToSet(ms[m][r + 1])
    <3>1. \A row \in Seq(Lits) : InSeq(l, row) => l \in ToSet(row)
      BY DEF InSeq, ToSet
    <3>2. QED
      BY <2>3, <2>5, <3>1, Zenon
  <2>7. QED
    BY <2>3, <2>6 DEF LitsIn
<1>6. LitsIn(ms) \subseteq Lits
  BY <1>2, MatrixRows
<1>7. QED
  BY <1>2, <1>3, <1>4, <1>5, <1>6 DEF ps, ms

-----------------------------------------------------------------------------
(* A sequence of anything. *)
IsVector(s) == /\ Len(s) \in Nat
               /\ s = [k \in 1 .. Len(s) |-> s[k]]

Choosing == phase \in {"pick", "eliminate"}

GroupsInv == /\ groups \in Seq(GroupType)
             /\ g \in Nat

VectorInv == Choosing => IsVector(perms) /\ IsVector(out_order)

(* Between two choices the permutations fix all literals of the order. *)
PickInv ==
  phase = "pick" =>
    \A m \in 1 .. Len(perms), k \in 1 .. Len(out_order) :
       perms[m][out_order[k]] = out_order[k]

(* During the elimination they fix all but the newest; those below j fix   *)
(* that one, too.                                                          *)
EliminateInv ==
  phase = "eliminate" =>
    /\ j \in Nat \ {0}
    /\ Len(out_order) > 0
    /\ out_order[Len(out_order)] = finalLit
    /\ \A m \in 1 .. Len(perms), k \in 1 .. Len(out_order) - 1 :
          perms[m][out_order[k]] = out_order[k]
    /\ \A m \in 1 .. Len(perms) : m < j => perms[m][finalLit] = finalLit

StabilizerInv == GroupsInv /\ VectorInv /\ PickInv /\ EliminateInv

-----------------------------------------------------------------------------
(* A new vector. *)
LEMMA EmptyVector == IsVector(<<>>) /\ Len(<<>>) = 0
BY DEF IsVector

(* Every sequence is a vector. *)
LEMMA SeqIsVector == \A S : \A s \in Seq(S) : IsVector(s)
BY DEF IsVector

(* push_back *)
LEMMA AppendVector ==
  ASSUME NEW s, IsVector(s), NEW e
  PROVE  /\ IsVector(Append(s, e))
         /\ Len(Append(s, e)) = Len(s) + 1
         /\ \A k \in 1 .. Len(s) : Append(s, e)[k] = s[k]
         /\ Append(s, e)[Len(s) + 1] = e
<1> DEFINE S == {s[k] : k \in 1 .. Len(s)} \cup {e}
<1>1. s \in Seq(S) /\ e \in S
  <2>1. [k \in 1 .. Len(s) |-> s[k]] \in Seq(S)
    BY DEF IsVector
  <2>2. QED
    BY <2>1 DEF IsVector
<1> HIDE DEF S
<1>2. /\ Append(s, e) \in Seq(S)
      /\ Len(Append(s, e)) = Len(s) + 1
      /\ \A k \in 1 .. Len(s) : Append(s, e)[k] = s[k]
      /\ Append(s, e)[Len(s) + 1] = e
  BY <1>1
<1>3. IsVector(Append(s, e))
  BY <1>2, SeqIsVector, Zenon
<1>4. QED
  BY <1>2, <1>3

(* swapErase *)
LEMMA EraseVector ==
  ASSUME NEW s, IsVector(s), NEW m \in 1 .. Len(s), NEW t,
         t = [k \in 1 .. Len(s) - 1 |-> IF k = m THEN s[Len(s)] ELSE s[k]]
  PROVE  /\ IsVector(t)
         /\ Len(t) = Len(s) - 1
         /\ \A k \in 1 .. Len(t) : t[k] = IF k = m THEN s[Len(s)] ELSE s[k]
<1> DEFINE S == {s[k] : k \in 1 .. Len(s)}
           n == Len(s) - 1
<1>1. n \in Nat /\ \A k \in 1 .. n : k \in 1 .. Len(s) /\ Len(s) \in 1 .. Len(s)
  BY DEF IsVector
<1>2. t \in [1 .. n -> S]
  BY <1>1
<1>3. t \in Seq(S) /\ Len(t) = n
  BY <1>1, <1>2
<1>4. QED
  BY <1>3, SeqIsVector

-----------------------------------------------------------------------------
(* Nothing is chosen yet. *)
LEMMA InitStabilizer == GroupInit => StabilizerInv
BY GroupListsAssumption
   DEF GroupInit, StabilizerInv, GroupsInv, VectorInv, PickInv, EliminateInv,
       Choosing

(* The order of a subgroup is empty when its first literal is looked for. *)
LEMMA NextGroupStep == StabilizerInv /\ NextGroup => StabilizerInv'
<1> SUFFICES ASSUME StabilizerInv, NextGroup PROVE StabilizerInv'
  OBVIOUS
<1>1. groups \in Seq(GroupType) /\ g \in Nat /\ g < Len(groups)
  BY DEF StabilizerInv, GroupsInv, NextGroup
<1>2. /\ groups' = groups /\ g' = g + 1 /\ out_order' = <<>>
      /\ phase' \in {"pick", "rest"}
      /\ phase' = "pick" => perms' = groups[g + 1].permutations
  BY DEF NextGroup
<1>3. g + 1 \in 1 .. Len(groups)
  BY <1>1
<1>4. groups[g + 1] \in GroupType
  BY <1>1, <1>3
<1>5. phase' = "pick" => IsVector(perms')
  <2>1. groups[g + 1].permutations \in Seq(Symmetries)
    BY <1>4 DEF GroupType
  <2>2. IsVector(groups[g + 1].permutations)
    BY <2>1, SeqIsVector, Zenon
  <2>3. QED
    BY <1>2, <2>2, Zenon
<1>6. IsVector(out_order') /\ Len(out_order') = 0
  BY <1>2, EmptyVector
<1>7. GroupsInv'
  BY <1>1, <1>2 DEF GroupsInv
<1>8. VectorInv'
  BY <1>2, <1>5, <1>6 DEF VectorInv, Choosing
<1>9. PickInv' /\ EliminateInv'
  BY <1>2, <1>6 DEF PickInv, EliminateInv
<1>10. QED
  BY <1>7, <1>8, <1>9 DEF StabilizerInv

(* A literal is chosen: it is the last of the order. *)
LEMMA PickLiteralStep == StabilizerInv /\ PickLiteral => StabilizerInv'
<1> SUFFICES ASSUME StabilizerInv, PickLiteral PROVE StabilizerInv'
  OBVIOUS
<1>1. /\ phase = "pick" /\ phase' = "eliminate" /\ j' = 1
      /\ groups' = groups /\ g' = g /\ perms' = perms
      /\ out_order' = Append(out_order, finalLit')
  BY DEF PickLiteral
<1>2. IsVector(perms) /\ IsVector(out_order)
  BY <1>1 DEF StabilizerInv, VectorInv, Choosing
<1>3. /\ IsVector(out_order')
      /\ Len(out_order') = Len(out_order) + 1
      /\ \A k \in 1 .. Len(out_order) : out_order'[k] = out_order[k]
      /\ out_order'[Len(out_order) + 1] = finalLit'
  BY <1>1, <1>2, AppendVector
<1>4. Len(out_order) \in Nat
  BY <1>2 DEF IsVector
<1>5. \A m \in 1 .. Len(perms), k \in 1 .. Len(out_order) :
         perms[m][out_order[k]] = out_order[k]
  BY <1>1 DEF StabilizerInv, PickInv
<1>6. EliminateInv'
  <2>1. \A m \in 1 .. Len(perms), k \in 1 .. Len(out_order') - 1 :
           perms[m][out_order'[k]] = out_order'[k]
    BY <1>3, <1>4, <1>5
  <2>2. \A m \in 1 .. Len(perms) : ~(m < 1)
    OBVIOUS
  <2>3. QED
    BY <1>1, <1>3, <1>4, <2>1, <2>2 DEF EliminateInv
<1>7. QED
  BY <1>1, <1>2, <1>3, <1>6
     DEF StabilizerInv, GroupsInv, VectorInv, PickInv, Choosing

(* The permutation at position j fixes the new literal or is erased. *)
LEMMA EliminateStep == StabilizerInv /\ Eliminate => StabilizerInv'
<1> SUFFICES ASSUME StabilizerInv, Eliminate PROVE StabilizerInv'
  OBVIOUS
<1>1. /\ phase = "eliminate" /\ phase' = phase /\ j <= Len(perms)
      /\ groups' = groups /\ g' = g
      /\ out_order' = out_order /\ finalLit' = finalLit
  BY DEF Eliminate
<1>2. IsVector(perms) /\ IsVector(out_order)
  BY <1>1 DEF StabilizerInv, VectorInv, Choosing
<1>3. /\ j \in Nat \ {0} /\ Len(out_order) > 0
      /\ out_order[Len(out_order)] = finalLit
      /\ \A m \in 1 .. Len(perms), k \in 1 .. Len(out_order) - 1 :
            perms[m][out_order[k]] = out_order[k]
      /\ \A m \in 1 .. Len(perms) : m < j => perms[m][finalLit] = finalLit
  BY <1>1 DEF StabilizerInv, EliminateInv
<1>4. Len(perms) \in Nat /\ j \in 1 .. Len(perms)
  BY <1>1, <1>2, <1>3 DEF IsVector
<1>5. IsVector(perms') /\ EliminateInv'
  <2>1. CASE Moves(perms[j], finalLit)
    <3>1. /\ j' = j
          /\ perms' = [k \in 1 .. Len(perms) - 1 |->
                         IF k = j THEN perms[Len(perms)] ELSE perms[k]]
      BY <2>1 DEF Eliminate
    <3>2. /\ IsVector(perms') /\ Len(perms') = Len(perms) - 1
          /\ \A k \in 1 .. Len(perms') :
                perms'[k] = IF k = j THEN perms[Len(perms)] ELSE perms[k]
      BY <1>2, <1>4, <3>1, EraseVector
    <3>3. \A m \in 1 .. Len(perms') :
             m \in 1 .. Len(perms) /\ Len(perms) \in 1 .. Len(perms)
      BY <1>4, <3>2
    <3>4. \A m \in 1 .. Len(perms'), k \in 1 .. Len(out_order) - 1 :
             perms'[m][out_order[k]] = out_order[k]
      BY <1>3, <3>2, <3>3
    <3>5. \A m \in 1 .. Len(perms') : m < j => perms'[m][finalLit] = finalLit
      <4> SUFFICES ASSUME NEW m \in 1 .. Len(perms'), m < j
                   PROVE  perms'[m][finalLit] = finalLit
        OBVIOUS
      <4>1. m # j /\ m \in 1 .. Len(perms)
        BY <1>4, <3>3
      <4>2. perms'[m] = perms[m]
        BY <3>2, <4>1
      <4>3. perms[m][finalLit] = finalLit
        BY <1>3, <4>1
      <4>4. QED
        BY <4>2, <4>3
    <3>6. QED
      BY <1>1, <1>3, <3>1, <3>2, <3>4, <3>5 DEF EliminateInv
  <2>2. CASE ~Moves(perms[j], finalLit)
    <3>1. perms' = perms /\ j' = j + 1
      BY <2>2 DEF Eliminate
    <3>2. perms[j][finalLit] = finalLit
      BY <2>2 DEF Moves
    <3>3. \A m \in 1 .. Len(perms) : m < j + 1 => m < j \/ m = j
      BY <1>4
    <3>4. \A m \in 1 .. Len(perms) :
             m < j + 1 => perms[m][finalLit] = finalLit
      BY <1>3, <3>2, <3>3
    <3>5. j + 1 \in Nat \ {0}
      BY <1>3
    <3>6. QED
      BY <1>1, <1>2, <1>3, <3>1, <3>4, <3>5 DEF EliminateInv
  <2>3. QED
    BY <2>1, <2>2
<1>6. QED
  BY <1>1, <1>2, <1>5
     DEF StabilizerInv, GroupsInv, VectorInv, PickInv, Choosing

(* The loop has passed all permutations. *)
LEMMA EndEliminateStep == StabilizerInv /\ EndEliminate => StabilizerInv'
<1> SUFFICES ASSUME StabilizerInv, EndEliminate PROVE StabilizerInv'
  OBVIOUS
<1>1. /\ phase = "eliminate" /\ phase' = "pick" /\ j > Len(perms)
      /\ groups' = groups /\ g' = g
      /\ perms' = perms /\ out_order' = out_order
  BY DEF EndEliminate
<1>2. IsVector(perms) /\ IsVector(out_order)
  BY <1>1 DEF StabilizerInv, VectorInv, Choosing
<1>3. /\ j \in Nat \ {0} /\ Len(out_order) > 0
      /\ out_order[Len(out_order)] = finalLit
      /\ \A m \in 1 .. Len(perms), k \in 1 .. Len(out_order) - 1 :
            perms[m][out_order[k]] = out_order[k]
      /\ \A m \in 1 .. Len(perms) : m < j => perms[m][finalLit] = finalLit
  BY <1>1 DEF StabilizerInv, EliminateInv
<1>4. Len(perms) \in Nat /\ Len(out_order) \in Nat
  BY <1>2 DEF IsVector
<1>5. \A m \in 1 .. Len(perms) : perms[m][finalLit] = finalLit
  BY <1>1, <1>3, <1>4
<1>6. \A k \in 1 .. Len(out_order) :
         k \in 1 .. Len(out_order) - 1 \/ k = Len(out_order)
  BY <1>4
<1>7. \A m \in 1 .. Len(perms), k \in 1 .. Len(out_order) :
         perms[m][out_order[k]] = out_order[k]
  BY <1>3, <1>5, <1>6
<1>8. QED
  BY <1>1, <1>2, <1>7
     DEF StabilizerInv, GroupsInv, VectorInv, PickInv, EliminateInv, Choosing

(* With no permutation left nothing can be moved. *)
LEMMA NoLiteralLeftStep == StabilizerInv /\ NoLiteralLeft => StabilizerInv'
<1> SUFFICES ASSUME StabilizerInv, NoLiteralLeft PROVE StabilizerInv'
  OBVIOUS
<1>1. /\ phase = "pick" /\ phase' = phase /\ perms' = <<>>
      /\ groups' = groups /\ g' = g /\ out_order' = out_order
  BY DEF NoLiteralLeft
<1>2. IsVector(perms') /\ Len(perms') = 0
  BY <1>1, EmptyVector
<1>3. QED
  BY <1>1, <1>2
     DEF StabilizerInv, GroupsInv, VectorInv, PickInv, EliminateInv, Choosing

(* The other steps happen outside the choice of literals or leave it as it *)
(* is.                                                                     *)
LEMMA OtherSteps ==
  StabilizerInv /\ (\/ EndBinary \/ OrderRest \/ BreakPermutation
                    \/ EndPermutations \/ BreakRowSwap \/ EncodeStep
                    \/ EndGroup \/ UNCHANGED allVars)
    => StabilizerInv'
<1> SUFFICES ASSUME StabilizerInv,
                    \/ EndBinary \/ OrderRest \/ BreakPermutation
                    \/ EndPermutations \/ BreakRowSwap \/ EncodeStep
                    \/ EndGroup \/ UNCHANGED allVars
             PROVE  StabilizerInv'
  OBVIOUS
<1>1. groups' = groups /\ g' = g
  BY DEF EndBinary, OrderRest, BreakPermutation, EndPermutations, BreakRowSwap,
         EncodeStep, EndGroup, allVars, groupVars
<1>2. CASE EndBinary \/ OrderRest \/ EndPermutations \/ EndGroup
  <2>1. phase' \in {"rest", "perms", "rows", "idle"}
    BY <1>2 DEF EndBinary, OrderRest, EndPermutations, EndGroup
  <2>2. QED
    BY <1>1, <2>1
       DEF StabilizerInv, GroupsInv, VectorInv, PickInv, EliminateInv, Choosing
<1>3. CASE BreakPermutation \/ BreakRowSwap
  <2>1. phase' \in {"perms", "rows"}
    BY <1>3 DEF BreakPermutation, BreakRowSwap
  <2>2. QED
    BY <1>1, <2>1
       DEF StabilizerInv, GroupsInv, VectorInv, PickInv, EliminateInv, Choosing
<1>4. CASE EncodeStep \/ UNCHANGED allVars
  <2>1. UNCHANGED <<phase, perms, finalLit, j, out_order>>
    BY <1>4 DEF EncodeStep, allVars, groupVars
  <2>2. QED
    BY <1>1, <2>1
       DEF StabilizerInv, GroupsInv, VectorInv, PickInv, EliminateInv, Choosing
<1>5. QED
  BY <1>2, <1>3, <1>4

(* Every step keeps it. *)
LEMMA NextStabilizer == StabilizerInv /\ [GroupNext]_allVars => StabilizerInv'
BY NextGroupStep, PickLiteralStep, EliminateStep, EndEliminateStep,
   NoLiteralLeftStep, OtherSteps DEF GroupNext

(* addBreakingClausesTo, for every list of subgroups and every choice of   *)
(* literals: a binary clause is added for an orbit of permutations that    *)
(* fix all the literals chosen before.                                     *)
THEOREM StabilizersOnly == GroupSpec => []OnlyStabilizersLeft
<1>1. StabilizerInv => OnlyStabilizersLeft
  BY DEF StabilizerInv, PickInv, OnlyStabilizersLeft, Moves
<1>2. QED
  BY InitStabilizer, NextStabilizer, <1>1, PTL DEF GroupSpec

-----------------------------------------------------------------------------
(* The literals chosen first are positive, outside the matrices and moved  *)
(* by a permutation.                                                       *)
Prefix(group, s) ==
  /\ IsOrder(s)
  /\ \A l \in ToSet(s) :
       /\ ~Sign(l) /\ l \notin LitsIn(group.matrices)
       /\ \E p \in ToSet(group.permutations) : l \in Domain(p)

(* The order of a subgroup holds a literal of every variable that a        *)
(* generator moves, and no other.                                          *)
OrderOf(group, s) ==
  /\ IsOrder(s) /\ ToSet(s) \subseteq Support(group)
  /\ \A p \in GeneratorsOf(group) : Covers(s, p)

OrderInv ==
  /\ groups \in GroupLists
  /\ g \in 0 .. Len(groups) /\ (phase # "idle" => g \in 1 .. Len(groups))
  /\ Choosing => \A k \in 1 .. Len(perms) : perms[k] \in ToSet(permutations)
  /\ Choosing \/ phase = "rest" => Prefix(groups[g], out_order)
  /\ phase \in {"perms", "rows"} => OrderOf(groups[g], out_order)

(* o is how w begins. *)
Begins(o, w) == Len(o) <= Len(w) /\ \A k \in 1 .. Len(o) : w[k] = o[k]

(* A literal and one of another variable may follow each other in an order. *)
LEMMA OrderConcat ==
  ASSUME NEW s, NEW t, IsOrder(s), IsOrder(t),
         \A x \in ToSet(s), y \in ToSet(t) : VarOf(x) # VarOf(y)
  PROVE  IsOrder(s \o t) /\ ToSet(s \o t) = ToSet(s) \cup ToSet(t)
<1>1. /\ s \in Seq(Lits) /\ t \in Seq(Lits) /\ Len(s) \in Nat /\ Len(t) \in Nat
      /\ \A m, k \in 1 .. Len(s) : m # k => VarOf(s[m]) # VarOf(s[k])
      /\ \A m, k \in 1 .. Len(t) : m # k => VarOf(t[m]) # VarOf(t[k])
      /\ \A k \in 1 .. Len(s) : s[k] \in ToSet(s)
      /\ \A k \in 1 .. Len(t) : t[k] \in ToSet(t)
  BY Elements DEF IsOrder
<1> DEFINE u == s \o t
<1>2. u \in Seq(Lits) /\ Len(u) = Len(s) + Len(t) /\ ToSet(u) = ToSet(s) \cup ToSet(t)
  BY <1>1, ConcatSet
<1>3. \A k \in 1 .. Len(u) : \/ k \in 1 .. Len(s) /\ u[k] = s[k]
                             \/ k - Len(s) \in 1 .. Len(t) /\ u[k] = t[k - Len(s)]
  BY <1>1, <1>2, ConcatProperties
<1> HIDE DEF u
<1>4. ASSUME NEW m \in 1 .. Len(u), NEW k \in 1 .. Len(u), m # k
      PROVE  VarOf(u[m]) # VarOf(u[k])
  <2>1. CASE m \in 1 .. Len(s) /\ u[m] = s[m]
    <3>1. CASE k \in 1 .. Len(s) /\ u[k] = s[k]
      BY <1>1, <1>4, <2>1, <3>1
    <3>2. CASE k - Len(s) \in 1 .. Len(t) /\ u[k] = t[k - Len(s)]
      BY <1>1, <2>1, <3>2
    <3>3. QED
      BY <1>3, <3>1, <3>2
  <2>2. CASE m - Len(s) \in 1 .. Len(t) /\ u[m] = t[m - Len(s)]
    <3>1. CASE k \in 1 .. Len(s) /\ u[k] = s[k]
      BY <1>1, <2>2, <3>1
    <3>2. CASE k - Len(s) \in 1 .. Len(t) /\ u[k] = t[k - Len(s)]
      <4>1. m - Len(s) # k - Len(s)
        BY <1>1, <1>4
      <4>2. QED
        BY <1>1, <2>2, <3>2, <4>1
    <3>3. QED
      BY <1>3, <3>1, <3>2
  <2>3. QED
    BY <1>3, <2>1, <2>2
<1>5. QED
  BY <1>2, <1>4 DEF IsOrder, u

(* A positive literal and one of the same variable are equal or opposite.   *)
LEMMA PositiveEqual ==
  ASSUME NEW x \in Lits, NEW y \in Lits, VarOf(x) = VarOf(y)
  PROVE  /\ x = y \/ (x = Neg(y) /\ y = Neg(x))
         /\ (Sign(x) <=> Sign(y)) => x = y
  BY LitFacts, SameVar, NegFacts

(* A permutation moves a literal together with its negation. *)
LEMMA DomainNeg ==
  ASSUME NEW p \in LitPerms, NEW l \in Domain(p)
  PROVE  l \in Lits /\ Neg(l) \in Domain(p) /\ p[l] \in Domain(p)
<1>1. /\ p \in [Lits -> Lits] /\ \A x, y \in Lits : p[x] = p[y] => x = y
      /\ \A x \in Lits : p[Neg(x)] = Neg(p[x])
  BY DEF LitPerms
<1>2. l \in Lits /\ p[l] # l /\ p[l] \in Lits
  BY <1>1 DEF Domain
<1>3. Neg(l) \in Lits /\ Neg(Neg(l)) = l /\ Neg(Neg(p[l])) = p[l]
  BY <1>2, LitFacts, NegFacts
<1>4. p[Neg(l)] # Neg(l) /\ p[p[l]] # p[l]
  BY <1>1, <1>2, <1>3
<1>5. QED
  BY <1>1, <1>2, <1>3, <1>4 DEF Domain

(* The order that getOrderAndAddBinaryClausesTo returns. *)
LEMMA CompleteOrder ==
  ASSUME NEW group, group \in GroupType,
         ToSet(group.permutations) \subseteq LitPerms,
         LitsIn(group.matrices) \subseteq Lits,
         \A l \in LitsIn(group.matrices) : Neg(l) \in LitsIn(group.matrices),
         \A p \in ToSet(RowSwaps(group.matrices)) :
            Domain(p) \subseteq LitsIn(group.matrices),
         NEW o, Prefix(group, o), NEW s,
         s \in SetToSeqs({l \in UNION {PosDomain(p) : p \in ToSet(group.permutations)} :
                            /\ l \notin LitsIn(group.matrices)
                            /\ l \notin ToSet(o) /\ Neg(l) \notin ToSet(o)}),
         NEW m, m = EachVariableOnce(FlattenSeq(FlattenSeq(group.matrices)))
  PROVE  OrderOf(group, o \o s \o m) /\ Begins(o, o \o s \o m)
<1> DEFINE M == LitsIn(group.matrices)
           P == ToSet(group.permutations)
           U == {l \in UNION {PosDomain(p) : p \in P} :
                   l \notin M /\ l \notin ToSet(o) /\ Neg(l) \notin ToSet(o)}
<1>1. /\ IsOrder(m) /\ ToSet(m) \subseteq M
      /\ \A l \in M : \E x \in ToSet(m) : VarOf(x) = VarOf(l)
  <2>1. group.matrices \in Seq(Seq(Seq(Lits)))
    BY DEF GroupType
  <2>2. FlattenSeq(FlattenSeq(group.matrices)) \in Seq(Lits)
        /\ ToSet(FlattenSeq(FlattenSeq(group.matrices))) = M
    BY <2>1, MatrixRows
  <2>3. PICK f \in Seq(Lits) : f = FlattenSeq(FlattenSeq(group.matrices))
    BY <2>2
  <2> HIDE DEF M
  <2>4. IsOrder(EachVariableOnce(f)) /\ ToSet(EachVariableOnce(f)) \subseteq ToSet(f)
        /\ \A l \in ToSet(f) :
              \E x \in ToSet(EachVariableOnce(f)) : VarOf(x) = VarOf(l)
    BY EachVariableOnceFacts
  <2>5. QED
    BY <2>2, <2>3, <2>4
<1>2. /\ \A p \in P : \A l \in Domain(p) : l \in Lits /\ Neg(l) \in Domain(p)
      /\ \A l \in U : l \in Lits /\ ~Sign(l) /\ \E p \in P : l \in Domain(p)
  BY DomainNeg DEF PosDomain
<1>3. IsFiniteSet(U)
  <2>1. IsFiniteSet(Lits)
    BY FS_Interval, NVarsAssumption DEF Lits
  <2>2. U \subseteq Lits
    BY <1>2
  <2>3. QED
    BY <2>1, <2>2, FS_Subset
<1>4. s \in Seq(U) /\ ToSet(s) = U /\ \A h, k \in 1 .. Len(s) : h # k => s[h] # s[k]
  <2>1. s \in SetToSeqs(U)
    OBVIOUS
  <2> HIDE DEF U
  <2>2. QED
    BY <1>3, <2>1, ListingFacts
<1>5. /\ IsOrder(o)
      /\ \A l \in ToSet(o) : ~Sign(l) /\ l \notin M /\ \E p \in P : l \in Domain(p)
  BY DEF Prefix
<1>6. ToSet(o) \subseteq Lits /\ ToSet(m) \subseteq Lits
  BY <1>1, <1>5, Elements DEF IsOrder
<1>7. \A l \in U : l \notin M /\ l \notin ToSet(o)
  OBVIOUS
<1>8. \A p \in P : \A l \in PosDomain(p) :
         l \in M \/ l \in U \/ l \in ToSet(o) \/ Neg(l) \in ToSet(o)
  OBVIOUS
<1>9. \A l \in M : Neg(l) \in M
  OBVIOUS
<1>10. \A p \in ToSet(RowSwaps(group.matrices)) : Domain(p) \subseteq M
  OBVIOUS
<1>11. M \subseteq Support(group) /\ \A p \in P : Domain(p) \subseteq Support(group)
  BY DEF Support
<1> HIDE DEF M, P, U
<1>12. IsOrder(s)
  <2>1. s \in Seq(Lits) /\ \A k \in 1 .. Len(s) : s[k] \in U
    BY <1>2, <1>4, Elements
  <2>2. \A h, k \in 1 .. Len(s) : h # k => VarOf(s[h]) # VarOf(s[k])
    BY <1>2, <1>4, <2>1, PositiveEqual
  <2>3. QED
    BY <2>1, <2>2 DEF IsOrder
<1>13. \A x \in ToSet(o), y \in U : VarOf(x) # VarOf(y)
  BY <1>2, <1>5, <1>6, <1>7, PositiveEqual
<1>14. IsOrder(o \o s) /\ ToSet(o \o s) = ToSet(o) \cup U
  BY <1>4, <1>5, <1>12, <1>13, OrderConcat
<1>15. \A x \in ToSet(o) \cup U, y \in ToSet(m) : VarOf(x) # VarOf(y)
  <2>1. SUFFICES ASSUME NEW x \in ToSet(o) \cup U, NEW y \in ToSet(m),
                        VarOf(x) = VarOf(y)
                 PROVE  FALSE
    OBVIOUS
  <2>2. x \in Lits /\ y \in Lits /\ x \notin M /\ y \in M
    BY <1>1, <1>2, <1>5, <1>6, <1>7
  <2>3. x = y \/ x = Neg(y)
    BY <2>1, <2>2, PositiveEqual
  <2>4. QED
    BY <1>9, <2>2, <2>3
<1> DEFINE w == o \o s \o m
<1>16. IsOrder(w) /\ ToSet(w) = ToSet(o) \cup U \cup ToSet(m)
  BY <1>1, <1>14, <1>15, OrderConcat
<1> HIDE DEF w
<1>17. ToSet(w) \subseteq Support(group)
  BY <1>1, <1>2, <1>5, <1>11, <1>16
<1>18. \A l \in ToSet(w) : \E k \in 1 .. Len(w) : w[k] = l
  BY <1>16, Elements DEF IsOrder
<1>19. \A l \in M : \E x \in ToSet(w) : VarOf(x) = VarOf(l)
  BY <1>1, <1>16
<1>20. ASSUME NEW p \in P, NEW l \in Domain(p)
       PROVE  \E x \in ToSet(w) : VarOf(x) = VarOf(l)
  <2>1. PICK y \in PosDomain(p) : VarOf(y) = VarOf(l)
    <3>1. l \in Lits /\ Neg(l) \in Domain(p) /\ l \in Nat
      BY <1>2, LitFacts
    <3>2. VarOf(Neg(l)) = VarOf(l) /\ (Sign(Neg(l)) <=> ~Sign(l))
      BY <3>1, NegFacts
    <3>3. QED
      BY <3>1, <3>2 DEF PosDomain
  <2>2. y \in Nat
    BY <1>2, LitFacts DEF PosDomain
  <2>3. VarOf(Neg(y)) = VarOf(y)
    BY <2>2, NegFacts
  <2>4. CASE y \in M
    BY <1>19, <2>1, <2>4
  <2>5. CASE y \notin M
    BY <1>8, <1>16, <2>1, <2>3, <2>5
  <2>6. QED
    BY <2>4, <2>5
<1>21. \A p \in GeneratorsOf(group) : \A l \in Domain(p) :
          \E x \in ToSet(w) : VarOf(x) = VarOf(l)
  BY <1>10, <1>19, <1>20 DEF GeneratorsOf, P
<1>22. \A p \in GeneratorsOf(group) : Covers(w, p)
  BY <1>18, <1>21 DEF Covers
<1>23. Begins(o, w)
  <2>1. o \in Seq(Lits) /\ s \in Seq(Lits) /\ m \in Seq(Lits)
    BY <1>1, <1>5, <1>12 DEF IsOrder
  <2>2. Len(w) = Len(o) + Len(s) + Len(m) /\ \A k \in 1 .. Len(o) : w[k] = o[k]
    BY <2>1 DEF w
  <2>3. QED
    BY <2>1, <2>2 DEF Begins
<1>24. QED
  BY <1>16, <1>17, <1>22, <1>23 DEF OrderOf, w

-----------------------------------------------------------------------------
(* No order is under construction between two subgroups. *)
LEMMA InitOrder == GroupInit => OrderInv
BY DEF GroupInit, OrderInv, Choosing

(* The order of the next subgroup is empty. *)
LEMMA NextGroupOrder == OrderInv /\ NextGroup => OrderInv'
<1> SUFFICES ASSUME OrderInv, NextGroup PROVE OrderInv'
  OBVIOUS
<1>1. /\ groups \in GroupLists /\ groups' = groups /\ g' = g + 1
      /\ g \in 0 .. Len(groups) /\ g < Len(groups)
      /\ out_order' = <<>> /\ phase' \in {"pick", "rest"}
      /\ phase' = "pick" => perms' = groups[g + 1].permutations
  BY DEF OrderInv, NextGroup
<1>2. groups \in Seq(GroupType)
  BY <1>1, GroupListsAssumption
<1>3. g' \in 1 .. Len(groups)
  BY <1>1, <1>2
<1>4. Choosing' => \A k \in 1 .. Len(perms') : perms'[k] \in ToSet(permutations')
  <2>1. groups[g + 1] \in GroupType
    BY <1>1, <1>2, <1>3
  <2>2. groups[g + 1].permutations \in Seq(Symmetries)
    BY <2>1 DEF GroupType
  <2>3. permutations' = groups[g + 1].permutations
    BY <1>1 DEF permutations
  <2>4. Choosing' => perms' = permutations'
    BY <1>1, <2>3 DEF Choosing
  <2>5. \A k \in 1 .. Len(permutations') : permutations'[k] \in ToSet(permutations')
    BY <2>2, <2>3, Elements
  <2>6. QED
    BY <2>4, <2>5
<1>5. Prefix(groups'[g'], out_order')
  <2>1. IsOrder(<<>>) /\ ToSet(<<>>) = {}
    BY DEF IsOrder, ToSet
  <2>2. QED
    BY <1>1, <2>1 DEF Prefix
<1>6. g' \in 0 .. Len(groups)
  BY <1>2, <1>3
<1>7. QED
  BY <1>1, <1>3, <1>4, <1>5, <1>6 DEF OrderInv

(* A literal is chosen that a permutation moves, while the permutations    *)
(* fix all literals chosen before: its variable is a new one.              *)
LEMMA PickLiteralOrder == StabilizerInv /\ OrderInv /\ PickLiteral => OrderInv'
<1> SUFFICES ASSUME StabilizerInv, OrderInv, PickLiteral PROVE OrderInv'
  OBVIOUS
<1>1. /\ groups \in GroupLists /\ groups' = groups /\ g' = g
      /\ g \in 1 .. Len(groups) /\ g \in 0 .. Len(groups)
      /\ perms' = perms /\ phase = "pick" /\ phase' = "eliminate"
      /\ \A k \in 1 .. Len(perms) : perms[k] \in ToSet(permutations)
      /\ Prefix(groups[g], out_order)
  BY DEF OrderInv, PickLiteral, Choosing
<1>2. PICK c \in Picks(perms) : c.lit # Undef /\ out_order' = Append(out_order, c.lit)
  BY DEF PickLiteral
<1> DEFINE group == groups[g]
           l == c.lit
<1>3. ToSet(group.permutations) \subseteq LitPerms
  BY <1>1, GroupFacts
<1>4. perms \in Seq(LitPerms)
  <2>1. Len(perms) \in Nat /\ perms = [k \in 1 .. Len(perms) |-> perms[k]]
    BY <1>1 DEF StabilizerInv, VectorInv, Choosing, IsVector
  <2>2. \A k \in 1 .. Len(perms) : perms[k] \in LitPerms
    BY <1>1, <1>3 DEF permutations
  <2>3. perms \in [1 .. Len(perms) -> LitPerms]
    BY <2>1, <2>2
  <2>4. QED
    BY <2>1, <2>3
<1>5. /\ l \notin MatrixLits
      /\ \E k \in 1 .. Len(perms) : l \in PosDomain(perms[k])
  BY <1>2, <1>4, PickFacts
<1>6. PICK k \in 1 .. Len(perms) : l \in PosDomain(perms[k])
  BY <1>5
<1> DEFINE p == perms[k]
<1>7. /\ p \in ToSet(group.permutations) /\ p \in LitPerms
      /\ l \in Domain(p) /\ ~Sign(l) /\ l \in Lits
      /\ l \notin LitsIn(group.matrices)
  <2>1. p \in ToSet(group.permutations) /\ p \in LitPerms
    BY <1>1, <1>3 DEF permutations
  <2>2. l \in Domain(p) /\ ~Sign(l)
    BY <1>6 DEF PosDomain
  <2>3. l \in Lits
    BY <2>1, <2>2, DomainNeg
  <2>4. QED
    BY <1>5, <2>1, <2>2, <2>3 DEF MatrixLits, matrices
<1>8. \A m \in 1 .. Len(out_order) : p[out_order[m]] = out_order[m]
  BY <1>1 DEF StabilizerInv, PickInv
<1>9. p[l] # l
  BY <1>7 DEF Domain
<1> HIDE DEF l, p, group
<1>10. IsOrder(out_order) /\ out_order \in Seq(Lits)
  BY <1>1 DEF Prefix, IsOrder
<1>11. l \notin ToSet(out_order)
  BY <1>8, <1>9, <1>10, Elements
<1>12. Neg(l) \notin ToSet(out_order)
  <2>1. Sign(Neg(l))
    BY <1>7, LitFacts, NegFacts
  <2>2. \A x \in ToSet(out_order) : ~Sign(x)
    BY <1>1 DEF Prefix
  <2>3. QED
    BY <2>1, <2>2
<1>13. out_order' = Take(out_order, l)
  BY <1>2, <1>11, <1>12 DEF Take, l
<1>14. IsOrder(out_order') /\ ToSet(out_order') \subseteq ToSet(out_order) \cup {l}
  BY <1>7, <1>10, <1>13, TakeFacts
<1>15. Prefix(group, out_order')
  BY <1>1, <1>7, <1>14 DEF Prefix, group
<1>16. permutations' = permutations
  BY <1>1 DEF permutations
<1>17. QED
  BY <1>1, <1>15, <1>16 DEF OrderInv, Choosing, group

(* Nothing but permutations of the subgroup is left. *)
LEMMA EliminateOrder == StabilizerInv /\ OrderInv /\ Eliminate => OrderInv'
<1> SUFFICES ASSUME StabilizerInv, OrderInv, Eliminate PROVE OrderInv'
  OBVIOUS
<1>1. /\ phase = "eliminate" /\ UNCHANGED <<groups, g, phase, out_order>>
      /\ j <= Len(perms)
      /\ \A k \in 1 .. Len(perms) : perms[k] \in ToSet(permutations)
  BY DEF OrderInv, Eliminate, Choosing
<1>2. IsVector(perms) /\ j \in Nat \ {0}
  BY <1>1 DEF StabilizerInv, VectorInv, EliminateInv, Choosing
<1>3. Len(perms) \in Nat /\ j \in 1 .. Len(perms)
  BY <1>1, <1>2 DEF IsVector
<1>4. \A k \in 1 .. Len(perms') : perms'[k] \in ToSet(permutations)
  <2>1. CASE Moves(perms[j], finalLit)
    <3>1. perms' = [k \in 1 .. Len(perms) - 1 |->
                      IF k = j THEN perms[Len(perms)] ELSE perms[k]]
      BY <2>1 DEF Eliminate
    <3>2. /\ Len(perms') = Len(perms) - 1
          /\ \A k \in 1 .. Len(perms') :
                perms'[k] = IF k = j THEN perms[Len(perms)] ELSE perms[k]
      BY <1>2, <1>3, <3>1, EraseVector
    <3>3. QED
      BY <1>1, <1>3, <3>2
  <2>2. CASE ~Moves(perms[j], finalLit)
    BY <1>1, <2>2 DEF Eliminate
  <2>3. QED
    BY <2>1, <2>2
<1>5. permutations' = permutations
  BY <1>1 DEF permutations
<1>6. QED
  BY <1>1, <1>4, <1>5 DEF OrderInv, Choosing

(* The rest of the literals complete the order. *)
LEMMA RestOrdered ==
  ASSUME OrderInv, OrderRest
  PROVE  OrderOf(groups[g], out_order') /\ Begins(out_order, out_order')
<1>1. /\ groups \in GroupLists /\ g \in 1 .. Len(groups)
      /\ Prefix(groups[g], out_order)
  BY DEF OrderInv, OrderRest
<1>2. PICK s \in SetToSeqs(Unordered) : out_order' = out_order \o s \o MatrixOrder
  BY DEF OrderRest
<1> DEFINE group == groups[g]
<1>3. /\ group \in GroupType
      /\ ToSet(group.permutations) \subseteq LitPerms
      /\ LitsIn(group.matrices) \subseteq Lits
      /\ \A l \in LitsIn(group.matrices) : Neg(l) \in LitsIn(group.matrices)
      /\ \A p \in ToSet(RowSwaps(group.matrices)) :
            Domain(p) \subseteq LitsIn(group.matrices)
  BY <1>1, GroupFacts
<1>4. Unordered = {l \in UNION {PosDomain(p) : p \in ToSet(group.permutations)} :
                     /\ l \notin LitsIn(group.matrices)
                     /\ l \notin ToSet(out_order) /\ Neg(l) \notin ToSet(out_order)}
  BY DEF Unordered, permutations, MatrixLits, matrices
<1>5. MatrixOrder = EachVariableOnce(FlattenSeq(FlattenSeq(group.matrices)))
  BY DEF MatrixOrder, matrices
<1> HIDE DEF group
<1>6. s \in SetToSeqs({l \in UNION {PosDomain(p) : p \in ToSet(group.permutations)} :
                     /\ l \notin LitsIn(group.matrices)
                     /\ l \notin ToSet(out_order) /\ Neg(l) \notin ToSet(out_order)})
  BY <1>4
<1>7. Prefix(group, out_order)
  BY <1>1 DEF group
<1>8. /\ OrderOf(group, out_order \o s \o MatrixOrder)
      /\ Begins(out_order, out_order \o s \o MatrixOrder)
  BY <1>3, <1>5, <1>6, <1>7, CompleteOrder
<1>9. QED
  BY <1>2, <1>8 DEF group

(* With it the breaking of the subgroup may begin. *)
LEMMA OrderRestOrder == OrderInv /\ OrderRest => OrderInv'
BY RestOrdered DEF OrderInv, OrderRest, Choosing

(* The other steps leave the order as it is. *)
LEMMA OtherOrder ==
  OrderInv /\ (\/ NoLiteralLeft \/ EndBinary \/ EndEliminate \/ BreakPermutation
               \/ EndPermutations \/ BreakRowSwap \/ EncodeStep \/ EndGroup
               \/ UNCHANGED allVars)
    => OrderInv'
<1> SUFFICES ASSUME OrderInv,
                    \/ NoLiteralLeft \/ EndBinary \/ EndEliminate \/ BreakPermutation
                    \/ EndPermutations \/ BreakRowSwap \/ EncodeStep \/ EndGroup
                    \/ UNCHANGED allVars
             PROVE  OrderInv'
  OBVIOUS
<1>1. UNCHANGED <<groups, g, out_order>> /\ permutations' = permutations
  BY DEF NoLiteralLeft, EndBinary, EndEliminate, BreakPermutation, EndPermutations,
         BreakRowSwap, EncodeStep, EndGroup, allVars, groupVars, permutations
<1>2. CASE NoLiteralLeft
  BY <1>1, <1>2 DEF OrderInv, NoLiteralLeft, Choosing
<1>3. CASE EndBinary \/ EndEliminate
  BY <1>1, <1>3 DEF OrderInv, EndBinary, EndEliminate, Choosing
<1>4. CASE EndPermutations \/ EndGroup
  BY <1>1, <1>4 DEF OrderInv, EndPermutations, EndGroup, Choosing
<1>5. CASE BreakPermutation \/ BreakRowSwap \/ EncodeStep \/ UNCHANGED allVars
  <2>1. UNCHANGED <<phase, perms>>
    BY <1>5 DEF BreakPermutation, BreakRowSwap, EncodeStep, allVars, groupVars
  <2>2. QED
    BY <1>1, <2>1 DEF OrderInv, Choosing
<1>6. QED
  BY <1>2, <1>3, <1>4, <1>5

(* All steps together. *)
LEMMA NextOrder == StabilizerInv /\ OrderInv /\ [GroupNext]_allVars => OrderInv'
BY NextGroupOrder, PickLiteralOrder, EliminateOrder, OrderRestOrder, OtherOrder
   DEF GroupNext

(* "The order is a list of literals, such that for each literal l, neg(l)  *)
(* is not in the order": whatever literals are picked on the way, it has   *)
(* exactly one literal of every variable that a permutation or a row swap  *)
(* of the subgroup moves.                                                  *)
THEOREM OrderFound == GroupSpec => []OrderComplete
<1>1. OrderInv => OrderComplete
  BY DEF OrderInv, OrderOf, OrderComplete, GeneratorsOf, permutations, matrices
<1>2. QED
  BY InitStabilizer, InitOrder, NextStabilizer, NextOrder, <1>1, PTL DEF GroupSpec
=============================================================================
