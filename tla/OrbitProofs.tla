---------------------------- MODULE OrbitProofs ----------------------------
(***************************************************************************)
(* For every set of elements: the lists of class Orbit are the classes of  *)
(* a partition, each with its least element in front, after any sequence   *)
(* of merges; merging joins the two classes and touches no other one.      *)
(***************************************************************************)
EXTENDS Orbit, TLAPS

Elems(s) == {s[k] : k \in 1 .. Len(s)}

(* The list an element is in. *)
ListOf(o, e) == o.list[o.in_orbit[e]]

(* Every element finds its own list, all elements of a list find the same  *)
(* one, and none of them is less than the first.                           *)
WellFormed(o, S) ==
  /\ o = [list |-> o.list, in_orbit |-> o.in_orbit, nof_orbits |-> o.nof_orbits]
  /\ o.in_orbit \in [S -> S]
  /\ o.list \in [S -> Seq(S)]
  /\ \A e \in S : e \in Elems(ListOf(o, e))
  /\ \A e \in S : \A x \in Elems(ListOf(o, e)) : o.in_orbit[x] = o.in_orbit[e]
  /\ \A e \in S : \A x \in Elems(ListOf(o, e)) : ListOf(o, e)[1] <= x

(* The lists of e1 and e2 have become one, the others are as before. *)
OneJoined(o, n, e1, e2, S) ==
  \A e \in S :
    Elems(ListOf(n, e)) =
      IF e \in Elems(ListOf(o, e1)) \cup Elems(ListOf(o, e2))
      THEN Elems(ListOf(o, e1)) \cup Elems(ListOf(o, e2))
      ELSE Elems(ListOf(o, e))

(* The joined list of merge_orbits. *)
Joined(s, l) == IF s[1] < l[1] THEN <<s[1], l[1]>> \o Tail(s) \o Tail(l)
                ELSE <<l[1]>> \o s \o Tail(l)

-----------------------------------------------------------------------------
(* The tail of a list holds all elements but the first. *)
LEMMA ElemsTail ==
  ASSUME NEW S, NEW s \in Seq(S), Len(s) > 0
  PROVE  /\ Tail(s) \in Seq(S)
         /\ Elems(s) = {s[1]} \cup Elems(Tail(s))
<1>1. /\ Tail(s) \in Seq(S) /\ Len(s) \in Nat /\ Len(Tail(s)) = Len(s) - 1
      /\ \A k \in 1 .. Len(s) - 1 : Tail(s)[k] = s[k + 1]
  OBVIOUS
<1>2. Elems(s) \subseteq {s[1]} \cup Elems(Tail(s))
  <2>1. \A k \in 1 .. Len(s) :
           k = 1 \/ (k - 1 \in 1 .. Len(Tail(s)) /\ Tail(s)[k - 1] = s[k])
    BY <1>1
  <2>2. QED
    BY <2>1 DEF Elems
<1>3. {s[1]} \cup Elems(Tail(s)) \subseteq Elems(s)
  <2>1. \A k \in 1 .. Len(Tail(s)) :
           k + 1 \in 1 .. Len(s) /\ Tail(s)[k] = s[k + 1]
    BY <1>1
  <2>2. 1 \in 1 .. Len(s)
    BY <1>1
  <2>3. QED
    BY <2>1, <2>2 DEF Elems
<1>4. QED
  BY <1>1, <1>2, <1>3

(* A concatenation holds the elements of both lists. *)
LEMMA ElemsConcat ==
  ASSUME NEW S, NEW s \in Seq(S), NEW t \in Seq(S)
  PROVE  s \o t \in Seq(S) /\ Elems(s \o t) = Elems(s) \cup Elems(t)
<1>1. /\ s \o t \in Seq(S) /\ Len(s) \in Nat /\ Len(t) \in Nat
      /\ Len(s \o t) = Len(s) + Len(t)
      /\ \A k \in 1 .. Len(s) : (s \o t)[k] = s[k]
      /\ \A k \in 1 .. Len(t) : (s \o t)[Len(s) + k] = t[k]
  OBVIOUS
<1>2. Elems(s \o t) \subseteq Elems(s) \cup Elems(t)
  <2>1. \A k \in 1 .. Len(s \o t) :
           \/ k \in 1 .. Len(s)
           \/ k - Len(s) \in 1 .. Len(t) /\ k = Len(s) + (k - Len(s))
    BY <1>1
  <2>2. QED
    BY <1>1, <2>1 DEF Elems
<1>3. Elems(s) \cup Elems(t) \subseteq Elems(s \o t)
  <2>1. \A k \in 1 .. Len(s) : k \in 1 .. Len(s \o t)
    BY <1>1
  <2>2. \A k \in 1 .. Len(t) : Len(s) + k \in 1 .. Len(s \o t)
    BY <1>1
  <2>3. QED
    BY <1>1, <2>1, <2>2 DEF Elems
<1>4. QED
  BY <1>1, <1>2, <1>3

(* It begins as its first list does. *)
LEMMA ConcatFirst ==
  ASSUME NEW S, NEW s \in Seq(S), NEW t \in Seq(S), Len(s) > 0
  PROVE  (s \o t)[1] = s[1] /\ Len(s \o t) > 0
OBVIOUS

(* The list has the elements of both, the least of the two firsts in       *)
(* front.                                                                  *)
LEMMA JoinedFacts ==
  ASSUME NEW S, NEW s \in Seq(S), NEW l \in Seq(S), Len(s) > 0, Len(l) > 0
  PROVE  /\ Joined(s, l) \in Seq(S)
         /\ Elems(Joined(s, l)) = Elems(s) \cup Elems(l)
         /\ Joined(s, l)[1] = IF s[1] < l[1] THEN s[1] ELSE l[1]
<1>1. /\ Tail(s) \in Seq(S) /\ Elems(s) = {s[1]} \cup Elems(Tail(s))
      /\ Tail(l) \in Seq(S) /\ Elems(l) = {l[1]} \cup Elems(Tail(l))
  BY ElemsTail
<1>0. Tail(s) \in Seq(S) /\ Tail(l) \in Seq(S)
  BY <1>1
<1>2. s[1] \in S /\ l[1] \in S
  OBVIOUS
<1>3. CASE s[1] < l[1]
  <2> DEFINE two == <<s[1], l[1]>>
  <2>0. two \in Seq(S)
    BY <1>2
  <2>1. /\ two \in Seq(S) /\ Len(two) = 2 /\ two[1] = s[1] /\ two[2] = l[1]
    BY <1>2
  <2>2. Elems(two) = {s[1], l[1]}
    <3>1. 1 .. Len(two) = {1, 2}
      BY <2>1
    <3>2. QED
      BY <2>1, <3>1 DEF Elems
  <2> HIDE DEF two
  <2>3. /\ two \o Tail(s) \in Seq(S)
        /\ Elems(two \o Tail(s)) = Elems(two) \cup Elems(Tail(s))
    BY <1>0, <2>0, ElemsConcat, Zenon
  <2>4. /\ (two \o Tail(s)) \o Tail(l) \in Seq(S)
        /\ Elems((two \o Tail(s)) \o Tail(l)) =
             Elems(two \o Tail(s)) \cup Elems(Tail(l))
    <3>1. two \o Tail(s) \in Seq(S)
      BY <2>3
    <3>2. QED
      BY <1>0, <3>1, ElemsConcat, Zenon
  <2>5. ((two \o Tail(s)) \o Tail(l))[1] = s[1]
    <3>1. Len(two) > 0
      BY <2>1
    <3>2. (two \o Tail(s))[1] = two[1] /\ Len(two \o Tail(s)) > 0
      BY <1>1, <2>1, <3>1, ConcatFirst, Zenon
    <3>3. ((two \o Tail(s)) \o Tail(l))[1] = (two \o Tail(s))[1]
      BY <1>1, <2>3, <3>2, ConcatFirst, Zenon
    <3>4. QED
      BY <2>1, <3>2, <3>3, Zenon
  <2>6. Joined(s, l) = (two \o Tail(s)) \o Tail(l)
    BY <1>3 DEF Joined, two
  <2>7. QED
    BY <1>1, <1>3, <2>2, <2>3, <2>4, <2>5, <2>6
<1>4. CASE ~(s[1] < l[1])
  <2> DEFINE one == <<l[1]>>
  <2>1. one \in Seq(S) /\ Len(one) = 1 /\ one[1] = l[1]
    BY <1>2
  <2>2. Elems(one) = {l[1]}
    <3>1. 1 .. Len(one) = {1}
      BY <2>1
    <3>2. QED
      BY <2>1, <3>1 DEF Elems
  <2> HIDE DEF one
  <2>3. one \o s \in Seq(S) /\ Elems(one \o s) = Elems(one) \cup Elems(s)
    BY <2>1, ElemsConcat, Zenon
  <2>4. /\ (one \o s) \o Tail(l) \in Seq(S)
        /\ Elems((one \o s) \o Tail(l)) = Elems(one \o s) \cup Elems(Tail(l))
    <3>1. one \o s \in Seq(S)
      BY <2>3
    <3>2. QED
      BY <1>0, <3>1, ElemsConcat, Zenon
  <2>5. ((one \o s) \o Tail(l))[1] = l[1]
    <3>1. Len(one) > 0
      BY <2>1
    <3>2. (one \o s)[1] = one[1] /\ Len(one \o s) > 0
      BY <2>1, <3>1, ConcatFirst, Zenon
    <3>3. ((one \o s) \o Tail(l))[1] = (one \o s)[1]
      BY <1>1, <2>3, <3>2, ConcatFirst, Zenon
    <3>4. QED
      BY <2>1, <3>2, <3>3, Zenon
  <2>6. Joined(s, l) = (one \o s) \o Tail(l)
    BY <1>4 DEF Joined, one
  <2>7. QED
    BY <1>1, <1>4, <2>2, <2>3, <2>4, <2>5, <2>6
<1>5. QED
  BY <1>3, <1>4

-----------------------------------------------------------------------------
(* merge_orbits of two different lists: all elements of both are in the    *)
(* joined list, every other element stays where it was.                    *)
LEMMA MergeHeadsFacts ==
  ASSUME NEW S, S \subseteq Int, NEW o, WellFormed(o, S),
         NEW e1 \in S, NEW e2 \in S, o.in_orbit[e1] # o.in_orbit[e2],
         NEW n, n = MergeHeads(o, o.in_orbit[e1], o.in_orbit[e2])
  PROVE  WellFormed(n, S) /\ OneJoined(o, n, e1, e2, S)
<1> DEFINE h1 == o.in_orbit[e1]
           h2 == o.in_orbit[e2]
           swap == Len(o.list[h1]) > Len(o.list[h2])
           es == IF swap THEN e2 ELSE e1
           el == IF swap THEN e1 ELSE e2
           s == ListOf(o, es)
           l == ListOf(o, el)
           large == o.in_orbit[el]
<1>1. /\ es \in S /\ el \in S /\ o.in_orbit[es] # large
      /\ Elems(s) \cup Elems(l) = Elems(ListOf(o, e1)) \cup Elems(ListOf(o, e2))
  OBVIOUS
<1>2. /\ n = [list |-> n.list, in_orbit |-> n.in_orbit,
              nof_orbits |-> n.nof_orbits]
      /\ n.list = [o.list EXCEPT ![large] = Joined(s, l)]
      /\ n.in_orbit = [e \in S |-> IF \E k \in DOMAIN s : s[k] = e
                                   THEN large ELSE o.in_orbit[e]]
  <2>1. /\ DOMAIN o.in_orbit = S
        /\ o = [list |-> o.list, in_orbit |-> o.in_orbit,
                nof_orbits |-> o.nof_orbits]
    BY DEF WellFormed
  <2>2. n = [o EXCEPT !.list[large] = Joined(s, l),
                      !.in_orbit = [e \in DOMAIN @ |->
                         IF \E k \in DOMAIN s : s[k] = e THEN large ELSE @[e]],
                      !.nof_orbits = @ - 1]
    <3>1. CASE swap
      BY <3>1, Zenon DEF MergeHeads, Joined, ListOf
    <3>2. CASE ~swap
      BY <3>2, Zenon DEF MergeHeads, Joined, ListOf
    <3>3. QED
      BY <3>1, <3>2, Zenon
  <2> HIDE DEF s, l, large
  <2>3. QED
    BY <2>1, <2>2
<1> HIDE DEF es, el
<1>3. /\ s \in Seq(S) /\ l \in Seq(S) /\ large \in S
      /\ o.in_orbit \in [S -> S] /\ o.list \in [S -> Seq(S)]
  BY <1>1 DEF WellFormed, ListOf
<1>4. /\ \A x \in Elems(s) : x \in S /\ o.in_orbit[x] = o.in_orbit[es] /\ s[1] <= x
      /\ \A x \in Elems(l) : x \in S /\ o.in_orbit[x] = large /\ l[1] <= x
      /\ Len(s) > 0 /\ Len(l) > 0
  <2>1. \A t \in Seq(S) : \A x \in Elems(t) : x \in S /\ Len(t) > 0
    BY DEF Elems
  <2>2. es \in Elems(s) /\ el \in Elems(l)
    BY <1>1 DEF WellFormed
  <2>3. QED
    BY <1>1, <1>3, <2>1, <2>2 DEF WellFormed
<1>5. \A e \in S : o.in_orbit[e] = large => e \in Elems(l)
  <2> SUFFICES ASSUME NEW e \in S, o.in_orbit[e] = large PROVE e \in Elems(l)
    OBVIOUS
  <2>1. e \in Elems(ListOf(o, e)) /\ ListOf(o, e) = l
    BY DEF WellFormed, ListOf
  <2>2. QED
    BY <2>1
<1>6. \A e \in S : o.in_orbit[e] = o.in_orbit[es] => e \in Elems(s)
  <2> SUFFICES ASSUME NEW e \in S, o.in_orbit[e] = o.in_orbit[es]
               PROVE  e \in Elems(s)
    OBVIOUS
  <2>1. e \in Elems(ListOf(o, e)) /\ ListOf(o, e) = s
    BY DEF WellFormed, ListOf
  <2>2. QED
    BY <2>1
<1> DEFINE both == Elems(s) \cup Elems(l)
           joined == Joined(s, l)
<1>7. /\ joined \in Seq(S) /\ Elems(joined) = both
      /\ joined[1] = IF s[1] < l[1] THEN s[1] ELSE l[1]
  BY <1>3, <1>4, JoinedFacts
<1> HIDE DEF s, l, large, joined
<1>8. \A x \in both : joined[1] <= x
  <2>1. \A t \in Seq(S) : Len(t) > 0 => t[1] \in Int
    <3>1. \A t \in Seq(S) : Len(t) > 0 => t[1] \in S
      OBVIOUS
    <3>2. QED
      BY <3>1
  <2>2. s[1] \in Int /\ l[1] \in Int
    BY <1>3, <1>4, <2>1
  <2>3. \A x \in both : x \in Int /\ (s[1] <= x \/ l[1] <= x)
    BY <1>4
  <2>4. joined[1] \in Int /\ joined[1] <= s[1] /\ joined[1] <= l[1]
    BY <1>7, <2>2
  <2>5. QED
    BY <2>2, <2>3, <2>4
<1>9. \A e \in S : n.in_orbit[e] = IF e \in both THEN large ELSE o.in_orbit[e]
  <2>1. \A e : (\E k \in DOMAIN s : s[k] = e) <=> e \in Elems(s)
    <3>1. DOMAIN s = 1 .. Len(s)
      BY <1>3
    <3>2. QED
      BY <3>1 DEF Elems
  <2>2. QED
    BY <1>2, <1>4, <2>1
<1>10. \A e \in S : ListOf(n, e) = IF e \in both THEN joined ELSE ListOf(o, e)
  <2> SUFFICES ASSUME NEW e \in S
               PROVE  ListOf(n, e) = IF e \in both THEN joined ELSE ListOf(o, e)
    OBVIOUS
  <2>1. CASE e \in both
    BY <1>2, <1>3, <1>9, <2>1 DEF ListOf, joined
  <2>2. CASE e \notin both
    <3>1. n.in_orbit[e] = o.in_orbit[e] /\ o.in_orbit[e] # large
      BY <1>5, <1>9, <2>2
    <3>2. QED
      BY <1>2, <1>3, <2>2, <3>1 DEF ListOf
  <2>3. QED
    BY <2>1, <2>2
<1>11. n.in_orbit \in [S -> S] /\ n.list \in [S -> Seq(S)]
  <2>1. joined \in Seq(S) /\ n.list = [o.list EXCEPT ![large] = joined]
    BY <1>2, <1>7 DEF joined
  <2>2. n.list \in [S -> Seq(S)]
    BY <1>3, <2>1
  <2>3. n.in_orbit = [e \in S |-> IF \E k \in DOMAIN s : s[k] = e
                                  THEN large ELSE o.in_orbit[e]]
    BY <1>2
  <2>4. n.in_orbit \in [S -> S]
    BY <1>3, <2>3
  <2>5. QED
    BY <2>2, <2>4
<1>12. \A e \in S : e \in Elems(ListOf(n, e))
  BY <1>7, <1>10 DEF WellFormed
<1>13. ASSUME NEW e \in S, NEW x \in Elems(ListOf(n, e))
       PROVE  n.in_orbit[x] = n.in_orbit[e] /\ ListOf(n, e)[1] <= x
  <2>1. CASE e \in both
    <3>1. x \in both /\ x \in S
      BY <1>4, <1>7, <1>10, <1>13, <2>1
    <3>2. QED
      BY <1>8, <1>9, <1>10, <1>13, <2>1, <3>1
  <2>2. CASE e \notin both
    <3>1. ListOf(n, e) = ListOf(o, e) /\ n.in_orbit[e] = o.in_orbit[e]
      BY <1>9, <1>10, <2>2
    <3>2. x \in Elems(ListOf(o, e)) /\ o.in_orbit[x] = o.in_orbit[e]
          /\ ListOf(o, e)[1] <= x
      BY <1>13, <3>1 DEF WellFormed
    <3>3. ListOf(o, e) \in Seq(S)
      BY <1>3 DEF ListOf
    <3>4. x \in S
      BY <3>2, <3>3 DEF Elems
    <3>5. x \notin both
      BY <1>4, <1>5, <1>6, <2>2, <3>2
    <3>6. QED
      BY <1>9, <3>1, <3>2, <3>4, <3>5
  <2>3. QED
    BY <2>1, <2>2
<1>14. WellFormed(n, S)
  BY <1>2, <1>11, <1>12, <1>13 DEF WellFormed
<1>15. \A e \in S : Elems(ListOf(n, e)) = IF e \in both THEN both
                                          ELSE Elems(ListOf(o, e))
  BY <1>7, <1>10
<1>16. QED
  BY <1>1, <1>14, <1>15 DEF OneJoined

-----------------------------------------------------------------------------
(* The orbits of class Orbit start as single elements. *)
THEOREM ResetOrbits ==
  ASSUME NEW S, S \subseteq Int
  PROVE  /\ WellFormed(OrbitReset(S), S)
         /\ \A e \in S : OrbitOf(OrbitReset(S), e) = {e}
<1> DEFINE o == OrbitReset(S)
<1>1. /\ o = [list |-> o.list, in_orbit |-> o.in_orbit,
              nof_orbits |-> o.nof_orbits]
      /\ o.in_orbit = [e \in S |-> e] /\ o.list = [e \in S |-> <<e>>]
  BY DEF OrbitReset
<1>2. \A e \in S : o.in_orbit[e] = e /\ ListOf(o, e) = <<e>>
  BY <1>1 DEF ListOf
<1>3. \A e \in S : /\ <<e>> \in Seq(S) /\ <<e>>[1] = e
                   /\ Elems(<<e>>) = {e} /\ ToSet(<<e>>) = {e}
  BY DEF Elems, ToSet
<1>4. \A e \in S : e <= e
  OBVIOUS
<1> HIDE DEF o
<1>5. WellFormed(o, S)
  <2>1. o.in_orbit \in [S -> S] /\ o.list \in [S -> Seq(S)]
    BY <1>1, <1>3
  <2>2. QED
    BY <1>1, <1>2, <1>3, <1>4, <2>1 DEF WellFormed
<1>6. QED
  BY <1>2, <1>3, <1>5 DEF OrbitOf, ListOf, o

(* merge_orbits, for any two elements: what was a partition with least     *)
(* elements in front stays one; the two orbits become one orbit, every     *)
(* other orbit stays as it is; and the minimal representative is the least *)
(* element of the orbit, on which the pruning by orbits relies.            *)
THEOREM MergeKeepsPartition ==
  ASSUME NEW S, S \subseteq Int, NEW o, WellFormed(o, S),
         NEW e1 \in S, NEW e2 \in S,
         NEW n, n = MergeOrbits(o, e1, e2)
  PROVE  /\ WellFormed(n, S)
         /\ \A e \in S :
              /\ OrbitOf(n, e) = IF e \in OrbitOf(o, e1) \cup OrbitOf(o, e2)
                                 THEN OrbitOf(o, e1) \cup OrbitOf(o, e2)
                                 ELSE OrbitOf(o, e)
              /\ MinimalRepresentative(n, e) \in OrbitOf(n, e)
              /\ \A x \in OrbitOf(n, e) : MinimalRepresentative(n, e) <= x
<1>1. ASSUME NEW q, WellFormed(q, S), NEW e \in S
      PROVE  /\ OrbitOf(q, e) = Elems(ListOf(q, e))
             /\ MinimalRepresentative(q, e) \in OrbitOf(q, e)
             /\ \A x \in OrbitOf(q, e) : MinimalRepresentative(q, e) <= x
  <2>1. ListOf(q, e) \in Seq(S)
    BY <1>1 DEF WellFormed, ListOf
  <2>2. OrbitOf(q, e) = Elems(ListOf(q, e))
    <3>1. DOMAIN ListOf(q, e) = 1 .. Len(ListOf(q, e))
      BY <2>1
    <3>2. QED
      BY <3>1 DEF OrbitOf, ToSet, Elems, ListOf
  <2>3. 1 \in 1 .. Len(ListOf(q, e))
    <3>1. e \in Elems(ListOf(q, e))
      BY <1>1 DEF WellFormed
    <3>2. QED
      BY <2>1, <3>1 DEF Elems
  <2>4. MinimalRepresentative(q, e) = ListOf(q, e)[1]
    BY DEF MinimalRepresentative, ListOf
  <2>5. \A x \in Elems(ListOf(q, e)) : ListOf(q, e)[1] <= x
    BY <1>1 DEF WellFormed
  <2>6. QED
    BY <2>2, <2>3, <2>4, <2>5 DEF Elems
<1>2. CASE o.in_orbit[e1] = o.in_orbit[e2]
  <2>1. n = o
    BY <1>2 DEF MergeOrbits
  <2>2. OrbitOf(o, e1) = OrbitOf(o, e2)
    BY <1>2 DEF OrbitOf
  <2>3. \A e \in OrbitOf(o, e1) : OrbitOf(o, e) = OrbitOf(o, e1)
    <3>1. \A e \in Elems(ListOf(o, e1)) : o.in_orbit[e] = o.in_orbit[e1]
      BY DEF WellFormed
    <3>2. QED
      BY <1>1, <3>1 DEF OrbitOf
  <2>4. QED
    BY <1>1, <2>1, <2>2, <2>3
<1>3. CASE o.in_orbit[e1] # o.in_orbit[e2]
  <2>1. n = MergeHeads(o, o.in_orbit[e1], o.in_orbit[e2])
    BY <1>3 DEF MergeOrbits
  <2>2. /\ WellFormed(n, S)
        /\ OneJoined(o, n, e1, e2, S)
    BY <1>3, <2>1, MergeHeadsFacts, Zenon
  <2>3. QED
    BY <1>1, <2>2 DEF OneJoined
<1>4. QED
  BY <1>2, <1>3
=============================================================================
