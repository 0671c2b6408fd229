------------------------------- MODULE Orbit -------------------------------
(***************************************************************************)
(* class Orbit (bliss/orbit.cc): the orbits of the group generated so far. *)
(* An orbit is the list hanging from an entry of orbits; in_orbit maps an  *)
(* element to the entry at the head of its list.  The list is the sequence *)
(* of the elements in its entries; merging exchanges the elements of two   *)
(* entries, so that the first of the list stays the least.                 *)
(***************************************************************************)
EXTENDS Integers, Sequences, SequencesExt

(* reset *)
OrbitReset(S) ==
  [list |-> [e \in S |-> <<e>>], in_orbit |-> [e \in S |-> e],
   nof_orbits |-> Cardinality(S)]

(* Variant: only the head of the smaller list learns where it went. *)
MergeHeadsOneMoved(o, h1, h2) ==
  LET small == IF Len(o.list[h1]) > Len(o.list[h2]) THEN h2 ELSE h1
      large == IF small = h1 THEN h2 ELSE h1
      s == o.list[small]
      l == o.list[large]
      merged == IF s[1] < l[1] THEN <<s[1], l[1]>> \o Tail(s) \o Tail(l)
                ELSE <<l[1]>> \o s \o Tail(l)
  IN  [o EXCEPT !.list[large] = merged, !.in_orbit[s[1]] = large,
                !.nof_orbits = @ - 1]

(* merge_orbits of two entries: the smaller list goes behind the first     *)
(* entry of the larger one.                                                *)
MergeHeads(o, h1, h2) ==
  LET small == IF Len(o.list[h1]) > Len(o.list[h2]) THEN h2 ELSE h1
      large == IF small = h1 THEN h2 ELSE h1
      s == o.list[small]
      l == o.list[large]
      merged == IF s[1] < l[1] THEN <<s[1], l[1]>> \o Tail(s) \o Tail(l)
                ELSE <<l[1]>> \o s \o Tail(l)
  IN  [o EXCEPT !.list[large] = merged,
                !.in_orbit = [e \in DOMAIN @ |->
                   IF \E k \in DOMAIN s : s[k] = e THEN large ELSE @[e]],
                !.nof_orbits = @ - 1]

MergeOrbits(o, e1, e2) ==
  IF o.in_orbit[e1] = o.in_orbit[e2] THEN o
  ELSE MergeHeads(o, o.in_orbit[e1], o.in_orbit[e2])

OrbitSize(o, e)               == Len(o.list[o.in_orbit[e]])
MinimalRepresentative(o, e)   == o.list[o.in_orbit[e]][1]
IsMinimalRepresentative(o, e) == MinimalRepresentative(o, e) = e
OrbitOf(o, e)                 == ToSet(o.list[o.in_orbit[e]])

(* update_orbit_information: an automorphism of 0 .. n - 1 joins every     *)
(* element with its image.                                                 *)
UpdateOrbits(o, n, perm) ==
  FoldLeft(LAMBDA q, i : IF perm[i - 1] = i - 1 THEN q
                         ELSE MergeOrbits(q, i - 1, perm[i - 1]),
           o, [i \in 1 .. n |-> i])
=============================================================================
