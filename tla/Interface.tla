----------------------------- MODULE Interface -----------------------------
(***************************************************************************)
(* A run of the program from its input file to the subgroups that are      *)
(* ready for breaking: readCNF and main (breakid-main.cpp), and the public *)
(* calls of class BreakID they make (breakid.cpp), in their order.         *)
(*                                                                         *)
(* bliss reports some automorphisms of the coloured graph, all the         *)
(* generators of their group or, when it is out of steps, fewer.  They are *)
(* taken from those whose cycles have one length, a power of a prime       *)
(* (module PrimeSplit has the split of the others).  What the matrix       *)
(* search and the breaking do with a subgroup is in modules Matrices,      *)
(* GroupBreaking and Breaker.                                              *)
(***************************************************************************)
EXTENDS Theory

CONSTANTS
  Files,     \* the input files, sequences of lines
  MaxGens,   \* bound on the number of generators bliss reports
  useMatrixDetection  \* Config

(* A comment, a header or a line of numbers; the header comes first. *)
Lines ==
  [kind : {"c"}] \cup [kind : {"p"}, nbVars : Nat]
    \cup [kind : {"l"}, ints : Seq(Int)]

ASSUME FilesAssumption ==
  /\ Files \subseteq Seq(Lines)
  /\ \A f \in Files : \A k, m \in DOMAIN f :
        k < m /\ f[m].kind = "p" => f[k].kind = "c"
ASSUME MaxGensAssumption == MaxGens \in Nat
ASSUME SwitchAssumption == useMatrixDetection \in BOOLEAN

VARIABLES
  file, line,    \* the input and the line read next
  reader,        \* the variables of readCNF: nVars, clauses, inclause, and
                 \* whether it gave up
  theory,        \* PrivateData::theory
  permutations,  \* the generators, a sequence that may hold one twice
  subgroups,     \* those break_symm has not come to, sets of indexes of it
  group, sub,    \* the subgroup setSubTheory was called for last, as a set
                 \* of permutations, and its theory
  pc

vars == <<file, line, reader, theory, permutations, subgroups, group, sub, pc>>

NVarsRead == reader.nVars

-----------------------------------------------------------------------------
(* One number of a line: a literal, or the zero that ends a clause. *)
ReadInt(r, l) ==
  LET var == IF l < 0 THEN -l ELSE l
  IN  IF r.stop THEN r
      ELSE IF l # 0
      THEN [r EXCEPT !.nVars = IF var > @ THEN var ELSE @,
                     !.inclause = Append(@, MkLit(var - 1, l < 0))]
      ELSE IF r.inclause = <<>> THEN [r EXCEPT !.stop = TRUE]
      ELSE [r EXCEPT !.clauses = Append(@, r.inclause), !.inclause = <<>>]

(* A clause may go on in the next line. *)
ReadOne(r, ln) ==
  CASE ln.kind = "c" -> r
    [] ln.kind = "p" -> [r EXCEPT !.nVars = ln.nbVars]
    [] ln.kind = "l" -> FoldLeft(ReadInt, r, ln.ints)

NoReader == [nVars |-> 0, clauses |-> <<>>, inclause |-> <<>>, stop |-> FALSE]

Init ==
  /\ file \in Files
  /\ line = 1
  /\ reader = NoReader
  /\ theory = NewTheory(0)
  /\ permutations = <<>> /\ subgroups = {}
  /\ group = {} /\ sub = NewTheory(0)
  /\ pc = "read"

ReadLine ==
  /\ pc = "read"
  /\ line <= Len(file)
  /\ reader' = ReadOne(reader, file[line])
  /\ line' = line + 1
  /\ pc' = IF reader'.stop THEN "exit" ELSE "read"
  /\ UNCHANGED <<file, theory, permutations, subgroups, group, sub>>

(* start_dynamic_cnf.  A clause that is still open is dropped. *)
Start ==
  /\ pc = "read"
  /\ line > Len(file)
  /\ theory' = NewTheory(NVarsRead)
  /\ pc' = "add"
  /\ UNCHANGED <<file, line, reader, permutations, subgroups, group, sub>>

AddClause ==
  /\ pc = "add"
  /\ Len(theory.cls) < Len(reader.clauses)
  /\ theory' = AddClauseTo(theory, reader.clauses[Len(theory.cls) + 1])
  /\ UNCHANGED <<file, line, reader, permutations, subgroups, group, sub, pc>>

(* BreakID::end_dynamic_cnf, before it calls set_new_group. *)
End ==
  /\ pc = "add"
  /\ Len(theory.cls) = Len(reader.clauses)
  /\ theory' = EndTheory(theory, NVarsRead)
  /\ pc' = "search"
  /\ UNCHANGED <<file, line, reader, permutations, subgroups, group, sub>>

(* All the cycles of p have the same length n, a power of a prime.  With   *)
(* at most eight literals only length six is none.                         *)
ImageAfter(p, l, n) ==
  LET walk[k \in 0 .. n] == IF k = 0 THEN l ELSE p[walk[k - 1]] IN walk[n]

PrimePowers == <<2, 3, 4, 5, 7, 8>>

HasCyclesOf(n, p) ==
  /\ Domain(p) # {}
  /\ \A l \in Domain(p) :
        /\ ImageAfter(p, l, n) = l
        /\ \A k \in 1 .. n - 1 : ImageAfter(p, l, k) # l

(* addPrimeSplitToVector for such a p: p itself and the powers of it whose *)
(* cycles are shorter, down to the prime.                                  *)
Split(p) ==
  LET length == CHOOSE n \in ToSet(PrimePowers) : HasCyclesOf(n, p)
      divides(k) == k < length /\ length % k = 0
      ks == SelectSeq(<<1, 2, 4>>, divides)
  IN  [k \in DOMAIN ks |-> [l \in DOMAIN p |-> ImageAfter(p, l, ks[k])]]

(* set_new_group: the graph's getSymmetryGenerators, and Group::add. *)
FindGenerators ==
  /\ pc = "search"
  /\ \E pool \in {{p \in LitSymmetries(theory.graph, NVarsRead) :
                     \E n \in ToSet(PrimePowers) : HasCyclesOf(n, p)}} :
       \E k \in 0 .. MaxGens : \E auts \in [1 .. k -> pool] :
          permutations' = FlattenSeq([m \in 1 .. k |-> Split(auts[m])])
  /\ pc' = "detect"
  /\ UNCHANGED <<file, line, reader, theory, subgroups, group, sub>>

Linked(i, j) == Domain(permutations[i]) \cap Domain(permutations[j]) # {}

Connected(C) ==
  \A D \in SUBSET C \ {{}, C} : \E i \in D, j \in C \ D : Linked(i, j)

(* detect_subgroups: the connected components of the generators, which     *)
(* module Subgroups shows getDisjointGenerators to compute.                *)
ConnectedComponents(all) ==
  {C \in SUBSET all \ {{}} :
     Connected(C) /\ \A i \in C, j \in all \ C : ~Linked(i, j)}

DetectSubgroups ==
  /\ pc = "detect"
  /\ subgroups' = ConnectedComponents(DOMAIN permutations)
  /\ pc' = "break"
  /\ UNCHANGED <<file, line, reader, theory, permutations, group, sub>>

(* The body of the loop of break_symm: a subgroup with several generators  *)
(* gets a theory of its own before its matrices are looked for.            *)
BreakGroup ==
  /\ pc = "break"
  /\ \E g \in subgroups :
       /\ subgroups' = subgroups \ {g}
       /\ IF Cardinality(g) > 1 /\ useMatrixDetection
          THEN /\ group' = {permutations[i] : i \in g}
               /\ sub' = SubTheory(theory, NVarsRead, group')
          ELSE UNCHANGED <<group, sub>>
  /\ UNCHANGED <<file, line, reader, theory, permutations, pc>>

Finish ==
  /\ pc = "break"
  /\ subgroups = {}
  /\ pc' = "done"
  /\ UNCHANGED <<file, line, reader, theory, permutations, subgroups, group,
                 sub>>

Next ==
  \/ ReadLine \/ Start \/ AddClause \/ End \/ FindGenerators
  \/ DetectSubgroups \/ BreakGroup \/ Finish

Spec == Init /\ [][Next]_vars

-----------------------------------------------------------------------------
(* The formula of a file, written down without the program: the numbers of *)
(* all lines in one row, cut after every zero.                             *)
Numbers ==
  FlattenSeq([k \in DOMAIN file |->
                IF file[k].kind = "l" THEN file[k].ints ELSE <<>>])

Literal(l) == IF l < 0 THEN MkLit(-l - 1, TRUE) ELSE MkLit(l - 1, FALSE)

ClauseEndingAt(k) ==
  LET from == CHOOSE m \in 1 .. k : /\ \A j \in m .. k - 1 : Numbers[j] # 0
                                    /\ m = 1 \/ Numbers[m - 1] = 0
  IN  [j \in 1 .. k - from |-> Literal(Numbers[from + j - 1])]

Ends == {k \in DOMAIN Numbers : Numbers[k] = 0}
Written == {ClauseEndingAt(k) : k \in Ends}

(* How often a clause occurs in the file, as the set of its literals. *)
Copies(c) == Cardinality({k \in Ends : ToSet(ClauseEndingAt(k)) = c})

ImageSet(p, c) == {p[l] : l \in c}

LitsRead == 0 .. 2 * NVarsRead - 1

(* The permutations of the literals that commute with negation: the        *)
(* variables are permuted and some of them are negated.                    *)
NegationKeeping ==
  LET variables == 0 .. NVarsRead - 1
      signed(f, flip) ==
        [l \in LitsRead |-> MkLit(f[VarOf(l)], Sign(l) # (VarOf(l) \in flip))]
  IN  {signed(f, flip) : f \in Permutations(variables), flip \in SUBSET variables}

Fixed(l) == <<l>> \in Written \/ \A c \in Written : l \notin ToSet(c)

(* What bliss is asked for is the symmetry group of the formula in the     *)
(* file: the permutations of literals that commute with negation, map      *)
(* every clause to one that occurs as often, and fix the literals of unit  *)
(* clauses and those that occur in no clause.  Nothing is lost on the way  *)
(* from the lines to the colours, and nothing gained.                      *)
SymmetriesExact ==
  pc = "search" =>
    LitSymmetries(theory.graph, NVarsRead) =
      {p \in NegationKeeping :
         /\ \A c \in {ToSet(d) : d \in Written} :
               Copies(ImageSet(p, c)) = Copies(c)
         /\ \A l \in LitsRead : Fixed(l) => p[l] = l}

(* The graph setSubTheory builds for a subgroup, from some of the clauses  *)
(* and without end_dynamic_cnf, has exactly the symmetries of the whole    *)
(* formula that move nothing but literals the subgroup moves.              *)
SubTheoryExact ==
  group # {} =>
    \A support \in {SupportOf(group)} :
       LitSymmetries(sub.graph, NVarsRead) =
         {p \in LitSymmetries(theory.graph, NVarsRead) :
            Domain(p) \subseteq support}

(* A clause of the file as the bag of its literals: isSymmetry tells [a a] *)
(* from [a].                                                               *)
Bag(c) == SortSeq(c, <)

(* isSymmetry on the theory of a subgroup decides, for a permutation that  *)
(* moves only literals of the subgroup, whether it is a symmetry of the    *)
(* whole formula: that every clause of the file, not only those of the     *)
(* small theory, is mapped to a clause.                                    *)
IsSymmetryExact ==
  group # {} =>
    \A support \in {SupportOf(group)},
       all \in {{Bag(c) : c \in ToSet(reader.clauses)}} :
    \A p \in NegationKeeping : Domain(p) \subseteq support =>
       (IsSymmetry(sub, p) <=> \A c \in all : Bag(ClauseImage(p, c)) \in all)
=============================================================================
