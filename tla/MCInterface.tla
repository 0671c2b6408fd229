---------------------------- MODULE MCInterface ----------------------------
(* Every formula of at most two of the clauses below over three variables, *)
(* in three layouts, and some larger ones by hand.                         *)
EXTENDS Interface

Header(n) == [kind |-> "p", nbVars |-> n]
Comment == [kind |-> "c"]
Line(ints) == [kind |-> "l", ints |-> ints]

Clauses ==
  {<<1, 0>>, <<-2, 0>>, <<1, 2, 0>>, <<-1, 3, 0>>, <<-2, -1, 0>>, <<1, -1, 0>>,
   <<2, 2, 0>>, <<1, 1, 0>>, <<3, 2, 2, 0>>, <<1, 2, 3, 0>>, <<3, -1, 2, 0>>}

Formulas == {<<>>} \cup {<<c>> : c \in Clauses} \cup Clauses \X Clauses

(* A line for each clause; or all in one line without a header; or every   *)
(* number in a line of its own, and an open clause at the end.             *)
Layouts(cs) ==
  LET ints == FlattenSeq(cs)
  IN  {<<Comment, Header(3)>> \o [k \in DOMAIN cs |-> Line(cs[k])],
       <<Header(1), Line(ints)>>,
       [k \in DOMAIN ints |-> Line(<<ints[k]>>)] \o <<Comment, Line(<<1>>)>>}

Plain(n, cs) == <<Header(n)>> \o [k \in DOMAIN cs |-> Line(cs[k] \o <<0>>)]

ByHand == {
  (* an empty clause, and no lines at all *)
  Plain(2, <<<<1, 2>>, <<>>, <<1>>>>), <<>>,
  (* every literal fixed but the last one *)
  Plain(2, <<<<1>>, <<2>>>>), Plain(1, <<<<1>>, <<-1>>>>),
  (* three interchangeable variables, beside a fixed one *)
  Plain(4, <<<<1, 2>>, <<2, 3>>, <<3, 1>>, <<4, -1, -2, -3>>>>),
  (* exclusive or; two pairs; a square; one clause twice *)
  Plain(2, <<<<1, 2>>, <<-1, -2>>>>),
  Plain(4, <<<<1, 2>>, <<-1, -2>>, <<3, 4>>, <<-3, -4>>>>),
  Plain(4, <<<<1, 2>>, <<2, 3>>, <<3, 4>>, <<4, 1>>>>),
  Plain(3, <<<<1, 2>>, <<2, 1>>, <<1, 3>>, <<2, 3>>>>),
  (* a clause that the first literal does not show to move *)
  Plain(3, <<<<3, 1, 2>>, <<3, -1, -2>>>>),
  Plain(4, <<<<3, 1, 2>>, <<-3, 4>>, <<4, -1, -2>>, <<3, 1>>>>)}

MCFiles == UNION {Layouts(cs) : cs \in Formulas} \cup ByHand
=============================================================================
