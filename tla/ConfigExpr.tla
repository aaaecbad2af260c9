----------------------------- MODULE ConfigExpr -----------------------------
(***************************************************************************)
(* The dependency expressions of the configuration language, and what      *)
(* kconfig/expr.c does to them.  An expression is a tree of records; a     *)
(* tree is a value here, so that copying and freeing it (expr_copy,        *)
(* expr_free) leave no trace, and the slots the code rewrites through      *)
(* struct expr ** are positions in the sequence of terms of a tree.        *)
(*                                                                         *)
(* The tristates n, m, y are the numbers 0, 1, 2 of enum tristate.         *)
(***************************************************************************)
EXTENDS ConfigTree, SequencesExt

No == 0
Mod == 1
Yes == 2
Tri == {No, Mod, Yes}

\* symbol_no, symbol_mod, symbol_yes: SYMBOL_CONST symbols of no type.
Const == {"n", "m", "y"}
ConstVal == [c \in Const |-> CASE c = "n" -> No [] c = "m" -> Mod [] OTHER -> Yes]

TriOr(a, b) == IF a > b THEN a ELSE b
TriAnd(a, b) == IF a < b THEN a ELSE b
TriNot(a) == 2 - a

Ops == {"and", "or"}
Rels == {"eq", "ne"}
Dual(t) == CASE t = "and" -> "or" [] t = "or" -> "and" [] t = "eq" -> "ne" [] t = "ne" -> "eq"

\* What a chain of op keeps when a term has been taken out of it.
Neutral(op) == Sym(IF op = "and" THEN "y" ELSE "n")

IsYes(e) == e \in {Null, Sym("y")}
IsNo(e) == e = Sym("n")

\* expr_calc_value, for symbols whose values are v.
RECURSIVE Value(_, _)
Value(e, v) ==
  LET arg == [k \in DOMAIN e.args |-> Value(e.args[k], v)]
  IN
  CASE e.t = "null" -> Yes
    [] e.t = "sym" -> v[e.s]
    [] e.t = "not" -> TriNot(arg[1])
    [] e.t = "and" -> TriAnd(arg[1], arg[2])
    [] e.t = "or" -> TriOr(arg[1], arg[2])
    [] e.t = "eq" -> IF v[e.s] = v[e.c] THEN Yes ELSE No
    [] e.t = "ne" -> IF v[e.s] = v[e.c] THEN No ELSE Yes

-----------------------------------------------------------------------------
(***************************************************************************)
(* The terms of a chain of op, in order: the leaves the recursions of      *)
(* expr.c on "e->type == type" arrive at; and the chain with other terms   *)
(* in the same places.                                                     *)
(***************************************************************************)
RECURSIVE Terms(_, _)
Terms(op, e) ==
  IF e.t = op THEN FlattenSeq([k \in DOMAIN e.args |-> Terms(op, e.args[k])]) ELSE <<e>>

RECURSIVE WithTerms(_, _, _)
WithTerms(op, e, terms) ==
  IF e.t # op THEN terms[1]
  ELSE LET n == Len(Terms(op, e.args[1]))
           share == <<SubSeq(terms, 1, n), SubSeq(terms, n + 1, Len(terms))>>
       IN [e EXCEPT !.args = [k \in DOMAIN @ |-> WithTerms(op, @[k], share[k])]]

\* The subtrees of a chain, as intervals of its terms, children first.
RECURSIVE Spans(_, _, _)
Spans(op, e, first) ==
  IF e.t # op THEN << <<first, first>> >>
  ELSE LET start == <<first, first + Len(Terms(op, e.args[1]))>>
           below == FlattenSeq([k \in DOMAIN e.args |-> Spans(op, e.args[k], start[k])])
       IN Append(below, <<first, first + Len(Terms(op, e)) - 1>>)

\* All pairs of a row and a column, row by row.
Pairs(rows, cols) ==
  [k \in 1 .. Len(rows) * Len(cols) |->
     <<rows[((k - 1) \div Len(cols)) + 1], cols[((k - 1) % Len(cols)) + 1]>>]

Upto(n) == [i \in 1 .. n |-> i]

\* expr_eliminate_yn: constants absorb or leave their chain, bottom-up.
WithoutYN(op, args) ==
  IF Neutral(Dual(op)) \in ToSet(args) THEN Neutral(Dual(op))
  ELSE IF args[1] = Neutral(op) THEN args[2]
  ELSE IF args[2] = Neutral(op) THEN args[1] ELSE Two(op, args[1], args[2])

RECURSIVE EliminateYN(_)
EliminateYN(e) ==
  IF e.t \notin Ops THEN e
  ELSE WithoutYN(e.t, [k \in DOMAIN e.args |-> EliminateYN(e.args[k])])

(***************************************************************************)
(* expr_eq and expr_eliminate_eq call each other.  ExprEq: the two trees   *)
(* are the same up to the order of the terms.  EliminateEq: the terms      *)
(* common to both are replaced by the neutral constant, pair by pair.      *)
(***************************************************************************)
RECURSIVE ExprEq(_, _), EliminateEq(_, _)

EliminatePair(op, ts, i, j) ==
  LET a == ts[1][i]
      b == ts[2][j]
  IN IF (a = b /\ a \in {Sym("y"), Sym("n")}) \/ ~ExprEq(a, b) THEN ts
     ELSE <<[ts[1] EXCEPT ![i] = Neutral(op)], [ts[2] EXCEPT ![j] = Neutral(op)]>>

EliminateAll(op, terms) ==
  FoldLeft(LAMBDA ts, p : EliminatePair(op, ts, p[1], p[2]),
           terms, Pairs(Upto(Len(terms[1])), Upto(Len(terms[2]))))

EliminateTerms(op, ep) ==
  LET out == EliminateAll(op, [k \in 1 .. 2 |-> Terms(op, ep[k])])
  IN [k \in 1 .. 2 |-> WithTerms(op, ep[k], out[k])]

EliminateEq(a, b) ==
  LET Side(ep, k) == IF ep[k].t \in Ops /\ (k = 2 => ep[1].t # ep[2].t)
                     THEN EliminateTerms(ep[k].t, ep) ELSE ep
      out == FoldLeft(Side, <<a, b>>, <<1, 2>>)
  IN IF Null \in {a, b} THEN <<a, b>> ELSE [k \in 1 .. 2 |-> EliminateYN(out[k])]

SameLeaf(ab) == ab[1].t = "sym" /\ ab[1] = ab[2]

ExprEq(a, b) ==
  CASE a.t # b.t -> FALSE
    [] a.t = b.t /\ a.t \in Rels \union {"sym"} -> a = b
    [] a.t = b.t /\ a.t = "not" -> ExprEq(a.args[1], b.args[1])
    [] a.t = b.t /\ a.t \in Ops -> SameLeaf(EliminateEq(a, b))
    [] OTHER -> FALSE

\* expr_extract_eq_and, expr_extract_eq_or: what is left of the chain a when
\* the terms it has in common with tb are taken out of both.
ExtractPair(op, s, i, j) ==
  IF ~ExprEq(s.ts[1][i], s.ts[2][j]) THEN s
  ELSE [ts |-> <<[s.ts[1] EXCEPT ![i] = Neutral(op)], [s.ts[2] EXCEPT ![j] = Neutral(op)]>>,
        found |-> TRUE]

ExtractAll(op, ta, tb) ==
  FoldLeft(LAMBDA s, p : ExtractPair(op, s, p[1], p[2]),
           [ts |-> <<ta, tb>>, found |-> FALSE], Pairs(Upto(Len(ta)), Upto(Len(tb))))

Extracted(op, a, out) == IF out.found THEN EliminateYN(WithTerms(op, a, out.ts[1])) ELSE a
ExtractEq(op, a, tb) == Extracted(op, a, ExtractAll(op, Terms(op, a), tb))

-----------------------------------------------------------------------------
TypeOf(s) == IF s \in Boolean THEN "bool" ELSE IF s \in Tristate THEN "tri" ELSE "none"

\* expr_trans_bool: a tristate compared with n is read as a condition.
RECURSIVE TransBool(_)
TransBool(e) ==
  CASE e.t \in Ops \union {"not"} -> [e EXCEPT !.args = [k \in DOMAIN @ |-> TransBool(@[k])]]
    [] e.t = "ne" /\ TypeOf(e.s) = "tri" /\ e.c = "n" -> Sym(e.s)
    [] OTHER -> e

(***************************************************************************)
(* expr_transform: a comparison of a boolean becomes the symbol or its     *)
(* negation, a negation moves to the leaves (De Morgan) and disappears     *)
(* from comparisons, constants and double negations.                       *)
(***************************************************************************)
RECURSIVE Transform(_)
TransformComp(e) ==
  LET positive == (e.t = "eq") = (e.c = "y")
  IN CASE TypeOf(e.s) # "bool" \/ e.c \notin Const -> e
       [] TypeOf(e.s) = "bool" /\ e.c = "m" -> Sym(IF e.t = "eq" THEN "n" ELSE "y")
       [] TypeOf(e.s) = "bool" /\ e.c \in {"n", "y"} /\ positive -> Sym(e.s)
       [] TypeOf(e.s) = "bool" /\ e.c \in {"n", "y"} /\ ~positive -> Not(Sym(e.s))

TransformNot(a) ==
  CASE a.t \in Ops \union {"not"} ->
         Transform(IF a.t = "not" THEN a.args[1] ELSE Two(Dual(a.t), Not(a.args[1]), Not(a.args[2])))
    [] a.t \in Rels -> Comp(Dual(a.t), a.s, a.c)
    [] a.t = "sym" /\ a.s \in Const ->
         Sym(CASE a.s = "y" -> "n" [] a.s = "m" -> "m" [] a.s = "n" -> "y")
    [] OTHER -> Not(a)

TransformArgs(e, args) == IF e.t = "not" THEN TransformNot(args[1]) ELSE [e EXCEPT !.args = args]

Transform(e) ==
  CASE e.t \in Rels -> TransformComp(e)
    [] e.t \in Ops \union {"not"} ->
         TransformArgs(e, [k \in DOMAIN e.args |-> Transform(e.args[k])])
    [] OTHER -> e

-----------------------------------------------------------------------------
(***************************************************************************)
(* expr_join_or, expr_join_and: two terms of a chain that one simpler      *)
(* expression replaces; Null when there is none.                           *)
(***************************************************************************)
Leaf == Rels \union {"sym"}
JoinsFirst(e) == e.t \in Leaf \/ (e.t = "not" /\ e.args[1].t \in Leaf)
JoinsSecond(e) == e.t \in Leaf \/ (e.t = "not" /\ e.args[1].t = "sym")
Subject(e) == IF e.t = "not" THEN e.args[1].s ELSE e.s
SameSubject(a, b) == /\ JoinsFirst(a) /\ JoinsSecond(b) /\ Subject(a) = Subject(b)
                     /\ Subject(a) \in Boolean \union Tristate

\* The constant that is neither of two.
Third(c, d) == CHOOSE x \in Const : x \notin {c, d}
TwoValues(a, b, rel) == a.t = rel /\ b.t = rel /\ a.c # b.c /\ {a.c, b.c} \subseteq Const

JoinOr(a, b, s) ==
  CASE s \in Tristate /\ TwoValues(a, b, "eq") -> Comp("ne", s, Third(a.c, b.c))
    [] s \in Boolean /\ {a, b} = {Sym(s), Not(Sym(s))} -> Sym("y")
    [] OTHER -> Null

\* a is the symbol and b a comparison of it.
JoinSymAnd(a, b, s) ==
  CASE a # Sym(s) \/ b.t \notin Rels -> Null
    [] a = Sym(s) /\ b \in {Comp("eq", s, "y"), Comp("ne", s, "m")} -> Comp("eq", s, "y")
    [] a = Sym(s) /\ b = Comp("ne", s, "n") -> Sym(s)
    [] OTHER -> Null

\* a is an equation and b an inequation of a tristate.
JoinEqAnd(a, b, s) ==
  IF s \in Tristate /\ a.t = "eq" /\ b.t = "ne" /\ {a.c, b.c} \subseteq Const
  THEN IF a.c # b.c THEN a ELSE Sym("n")
  ELSE Null

JoinAnd(a, b, s) ==
  LET found == {JoinSymAnd(a, b, s), JoinSymAnd(b, a, s),
                JoinEqAnd(a, b, s), JoinEqAnd(b, a, s),
                IF s \in Tristate /\ TwoValues(a, b, "ne")
                THEN Comp("eq", s, Third(a.c, b.c)) ELSE Null} \ {Null}
  IN IF found = {} THEN Null ELSE CHOOSE e \in found : TRUE

Join(op, a, b) ==
  IF ExprEq(a, b) THEN a
  ELSE IF ~SameSubject(a, b) THEN Null
  ELSE IF op = "or" THEN JoinOr(a, b, Subject(a)) ELSE JoinAnd(a, b, Subject(a))

(***************************************************************************)
(* expr_eliminate_dups1 on one tree: every term with every other term of   *)
(* the chain; a joined pair leaves the neutral constant in the first place *)
(* and the joined expression in the second.  n is trans_count.             *)
(***************************************************************************)
JoinInto(op, x, i, j, joined) ==
  IF joined = Null THEN x
  ELSE [ts |-> [x.ts EXCEPT ![i] = Neutral(op), ![j] = joined], n |-> x.n + 1]

\* The term i reduced, r, takes its place.
Put(x, i, r) == [ts |-> [x.ts EXCEPT ![i] = r.e], n |-> x.n + r.n]

Rebuilt(op, e, out) == [e |-> WithTerms(op, e, out.ts), n |-> out.n]

RECURSIVE Dups1(_, _)
Dups1Term(e) == IF e.t \in Ops THEN Dups1(e.t, e) ELSE [e |-> e, n |-> 0]
JoinPair(op, x, i, j) == JoinInto(op, x, i, j, Join(op, x.ts[i], x.ts[j]))
Dups1Pair(op, x, i, j) ==
  IF i = j THEN x ELSE JoinPair(op, Put(x, i, Dups1Term(x.ts[i])), i, j)

Dups1All(op, ts) ==
  FoldLeft(LAMBDA x, p : Dups1Pair(op, x, p[1], p[2]), [ts |-> ts, n |-> 0],
           Pairs(Upto(Len(ts)), Upto(Len(ts))))
Dups1(op, e) == Rebuilt(op, e, Dups1All(op, Terms(op, e)))

(***************************************************************************)
(* expr_eliminate_dups2: a term that is a chain of the other operation is  *)
(* compared, negated, with every subtree of the chain; when all the terms  *)
(* of its negation occur there, it contradicts (or is implied by) them and *)
(* becomes the absorbing constant.                                         *)
(***************************************************************************)
Contradicts(op, ts, i, span) ==
  ExtractEq(op, Transform(Not(ts[i])), SubSeq(ts, span[1], span[2])) = Neutral(op)
Contradict(op, x, i, span) ==
  IF Contradicts(op, x.ts, i, span)
  THEN [ts |-> [x.ts EXCEPT ![i] = Neutral(Dual(op))], n |-> x.n + 1] ELSE x

RECURSIVE Dups2(_, _)
Dups2Pair(op, x, i, span) ==
  IF span = <<i, i>> \/ x.ts[i].t # Dual(op) THEN x
  ELSE Contradict(op, Put(x, i, Dups2(Dual(op), x.ts[i])), i, span)

Dups2All(op, ts, spans) ==
  FoldLeft(LAMBDA x, p : Dups2Pair(op, x, p[1], p[2]), [ts |-> ts, n |-> 0],
           Pairs(Upto(Len(ts)), spans))
Dups2(op, e) == Rebuilt(op, e, Dups2All(op, Terms(op, e), Spans(op, e, 1)))

\* expr_eliminate_dups: until a round replaces nothing.
Added(r, n) == [r EXCEPT !.n = @ + n]
Round(op, one) == Added(Dups2(op, one.e), one.n)

RECURSIVE EliminateDups(_)
Again(r) == IF r.n = 0 THEN r.e ELSE EliminateDups(EliminateYN(r.e))
EliminateDups(e) == IF e.t \notin Ops THEN e ELSE Again(Round(e.t, Dups1(e.t, e)))

-----------------------------------------------------------------------------
\* expr_contains_symbol.
RECURSIVE Mentions(_, _)
Mentions(e, s) ==
  CASE e.t = "null" -> FALSE
    [] e.t \in Ops \union {"not"} -> \E k \in DOMAIN e.args : Mentions(e.args[k], s)
    [] e.t = "sym" -> e.s = s
    [] e.t \in Rels -> s \in {e.s, e.c}

\* expr_depends_symbol: the symbol is a term of the conjunction, so that e is n
\* whenever the symbol is.
RECURSIVE DependsOn(_, _)
DependsOn(e, s) ==
  \/ e.t = "and" /\ \E k \in DOMAIN e.args : DependsOn(e.args[k], s)
  \/ e = Sym(s)
  \/ e \in {Comp("eq", s, "y"), Comp("eq", s, "m"), Comp("ne", s, "n")}

(***************************************************************************)
(* expr_trans_compare: the expression that says that e has, or has not,    *)
(* the value of the constant c.                                            *)
(***************************************************************************)
RECURSIVE TransCompare(_, _, _)
TransCompare(e, rel, c) ==
  LET below == IF e.t = "not" THEN Dual(rel) ELSE "eq"
      arg == [k \in DOMAIN e.args |-> TransCompare(e.args[k], below, c)]
      both == CASE c = "m" -> e
                [] c = "y" -> [e EXCEPT !.args = arg]
                [] c = "n" -> Two(Dual(e.t), arg[1], arg[2])
  IN CASE e.t = "null" -> IF rel = "ne" THEN Not(Sym(c)) ELSE Sym(c)
       [] e.t \in Ops -> IF rel = "ne" THEN Not(both) ELSE both
       [] e.t = "not" -> arg[1]
       [] e.t \in Rels /\ c = "m" -> Sym(IF rel = "eq" THEN "n" ELSE "y")
       [] e.t \in Rels /\ c # "m" -> IF (rel = "eq") = (c = "y") THEN e ELSE Not(e)
       [] e.t = "sym" -> Comp(rel, e.s, c)
=============================================================================
