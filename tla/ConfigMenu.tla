----------------------------- MODULE ConfigMenu -----------------------------
(***************************************************************************)
(* The conditions in the tree of ConfigTree: how menu_finalize             *)
(* (kconfig/menu.c) propagates them over it, which entries depend on       *)
(* which, and which symbols depend on which.                               *)
(***************************************************************************)
EXTENDS ConfigExpr, FiniteSets

\* menu_check_dep: "m" alone is only meant where modules are.
RECURSIVE CheckDep(_)
CheckDep(e) ==
  CASE e.t \in Ops \union {"not"} -> [e EXCEPT !.args = [k \in DOMAIN @ |-> CheckDep(@[k])]]
    [] e = Sym("m") -> And(e, Sym(Modules))
    [] OTHER -> e

-----------------------------------------------------------------------------
RECURSIVE Chain(_, _)
Chain(g, id) == IF id = 0 THEN << >> ELSE <<id>> \o Chain(g, g.menus[id].next)
Children(g, id) == Chain(g, g.menus[id].list)

IsChoice(s) == s \in ChoiceSyms
PropsOf(g, s) == SelectSeq(Upto(Len(g.props)), LAMBDA i : g.props[i].sym = s)
PromptOf(g, id) == g.props[g.menus[id].prompt]
VisOf(g, id) == IF g.menus[id].prompt = 0 THEN g.menus[id].dep ELSE PromptOf(g, id).vis
ChoiceOf(g, s) ==
  LET ps == {i \in DOMAIN g.props : g.props[i].kind = "choice" /\ g.props[i].sym = s}
  IN g.props[CHOOSE i \in ps : \A j \in ps : i <= j].expr.s

\* The choice takes the type of its first typed value, and the others take it
\* from the choice.
TypeOfFirst(g, c, typed) ==
  IF typed = << >> THEN g ELSE MenuSetType(g, c, g.type[g.menus[typed[1]].sym])
TypesOf(g, c, named) ==
  FoldLeft(LAMBDA h, m : MenuSetType(h, h.menus[m].sym, h.type[c]),
           TypeOfFirst(g, c, SelectSeq(named, LAMBDA m : g.type[g.menus[m].sym] # "unknown")), named)
ChoiceTypes(g, id) ==
  IF ~IsChoice(g.menus[id].sym) THEN g
  ELSE TypesOf(g, g.menus[id].sym, SelectSeq(Children(g, id), LAMBDA m : g.menus[m].sym # NoSym))

\* What the entries below a menu inherit from it.
ParentDep(g, id) ==
  IF IsChoice(g.menus[id].sym) THEN Sym(g.menus[id].sym) ELSE VisOf(g, id)

\* (Wrong variant: a condition of one's own replaces the inherited one.)
OwnOrUnder(above, e) == EliminateDups(IF e = Null THEN above ELSE Transform(e))

Under(above, e) == EliminateDups(And(above, Transform(e)))

\* One property of an entry gets its condition; a select is also recorded with the
\* symbol it selects.
ForType(g, s, e) == IF s # NoSym /\ g.type[s] # "tri" THEN TransBool(e) ELSE e
SetCondition(g, s, p, dep) ==
  [g EXCEPT !.props[p].vis = dep,
            !.rev = IF g.props[p].kind # "select" THEN @
                    ELSE [@ EXCEPT ![g.props[p].expr.s] = Or(@, And(Sym(s), dep))]]

PropsAt(g, id, s) ==
  IF s = NoSym THEN IF g.menus[id].prompt = 0 THEN << >> ELSE <<g.menus[id].prompt>>
  ELSE SelectSeq(PropsOf(g, s), LAMBDA p : g.props[p].menu = id)

PropagateProps(g, id, s) ==
  FoldLeft(LAMBDA h, p : SetCondition(h, s, p, ForType(h, s, Under(h.menus[id].dep, h.props[p].vis))),
           g, PropsAt(g, id, s))

Propagate(g, id, parentdep) ==
  PropagateProps([g EXCEPT !.menus[id].dep = Under(parentdep, @)], id, g.menus[id].sym)

Condition(e) == EliminateDups(Transform(TransCompare(e, "ne", "n")))

\* Does the entry only appear with the symbol s, whose prompt has the condition
\* base?  Then it belongs into the submenu of s.
Dependent(dep, s, base) ==
  /\ Mentions(dep, s)
  /\ DependsOn(dep, s) \/ IsYes(EliminateEq(Condition(dep), Condition(base))[2])

(***************************************************************************)
(* What menu_finalize does besides moving entries (MenuFinalize): to those *)
(* below a menu before it finalizes them, to each that it settles below p, *)
(* and to the symbol of p at the end; and which followers p takes.         *)
(***************************************************************************)
PropagateAll(g, p) ==
  FoldLeft(LAMBDA h, id : Propagate(h, id, ParentDep(g, p)), g, Children(g, p))
Inherited(g, p) == PropagateAll(ChoiceTypes(g, p), p)

Base(g, p) == IF g.menus[p].prompt = 0 THEN Null ELSE PromptOf(g, p).vis
Takes(g, p, id) == id # 0 /\ Dependent(VisOf(g, id), g.menus[p].sym, Base(g, p))

\* An entry of a choice becomes one of its values.  One that is no tristate in a
\* choice that is depends on the choice being y.
Enlist(g, id, c) ==
  LET s == g.menus[id].sym
      depY == Comp("eq", c, "y")
      strict == IF g.type[c] # "tri" \/ g.type[s] = "tri" THEN g
                ELSE [g EXCEPT !.menus[id].dep = And(depY, @),
                               !.props = [i \in DOMAIN @ |->
                                  IF @[i].sym = s /\ @[i].menu = id
                                  THEN [@[i] EXCEPT !.vis = And(depY, @)] ELSE @[i]]]
  IN [strict EXCEPT !.choiceval = @ \union {s},
                    !.props = Append(@, NewProp("choice", s, id, Sym(c), Null)),
                    !.members[c] = Append(@, s)]
EnlistIn(g, p, id) ==
  IF IsChoice(g.menus[p].sym) /\ g.menus[id].sym \notin g.choiceval \union {NoSym}
  THEN Enlist(g, id, g.menus[p].sym) ELSE g

\* A symbol that is not optional is m at least where it is visible.
KeepOn(g, p) ==
  LET s == g.menus[p].sym
  IN IF s \in g.optional \union {NoSym} \/ g.menus[p].prompt = 0 THEN g
     ELSE [g EXCEPT !.rev[s] = Or(@, And(PromptOf(g, p).vis, Sym("m")))]

-----------------------------------------------------------------------------
RECURSIVE SymsOf(_)
SymsOf(e) ==
  CASE e.t = "null" -> << >>
    [] e.t \in Ops \union {"not"} -> FlattenSeq([k \in DOMAIN e.args |-> SymsOf(e.args[k])])
    [] e.t \in Rels -> <<e.s, e.c>>
    [] e.t = "sym" -> <<e.s>>

\* The symbols a symbol depends on, in the order the search visits them.
ExprsOf(prop) ==
  IF prop.kind = "default" /\ ~IsChoice(prop.sym) THEN <<prop.vis, prop.expr>> ELSE <<prop.vis>>
Visited(g, s) ==
  LET ps == SelectSeq(PropsOf(g, s), LAMBDA p : g.props[p].kind \notin {"choice", "select"})
      es == <<g.rev[s]>> \o FlattenSeq([k \in DOMAIN ps |-> ExprsOf(g.props[ps[k]])])
  IN SelectSeq(FlattenSeq([k \in DOMAIN es |-> SymsOf(es[k])]), LAMBDA t : t \in Symbols)
\* What sym_check_deps goes over.
DepsOf(g) == [on |-> [s \in Symbols |-> Visited(g, s)], values |-> g.members]
=============================================================================
