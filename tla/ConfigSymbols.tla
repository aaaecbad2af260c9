--------------------------- MODULE ConfigSymbols ----------------------------
(***************************************************************************)
(* The values of the symbols (kconfig/symbol.c).  A value is calculated    *)
(* when somebody asks for it, from the user's values, the defaults, the    *)
(* visibility of the prompts and the selects, and is kept until            *)
(* sym_clear_all_valid; the record st is what the calculations share:      *)
(*                                                                         *)
(*   cur, sel     sym->curr: the value, and the value a choice has chosen  *)
(*   user, usersel   def[S_DEF_USER], the same as the user has set them    *)
(*   vis, rev     sym->visible, sym->rev_dep.tri                           *)
(*   pvis         prop->visible.tri of every property                      *)
(*   valid, write, defd   the symbols with SYMBOL_VALID, SYMBOL_WRITE and  *)
(*                SYMBOL_DEF_USER                                          *)
(*   modval       modules_val                                              *)
(*   changed      sym_change_count is not 0                                *)
(*   dropped, retyped   history, since all was last cleared: the symbols   *)
(*                whose text conf_read has found out of range, and those   *)
(*                for which the text that is still there was typed again   *)
(*                                                                         *)
(* g is the tree of ConfigMenu after menu_finalize.  The value of an int,  *)
(* hex or string symbol is a number that stands for its text.  The flags   *)
(* SYMBOL_CHANGED and MENU_CHANGED, which no front-end here reads, are     *)
(* left out.                                                               *)
(***************************************************************************)
EXTENDS ConfigMenu

CONSTANTS Numbers       \* the constants of int, hex and string symbols: a function
                        \* from their texts to the numbers that stand for them

Empty == -1             \* the text "", which strtol reads as 0
Junk == -2              \* a text that is no number
NoText == -3            \* the NULL pointer in place of a text

ASSUME NumbersAssumption ==
  /\ DOMAIN Numbers \intersect (Symbols \union Const) = {}
  /\ \A t \in DOMAIN Numbers : Numbers[t] \in Nat

IsTri(g, s) == g.type[s] \in {"bool", "tri"}
Ranged(g, s) == g.type[s] \in {"int", "hex"}
IsText(g, s) == Ranged(g, s) \/ g.type[s] = "string"
AsNumber(v) == IF v = Empty THEN 0 ELSE v
EmptyOf(g, s) == IF IsText(g, s) THEN Empty ELSE No

\* What def[S_DEF_USER] holds where the user has set nothing.
NoUser(g) == [s \in Symbols |-> IF IsText(g, s) THEN NoText ELSE No]
NoUserSel == [c \in ChoiceSyms |-> NoSym]

\* The symbols before any is calculated.
Uncalculated(g) ==
  [cur |-> [s \in Symbols |-> EmptyOf(g, s)] @@ ConstVal @@ Numbers,
   sel |-> NoUserSel, user |-> NoUser(g), usersel |-> NoUserSel,
   vis |-> [s \in Symbols |-> No], rev |-> [s \in Symbols |-> No],
   pvis |-> [p \in DOMAIN g.props |-> No],
   valid |-> {}, write |-> {}, defd |-> {}, modval |-> No, changed |-> TRUE,
   dropped |-> {}, retyped |-> {}]

\* sym_get_type.
SymType(g, st, s) ==
  IF /\ g.type[s] = "tri"
     /\ st.modval = No \/ (s \in g.choiceval /\ st.vis[s] = Yes)
  THEN "bool" ELSE g.type[s]

\* m where there are no modules, or no tristates, is y.
Promoted(v, whole) == IF v = Mod /\ whole THEN Yes ELSE v

RECURSIVE Calc(_, _, _)

\* expr_calc_value calculates the symbols of the expression first.
Asked(g, st, e) ==
  FoldLeft(LAMBDA x, s : Calc(g, x, s), st, SelectSeq(SymsOf(e), LAMBDA s : s \in Symbols))

SetPvis(g, x, p) == [x EXCEPT !.pvis[p] = Value(g.props[p].vis, x.cur)]
SeeProp(g, st, p) == SetPvis(g, Asked(g, st, g.props[p].vis), p)

PropsOfKind(g, s, kinds) ==
  SelectSeq(Upto(Len(g.props)), LAMBDA p : g.props[p].sym = s /\ g.props[p].kind \in kinds)
Prompts(g, s) == PropsOfKind(g, s, {"prompt", "menu", "comment"})

\* sym_get_default_prop, sym_get_range_prop: the first whose condition holds; 0 if
\* there is none.
Looked(x, p) == [st |-> x, p |-> IF x.pvis[p] = No THEN 0 ELSE p]
FirstProp(g, st, s, kind) ==
  FoldLeft(LAMBDA f, p : IF f.p # 0 THEN f ELSE Looked(SeeProp(g, f.st, p), p),
           [st |-> st, p |-> 0], PropsOfKind(g, s, {kind}))

\* sym_calc_visibility.
Best(x, ps) == FoldLeft(LAMBDA best, p : TriOr(best, x.pvis[p]), No, ps)
SetVis(g, x, s) ==
  [x EXCEPT !.vis[s] = Promoted(Best(x, Prompts(g, s)), g.type[s] # "tri" \/ x.modval = No)]
SetRev(g, x, s) ==
  [x EXCEPT !.rev[s] = Promoted(Value(g.rev[s], x.cur), SymType(g, x, s) = "bool")]
SeeSelects(g, x, s) ==
  IF s \in g.choiceval \/ g.rev[s] = Null THEN x ELSE SetRev(g, Asked(g, x, g.rev[s]), s)
CalcVisibility(g, st, s) ==
  SeeSelects(g, SetVis(g, FoldLeft(LAMBDA x, p : SeeProp(g, x, p), st, Prompts(g, s)), s), s)

\* sym_calc_choice: what the user chose, else what a default whose condition holds
\* names, else the first, provided that it is visible.  Without any the choice is n.
\* p is the default that names a candidate, 0 if it is not from one.
Candidate(s, p) == [s |-> s, p |-> p]
Candidates(g, st, c) ==
  LET defaults == PropsOfKind(g, c, {"default"})
  IN (IF st.usersel[c] = NoSym THEN << >> ELSE <<Candidate(st.usersel[c], 0)>>)
       \o [k \in DOMAIN defaults |-> Candidate(g.props[defaults[k]].expr.s, defaults[k])]
       \o [k \in DOMAIN g.members[c] |-> Candidate(g.members[c][k], 0)]
\* (Wrong variant: visible or not.)
TakenUnseen(x, c, s) == [x EXCEPT !.sel[c] = s]
Taken(x, c, s) == IF x.vis[s] = No THEN x ELSE [x EXCEPT !.sel[c] = s]
TryValue(g, x, c, d) ==
  IF d.p # 0 /\ x.pvis[d.p] = No THEN x ELSE Taken(CalcVisibility(g, x, d.s), c, d.s)
Tried(g, st, c, d) == TryValue(g, IF d.p = 0 THEN st ELSE SeeProp(g, st, d.p), c, d)
OrNone(x, c) == IF x.sel[c] = NoSym THEN [x EXCEPT !.cur[c] = No] ELSE x
CalcChoice(g, st, c) ==
  OrNone(FoldLeft(LAMBDA x, d : IF x.sel[c] # NoSym THEN x ELSE Tried(g, x, c, d),
                  st, Candidates(g, st, c)), c)

(***************************************************************************)
(* sym_calc_value, step by step.                                           *)
(***************************************************************************)
Entered(g, st, s) ==
  [st EXCEPT !.valid = @ \union {s}, !.write = IF s \in g.choiceval THEN @ ELSE @ \ {s}]

\* The value while it is being calculated.
Blanked(g, x, s) ==
  [x EXCEPT !.cur[s] = EmptyOf(g, s), !.sel = IF IsChoice(s) THEN [@ EXCEPT ![s] = NoSym] ELSE @]

Written(x, s) == [x EXCEPT !.write = @ \union {s}]

\* A value v of a boolean or tristate is at least what the selects demand.
Raised(g, x, s, v) ==
  [x EXCEPT !.cur[s] = Promoted(TriOr(v, x.rev[s]), SymType(g, x, s) = "bool")]

TriDefault(g, x, s, p) == Raised(g, x, s, TriAnd(Value(g.props[p].expr, x.cur), x.pvis[p]))
OrTriDefault(g, f, s) ==
  IF f.p = 0 THEN Raised(g, f.st, s, No)
  ELSE TriDefault(g, Asked(g, Written(f.st, s), g.props[f.p].expr), s, f.p)
Unset(g, x, s) ==
  IF IsChoice(s) THEN Raised(g, x, s, No) ELSE OrTriDefault(g, FirstProp(g, x, s, "default"), s)
WrittenIf(x, s, written) == IF written THEN Written(x, s) ELSE x

CalcTri(g, x, s) ==
  IF s \in g.choiceval /\ x.vis[s] = Yes
  THEN [x EXCEPT !.cur[s] = IF x.sel[ChoiceOf(g, s)] = s THEN Yes ELSE No]
  ELSE IF x.vis[s] # No /\ s \in x.defd
  THEN Raised(g, Written(x, s), s, TriAnd(x.user[s], x.vis[s]))
  ELSE Unset(g, WrittenIf(x, s, x.vis[s] # No \/ x.rev[s] # No), s)

CopyOf(x, s, t) == [x EXCEPT !.cur[s] = x.cur[t]]
Copied(g, f, e, s) == IF e.t = "sym" THEN CopyOf(Asked(g, Written(f.st, s), e), s, e.s) ELSE f.st
OrDefault(g, f, s) ==
  IF f.p = 0 THEN f.st
  ELSE Copied(g, f, g.props[f.p].expr, s)
CalcText(g, x, s) ==
  IF x.vis[s] # No /\ s \in x.defd
  THEN [Written(x, s) EXCEPT !.cur[s] = x.user[s]]
  ELSE OrDefault(g, FirstProp(g, WrittenIf(x, s, x.vis[s] # No), s, "default"), s)

\* sym_validate_range: a number outside becomes the bound it fails.
Above(g, x, s, e) ==
  IF AsNumber(x.cur[s]) <= AsNumber(x.cur[e.c]) THEN x
  ELSE [x EXCEPT !.cur[s] = AsNumber(x.cur[e.c])]
FromBelow(g, x, s, e) ==
  IF AsNumber(x.cur[s]) >= AsNumber(x.cur[e.s]) THEN Above(g, Asked(g, x, Sym(e.c)), s, e)
  ELSE [x EXCEPT !.cur[s] = AsNumber(x.cur[e.s])]
Clamped(g, f, s) ==
  IF f.p = 0 THEN f.st
  ELSE FromBelow(g, Asked(g, f.st, Sym(g.props[f.p].expr.s)), s, g.props[f.p].expr)
ValidateRange(g, x, s) == IF Ranged(g, s) THEN Clamped(g, FirstProp(g, x, s, "range"), s) ELSE x

CalcOne(g, x, s) ==
  CASE IsTri(g, s) -> CalcTri(g, x, s)
    [] IsText(g, s) -> ValidateRange(g, CalcText(g, x, s), s)
    [] g.type[s] = "unknown" -> x
WithChoice(g, x, s) == IF IsChoice(s) /\ x.cur[s] = Yes THEN CalcChoice(g, x, s) ELSE x

\* Neither modules_sym nor a choice is written, but the values of a choice that
\* would be are.
Spread(g, x, s) ==
  CASE s = Modules -> [x EXCEPT !.modval = x.cur[s], !.write = @ \ {s}]
    [] IsChoice(s) ->
         [x EXCEPT !.write = (IF s \in @ THEN @ \union ToSet(g.members[s]) ELSE @) \ {s}]
    [] ~IsChoice(s) /\ s # Modules -> x

Calc(g, st, s) ==
  IF s \in st.valid THEN st
  ELSE Spread(g, WithChoice(g, CalcOne(g, Blanked(g, CalcVisibility(g, Entered(g, st, s), s), s), s), s), s)

Cleared(st) == [st EXCEPT !.valid = {}, !.dropped = {}, !.retyped = {}]
\* (Wrong variant: the configuration does not count as changed.)
ClearQuietly(g, st) == Calc(g, Cleared(st), Modules)

\* sym_clear_all_valid.
ClearAllValid(g, st) == Calc(g, [Cleared(st) EXCEPT !.changed = TRUE], Modules)

-----------------------------------------------------------------------------
(***************************************************************************)
(* What a front-end may do to a symbol.                                    *)
(***************************************************************************)
\* sym_is_changable.
Changable(st, s) == st.vis[s] > st.rev[s]

\* (Wrong variant: below what the selects demand.)
WithinPrompt(g, st, s, v) == IsTri(g, s) /\ ~(SymType(g, st, s) = "bool" /\ v = Mod) /\ v <= st.vis[s]

\* sym_tristate_within_range.
TristateWithinRange(g, st, s, v) ==
  /\ st.vis[s] # No /\ IsTri(g, s)
  /\ ~(SymType(g, st, s) = "bool" /\ v = Mod)
  /\ st.vis[s] > st.rev[s]
  /\ IF s \in g.choiceval /\ st.vis[s] = Yes THEN v = Yes
     ELSE v \in st.rev[s] .. st.vis[s]

\* sym_set_tristate_value; CanSet is what it returns.
CanSet(g, st, s, v) == st.cur[s] = v \/ TristateWithinRange(g, st, s, v)

\* Choosing a value makes the choice and its visible values no longer new.
Chosen(g, st, s) ==
  LET c == ChoiceOf(g, s)
  IN [st EXCEPT !.usersel[c] = s,
                !.defd = @ \union {c} \union {t \in ToSet(g.members[c]) : st.vis[t] # No}]
UserSet(g, st, s, v) ==
  LET x == [st EXCEPT !.defd = @ \union {s}, !.user[s] = v]
  IN IF s \in g.choiceval /\ v = Yes THEN Chosen(g, x, s) ELSE x
SetTristate(g, st, s, v) ==
  IF ~CanSet(g, st, s, v) THEN st
  ELSE IF st.cur[s] = v THEN UserSet(g, st, s, v)
  ELSE ClearAllValid(g, UserSet(g, st, s, v))

\* sym_toggle_tristate_value: the next value, in turn, that can be set.
Turn(v) == <<(v + 1) % 3, (v + 2) % 3, v>>
Toggle(g, st, s) ==
  SetTristate(g, st, s, SelectSeq(Turn(st.cur[s]), LAMBDA v : CanSet(g, st, s, v))[1])

\* sym_string_valid.
StringValid(g, s, v) == g.type[s] = "string" \/ (Ranged(g, s) /\ v \notin {Empty, Junk})

\* sym_string_within_range of a number, which may calculate the bounds.
InBounds(x, e, v) == v >= AsNumber(x.cur[e.s]) /\ v <= AsNumber(x.cur[e.c])
Bounded(g, f, v) ==
  [st |-> f.st, ok |-> f.p = 0 \/ InBounds(f.st, g.props[f.p].expr, v)]
\* The upper bound is only asked for when the lower one allows the value.
AskHigh(g, x, e, v) == IF v >= AsNumber(x.cur[e.s]) THEN Asked(g, x, Sym(e.c)) ELSE x
AskBounds(g, f, v) ==
  IF f.p = 0 THEN f
  ELSE [f EXCEPT !.st = AskHigh(g, Asked(g, f.st, Sym(g.props[f.p].expr.s)), g.props[f.p].expr, v)]
StringWithinRange(g, st, s, v) ==
  IF ~Ranged(g, s) \/ ~StringValid(g, s, v) THEN [st |-> st, ok |-> StringValid(g, s, v)]
  ELSE Bounded(g, AskBounds(g, FirstProp(g, st, s, "range"), v), v)

\* (Wrong variant: the values that depend on it are kept.)
TextKept(g, x, s, v, bare) == [x EXCEPT !.defd = @ \union {s}, !.user[s] = v, !.changed = TRUE]

\* sym_set_string_value; ok is what it returns.  Nothing is cleared when the text is
\* the one that is there already, even if conf_read has passed over it.  bare: a hex
\* number without 0x, which is taken for a new value in any case.
SameText(x, s) ==
  [x EXCEPT !.defd = @ \union {s}, !.retyped = @ \union ({s} \intersect (x.valid \ x.defd))]
TextSet(g, x, s, v, bare) ==
  IF ~(g.type[s] = "hex" /\ bare) /\ x.user[s] = v THEN SameText(x, s)
  ELSE ClearAllValid(g, [x EXCEPT !.defd = @ \union {s}, !.user[s] = v])
IfInRange(g, r, s, v, bare) == IF r.ok THEN [r EXCEPT !.st = TextSet(g, r.st, s, v, bare)] ELSE r
SetString(g, st, s, v, bare) == IfInRange(g, StringWithinRange(g, st, s, v), s, v, bare)
=============================================================================
