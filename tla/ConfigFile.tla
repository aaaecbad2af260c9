----------------------------- MODULE ConfigFile -----------------------------
(***************************************************************************)
(* Reading and writing configuration files (kconfig/confdata.c).  A file   *)
(* is a sequence of lines [s, v]: "CT_s=v", or "# CT_s is not set" where v *)
(* is NotSet.  The name of a line may be one that no *.in file declares,   *)
(* or the line may be nothing of the kind.                                 *)
(*                                                                         *)
(* A record r goes through the reading of a file: st, the values of        *)
(* ConfigSymbols; warned, conf_warnings # 0; unsaved, conf_unsaved # 0.    *)
(***************************************************************************)
EXTENDS ConfigSymbols

CONSTANTS SymbolOrder   \* for_all_symbols: by hash, which puts the choices last

ASSUME SymbolOrderAssumption == ToSet(SymbolOrder) = Symbols

\* The symbols of the tree, in this order.
Declared(g) == SelectSeq(SymbolOrder, LAMBDA s : g.type[s] # "unknown")

NotSet == -4            \* the value of "# CT_... is not set"
Foreign == "foreign"    \* a name no *.in file declares
Garbage == "garbage"    \* no line of a configuration
ConfLine(s, v) == [s |-> s, v |-> v]

\* conf_read_simple forgets the user's values.
Forgotten(g, st) ==
  [Cleared(st) EXCEPT !.defd = ChoiceSyms \intersect ToSet(Declared(g)), !.user = NoUser(g), !.usersel = NoUserSel]

Warn(r) == [r EXCEPT !.warned = TRUE]
WarnIf(r, cond) == IF cond THEN Warn(r) ELSE r

\* conf_set_sym_val: which values a symbol takes; a string without quotes is passed
\* over.
Accepts(g, s, v) ==
  CASE g.type[s] = "tri" -> v \in Tri
    [] g.type[s] = "bool" -> v \in {No, Yes}
    [] g.type[s] \notin {"bool", "tri"} -> v # Junk /\ StringValid(g, s, v)
SetUser(r, s, v) == [r EXCEPT !.st.user[s] = v, !.st.defd = @ \union {s}]
SetSymVal(g, r, s, v) ==
  IF Accepts(g, s, v) THEN SetUser(r, s, v) ELSE WarnIf(r, g.type[s] # "string")

\* (Wrong variant: "is not set" sets nothing.)
TakeSet(g, r, s, v) == IF v = NotSet THEN r ELSE SetSymVal(g, r, s, v)

\* The line itself: "is not set" says nothing of an int, hex or string.
TakeLine(g, r, s, v) ==
  CASE v = NotSet /\ IsTri(g, s) -> SetUser(r, s, No)
    [] v = NotSet /\ ~IsTri(g, s) -> r
    [] v # NotSet -> SetSymVal(g, r, s, v)

\* What the value of a choice means for the choice.
Inconsistent(r, c) ==
  IF r.st.user[c] = Yes THEN Warn([r EXCEPT !.st.defd = @ \ {c}]) ELSE r
ForChoice(r, c, s) ==
  CASE r.st.user[s] = No -> r
    [] r.st.user[s] = Mod -> Inconsistent(r, c)
    [] r.st.user[s] = Yes -> WarnIf([r EXCEPT !.st.usersel[c] = s], r.st.user[c] # No)
WithValue(r, c, s) == [r EXCEPT !.st.user[c] = TriOr(@, r.st.user[s])]
JoinChoice(g, r, s) ==
  IF s \in g.choiceval THEN WithValue(ForChoice(r, ChoiceOf(g, s), s), ChoiceOf(g, s), s) ELSE r

ReadLine(g, r, l) ==
  CASE l.s = Garbage -> Warn(r)
    [] l.s = Foreign -> [r EXCEPT !.st.changed = TRUE]
    [] l.s \in Symbols ->
         JoinChoice(g, TakeLine(g, WarnIf(r, l.s \in r.st.defd), l.s, l.v), l.s)

ReadLines(g, st, file) ==
  FoldLeft(LAMBDA r, l : ReadLine(g, r, l),
           [st |-> Forgotten(g, st), warned |-> FALSE, unsaved |-> FALSE], file)
CalcModules(g, r) == [r EXCEPT !.st = Calc(g, @, Modules)]

(***************************************************************************)
(* conf_read: does the configuration say the same as the file?             *)
(***************************************************************************)
\* A value the file has is the one calculated, and none is missing.
Agrees(g, st, s) ==
  \/ IsChoice(s) \/ s = Modules
  \/ IF s \in st.defd THEN s \in st.write /\ st.user[s] = st.cur[s] ELSE s \notin st.write
Compare(g, r, s) == IF Agrees(g, r.st, s) THEN r ELSE [r EXCEPT !.unsaved = TRUE]

\* A choice is new while one of its visible values is.
NewChoice(g, r, s) ==
  IF IsChoice(s) /\ \E t \in ToSet(g.members[s]) : r.st.vis[t] # No /\ t \notin r.st.defd
  THEN [r EXCEPT !.st.defd = @ \ {s}] ELSE r
CompareOne(g, r, s) == NewChoice(g, Compare(g, [r EXCEPT !.st = Calc(g, @, s)], s), s)
CompareAll(g, r) == FoldLeft(LAMBDA x, s : CompareOne(g, x, s), r, Declared(g))

\* Values nobody can see are forgotten, unless something disagreed; a number out of
\* its range is in any case, and its symbol, and no other, is calculated again.
ForgetHidden(r, s) ==
  IF r.st.vis[s] = No /\ ~r.unsaved THEN [r EXCEPT !.st.defd = @ \ {s}] ELSE r
OutOfRange(r, s, checked) ==
  IF checked.ok THEN [r EXCEPT !.st = checked.st]
  ELSE [r EXCEPT !.unsaved = TRUE,
                 !.st = [checked.st EXCEPT !.valid = @ \ {s}, !.defd = @ \ {s},
                                           !.dropped = @ \union {s}]]
ForgetOutOfRange(g, r, s) ==
  IF IsTri(g, s) THEN r ELSE OutOfRange(r, s, StringWithinRange(g, r.st, s, r.st.user[s]))
ForgetOne(g, r, s) ==
  IF s \in r.st.defd \ g.choiceval THEN ForgetOutOfRange(g, ForgetHidden(r, s), s) ELSE r
ForgetAll(g, r) == FoldLeft(LAMBDA x, s : ForgetOne(g, x, s), r, Declared(g))

ReadResult(r) == [r.st EXCEPT !.changed = @ \/ r.warned \/ r.unsaved]
Unchanged(st) == [st EXCEPT !.changed = FALSE]

\* conf_read of a file that is there; without it only the count has changed.
ReadFile(g, st, file) ==
  ReadResult(ForgetAll(g, CompareAll(g, CalcModules(g, ReadLines(g, Unchanged(st), file)))))
NoFileRead(st, isDefault) == [st EXCEPT !.changed = isDefault]

(***************************************************************************)
(* conf_write: a line for every symbol that is to be written, where the    *)
(* tree first has it.                                                      *)
(***************************************************************************)
RECURSIVE MenuOrder(_, _)
MenuOrder(g, id) ==
  <<id>> \o FlattenSeq([k \in DOMAIN Children(g, id) |-> MenuOrder(g, Children(g, id)[k])])

LineOf(g, st, s) == ConfLine(s, IF IsTri(g, s) /\ st.cur[s] = No THEN NotSet ELSE st.cur[s])
AskModules(g, st, s) == IF g.type[s] = "tri" THEN Calc(g, st, Modules) ELSE st
Line(g, w, st, s) == [st |-> st, file |-> Append(w.file, LineOf(g, st, s))]
Output(g, w, s) ==
  IF s \notin w.st.write THEN w
  ELSE Line(g, w, AskModules(g, [w.st EXCEPT !.write = @ \ {s}], s), s)
\* (Wrong variant: the value is taken as it is.)
OutputStale(g, w, id, s) == IF s = NoSym \/ IsChoice(s) THEN w ELSE Output(g, w, s)
OutputMenu(g, w, id, s) ==
  CASE s = NoSym /\ g.menus[id].prompt # 0 -> [w EXCEPT !.st = SeeProp(g, @, g.menus[id].prompt)]
    [] s = NoSym /\ g.menus[id].prompt = 0 -> w
    [] s # NoSym /\ IsChoice(s) -> w
    [] s # NoSym /\ ~IsChoice(s) -> Output(g, [w EXCEPT !.st = Calc(g, @, s)], s)

\* The file, and the symbols after it has been written; the count is reset when the
\* file has its name.
WriteFile(g, st) ==
  FoldLeft(LAMBDA w, id : OutputMenu(g, w, id, g.menus[id].sym),
           [st |-> IF st.changed THEN st ELSE ClearAllValid(g, st), file |-> << >>],
           Tail(MenuOrder(g, Root)))

(***************************************************************************)
(* menu_is_visible.  The prompt of a symbol is as visible as it was when   *)
(* the symbol was last calculated.                                         *)
(***************************************************************************)
AskMenu(g, st, id) ==
  IF g.menus[id].prompt = 0 THEN st
  ELSE IF g.menus[id].sym = NoSym THEN SeeProp(g, st, g.menus[id].prompt)
  ELSE Calc(g, st, g.menus[id].sym)
\* menu_is_visible asks for the entries below one by one, until one is visible.
RECURSIVE AskVisible(_, _, _)
Shown(g, st, id) == g.menus[id].prompt # 0 /\ st.pvis[g.menus[id].prompt] # No
HasBelow(g, st, id) == /\ g.menus[id].prompt # 0 /\ ~Shown(g, st, id)
                       /\ g.menus[id].sym # NoSym /\ IsTri(g, g.menus[id].sym)
                       /\ st.cur[g.menus[id].sym] # No
BelowVisible(g, st, id) ==
  FoldLeft(LAMBDA f, k : IF f.seen THEN f ELSE AskVisible(g, f.st, k),
           [st |-> st, seen |-> FALSE], Children(g, id))
VisibleFrom(g, st, id) ==
  IF HasBelow(g, st, id) THEN BelowVisible(g, st, id) ELSE [st |-> st, seen |-> Shown(g, st, id)]
AskVisible(g, st, id) == VisibleFrom(g, AskMenu(g, st, id), id)
=============================================================================
