--------------------------- MODULE MCConfigurators ---------------------------
(***************************************************************************)
(* Four small configurations for TLC: one like those of config/, one with  *)
(* selects over blocks, one with modules and tristates, and one with a     *)
(* number that is the bound of another.                                    *)
(***************************************************************************)
EXTENDS Configurators

Statement(t, o) ==
  CASE o[1] = "config"  -> MenuSetType(AddConfig(t, o[2], NoSym), o[2], o[3])
    [] o[1] = "choice"  -> MenuSetType(AddChoice(t, o[2], NoSym), o[2], o[3])
    [] o[1] = "prompt"  -> MenuAddProp(t, "prompt", Null, CheckDep(o[2]))
    [] o[1] = "title"   -> MenuAddProp(t, "menu", Null, CheckDep(o[2]))
    [] o[1] = "depends" -> MenuAddDep(t, CheckDep(o[2]))
    [] o[1] = "default" -> MenuAddProp(t, "default", Sym(o[2]), CheckDep(o[3]))
    [] o[1] = "select"  -> MenuAddProp(t, "select", Sym(o[2]), CheckDep(o[3]))
    [] o[1] = "range"   -> MenuAddProp(t, "range", Comp("range", o[2], o[3]), Null)
    [] o[1] = "modules" -> DefaultModules(t, o[2])
    [] o[1] = "if"      -> AddIf(t, CheckDep(o[2]), NoSym)
    [] o[1] = "menu"    -> AddMenu(t, NoSym)
    [] o[1] = "open"    -> MenuAddMenu(t)
    [] o[1] = "end"     -> MenuEndMenu(t)
WithModules(t) == IF PropsOf(t, Modules) # << >> THEN t ELSE DefaultModules(t, "MODULES")

\* The steps of ConfigFinalize, until the first call returns.
M == INSTANCE MenuFinalize
Back(w, id) == IF w.calls = << >> THEN w
               ELSE IF M!Top(w).does = "below" THEN M!AfterBelow(w, id) ELSE M!AfterFollower(w, id)
Step(w) ==
  LET id == M!In(w)
      menu == M!Top(w).menu
      at(does) == M!Top(w).does = does
  IN CASE at("enter") /\ w.g.menus[id].list # 0 -> M!Descended(w, Inherited(w.g, id))
       [] at("enter") /\ w.g.menus[id].list = 0 ->
            IF w.g.menus[id].sym # NoSym THEN M!Goes(w, "follow", 0) ELSE M!Settles(w)
       [] at("below") -> IF menu # 0 THEN M!Called(w, menu) ELSE M!Settles(w)
       [] at("follow") -> IF Takes(w.g, id, M!Follower(w)) THEN M!Called(w, M!Follower(w)) ELSE M!Adopts(w)
       [] at("settle") /\ menu # 0 -> M!Settled(w, EnlistIn(w.g, id, menu), Children(w.g, menu))
       [] at("settle") /\ menu = 0 -> Back(M!Popped([w EXCEPT !.g = M!Conditioned(@, KeepOn(@, id))]), id)
RECURSIVE Run(_)
Run(w) == IF w.calls = << >> THEN w.g ELSE Run(Step(w))
Finalized(t) == Run([g |-> t, calls |-> << M!Frame(Root, "enter", 0) >>])

TreeOf(statements) == Finalized(WithModules(FoldLeft(Statement, MenuInit, statements)))

Config1(s, type, conds) == << <<"config", s, type>> >> \o conds
Prompt == << <<"prompt", Null>> >>

\* An experimental value of a choice, a number, a string and a menu below it.
Plain ==
  Config1("A", "bool", Prompt)
  \o << <<"choice", "CH", "bool">>, <<"prompt", Null>>, <<"open">> >>
  \o Config1("B", "bool", Prompt)
  \o Config1("C", "bool", Prompt) \o << <<"depends", Sym("A")>>, <<"select", "D", Null>> >>
  \o << <<"end">> >>
  \o Config1("D", "bool", Prompt)
  \o Config1("I", "int", Prompt) \o << <<"range", "1", "3">>, <<"default", "2", Sym("C")>>, <<"default", "1", Null>> >>
  \o << <<"menu">>, <<"depends", Sym("D")>>, <<"open">> >>
  \o Config1("S", "string", Prompt) \o << <<"default", "3", Null>> >>
  \o << <<"end">> >>

\* A block whose symbol is selected from a submenu; bounds that are symbols.
Linked ==
  Config1("J", "int", Prompt)
  \o << <<"range", "1", "I">>, <<"default", "3", Null>>, <<"depends", Sym("D")>> >>
  \o << <<"config", "A", "bool">>, <<"title", Null>>, <<"default", "y", Null>> >>
  \o << <<"if", Sym("A")>> >>
  \o Config1("B", "bool", Prompt) \o << <<"select", "D", Null>> >>
  \o << <<"end">> >>
  \o Config1("D", "bool", Prompt) \o << <<"depends", Not(Sym("C"))>> >>
  \o Config1("C", "bool", << <<"default", "y", Sym("A")>> >>)
  \o Config1("I", "int", Prompt) \o << <<"range", "1", "3">>, <<"default", "2", Null>> >>

\* Tristates, and a choice of them.
Modular ==
  Config1("A", "bool", Prompt) \o << <<"modules", "A">> >>
  \o Config1("T", "tri", Prompt)
  \o Config1("U", "tri", Prompt) \o << <<"depends", Sym("T")>>, <<"select", "V", Null>> >>
  \o Config1("V", "tri", << <<"default", "m", Sym("T")>> >>)
  \o << <<"choice", "TC", "tri">>, <<"prompt", Null>>, <<"open">> >>
  \o Config1("W", "tri", Prompt)
  \o Config1("X", "tri", Prompt)
  \o << <<"end">> >>

\* A bound that can be set, and a value that is copied from what it bounds.
Limits ==
  Config1("J", "int", Prompt) \o << <<"range", "1", "I">>, <<"default", "1", Null>> >>
  \o Config1("I", "int", Prompt) \o << <<"range", "1", "3">>, <<"default", "2", Null>> >>
  \o Config1("S", "string", << <<"default", "J", Null>> >>)

\* The configurations found: none, one that is complete, an older one, and one that
\* has been edited.
Directory(statements, sets, founds) ==
  {[tree |-> TreeOf(statements), found |-> f, keys |-> sets] : f \in founds}
MCDirectories ==
  UNION {
    Directory(Plain, 1,
     {Absent,
      <<ConfLine("A", Yes), ConfLine("C", Yes), ConfLine("B", NotSet), ConfLine("D", NotSet), ConfLine("I", 9)>>,
      <<ConfLine("A", NotSet), ConfLine("I", 3), ConfLine("S", 1), ConfLine(Foreign, 1)>>}),
    Directory(Linked, 1,
     {Absent,
      <<ConfLine("A", Yes), ConfLine("B", Yes), ConfLine("I", 2), ConfLine("J", 3)>>,
      <<ConfLine("A", NotSet), ConfLine("I", 1), ConfLine(Garbage, 0)>>}),
    Directory(Modular, 1,
     {Absent,
      <<ConfLine("A", Yes), ConfLine("T", Mod), ConfLine("U", Yes), ConfLine("W", Mod), ConfLine("X", Yes)>>}),
    Directory(Limits, 2,
     {<<ConfLine("I", 2), ConfLine("J", 3)>>})}

MCNumbers == [t \in {"1", "2", "3"} |-> CASE t = "1" -> 1 [] t = "2" -> 2 [] t = "3" -> 3]
MCOrder == <<"A", "B", "C", "D", "I", "J", "S", "T", "U", "V", "W", "X", "MODULES", "TC", "CH", "MODSYM">>
MCTyped == {3, Empty, Junk}
AnyConfig == Seq([s : Symbols \union {Foreign, Garbage}, v : NotSet .. 9])
=============================================================================
