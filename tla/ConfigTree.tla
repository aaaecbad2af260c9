----------------------------- MODULE ConfigTree -----------------------------
(***************************************************************************)
(* The tree of the configuration language while it is built: expressions   *)
(* as kconfig/expr.c allocates them, and the menus and properties that the *)
(* grammar's actions in kconfig/zconf.tab.c add to it through menu.c, one  *)
(* statement after the other.                                              *)
(*                                                                         *)
(* The tree is a record g.  Menus are numbered in the order of their       *)
(* statements, 1 is rootmenu, 0 is NULL; parent, list and next are the     *)
(* pointers of struct menu.  g.props holds the properties of all symbols   *)
(* in the order they were added.  Warnings are left out.                   *)
(*                                                                         *)
(* The conditions given to the operators below have been through           *)
(* menu_check_dep (ConfigMenu).                                            *)
(***************************************************************************)
EXTENDS Integers, Sequences

CONSTANTS Boolean, Tristate,   \* the symbols of each type (sym->type)
          Valued,       \* the int, hex and string symbols
          ChoiceSyms,   \* the symbols of choice blocks, which have no name of their own
          Modules       \* modules_sym

\* The choices are among the symbols of their type.
ASSUME ChoiceAssumption == ChoiceSyms \subseteq Boolean \union Tristate

(***************************************************************************)
(* Constructors of expressions.  Null stands for the NULL pointer: no      *)
(* condition.                                                              *)
(***************************************************************************)
Null == [t |-> "null"]
Sym(s) == [t |-> "sym", s |-> s]
Not(e) == [t |-> "not", args |-> <<e>>]
Two(op, e1, e2) == [t |-> op, args |-> <<e1, e2>>]
Comp(rel, s, c) == [t |-> rel, s |-> s, c |-> c]

And(e1, e2) == IF e1 = Null THEN e2 ELSE IF e2 = Null THEN e1 ELSE Two("and", e1, e2)
Or(e1, e2) == IF e1 = Null THEN e2 ELSE IF e2 = Null THEN e1 ELSE Two("or", e1, e2)

-----------------------------------------------------------------------------
Symbols == Boolean \union Tristate \union Valued
NoSym == "none"
Root == 1

NewMenu(s, parent, file) ==
  [sym |-> s, parent |-> parent, list |-> 0, next |-> 0, prompt |-> 0, dep |-> Null,
   file |-> file]

NewProp(kind, s, menu, expr, vis) ==
  [kind |-> kind, sym |-> s, menu |-> menu, expr |-> expr, vis |-> vis]

\* menu_init, and the title of rootmenu that conf_parse gives it; last is
\* last_entry_ptr, the list or next slot the following menu goes to.
MenuInit ==
  [menus |-> << [NewMenu(NoSym, 0, NoSym) EXCEPT !.prompt = 1] >>,
   props |-> << NewProp("menu", NoSym, Root, Null, Null) >>,
   entry |-> Root, menu |-> Root, last |-> <<"list", Root>>,
   type |-> [s \in Symbols |-> IF s = Modules THEN "bool" ELSE "unknown"],
   rev |-> [s \in Symbols |-> Null],
   optional |-> {}, choiceval |-> {}, members |-> [c \in ChoiceSyms |-> << >>]]

Link(menus, slot, id) ==
  CASE slot[1] = "list" -> [menus EXCEPT ![slot[2]].list = id]
    [] slot[1] = "next" -> [menus EXCEPT ![slot[2]].next = id]

\* menu_add_entry, in the file the scanner is in.
MenuAddEntry(g, s, file) ==
  LET id == Len(g.menus) + 1
  IN [g EXCEPT !.menus = Append(Link(@, g.last, id), NewMenu(s, g.menu, file)),
               !.last = <<"next", id>>, !.entry = id]

\* menu_add_menu: what follows goes below the current entry.
MenuAddMenu(g) == [g EXCEPT !.last = <<"list", g.entry>>, !.menu = g.entry]

\* (Wrong variant: the current menu stays.)
EndNoMenu(g) == [g EXCEPT !.last = <<"next", g.menu>>]

\* menu_end_menu: what follows goes beside the current menu.
MenuEndMenu(g) == [g EXCEPT !.last = <<"next", g.menu>>, !.menu = g.menus[g.menu].parent]

MenuAddDep(g, e) ==
  [g EXCEPT !.menus[g.entry].dep = And(@, e)]

\* menu_set_type: the first type stays.
MenuSetType(g, s, type) ==
  IF g.type[s] = "unknown" THEN [g EXCEPT !.type[s] = type] ELSE g

\* menu_add_prop, with prop_alloc: the property joins the list of the entry's
\* symbol; one with a text becomes the entry's prompt.
MenuAddProp(g, kind, expr, dep) ==
  LET added == [g EXCEPT !.props = Append(@, NewProp(kind, g.menus[g.entry].sym, g.entry,
                                                     expr, dep))]
  IN IF kind \in {"prompt", "menu", "comment"}
     THEN [added EXCEPT !.menus[g.entry].prompt = Len(added.props)]
     ELSE added

(***************************************************************************)
(* The grammar's actions for the statements of the language.               *)
(***************************************************************************)
AddConfig(g, s, file) ==
  MenuAddEntry([g EXCEPT !.optional = @ \union {s}], s, file)

\* The P_CHOICE property of the choice holds the list of its values: g.members.
AddChoice(g, c, file) ==
  MenuAddProp(MenuAddEntry(g, c, file), "choice", Null, Null)

AddIf(g, e, file) == MenuAddMenu(MenuAddDep(MenuAddEntry(g, NoSym, file), e))

AddMenu(g, file) == MenuAddProp(MenuAddEntry(g, NoSym, file), "menu", Null, Null)

AddComment(g, file) == MenuAddProp(MenuAddEntry(g, NoSym, file), "comment", Null, Null)

\* conf_parse, when no "option modules" has named one: MODULES says whether
\* modules are on.
DefaultModules(g, s) ==
  [g EXCEPT !.props = Append(@, NewProp("default", Modules, 0, Sym(s), Null))]
=============================================================================
