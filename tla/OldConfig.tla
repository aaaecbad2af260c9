------------------------------ MODULE OldConfig ------------------------------
(***************************************************************************)
(* oldconfig, which is conf -s (kconfig/conf.c): it asks for every symbol  *)
(* that has no value yet, again and again until there is none.             *)
(*                                                                         *)
(* todo holds what the nested calls of check_conf, conf, conf_sym,         *)
(* conf_string and conf_choice have yet to do, the next thing first.       *)
(***************************************************************************)
EXTENDS ConfigPrograms

VARIABLES todo, rootEntry, cnt

oldVars == <<todo, rootEntry, cnt>>

Task(t, id) == [t |-> t, id |-> id, isNew |-> FALSE]
Then(ts) == todo' = ts \o Tail(todo)
ForChildren(t, id) == [k \in DOMAIN Children(g, id) |-> Task(t, Children(g, id)[k])]

Asking == prog = "conf" /\ ~Writing
Doing(t) == Asking /\ todo # << >> /\ todo[1].t = t
Id == todo[1].id
Sym1 == g.menus[Id].sym

Same == UNCHANGED <<storeVars, g, prog, failed, bounds>>
Only(x) == st' = x /\ Same
\* An answer that has been typed, or return alone, which keys do not count: at the
\* end of its input conf takes every answer for that.
Answer(x, typed) ==
  st' = x /\ Spend(IF typed THEN 1 ELSE 0, 0) /\ UNCHANGED <<storeVars, g, prog, failed>>

HasValue(x, s) == s \in x.defd

\* main: without a .config, nothing.
StartOldconfig ==
  /\ files[Config] # Absent /\ Start("conf")
  /\ st' = ReadConfig
  /\ todo' = <<Task("check", Root)>> /\ rootEntry' = 0 /\ cnt' = 0

-----------------------------------------------------------------------------
\* menu_get_parent_menu: the menu an entry is in, or the entry that is one.
RECURSIVE ParentMenu(_)
ParentMenu(id) == IF id = Root \/ IsMenu(id) THEN id ELSE ParentMenu(g.menus[id].parent)

\* check_conf: a symbol without a value, that can be changed, makes conf go through
\* the menu it is in.
\* (Wrong variant: whether or not it can be changed.)
MissingAny(x, s) == s # NoSym /\ ~HasValue(x, s)
Missing(x, s) ==
  /\ s # NoSym /\ ~HasValue(x, s)
  /\ Changable(x, s) \/ (IsChoice(s) /\ x.cur[s] = Yes)
CheckConf ==
  /\ Doing("check")
  /\ \E r \in {AskVisible(g, st, Id)} :
       /\ Only(r.st)
       /\ IF r.seen /\ Missing(r.st, Sym1)
          THEN /\ cnt' = 1 /\ rootEntry' = ParentMenu(Id)
               /\ Then(<<Task("conf", ParentMenu(Id))>> \o ForChildren("check", Id))
          ELSE /\ UNCHANGED <<cnt, rootEntry>>
               /\ Then(IF r.seen THEN ForChildren("check", Id) ELSE << >>)

\* conf: another menu is only checked.
TasksOf(id, s) ==
  CASE s = NoSym -> ForChildren("conf", id)
    [] s # NoSym /\ IsChoice(s) -> <<Task("choice", id), Task("after", id)>>
    [] s # NoSym /\ ~IsChoice(s) ->
         <<Task(IF IsText(g, s) THEN "string" ELSE "sym", id)>> \o ForChildren("conf", id)
Conf ==
  /\ Doing("conf")
  /\ \E r \in {AskVisible(g, st, Id)} :
       /\ Only(r.st)
       /\ Then(IF ~r.seen THEN << >>
               ELSE IF IsMenu(Id) /\ rootEntry # Id THEN <<Task("check", Id)>>
               ELSE TasksOf(Id, Sym1))
  /\ UNCHANGED <<cnt, rootEntry>>

\* conf_askvalue: only a symbol that can be changed and has no value is asked for.
Asks(s) == Changable(st, s) /\ ~HasValue(st, s)
Skip ==
  /\ Doing("sym") \/ Doing("string")
  /\ ~Asks(Sym1)
  /\ Then(<< >>) /\ Only(st) /\ UNCHANGED <<cnt, rootEntry>>

\* conf_sym: n, m, y, or return for the value shown; what cannot be set is asked for
\* again.
AnswerSym ==
  /\ Doing("sym") /\ Asks(Sym1)
  /\ \E v \in Tri, typed \in BOOLEAN :
       /\ typed \/ v = st.cur[Sym1]
       /\ CanSet(g, st, Sym1, v)
       /\ Answer(SetTristate(g, st, Sym1, v), typed)
  /\ Then(<< >>) /\ UNCHANGED <<cnt, rootEntry>>

\* conf_string.
AnswerString ==
  /\ Doing("string") /\ Asks(Sym1)
  /\ \E v \in (TypedFor(Sym1) \ {Empty}) \union {st.cur[Sym1]}, typed \in BOOLEAN :
       /\ typed \/ v = st.cur[Sym1]
       /\ \E r \in {SetString(g, st, Sym1, v, FALSE)} :
            Answer(r.st, typed) /\ Then(IF r.ok THEN << >> ELSE <<todo[1]>>)
  /\ UNCHANGED <<cnt, rootEntry>>

(***************************************************************************)
(* conf_choice.                                                            *)
(***************************************************************************)
ChoiceTask(t, isNew) == [t |-> t, id |-> Id, isNew |-> isNew]
EnterChoice ==
  /\ Doing("choice")
  /\ Then((IF Changable(st, Sym1) THEN <<Task("sym", Id)>> ELSE << >>)
            \o <<ChoiceTask("decide", ~HasValue(st, Sym1))>>)
  /\ Only(st) /\ UNCHANGED <<cnt, rootEntry>>

\* Only a choice that is y has one value.
Decide ==
  /\ Doing("decide")
  /\ \E x \in {Calc(g, st, Sym1)} :
       /\ Only(x)
       /\ Then(IF x.cur[Sym1] = Yes THEN <<ChoiceTask("pick", todo[1].isNew)>> ELSE << >>)
  /\ UNCHANGED <<cnt, rootEntry>>

\* The visible values, and where the chosen one is among them; 0 if it is not.
AskKids(x) == FoldLeft(LAMBDA y, k : AskVisible(g, y, k).st, x, Children(g, Id))
ValuesIn(x) ==
  SelectSeq(Children(g, Id), LAMBDA k : g.menus[k].sym # NoSym /\ AskVisible(g, x, k).seen)
DefOf(x) ==
  LET at == {k \in DOMAIN ValuesIn(x) : g.menus[ValuesIn(x)[k]].sym = x.sel[Sym1]}
  IN IF at = {} THEN 0 ELSE CHOOSE k \in at : TRUE

\* A single value is taken; else it is asked for when the choice is new, and kept
\* otherwise.  Without a value to take it goes around for ever.
Numbered(x, typed) ==
  IF Len(ValuesIn(x)) = 1 THEN IF typed THEN {} ELSE {1}
  ELSE IF typed THEN IF todo[1].isNew THEN DOMAIN ValuesIn(x) ELSE {}
  ELSE {DefOf(x)} \ {0}
PickValue ==
  /\ Doing("pick")
  /\ \E x \in {AskKids(st)} : \E typed \in BOOLEAN : \E k \in Numbered(x, typed) :
       \E id \in {ValuesIn(x)[k]} :
         /\ Answer(SetTristate(g, x, g.menus[id].sym, Yes), typed)
         /\ Then(ForChildren("conf", id))
  /\ UNCHANGED <<cnt, rootEntry>>

\* A choice that is m has its values asked for one by one.
AfterChoice ==
  /\ Doing("after")
  /\ Then(IF st.cur[Sym1] = Mod THEN ForChildren("conf", Id) ELSE << >>)
  /\ Only(st) /\ UNCHANGED <<cnt, rootEntry>>

-----------------------------------------------------------------------------
\* (Wrong variant: one time through the menus is enough.)
PassedOnce == Asking /\ todo = << >>

\* main: until nothing has been asked for.
Passed == Asking /\ todo = << >> /\ cnt = 0
AskAgain ==
  /\ Asking /\ todo = << >> /\ cnt # 0
  /\ todo' = <<Task("check", Root)>> /\ cnt' = 0
  /\ Only(st) /\ UNCHANGED rootEntry

\* The file is only written when something has changed.
OldconfigEnds ==
  /\ Passed /\ ~st.changed
  /\ Gone /\ UNCHANGED <<storeVars, failed, bounds, oldVars>>
OldconfigWrites == Passed /\ st.changed /\ PrintConfig(Config, 0) /\ UNCHANGED oldVars
OldconfigDone ==
  /\ prog = "conf" /\ Writing /\ Publish(prog) /\ Gone /\ UNCHANGED <<failed, bounds, oldVars>>
OldconfigFails ==
  /\ \/ Passed /\ st.changed /\ OpenFails
     \/ prog = "conf" /\ Writing /\ RenameFails
  /\ Gone /\ UNCHANGED oldVars

\* What conf does once it runs, whoever answers.
ConfStep ==
  \/ CheckConf \/ Conf \/ Skip \/ AnswerSym \/ AnswerString
  \/ EnterChoice \/ Decide \/ PickValue \/ AfterChoice
  \/ AskAgain \/ OldconfigEnds \/ OldconfigWrites \/ OldconfigDone \/ OldconfigFails
=============================================================================
