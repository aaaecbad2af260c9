----------------------------- MODULE MenuConfig -----------------------------
(***************************************************************************)
(* menuconfig (kconfig/mconf.c).  screens is the stack of its dialogs, the *)
(* one in front first: a menu, the values of a choice, the value of a      *)
(* symbol, the names to load from or to save to, and the question whether  *)
(* to save at the end.  Help, search and the texts in a box change nothing *)
(* and are left out, and so is the mode with a single menu.                *)
(***************************************************************************)
EXTENDS ConfigPrograms

VARIABLES screens, filename

menuVars == <<screens, filename>>

Screen(t, id) == [t |-> t, id |-> id]
Dialog == screens[1]
Push(t, id) == screens' = <<Screen(t, id)>> \o screens
Pop == screens' = Tail(screens)
Stay == UNCHANGED screens

At(t) == prog = "mconf" /\ ~Writing /\ screens # << >> /\ Dialog.t = t

\* A value is set, which is counted when it has any effect; or only looked at.
Set(x, old) ==
  st' = x /\ Spend(IF x = old THEN 0 ELSE 1, 0) /\ UNCHANGED <<storeVars, g, prog, failed>>
Look(x) == st' = x /\ UNCHANGED <<storeVars, g, prog, failed, bounds>>

StartMenuconfig ==
  /\ Start("mconf")
  /\ st' = ReadConfig
  /\ screens' = <<Screen("menu", Root)>> /\ filename' = Config

-----------------------------------------------------------------------------
(***************************************************************************)
(* build_conf: the lines of a menu.  b.items are the ones that can be      *)
(* selected to some effect, each a menu of the tree with its tag; b.st are *)
(* the values after all have been asked for.                               *)
(***************************************************************************)
Item(b, x, id, tag) == [st |-> x, items |-> b.items \union {<<id, tag>>}]
Lined(b, x) == [b EXCEPT !.st = x]

\* The entry of the value that the choice has chosen, 0 if it is not there.
AskChildren(x, id) == FoldLeft(LAMBDA y, k : AskVisible(g, y, k).st, x, Children(g, id))
DefMenu(x, id) ==
  LET ks == SelectSeq(Children(g, id),
                      LAMBDA k : AskVisible(g, x, k).seen /\ g.menus[k].sym = x.sel[g.menus[id].sym])
  IN IF ks = << >> THEN 0 ELSE ks[Len(ks)]

RECURSIVE BuildConf(_, _, _)
BuildBelow(b, top, id) ==
  FoldLeft(LAMBDA x, k : BuildConf(x, top, k), b, Children(g, id))

\* A choice that is y shows nothing but the entries below its value.
BuildDef(b, top, def) ==
  IF def = 0 \/ g.menus[def].list = 0 THEN b ELSE BuildConf(b, top, def)
BuildChoice(b, top, id, x, def, s) ==
  LET lined == IF Changable(x, s) \/ def # 0 THEN Item(b, x, id, "t") ELSE Lined(b, x)
  IN IF x.cur[s] = Yes THEN BuildDef(lined, top, def) ELSE BuildBelow(lined, top, id)

\* A symbol whose prompt is a menu keeps its entries for itself.
TagOf(x, s) == IF IsText(g, s) THEN "s" ELSE "t"
BuildSymbol(b, top, id, x, s) ==
  CASE id = top -> BuildBelow(Lined(b, x), top, id)
    [] id # top /\ s \in g.choiceval /\ x.cur[s] = Yes ->
         IF IsMenu(id) THEN Lined(b, x) ELSE BuildBelow(Lined(b, x), top, id)
    [] id # top /\ ~(s \in g.choiceval /\ x.cur[s] = Yes) ->
         IF IsMenu(id) /\ ~IsText(g, s) THEN Item(b, x, id, TagOf(x, s))
         ELSE BuildBelow(Item(b, x, id, TagOf(x, s)), top, id)

BuildVisible(b, top, id, x) ==
  CASE g.menus[id].sym = NoSym /\ id # top /\ IsMenu(id) -> Item(b, x, id, "m")
    [] g.menus[id].sym = NoSym /\ ~(id # top /\ IsMenu(id)) -> BuildBelow(Lined(b, x), top, id)
    [] IsChoice(g.menus[id].sym) ->
         BuildChoice(b, top, id, AskChildren(x, id), DefMenu(AskChildren(x, id), id), g.menus[id].sym)
    [] g.menus[id].sym # NoSym /\ ~IsChoice(g.menus[id].sym) ->
         BuildSymbol(b, top, id, x, g.menus[id].sym)

BuildIf(b, top, id, r) == IF r.seen THEN BuildVisible(b, top, id, r.st) ELSE Lined(b, r.st)
BuildConf(b, top, id) == BuildIf(b, top, id, AskVisible(g, b.st, id))

Built == BuildConf([st |-> st, items |-> {}], Dialog.id, Dialog.id)

(***************************************************************************)
(* conf: a menu is built, and a key is pressed on one of its lines.        *)
(***************************************************************************)
\* Enter.
Enter(id, tag, x) ==
  \/ tag = "m" /\ Push("menu", id)
  \/ tag = "s" /\ Push("string", id)
  \/ /\ tag = "t"
     /\ IF IsChoice(g.menus[id].sym) /\ x.cur[g.menus[id].sym] = Yes THEN Push("choice", id)
        ELSE IsMenu(id) /\ Push("menu", id)
MenuEnter ==
  /\ At("menu")
  /\ \E b \in {Built} : \E i \in b.items : Enter(i[1], i[2], b.st) /\ Look(b.st)
  /\ UNCHANGED filename

\* y, n and m; where y is not possible, y tries m.
PressY(x, s) == IF CanSet(g, x, s, Yes) THEN SetTristate(g, x, s, Yes) ELSE SetTristate(g, x, s, Mod)
Pressed(x, s) ==
  {PressY(x, s), SetTristate(g, x, s, No), SetTristate(g, x, s, Mod), Toggle(g, x, s)}
MenuSet ==
  /\ At("menu")
  /\ \E b \in {Built} : \E i \in b.items :
       i[2] = "t" /\ \E x \in Pressed(b.st, g.menus[i[1]].sym) : Set(x, b.st)
  /\ Stay /\ UNCHANGED filename

\* "Load" and "Save an Alternate Configuration File".
MenuFile ==
  /\ At("menu") /\ Dialog.id = Root
  /\ \E t \in {"load", "save"} : Push(t, 0)
  /\ Look(Built.st) /\ UNCHANGED filename

\* Exit or escape.  From the main menu it asks whether to save what has changed.
QuitMenu(x) ==
  IF Len(screens) > 1 THEN Pop /\ Look(x)
  ELSE IF x.changed THEN screens' = <<Screen("quit", 0)>> /\ Look(x)
  ELSE screens' = << >> /\ Gone /\ UNCHANGED <<storeVars, failed, bounds>>
MenuExit == At("menu") /\ QuitMenu(Built.st) /\ UNCHANGED filename

-----------------------------------------------------------------------------
\* conf_choice: one of the visible values is chosen, if any.
ChoiceLines(x, id) ==
  {k \in ToSet(Children(g, id)) : g.menus[k].sym # NoSym /\ AskVisible(g, x, k).seen}
ChooseValue ==
  /\ At("choice")
  /\ \E x \in {AskChildren(st, Dialog.id)} :
       \/ \E k \in ChoiceLines(x, Dialog.id) : Set(SetTristate(g, x, g.menus[k].sym, Yes), x)
       \/ Look(x)
  /\ Pop /\ UNCHANGED filename

\* conf_string: again, until the value is valid.
EnterString ==
  /\ At("string")
  /\ \E v \in TypedFor(g.menus[Dialog.id].sym) : \E r \in {SetString(g, st, g.menus[Dialog.id].sym, v, FALSE)} :
       Set(r.st, st) /\ IF r.ok THEN Pop ELSE Stay
  /\ UNCHANGED filename

\* Escape, or an empty name.
LeaveBox ==
  /\ At("string") \/ At("load") \/ At("save")
  /\ Pop /\ Look(st) /\ UNCHANGED filename

\* conf_load.  conf_read forgets that something has changed before it looks for the
\* file.
LoadFile ==
  /\ At("load")
  /\ \E n \in Names :
       /\ files[n] # Absent
       /\ st' = [ReadFile(g, st, files[n]) EXCEPT !.changed = TRUE]
       /\ filename' = n
  /\ Pop /\ Spend(0, 1) /\ failed' = {} /\ UNCHANGED <<storeVars, g, prog>>
LoadFails ==
  /\ At("load")
  /\ \E n \in Names : files[n] = Absent
  /\ st' = NoFileRead(st, FALSE)
  /\ failed' = failed \union {"load"}
  /\ Stay /\ Spend(0, 1) /\ UNCHANGED <<storeVars, g, prog, filename>>

\* conf_save, and the yes at the end: conf_write to the name given.
SaveTo(n, k) == PrintConfig(n, k) /\ UNCHANGED menuVars
SaveConfig == At("save") /\ \E n \in Names : SaveTo(n, 1)
QuitYes == At("quit") /\ SaveTo(filename, 0)

Saving == screens[1].t = "save"
SaveDone ==
  /\ prog = "mconf" /\ Writing /\ Publish(prog) /\ UNCHANGED <<failed, bounds>>
  /\ IF Saving THEN Pop /\ filename' = pending[prog].name /\ st' = Unchanged(st) /\ UNCHANGED <<g, prog>>
                ELSE screens' = << >> /\ Gone /\ UNCHANGED filename

\* conf_save asks again, the end gives up.
SaveFails ==
  /\ \/ (At("save") \/ At("quit")) /\ OpenFails
     \/ prog = "mconf" /\ Writing /\ RenameFails
  /\ IF Saving THEN Stay /\ UNCHANGED <<g, prog, st>> ELSE screens' = << >> /\ Gone
  /\ UNCHANGED filename

QuitNo ==
  /\ At("quit")
  /\ screens' = << >> /\ Gone /\ UNCHANGED <<storeVars, failed, bounds, filename>>
QuitEscape ==
  /\ At("quit")
  /\ screens' = <<Screen("menu", Root)>> /\ Look(st) /\ UNCHANGED filename

MenuConfigNext ==
  \/ StartMenuconfig \/ MenuEnter \/ MenuSet \/ MenuFile \/ MenuExit
  \/ ChooseValue \/ EnterString \/ LeaveBox \/ LoadFile \/ LoadFails
  \/ SaveConfig \/ QuitYes \/ SaveDone \/ SaveFails \/ QuitNo \/ QuitEscape
=============================================================================
