---------------------------- MODULE ConfigBlocks ----------------------------
(***************************************************************************)
(* What the parser of the *.in files (kconfig/zconf.tab.c) does to the     *)
(* tree, reduction by reduction, whatever the statements are made of: the  *)
(* entry that options are added to, the blocks that are open, and the if   *)
(* that is not reduced before the first token behind it.  ConfigParse says *)
(* which tokens make which statement.                                      *)
(***************************************************************************)
EXTENDS ConfigScan, ConfigTree

VARIABLES p,         \* the parser: the tree g, the open blocks, the list of options
                     \* it is in, the if it has not reduced yet; and, which the
                     \* code does not keep, the file the last entry began in
          status

Parsing == status = "parsing"

\* A menu or choice becomes a block when the list of its options ends; a
\* menuconfig turns its prompt into that of a menu.
Opened(q) ==
  CASE q.opts \in {"menu", "choice"} ->
         [q EXCEPT !.g = MenuAddMenu(q.g), !.opts = "none",
                   !.blocks = Append(@, [k |-> q.opts, menu |-> q.g.entry, began |-> q.began])]
    [] q.opts = "menuconfig" /\ q.g.menus[q.g.entry].prompt # 0 ->
         [q EXCEPT !.opts = "none", !.g.props[q.g.menus[q.g.entry].prompt].kind = "menu"]
    [] OTHER -> [q EXCEPT !.opts = "none"]

BlockOf(q) == IF q.blocks = << >> THEN "none" ELSE q.blocks[Len(q.blocks)].k

\* The first token of a statement reduces the if before it: the entry, its condition
\* and the block get the file of this token.
ReduceIf(e) ==
  /\ Parsing /\ p.waiting # Null
  /\ p' = LET g == AddIf(p.g, e, Current)
          IN [p EXCEPT !.g = g, !.waiting = Null,
                       !.blocks = Append(@, [k |-> "if", menu |-> g.entry, began |-> p.began])]

\* Statements are only reduced after that.
Reducing == Parsing /\ p.waiting = Null

\* A statement that opens an entry, in the file the scanner is in.
Entry(g, opts) == Reducing /\ p' = [Opened(p) EXCEPT !.g = g, !.opts = opts, !.began = at.file]
ConfigEntry(s, keyword) == Entry(AddConfig(Opened(p).g, s, Current), keyword)
ChoiceEntry(c) == Entry(AddChoice(Opened(p).g, c, Current), "choice")
MenuEntry == Entry(AddMenu(Opened(p).g, Current), "menu")
CommentEntry == Entry(AddComment(Opened(p).g, Current), "comment")

IfEntry(e) == Reducing /\ p' = [Opened(p) EXCEPT !.waiting = e, !.began = at.file]

\* mainmenu and source only end the list of options.
NoEntry == Reducing /\ p' = Opened(p)

\* An option of the entry.
DependsOption(e) == Reducing /\ p' = [p EXCEPT !.g = MenuAddDep(@, e)]
PropOption(kind, e, dep) == Reducing /\ p' = [p EXCEPT !.g = MenuAddProp(@, kind, e, dep)]
TypeOption(type) == Reducing /\ p' = [p EXCEPT !.g = MenuSetType(@, @.menus[@.entry].sym, type)]
\* The prompt of a type is optional.
PromptedOption(type, dep) ==
  /\ Reducing
  /\ p' = [p EXCEPT !.g =
             MenuAddProp(MenuSetType(@, @.menus[@.entry].sym, type), "prompt", Null, dep)]
DefaultOption(e, dep, type) ==
  /\ Reducing
  /\ p' = [p EXCEPT !.g =
             LET g == MenuAddProp(@, "default", e, dep)
             IN MenuSetType(g, g.menus[g.entry].sym, type)]
OptionalOption == Reducing /\ p' = [p EXCEPT !.g.optional = @ \union {p.g.menus[p.g.entry].sym}]
\* option modules: this symbol tells whether modules are on.
ModulesOption == Reducing /\ p' = [p EXCEPT !.g = DefaultModules(@, p.g.menus[p.g.entry].sym)]

\* menu_end_entry does nothing; the text of the help is kept with the entry.
HelpOption(helptext) ==
  /\ Parsing
  /\ p' = [p EXCEPT !.help = [id \in DOMAIN @ \union {p.g.entry} |->
                               IF id = p.g.entry THEN helptext ELSE @[id]]]

\* zconf_endtoken: the end of a block is of its kind, and in its file.
EndsBlock(kind, q) == /\ kind = BlockOf(q)
                      /\ q.g.menus[q.g.menu].file = Current
EndBlock(kind) ==
  /\ Reducing /\ kind # "none" /\ EndsBlock(kind, Opened(p))
  /\ p' = [Opened(p) EXCEPT !.g = MenuEndMenu(@), !.blocks = SubSeq(@, 1, Len(@) - 1)]

BlocksInit ==
  /\ p = [g |-> MenuInit, blocks |-> << >>, opts |-> "none", waiting |-> Null, began |-> NoFile,
          help |-> << >>]
  /\ status = "parsing"

EntryNext ==
  \/ \E s, keyword : keyword \in {"config", "menuconfig"} /\ ConfigEntry(s, keyword)
  \/ \E c : ChoiceEntry(c)
  \/ MenuEntry \/ CommentEntry \/ NoEntry
  \/ \E e : IfEntry(e) \/ ReduceIf(e)

OptionNext ==
  \/ \E e : DependsOption(e)
  \/ \E kind, e, dep : PropOption(kind, e, dep)
  \/ \E type : TypeOption(type)
  \/ \E type, dep : PromptedOption(type, dep)
  \/ \E type, e, dep : DefaultOption(e, dep, type)
  \/ OptionalOption \/ ModulesOption
  \/ \E helptext : HelpOption(helptext)

StatementNext == EntryNext \/ OptionNext \/ \E kind : EndBlock(kind)

\* Any statements, until the parser is done, one way or the other, with the tree.
BlocksNext ==
  \/ StatementNext /\ UNCHANGED status
  \/ status' # "parsing"

BlocksSpec == BlocksInit /\ [][BlocksNext]_<<p, status>>

-----------------------------------------------------------------------------
\* The menus of the open blocks are those between the current one and the root, so that
\* every statement lands in the block it is written in.
BlocksChain(q) ==
  LET Outside(i) == IF i = 1 THEN Root ELSE q.blocks[i - 1].menu
  IN /\ q.g.menu = Outside(Len(q.blocks) + 1)
     /\ \A i \in DOMAIN q.blocks : q.g.menus[q.blocks[i].menu].parent = Outside(i)

\* The slot the next entry is linked to is empty: what it would replace would be lost.
SlotFree(g) == LET slot == g.last IN g.menus[slot[2]][slot[1]] = 0

\* The tree is built as the statements are nested.
BlocksAgree == Parsing => BlocksChain(p) /\ SlotFree(p.g)
=============================================================================
