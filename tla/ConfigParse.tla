----------------------------- MODULE ConfigParse ----------------------------
(***************************************************************************)
(* The parser of the *.in files (kconfig/zconf.tab.c) at work on the       *)
(* tokens of ConfigScan: statement by statement it does to the tree what   *)
(* ConfigBlocks says; conf_parse then finalizes the tree, step by step as  *)
(* ConfigFinalize says, and looks for recursive dependencies.              *)
(*                                                                         *)
(* Every statement of the grammar ends with T_EOL, so the tokens of one    *)
(* statement are collected and reduced together.  A reduction that waits   *)
(* for the first token of the next statement keeps doing so: a list of     *)
(* options ends at a statement that is none of them, and "if_entry: T_IF   *)
(* expr nl", whose nl is any number of T_EOL, is only reduced at the first *)
(* token behind them, wherever the scanner is by then.                     *)
(*                                                                         *)
(* Any error makes the program exit with status 1 at the latest when the   *)
(* parser is done (zconfnerrs), so the recovery that serves further        *)
(* messages is left out.                                                   *)
(***************************************************************************)
EXTENDS ConfigFinalize, ConfigMenu, ConfigDeps

VARIABLES line,      \* the tokens of the statement so far
          written    \* the tree before it was finalized

vars == <<scanVars, line, p, calls, depsVars, status, written>>

Bad == [t |-> "bad"]
Keyword == line[1].k
IsName(token) == token.k \in {"word", "quote"}
NameOf(token) == token.v[1]

-----------------------------------------------------------------------------
(***************************************************************************)
(* The grammar of expressions: || binds least, then &&, both to the left.  *)
(***************************************************************************)
DepthAt(ts, i) ==
  LET Count(k) == Cardinality({j \in 1 .. i - 1 : ts[j].k = k}) IN Count("(") - Count(")")
Splits(ts, op) == {i \in DOMAIN ts : ts[i].k = op /\ DepthAt(ts, i) = 0}
Rel(k) == IF k = "=" THEN "eq" ELSE "ne"

\* The last || that stands outside parentheses, or the last &&.
TopOp(ts) == IF Splits(ts, "||") # {} THEN "||" ELSE "&&"
LastSplit(ts) == CHOOSE i \in Splits(ts, TopOp(ts)) : \A j \in Splits(ts, TopOp(ts)) : j <= i

\* What a sequence of tokens is made of: the operation, and its operands.
Parts(ts) ==
  LET n == Len(ts)
  IN IF Splits(ts, TopOp(ts)) # {}
     THEN <<IF TopOp(ts) = "||" THEN "or" ELSE "and",
            <<SubSeq(ts, 1, LastSplit(ts) - 1), SubSeq(ts, LastSplit(ts) + 1, n)>> >>
     ELSE IF n > 1 /\ ts[1].k = "!" THEN <<"not", <<SubSeq(ts, 2, n)>> >>
     ELSE IF n > 2 /\ ts[1].k = "(" /\ ts[n].k = ")" THEN <<"paren", <<SubSeq(ts, 2, n - 1)>> >>
     ELSE <<"leaf", << >> >>

LeafExpr(ts) ==
  CASE Len(ts) = 3 /\ IsName(ts[1]) /\ ts[2].k \in {"=", "!="} /\ IsName(ts[3]) ->
         Comp(Rel(ts[2].k), NameOf(ts[1]), NameOf(ts[3]))
    [] Len(ts) = 1 /\ IsName(ts[1]) -> Sym(NameOf(ts[1]))
    [] OTHER -> Bad

Combine(op, es) ==
  IF Bad \in ToSet(es) THEN Bad
  ELSE CASE op = "paren" -> es[1] [] op = "not" -> Not(es[1]) [] OTHER -> Two(op, es[1], es[2])

RECURSIVE ParseExpr(_), ParseParts(_, _)
ParseParts(ts, parts) ==
  IF parts[1] = "leaf" THEN LeafExpr(ts)
  ELSE Combine(parts[1], [k \in DOMAIN parts[2] |-> ParseExpr(parts[2][k])])
ParseExpr(ts) == ParseParts(ts, Parts(ts))

-----------------------------------------------------------------------------
(***************************************************************************)
(* The parts of a statement: its operands, up to an "if", and if_expr.     *)
(***************************************************************************)
IfAt == {i \in 2 .. Len(line) : line[i].k = "if"}
FirstIf == CHOOSE i \in IfAt : \A j \in IfAt : i <= j
Operands == SubSeq(line, 2, IF IfAt = {} THEN Len(line) ELSE FirstIf - 1)
Cond == IF IfAt = {} THEN Null ELSE ParseExpr(SubSeq(line, FirstIf + 1, Len(line)))
Dep == CheckDep(Cond)
Operand == Operands[1]

Types == [bool |-> "bool", boolean |-> "bool", tristate |-> "tri", int |-> "int",
          hex |-> "hex", string |-> "string"]
Defaults == [default |-> "unknown", def_bool |-> "bool", def_tristate |-> "tri"]
Ends == [endif |-> "if", endmenu |-> "menu", endchoice |-> "choice"]

\* The statements each list of options, and each block, consists of.
ConfigOptions == DOMAIN Types \union DOMAIN Defaults
                   \union {"prompt", "select", "range", "option", "depends", "help"}
Options == [config |-> ConfigOptions, menuconfig |-> ConfigOptions,
            choice |-> {"bool", "boolean", "tristate", "default", "prompt", "optional",
                        "depends", "help"},
            menu |-> {"depends"}, comment |-> {"depends"}, none |-> {}]
Common == {"if", "comment", "config", "menuconfig", "source"}
Blocks == [if |-> Common \union {"menu", "choice"}, menu |-> Common \union {"menu", "choice"},
           choice |-> Common, none |-> Common \union {"menu", "choice", "mainmenu"}]

\* Is the statement one that may come here?
Placed ==
  \/ Keyword \in Options[p.opts]
  \/ /\ Keyword \notin Options[p.opts]
     /\ Keyword \in Blocks[BlockOf(Opened(p))] \union DOMAIN Ends

SimpleTail == Len(line) = 2 /\ IsName(line[2])
Shaped ==
  CASE Keyword \in {"config", "menuconfig"} -> Len(line) = 2 /\ line[2].k = "word"
    [] Keyword = "choice" -> Len(line) = 1 \/ (Len(line) = 2 /\ line[2].k = "word")
    [] Keyword = "if" -> ParseExpr(Tail(line)) # Bad
    [] Keyword \in {"menu", "comment", "mainmenu", "source"} -> SimpleTail
    [] Keyword \in DOMAIN Ends \union {"optional", "help"} -> Len(line) = 1
    [] Keyword = "depends" -> Len(line) > 2 /\ line[2].k = "on" /\ ParseExpr(SubSeq(line, 3, Len(line))) # Bad
    [] Keyword \in DOMAIN Types ->
         /\ Cond # Bad
         /\ \/ Operands = << >> /\ IfAt = {}
            \/ Len(Operands) = 1 /\ IsName(Operand)
    [] Keyword = "prompt" -> Cond # Bad /\ Len(Operands) = 1 /\ IsName(Operand)
    [] Keyword \in DOMAIN Defaults ->
         /\ Cond # Bad /\ ParseExpr(Operands) # Bad
         /\ p.opts = "choice" => Len(Operands) = 1 /\ Operand.k = "word"
    [] Keyword = "select" -> Cond # Bad /\ Len(Operands) = 1 /\ Operand.k = "word"
    [] Keyword = "range" -> Cond # Bad /\ Len(Operands) = 2 /\ IsName(Operand) /\ IsName(Operands[2])
    [] Keyword = "option" -> Len(line) = 2 /\ line[2].k = "word"
    [] OTHER -> FALSE

-----------------------------------------------------------------------------
\* A token of a statement; the first one lets the parser reduce the if before it.
Shift ==
  /\ Parsing /\ TakeOnly /\ tok.k \notin {"eol", "helptext"}
  /\ line' = Append(line, tok)
  /\ IF line # << >> \/ p.waiting = Null THEN UNCHANGED p ELSE ReduceIf(CheckDep(p.waiting))
  /\ UNCHANGED <<calls, depsVars, status, written>>

EmptyStatement ==
  /\ Parsing /\ TakeOnly /\ tok = EolToken /\ line = << >>
  /\ UNCHANGED <<line, p, calls, depsVars, status, written>>

HelpText ==
  /\ TakeOnly /\ tok.k = "helptext"
  /\ HelpOption(tok.v)
  /\ UNCHANGED <<line, calls, depsVars, status, written>>

Complete(kinds) ==
  /\ Parsing /\ tok = EolToken /\ line # << >>
  /\ Keyword \in kinds /\ Placed /\ Shaped
  /\ line' = << >>
  /\ UNCHANGED <<calls, depsVars, status, written>>

Config == Complete({"config", "menuconfig"}) /\ TakeOnly /\ ConfigEntry(NameOf(line[2]), Keyword)

FreeChoice(g) == CHOOSE c \in ChoiceSyms : \A i \in DOMAIN g.menus : g.menus[i].sym # c
Choice ==
  /\ Complete({"choice"}) /\ TakeOnly
  /\ ChoiceEntry(IF Len(line) = 2 THEN NameOf(line[2]) ELSE FreeChoice(p.g))

If == Complete({"if"}) /\ TakeOnly /\ IfEntry(ParseExpr(Tail(line)))

Menu == Complete({"menu"}) /\ TakeOnly /\ MenuEntry

Comment == Complete({"comment"}) /\ TakeOnly /\ CommentEntry

\* Only the title changes.
Mainmenu == Complete({"mainmenu"}) /\ TakeOnly /\ NoEntry

FileNamed == NameOf(line[2])
SourceFile == Complete({"source"}) /\ NextFile(FileNamed) /\ NoEntry

Depends ==
  /\ Complete({"depends"}) /\ TakeOnly
  /\ DependsOption(CheckDep(ParseExpr(SubSeq(line, 3, Len(line)))))

Type ==
  /\ Complete(DOMAIN Types) /\ TakeOnly
  /\ IF Operands = << >> THEN TypeOption(Types[Keyword]) ELSE PromptedOption(Types[Keyword], Dep)

Prompt == Complete({"prompt"}) /\ TakeOnly /\ PropOption("prompt", Null, Dep)

Default ==
  /\ Complete(DOMAIN Defaults) /\ TakeOnly
  /\ DefaultOption(ParseExpr(Operands), Dep, Defaults[Keyword])

Select == Complete({"select"}) /\ TakeOnly /\ PropOption("select", Sym(NameOf(Operand)), Dep)

Bounds ==
  /\ Complete({"range"}) /\ TakeOnly
  /\ PropOption("range", Comp("range", NameOf(Operand), NameOf(Operands[2])), Dep)

Optional == Complete({"optional"}) /\ TakeOnly /\ OptionalOption

Help == Complete({"help"}) /\ StartHelp /\ UNCHANGED p

Option ==
  /\ Complete({"option"}) /\ TakeOnly
  /\ IF NameOf(line[2]) = "modules" THEN ModulesOption ELSE UNCHANGED p

End == Complete(DOMAIN Ends) /\ TakeOnly /\ EndBlock(Ends[Keyword])

Reject ==
  /\ Parsing
  /\ \/ /\ tok = EolToken /\ line # << >>
        /\ \/ ~(Placed /\ Shaped)
           \/ Placed /\ Shaped /\ Keyword \in DOMAIN Ends /\ ~EndsBlock(Ends[Keyword], Opened(p))
     \/ tok = EndToken /\ (p.waiting # Null \/ Opened(p).blocks # << >>)
     \/ exited
  /\ status' = "failed"
  /\ UNCHANGED <<scanVars, line, p, calls, depsVars, written>>

-----------------------------------------------------------------------------
\* conf_parse after a parse without errors.
ParseDone ==
  /\ tok = EndToken
  /\ Finish(PropsOf(Opened(p).g, Modules) # << >>)
  /\ written' = p'.g
  /\ UNCHANGED <<scanVars, line, depsVars>>

Finalize ==
  /\ \/ EnterMenu(Inherited(p.g, In(Work)))
     \/ EnterEntry \/ EnterLeaf \/ CallBelow \/ BelowDone
     \/ CallFollower /\ Takes(p.g, In(Work), Follower(Work))
     \/ Adopt /\ ~Takes(p.g, In(Work), Follower(Work))
     \/ SettleEntry(EnlistIn(p.g, In(Work), Top(Work).menu), Children(p.g, Top(Work).menu))
     \/ ReturnBelow(KeepOn(p.g, In(Work)))
     \/ ReturnFollower(KeepOn(p.g, In(Work)))
  /\ UNCHANGED <<scanVars, line, depsVars, written>>

FinalizeDone ==
  /\ ReturnLast(KeepOn(p.g, In(Work))) /\ BeginSearch(DepsOf(p'.g))
  /\ UNCHANGED <<scanVars, line, written>>

CheckDeps == status = "checking" /\ SearchStep /\ UNCHANGED <<scanVars, line, p, calls, status, written>>

Loaded ==
  /\ status = "checking" /\ todo = {} /\ path = << >>
  /\ status' = IF marks.errs = 0 THEN "loaded" ELSE "failed"
  /\ UNCHANGED <<scanVars, line, p, calls, depsVars, written>>

\* The program goes on, or exits: the only state in which the parser may rest.
Decided == status \in {"loaded", "failed"} /\ UNCHANGED vars

Init ==
  /\ ScanInit /\ FinalizeInit /\ DepsInit
  /\ line = << >> /\ written = MenuInit

Statement ==
  \/ Config \/ Choice \/ If \/ Menu \/ Comment \/ Mainmenu \/ SourceFile \/ End
  \/ Depends \/ Type \/ Prompt \/ Default \/ Select \/ Bounds \/ Optional \/ Help \/ Option

Next ==
  \/ Parsing /\ Scan /\ UNCHANGED <<line, p, calls, depsVars, status, written>>
  \/ Shift \/ EmptyStatement \/ HelpText
  \/ Statement
  \/ Reject
  \/ ParseDone \/ Finalize \/ FinalizeDone \/ CheckDeps \/ Loaded
  \/ Decided

Spec == Init /\ [][Next]_vars

-----------------------------------------------------------------------------
\* What the texts say of when an entry is there: its own conditions and those of
\* the blocks around it, up to a choice, whose symbol speaks for what is around it.
RECURSIVE Around(_, _, _)
Meant(g, id, e, v) == TriAnd(Value(e, v), Around(g, id, v))
Around(g, id, v) ==
  LET up == g.menus[id].parent
      c == g.menus[up].sym
      own == Value(g.menus[id].dep, v)
  IN IF id = Root THEN Yes
     ELSE IF c \in ChoiceSyms
          THEN TriAnd(own, IF p.g.type[c] = "tri" /\ p.g.type[g.menus[id].sym] # "tri"
                           THEN IF v[c] = Yes THEN Yes ELSE No ELSE v[c])
     ELSE TriAnd(own, Meant(g, up, IF g.menus[up].prompt = 0 THEN Null ELSE PromptOf(g, up).vis, v))

\* The values symbols can have: m is one of tristates only.
Assignments == {a @@ b @@ ConstVal : a \in [Symbols \ Tristate -> {No, Yes}],
                                     b \in [Symbols \intersect Tristate -> Tri]}

\* To what is no tristate a condition that is m is as good as y (symbol.c:206).
Seen(s, x) == IF s # NoSym /\ p.g.type[s] = "tri" THEN x ELSE IF x = Mod THEN Yes ELSE x

\* A tristate stands in the conditions of an entry, and of what is around it, both as it
\* is and negated.
RECURSIVE Signed(_, _)
Signed(e, sign) ==
  CASE e.t = "sym" -> {<<e.s, sign>>}
    [] e.t = "not" -> Signed(e.args[1], ~sign)
    [] e.t \in Ops -> Signed(e.args[1], sign) \union Signed(e.args[2], sign)
    [] OTHER -> {}
RECURSIVE SignedAt(_, _)
SignedAt(g, id) ==
  IF id = Root THEN {}
  ELSE Signed(g.menus[id].dep, TRUE) \union SignedAt(g, g.menus[id].parent)
         \union IF g.menus[id].prompt = 0 THEN {} ELSE Signed(PromptOf(g, id).vis, TRUE)
Opposed(id) == \E s \in Tristate : \A sign \in BOOLEAN : <<s, sign>> \in SignedAt(written, id)

\* Whatever values the symbols have, the condition that menu_finalize leaves with a prompt
\* after propagating, transforming and reducing it is the one the texts say.  Excepted is
\* only what expr_eliminate_dups2 does to a tristate that is m: it takes (FOO || BAR) &&
\* (!FOO && !BAR) for n and (FOO && BAR) || (!FOO || !BAR) for y, which are m then.
ConditionsKept ==
  status = "checking" /\ marks = NoMarks =>
    \A id \in DOMAIN p.g.menus : p.g.menus[id].prompt # 0 =>
      \A v \in Assignments : \E meant \in {Meant(written, id, PromptOf(written, id).vis, v)} :
        \/ Seen(p.g.menus[id].sym, Value(PromptOf(p.g, id).vis, v)) = Seen(p.g.menus[id].sym, meant)
        \/ meant = Mod /\ Opposed(id)

\* A block ends in the file it begins in: what zconf_endtoken's message says,
\* "'%s' in different file than '%s'".  began is the file of its first statement.
EndsInFile ==
  [][Len(p'.blocks) < Len(p.blocks) => p.blocks[Len(p.blocks)].began = at.file]_vars
=============================================================================
