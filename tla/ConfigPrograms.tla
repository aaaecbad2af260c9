--------------------------- MODULE ConfigPrograms ---------------------------
(***************************************************************************)
(* What the two configurators share: the tree they have parsed, the values *)
(* in memory, and how conf_write puts the values into a file.  MenuConfig  *)
(* and OldConfig add what each of them does between reading the            *)
(* configuration and writing it.                                           *)
(***************************************************************************)
EXTENDS ConfigFile, ConfigStore

CONSTANTS Directories,  \* where it begins: [tree, found, keys], the tree of some *.in
                        \* files, the configuration that is there before the first run,
                        \* and a bound: how many values are set in all the runs
          Config,       \* conf_get_configname(): .config
          Typed,        \* the values a user types for an int, hex or string
          MaxRuns,      \* bound: how often a configurator is started
          MaxFaults     \* bound: kills, calls that fail, and files that are loaded or
                        \* saved on the way

ASSUME ConfigAssumption == Config \in Names
ASSUME TypedAssumption == Typed \subseteq Nat \union {Empty, Junk}

VARIABLES g,            \* the tree
          prog,         \* the configurator that runs, or "none"
          st,           \* the values of the symbols in its memory
          runs, faults, \* how much of these bounds is used up
          keys,         \* how many values may still be set
          failed        \* history: what has failed since the configuration was read:
                        \* a "load", a "rename", or a write to a "full" disk

memory == <<g, prog, st, failed>>
bounds == <<runs, keys, faults>>
sharedVars == <<storeVars, memory, bounds>>

SharedInit ==
  /\ \E d \in Directories :
       /\ g = d.tree /\ keys = d.keys
       /\ StoreInit([n \in Names |-> IF n = Config THEN d.found ELSE Absent], Config)
  /\ prog = "none" /\ st = Uncalculated(g) /\ failed = {}
  /\ runs = 0 /\ faults = 0

Spend(k, f) == /\ keys >= k /\ keys' = keys - k
               /\ faults + f <= MaxFaults /\ faults' = faults + f
               /\ UNCHANGED runs

\* conf_parse and conf_read(NULL).
ReadConfig == IF files[Config] = Absent THEN NoFileRead(Uncalculated(g), TRUE)
              ELSE ReadFile(g, Uncalculated(g), files[Config])
Start(p) ==
  /\ prog = "none" /\ runs < MaxRuns
  /\ prog' = p /\ runs' = runs + 1 /\ failed' = {}
  /\ UNCHANGED <<storeVars, g, keys, faults>>

\* Any text is one for a string.
TypedFor(s) == IF g.type[s] = "string" THEN Typed \ {Junk} ELSE Typed

\* The program is gone, and its memory with it.
Gone == prog' = "none" /\ st' = Uncalculated(g) /\ UNCHANGED g

\* An entry whose prompt is a menu.
IsMenu(id) == g.menus[id].prompt # 0 /\ PromptOf(g, id).kind = "menu"

Writing == prog # "none" /\ pending[prog].stage # "idle"

(***************************************************************************)
(* conf_write.                                                             *)
(***************************************************************************)
\* fclose is not asked whether all has been written: on a full disk half of the
\* lines are.
Half(c) == SubSeq(c, 1, Len(c) \div 2)
PrintConfig(name, f) ==
  \E w \in {WriteFile(g, st)} :
    /\ st' = w.st
    /\ \/ WriteTmp(prog, name, w.file) /\ Spend(0, f) /\ UNCHANGED failed
       \/ WriteTmp(prog, name, Half(w.file)) /\ Spend(0, f + 1) /\ failed' = failed \union {"full"}
    /\ UNCHANGED <<g, prog>>

\* The old file is replaced, and then the file.
BackupConfig ==
  /\ Writing /\ Backup(prog)
  /\ UNCHANGED <<memory, bounds>>

\* The temporary file cannot be opened; or the last rename fails, after every value
\* has been marked as written.
OpenFails == Spend(0, 1) /\ UNCHANGED <<storeVars, failed>>
RenameFails == FailPublish(prog) /\ Spend(0, 1) /\ failed' = failed \union {"rename"}

Kill ==
  /\ prog # "none" /\ Spend(0, 1) /\ UNCHANGED failed
  /\ Killed(prog) /\ Gone

-----------------------------------------------------------------------------
(***************************************************************************)
(* What the properties speak of.                                           *)
(***************************************************************************)
CalcAll(x) == FoldLeft(LAMBDA y, s : Calc(g, y, s), x, Declared(g))
Fresh(x) == CalcAll(ClearAllValid(g, x))

\* What the calculation of a symbol asks for.
OperandsOf(p) == CASE p.kind = "select" -> {} [] p.kind = "range" -> {p.expr.s, p.expr.c}
                   [] OTHER -> ToSet(SymsOf(p.expr))
ReadsOf(s) ==
  UNION {ToSet(SymsOf(p.vis)) \union OperandsOf(p) : p \in {q \in ToSet(g.props) : q.sym = s}}
    \union ToSet(SymsOf(g.rev[s])) \union IF IsChoice(s) THEN ToSet(g.members[s]) ELSE {}

\* Where an old value may be left.  conf_read takes a number that is out of range away
\* after the others have been calculated from it, and clears that symbol alone
\* (confdata.c:378).  The text stays, and when it is typed again sym_set_string_value
\* finds nothing new and clears nothing (symbol.c:622).
ReadersOf(ss) == {s \in ToSet(Declared(g)) : ReadsOf(s) \intersect ss # {}}
RECURSIVE WithReaders(_)
WithReaders(ss) == IF ReadersOf(ss) \subseteq ss THEN ss ELSE WithReaders(ss \union ReadersOf(ss))
Late(x) == WithReaders(ReadersOf(x.dropped) \union x.retyped)

\* The file has the value of every symbol but the choices, those of Late(x) excepted.
ValuesOf(x, ss) == [s \in ss |-> Fresh(x).cur[s]]
Holds(file, x) ==
  /\ file # Absent
  /\ \E ss \in {ToSet(Declared(g)) \ (ChoiceSyms \union Late(x))} :
       ValuesOf(ReadFile(g, Uncalculated(g), file), ss) = ValuesOf(x, ss)
=============================================================================
