---------------------------- MODULE Configurators ----------------------------
(***************************************************************************)
(* A directory that is configured: menuconfig and oldconfig run there one  *)
(* after the other, in any order, set values, load and save files, are     *)
(* killed, and find what the runs before have left.                        *)
(***************************************************************************)
EXTENDS MenuConfig, OldConfig

VARIABLES settled       \* history: oldconfig has ended, and .config is still as it left it

vars == <<sharedVars, menuVars, oldVars, settled>>

Init ==
  /\ SharedInit
  /\ screens = << >> /\ filename = Config
  /\ todo = << >> /\ rootEntry = 0 /\ cnt = 0
  /\ settled = FALSE

Killing == Kill /\ screens' = << >> /\ todo' = << >> /\ UNCHANGED <<filename, rootEntry, cnt>>

Done == prog = "none" /\ UNCHANGED vars

\* What becomes of settled when a step is not the end of oldconfig.
KeepSettled == settled' = (settled /\ files' = files)
\* oldconfig has come to its end, with all that has changed in the file.
OldSettled ==
  settled' = IF prog = "conf" /\ prog' = "none" /\ faults' = faults /\ failed = {} THEN TRUE
             ELSE settled /\ files' = files

\* conf -s goes on by itself: at the end of its input every question is answered by
\* return alone.
Oldconfig ==
  \/ ConfStep /\ UNCHANGED menuVars /\ OldSettled
  \/ BackupConfig /\ UNCHANGED <<menuVars, oldVars>> /\ KeepSettled

Next ==
  \/ MenuConfigNext /\ UNCHANGED oldVars /\ KeepSettled
  \/ StartOldconfig /\ UNCHANGED menuVars /\ KeepSettled
  \/ Oldconfig
  \/ Killing /\ KeepSettled
  \/ Done

\* A conf that runs goes on until it has ended: the weak fairness of Oldconfig, written
\* without ENABLED, for one of its steps is always possible (the system never deadlocks).
Fairness == []<>(prog # "conf") \/ []<><<prog = "conf">>_vars

Spec == Init /\ [][Next]_vars /\ Fairness

-----------------------------------------------------------------------------
Cached(x, s) == <<x.cur[s], x.vis[s], x.rev[s]>>

\* A value that is taken for calculated is the one a calculation from nothing gives,
\* except where the two cases of Late leave an old one until something else is set:
\* whatever else sym_set_tristate_value, sym_set_string_value and conf_read change, they
\* have cleared all that it touches (symbol.c:390, SYMBOL_VALID).
CacheCoherent ==
  \A x \in {Fresh(st)} : \A s \in st.valid :
    Cached(x, s) # Cached(st, s) \/ (IsChoice(s) /\ x.sel[s] # st.sel[s]) => s \in Late(st)

\* Of the visible values of a choice that is y exactly one is y, whatever has been
\* read or set.
ChoiceExclusive ==
  \A x \in {Fresh(st)} : \A c \in ChoiceSyms \intersect ToSet(Declared(g)) :
    x.cur[c] = Yes =>
      Cardinality({s \in ToSet(g.members[c]) : x.vis[s] = Yes /\ x.cur[s] = Yes}) = 1

Settable == {s \in ToSet(Declared(g)) : IsTri(g, s)}
\* What can be set takes effect: what sym_set_tristate_value accepts is the value
\* that the next calculation gives.
SetTakes ==
  prog = "mconf" /\ Len(screens) = 1 =>
    \A x \in {Fresh(st)} : \A s \in Settable, v \in Tri :
      CanSet(g, x, s, v) => Calc(g, SetTristate(g, x, s, v), s).cur[s] = v

SavedIs(n) == Holds(files'[n], st)
\* What conf_write says it has saved is what was in memory, unless a call has failed:
\* reading the file back gives every symbol its value.
SaveWhole ==
  [][\A n \in Names : files'[n] # files[n] /\ files'[n] # Absent /\ failed = {} => SavedIs(n)]_vars
\* The same when a call may have failed: menuconfig and conf report what they did not
\* save.
SaveReported ==
  [][\A n \in Names : files'[n] # files[n] /\ files'[n] # Absent => SavedIs(n)]_vars

EndsQuietly == prog = "mconf" /\ prog' = "none" /\ faults' = faults /\ Len(screens) = 1 /\ screens[1].t = "menu"
\* menuconfig ends without a question only if the file it works on has the values
\* that are in its memory.
QuietExit == [][EndsQuietly /\ failed = {} => Holds(files[filename], st)]_vars
\* The same when a file could not be loaded.
QuietExitAlways == [][EndsQuietly => Holds(files[filename], st)]_vars

Unanswered(x) ==
  {id \in DOMAIN g.menus : /\ g.menus[id].sym # NoSym /\ AskVisible(g, x, id).seen
                           /\ Missing(AskVisible(g, x, id).st, g.menus[id].sym)}
Completes == prog = "conf" /\ prog' = "none" /\ faults' = faults
\* When oldconfig ends nothing is left to ask: every symbol that can be changed and
\* is visible has a value, however the answers have changed what is visible.
AllAnswered == [][Completes => Unanswered(Fresh(st)) = {}]_vars

\* Return alone is an answer to every question for an int, a hex or a string: what
\* conf shows as the default can be set, or conf_string would ask for ever at the end
\* of its input.
ReturnAccepted ==
  Doing("string") /\ Asks(Sym1) => SetString(g, st, Sym1, st.cur[Sym1], FALSE).ok

\* oldconfig comes to an end even when nobody answers, as in yes "" | ct-ng oldconfig:
\* no question is repeated for ever, and the answers, and what they make visible, do not
\* chase each other.
OldconfigStops == []ReturnAccepted /\ (prog = "conf" ~> prog = "none")

\* After oldconfig has ended, the next one finds nothing to ask: what has been
\* answered is in the file, and is read as the answer.
AskedOnce == settled /\ prog = "conf" => cnt = 0
=============================================================================
