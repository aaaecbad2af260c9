# TLA+ models of crosstool-NG

crosstool-NG builds cross-compilation toolchains. A user configures one with
`ct-ng menuconfig` or `ct-ng oldconfig`, programs of the kconfig directory, which
read the `*.in` files and write `.config`; `ct-ng build` then runs
`scripts/crosstool-NG.sh`, one bash process that downloads and unpacks some
dozen source packages and runs an ordered list of *steps* (`CT_STEPS` of
`steps.mk`), each a function `do_<step>` that configures, compiles and installs
one package. A build takes hours, fails or is killed often, and can be
restarted at any step from a saved state.

Two things are hard in it. The shell part keeps state that outlives the process:
the directories a step relies on, the saved states, the unpacked sources and
their markers, the downloaded tarballs, `.config` itself. The C part keeps state
that is calculated incrementally: a tree of menus that is reordered while it is
walked, values that are cached, windows on lists of which only changed rows are
drawn. These modules model both.

## The system: inventory

| Component | Code | State it keeps | Operations | Hard behaviours |
|---|---|---|---|---|
| Build driver | `scripts/crosstool-NG.sh.in`, `steps.mk`, `ct-ng.in` | working directories, shell variables, loop variable | prepare, step loop with `RESTART`/`STOP`, finish | failure and kill at any point, restarts with another configuration |
| Saved states | `CT_DoSaveState`, `CT_DoLoadState` in `scripts/functions` | `${CT_STATE_DIR}/<step>/`: env.sh, tarballs, log | save, restore | partial saves, partial removals, stale variables from env.sh |
| Step log and error trap | `CT_DoStep`, `CT_EndStep`, `CT_OnError`, `CT_DoLog` in `scripts/functions` | `CT_STEP_COUNT`, `CT_STEP_MESSAGE<n>` | open a step, close it, report a failure | the stack is restored from env.sh |
| Source trees | `CT_Extract`, `CT_Patch` in `scripts/functions` | `${CT_SRC_DIR}/.<pkg>.extracting/.extracted/.patching/.patched` | extract, patch | kills between a marker and its work, subshells, forced re-extraction |
| Downloads | `CT_GetFile`, `CT_DoGetFile`, `CT_GetLocal`, `CT_SaveLocal`, `CT_GetCVS/SVN/Git` | `${CT_TARBALLS_DIR}`, `${CT_LOCAL_TARBALLS_DIR}` | search local, fetch, save | interrupted downloads, retries, concurrent builds sharing the local directory |
| Configuration language | `kconfig/zconf.tab.c`, `lex.zconf.c`, `menu.c`, `expr.c`, `symbol.c` | stack of buffers, files and lines; stack of blocks; tree of menus, properties, conditions; check marks | scan, parse, finalize menus, rewrite conditions, search recursive dependencies | blocks, files and lines ending independently; a tree reordered in place; mutually recursive rewriting |
| Configurators | `kconfig/symbol.c`, `confdata.c`, `mconf.c`, `conf.c` | values, visibility, flags VALID, WRITE, DEF_USER; `sym_change_count`; `.config`, `.config.old`, temporary files | calculate, set, read, write; the menus and boxes of menuconfig; the questions of oldconfig | caches, choices, values out of sight, kills between renames, questions that never end |
| Dialogs | `kconfig/lxdialog/` | scroll, choice, rows on the screen, buffer, page; `s_scroll` between calls | keys, resize, return | partial redraw, edges, state kept from the last call or from before a resize |
| Target tuple | `CT_DoBuildTargetTuple` | `CT_TARGET` and friends | compute | combination of options |
| C compiler passes | `scripts/build/cc/gcc.sh` | core-static, core-shared, final compilers | pass 1, pass 2, final | which pass is needed for which C library and threading |
| C libraries | `scripts/build/libc/*.sh` | sysroot | headers, start files, libc | order with the compiler passes |
| Kernel headers, binutils, companion libraries, companion tools | `scripts/build/kernel`, `binutils`, `companion_libs`, `companion_tools` | prefix, buildtools, `CT_COMPLIBS_DIR` | get, extract, build | data flow between steps across a restart |
| Debug facilities, test suite, `cross_me_harder`, `target_me_harder` | `scripts/build/debug`, ... | sysroot | get, extract, build | lists of independent sub-packages |
| Sysroot populator | `scripts/populate.in` | copy of the root directory | copy libraries needed until nothing is missing | termination of the closure |
| `xldd` | `scripts/xldd.in` | none | recursive search of needed libraries | recursive `include` of ld.so.conf |
| Samples | `scripts/saveSample.sh.in`, `showSamples.sh`, `samples/` | samples | save, show | none |
| Build system | `configure`, `Makefile.in`, `config/config.mk` | installed scripts, generated menus | install, generate | none |
| Maintenance scripts | `addToolVersion.sh`, `mk-patch.sh`, `patch-rework.sh`, `patch-renumber.sh`, `mk-release.sh` | the repository | edit | none |

How they interact: `ct-ng menuconfig` runs `mconf` and `ct-ng oldconfig` runs
`conf -s` (`kconfig.mk:13-25`). Both parse the same `*.in` files, calculate with the
same `symbol.c` and read and write `.config` with the same `confdata.c`; `mconf`
opens the boxes of lxdialog one after the other. `ct-ng build` exports
`RESTART`/`STOP` to the driver; the driver sources `scripts/functions`, `.config`
and every `scripts/build/**.sh`; it calls `do_<pkg>_get` (downloads),
`do_<pkg>_extract` (source trees) and then, in the loop, `CT_DoSaveState`,
`CT_DoLoadState` and `do_<step>`. There is one process; what makes the system
hard is that successive invocations, each possibly cut short, share directories,
and that env.sh carries the shell variables of one invocation into another.

What makes each of them correct:

- *Driver and saved states*: a step never runs on directories that differ from
  those of an uninterrupted build; steps run in order, from where the user asked
  to where the user asked; a restart never takes a state that was not saved to
  the end; a build from scratch leaves no foreign state; what can be restarted
  reaches its end.
- *Source trees*: what passes the extraction is whole and patched exactly once;
  complete sources are left alone; doing what the error messages say leads out.
- *Downloads*: what is retrieved is whole; no copy is lost that nobody asked to
  remove; builds that share the local storage do not harm each other in the
  end; building again gets every tarball from a URL.
- *Step log*: a failure is reported in the log steps that are open.
- *Configuration language*: statements land in the block they are written in;
  every message quotes the right line; finalizing the menus loses and repeats
  nothing; the conditions that are left mean what was written; recursive
  dependencies are found, and only those.
- *Configurators*: a cached value is the one a calculation from nothing gives;
  exactly one visible value of a choice that is y is y; what may be set takes
  effect; what is saved is what is in memory; nothing unsaved is dropped without
  a question; oldconfig ends, leaves no question open, and does not ask twice;
  the newest configuration is on the disk at every moment.
- *Dialogs*: the window stays on the list; each row shows what a key acts on; the
  field shows the end of what is typed; the edges of a text are known.
- *Compiler passes and libraries* (planned): every step finds the compiler, the
  headers and the libraries it needs, for each choice of C library and threads.
- *Populator and xldd* (planned): the closure of the needed libraries, and
  nothing else.

## Modules

| Module | Models | Extends |
|---|---|---|
| `BuildDriver` | the main program from the check of `CT_RESTART` on, `CT_DoSaveState`, `CT_DoLoadState`, over several invocations | |
| `Checkpoints` | abstract: a build with checkpoints, and nothing of how | |
| `MCBuildDriver` | instances for TLC | `BuildDriver` |
| `BuildDriverProofs` | theorems about `BuildDriver` | `BuildDriver` |
| `SourceTree`, `MCSourceTree`, `SourceTreeProofs` | `CT_Extract`, `CT_Patch`, the packages' `do_<pkg>_extract`, `CT_FORCE_EXTRACT` | |
| `Download`, `MCDownload`, `DownloadProofs` | `CT_GetFile`, `CT_DoGetFile`, `CT_GetCVS`, `CT_GetLocal`, `CT_SaveLocal`, `CT_FORCE_DOWNLOAD` | |
| `EglibcGet`, `EglibcGetProofs` | `do_libc_get` of eglibc, which handles four tarballs at a time in its own way | |
| `StepLog`, `MCStepLog`, `StepLogProofs` | `CT_DoStep`, `CT_EndStep`, `CT_OnError`, and what saved states do to the stack | |
| `ConfigScan` | the scanner and its stack of files (`lex.zconf.c`) | |
| `ConfigTree` | the tree while it is built: conditions as they are allocated (`expr.c`), adding entries and properties (`menu.c`) | |
| `ConfigBlocks` | what each statement does to the tree and to the open blocks, in any order and whatever it is made of (`zconf.tab.c`) | `ConfigScan`, `ConfigTree` |
| `MenuFinalize` | `menu_finalize` on the pointers of the tree, with its calls: entering entries below a menu, taking followers, dissolving if blocks (`menu.c`) | `ConfigTree` |
| `ConfigFinalize` | the tree in `conf_parse`: any statements, then `menu_finalize` with whatever it finds of the conditions | `ConfigBlocks`, `MenuFinalize` |
| `ConfigDeps` | `sym_check_deps` with its calls, and `conf_parse` that starts it, whatever depends on what (`symbol.c`) | `ConfigTree` |
| `ConfigBlocksProofs` | theorems about the scanner, the blocks, the finalized tree and the recursive dependencies | `ConfigFinalize`, `ConfigDeps` |
| `ConfigExpr` | how conditions are rewritten and reduced (`expr.c`) | `ConfigTree` |
| `ConfigMenu` | `menu_check_dep`, what `menu_finalize` does to conditions, types and properties, and which symbols depend on which (`menu.c`, `symbol.c`) | `ConfigExpr` |
| `ConfigParse`, `MCConfigParse` | the parser, and `conf_parse` as a whole (`zconf.tab.c`) | `ConfigFinalize`, `ConfigMenu`, `ConfigDeps` |
| `ConfigSymbols` | calculating and setting values (`symbol.c`) | `ConfigMenu` |
| `ConfigFile` | reading and writing the text of a configuration (`confdata.c`) | `ConfigSymbols` |
| `ConfigStore`, `ConfigStoreProofs` | how `conf_write` replaces a file, for any number of programs (`confdata.c`) | |
| `ConfigPrograms` | what menuconfig and oldconfig share | `ConfigFile`, `ConfigStore` |
| `MenuConfig` | menuconfig (`mconf.c`) | `ConfigPrograms` |
| `OldConfig` | oldconfig (`conf.c`) | `ConfigPrograms` |
| `Configurators`, `MCConfigurators` | both, one after the other in one directory | `MenuConfig`, `OldConfig` |
| `Dialog` | which box is open, the list of items, buttons, scrolling (`util.c`) | |
| `MenuBox`, `CheckList`, `InputBox`, `TextBox` | one box of lxdialog each | `Dialog` |
| `Dialogs`, `MCDialogs` | all the boxes on one terminal, and `yesno.c` | the four boxes |
| `DialogProofs` | theorems about `Dialogs` | `Dialogs` |

The shell components share no variables in the code either: the driver calls the
downloads, then the extractions, then the loop, and each keeps its own
directories. Each module therefore stands for its whole component over many
invocations, and abstracts what runs before and after to the end of an
invocation. The step log meets the driver only in env.sh, which `StepLog` models
itself. The configurators are composed: the tree that `ConfigParse` builds is
built by the same operators of `ConfigTree`, `ConfigMenu` and `MenuFinalize` for `Configurators`, whose state
includes the disk of `ConfigStore`. The boxes are composed in `Dialogs`, where they
share the terminal and the list of items, and not with `MenuConfig`: mconf makes
the list, and reads from the box which item is marked and which button ended it.
`MenuConfig` takes any item and button, and `Dialogs` shows that the item a box
returns is the one that was lit.

### BuildDriver

State: what survives the process (`dir`, the content of each directory as the
set of steps whose output it holds; `stateDir`, `file`, `tar`, `envOf`, `ext`,
`tail`, the states in `${CT_STATE_DIR}`), the shell (`pc`, `sh`, `step`, `n`,
`busy`, `left`), and observations (`req`, `ran`, `torn`, `junk`, `taint`,
`outcome`), which no guard reads. Actions: `Start` (ct-ng with any `RESTART`,
`STOP` and `.config`), `Crash`, the preparation (`EradicateBuildDir`,
`WipePrefix`, `WipeState`, file by file), the loop (`SkipStep`, `RestartHere`,
`EnterStep`, `StopHere`, `BeginStep`, `Finish`), `CT_DoSaveState` (remove the
old state entry by entry, then env.sh, the tarballs in order, the log, each
begun and ended), `CT_DoLoadState` (check, tarballs, env.sh with all its
variables, log), and a step, `Install` once per directory it fills. Failures
(`StepFails`, `SaveFails`, `LoadFails`, `TarFails`, `SetupFails`, `InputMissing`)
end the invocation as the trap on ERR does; `outcome` tells what failed by itself
("failed") from what the driver brought about ("abort"). A step's work is
`Writes` and `Needs`, and both are constants.

### SourceTree

A unit is a tarball; `tree[d][u]` is absent, broken or whole with its first *j*
patches. `plan`, one of `Plans`, is the order in which the `do_<pkg>_extract` of a
configuration call `CT_Extract` and `CT_Patch`, rename and link. Each marker, tar
and patch is a step, and a kill or failure may come between and during them.
`advice` is what the last invocation told the user to remove, and `FollowAdvice`
removes it. The tarballs are assumed to be there; the making of the tz directory
is taken with its first extraction; for an add-on of glibc the user removes the
add-on's directory, which the message names by its base name only.

### Download and EglibcGet

`tarball[b][f]`, `local[f]` and `tmp[b]` say what of each file is in a build's
own directory, in the shared local storage and under `<file>.tmp-dl`. Each
system call of `CT_SaveLocal` and `CT_DoGetFile` is a step: between two file
systems `mv` is a copy (`BeginCopy`, `EndCopy`), and a build that was copying to
a name another build removes goes on into a file without a name (`Overtake`,
`copyaway`). wget is external: with `-nc -O` it refuses to write to a file that
exists, and it creates its output before it connects. Tarballs got by
`CT_GetCVS` are modelled with a single build only. Server, user and kills are
the environment.

### StepLog

`count` and `message` are `CT_STEP_COUNT` and `CT_STEP_MESSAGE<n>`; `open` is
what is really open. `env` holds the variables each saved state dumped.

### The configuration language

A text is a sequence of tokens and of characters that matter to the scanner
(quotes, backslash, tab, blank, end of line); words are model values. `ConfigScan` is
the machine of `lex.zconf.c`: its start condition `cond`, per file `pos`, `lineno`
and flags (`BUSY`, `SCANNED`), and the chain of buffers. One action takes one
rule, and the end of a file is the action `<<EOF>>` of each condition; a word of the
grammar is handed over in `line`, as far as the parser needs it.

The parser takes a statement at a time: the LALR tables are abstracted to which statement
may stand where (`p.opts`, the list of options that is open, and `p.blocks`, the blocks).
`ConfigBlocks` has an action for each semantic action of the grammar, which says what it does
to the tree `p.g` and to the blocks; an action of `ConfigParse` is one of them together with
what the scanner has read for it. Blocks know the menu they were opened for (`menu`), the file they began in,
and what their end requires, as `zconf_endtoken` checks it.

`ConfigTree` holds the tree as a record: `menus` (parent, next, list, symbol,
prompt, dependency), `props` and `last`, the place `last_entry_ptr` points
to. `menu_finalize` is taken apart. `ConfigMenu` says what one call does to conditions, types
and properties, in the order of the code, and which followers depend on an entry.
`MenuFinalize` says what it does to the pointers, loop by loop, while the list it goes over is
cut and joined. The recursion is a stack of calls, `calls` in `ConfigFinalize`: the entry, the
loop the call is in (`below`, `follow`, `settle`) and the loop's variable, and every round of a
loop, every call and every return is an action. An action that also changes conditions takes
them from any tree `h` (`Conditioned`), because the pointers do not depend on what they
are; `ConfigParse` gives it the one that `ConfigMenu` computes. In the same way
`ConfigFinalize` takes any follower or stops at any, and `ConfigParse` asks `Takes`.
`MCConfigurators` runs the same operators to the end to get its trees. `ConfigExpr` has the
rewriting of `expr.c` in its order of calls; `Value` is the reference, three-valued
evaluation. `ConditionsKept` evaluates with all the values symbols can have; what is no
tristate takes m for y (`Seen`), and one exception is named, `Opposed` (see the observations).

After the end of the texts `conf_parse` finalizes and calls `sym_check_deps`
for each symbol: `Start(s)` takes them in any order, because the hash chains
decide it. `ConfigDeps` has the search: `path` are its calls, each with the symbol it is for and the
place in the lists it goes over, `marks` the two flags and the errors. A call for a choice goes over
the list of the choice and then over those of its values (`at`); the flag of the choice
itself is taken away in between (`NextValue`), so that its values may depend on it. What the
expressions of a symbol name, in the order they are visited, is put together once
(`DepsOf` in `ConfigMenu`) and fixed in `deps`, since no step changes the tree any more.
`Past` is the return of NULL, at once or from the call that was made; `Back` the return
of a symbol through every call up to the one that is about it.

### The configurators

`ConfigSymbols` is `symbol.c` as operators on the record `st`: the calculated
values `cur`, visibility `vis` and reverse dependency `rev`, the value `user` set by
the user, the chosen value `sel` of a choice, and the flags as sets of symbols
(`valid`, `write`, `defd`). Every function that asks for a value calculates
and caches as the code does, so that what has been asked before what is part of
the model. `dropped` and `retyped` are histories: the symbols whose value a read has thrown away
after others were calculated from it, and those whose text was typed again when it was in memory
already; from them `Late` says where an old value may be left, and `CacheCoherent` holds
for all other symbols. `ConfigFile` reads and writes a configuration as a sequence of lines (symbol and value, "not
set", a foreign symbol, garbage), in the order of the menus. `ConfigStore`
has the four moments of `conf_write`: the temporary file is written, the file is
moved to `.old`, the temporary file gets its name, or one of them fails; a kill
at any point.

`MenuConfig` keeps the stack of dialogs; every action is one dialog's return and
what `conf`, `conf_choice`, `conf_string`, `conf_load`, `conf_save` and `main` do with
it. `OldConfig` keeps in `todo` what the recursive `check_conf` and `conf` have yet
to do; `Return` alone, the answer at the end of the input, is always among the
answers. `failed` records what went wrong since the configuration was read, and
`settled` that oldconfig has ended and nobody has touched the file: histories,
which no guard reads.

### The dialogs

Only what is on the screen and what a key acts on is modelled: `rows[r]` is the
item last printed in row *r*, `lit` the rows printed with the light, `scroll` and
`choice` the variables of the code. When the terminal scrolls, rows move; a row
the code does not print keeps what it showed. `MenuBox` and `CheckList` differ in
what survives: the menu keeps `s_scroll` for its next call and finds its height
again after a resize; the checklist has its height from the caller. `InputBox`
has the buffer all input boxes share with its terminating NUL, `TextBox` the place
`page` in the text that is read forwards and backwards. A resize may come
whenever a box waits for a key, and ends the box when the terminal has become too small;
a box that is opened then answers at once that it is (`OpenSmall`), which `conf` takes for an exit. On a
terminal of eight rows the text box opens without a row for the text (`boxh = 0`).

## Runs

| Run | Instance | Distinct states | What it shows |
|---|---|---|---|
| `driver` | three steps, two saved directories and one unsaved, four `.config`s, any `RESTART` and `STOP`, two invocations, faults, fair | 552 479 | what steps run on and what they miss (`ExactStart`, `OnlyUnsavedMissing`), which run and how an invocation ends (`RunsAsAsked`, `EndsAsAsked`), that a complete state loads (`LoadSucceeds`), that all implements `Checkpoints` (`KeepsCheckpoints`), and that what can be built or restarted gets to its end (`ReachesGoal`) |
| `driver_comp_libs` | the same steps, one `.config` | violated | `RestartInputs` fails: a restart lacks what is in the unsaved directory |
| `sources` | gcc, glibc and ports inside it, or uClibc with linked locales and sqlite that is renamed; two faults, forced or not, obedient or not | 207 491 | exact sources, kept once complete, and the messages lead out (`ExactSources`, `CompletedKept`, `Recovers`) |
| `sources_tz` | tzcode and tzdata in one directory, one fault | violated | `ExactSources` fails |
| `download` | one build, a tarball from a URL and one of `CT_GetCVS`, five configurations, two faults or cleanings, fair | 1 707 | `LocalWhole`, `Retrieved`, `NeverLost`, `Recovers` |
| `download_shared` | two builds, one tarball, two file systems, all configurations, no faults | 5 541 | interference ends well (`Settled`) and loses nothing (`NeverLost`) |
| `eglibc_get` | four tarballs, two faults, fair | 1 281 | all or none (`Retrieved`), and one trap only (`Recovers`) |
| `step_log` | three steps, three log steps before, two tools | 44 245 | the backtrace names what is open (`Traced`), pairs match (`Nested`) |
| `config_parse` | 6277 pairs of files | 375 527 | `ScannerAgrees` (the records of where the scanner is, and the lines), `BlocksAgree`, `TreeKept`, `ConditionsKept`, `RecursionFound` |
| `configurators` | four trees with one to three `.config`s each, two runs, one value set in both together (two in the tree `Limits`), one kill or failing call | 40 179 | the cache and the choices (`CacheCoherent`, `ChoiceExclusive`), setting and saving (`SetTakes`, `SaveWhole`, `QuietExit`), the disk (`StoreInv`), the questions (`AllAnswered`, `AskedOnce`, `OldconfigStops`) |
| `dialogs` | lists of two and five items, heights of one and three rows, lines of up to six characters in a field of three, four texts, boxes of none, two and five rows of text, one resize | 1 011 224 | `MenuRight`, `ListRight`, `FieldRight`, `TextRight` |
| `dialogs_resize` | the same | violated | `MenuShows` fails |

The bounds. A hazard of the driver takes one invocation that leaves something and
one that uses it, and two invocations give both; three steps make a
step before, at and after the one restarted at, and two saved directories with
one that is not saved make partial saves and loads visible. Step 3 needs what step 2 leaves
in the unsaved one, so that a restart at 3 misses an input and one at 2, which makes it again, goes
to the end. `ManyConfigs` holds
the four kinds of `.config` whose difference matters between invocations. In
`SourceTree` one plain package and one with an add-on inside it, with one or two
patches, give every order of markers and nested removal; two faults let a
failure happen during the recovery from another. In `Download` one tarball of
each kind, and one tarball and two builds for the interference: the code treats
files independently, and more builds add no new pairs of steps on one name.

`config_parse` takes all sequences of three statements that open, close and source
blocks, over two files; conditions in every form on three symbols, a tristate among them with its three values, in all places
(prompt, `depends`, `if`, menu, choice); all directions of dependency between three symbols; and, one
after the other, indentation, quoting, comments, continuations and ends of
files. Three statements are enough to open, fill and close a block in
the wrong file, and three symbols for a cycle through a choice and past it.
The four trees of `configurators` each hold the features that meet in `symbol.c` (a
choice with a select and a range; an `if` whose symbol is selected from below; tristates with
`modules`; and in `Limits` a range and a default that are other symbols), and their `.config`s a
complete, an outdated and an edited one. Two runs are one that leaves something and one that
finds it; the one value that is set over both of them is set from every state the files give, and
`Limits` has two, for one value is put back into a range that another has opened. In `dialogs` a window of three rows has a first, a middle and a
last one, one of one row has them together, and five items overflow it by two. The
field overflows by half of the buffer, so that it scrolls back by a whole field and by less. `MaxFaults`,
`MaxRuns`, `MaxResizes` and the `keys` of `Directories` (how many values are set over all runs) bound what the environment does.

`CHECK_DEADLOCK FALSE` is set for the driver only: after `MaxRuns` invocations the
model stops. The others repeat (`Done`, `Decided`) or go on.

### Fairness

`WF_vars(Driver)`, `WF_vars(Shell)`: bash goes on with the next command as long
as it is not killed, and tar, wget and patch return. `WF_vars(Start(b))`,
`WF_vars(Retry)`: the user builds again after a failure, which is the retry the
documentation asks for; without it nothing is owed. No action of the
environment that helps (a server that answers after a failure) is assumed beyond
the bound on faults. `Recovers` of `SourceTree` makes the obedience of the user,
from some point on, an assumption of the property instead of the specification.

`Fairness` of `Configurators`: a `conf` that runs goes on, for at the end of its
input it does not wait for anybody. It is the weak fairness of its steps written without
ENABLED, `[]<>(prog # "conf") \/ []<><<prog = "conf">>_vars`; the two agree because
a running conf always has a step, which the check for deadlocks shows. The
second part of `OldconfigStops`, `ReturnAccepted`, covers what fairness
leaves open: a question that is asked again without any change is no step.
menuconfig waits for its user, and no fairness is assumed of it.

## Theorems

Checked by `tlapm` for every value of the constants that satisfies the named
assumptions.

- `BuildDriverProofs!TypeCorrect`: `Spec => []TypeOK`.
- `BuildDriverProofs!ExactStartCorrect`: `Spec => []ExactStart`, for any number of
  steps, layout of directories, set of configurations and number of
  invocations. `ExactStart` speaks of the moment a step runs, while what it runs
  on was decided when the state was saved, maybe several invocations before.
  The invariant `IInv` adds: every trusted state (not torn, not saved by an
  invocation that had itself restored a torn or misread one) has exact
  tarballs, and all of them as soon as it has a log, which is written last
  (`SavedStates`); while a state is saved, files up to the *n*-th are whole and
  later ones absent (`Saving`); and between two steps the saved directories are
  exact (`Between`, `Running`, `Loading`, `Preparing`).
- `BuildDriverProofs`, the other safety properties of the driver, from `IInv` and three invariants
  more.
  - `RunsAsAskedCorrect` and `EndsAsAskedCorrect` from `Asked`: what `sh.restart`, `sh.stop`
    and the like mean in each part of the main program, in relation to what the
    user asked for (`req`) and to what has run (`ran`). They are about what env.sh
    brings back: between its reading and the lines that set the variables again,
    the shell has those of another invocation, and `Asked` says how far.
  - `LoadSucceedsCorrect` from `Dumped` (the `.config` in the env.sh of a state says
    how its tarballs are compressed) and `Reading` (what is known while a state is
    restored). It assumes `Logging`, that every
    `.config` has `CT_LOG_TO_FILE`: without it restarts abort (see the observations).
  - `OnlyUnsavedMissingCorrect` from `ExactStart`, `Asked` and `UnsavedExact`: a directory
    below `CT_BUILD_DIR` that no state holds is empty from the start of an invocation and
    has from then on exactly what this invocation put there, for a state that is restored
    adds nothing to it. So what a step misses is known exactly, on both sides: the
    companion libraries after a restart behind them, always, and nothing else, ever.
    `NeedsAssumption` says that steps need what earlier ones install, and `UnsavedAssumption` that
    what is not saved is below `CT_BUILD_DIR`, as `CT_COMPLIBS_DIR` is.
  - `KeepsCheckpointsCorrect`: the refinement mapping of `BuildDriver` to
    `Checkpoints`, for each action of the driver the abstract step it is, or that
    it is none.
- `StepLogProofs!TracedCorrect` and `NestedCorrect`. `LogInv` says that the
  messages of the open log steps are the topmost ones up to `count`, in their order,
  and from which level on: after a restart `CT_STEP_COUNT` is one too high, and
  the level below is the message of another invocation.
- `SourceTreeProofs!TypeCorrect`, and `ExactSourcesCorrect`: what gets past the
  extraction is exact, for any number of tarballs, patches, faults and forced
  extractions. `Kept` is what the markers say of the trees: without one there is
  nothing, extracted and not yet patched means exactly the tarball, patched means all
  patches, and what lies inside another unit's directory is not begun before that one is
  patched, so that nothing a user is told to remove takes along something with
  a marker. `Placed` adds where the invocation is, that the operations before it have their
  markers, and that what the user is told to remove is not complete. Both hold
  unless `CT_SRC_DIR` is partly removed (`torn`), and again when that is finished.
  A package that is renamed between its extraction and its patches (sqlite, xmlrpc++)
  has two names and two directories. `Own` says that neither of the two is there without
  the tree, and `Moved` that they are never both there, so that patches always meet a tree
  or abort, and that all that can be left of it, after its user has followed the message of
  `CT_Patch`, is an "extracted" marker under the old name with nothing beside it:
  every later invocation then stops before the first patch.
  `Plain` assumes that markers and renamed packages' directories are not shared, and that
  units come in an order that makes `Kept` possible. All plans of the run `sources`
  meet it: gcc and glibc with its ports, uClibc with linked locales, sqlite. tzcode and
  tzdata do not: `sources_tz` shows what happens without.
- `SourceTreeProofs!CompletedKeptCorrect`: no invocation touches what is extracted and
  patched. `RenamesApart` assumes that no package is renamed from or to a directory
  another one is patched in, which all plans of the run meet.
- `DownloadProofs!LocalWholeCorrect` assumes `SameFS`, which is necessary (see the
  observations). `WholeInv` says that what is about to be moved is whole, of every tarball
  that is downloaded; what `CT_GetCVS` does beside it touches none of these.
- `DownloadProofs!SettledCorrect` assumes that no tarball is retrieved twice in one plan, and
  holds on any file system. The key is `Backed(f)`: whenever a link to *f* exists or is
  about to be made, *f* is whole in the local storage or some build is about to put it
  there, if it is one that is downloaded. Builds remove and replace each other's copies, and
  every removal is made by a build that has a whole one to put in its place. The invariant is
  needed only until the first fault, and says so.
- `DownloadProofs!NeverLostCorrect`: any number of builds that share the storage lose
  no copy, with faults on the same file system and without on any. A build whose
  copy has been overtaken removes its own in the end; `Overtaken`, which
  `SettledInv` or `SameFS` give, says that another one is left. With a fault on
  another file system it is not so (observations). For the tarballs of `CT_GetCVS`, which
  compresses to the final name, `CVSInv` is added: a name it compresses to has nothing,
  neither a copy nor a link, and a part that is left is never saved. That rests on
  one build having the storage to itself, as `DownloadAssumption` says, and on nobody
  cleaning these tarballs from the storage (`Cleanable \cap FromCVS = {}`), without which
  it is false (observations).
- `DownloadProofs!RetrievedCorrect`: what a build that has the storage to itself (`OneBuild`)
  ends with, for any plan, faults, configurations and cleanings, on the same file
  system. `ReadInv` says that the downloaded files it has passed can be read, and that a link it
  is about to make leads to something.
- `EglibcGetProofs!EglibcRetrieved`: `Spec => []Retrieved` for any number of
  tarballs.
- `ConfigStoreProofs!StoreCorrect` and `NothingLost`: any number of configurators
  write at the same time, under any names, and are killed at any point; the newest
  configuration of a name is there under the name, or is the old file
  while the name is not there, and no step takes it away that does not put a newer one in
  its place. `OldApart` assumes that `.old` names are not written to otherwise.
  `StoreTypeOK /\ NewestKept` is inductive as it stands: of two programs that write the
  same name, each moves away only what is there, and a name is only missing
  when what it held is the old file. The run has one program at a time; the theorem
  is what shows several.
- `ConfigBlocksProofs!ScannerAgreesCorrect`: `ScanSpec => []ScannerAgrees`, for any number
  of files and any texts: whatever the parser makes of the tokens, the scanner's
  line number is the number of lines before its place, in every file that is entered and
  in those it comes back to. `ScanInv` adds that a file is at its beginning until it is
  entered; that the chain of buffers has no file twice is part of `ScannerAgrees`. The hard part is what
  a rule passes over: `PassingCounts` says that a count is kept when the passed characters
  hold as many ends of line as the rule counts, and there is a lemma on that for each
  start condition. `TextsAssumption`: texts are sequences.
- `ConfigBlocksProofs!BlocksAgreeCorrect`: `BlocksSpec => []BlocksAgree`, for any statements
  in any order, of any length and nesting. `Nested` says that the menus of the open
  blocks are distinct, each with the one around it for parent and nothing after it, and that
  the place the next entry goes to is none of theirs; `Pending`, that an entry whose options
  are being read, and which will become a block when they end, is the last one of the tree.
  `Grown` is what every statement with an entry of its own does to a tree (one
  menu more at the place `last_entry_ptr` pointed to, and no link changed elsewhere),
  `SameTree` what an option does. Every action of `ConfigParse` has an action of `ConfigBlocks`
  among its conjuncts, so that what holds of these holds of the parser.
- `ConfigBlocksProofs!TreeKeptCorrect`: `FinalizeSpec => []TreeKept`, for any statements, and
  whatever `menu_finalize` finds of conditions, types and dependencies: every entry is in the
  list of its parent once and in the order of the statements, whichever followers are taken and
  whichever entries have no prompt and are dissolved. The invariant is `FinalizeInv`. While
  the statements are read it is that of `BlocksAgreeCorrect`, whose `Shaped` says that the
  tree is already ordered and threaded (`Ordered`, `Threaded`: `list` and `next` are the first of the
  entries below and beside, and what stands between an entry and its parent is below the parent). While `menu_finalize`
  runs it is `WorkInv`, about the pointers and the calls. A follower gets its new
  parent when the call for it returns, but stays in the old list until all are taken,
  so that lists and parents disagree in between, at every level of the recursion that is
  taking followers. `Holders` is the parent as the lists have it: an entry whose parent is taking
  followers (`Taking`) is still held by the parent of that one; the tree is `Threaded` by
  `Holders` all the time. `Alone` (no entry that takes followers is below another), `Taken`
  (it holds exactly those up to the variable of its loop) and `Calling` (why each call made the next one)
  are what lets the lists be cut at the end (`Adopting`, `AdoptStep`), and `Chained`, that the list of an if block holds
  all its entries and ends at the last one, what lets it be spliced (`Splicing`,
  `SpliceStep`). Every action of `ConfigParse` after the statements is one of `ConfigFinalize`,
  restricted to what the conditions are. `TreeKept` is the part of `menu_finalize` that needs no
  expressions: `Kids` and the order are first-order, which is why `IsFirst` is stated
  rather than a walk along the list.
- `ConfigBlocksProofs!RecursionFoundCorrect`: `DepsSpec => []RecursionFound`, for any symbols,
  choices and dependencies, and whatever the order `conf_parse` starts in. What is
  recursive is said without paths: a set of symbols of which each depends on one of the
  set (`Recursive`). `Most` gives a choice all that it and its values depend on, `Least` only
  what the choice itself does. An error is only reported when `Most` is recursive: `LinkInv` says that each call
  on the way depends on the next one, so that a symbol that is found again closes the
  set (`CircleFound`). And when `Least` is recursive an error is reported: `DoneInv` says that, as long as
  there is none, what has the flag CHECKED and no longer CHECK depends only on such
  symbols (`Closed`) and is not recursive (`Acyclic`), which every return of a call keeps
  (`DoneGrows`). `WayInv` is why the flags say what is on the way: the groups of the calls share
  nothing, and a choice and its values are marked together. `IsGraph` assumes that no symbol is a value of two
  choices, which `menu_finalize` sees to, and that no choice is a value of another (observations); `ConfigParse`
  could not take the step if it were not so.
- `ConfigBlocksProofs!RecursionExact`: where nothing but its values depends on a choice
  (`OnlyValues`), the two are the same, and an error is reported exactly when there is a recursive
  dependency. Without that it is not so (observations). The steps of `ConfigParse` between the end of `menu_finalize` and
  the decision are those of `ConfigDeps`, with the dependencies of the tree.
- `DialogProofs!MenuStaysRight` and `ListStaysRight`: the windows of the menu and of
  the checklist for all lists, keys, heights and sequences of boxes.
  `MenuInv` adds the types, the range of `first_item` and `menu_height`, and, while
  the terminal has kept its size, the content of every row; `ListInv` needs no such exception,
  because the checklist is drawn again from variables that agree; `ArrowsTell` is
  kept with it because the arrows are only printed with the light at an edge.
- `DialogProofs!FieldStaysRight` and `TextStaysRight`, for all strings, texts and
  sizes. `InputInv` says where the string ends (`Ends`), that it never ends behind the
  place of the next character, and that a field that is scrolled and not full
  has nothing left behind that place, without which scrolling back would show
  characters that were deleted. `TextInv` says that there is one line *p* from which
  everything the box keeps follows: rows, page, `page_length` and both edges;
  `BackLines` that `back_lines` gets back to *p* from `page`, whether the end has been
  reached or not. In a box that has no row nothing of this holds but that `page` is a
  place of the text; it holds again after the next resize because `back_lines` then
  goes back by at least three lines, so that both edges are found anew (`BackInText`). The run allows
  one resize; this way back, which takes two, is proved and not run.
  `DialogAssumption`, `MenuAssumption` and `CheckAssumption` say that lists are not
  empty and windows have a row.

Only model-checked:

- every liveness property (`ReachesGoal`, `Recovers`, `OldconfigStops`), which is out of
  the prover's reach with its ENABLED;
- `ConditionsKept`: what the rewriting of conditions computes. It is recursive over
  expressions, so that a proof is an induction over data, and the prover takes no RECURSIVE
  operators either (`ConfigExpr`, `ConfigMenu`, `ConfigParse`). What can be said of the tree
  and of the dependencies without recursion is in `ConfigTree`, `ConfigBlocks`, `MenuFinalize`,
  `ConfigFinalize` and `ConfigDeps` for that reason, and proved. That `DepsOf` collects
  the symbols of every expression is part of it;
- `CacheCoherent`, `ChoiceExclusive`, `SetTakes`, `AskedOnce`, `SaveWhole`, `QuietExit` and
  `AllAnswered`: they compare values with a calculation from nothing, which is recursive
  over the dependencies (`ConfigSymbols`, `ConfigFile`, `MenuConfig`, `OldConfig`). `ConfigStore`
  and the boxes are kept apart from them and proved.

## Findings

Three runs are expected to find a violation; `PROJECT.json` quotes the lines they
contradict.

- `driver_comp_libs`: `CT_COMPLIBS_DIR` is eradicated on every start and in no
  saved state, so that a step restarted at misses the companion libraries.
- `sources_tz`: removing the directory of a partially extracted tzdata also
  removes tzcode, which is still marked as extracted.
- `dialogs_resize`: after a resize the menu box prints its rows from the old
  `first_item` while `scroll` has become 0: the item that is lit is not the one
  that is chosen.

### Observations

What else the models show, with the change that makes TLC show it. None of them
is one of the runs.

- `functions:1063` A kill during the `rm -rf` of a state leaves a directory that
  passes the only check of `CT_DoLoadState`; tarballs that are gone are skipped
  without an error and the step runs on what was there (drop `~taint` from
  `ExactStart`, three invocations).
- `functions:1035` After a change of `CT_DEBUG_CT_SAVE_STEPS_GZIP` no tarball is
  found, nothing fails, and nothing has been restored (the same change).
- `functions:1136` Without `CT_LOG_TO_FILE` there is no tail.log, which is read back
  all the same: every restart aborts (`LoadSucceeds` with a `.config` that does not log).
- `functions:1123` After a restart `CT_STEP_COUNT` is 2 with nothing open, and a
  failure is reported in a step of the invocation that saved the state
  (`NamesStep` of `StepLog`).
- `crosstool-NG.sh.in:633` A `RESTART` that names no step skips all of them and
  ends with status 0 (`EndsAsAsked` without its last exception).
- `crosstool-NG.sh.in:580` A forced extraction killed while it removes
  `CT_SRC_DIR` leaves markers beside trees that are gone (`ExactSources` without
  `~torn`); worse, an add-on can then be refused for ever (`Recovers`).
- `libc/uClibc.sh:53` A kill between `ln -s` of the locales and their marker:
  every later `ln -s` fails (`Recovers` without its exception `LinkLeft`).
- `companion_libs/sqlite.sh:16-22` sqlite is extracted and patched under two
  names; the message of `CT_Patch` names a marker that does not exist, and
  following it leads nowhere (`Recovers` without its exception `RenamedGone`).
- `functions:507` Two builds that both download: one removes what the other
  has just linked to, whose retrieval ends with a dangling link until the `mv`
  (`Retrieved` with two builds). `Settled` is what remains true.
- `functions:507-508` On another file system, a build that copies into a file
  that has been removed under it deletes its own tarball at the end: if the
  build that overtook it was killed and is begun again with forced downloads,
  the last copy is lost (`NeverLost` with a fault in `DownloadShared.cfg`).
- `functions:508` On another file system a kill during the copy leaves a part in
  the local storage that later builds take for the tarball (`LocalWhole` with
  `SameFS = FALSE`).
- `functions:619` `CT_GetCVS` compresses to the final name: killed there, the
  next build has the part already (`Retrieved` with `FromURL` including
  `FromCVS`).
- `functions:507` `CT_GetCVS` with a link that leads nowhere writes through it,
  and `CT_SaveLocal` then removes the file and moves the link onto itself
  (`NeverLost` with `Cleanable` including `FromCVS`).
- `functions:457` The retry without the passive mode never takes place: the
  first wget has created the file that `-nc` makes the second refuse
  (`Recovers` with a file in `ActiveOnly`).
- `crosstool-NG.sh.in:541` `CT_FORBID_DOWNLOAD` also skips the local storage.
- `libc/eglibc.sh:71` Killed between the last `mv` and `ln`, or in the loop of
  `ln`, every later build fails on the first `ln` (`HalfLinked` of `EglibcGet`).

The configuration language:

- `zconf.tab.c:2309` `zconf_endtoken` compares the file of the menu entry with the
  current one; when an `if` or a `menu` is the last statement of a sourced file, the
  scanner has already left the file when the entry gets its place (`menu.c:53`),
  so that a block may begin in one file and end in another (`EndsInFile` of `ConfigParse`).
  As the last statement of the first file it crashes, for there is no file left; so does a
  `source` that the file ends with, without a final newline.
- `lex.zconf.c` A file without a final newline has its last entry recorded in the
  file it was sourced from.
- `expr.c:582` and `expr.c:597` `expr_eliminate_dups2` takes `(FOO || BAR) && (!FOO && !BAR)` for n
  and `(FOO && BAR) || (!FOO || !BAR)` for y. A tristate that is m, and its negation, are both m: the option
  is then hidden, or shown, against what is written (`B` with `if (!A && C)` in
  `A || !C`, when `C` is m; `ConditionsKept` without its exception `Opposed`). The comment at `expr.c:489` says
  `-> (a='m')` where the code makes `a='y'`, which is right.
- `symbol.c:839` Whether a recursive dependency is reported can depend on the hash table. An
  entry that is in a choice and none of its values (below a menu that an `if` in the choice
  puts there) depends on the choice. If a value of the choice depends on this entry, a search that starts
  at the entry reports it, one that starts at the choice or at the value does
  not, because the choice is no longer on the way when its values are gone over (`Searched /\
  Recursive(Most(deps)) => marks.errs > 0`, violated on `SidewaysTexts` of `MCConfigParse`; so is
  `Searched /\ ~Recursive(Least(deps)) => marks.errs = 0`). `RecursionFound` states both bounds.
- `symbol.c:877` A choice in an `if` in another choice becomes one of its values;
  `prop_get_symbol` then takes the list of its own values for a symbol. Such texts are
  not among those of the run (`IsGraph` excludes them).

The configurators:

- `confdata.c:537` `fprintf` and `fclose` are not looked at: on a full disk, part of
  a file replaces the whole one, without a message. After the last rename has failed, a second attempt
  writes an empty file, for every value is already marked as written (`SaveReported`).
- `confdata.c:346` A load that fails resets `sym_change_count`: unsaved changes are
  lost without a question (`QuietExitAlways`). Saving under another name resets it as well.
- `confdata.c:542` After a kill between the two renames there is no `.config`, and
  menuconfig starts from the defaults without a word; the configuration is in `.config.old`.
- `conf.c:128` At the end of the input, a default that a range with a symbol as its bound
  makes invalid is offered for ever; and `line[strlen(line) - 1]` of an empty line
  (`conf.c:332`) is outside the buffer.
- `conf.c` `conf_choice` goes around for ever without asking when the value the choice has
  chosen is not visible and the choice is not new.
- `symbol.c:622` A text that is the one in memory already is not stored again, and nothing is
  calculated again either, though the value in force may be another: `conf_read` only marks a value it passes
  over as not the user's (`confdata.c:378`) and leaves its text. `J` with `range 1 I` and default 1,
  3 in the `.config` beside `I=2`: set `I` to 3, type 3 for `J`, and the old default stays and
  is written (`CacheCoherent` without `retyped`).
- `confdata.c:378` The value that is out of range is thrown away after all others have been
  calculated (`confdata.c:325-346`), and only its own symbol is marked to be calculated again: with `S` that has `J` for
  default, `S` keeps and saves the value that `J` no longer has, until something is
  set (`CacheCoherent` without `dropped`).
- `symbol.c:227` In a choice of tristates that is y, a value that is only visible as
  m may be the chosen one: no value is y then (`ChoiceExclusive` counts the
  visible values that can be y).
- `confdata.c:875` `def_random` picks from a range that is off by one.
- `mconf.c:405-407` "strip CT_" skips seven characters.
- `mconf.c` `conf_string`, `conf_load` and `conf_save` repeat for ever when the terminal is
  too small for their box; `conf` ends in that case, and the question whether to
  save may be skipped with it. `conf_choice` crashes on a comment inside a
  choice.

The dialogs:

- After a resize the button that is shown is the first, while `button` keeps its
  value. The arrows of a checklist are printed from a row that is not at the edge.
- `inputbox.c:129-137` After a resize the scroll of before is kept, when the string has become
  shorter than the field: what is typed goes behind the end of the string. Scrolling
  back then sets the cursor left of the field, and from there backspace goes on to the
  left, in the end out of the buffer (`FieldShows` without `resizes = 0`, and a
  buffer of twice the field). Backspace at the left edge of a scrolled
  field only scrolls.
- `textbox.c` A text without a final newline shifts by a line when it is scrolled
  to a side, and doubles a line on the way up. A resize goes back by the height of the box
  instead of `page_length`. An empty text divides by zero for the percentage.

## Not modelled

The steps' own work (configure and make of other projects) is abstracted to the
directories they need and fill. Samples, `configure`, the Makefiles and the
maintainers' scripts keep no state that a build relies on. Of the downloads, the
lists of URLs and extensions and the second name `CT_GetFile` tries are
abstracted to the one that has the file; `CT_GetSVN` takes the same steps as
`CT_GetCVS`. Of the log, the wording, the filtering by level and the progress bar
are left out.

Of the configuration language: symbols that are never given a type, `env` and
`defconfig_list` options, the printing of expressions, warnings that change
nothing. Of the configurators: the other modes of `conf` (the questions of
`config`, `allyesconfig` and the like, `randconfig`), `conf_split_config` and
`conf_write_autoconf`, `KCONFIG_OVERWRITECONFIG`, `KCONFIG_NOSILENTUPDATE`, a directory
instead of a file name, `single_menu_mode`, search and help. Of the dialogs: colours,
wrapping, the escape sequences curses decodes, `first_alpha`'s skipping of tags. The hash
tables and the tables of the scanner and the parser are generated code and
stand in the model as what they compute.

`PROJECT.json` lists every component with its status.

## Plan

1. Done: driver, source trees, downloads, step log; the configuration language,
   the configurators and the dialogs; the theorems above.
2. `Populate` (`scripts/populate.in`): the recursive copy as a stack of lists
   over a root directory of ELF files with needed names and sonames; `Complete`
   (every needed name of every library present, unless forced and missing),
   `OnlyNeeded`, termination; theorem `Complete` for libraries installed under
   their soname.
3. `Toolchain`: which gcc passes are built for which C library and thread
   library (`gcc.sh`), and that every step of `CT_STEPS` finds the compiler,
   headers and start files it uses, in the order of `steps.mk`; composed with
   `BuildDriver` by giving `Writes` and `Needs` their real values.
4. `xldd`'s search order, and the parts of the target tuple, as operators against a
   reference definition.
