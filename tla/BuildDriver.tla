----------------------------- MODULE BuildDriver -----------------------------
(***************************************************************************)
(* The restartable build driver of crosstool-NG: the main program of       *)
(* scripts/crosstool-NG.sh.in from "Preparing working directories" to its  *)
(* end, and CT_DoSaveState / CT_DoLoadState of scripts/functions, across   *)
(* several invocations of "ct-ng build [RESTART=..] [STOP=..]" that may    *)
(* fail or be killed at any point.                                         *)
(*                                                                         *)
(* Steps are numbered in the order of CT_STEPS.  A directory's contents    *)
(* are abstracted to the set of steps whose output it holds; 0 stands for  *)
(* what the preparation itself installs (tool links, ct-ng.config), Old    *)
(* for what an earlier build from scratch left behind.                     *)
(***************************************************************************)
EXTENDS Naturals, Sequences

CONSTANTS
    NSteps,     \* Len(CT_STEPS)
    Dirs,       \* the directories the steps install into
    BuildDirs,  \* those below CT_BUILD_DIR
    PrefixDirs, \* those below CT_INSTALL_DIR
    SaveOrder,  \* the directories a saved state holds, in the order they are saved
    Writes,     \* Writes[k]: the directories step k installs into; Writes[0]: the preparation
    Needs,      \* Needs[k]: the <<directory, step>> outputs that do_<k> cannot do without
    Configs,    \* the .config files the user may have when starting an invocation
    MaxRuns     \* bound on the number of invocations

Steps     == 1..NSteps
None      == 0            \* CT_RESTART or CT_STOP is empty
Unknown   == NSteps + 1   \* CT_RESTART or CT_STOP names no step of CT_STEPS
StepNames == 0..(NSteps + 1)
Old       == NSteps + 1
Outputs   == 0..(NSteps + 1)
M         == Len(SaveOrder)
SavedDirs == {SaveOrder[m] : m \in 1..M}
Files     == SavedDirs \cup {"env.sh", "log"}

ConfigType == [save : BOOLEAN,  \* CT_DEBUG_CT_SAVE_STEPS
               gz   : BOOLEAN,  \* CT_DEBUG_CT_SAVE_STEPS_GZIP
               log  : BOOLEAN,  \* CT_LOG_TO_FILE
               rm   : BOOLEAN,  \* CT_RM_RF_PREFIX_DIR
               only : BOOLEAN]  \* CT_ONLY_DOWNLOAD or CT_ONLY_EXTRACT

Shell == [RESTART : StepNames, STOP : StepNames,
          do_it : BOOLEAN, do_stop : BOOLEAN, cfg : ConfigType]

ASSUME NStepsAssumption == NSteps \in Nat \ {0}
ASSUME DirsAssumption ==
    /\ BuildDirs \subseteq Dirs
    /\ PrefixDirs \subseteq Dirs
    /\ BuildDirs \cap PrefixDirs = {}
    /\ {"env.sh", "log"} \cap Dirs = {}
ASSUME SaveOrderAssumption ==
    /\ SaveOrder \in Seq(Dirs)
    /\ \A m, n \in 1..Len(SaveOrder) : SaveOrder[m] = SaveOrder[n] => m = n
ASSUME StepAssumption ==
    /\ Writes \in [0..NSteps -> SUBSET Dirs]
    /\ Needs \in [1..NSteps -> SUBSET (Dirs \X (0..NSteps))]
\* A step needs what earlier ones install.
ASSUME NeedsAssumption ==
    \A k \in 1..NSteps : \A in \in Needs[k] : in[2] < k /\ in[1] \in Writes[in[2]]
\* What no state holds (CT_COMPLIBS_DIR) lies below CT_BUILD_DIR.
ASSUME UnsavedAssumption == Dirs \subseteq BuildDirs \cup {SaveOrder[m] : m \in 1..Len(SaveOrder)}
\* Kconfig: DEBUG_CT_SAVE_STEPS_GZIP depends on DEBUG_CT_SAVE_STEPS.
ASSUME ConfigAssumption ==
    /\ Configs # {}
    /\ Configs \subseteq ConfigType
    /\ \A c \in Configs : c.gz => c.save
ASSUME RunsAssumption == MaxRuns \in Nat

VARIABLES
    (* What survives the process *)
    dir,       \* dir[d]: whose output directory d holds
    rooted,    \* CT_STATE_DIR exists
    stateDir,  \* the steps k for which ${CT_STATE_DIR}/k exists
    file,      \* file[k][f]: "absent", "partial" (cut while being written), "whole"
    tar,       \* tar[k][d]: the contents of d that went in the tarball of state k
    envOf,     \* envOf[k]: the shell variables dumped in env.sh of state k
    ext,       \* ext[k]: the tarballs of state k have the .gz extension
    tail,      \* the states that hold a tail.log
    (* The running shell *)
    pc,        \* where the driver is
    sh,        \* its variables
    step,      \* the loop variable
    n,         \* the file of a state being saved or restored
    busy,      \* the state directory being removed, or None
    left,      \* the directories the running step has still to install into
    runs,      \* invocations so far
    (* Observation only *)
    req,       \* what the user asked of this invocation
    ran,       \* the steps this invocation has completed
    torn,      \* the states whose removal was begun and is not finished
    junk,      \* the states saved by an invocation that restored a torn or misread state
    taint,     \* this invocation restored such a state
    outcome    \* how the last invocation ended

disk  == <<dir, rooted, stateDir, file, tar, envOf, ext, tail>>
proc  == <<pc, sh, step, n, busy, left>>
ghost == <<req, ran, torn, junk, taint>>
vars  == <<disk, proc, runs, ghost, outcome>>

\* "failed" by itself; "abort": by what the driver did, or what it found.
Outcomes == {"none", "abort", "failed", "stopped", "done", "killed"}

PCs == {"idle", "check", "wipe_prefix", "wipe_state", "mkdirs", "setup", "loop",
        "purge", "mkstate", "save", "saved", "load", "load_dirs", "load_env",
        "load_log", "run", "finish"}

\* Where the loop variable names a step.
InStep == {"purge", "mkstate", "save", "saved", "load", "load_dirs", "load_env",
           "load_log", "run"}

NoFiles == [f \in Files |-> "absent"]

\* The variables a shell starts with: .config and the environment make exports.
FreshShell(c, r, s) ==
    [RESTART |-> r, STOP |-> s, do_it |-> FALSE, do_stop |-> FALSE, cfg |-> c]
AnyConfig == CHOOSE c \in Configs : TRUE
NoShell   == FreshShell(AnyConfig, None, None)
NoRequest == [RESTART |-> None, STOP |-> None]

\* (Wrong variant: the log saved before the tarballs.)
FileAtLogFirst(i) == IF i = 0 THEN "env.sh" ELSE IF i = 1 THEN "log" ELSE SaveOrder[i - 1]
\* The n-th file CT_DoSaveState writes.
FileAt(i) == IF i = 0 THEN "env.sh" ELSE IF i <= M THEN SaveOrder[i] ELSE "log"

StateTable == [Steps -> [Files -> {"absent", "partial", "whole"}]]
TarTable   == [Steps -> [SavedDirs -> SUBSET Outputs]]
Requests   == [RESTART : StepNames, STOP : StepNames]

DiskTypeOK ==
    /\ dir \in [Dirs -> SUBSET Outputs]
    /\ rooted \in BOOLEAN
    /\ stateDir \subseteq Steps
    /\ file \in StateTable
    /\ tar \in TarTable
    /\ envOf \in [Steps -> Shell]
    /\ ext \in [Steps -> BOOLEAN]
    /\ tail \subseteq Steps

ProcTypeOK ==
    /\ pc \in PCs
    /\ sh \in Shell
    /\ step \in 1..(NSteps + 1)
    /\ pc \in InStep => step \in Steps
    /\ n \in 0..(M + 1)
    /\ pc = "load_dirs" => n <= M
    /\ busy \in 0..NSteps
    /\ left \subseteq Dirs

ObservedTypeOK ==
    /\ runs \in 0..MaxRuns
    /\ req \in Requests
    /\ ran \subseteq Steps
    /\ torn \subseteq Steps
    /\ junk \subseteq Steps
    /\ taint \in BOOLEAN
    /\ outcome \in Outcomes

TypeOK == DiskTypeOK /\ ProcTypeOK /\ ObservedTypeOK

Init ==
    /\ dir = [d \in Dirs |-> {}]
    /\ rooted = FALSE
    /\ stateDir = {}
    /\ file = [k \in Steps |-> NoFiles]
    /\ tar = [k \in Steps |-> [d \in SavedDirs |-> {}]]
    /\ envOf = [k \in Steps |-> NoShell]
    /\ ext = [k \in Steps |-> FALSE]
    /\ tail = {}
    /\ pc = "idle"
    /\ sh = NoShell
    /\ step = 1
    /\ n = 0
    /\ busy = None
    /\ left = {}
    /\ runs = 0
    /\ req = NoRequest
    /\ ran = {}
    /\ torn = {}
    /\ junk = {}
    /\ taint = FALSE
    /\ outcome = "none"

-----------------------------------------------------------------------------
(* Ends of an invocation *)

\* The shell is gone: what it had in memory with it.
Exit(o) ==
    /\ outcome' = o
    /\ pc' = "idle"
    /\ sh' = NoShell
    /\ step' = 1
    /\ n' = 0
    /\ busy' = None
    /\ left' = {}
    /\ req' = NoRequest
    /\ ran' = {}
    /\ taint' = FALSE
    /\ UNCHANGED <<runs, torn, junk>>

\* Ctrl-C, a kill, a reboot: at any point.  (The effects of a kill in the middle of
\* an action whose result the next invocation throws away are not told apart.)
Crash ==
    /\ pc # "idle"
    /\ Exit("killed")
    /\ UNCHANGED disk

Goto(label) == pc' = label

-----------------------------------------------------------------------------
(* Preparation *)

\* ct-ng build [RESTART=r] [STOP=s], with the .config of the moment.
Start(c, r, s) ==
    /\ pc = "idle"
    /\ runs < MaxRuns
    /\ runs' = runs + 1
    /\ sh' = FreshShell(c, r, s)
    /\ req' = [RESTART |-> r, STOP |-> s]
    /\ outcome' = "none"
    /\ Goto("check")
    /\ UNCHANGED <<disk, step, n, busy, left, ran, torn, junk, taint>>

\* "We must ensure that we can restart if asked for!"
RefuseRestart ==
    /\ pc = "check"
    /\ sh.RESTART # None
    /\ ~rooted
    /\ Exit("abort")
    /\ UNCHANGED disk

\* (Wrong variant: a restart finds the build directory as it was.)
EradicatedAnew ==
    [d \in Dirs |-> IF d \in BuildDirs /\ sh.RESTART = None THEN {} ELSE dir[d]]
\* "The build directory shall be eradicated, even if we restart!"
Eradicated == [d \in Dirs |-> IF d \in BuildDirs THEN {} ELSE dir[d]]

EradicateBuildDir ==
    /\ pc = "check"
    /\ sh.RESTART = None \/ rooted
    /\ dir' = Eradicated
    /\ Goto(IF sh.RESTART = None THEN "wipe_prefix" ELSE "mkdirs")
    /\ UNCHANGED <<rooted, stateDir, file, tar, envOf, ext, tail,
                   sh, step, n, busy, left, runs, ghost, outcome>>

\* A build from scratch removes the installed toolchain only with
\* CT_RM_RF_PREFIX_DIR, and CT_BUILDTOOLS_PREFIX_DIR never: what stays there is
\* from now on the output of an earlier build.
WipePrefix ==
    /\ pc = "wipe_prefix"
    /\ dir' = [d \in Dirs |->
                 IF dir[d] = {} \/ (d \in PrefixDirs /\ sh.cfg.rm) THEN {} ELSE {Old}]
    /\ Goto("wipe_state")
    /\ UNCHANGED <<rooted, stateDir, file, tar, envOf, ext, tail,
                   sh, step, n, busy, left, runs, ghost, outcome>>

\* rm -rf, one entry of the state directory after the other, in any order.
RemoveFile ==
    /\ busy # None
    /\ \/ \E f \in Files :
             /\ file[busy][f] # "absent"
             /\ file' = [file EXCEPT ![busy][f] = "absent"]
             /\ UNCHANGED tail
       \/ /\ busy \in tail
          /\ tail' = tail \ {busy}
          /\ UNCHANGED file
    /\ UNCHANGED <<dir, rooted, stateDir, tar, envOf, ext, proc, runs, ghost, outcome>>

RemoveStateDir ==
    /\ busy # None
    /\ file[busy] = NoFiles
    /\ busy \notin tail
    /\ stateDir' = stateDir \ {busy}
    /\ torn' = torn \ {busy}
    /\ junk' = junk \ {busy}
    /\ busy' = None
    /\ Goto(IF pc = "purge" THEN "mkstate" ELSE pc)
    /\ UNCHANGED <<dir, rooted, file, tar, envOf, ext, tail,
                   sh, step, n, left, runs, req, ran, taint, outcome>>

BeginRemoval(k) ==
    /\ busy' = k
    /\ torn' = torn \cup {k}

\* "In case we start anew, get rid of the previously saved state directory"
WipeState ==
    /\ pc = "wipe_state"
    /\ busy = None
    /\ \E k \in stateDir : BeginRemoval(k)
    /\ UNCHANGED <<disk, pc, sh, step, n, left, runs, req, ran, junk, taint, outcome>>

\* What rm -rf guarantees.
NoStateLeft == stateDir = {}

StateWiped ==
    /\ pc = "wipe_state"
    /\ busy = None
    /\ NoStateLeft
    /\ rooted' = FALSE
    /\ Goto("mkdirs")
    /\ UNCHANGED <<dir, stateDir, file, tar, envOf, ext, tail,
                   sh, step, n, busy, left, runs, ghost, outcome>>

\* The shell variables of the step loop, before its first turn.
LoopShell == [sh EXCEPT !.do_it = (sh.RESTART = None), !.do_stop = FALSE]

\* CT_ONLY_DOWNLOAD and CT_ONLY_EXTRACT skip the loop altogether.
EnterLoop ==
    /\ sh' = LoopShell
    /\ Goto(IF sh.cfg.only THEN "finish" ELSE "loop")

\* The directories are created; the state directory only for a restartable build.
MakeDirs ==
    /\ pc = "mkdirs"
    /\ rooted' = (rooted \/ sh.cfg.save)
    /\ IF sh.RESTART = None THEN Goto("setup") /\ UNCHANGED sh ELSE EnterLoop
    /\ UNCHANGED <<dir, stateDir, file, tar, envOf, ext, tail,
                   step, n, busy, left, runs, ghost, outcome>>

\* Environment, tool links, retrieval, extraction, companion tools: only when
\* not restarting.
Setup ==
    /\ pc = "setup"
    /\ dir' = [d \in Dirs |-> IF d \in Writes[0] THEN dir[d] \cup {0} ELSE dir[d]]
    /\ EnterLoop
    /\ UNCHANGED <<rooted, stateDir, file, tar, envOf, ext, tail,
                   step, n, busy, left, runs, ghost, outcome>>

\* A download, an extraction or a companion tool fails.
SetupFails ==
    /\ pc = "setup"
    /\ Exit("failed")
    /\ UNCHANGED disk

-----------------------------------------------------------------------------
(* The step loop *)

\* (Wrong variant: one turn too many.)
ListedOrNext == step \in 1..(NSteps + 1)
\* The loop variable names a step.
Listed == step \in Steps

\* Before the step to restart at, steps are skipped: not saved, not run.
SkipStep ==
    /\ pc = "loop"
    /\ Listed
    /\ ~sh.do_it
    /\ step # sh.RESTART
    /\ step' = step + 1
    /\ UNCHANGED <<disk, pc, sh, n, busy, left, runs, ghost, outcome>>

\* The step to restart at: CT_DoLoadState.
RestartHere ==
    /\ pc = "loop"
    /\ Listed
    /\ ~sh.do_it
    /\ step = sh.RESTART
    /\ Goto("load")
    /\ UNCHANGED <<disk, sh, step, n, busy, left, runs, ghost, outcome>>

\* Any later step: CT_DoSaveState, which returns at once without CT_DEBUG_CT_SAVE_STEPS
\* and else begins by removing what is left of an older state of that name.
EnterStep ==
    /\ pc = "loop"
    /\ Listed
    /\ sh.do_it
    /\ IF ~sh.cfg.save THEN Goto("saved") /\ UNCHANGED <<busy, torn>>
       ELSE IF step \in stateDir THEN Goto("purge") /\ BeginRemoval(step)
       ELSE Goto("mkstate") /\ UNCHANGED <<busy, torn>>
    /\ UNCHANGED <<disk, sh, step, n, left, runs, req, ran, junk, taint, outcome>>

LoopEnds ==
    /\ pc = "loop"
    /\ step \notin Steps
    /\ Goto("finish")
    /\ UNCHANGED <<disk, sh, step, n, busy, left, runs, ghost, outcome>>

-----------------------------------------------------------------------------
(* CT_DoSaveState *)

\* mkdir -p "${state_dir}" makes CT_STATE_DIR as well.
MakeStateDir ==
    /\ pc = "mkstate"
    /\ rooted' = TRUE
    /\ stateDir' = stateDir \cup {step}
    /\ ext' = [ext EXCEPT ![step] = sh.cfg.gz]
    /\ junk' = IF taint THEN junk \cup {step} ELSE junk
    /\ n' = 0
    /\ Goto("save")
    /\ UNCHANGED <<dir, file, tar, envOf, tail, sh, step, busy, left, runs,
                   req, ran, torn, taint, outcome>>

\* env.sh, the tarballs in SaveOrder, the log: each is created empty, then filled.
BeginFile ==
    /\ pc = "save"
    /\ file[step][FileAt(n)] = "absent"
    /\ file' = [file EXCEPT ![step][FileAt(n)] = "partial"]
    /\ IF FileAt(n) \in SavedDirs
       THEN tar' = [tar EXCEPT ![step][FileAt(n)] = dir[FileAt(n)]]
       ELSE UNCHANGED tar
    /\ IF FileAt(n) = "env.sh"
       THEN envOf' = [envOf EXCEPT ![step] = sh]
       ELSE UNCHANGED envOf
    /\ UNCHANGED <<dir, rooted, stateDir, ext, tail, proc, runs, ghost, outcome>>

EndFile ==
    /\ pc = "save"
    /\ file[step][FileAt(n)] = "partial"
    /\ file' = [file EXCEPT ![step][FileAt(n)] = "whole"]
    /\ IF n = M + 1 THEN n' = 0 /\ Goto("saved") ELSE n' = n + 1 /\ UNCHANGED pc
    /\ UNCHANGED <<dir, rooted, stateDir, tar, envOf, ext, tail,
                   sh, step, busy, left, runs, ghost, outcome>>

\* The disk is full: the trap on ERR ends the build.
SaveFails ==
    /\ pc = "save"
    /\ Exit("failed")
    /\ UNCHANGED disk

\* "Stopping just after step '${prev_step}', as requested."
StopHere ==
    /\ pc = "saved"
    /\ sh.do_stop
    /\ Exit("stopped")
    /\ UNCHANGED disk

BeginStep ==
    /\ pc = "saved"
    /\ ~sh.do_stop
    /\ left' = Writes[step]
    /\ Goto("run")
    /\ UNCHANGED <<disk, sh, step, n, busy, runs, ghost, outcome>>

-----------------------------------------------------------------------------
(* CT_DoLoadState *)

\* "The previous build did not reach the point where it could be restarted at"
RefuseLoad ==
    /\ pc = "load"
    /\ step \notin stateDir
    /\ Exit("abort")
    /\ UNCHANGED disk

\* (Wrong variant: tail.log is never created.)
NoTailLog == tail
\* tail.log is created only with CT_LOG_TO_FILE.
TailLog == IF sh.cfg.log THEN tail \cup {step} ELSE tail

BeginLoad ==
    /\ pc = "load"
    /\ step \in stateDir
    /\ tail' = TailLog
    /\ taint' = (step \in torn \/ step \in junk \/ ext[step] # sh.cfg.gz)
    /\ n' = M
    /\ Goto("load_dirs")
    /\ UNCHANGED <<dir, rooted, stateDir, file, tar, envOf, ext,
                   sh, step, busy, left, runs, req, ran, torn, junk, outcome>>

\* (Wrong variant: compressed tarballs are not looked for.)
HasPlainTarball(d) == file[step][d] # "absent" /\ ~ext[step]
\* The tarball CT_DoExtractTarballIfExists looks for has the extension the present
\* .config asks for.
HasTarball(d) == file[step][d] # "absent" /\ ext[step] = sh.cfg.gz

\* (Wrong variant: the directory is not removed before.)
UnpackedOver(d, c) == dir[d] \cup c
\* What d holds once c is extracted there: CT_DoForceRmdir has emptied it before.
Unpacked(d, c) == c

\* The directories are restored in the reverse order, each removed before.  One
\* whose tarball is not found is left as it is.  What a cut tarball gives is any part
\* of its contents, if tar does not fail.
LoadDir ==
    /\ pc = "load_dirs"
    /\ n > 0
    /\ LET d == SaveOrder[n] IN
          IF ~HasTarball(d) THEN UNCHANGED dir
          ELSE \E c \in SUBSET tar[step][d] :
                  /\ file[step][d] = "whole" => c = tar[step][d]
                  /\ dir' = [dir EXCEPT ![d] = Unpacked(d, c)]
    /\ n' = n - 1
    /\ UNCHANGED <<rooted, stateDir, file, tar, envOf, ext, tail,
                   pc, sh, step, busy, left, runs, ghost, outcome>>

TarFails ==
    /\ pc = "load_dirs"
    /\ n > 0
    /\ LET d == SaveOrder[n] IN
          /\ HasTarball(d)
          /\ file[step][d] = "partial"
          /\ \E c \in SUBSET tar[step][d] : dir' = [dir EXCEPT ![d] = Unpacked(d, c)]
    /\ Exit("abort")
    /\ UNCHANGED <<rooted, stateDir, file, tar, envOf, ext, tail>>

DirsLoaded ==
    /\ pc = "load_dirs"
    /\ n = 0
    /\ Goto("load_env")
    /\ UNCHANGED <<disk, sh, step, n, busy, left, runs, ghost, outcome>>

\* (Wrong variant: the saved CT_RESTART and CT_STOP are kept.)
RestoredAll(e) == e
\* CT_RESTART and CT_STOP are put back to what was asked.
Restored(e) == [e EXCEPT !.RESTART = sh.RESTART, !.STOP = sh.STOP]

\* ". env.sh || true": whatever env.sh holds is taken over, a missing or cut env.sh is
\* no error.
LoadEnv ==
    /\ pc = "load_env"
    /\ \E e \in {sh, envOf[step]} :
          /\ file[step]["env.sh"] = "whole" => e = envOf[step]
          /\ file[step]["env.sh"] = "absent" => e = sh
          /\ sh' = Restored(e)
    /\ Goto("load_log")
    /\ UNCHANGED <<disk, step, n, busy, left, runs, ghost, outcome>>

\* (Wrong variant: only a compressed log is looked for.)
HasGzippedLog == file[step]["log"] = "whole" /\ sh.cfg.gz
\* (Wrong variant: a missing log does not matter.)
AnyLog == TRUE
\* The log, under the name the restored environment gives it; cat takes a cut log,
\* zcat does not.
HasLog ==
    /\ ext[step] = sh.cfg.gz
    /\ \/ file[step]["log"] = "whole"
       \/ file[step]["log"] = "partial" /\ ~sh.cfg.gz

\* (Wrong variant: do_stop is kept as env.sh has it.)
ResumedAsSaved == [sh EXCEPT !.do_it = TRUE]
\* Back in the loop: do_it and do_stop are set again, env.sh has just changed them.
Resumed == [sh EXCEPT !.do_it = TRUE, !.do_stop = FALSE]

LoadLog ==
    /\ pc = "load_log"
    /\ HasLog
    /\ step \in tail
    /\ tail' = tail \ {step}
    /\ sh' = Resumed
    /\ left' = Writes[step]
    /\ Goto("run")
    /\ UNCHANGED <<dir, rooted, stateDir, file, tar, envOf, ext,
                   step, n, busy, runs, ghost, outcome>>

\* cat or zcat fails: the trap on ERR ends the build.
LoadFails ==
    /\ pc = "load_log"
    /\ ~HasLog \/ step \notin tail
    /\ Exit("abort")
    /\ UNCHANGED disk

-----------------------------------------------------------------------------
(* The steps, and the end *)

InputsPresent(k) == \A in \in Needs[k] : in[2] \in dir[in[1]]

\* do_${step} installs into one directory after the other.
Install ==
    /\ pc = "run"
    /\ InputsPresent(step)
    /\ \E d \in left :
          /\ dir' = [dir EXCEPT ![d] = @ \cup {step}]
          /\ left' = left \ {d}
    /\ UNCHANGED <<rooted, stateDir, file, tar, envOf, ext, tail,
                   pc, sh, step, n, busy, runs, ghost, outcome>>

\* A configure or make error.
StepFails ==
    /\ pc = "run"
    /\ Exit("failed")
    /\ UNCHANGED disk

\* For want of an input, the only way on.
InputMissing ==
    /\ pc = "run"
    /\ ~InputsPresent(step)
    /\ Exit("abort")
    /\ UNCHANGED disk

StepDone ==
    /\ pc = "run"
    /\ InputsPresent(step)
    /\ left = {}
    /\ sh' = [sh EXCEPT !.do_stop = (sh.do_stop \/ sh.STOP = step)]
    /\ ran' = ran \cup {step}
    /\ step' = step + 1
    /\ Goto("loop")
    /\ UNCHANGED <<disk, n, busy, left, runs, req, torn, junk, taint, outcome>>

\* "Finishing installation": the log is copied to the prefix.
Finish ==
    /\ pc = "finish"
    /\ Exit("done")
    /\ UNCHANGED disk

Prepare == RefuseRestart \/ EradicateBuildDir \/ WipePrefix \/ WipeState \/ StateWiped
           \/ MakeDirs \/ Setup \/ SetupFails
Remove  == RemoveFile \/ RemoveStateDir
Loop    == SkipStep \/ RestartHere \/ EnterStep \/ LoopEnds
Save    == MakeStateDir \/ BeginFile \/ EndFile \/ SaveFails \/ StopHere \/ BeginStep
Load    == RefuseLoad \/ BeginLoad \/ LoadDir \/ TarFails \/ DirsLoaded \/ LoadEnv
           \/ LoadLog \/ LoadFails
Run     == Install \/ StepFails \/ InputMissing \/ StepDone \/ Finish
Driver  == Prepare \/ Remove \/ Loop \/ Save \/ Load \/ Run

User == \E c \in Configs, r, s \in StepNames : Start(c, r, s)

Next == User \/ Crash \/ Driver

Spec == Init /\ [][Next]_vars

\* The shell goes on as long as it has something to do.
FairSpec == Spec /\ WF_vars(Driver)

-----------------------------------------------------------------------------
(* Properties *)

\* What directory d holds just before step k in a build that was never interrupted.
Expected(k, d) == {j \in 0..(k - 1) : d \in Writes[j]}

\* d holds what it has to before step k.
Exact(k, d) == dir[d] \ {Old} = Expected(k, d)

\* What the running step has installed in d so far.
Installed(d) == IF d \in Writes[step] \ left THEN {step} ELSE {}

\* The invocation is at a step, on directories it can rely on.
OnTheWay ==
    /\ ~taint
    /\ \/ pc \in {"purge", "mkstate", "save", "saved", "run"}
       \/ pc = "loop" /\ sh.do_it /\ step \in Steps

CP == INSTANCE Checkpoints WITH
        Last   <- NSteps,
        at     <- IF OnTheWay THEN step ELSE 0,
        points <- {k \in stateDir \ (torn \cup junk) : file[k]["log"] # "absent"}

\* The driver implements a build with checkpoints: steps are run in order, a state
\* appears only for the step about to be run, and a run begins at step 1 with no state
\* left, or at a step whose state was kept.
KeepsCheckpoints == CP!CPSpec

\* Whatever failures, kills and restarts came before, a step runs on saved directories
\* that hold the output of every step before it, what it has installed itself since, and
\* nothing else (CT_DoSaveState, CT_DoLoadState and the step loop together).  A state cut
\* short by a kill while it was saved is never run from.  Excepted is a restart from a
\* state whose removal was cut short, or under another CT_DEBUG_CT_SAVE_STEPS_GZIP:
\* nothing is restored then, and nothing fails.
ExactStart ==
    (pc = "run" /\ ~taint) =>
        \A d \in SavedDirs : dir[d] \ {Old} = Expected(step, d) \cup Installed(d)

\* Every input of a step is there when the step starts, after a restart as well.
RestartInputs == (pc = "run" /\ ~taint) => InputsPresent(step)

\* The directories a restart finds empty: eradicated with CT_BUILD_DIR, in no state.
Unsaved == BuildDirs \ SavedDirs

\* What this invocation has put there so far: what its own steps have and, where it did
\* not restart, the preparation.
Here == ran \cup (IF req.RESTART = None THEN {0} ELSE {})

\* What a step misses when it runs is what lies in such a directory (the companion
\* libraries in CT_COMPLIBS_DIR) and was not built by this invocation itself: a restart
\* behind the step that made it loses it, whatever states there are, and nothing else is
\* ever lost, to failures, kills and restarts.
OnlyUnsavedMissing ==
    (pc = "run" /\ ~taint) =>
        \A in \in Needs[step] :
            in[2] \notin dir[in[1]] <=> in[1] \in Unsaved /\ in[2] \notin Here

\* An invocation runs an unbroken stretch of CT_STEPS that starts where it was asked
\* to, and nothing after the step it was asked to stop after, whatever variables a
\* restored env.sh brings back.
First == IF req.RESTART = None THEN 1 ELSE req.RESTART
RunsAsAsked ==
    pc = "run" => step >= First /\ ran = First..(step - 1) /\ req.STOP \notin ran

\* An invocation ends without an error in two ways only.  It stops, because it has just
\* run the step it was asked to stop after: neither a CT_STOP nor a do_stop of the
\* invocation that saved the state is taken over.  Or it is done, has run every step
\* from where it was asked to start to the last, and leaves in the saved directories
\* what an uninterrupted build leaves.  (RESTART= naming no step runs nothing and is
\* done as well.)
Ends(how) == outcome' = how /\ outcome = "none"
EndsAsAsked ==
    [][/\ Ends("stopped") => req.STOP \in ran /\ step = req.STOP + 1
       /\ (Ends("done") /\ ~sh.cfg.only /\ req.RESTART # Unknown) =>
             /\ ran = First..NSteps
             /\ ~taint => \A d \in SavedDirs : Exact(NSteps + 1, d)]_vars

\* A state that was saved to the end.
Restartable(k) ==
    k \in stateDir \ (torn \cup junk) /\ file[k] = [f \in Files |-> "whole"]

\* Restoring such a state does not fail once it has begun, with the compression it was
\* saved with.
LoadSucceeds ==
    [][(pc \in {"load", "load_dirs", "load_env", "load_log"} /\ Restartable(step) /\ ~taint)
          => outcome' # "abort"]_vars

\* No step from r on needs what only a step before r leaves in an unsaved directory.
SelfContained(r) ==
    \A k \in r..NSteps : \A in \in Needs[k] : in[1] \in Unsaved => in[2] >= r

\* A build from scratch, and a restart from any step saved to the end behind which
\* nothing unsaved is needed, reaches the end of CT_STEPS or the step it was to stop
\* after, unless it is killed or something fails by itself: nothing the driver and
\* earlier invocations did keeps it from that.
Promising ==
    /\ pc = "check"
    /\ \/ req.RESTART = None
       \/ /\ Restartable(req.RESTART)
          /\ ext[req.RESTART] = sh.cfg.gz
          /\ SelfContained(req.RESTART)
ReachesGoal == Promising ~> (outcome \in {"done", "stopped", "failed", "killed"})

=============================================================================
