-------------------------- MODULE BuildDriverProofs --------------------------
(***************************************************************************)
(* Theorems about BuildDriver, for every number of steps, every layout of  *)
(* directories and every set of .config files: its types, that every step  *)
(* starts from exact directories (ExactStart) after any number of          *)
(* failures, kills and restarts, which steps an invocation runs, what a    *)
(* restart misses, and that the driver implements Checkpoints.             *)
(***************************************************************************)
EXTENDS BuildDriver, TLAPS

USE NStepsAssumption, RunsAssumption

-----------------------------------------------------------------------------
(* Types *)

LEMMA NoShellType == NoShell \in Shell
<1>1. AnyConfig \in ConfigType
  BY ConfigAssumption DEF AnyConfig
<1>2. QED
  BY <1>1 DEF NoShell, FreshShell, Shell, None, StepNames

\* The saved directories are directories, and no saved file's name is one of theirs.
LEMMA SaveOrderFacts ==
    /\ M \in Nat
    /\ SavedDirs \subseteq Dirs
    /\ \A m \in 1..M : SaveOrder[m] \in SavedDirs
    /\ \A m \in 0..(M + 1) : FileAt(m) \in Files
    /\ "log" \notin SavedDirs /\ "env.sh" \notin SavedDirs
BY SaveOrderAssumption, DirsAssumption DEF M, SavedDirs, FileAt, Files

\* What an invocation leaves when it ends is of the right type.
LEMMA ExitType ==
    ASSUME TypeOK, NEW o \in Outcomes, Exit(o)
    PROVE  ProcTypeOK' /\ ObservedTypeOK'
<1>1. ProcTypeOK'
  BY NoShellType, SaveOrderFacts DEF ProcTypeOK, Exit, PCs, InStep, None
<1>2. NoRequest \in Requests
  BY DEF NoRequest, Requests, StepNames, None
<1>3. ObservedTypeOK'
  BY <1>2 DEF TypeOK, ObservedTypeOK, Exit
<1>4. QED
  BY <1>1, <1>3

LEMMA DiskUnchanged == DiskTypeOK /\ UNCHANGED disk => DiskTypeOK'
BY DEF DiskTypeOK, disk

LEMMA InitType == Init => TypeOK
<1> SUFFICES ASSUME Init PROVE TypeOK
  OBVIOUS
<1>1. NoFiles \in [Files -> {"absent", "partial", "whole"}]
  BY DEF NoFiles
<1>2. file \in StateTable /\ tar \in TarTable
  BY <1>1 DEF Init, StateTable, TarTable
<1>3. DiskTypeOK
  BY <1>2, NoShellType DEF Init, DiskTypeOK
<1>4. ProcTypeOK
  BY NoShellType, SaveOrderFacts DEF Init, ProcTypeOK, PCs, InStep, None
<1>5. NoRequest \in Requests
  BY DEF NoRequest, Requests, StepNames, None
<1>6. ObservedTypeOK
  <2>1. runs \in 0..MaxRuns /\ req \in Requests
    BY <1>5 DEF Init
  <2>5. taint \in BOOLEAN
    BY Zenon DEF Init
  <2>2. ran \subseteq Steps /\ torn \subseteq Steps /\ junk \subseteq Steps
    BY DEF Init
  <2>3. outcome \in Outcomes
    BY DEF Init, Outcomes
  <2>4. QED
    BY <2>1, <2>2, <2>3, <2>5 DEF ObservedTypeOK
<1>7. QED
  BY <1>3, <1>4, <1>6 DEF TypeOK

\* The loop's shell variables.
LEMMA LoopShellType == sh \in Shell => LoopShell \in Shell
BY DEF LoopShell, Shell

LEMMA PrepareType == TypeOK /\ Prepare => TypeOK'
<1> SUFFICES ASSUME TypeOK, Prepare PROVE TypeOK'
  OBVIOUS
<1> USE DEF TypeOK
<1>1. CASE RefuseRestart
  BY <1>1, ExitType, DiskUnchanged DEF Outcomes, RefuseRestart
<1>2. CASE EradicateBuildDir
  BY <1>2 DEF EradicateBuildDir, Eradicated, DiskTypeOK, ProcTypeOK, ObservedTypeOK, ghost, Goto, PCs, InStep
<1>3. CASE WipePrefix
  BY <1>3 DEF WipePrefix, DiskTypeOK, ProcTypeOK, ObservedTypeOK, ghost, Goto, PCs, InStep, Old, Outputs
<1>4. CASE WipeState
  BY <1>4, DiskUnchanged DEF WipeState, BeginRemoval, DiskTypeOK, ProcTypeOK, ObservedTypeOK, Steps
<1>5. CASE StateWiped
  BY <1>5 DEF StateWiped, DiskTypeOK, ProcTypeOK, ObservedTypeOK, ghost, Goto, PCs, InStep
<1>6. CASE MakeDirs
  <2>1. sh' \in Shell /\ pc' \in PCs
    BY <1>6, LoopShellType DEF MakeDirs, EnterLoop, ProcTypeOK, Goto, PCs, InStep
  <2>2. rooted' \in BOOLEAN
    BY <1>6 DEF MakeDirs, DiskTypeOK, ProcTypeOK, Shell, ConfigType
  <2>3. QED
    BY <1>6, <2>1, <2>2 DEF MakeDirs, DiskTypeOK, ProcTypeOK, ObservedTypeOK, ghost, InStep, Goto, EnterLoop
<1>7. CASE Setup
  <2>1. sh' \in Shell /\ pc' \in PCs
    BY <1>7, LoopShellType DEF Setup, EnterLoop, ProcTypeOK, Goto, PCs, InStep
  <2>2. dir' \in [Dirs -> SUBSET Outputs]
    BY <1>7 DEF Setup, DiskTypeOK, Outputs
  <2>3. QED
    BY <1>7, <2>1, <2>2 DEF Setup, DiskTypeOK, ProcTypeOK, ObservedTypeOK, ghost, InStep, Goto, EnterLoop
<1>8. CASE SetupFails
  BY <1>8, ExitType, DiskUnchanged DEF Outcomes, SetupFails
<1>9. QED
  BY <1>1, <1>2, <1>3, <1>4, <1>5, <1>6, <1>7, <1>8 DEF Prepare

LEMMA RemoveType == TypeOK /\ Remove => TypeOK'
<1> SUFFICES ASSUME TypeOK, Remove PROVE TypeOK'
  OBVIOUS
<1> USE DEF TypeOK
<1>1. CASE RemoveFile
  <2>1. busy \in Steps
    BY <1>1 DEF RemoveFile, ProcTypeOK, Steps, None
  <2>2. ASSUME NEW f \in Files, file' = [file EXCEPT ![busy][f] = "absent"]
        PROVE  file' \in StateTable
    BY <2>1, <2>2 DEF DiskTypeOK, StateTable
  <2>0. file' \in StateTable
    <3>1. file' = file => file' \in StateTable
      BY DEF DiskTypeOK
    <3>2. QED
      BY <1>1, <2>2, <3>1, Zenon DEF RemoveFile
  <2>3. tail' \subseteq Steps
    BY <1>1 DEF RemoveFile, DiskTypeOK
  <2>4. QED
    BY <1>1, <2>0, <2>3 DEF RemoveFile, DiskTypeOK, ProcTypeOK, ObservedTypeOK, proc, ghost
<1>2. CASE RemoveStateDir
  BY <1>2 DEF RemoveStateDir, DiskTypeOK, ProcTypeOK, ObservedTypeOK, Goto, PCs, InStep, None
<1>3. QED
  BY <1>1, <1>2 DEF Remove

LEMMA LoopType == TypeOK /\ Loop => TypeOK'
<1> SUFFICES ASSUME TypeOK, Loop PROVE TypeOK'
  OBVIOUS
<1> USE DiskUnchanged DEF Listed, TypeOK, ProcTypeOK, ObservedTypeOK, ghost
<1>1. CASE SkipStep
  BY <1>1 DEF SkipStep, Steps, InStep
<1>2. CASE RestartHere
  BY <1>2 DEF RestartHere, Goto, PCs, InStep
<1>3. CASE EnterStep
  <2>1. step \in Steps /\ pc' \in PCs /\ pc' # "load_dirs" /\ UNCHANGED <<sh, step, n, left>>
    BY <1>3 DEF EnterStep, Goto, PCs
  <2>2. busy' \in 0..NSteps
    BY <1>3, <2>1 DEF EnterStep, BeginRemoval, Steps
  <2>3. torn' \subseteq Steps
    BY <1>3, <2>1 DEF EnterStep, BeginRemoval
  <2>4. QED
    BY <1>3, <2>1, <2>2, <2>3 DEF EnterStep
<1>4. CASE LoopEnds
  BY <1>4 DEF LoopEnds, Goto, PCs, InStep
<1>5. QED
  BY <1>1, <1>2, <1>3, <1>4 DEF Loop

LEMMA SaveType == TypeOK /\ Save => TypeOK'
<1> SUFFICES ASSUME TypeOK, Save PROVE TypeOK'
  OBVIOUS
<1> USE DEF TypeOK
<1>1. CASE MakeStateDir
  <2>1. step \in Steps
    BY <1>1 DEF MakeStateDir, ProcTypeOK, InStep
  <2>9. QED
    BY <1>1, <2>1, SaveOrderFacts
       DEF MakeStateDir, DiskTypeOK, ProcTypeOK, ObservedTypeOK, Shell, ConfigType, Goto, PCs, InStep
<1>2. CASE BeginFile
  <2>1. step \in Steps /\ FileAt(n) \in Files
    BY <1>2, SaveOrderFacts DEF BeginFile, ProcTypeOK, InStep
  <2>2. file' \in StateTable
    BY <1>2, <2>1 DEF BeginFile, DiskTypeOK, StateTable
  <2>3. tar' \in TarTable
    <3>1. CASE FileAt(n) \in SavedDirs
      <4>1. tar' = [tar EXCEPT ![step][FileAt(n)] = dir[FileAt(n)]]
        BY <1>2, <3>1 DEF BeginFile
      <4>2. dir[FileAt(n)] \in SUBSET Outputs
        BY <3>1, SaveOrderFacts DEF DiskTypeOK
      <4>3. QED
        BY <2>1, <3>1, <4>1, <4>2 DEF DiskTypeOK, TarTable
    <3>2. CASE FileAt(n) \notin SavedDirs
      BY <1>2, <3>2 DEF BeginFile, DiskTypeOK
    <3>3. QED
      BY <3>1, <3>2
  <2>4. envOf' \in [Steps -> Shell]
    BY <1>2, <2>1 DEF BeginFile, DiskTypeOK, ProcTypeOK
  <2>5. QED
    BY <1>2, <2>2, <2>3, <2>4
       DEF BeginFile, DiskTypeOK, ProcTypeOK, ObservedTypeOK, proc, ghost
<1>3. CASE EndFile
  <2>1. step \in Steps /\ FileAt(n) \in Files
    BY <1>3, SaveOrderFacts DEF EndFile, ProcTypeOK, InStep
  <2>2. file' \in StateTable
    BY <1>3, <2>1 DEF EndFile, DiskTypeOK, StateTable
  <2>3. n' \in 0..(M + 1) /\ pc' \in PCs
    BY <1>3, SaveOrderFacts DEF EndFile, ProcTypeOK, Goto, PCs, InStep
  <2>4. QED
    BY <1>3, <2>2, <2>3 DEF EndFile, DiskTypeOK, ProcTypeOK, ObservedTypeOK, ghost, InStep, Goto
<1>4. CASE SaveFails
  BY <1>4, ExitType, DiskUnchanged DEF Outcomes, SaveFails
<1>5. CASE StopHere
  BY <1>5, ExitType, DiskUnchanged DEF Outcomes, StopHere
<1>6. CASE BeginStep
  <2>1. left' \subseteq Dirs
    BY <1>6, StepAssumption DEF BeginStep, ProcTypeOK, InStep, Steps
  <2>2. QED
    BY <1>6, <2>1, DiskUnchanged DEF BeginStep, ProcTypeOK, ObservedTypeOK, ghost, Goto, PCs, InStep
<1>7. QED
  BY <1>1, <1>2, <1>3, <1>4, <1>5, <1>6 DEF Save

LEMMA LoadType == TypeOK /\ Load => TypeOK'
<1> SUFFICES ASSUME TypeOK, Load PROVE TypeOK'
  OBVIOUS
<1> USE DEF TypeOK
<1>1. CASE RefuseLoad
  BY <1>1, ExitType, DiskUnchanged DEF Outcomes, RefuseLoad
<1>2. CASE BeginLoad
  <2>1. tail' \subseteq Steps /\ M \in 0..(M + 1)
    BY <1>2, SaveOrderFacts DEF BeginLoad, TailLog, DiskTypeOK
  <2>2. QED
    BY <1>2, <2>1
       DEF BeginLoad, DiskTypeOK, ProcTypeOK, ObservedTypeOK, Goto, PCs, InStep
<1>3. CASE LoadDir
  <2>1. n - 1 \in 0..(M + 1) /\ n - 1 <= M /\ SaveOrder[n] \in SavedDirs /\ step \in Steps
    BY <1>3, SaveOrderFacts DEF LoadDir, ProcTypeOK, InStep
  <2>2. dir' \in [Dirs -> SUBSET Outputs]
    BY <1>3, <2>1, SaveOrderFacts DEF LoadDir, Unpacked, DiskTypeOK, TarTable
  <2>3. QED
    BY <1>3, <2>1, <2>2 DEF LoadDir, DiskTypeOK, ProcTypeOK, ObservedTypeOK, ghost
<1>4. CASE TarFails
  <2>1. step \in Steps /\ SaveOrder[n] \in SavedDirs
    BY <1>4, SaveOrderFacts DEF TarFails, ProcTypeOK, InStep
  <2>2. dir' \in [Dirs -> SUBSET Outputs]
    BY <1>4, <2>1, SaveOrderFacts DEF TarFails, Unpacked, DiskTypeOK, TarTable
  <2>3. QED
    BY <1>4, <2>2, ExitType DEF Outcomes, TarFails, DiskTypeOK
<1>5. CASE DirsLoaded
  BY <1>5, DiskUnchanged DEF DirsLoaded, ProcTypeOK, ObservedTypeOK, ghost, Goto, PCs, InStep
<1>6. CASE LoadEnv
  <2>1. sh \in Shell /\ envOf[step] \in Shell
    BY <1>6 DEF LoadEnv, DiskTypeOK, ProcTypeOK, InStep
  <2>2. \A e \in Shell : Restored(e) \in Shell
    BY <2>1 DEF Restored, Shell
  <2>3. sh' \in Shell
    BY <1>6, <2>1, <2>2 DEF LoadEnv
  <2>4. QED
    BY <1>6, <2>3, DiskUnchanged DEF LoadEnv, ProcTypeOK, ObservedTypeOK, ghost, Goto, PCs, InStep
<1>7. CASE LoadLog
  <2>1. sh' \in Shell
    BY <1>7 DEF LoadLog, Resumed, ProcTypeOK, Shell
  <2>2. left' \subseteq Dirs /\ tail' \subseteq Steps
    BY <1>7, StepAssumption DEF LoadLog, DiskTypeOK, ProcTypeOK, InStep, Steps
  <2>3. QED
    BY <1>7, <2>1, <2>2
       DEF LoadLog, DiskTypeOK, ProcTypeOK, ObservedTypeOK, ghost, Goto, PCs, InStep
<1>8. CASE LoadFails
  BY <1>8, ExitType, DiskUnchanged DEF Outcomes, LoadFails
<1>9. QED
  BY <1>1, <1>2, <1>3, <1>4, <1>5, <1>6, <1>7, <1>8 DEF Load

LEMMA RunType == TypeOK /\ Run => TypeOK'
<1> SUFFICES ASSUME TypeOK, Run PROVE TypeOK'
  OBVIOUS
<1> USE DEF TypeOK
<1>1. CASE Install
  <2>1. step \in Outputs
    BY <1>1 DEF Install, ProcTypeOK, Outputs
  <2>2. dir' \in [Dirs -> SUBSET Outputs]
    BY <1>1, <2>1 DEF Install, DiskTypeOK
  <2>3. left' \subseteq Dirs
    BY <1>1 DEF Install, ProcTypeOK
  <2>4. QED
    BY <1>1, <2>2, <2>3 DEF Install, DiskTypeOK, ProcTypeOK, ObservedTypeOK, ghost
<1>2. CASE StepFails \/ InputMissing
  BY <1>2, ExitType, DiskUnchanged DEF Outcomes, StepFails, InputMissing
<1>3. CASE StepDone
  <2>1. step \in Steps
    BY <1>3 DEF StepDone, ProcTypeOK, InStep
  <2>2. step' \in 1..(NSteps + 1) /\ ran' \subseteq Steps
    BY <1>3, <2>1 DEF StepDone, ObservedTypeOK, Steps
  <2>3. sh' \in Shell
    BY <1>3 DEF StepDone, ProcTypeOK, Shell
  <2>4. QED
    BY <1>3, <2>2, <2>3, DiskUnchanged
       DEF StepDone, ProcTypeOK, ObservedTypeOK, Goto, PCs, InStep
<1>4. CASE Finish
  BY <1>4, ExitType, DiskUnchanged DEF Outcomes, Finish
<1>5. QED
  BY <1>1, <1>2, <1>3, <1>4 DEF Run

LEMMA UserType == TypeOK /\ User => TypeOK'
<1> SUFFICES ASSUME TypeOK, NEW c \in Configs, NEW r \in StepNames, NEW s \in StepNames,
                    Start(c, r, s)
             PROVE  TypeOK'
  BY DEF User
<1>1. sh' \in Shell /\ req' \in Requests
  BY ConfigAssumption DEF Start, FreshShell, Shell, Requests
<1>2. runs' \in 0..MaxRuns
  BY DEF Start, TypeOK, ObservedTypeOK
<1>3. QED
  BY <1>1, <1>2, DiskUnchanged
     DEF Outcomes, Start, TypeOK, ProcTypeOK, ObservedTypeOK, Goto, PCs, InStep

\* Every variable keeps its type, and the loop variable names a step whenever the
\* driver saves, restores or runs one: the state directory and the function it forms
\* from it, do_${step}, exist.
THEOREM TypeCorrect == Spec => []TypeOK
<1>1. TypeOK /\ [Next]_vars => TypeOK'
  <2> SUFFICES ASSUME TypeOK, [Next]_vars PROVE TypeOK'
    OBVIOUS
  <2>1. CASE User
    BY <2>1, UserType
  <2>2. CASE Crash
    BY <2>2, ExitType, DiskUnchanged DEF Outcomes, Crash, TypeOK
  <2>3. CASE Driver
    BY <2>3, PrepareType, RemoveType, LoopType, SaveType, LoadType, RunType DEF Driver
  <2>4. CASE UNCHANGED vars
    BY <2>4 DEF vars, disk, proc, ghost, TypeOK, DiskTypeOK, ProcTypeOK, ObservedTypeOK
  <2>5. QED
    BY <2>1, <2>2, <2>3, <2>4 DEF Next
<1>2. QED
  BY <1>1, InitType, PTL DEF Spec

-----------------------------------------------------------------------------
(***************************************************************************)
(* ExactStart is not inductive: it speaks of a running step only, while    *)
(* what the step runs on was decided when the state was saved, possibly    *)
(* several invocations before.  IInv adds what has to be true of the       *)
(* states on disk, and of the driver between the two moments.              *)
(***************************************************************************)

\* A state directory that is being removed counts as torn, and one that does not
\* exist holds nothing.
Removing ==
    /\ busy # None => pc \in {"purge", "wipe_state"} /\ busy \in torn
    /\ pc = "purge" => busy = step
    /\ torn \subseteq stateDir
    /\ junk \subseteq stateDir
    /\ \A k \in Steps \ stateDir : file[k] = NoFiles

\* The states a restart may rely on.
Trusted == stateDir \ (torn \cup junk)

\* The tarballs of a trusted state are exact, and whole as soon as there is a log: the
\* log, written last, is the mark that the state was saved to the end.
SavedStates ==
    \A k \in Trusted :
        /\ \A d \in SavedDirs : file[k][d] # "absent" => tar[k][d] \ {Old} = Expected(k, d)
        /\ file[k]["log"] # "absent" => \A d \in SavedDirs : file[k][d] = "whole"

\* While a state is saved, the files before the n-th are whole, those after it absent.
Saving ==
    /\ pc = "mkstate" => step \notin stateDir
    /\ pc = "save" =>
        /\ step \in stateDir \ torn
        /\ taint => step \in junk
        /\ \A m \in 0..(M + 1) : m < n => file[step][FileAt(m)] = "whole"
        /\ \A m \in 0..(M + 1) : m > n => file[step][FileAt(m)] = "absent"

\* The saved directories before the loop, between two steps and during one.
Preparing ==
    /\ pc \in {"idle", "check", "wipe_prefix", "wipe_state", "mkdirs", "setup"} => step = 1
    /\ pc \in {"wipe_prefix", "wipe_state", "setup"} => sh.RESTART = None
    /\ pc \in {"wipe_state", "mkdirs", "setup"} /\ sh.RESTART = None =>
          \A d \in SavedDirs : dir[d] \subseteq {Old}
Between ==
    pc \in {"purge", "mkstate", "save", "saved"} \/ (pc = "loop" /\ sh.do_it) =>
        taint \/ \A d \in SavedDirs : Exact(step, d)
Running ==
    pc = "run" =>
        /\ left \subseteq Writes[step]
        /\ taint \/ \A d \in SavedDirs : dir[d] \ {Old} = Expected(step, d) \cup Installed(d)

\* A trusted state is being restored: what is restored of a state with a log is exact.
Loading ==
    pc \in {"load_dirs", "load_env", "load_log"} /\ ~taint =>
        /\ step \in Trusted
        /\ pc = "load_dirs" => ext[step] = sh.cfg.gz
        /\ file[step]["log"] # "absent" =>
              \A m \in 1..M : (pc = "load_dirs" => m > n) => Exact(step, SaveOrder[m])

Parts == Removing /\ SavedStates /\ Saving /\ Preparing /\ Between /\ Running /\ Loading
IInv  == TypeOK /\ Parts

-----------------------------------------------------------------------------
(* Facts about the operators *)

\* Every file of a state is written once: the n-th file has no other number, and every
\* saved directory has one before the log's.
LEMMA FileAtInjective ==
    /\ \A i, j \in 0..(M + 1) : FileAt(i) = FileAt(j) => i = j
    /\ \A i \in 0..(M + 1) : FileAt(i) = "log" <=> i = M + 1
    /\ \A i \in 1..M : FileAt(i) = SaveOrder[i]
    /\ \A d \in SavedDirs : \E i \in 1..M : d = FileAt(i)
<1>1. \A i \in 1..M : SaveOrder[i] \notin {"env.sh", "log"}
  BY SaveOrderFacts
<1>2. \A i, j \in 1..M : SaveOrder[i] = SaveOrder[j] => i = j
  BY SaveOrderAssumption DEF M
<1>3. \A i \in 1..M : FileAt(i) = SaveOrder[i]
  BY SaveOrderFacts DEF FileAt
<1>4. \A i \in 0..(M + 1) : i = 0 \/ i = M + 1 \/ i \in 1..M
  BY SaveOrderFacts
<1>5. FileAt(0) = "env.sh" /\ FileAt(M + 1) = "log"
  BY SaveOrderFacts DEF FileAt
<1>6. \A d \in SavedDirs : \E i \in 1..M : d = FileAt(i)
  BY <1>3 DEF SavedDirs
<1>7. \A i \in 0..(M + 1) : FileAt(i) = "log" <=> i = M + 1
  BY <1>1, <1>3, <1>4, <1>5
<1>8. ASSUME NEW i \in 0..(M + 1), NEW j \in 0..(M + 1), FileAt(i) = FileAt(j)
      PROVE  i = j
  BY <1>1, <1>2, <1>3, <1>4, <1>5, <1>8
<1>9. QED
  BY <1>3, <1>6, <1>7, <1>8

\* The output of step k is what is new after it; a step's number is not that of the
\* outputs before it, nor Old.
LEMMA ExpectedNext ==
    ASSUME NEW k \in Steps, NEW d
    PROVE  /\ Expected(k + 1, d) = Expected(k, d) \cup (IF d \in Writes[k] THEN {k} ELSE {})
           /\ k \notin Expected(k, d)
           /\ Old \notin Expected(k, d)
           /\ k # Old
<1>1. k \in Nat /\ k >= 1 /\ k <= NSteps
  BY DEF Steps
<1>2. 0..((k + 1) - 1) = 0..(k - 1) \cup {k}
  BY <1>1
<1>3. Expected(k + 1, d) = Expected(k, d) \cup (IF d \in Writes[k] THEN {k} ELSE {})
  BY <1>2 DEF Expected
<1>4. k \notin 0..(k - 1) /\ Old \notin 0..(k - 1) /\ k # Old
  BY <1>1, NStepsAssumption DEF Old
<1>5. QED
  BY <1>3, <1>4 DEF Expected

-----------------------------------------------------------------------------
(* The initial states *)

LEMMA InitParts == Init => Parts
<1> SUFFICES ASSUME Init PROVE Parts
  OBVIOUS
<1>1. Removing
  BY DEF Init, Removing, None
<1>2. SavedStates
  BY DEF Init, SavedStates, Trusted
<1>3. pc = "idle" /\ step = 1
  BY DEF Init
<1>4. Saving /\ Preparing /\ Between /\ Running /\ Loading
  BY <1>3 DEF Saving, Preparing, Between, Running, Loading
<1>5. QED
  BY <1>1, <1>2, <1>4 DEF Parts

-----------------------------------------------------------------------------
(* The steps *)

\* Whatever ends an invocation leaves the states as they are.
LEMMA ExitParts ==
    ASSUME Parts, NEW o, Exit(o), UNCHANGED <<stateDir, file, tar>>
    PROVE  Parts'
<1>1. Removing'
  BY DEF Parts, Removing, Exit, None
<1>2. SavedStates'
  BY DEF Parts, SavedStates, Trusted, Exit, Expected
<1>3. Saving' /\ Preparing' /\ Between' /\ Running' /\ Loading'
  BY DEF Exit, Saving, Preparing, Between, Running, Loading
<1>4. QED
  BY <1>1, <1>2, <1>3 DEF Parts

\* Nothing but the trust in states and their contents matters to SavedStates.
LEMMA SavedStatesKept ==
    ASSUME SavedStates, Trusted' \subseteq Trusted,
           \A k \in Trusted' : file'[k] = file[k] /\ tar'[k] = tar[k]
    PROVE  SavedStates'
BY DEF SavedStates, Expected

LEMMA UserParts == IInv /\ User => Parts'
<1> SUFFICES ASSUME IInv, NEW c, NEW r, NEW s, Start(c, r, s) PROVE Parts'
  BY DEF User
<1> USE DEF IInv, Parts
<1>1. /\ pc = "idle" /\ pc' = "check"
      /\ UNCHANGED <<disk, step, n, busy, left, torn, junk, taint>>
  BY DEF Start, Goto
<1>2. Removing'
  BY <1>1 DEF Removing, disk
<1>3. SavedStates'
  BY <1>1, SavedStatesKept DEF Trusted, disk
<1>4. Saving' /\ Preparing' /\ Between' /\ Running' /\ Loading'
  BY <1>1 DEF Saving, Preparing, Between, Running, Loading
<1>5. QED
  BY <1>2, <1>3, <1>4

LEMMA PrepareParts == IInv /\ Prepare => Parts'
<1> SUFFICES ASSUME IInv, Prepare PROVE Parts'
  OBVIOUS
<1> USE DEF IInv, Parts
<1>1. CASE RefuseRestart
  BY <1>1, ExitParts DEF RefuseRestart, disk
<1>2. CASE EradicateBuildDir
  <2>1. /\ pc = "check"
        /\ pc' = IF sh.RESTART = None THEN "wipe_prefix" ELSE "mkdirs"
        /\ UNCHANGED <<sh, stateDir, file, tar, step, n, busy, torn, junk, taint>>
    BY <1>2 DEF EradicateBuildDir, Eradicated, Goto, ghost
  <2>2. Removing'
    BY <2>1 DEF Removing
  <2>3. SavedStates'
    BY <2>1, SavedStatesKept DEF Trusted
  <2>4. Saving' /\ Preparing' /\ Between' /\ Running' /\ Loading'
    BY <2>1 DEF Saving, Preparing, Between, Running, Loading
  <2>5. QED
    BY <2>2, <2>3, <2>4
<1>3. CASE WipePrefix
  <2>1. /\ pc = "wipe_prefix" /\ pc' = "wipe_state"
        /\ UNCHANGED <<sh, stateDir, file, tar, step, n, busy, torn, junk, taint>>
    BY <1>3 DEF WipePrefix, Goto, ghost
  <2>2. Removing'
    BY <2>1 DEF Removing
  <2>3. SavedStates'
    BY <2>1, SavedStatesKept DEF Trusted
  <2>4. \A d \in SavedDirs : dir'[d] \subseteq {Old}
    BY <1>3, SaveOrderFacts DEF WipePrefix
  <2>5. Saving' /\ Preparing' /\ Between' /\ Running' /\ Loading'
    BY <2>1, <2>4 DEF Saving, Preparing, Between, Running, Loading
  <2>6. QED
    BY <2>2, <2>3, <2>5
<1>4. CASE WipeState
  <2>1. PICK k \in stateDir : BeginRemoval(k)
    BY <1>4 DEF WipeState
  <2>2. /\ pc = "wipe_state"
        /\ UNCHANGED <<disk, pc, sh, step, n, left, junk, taint>>
    BY <1>4 DEF WipeState
  <2>3. Removing'
    BY <2>1, <2>2 DEF Removing, BeginRemoval, disk
  <2>4. SavedStates'
    BY <2>1, <2>2, SavedStatesKept DEF Trusted, BeginRemoval, disk
  <2>5. Saving' /\ Preparing' /\ Between' /\ Running' /\ Loading'
    BY <2>2 DEF Saving, Preparing, Between, Running, Loading, disk
  <2>6. QED
    BY <2>3, <2>4, <2>5
<1>5. CASE StateWiped
  <2>1. /\ pc = "wipe_state" /\ pc' = "mkdirs" /\ busy = None
        /\ UNCHANGED <<dir, sh, stateDir, file, tar, step, n, busy, torn, junk, taint>>
    BY <1>5 DEF StateWiped, Goto, ghost
  <2>2. Removing'
    BY <2>1 DEF Removing
  <2>3. SavedStates'
    BY <2>1, SavedStatesKept DEF Trusted
  <2>4. Saving' /\ Preparing' /\ Between' /\ Running' /\ Loading'
    BY <2>1 DEF Saving, Preparing, Between, Running, Loading
  <2>5. QED
    BY <2>2, <2>3, <2>4
<1>6. CASE MakeDirs
  <2>1. /\ pc = "mkdirs"
        /\ UNCHANGED <<dir, stateDir, file, tar, step, n, busy, left, torn, junk, taint>>
    BY <1>6 DEF MakeDirs, ghost
  <2>2. Removing'
    BY <1>6, <2>1 DEF Removing, MakeDirs, Goto, EnterLoop
  <2>3. SavedStates'
    BY <2>1, SavedStatesKept DEF Trusted
  <2>4. CASE sh.RESTART = None
    <3>1. pc' = "setup" /\ sh' = sh
      BY <1>6, <2>4 DEF MakeDirs, Goto
    <3>2. Saving' /\ Preparing' /\ Between' /\ Running' /\ Loading'
      BY <2>1, <2>4, <3>1 DEF Saving, Preparing, Between, Running, Loading
    <3>3. QED
      BY <2>2, <2>3, <3>2
  <2>5. CASE sh.RESTART # None
    <3>1. sh' = LoopShell /\ pc' \in {"finish", "loop"}
      BY <1>6, <2>5 DEF MakeDirs, EnterLoop, Goto
    <3>2. sh \in Shell
      BY DEF TypeOK, ProcTypeOK
    <3>3. ~sh'.do_it
      BY <2>5, <3>1, <3>2 DEF LoopShell, Shell
    <3>4. Saving' /\ Preparing' /\ Between' /\ Running' /\ Loading'
      BY <3>1, <3>3 DEF Saving, Preparing, Between, Running, Loading
    <3>5. QED
      BY <2>2, <2>3, <3>4
  <2>6. QED
    BY <2>4, <2>5
<1>7. CASE Setup
  <2>1. /\ pc = "setup" /\ pc' \in {"finish", "loop"} /\ step = 1 /\ step' = 1
        /\ UNCHANGED <<stateDir, file, tar, n, busy, torn, junk, taint>>
    BY <1>7 DEF Setup, Goto, EnterLoop, ghost, Preparing
  <2>2. Removing'
    BY <2>1 DEF Removing
  <2>3. SavedStates'
    BY <2>1, SavedStatesKept DEF Trusted
  <2>4. \A d \in SavedDirs : Exact(1, d)'
    <3>1. SUFFICES ASSUME NEW d \in SavedDirs PROVE dir'[d] \ {Old} = Expected(1, d)
      BY DEF Exact, Expected
    <3>2. dir[d] \subseteq {Old} /\ d \in Dirs
      BY <2>1, SaveOrderFacts DEF Preparing
    <3>3. dir'[d] = IF d \in Writes[0] THEN dir[d] \cup {0} ELSE dir[d]
      BY <1>7, <3>2 DEF Setup
    <3>4. Expected(1, d) = IF d \in Writes[0] THEN {0} ELSE {}
      BY DEF Expected
    <3>5. Old # 0
      BY NStepsAssumption DEF Old
    <3>6. QED
      BY <3>2, <3>3, <3>4, <3>5
  <2>5. Between'
    BY <2>1, <2>4 DEF Between
  <2>6. Saving' /\ Preparing' /\ Running' /\ Loading'
    BY <2>1 DEF Saving, Preparing, Running, Loading
  <2>7. QED
    BY <2>2, <2>3, <2>5, <2>6
<1>8. CASE SetupFails
  BY <1>8, ExitParts DEF SetupFails, disk
<1>9. QED
  BY <1>1, <1>2, <1>3, <1>4, <1>5, <1>6, <1>7, <1>8 DEF Prepare

LEMMA RemoveParts == IInv /\ Remove => Parts'
<1> SUFFICES ASSUME IInv, Remove PROVE Parts'
  OBVIOUS
<1> USE DEF IInv, Parts
<1>0. pc \in {"purge", "wipe_state"} /\ busy \in torn /\ busy \in Steps
  BY DEF Remove, RemoveFile, RemoveStateDir, Removing, TypeOK, ObservedTypeOK
<1>1. CASE RemoveFile
  <2>1. /\ UNCHANGED <<dir, pc, sh, step, n, busy, left, stateDir, tar, torn, junk, taint>>
        /\ \A k \in Steps \ {busy} : file'[k] = file[k]
    BY <1>1 DEF RemoveFile, proc, ghost, TypeOK, DiskTypeOK, StateTable
  <2>2. Removing'
    BY <1>0, <2>1 DEF Removing
  <2>3. SavedStates'
    <3>1. Trusted' = Trusted /\ Trusted \subseteq Steps \ {busy}
      BY <1>0, <2>1 DEF Trusted, TypeOK, DiskTypeOK
    <3>2. QED
      BY <2>1, <3>1, SavedStatesKept
  <2>4. Saving' /\ Preparing' /\ Between' /\ Running' /\ Loading'
    BY <1>0, <2>1 DEF Saving, Preparing, Between, Running, Loading, Exact, Expected
  <2>5. QED
    BY <2>2, <2>3, <2>4
<1>2. CASE RemoveStateDir
  <2>1. /\ file[busy] = NoFiles /\ busy' = None
        /\ stateDir' = stateDir \ {busy} /\ torn' = torn \ {busy} /\ junk' = junk \ {busy}
        /\ pc' = IF pc = "purge" THEN "mkstate" ELSE pc
        /\ UNCHANGED <<dir, sh, step, n, file, tar, taint>>
    BY <1>2 DEF RemoveStateDir, Goto
  <2>2. Removing'
    BY <1>0, <2>1 DEF Removing
  <2>3. SavedStates'
    BY <2>1, SavedStatesKept DEF Trusted
  <2>4. pc = "purge" => step = busy
    BY DEF Removing
  <2>5. Saving' /\ Preparing' /\ Between' /\ Running' /\ Loading'
    BY <1>0, <2>1, <2>4 DEF Saving, Preparing, Between, Running, Loading, Exact, Expected
  <2>6. QED
    BY <2>2, <2>3, <2>5
<1>3. QED
  BY <1>1, <1>2 DEF Remove

LEMMA LoopParts == IInv /\ Loop => Parts'
<1> SUFFICES ASSUME IInv, Loop PROVE Parts'
  OBVIOUS
<1> USE DEF IInv, Parts
<1>0. /\ pc = "loop" /\ busy = None
      /\ UNCHANGED <<dir, sh, n, left, stateDir, file, tar, junk, taint>>
  BY DEF Loop, SkipStep, RestartHere, EnterStep, LoopEnds, disk, ghost, Removing
<1>1. CASE SkipStep \/ RestartHere \/ LoopEnds
  <2>1. /\ UNCHANGED <<busy, torn>>
        /\ (pc' = "loop" /\ ~sh.do_it) \/ pc' \in {"load", "finish"}
    BY <1>0, <1>1 DEF SkipStep, RestartHere, LoopEnds, Goto, ghost
  <2>2. Removing'
    BY <1>0, <2>1 DEF Removing
  <2>3. SavedStates'
    BY <1>0, <2>1, SavedStatesKept DEF Trusted
  <2>4. Saving' /\ Preparing' /\ Between' /\ Running' /\ Loading'
    BY <1>0, <2>1 DEF Saving, Preparing, Between, Running, Loading
  <2>5. QED
    BY <2>2, <2>3, <2>4
<1>2. CASE EnterStep
  <2>1. /\ step' = step /\ sh.do_it
        /\ \/ pc' \in {"saved", "mkstate"} /\ UNCHANGED <<busy, torn>>
           \/ pc' = "purge" /\ step \in stateDir /\ BeginRemoval(step)
        /\ pc' = "mkstate" => step \notin stateDir
    BY <1>2 DEF EnterStep, Goto
  <2>2. Removing'
    BY <1>0, <2>1 DEF Removing, BeginRemoval
  <2>3. SavedStates'
    BY <1>0, <2>1, SavedStatesKept DEF Trusted, BeginRemoval
  <2>4. Between'
    BY <1>0, <2>1 DEF Between, Exact, Expected
  <2>5. Saving' /\ Preparing' /\ Running' /\ Loading'
    BY <1>0, <2>1 DEF Saving, Preparing, Running, Loading
  <2>6. QED
    BY <2>2, <2>3, <2>4, <2>5
<1>3. QED
  BY <1>1, <1>2 DEF Loop

LEMMA SaveParts == IInv /\ Save => Parts'
<1> SUFFICES ASSUME IInv, Save PROVE Parts'
  OBVIOUS
<1> USE DEF IInv, Parts
<1>0. pc \in {"mkstate", "save", "saved"} /\ busy = None /\ step \in Steps
  BY DEF Save, MakeStateDir, BeginFile, EndFile, SaveFails, StopHere, BeginStep,
         Removing, TypeOK, ProcTypeOK, InStep
<1>1. CASE MakeStateDir
  <2>1. /\ pc = "mkstate" /\ pc' = "save" /\ n' = 0
        /\ stateDir' = stateDir \cup {step}
        /\ junk' = IF taint THEN junk \cup {step} ELSE junk
        /\ UNCHANGED <<dir, step, file, tar, sh, busy, torn, taint>>
    BY <1>1 DEF MakeStateDir, Goto
  <2>2. step \notin stateDir /\ step \notin torn /\ step \notin junk /\ file[step] = NoFiles
    BY <1>0, <2>1 DEF Saving, Removing
  <2>3. Removing'
    BY <1>0, <2>1, <2>2 DEF Removing
  <2>4. \A f \in Files : file[step][f] = "absent"
    BY <2>2 DEF NoFiles
  <2>5. SavedStates'
    <3>1. Trusted' \subseteq Trusted \cup {step}
      BY <2>1 DEF Trusted
    <3>2. SavedDirs \subseteq Files /\ "log" \in Files
      BY DEF Files
    <3>3. QED
      BY <2>1, <2>4, <3>1, <3>2 DEF SavedStates, Expected
  <2>6. Saving'
    BY <2>1, <2>2, <2>4, SaveOrderFacts DEF Saving, FileAt
  <2>7. Between'
    BY <1>0, <2>1 DEF Between, Exact, Expected
  <2>8. Preparing' /\ Running' /\ Loading'
    BY <2>1 DEF Preparing, Running, Loading
  <2>9. QED
    BY <2>3, <2>5, <2>6, <2>7, <2>8
<1>2. CASE BeginFile
  <2>1. /\ pc = "save" /\ file[step][FileAt(n)] = "absent"
        /\ UNCHANGED <<dir, stateDir, pc, sh, step, n, busy, left, torn, junk, taint>>
    BY <1>2 DEF BeginFile, proc, ghost
  <2>2. n \in 0..(M + 1) /\ FileAt(n) \in Files /\ step \in stateDir
    BY <2>1, SaveOrderFacts DEF TypeOK, ProcTypeOK, Saving
  <2>3. /\ \A k \in Steps \ {step} : file'[k] = file[k] /\ tar'[k] = tar[k]
        /\ file'[step][FileAt(n)] = "partial"
        /\ \A f \in Files \ {FileAt(n)} : file'[step][f] = file[step][f]
        /\ \A d \in SavedDirs \ {FileAt(n)} : tar'[step][d] = tar[step][d]
        /\ FileAt(n) \in SavedDirs => tar'[step][FileAt(n)] = dir[FileAt(n)]
    BY <1>0, <1>2, <2>2
       DEF BeginFile, TypeOK, DiskTypeOK, StateTable, TarTable
  <2>4. Removing'
    BY <1>0, <2>1, <2>2, <2>3 DEF Removing, disk
  <2>5. SavedStates'
    <3>1. SUFFICES ASSUME NEW k \in Trusted
                   PROVE  /\ \A d \in SavedDirs :
                               file'[k][d] # "absent" => tar'[k][d] \ {Old} = Expected(k, d)
                          /\ file'[k]["log"] # "absent" =>
                               \A d \in SavedDirs : file'[k][d] = "whole"
      BY <2>1 DEF SavedStates, Trusted, Expected
    <3>2. k \in Steps /\ SavedDirs \subseteq Files /\ "log" \in Files
      BY DEF Trusted, TypeOK, DiskTypeOK, Files
    <3>3. CASE k # step
      BY <2>3, <3>2, <3>3 DEF SavedStates
    <3>4. CASE k = step
      <4>1. ~taint
        BY <2>1, <3>4 DEF Saving, Trusted
      <4>2. \A d \in SavedDirs : dir[d] \ {Old} = Expected(step, d)
        BY <2>1, <4>1 DEF Between, Exact
      <4>3. \A d \in SavedDirs : file'[k][d] # "absent" => tar'[k][d] \ {Old} = Expected(k, d)
        BY <2>3, <3>2, <3>4, <4>2 DEF SavedStates
      <4>4. CASE n = M + 1
        <5>1. \A i \in 1..M : file'[step][SaveOrder[i]] = "whole"
          BY <2>1, <2>3, <4>4, FileAtInjective, SaveOrderFacts DEF Saving
        <5>2. QED
          BY <3>4, <4>3, <5>1 DEF SavedDirs
      <4>5. CASE n # M + 1
        <5>1. FileAt(n) # "log" /\ file[step]["log"] = "absent"
          BY <2>1, <2>2, <4>5, FileAtInjective, SaveOrderFacts DEF Saving
        <5>2. QED
          BY <2>3, <3>2, <3>4, <4>3, <5>1
      <4>6. QED
        BY <4>4, <4>5
    <3>5. QED
      BY <3>3, <3>4
  <2>6. Saving'
    BY <2>1, <2>2, <2>3, FileAtInjective, SaveOrderFacts DEF Saving
  <2>7. Preparing' /\ Between' /\ Running' /\ Loading'
    BY <2>1 DEF Preparing, Between, Running, Loading, Exact, Expected
  <2>8. QED
    BY <2>4, <2>5, <2>6, <2>7
<1>3. CASE EndFile
  <2>1. /\ pc = "save" /\ file[step][FileAt(n)] = "partial"
        /\ \/ n = M + 1 /\ pc' = "saved"
           \/ n # M + 1 /\ pc' = "save" /\ n' = n + 1
        /\ UNCHANGED <<dir, stateDir, tar, sh, step, busy, torn, junk, taint>>
    BY <1>3 DEF EndFile, Goto, ghost
  <2>2. n \in 0..(M + 1) /\ FileAt(n) \in Files /\ step \in stateDir
    BY <2>1, SaveOrderFacts DEF TypeOK, ProcTypeOK, Saving
  <2>3. /\ \A k \in Steps \ {step} : file'[k] = file[k]
        /\ file'[step][FileAt(n)] = "whole"
        /\ \A f \in Files \ {FileAt(n)} : file'[step][f] = file[step][f]
    BY <1>0, <1>3, <2>2 DEF EndFile, TypeOK, DiskTypeOK, StateTable
  <2>4. Removing'
    BY <1>0, <2>1, <2>2, <2>3 DEF Removing
  <2>5. SavedStates'
    <3>1. SavedDirs \subseteq Files /\ "log" \in Files /\ Trusted' = Trusted /\ Trusted \subseteq Steps
      BY <2>1 DEF Trusted, TypeOK, DiskTypeOK, Files
    <3>2. \A k \in Trusted, f \in Files :
             /\ file'[k][f] # "absent" <=> file[k][f] # "absent"
             /\ file[k][f] = "whole" => file'[k][f] = "whole"
      BY <2>1, <2>3, <3>1
    <3>3. QED
      BY <2>1, <3>1, <3>2 DEF SavedStates, Expected
  <2>6. Saving'
    BY <2>1, <2>2, <2>3, FileAtInjective, SaveOrderFacts DEF Saving
  <2>7. Preparing' /\ Between' /\ Running' /\ Loading'
    BY <2>1 DEF Preparing, Between, Running, Loading, Exact, Expected
  <2>8. QED
    BY <2>4, <2>5, <2>6, <2>7
<1>4. CASE SaveFails \/ StopHere
  BY <1>4, ExitParts DEF SaveFails, StopHere, disk
<1>5. CASE BeginStep
  <2>1. /\ pc = "saved" /\ pc' = "run" /\ left' = Writes[step]
        /\ UNCHANGED <<dir, stateDir, file, tar, sh, step, busy, torn, junk, taint>>
    BY <1>5 DEF BeginStep, Goto, disk, ghost
  <2>2. Removing'
    BY <1>0, <2>1 DEF Removing
  <2>3. SavedStates'
    BY <2>1, SavedStatesKept DEF Trusted
  <2>4. Running'
    BY <2>1 DEF Between, Running, Exact, Expected, Installed
  <2>5. Saving' /\ Preparing' /\ Between' /\ Loading'
    BY <2>1 DEF Saving, Preparing, Between, Loading
  <2>6. QED
    BY <2>2, <2>3, <2>4, <2>5
<1>6. QED
  BY <1>1, <1>2, <1>3, <1>4, <1>5 DEF Save

LEMMA LoadParts == IInv /\ Load => Parts'
<1> SUFFICES ASSUME IInv, Load PROVE Parts'
  OBVIOUS
<1> USE DEF IInv, Parts
<1>0. pc \in {"load", "load_dirs", "load_env", "load_log"} /\ busy = None /\ step \in Steps
  BY DEF Load, RefuseLoad, BeginLoad, LoadDir, TarFails, DirsLoaded, LoadEnv, LoadLog,
         LoadFails, Removing, TypeOK, ProcTypeOK, InStep
<1>1. CASE RefuseLoad \/ TarFails \/ LoadFails
  BY <1>1, ExitParts DEF RefuseLoad, TarFails, LoadFails, disk
<1>2. CASE BeginLoad
  <2>1. /\ pc' = "load_dirs" /\ n' = M /\ step \in stateDir
        /\ taint' = (step \in torn \/ step \in junk \/ ext[step] # sh.cfg.gz)
        /\ UNCHANGED <<dir, stateDir, file, tar, ext, sh, step, busy, torn, junk>>
    BY <1>2 DEF BeginLoad, Goto
  <2>2. Removing'
    BY <1>0, <2>1 DEF Removing
  <2>3. SavedStates'
    BY <2>1, SavedStatesKept DEF Trusted
  <2>4. Loading'
    <3>1. ~taint' => step \in Trusted /\ ext[step] = sh.cfg.gz
      BY <2>1, Zenon DEF Trusted
    <3>2. \A m \in 1..M : ~(m > M)
      BY SaveOrderFacts
    <3>3. UNCHANGED Trusted /\ UNCHANGED <<step, ext, sh>> /\ pc' = "load_dirs" /\ n' = M
      BY <2>1 DEF Trusted
    <3>4. QED
      BY <3>1, <3>2, <3>3, Zenon DEF Loading
  <2>5. Saving' /\ Preparing' /\ Between' /\ Running'
    BY <2>1 DEF Saving, Preparing, Between, Running
  <2>6. QED
    BY <2>2, <2>3, <2>4, <2>5
<1>3. CASE LoadDir
  <2>1. /\ pc = "load_dirs" /\ pc' = "load_dirs" /\ n > 0 /\ n' = n - 1
        /\ n \in 1..M
        /\ UNCHANGED <<stateDir, file, tar, ext, sh, step, busy, torn, junk, taint>>
    BY <1>3 DEF LoadDir, proc, ghost, TypeOK, ProcTypeOK
  <2>2. Removing'
    BY <1>0, <2>1 DEF Removing
  <2>3. SavedStates'
    BY <2>1, SavedStatesKept DEF Trusted
  <2>4. Loading'
    <3>1. SUFFICES ASSUME ~taint
                   PROVE  /\ step \in Trusted /\ ext[step] = sh.cfg.gz
                          /\ file[step]["log"] # "absent" =>
                               \A m \in 1..M : m > n - 1 => Exact(step, SaveOrder[m])'
      BY <2>1 DEF Loading, Trusted, Exact, Expected
    <3>2. step \in Trusted /\ ext[step] = sh.cfg.gz
      BY <2>1, <3>1 DEF Loading
    <3>3. ASSUME file[step]["log"] # "absent", NEW m \in 1..M, m > n - 1
          PROVE  Exact(step, SaveOrder[m])'
      <4> DEFINE d == SaveOrder[n]
      <4>1. d \in SavedDirs /\ d \in Dirs
        BY <2>1, SaveOrderFacts
      <4>2. file[step][d] = "whole" /\ tar[step][d] \ {Old} = Expected(step, d)
        BY <3>2, <3>3, <4>1 DEF SavedStates
      <4>3. dir' = [dir EXCEPT ![d] = tar[step][d]]
        BY <1>3, <3>2, <4>2 DEF LoadDir, HasTarball, Unpacked
      <4>4. CASE m = n
        BY <2>1, <4>1, <4>2, <4>3, <4>4 DEF Exact, Expected, TypeOK, DiskTypeOK
      <4>5. CASE m # n
        <5>1. SaveOrder[m] # d /\ m > n
          BY <2>1, <3>3, <4>5, SaveOrderAssumption DEF M
        <5>2. Exact(step, SaveOrder[m])
          BY <2>1, <3>1, <3>3, <5>1 DEF Loading
        <5>3. SaveOrder[m] \in Dirs
          BY SaveOrderFacts
        <5>4. QED
          BY <2>1, <4>3, <5>1, <5>2, <5>3 DEF Exact, Expected, TypeOK, DiskTypeOK
      <4>6. QED
        BY <4>4, <4>5
    <3>4. QED
      BY <3>2, <3>3
  <2>5. Saving' /\ Preparing' /\ Between' /\ Running'
    BY <2>1 DEF Saving, Preparing, Between, Running
  <2>6. QED
    BY <2>2, <2>3, <2>4, <2>5
<1>4. CASE DirsLoaded \/ LoadEnv
  <2>1. /\ \/ pc = "load_dirs" /\ n = 0 /\ pc' = "load_env"
           \/ pc = "load_env" /\ pc' = "load_log"
        /\ UNCHANGED <<dir, stateDir, file, tar, ext, step, n, busy, torn, junk, taint>>
    BY <1>4 DEF DirsLoaded, LoadEnv, Goto, disk, ghost
  <2>2. Removing'
    BY <1>0, <2>1 DEF Removing
  <2>3. SavedStates'
    BY <2>1, SavedStatesKept DEF Trusted
  <2>4. Loading'
    BY <2>1, SaveOrderFacts DEF Loading, Trusted, Exact, Expected
  <2>5. Saving' /\ Preparing' /\ Between' /\ Running'
    BY <2>1 DEF Saving, Preparing, Between, Running
  <2>6. QED
    BY <2>2, <2>3, <2>4, <2>5
<1>5. CASE LoadLog
  <2>1. /\ pc = "load_log" /\ pc' = "run" /\ left' = Writes[step] /\ HasLog
        /\ UNCHANGED <<dir, stateDir, file, tar, step, busy, torn, junk, taint>>
    BY <1>5 DEF LoadLog, Goto, ghost
  <2>2. Removing'
    BY <1>0, <2>1 DEF Removing
  <2>3. SavedStates'
    BY <2>1, SavedStatesKept DEF Trusted
  <2>4. taint \/ \A d \in SavedDirs : dir[d] \ {Old} = Expected(step, d)
    <3>1. file[step]["log"] # "absent"
      BY <2>1 DEF HasLog
    <3>2. taint \/ \A m \in 1..M : Exact(step, SaveOrder[m])
      BY <2>1, <3>1 DEF Loading
    <3>3. QED
      BY <3>2 DEF Exact, SavedDirs
  <2>5. Running'
    BY <2>1, <2>4 DEF Running, Expected, Installed
  <2>6. Saving' /\ Preparing' /\ Between' /\ Loading'
    BY <2>1 DEF Saving, Preparing, Between, Loading
  <2>7. QED
    BY <2>2, <2>3, <2>5, <2>6
<1>6. QED
  BY <1>1, <1>2, <1>3, <1>4, <1>5 DEF Load

LEMMA RunParts == IInv /\ Run => Parts'
<1> SUFFICES ASSUME IInv, Run PROVE Parts'
  OBVIOUS
<1> USE DEF IInv, Parts
<1>1. CASE Install
  <2>1. PICK d \in left : /\ dir' = [dir EXCEPT ![d] = @ \cup {step}]
                          /\ left' = left \ {d}
    BY <1>1 DEF Install
  <2>2. /\ pc = "run"
        /\ UNCHANGED <<pc, stateDir, file, tar, sh, step, n, busy, torn, junk, taint>>
    BY <1>1 DEF Install, ghost
  <2>3. step \in Steps /\ d \in Dirs /\ left \subseteq Writes[step]
    BY <2>2 DEF TypeOK, ProcTypeOK, InStep, Running
  <2>4. Removing'
    BY <2>2 DEF Removing
  <2>5. SavedStates'
    BY <2>2, SavedStatesKept DEF Trusted
  <2>6. Running'
    <3>1. ASSUME ~taint, NEW e \in SavedDirs
          PROVE  dir'[e] \ {Old} = Expected(step, e) \cup Installed(e)'
      <4>1. dir[e] \ {Old} = Expected(step, e) \cup Installed(e) /\ e \in Dirs
        BY <2>2, <3>1, SaveOrderFacts DEF Running
      <4>2. step # Old
        BY <2>3, ExpectedNext
      <4>3. CASE e = d
        <5>1. dir'[e] = dir[e] \cup {step} /\ e \in Writes[step] \ left'
          BY <2>1, <2>3, <4>1, <4>3 DEF TypeOK, DiskTypeOK
        <5>2. Installed(e)' = {step}
          BY <2>2, <5>1 DEF Installed
        <5>3. Installed(e) \subseteq {step}
          BY DEF Installed
        <5>4. QED
          BY <4>1, <4>2, <5>1, <5>2, <5>3
      <4>4. CASE e # d
        BY <2>1, <2>2, <4>1, <4>4 DEF Installed, TypeOK, DiskTypeOK
      <4>5. QED
        BY <4>3, <4>4
    <3>2. QED
      BY <2>1, <2>2, <2>3, <3>1 DEF Running, Expected
  <2>7. Saving' /\ Preparing' /\ Between' /\ Loading'
    BY <2>2 DEF Saving, Preparing, Between, Loading
  <2>8. QED
    BY <2>4, <2>5, <2>6, <2>7
<1>2. CASE StepDone
  <2>1. /\ pc = "run" /\ pc' = "loop" /\ left = {} /\ step' = step + 1 /\ step \in Steps
        /\ UNCHANGED <<dir, stateDir, file, tar, busy, torn, junk, taint>>
    BY <1>2 DEF StepDone, Goto, disk, TypeOK, ProcTypeOK, InStep
  <2>2. Removing'
    BY <2>1 DEF Removing
  <2>3. SavedStates'
    BY <2>1, SavedStatesKept DEF Trusted
  <2>4. Between'
    <3>1. ASSUME ~taint, NEW d \in SavedDirs
          PROVE  Exact(step + 1, d)
      BY <2>1, <3>1, ExpectedNext DEF Running, Installed, Exact
    <3>2. QED
      BY <2>1, <3>1 DEF Between, Exact, Expected
  <2>5. Saving' /\ Preparing' /\ Running' /\ Loading'
    BY <2>1 DEF Saving, Preparing, Running, Loading
  <2>6. QED
    BY <2>2, <2>3, <2>4, <2>5
<1>3. CASE StepFails \/ InputMissing \/ Finish
  BY <1>3, ExitParts DEF StepFails, InputMissing, Finish, disk
<1>4. QED
  BY <1>1, <1>2, <1>3 DEF Run

LEMMA StepParts == IInv /\ [Next]_vars => Parts'
<1> SUFFICES ASSUME IInv, [Next]_vars PROVE Parts'
  OBVIOUS
<1>1. CASE User
  BY <1>1, UserParts
<1>2. CASE Crash
  BY <1>2, ExitParts DEF Crash, IInv, disk
<1>3. CASE Driver
  BY <1>3, PrepareParts, RemoveParts, LoopParts, SaveParts, LoadParts, RunParts DEF Driver
<1>4. CASE UNCHANGED vars
  <2> USE <1>4 DEF vars, disk, proc, ghost, IInv, Parts
  <2>1. Removing' /\ Saving' /\ Preparing'
    BY DEF Removing, Saving, Preparing
  <2>2. SavedStates' /\ Loading'
    BY DEF SavedStates, Loading, Trusted, Exact, Expected
  <2>3. Between' /\ Running'
    BY DEF Between, Running, Installed, Exact, Expected
  <2>4. QED
    BY <2>1, <2>2, <2>3
<1>5. QED
  BY <1>1, <1>2, <1>3, <1>4 DEF Next

-----------------------------------------------------------------------------

\* The states on disk and the driver stay as IInv says, through every failure, kill
\* and restart: what a restart finds is either exact, or marked as not to be trusted.
THEOREM Invariance == Spec => []IInv
<1>1. Init => Parts
  BY InitParts
<1>2. TypeOK /\ Parts /\ [Next]_vars => Parts'
  BY StepParts DEF IInv
<1>3. QED
  BY <1>1, <1>2, TypeCorrect, PTL DEF Spec, IInv

\* A step runs on directories that hold the output of every step before it and nothing
\* of its own or of a later one that it has not just installed, however often the build
\* was interrupted and restarted.
THEOREM ExactStartCorrect == Spec => []ExactStart
<1>1. IInv => ExactStart
  BY DEF ExactStart, IInv, Parts, Running
<1>2. QED
  BY <1>1, Invariance, PTL
-----------------------------------------------------------------------------
(***************************************************************************)
(* Which steps an invocation runs and how it ends, what a restart misses,  *)
(* and that the driver implements a build with checkpoints: the remaining  *)
(* safety properties of BuildDriver, for every number of steps, layout of  *)
(* directories and set of .config files.                                   *)
(*                                                                         *)
(* env.sh brings back the variables of another invocation, do_it, do_stop, *)
(* CT_RESTART, CT_STOP and the .config among them.  Asked says that what   *)
(* this invocation was asked for survives that, and Dumped and Reading     *)
(* what is known of the variables that do change.                          *)
(***************************************************************************)

\* The variables of the shell are still those the user gave, also after env.sh.
Request == sh.RESTART = req.RESTART /\ sh.STOP = req.STOP

\* Before the loop nothing has run, and a build from scratch has no states left.
Fresh ==
    pc \in {"idle", "check", "wipe_prefix", "wipe_state", "mkdirs", "setup"} =>
        /\ ran = {} /\ ~sh.do_stop
        /\ pc = "setup" \/ (pc = "mkdirs" /\ sh.RESTART = None) => stateDir = {}

\* Steps are skipped up to the one to restart at, which is then restored.
Skipping ==
    pc = "loop" /\ ~sh.do_it =>
        ran = {} /\ ~sh.do_stop /\ req.RESTART # None /\ step <= req.RESTART
Restoring ==
    pc \in {"load", "load_dirs", "load_env", "load_log"} => ran = {} /\ step = req.RESTART

\* From there on an unbroken stretch has run, and do_stop tells whether it has come to
\* the step to stop after, which is the last of it then.
Stretch ==
    pc \in {"purge", "mkstate", "save", "saved", "run"} \/ (pc = "loop" /\ sh.do_it) =>
        /\ sh.do_it
        /\ step >= First /\ ran = First..(step - 1)
        /\ sh.do_stop => pc # "run" /\ req.STOP \in ran /\ step = req.STOP + 1
        /\ ~sh.do_stop => req.STOP \notin ran
Finishing ==
    pc = "finish" =>
        \/ sh.cfg.only
        \/ req.RESTART = Unknown
        \/ ran = First..NSteps /\ (taint \/ \A d \in SavedDirs : Exact(NSteps + 1, d))

Asked == Request /\ Fresh /\ Skipping /\ Restoring /\ Stretch /\ Finishing

\* A dumped environment has the compression the state was saved with.
Dumped ==
    /\ sh.cfg \in Configs
    /\ \A k \in Steps : envOf[k].cfg \in Configs
    /\ \A k \in Steps : file[k]["env.sh"] # "absent" => ext[k] = envOf[k].cfg.gz
    /\ pc = "save" => ext[step] = sh.cfg.gz

\* While a state is restored there is a tail.log, and after env.sh the shell has the
\* .config of the invocation that saved it.
Logging == \A c \in Configs : c.log
Reading ==
    /\ pc \in {"load_dirs", "load_env", "load_log"} /\ Logging => step \in tail
    /\ pc = "load_log" /\ file[step]["env.sh"] = "whole" => sh.cfg = envOf[step].cfg

-----------------------------------------------------------------------------
(* What was asked for *)

LEMMA InitAsked == Init => Asked
BY DEF Init, Asked, Request, Fresh, Skipping, Restoring, Stretch, Finishing,
       NoShell, NoRequest, FreshShell

LEMMA ExitAsked ==
    ASSUME NEW o, Exit(o)
    PROVE  Asked'
BY DEF Exit, Asked, Request, Fresh, Skipping, Restoring, Stretch, Finishing,
       NoShell, NoRequest, FreshShell

LEMMA UserAsked == Asked /\ User => Asked'
<1> SUFFICES ASSUME Asked, NEW c, NEW r, NEW s, Start(c, r, s) PROVE Asked'
  BY DEF User
<1>1. /\ pc = "idle" /\ pc' = "check" /\ ran' = ran
      /\ sh' = FreshShell(c, r, s) /\ req' = [RESTART |-> r, STOP |-> s]
  BY DEF Start, Goto
<1>2. Request' /\ ~sh'.do_stop
  BY <1>1 DEF Request, FreshShell
<1>3. Fresh'
  BY <1>1, <1>2 DEF Asked, Fresh
<1>4. Skipping' /\ Restoring' /\ Stretch' /\ Finishing'
  BY <1>1 DEF Skipping, Restoring, Stretch, Finishing
<1>5. QED
  BY <1>2, <1>3, <1>4 DEF Asked

\* The loop begins at step 1 with nothing run, to skip or not.
LEMMA EnterLoopAsked ==
    ASSUME IInv, Asked, EnterLoop, step = 1, ran = {}, UNCHANGED <<step, ran, req>>
    PROVE  Asked'
<1>1. sh \in Shell /\ req \in Requests
  BY DEF IInv, TypeOK, ProcTypeOK, ObservedTypeOK
<1>2. /\ sh' = [sh EXCEPT !.do_it = (sh.RESTART = None), !.do_stop = FALSE]
      /\ pc' = IF sh.cfg.only THEN "finish" ELSE "loop"
  BY DEF EnterLoop, LoopShell, Goto
<1>3. /\ sh'.RESTART = sh.RESTART /\ sh'.STOP = sh.STOP /\ sh'.cfg = sh.cfg
      /\ sh'.do_it <=> sh.RESTART = None
      /\ ~sh'.do_stop
  BY <1>1, <1>2 DEF Shell
<1>4. Request'
  BY <1>3 DEF Asked, Request
<1>5. Skipping'
  BY <1>1, <1>3, <1>4 DEF Skipping, Request, Requests, StepNames, None
<1>6. Stretch'
  <2>1. First' = 1 \/ sh.RESTART # None
    BY <1>3, <1>4 DEF First, Request
  <2>2. 1..(1 - 1) = {}
    OBVIOUS
  <2>3. QED
    BY <1>2, <1>3, <2>1, <2>2 DEF Stretch
<1>7. Fresh' /\ Restoring' /\ Finishing'
  BY <1>2, <1>3 DEF Fresh, Restoring, Finishing
<1>8. QED
  BY <1>4, <1>5, <1>6, <1>7 DEF Asked

LEMMA PrepareAsked == IInv /\ Asked /\ Prepare => Asked'
<1> SUFFICES ASSUME IInv, Asked, Prepare PROVE Asked'
  OBVIOUS
<1>1. CASE RefuseRestart \/ SetupFails
  BY <1>1, ExitAsked DEF RefuseRestart, SetupFails
<1>2. CASE EradicateBuildDir
  <2>1. /\ pc = "check" /\ pc' = IF sh.RESTART = None THEN "wipe_prefix" ELSE "mkdirs"
        /\ UNCHANGED <<sh, stateDir, req, ran>>
    BY <1>2 DEF EradicateBuildDir, Eradicated, Goto, ghost
  <2>2. QED
    BY <2>1 DEF Asked, Request, Fresh, Skipping, Restoring, Stretch, Finishing
<1>3. CASE WipePrefix
  <2>1. pc = "wipe_prefix" /\ pc' = "wipe_state" /\ UNCHANGED <<sh, stateDir, req, ran>>
    BY <1>3 DEF WipePrefix, Goto, ghost
  <2>2. QED
    BY <2>1 DEF Asked, Request, Fresh, Skipping, Restoring, Stretch, Finishing
<1>4. CASE WipeState
  <2>1. pc = "wipe_state" /\ UNCHANGED <<pc, sh, stateDir, req, ran>>
    BY <1>4 DEF WipeState, disk
  <2>2. QED
    BY <2>1 DEF Asked, Request, Fresh, Skipping, Restoring, Stretch, Finishing
<1>5. CASE StateWiped
  <2>1. /\ pc = "wipe_state" /\ pc' = "mkdirs" /\ stateDir = {}
        /\ UNCHANGED <<sh, stateDir, req, ran>>
    BY <1>5 DEF StateWiped, NoStateLeft, Goto, ghost
  <2>2. QED
    BY <2>1 DEF Asked, Request, Fresh, Skipping, Restoring, Stretch, Finishing
<1>6. CASE MakeDirs
  <2>1. /\ pc = "mkdirs" /\ ran = {} /\ UNCHANGED <<stateDir, step, req, ran>>
        /\ step = 1
    BY <1>6 DEF MakeDirs, ghost, Asked, Fresh, IInv, Parts, Preparing
  <2>2. CASE sh.RESTART = None
    <3>1. pc' = "setup" /\ sh' = sh
      BY <1>6, <2>2 DEF MakeDirs, Goto
    <3>2. QED
      BY <2>1, <2>2, <3>1 DEF Asked, Request, Fresh, Skipping, Restoring, Stretch, Finishing
  <2>3. CASE sh.RESTART # None
    BY <1>6, <2>1, <2>3, EnterLoopAsked DEF MakeDirs
  <2>4. QED
    BY <2>2, <2>3
<1>7. CASE Setup
  <2>1. /\ ran = {} /\ step = 1 /\ UNCHANGED <<step, req, ran>>
    BY <1>7 DEF Setup, ghost, Asked, Fresh, IInv, Parts, Preparing
  <2>2. QED
    BY <1>7, <2>1, EnterLoopAsked DEF Setup
<1>8. QED
  BY <1>1, <1>2, <1>3, <1>4, <1>5, <1>6, <1>7 DEF Prepare

LEMMA RemoveAsked == IInv /\ Asked /\ Remove => Asked'
<1> SUFFICES ASSUME IInv, Asked, Remove PROVE Asked'
  OBVIOUS
<1>1. /\ pc \in {"purge", "wipe_state"} /\ UNCHANGED <<sh, step, req, ran>>
      /\ pc' = pc \/ (pc = "purge" /\ pc' = "mkstate")
  BY DEF Remove, RemoveFile, RemoveStateDir, Goto, IInv, Parts, Removing, proc, ghost
<1>2. Stretch'
  BY <1>1 DEF Asked, Stretch, First
<1>3. QED
  BY <1>1, <1>2 DEF Asked, Request, Fresh, Skipping, Restoring, Finishing

LEMMA LoopAsked == IInv /\ Asked /\ Loop => Asked'
<1> SUFFICES ASSUME IInv, Asked, Loop PROVE Asked'
  OBVIOUS
<1>0. /\ pc = "loop" /\ UNCHANGED <<sh, req, ran, dir, taint>>
      /\ step \in 1..(NSteps + 1) /\ req \in Requests
  BY DEF Loop, SkipStep, RestartHere, EnterStep, LoopEnds, disk, ghost, IInv, TypeOK,
         ProcTypeOK, ObservedTypeOK
<1>1. CASE SkipStep
  <2>1. pc' = "loop" /\ ~sh.do_it /\ step # sh.RESTART /\ step' = step + 1
    BY <1>0, <1>1 DEF SkipStep
  <2>2. step <= req.RESTART /\ step # req.RESTART /\ req.RESTART \in Nat
    BY <1>0, <2>1 DEF Asked, Skipping, Request, Requests, StepNames
  <2>3. step + 1 <= req.RESTART
    BY <1>0, <2>2
  <2>4. QED
    BY <1>0, <2>1, <2>3
       DEF Asked, Request, Fresh, Skipping, Restoring, Stretch, Finishing
<1>2. CASE RestartHere
  <2>1. pc' = "load" /\ ~sh.do_it /\ step = sh.RESTART /\ step' = step
    BY <1>2 DEF RestartHere, Goto
  <2>2. QED
    BY <1>0, <2>1 DEF Asked, Request, Fresh, Skipping, Restoring, Stretch, Finishing
<1>3. CASE EnterStep
  <2>1. pc' \in {"saved", "purge", "mkstate"} /\ sh.do_it /\ step' = step
    BY <1>3 DEF EnterStep, Goto
  <2>2. Stretch'
    BY <1>0, <2>1 DEF Asked, Stretch, First
  <2>3. QED
    BY <1>0, <2>1, <2>2 DEF Asked, Request, Fresh, Skipping, Restoring, Finishing
<1>4. CASE LoopEnds
  <2>1. pc' = "finish" /\ step' = step /\ step = NSteps + 1
    BY <1>0, <1>4, NStepsAssumption DEF LoopEnds, Goto, Steps
  <2>2. CASE sh.do_it
    <3>1. ran = First..(step - 1) /\ step - 1 = NSteps
      BY <1>0, <2>1, <2>2, NStepsAssumption DEF Asked, Stretch
    <3>2. ran = First..NSteps
      BY <3>1
    <3>3. taint \/ \A d \in SavedDirs : Exact(NSteps + 1, d)
      BY <1>0, <2>1, <2>2 DEF IInv, Parts, Between
    <3>4. First' = First /\ \A d \in SavedDirs : Exact(NSteps + 1, d)' <=> Exact(NSteps + 1, d)
      BY <1>0 DEF First, Exact, Expected
    <3>5. Finishing'
      BY <1>0, <3>2, <3>3, <3>4 DEF Finishing
    <3>6. QED
      BY <1>0, <2>1, <3>5 DEF Asked, Request, Fresh, Skipping, Restoring, Stretch
  <2>3. CASE ~sh.do_it
    <3>0. step <= req.RESTART /\ req.RESTART \in 0..(NSteps + 1)
      BY <1>0, <2>3 DEF Asked, Skipping, Requests, StepNames
    <3>1. req.RESTART = Unknown
      BY <2>1, <3>0 DEF Unknown
    <3>2. QED
      BY <1>0, <2>1, <3>1
         DEF Asked, Request, Fresh, Skipping, Restoring, Stretch, Finishing
  <2>4. QED
    BY <2>2, <2>3
<1>5. QED
  BY <1>1, <1>2, <1>3, <1>4 DEF Loop

LEMMA SaveAsked == Asked /\ Save => Asked'
<1> SUFFICES ASSUME Asked, Save PROVE Asked'
  OBVIOUS
<1>1. CASE SaveFails \/ StopHere
  BY <1>1, ExitAsked DEF SaveFails, StopHere
<1>2. CASE MakeStateDir \/ BeginFile \/ EndFile \/ BeginStep
  <2>1. /\ pc \in {"mkstate", "save", "saved"} /\ UNCHANGED <<sh, step, req, ran>>
        /\ pc' \in {"save", "saved"} \/ (pc' = "run" /\ ~sh.do_stop)
    BY <1>2 DEF MakeStateDir, BeginFile, EndFile, BeginStep, Goto, proc, ghost
  <2>2. Stretch'
    BY <2>1 DEF Asked, Stretch, First
  <2>3. QED
    BY <2>1, <2>2 DEF Asked, Request, Fresh, Skipping, Restoring, Finishing
<1>3. QED
  BY <1>1, <1>2 DEF Save

LEMMA LoadAsked == IInv /\ Asked /\ Load => Asked'
<1> SUFFICES ASSUME IInv, Asked, Load PROVE Asked'
  OBVIOUS
<1>0. sh \in Shell /\ envOf \in [Steps -> Shell] /\ (pc \in InStep => step \in Steps)
  BY DEF IInv, TypeOK, DiskTypeOK, ProcTypeOK
<1>1. CASE RefuseLoad \/ TarFails \/ LoadFails
  BY <1>1, ExitAsked DEF RefuseLoad, TarFails, LoadFails
<1>2. CASE BeginLoad \/ LoadDir \/ DirsLoaded
  <2>1. /\ pc \in {"load", "load_dirs"} /\ pc' \in {"load_dirs", "load_env"}
        /\ UNCHANGED <<sh, step, req, ran>>
    BY <1>2 DEF BeginLoad, LoadDir, DirsLoaded, Goto, ghost
  <2>2. QED
    BY <2>1 DEF Asked, Request, Fresh, Skipping, Restoring, Stretch, Finishing
<1>3. CASE LoadEnv
  <2>1. /\ pc = "load_env" /\ pc' = "load_log" /\ UNCHANGED <<step, req, ran>>
    BY <1>3 DEF LoadEnv, Goto, ghost
  <2>2. PICK e \in {sh, envOf[step]} : sh' = Restored(e)
    BY <1>3 DEF LoadEnv
  <2>3. e \in Shell
    BY <1>0, <2>1, <2>2 DEF InStep
  <2>4. Request'
    BY <1>0, <2>1, <2>2, <2>3 DEF Restored, Asked, Request, Shell
  <2>5. QED
    BY <2>1, <2>4 DEF Asked, Fresh, Skipping, Restoring, Stretch, Finishing
<1>4. CASE LoadLog
  <2>1. /\ pc = "load_log" /\ pc' = "run" /\ UNCHANGED <<step, req, ran>>
        /\ sh' = [sh EXCEPT !.do_it = TRUE, !.do_stop = FALSE]
    BY <1>4 DEF LoadLog, Resumed, Goto, ghost
  <2>2. /\ sh'.RESTART = sh.RESTART /\ sh'.STOP = sh.STOP /\ sh'.do_it /\ ~sh'.do_stop
    BY <1>0, <2>1 DEF Shell
  <2>3. ran = {} /\ step = req.RESTART /\ step \in Steps
    BY <1>0, <2>1 DEF Asked, Restoring, InStep
  <2>4. Stretch'
    <3>1. First' = step
      BY <2>1, <2>3 DEF First, Steps, None
    <3>2. step..(step - 1) = {} /\ step >= step
      BY <2>3 DEF Steps
    <3>3. QED
      BY <2>1, <2>2, <2>3, <3>1, <3>2 DEF Stretch
  <2>5. QED
    BY <2>1, <2>2, <2>4 DEF Asked, Request, Fresh, Skipping, Restoring, Finishing
<1>5. QED
  BY <1>1, <1>2, <1>3, <1>4 DEF Load

LEMMA RunAsked == IInv /\ Asked /\ Run => Asked'
<1> SUFFICES ASSUME IInv, Asked, Run PROVE Asked'
  OBVIOUS
<1>1. CASE StepFails \/ InputMissing \/ Finish
  BY <1>1, ExitAsked DEF StepFails, InputMissing, Finish
<1>2. CASE Install
  <2>1. pc = "run" /\ UNCHANGED <<pc, sh, step, req, ran>>
    BY <1>2 DEF Install, ghost
  <2>2. Stretch'
    BY <2>1 DEF Asked, Stretch, First
  <2>3. QED
    BY <2>1, <2>2 DEF Asked, Request, Fresh, Skipping, Restoring, Finishing
<1>3. CASE StepDone
  <2>1. /\ pc = "run" /\ pc' = "loop" /\ step' = step + 1 /\ ran' = ran \cup {step}
        /\ req' = req /\ sh' = [sh EXCEPT !.do_stop = (sh.do_stop \/ sh.STOP = step)]
    BY <1>3 DEF StepDone, Goto
  <2>2. sh \in Shell /\ step \in Steps /\ req \in Requests
    BY <2>1 DEF IInv, TypeOK, ProcTypeOK, ObservedTypeOK, InStep
  <2>3. /\ sh.do_it /\ ~sh.do_stop
        /\ step >= First /\ ran = First..(step - 1) /\ req.STOP \notin ran
    BY <2>1 DEF Asked, Stretch
  <2>4. /\ sh'.RESTART = sh.RESTART /\ sh'.STOP = sh.STOP /\ sh'.do_it
        /\ sh'.do_stop <=> req.STOP = step
    BY <2>1, <2>2, <2>3 DEF Shell, Asked, Request
  <2>5. First' = First /\ First \in Nat
    BY <2>1, <2>2 DEF First, Requests, StepNames
  <2>6. ran' = First..step
    BY <2>1, <2>2, <2>3, <2>5 DEF Steps
  <2>7. Stretch'
    <3>1. step + 1 >= First /\ (step + 1) - 1 = step
      BY <2>2, <2>3, <2>5 DEF Steps
    <3>2. req.STOP \in ran' <=> req.STOP = step
      BY <2>1, <2>3
    <3>3. QED
      BY <2>1, <2>4, <2>5, <2>6, <3>1, <3>2 DEF Stretch
  <2>8. QED
    BY <2>1, <2>4, <2>7 DEF Asked, Request, Fresh, Skipping, Restoring, Finishing
<1>4. QED
  BY <1>1, <1>2, <1>3 DEF Run

LEMMA StepAsked == IInv /\ Asked /\ [Next]_vars => Asked'
<1> SUFFICES ASSUME IInv, Asked, [Next]_vars PROVE Asked'
  OBVIOUS
<1>1. CASE User
  BY <1>1, UserAsked
<1>2. CASE Crash
  BY <1>2, ExitAsked DEF Crash
<1>3. CASE Driver
  BY <1>3, PrepareAsked, RemoveAsked, LoopAsked, SaveAsked, LoadAsked, RunAsked DEF Driver
<1>4. CASE UNCHANGED vars
  <2> USE <1>4 DEF vars, disk, proc, ghost, Asked
  <2>1. Request' /\ Fresh' /\ Skipping' /\ Restoring'
    BY DEF Request, Fresh, Skipping, Restoring
  <2>2. Stretch' /\ Finishing'
    BY DEF Stretch, Finishing, First, Exact, Expected
  <2>3. QED
    BY <2>1, <2>2
<1>5. QED
  BY <1>1, <1>2, <1>3, <1>4 DEF Next

LEMMA AskedInvariant == Spec => [](IInv /\ Asked)
<1>1. IInv /\ Asked /\ [Next]_vars => Asked'
  BY StepAsked
<1>2. QED
  BY <1>1, InitAsked, Invariance, PTL DEF Spec

\* An invocation runs an unbroken stretch of CT_STEPS from where it was asked to start,
\* and nothing after the step it was asked to stop after: the CT_RESTART, CT_STOP, do_it
\* and do_stop in env.sh of a restored state do not count.
THEOREM RunsAsAskedCorrect == Spec => []RunsAsAsked
<1>1. Asked => RunsAsAsked
  BY DEF RunsAsAsked, Asked, Stretch
<1>2. QED
  BY <1>1, AskedInvariant, PTL

\* An invocation that ends without an error has stopped where it was asked to, or has
\* run all it was asked to run and leaves the directories of an uninterrupted build.
THEOREM EndsAsAskedCorrect == Spec => EndsAsAsked
<1> DEFINE Rightly ==
      /\ Ends("stopped") => req.STOP \in ran /\ step = req.STOP + 1
      /\ (Ends("done") /\ ~sh.cfg.only /\ req.RESTART # Unknown) =>
            /\ ran = First..NSteps
            /\ ~taint => \A d \in SavedDirs : Exact(NSteps + 1, d)
<1>1. ASSUME IInv, Asked, [Next]_vars PROVE [Rightly]_vars
  <2>1. CASE StopHere
    <3>1. pc = "saved" /\ sh.do_stop /\ outcome' = "stopped"
      BY <2>1 DEF StopHere, Exit
    <3>2. QED
      BY <1>1, <3>1 DEF Ends, Asked, Stretch
  <2>2. CASE Finish
    <3>1. pc = "finish" /\ outcome' = "done"
      BY <2>2 DEF Finish, Exit
    <3>2. QED
      BY <1>1, <3>1 DEF Ends, Asked, Finishing
  <2>3. CASE outcome' \notin {"stopped", "done"} \/ outcome' = outcome
    BY <2>3 DEF Ends
  <2>5. CASE User \/ Crash
    BY <2>3, <2>5 DEF User, Start, Crash, Exit
  <2>6. CASE Prepare \/ Remove \/ Loop
    BY <2>3, <2>6
       DEF Prepare, RefuseRestart, EradicateBuildDir, Eradicated, WipePrefix, WipeState, StateWiped,
           MakeDirs, Setup, SetupFails, Remove, RemoveFile, RemoveStateDir, Loop, SkipStep,
           RestartHere, EnterStep, LoopEnds, Exit
  <2>7. CASE Save \/ Load \/ Run
    BY <2>1, <2>2, <2>3, <2>7
       DEF Save, MakeStateDir, BeginFile, EndFile, SaveFails, BeginStep, Load, RefuseLoad,
           BeginLoad, LoadDir, TarFails, DirsLoaded, LoadEnv, LoadLog, LoadFails, Run,
           Install, StepFails, InputMissing, StepDone, Exit
  <2>8. QED
    BY <1>1, <2>5, <2>6, <2>7 DEF Next, Driver
<1>2. QED
  BY <1>1, AskedInvariant, PTL DEF Spec, EndsAsAsked

-----------------------------------------------------------------------------
(* What env.sh holds *)

LEMMA NoShellConfig == NoShell.cfg \in Configs
<1>1. AnyConfig \in Configs
  BY ConfigAssumption DEF AnyConfig
<1>2. QED
  BY <1>1 DEF NoShell, FreshShell

LEMMA EnvFile == "env.sh" \in Files /\ \A i \in 0..(M + 1) : FileAt(i) \in Files
BY SaveOrderFacts DEF Files

LEMMA InitDumped == Init => Dumped /\ Reading
<1> SUFFICES ASSUME Init PROVE Dumped /\ Reading
  OBVIOUS
<1>1. pc = "idle" /\ sh = NoShell
  BY DEF Init
<1>2. \A k \in Steps : envOf[k] = NoShell /\ file[k]["env.sh"] = "absent"
  BY EnvFile DEF Init, NoFiles
<1>3. QED
  BY <1>1, <1>2, NoShellConfig DEF Dumped, Reading

LEMMA ExitDumped ==
    ASSUME Dumped, NEW o, Exit(o), UNCHANGED <<file, envOf, ext>>
    PROVE  Dumped' /\ Reading'
BY NoShellConfig DEF Exit, Dumped, Reading

\* A step that leaves the states and the .config alone, outside of CT_DoLoadState.
LEMMA DumpedKept ==
    ASSUME Dumped, UNCHANGED <<file, envOf, ext>>, sh'.cfg = sh.cfg,
           pc' \notin {"save", "load_dirs", "load_env", "load_log"}
    PROVE  Dumped' /\ Reading'
BY DEF Dumped, Reading

LEMMA LoopConfig == sh \in Shell /\ EnterLoop => sh'.cfg = sh.cfg
BY DEF EnterLoop, LoopShell, Shell

LEMMA PrepareDumped == IInv /\ Dumped /\ (User \/ Prepare \/ Loop) => Dumped' /\ Reading'
<1> SUFFICES ASSUME IInv, Dumped, User \/ Prepare \/ Loop PROVE Dumped' /\ Reading'
  OBVIOUS
<1>0. sh \in Shell
  BY DEF IInv, TypeOK, ProcTypeOK
<1>1. CASE User
  <2>1. PICK c \in Configs, r, s \in StepNames : Start(c, r, s)
    BY <1>1 DEF User
  <2>2. sh'.cfg = c /\ pc' = "check" /\ UNCHANGED <<file, envOf, ext>>
    BY <2>1 DEF Start, FreshShell, Goto, disk
  <2>3. QED
    BY <2>2 DEF Dumped, Reading
<1>2. CASE RefuseRestart \/ SetupFails
  BY <1>2, ExitDumped DEF RefuseRestart, SetupFails, disk
<1>3. CASE EradicateBuildDir \/ WipePrefix \/ WipeState \/ StateWiped
  <2>1. UNCHANGED <<sh, file, envOf, ext>>
    BY <1>3 DEF EradicateBuildDir, Eradicated, WipePrefix, WipeState, StateWiped, disk
  <2>2. pc' \notin {"save", "load_dirs", "load_env", "load_log"}
    BY <1>3 DEF EradicateBuildDir, Eradicated, WipePrefix, WipeState, StateWiped, Goto
  <2>3. QED
    BY <2>1, <2>2, DumpedKept
<1>4. CASE MakeDirs \/ Setup
  <2>1. UNCHANGED <<file, envOf, ext>> /\ sh'.cfg = sh.cfg
    BY <1>0, <1>4, LoopConfig DEF MakeDirs, Setup
  <2>2. pc' \notin {"save", "load_dirs", "load_env", "load_log"}
    BY <1>4 DEF MakeDirs, Setup, EnterLoop, Goto
  <2>3. QED
    BY <2>1, <2>2, DumpedKept
<1>5. CASE Loop
  <2>1. UNCHANGED <<sh, file, envOf, ext>>
    BY <1>5 DEF Loop, SkipStep, RestartHere, EnterStep, LoopEnds, disk
  <2>2. pc' \notin {"save", "load_dirs", "load_env", "load_log"}
    BY <1>5 DEF Loop, SkipStep, RestartHere, EnterStep, LoopEnds, Goto
  <2>3. QED
    BY <2>1, <2>2, DumpedKept
<1>6. QED
  BY <1>1, <1>2, <1>3, <1>4, <1>5 DEF Prepare

LEMMA RemoveDumped == IInv /\ Dumped /\ Remove => Dumped' /\ Reading'
<1> SUFFICES ASSUME IInv, Dumped, Remove PROVE Dumped' /\ Reading'
  OBVIOUS
<1>1. /\ pc \in {"purge", "wipe_state"} /\ UNCHANGED <<sh, envOf, ext>>
      /\ pc' = pc \/ (pc = "purge" /\ pc' = "mkstate")
  BY DEF Remove, RemoveFile, RemoveStateDir, Goto, IInv, Parts, Removing, proc
<1>2. \A k \in Steps : file'[k]["env.sh"] # "absent" => file[k]["env.sh"] # "absent"
  <2>1. CASE RemoveFile
    <3>1. PICK f \in Files : file' = [file EXCEPT ![busy][f] = "absent"] \/ file' = file
      BY <2>1, EnvFile DEF RemoveFile
    <3>2. QED
      BY <3>1, EnvFile DEF IInv, TypeOK, DiskTypeOK, StateTable
  <2>2. CASE RemoveStateDir
    BY <2>2 DEF RemoveStateDir
  <2>3. QED
    BY <2>1, <2>2 DEF Remove
<1>3. QED
  BY <1>1, <1>2 DEF Dumped, Reading

LEMMA SaveDumped == IInv /\ Dumped /\ Save => Dumped' /\ Reading'
<1> SUFFICES ASSUME IInv, Dumped, Save PROVE Dumped' /\ Reading'
  OBVIOUS
<1>0. /\ step \in Steps /\ sh \in Shell /\ n \in 0..(M + 1)
      /\ file \in StateTable /\ envOf \in [Steps -> Shell] /\ ext \in [Steps -> BOOLEAN]
  BY DEF Save, MakeStateDir, BeginFile, EndFile, SaveFails, StopHere, BeginStep,
         IInv, TypeOK, DiskTypeOK, ProcTypeOK, InStep
<1>1. CASE SaveFails \/ StopHere
  BY <1>1, ExitDumped DEF SaveFails, StopHere, disk
<1>2. CASE BeginStep
  BY <1>2, DumpedKept DEF BeginStep, disk, Goto
<1>3. CASE MakeStateDir
  <2>1. /\ pc = "mkstate" /\ pc' = "save" /\ UNCHANGED <<sh, step, file, envOf>>
        /\ ext' = [ext EXCEPT ![step] = sh.cfg.gz]
    BY <1>3 DEF MakeStateDir, Goto
  <2>2. file[step]["env.sh"] = "absent"
    <3>1. file[step] = NoFiles
      BY <1>0, <2>1 DEF IInv, Parts, Saving, Removing
    <3>2. QED
      BY <3>1, EnvFile DEF NoFiles
  <2>3. QED
    BY <1>0, <2>1, <2>2 DEF Dumped, Reading
<1>4. CASE BeginFile
  <2>1. /\ pc = "save" /\ UNCHANGED <<pc, sh, step, ext>>
        /\ file' = [file EXCEPT ![step][FileAt(n)] = "partial"]
        /\ envOf' = IF FileAt(n) = "env.sh" THEN [envOf EXCEPT ![step] = sh] ELSE envOf
    BY <1>4 DEF BeginFile, proc
  <2>2. \A k \in Steps : file'[k]["env.sh"] = file[k]["env.sh"]
                         \/ (k = step /\ FileAt(n) = "env.sh")
    BY <1>0, <2>1, EnvFile DEF StateTable
  <2>3. \A k \in Steps : envOf'[k] = IF k = step /\ FileAt(n) = "env.sh" THEN sh ELSE envOf[k]
    BY <1>0, <2>1
  <2>4. QED
    BY <1>0, <2>1, <2>2, <2>3 DEF Dumped, Reading
<1>5. CASE EndFile
  <2>1. /\ pc = "save" /\ pc' \in {"save", "saved"} /\ UNCHANGED <<sh, step, envOf, ext>>
        /\ file[step][FileAt(n)] = "partial"
        /\ file' = [file EXCEPT ![step][FileAt(n)] = "whole"]
    BY <1>5 DEF EndFile, Goto
  <2>2. \A k \in Steps : file'[k]["env.sh"] # "absent" => file[k]["env.sh"] # "absent"
    BY <1>0, <2>1, EnvFile DEF StateTable
  <2>3. QED
    BY <2>1, <2>2 DEF Dumped, Reading
<1>6. QED
  BY <1>1, <1>2, <1>3, <1>4, <1>5 DEF Save

LEMMA LoadDumped == IInv /\ Dumped /\ Reading /\ Load => Dumped' /\ Reading'
<1> SUFFICES ASSUME IInv, Dumped, Reading, Load PROVE Dumped' /\ Reading'
  OBVIOUS
<1>0. step \in Steps /\ sh \in Shell /\ envOf \in [Steps -> Shell]
  BY DEF Load, RefuseLoad, BeginLoad, LoadDir, TarFails, DirsLoaded, LoadEnv, LoadLog,
         LoadFails, IInv, TypeOK, DiskTypeOK, ProcTypeOK, InStep
<1>1. CASE RefuseLoad \/ TarFails \/ LoadFails
  BY <1>1, ExitDumped DEF RefuseLoad, TarFails, LoadFails, disk
<1>2. CASE BeginLoad
  <2>1. /\ pc' = "load_dirs" /\ UNCHANGED <<sh, step, file, envOf, ext>>
        /\ tail' = IF sh.cfg.log THEN tail \cup {step} ELSE tail
    BY <1>2 DEF BeginLoad, TailLog, Goto
  <2>2. Logging => sh.cfg.log
    BY DEF Dumped, Logging
  <2>3. QED
    BY <2>1, <2>2 DEF Dumped, Reading
<1>3. CASE LoadDir \/ DirsLoaded
  <2>1. /\ pc = "load_dirs" /\ pc' \in {"load_dirs", "load_env"}
        /\ UNCHANGED <<sh, step, file, envOf, ext, tail>>
    BY <1>3 DEF LoadDir, DirsLoaded, Goto, disk
  <2>2. QED
    BY <2>1 DEF Dumped, Reading
<1>4. CASE LoadEnv
  <2>1. /\ pc = "load_env" /\ pc' = "load_log"
        /\ UNCHANGED <<step, file, envOf, ext, tail>>
    BY <1>4 DEF LoadEnv, Goto, disk
  <2>2. PICK e \in {sh, envOf[step]} :
          /\ file[step]["env.sh"] = "whole" => e = envOf[step]
          /\ sh' = Restored(e)
    BY <1>4 DEF LoadEnv
  <2>3. sh'.cfg = e.cfg
    BY <1>0, <2>2 DEF Restored, Shell
  <2>4. QED
    BY <1>0, <2>1, <2>2, <2>3 DEF Dumped, Reading
<1>5. CASE LoadLog
  <2>1. pc' = "run" /\ UNCHANGED <<file, envOf, ext>> /\ sh'.cfg = sh.cfg
    BY <1>0, <1>5 DEF LoadLog, Resumed, Goto, Shell
  <2>2. QED
    BY <2>1, DumpedKept
<1>6. QED
  BY <1>1, <1>2, <1>3, <1>4, <1>5 DEF Load

LEMMA RunDumped == IInv /\ Dumped /\ Run => Dumped' /\ Reading'
<1> SUFFICES ASSUME IInv, Dumped, Run PROVE Dumped' /\ Reading'
  OBVIOUS
<1>1. CASE StepFails \/ InputMissing \/ Finish
  BY <1>1, ExitDumped DEF StepFails, InputMissing, Finish, disk
<1>2. CASE Install \/ StepDone
  <2>1. sh \in Shell
    BY DEF IInv, TypeOK, ProcTypeOK
  <2>2. UNCHANGED <<file, envOf, ext>> /\ sh'.cfg = sh.cfg /\ pc' \in {"run", "loop"}
    BY <1>2, <2>1 DEF Install, StepDone, disk, Goto, Shell
  <2>3. QED
    BY <2>2, DumpedKept
<1>3. QED
  BY <1>1, <1>2 DEF Run

LEMMA StepDumped ==
    IInv /\ Dumped /\ Reading /\ [Next]_vars => Dumped' /\ Reading'
<1> SUFFICES ASSUME IInv, Dumped, Reading, [Next]_vars PROVE Dumped' /\ Reading'
  OBVIOUS
<1>1. CASE Crash
  BY <1>1, ExitDumped DEF Crash, disk
<1>2. CASE UNCHANGED vars
  BY <1>2 DEF vars, disk, proc, Dumped, Reading
<1>3. QED
  BY <1>1, <1>2, PrepareDumped, RemoveDumped, SaveDumped, LoadDumped, RunDumped
     DEF Next, Driver

LEMMA DumpedInvariant == Spec => [](IInv /\ Dumped /\ Reading)
<1>1. IInv /\ Dumped /\ Reading /\ [Next]_vars => Dumped' /\ Reading'
  BY StepDumped
<1>2. QED
  BY <1>1, InitDumped, Invariance, PTL DEF Spec

\* How an invocation ended is not known before it has.
LEMMA NotEnded == Spec => [](pc # "idle" => outcome = "none")
<1> DEFINE Open == pc # "idle" => outcome = "none"
<1>1. Init => Open
  BY DEF Init
<1>2. ASSUME Open, [Next]_vars PROVE Open'
  <2>1. CASE pc' = "idle"
    BY <2>1
  <2>2. CASE UNCHANGED <<pc, outcome>> \/ (pc # "idle" /\ outcome' = outcome)
    BY <1>2, <2>2
  <2>3. CASE User \/ Crash
    BY <2>1, <2>3 DEF User, Start, Crash, Exit
  <2>4. CASE Prepare \/ Remove \/ Loop
    BY <2>1, <2>2, <2>4
       DEF Prepare, RefuseRestart, EradicateBuildDir, Eradicated, WipePrefix, WipeState, StateWiped,
           MakeDirs, Setup, SetupFails, Remove, RemoveFile, RemoveStateDir, Loop, SkipStep,
           RestartHere, EnterStep, LoopEnds, Exit, Goto, proc
  <2>5. CASE Save \/ Load \/ Run
    BY <2>1, <2>2, <2>5
       DEF Save, MakeStateDir, BeginFile, EndFile, SaveFails, StopHere, BeginStep, Load,
           RefuseLoad, BeginLoad, LoadDir, TarFails, DirsLoaded, LoadEnv, LoadLog,
           LoadFails, Run, Install, StepFails, InputMissing, StepDone, Finish, Exit
  <2>6. QED
    BY <1>2, <2>2, <2>3, <2>4, <2>5 DEF Next, Driver, vars, proc
<1>3. QED
  BY <1>1, <1>2, PTL DEF Spec

\* A state that was saved to the end can be restored, with the compression it was saved
\* with, by a driver that logs: neither its tarballs nor its log are refused, for env.sh
\* brings back the .config that says how they are compressed.
THEOREM LoadSucceedsCorrect == ASSUME Logging PROVE Spec => LoadSucceeds
<1> DEFINE Succeeds ==
      (pc \in {"load", "load_dirs", "load_env", "load_log"} /\ Restartable(step) /\ ~taint)
          => outcome' # "abort"
<1>1. ASSUME IInv, Dumped, Reading, pc # "idle" => outcome = "none", [Next]_vars
      PROVE  [Succeeds]_vars
  <2>1. SUFFICES ASSUME pc \in {"load", "load_dirs", "load_env", "load_log"},
                        Restartable(step), outcome' = "abort", Next
                 PROVE  FALSE
    BY <1>1
  <2>2. /\ step \in stateDir /\ step \in Steps
        /\ n \in 0..(M + 1) /\ (pc = "load_dirs" => n <= M)
        /\ file[step] = [f \in Files |-> "whole"]
    BY <1>1, <2>1 DEF Restartable, IInv, TypeOK, ProcTypeOK, InStep
  <2>3. ~RefuseLoad
    BY <2>2 DEF RefuseLoad
  <2>4. ~TarFails
    <3>1. n \in 1..M => file[step][SaveOrder[n]] = "whole"
      BY <2>2, SaveOrderFacts DEF Files
    <3>2. QED
      BY <2>2, <3>1, SaveOrderFacts DEF TarFails
  <2>5. ~LoadFails
    <3>1. SUFFICES ASSUME pc = "load_log" PROVE HasLog /\ step \in tail
      BY DEF LoadFails
    <3>2. file[step]["log"] = "whole" /\ file[step]["env.sh"] = "whole"
      BY <2>2 DEF Files
    <3>3. ext[step] = sh.cfg.gz
      BY <1>1, <2>2, <3>1, <3>2 DEF Dumped, Reading
    <3>4. QED
      BY <1>1, <3>1, <3>2, <3>3 DEF HasLog, Reading
  <2>6. pc \notin {"idle", "check", "setup", "save", "saved", "run", "finish"} /\ outcome = "none"
    BY <1>1, <2>1
  <2>7. ~(User \/ Crash \/ Prepare)
    BY <2>1, <2>6
       DEF User, Start, Crash, Exit, Prepare, RefuseRestart, EradicateBuildDir, Eradicated, WipePrefix,
           WipeState, StateWiped, MakeDirs, Setup, SetupFails
  <2>8. ~(Remove \/ Loop)
    BY <2>1, <2>6
       DEF Remove, RemoveFile, RemoveStateDir, Loop, SkipStep, RestartHere, EnterStep,
           LoopEnds
  <2>9. ~(Save \/ Load \/ Run)
    BY <2>1, <2>3, <2>4, <2>5, <2>6
       DEF Save, MakeStateDir, BeginFile, EndFile, SaveFails, StopHere, BeginStep, Load,
           BeginLoad, LoadDir, DirsLoaded, LoadEnv, LoadLog, Run, Install, StepFails,
           InputMissing, StepDone, Finish
  <2>10. QED
    BY <2>1, <2>7, <2>8, <2>9 DEF Next, Driver
<1>2. QED
  BY <1>1, DumpedInvariant, NotEnded, PTL DEF Spec, LoadSucceeds

-----------------------------------------------------------------------------
(***************************************************************************)
(* What a step misses.  ExactStart speaks of saved directories; the others *)
(* are eradicated at every start, and hold from then on what this          *)
(* invocation itself has put there, a restored state adding nothing.       *)
(***************************************************************************)

UnsavedExact ==
    \A d \in Unsaved :
        /\ pc \in {"wipe_prefix", "wipe_state", "mkdirs", "setup"} => dir[d] = {}
        /\ pc \in InStep \cup {"loop"} =>
              dir[d] = {j \in Here : d \in Writes[j]}
                          \cup (IF pc = "run" THEN Installed(d) ELSE {})

LEMMA UnsavedFacts == Unsaved \subseteq Dirs \ SavedDirs
BY DirsAssumption DEF Unsaved

\* A step between two places of the loop that leaves the directories and what has run.
LEMMA UnsavedKept ==
    ASSUME UnsavedExact, UNCHANGED <<dir, ran, req>>,
           pc \in InStep \cup {"loop"}, pc # "run",
           pc' \in (InStep \cup {"loop", "finish"}) \ {"run"}
    PROVE  UnsavedExact'
BY DEF UnsavedExact, Here, InStep

\* The same, for one that begins the step.
LEMMA UnsavedBegun ==
    ASSUME UnsavedExact, UNCHANGED <<dir, ran, req, step>>,
           pc \in InStep, pc # "run", pc' = "run", left' = Writes[step]
    PROVE  UnsavedExact'
<1>1. SUFFICES ASSUME NEW d \in Unsaved
               PROVE  dir[d] = {j \in Here : d \in Writes[j]} \cup Installed(d)'
  BY DEF UnsavedExact, Here
<1>2. Installed(d)' = {}
  BY DEF Installed
<1>3. QED
  BY <1>2 DEF UnsavedExact

LEMMA ExitUnsaved == ASSUME NEW o, Exit(o) PROVE UnsavedExact'
BY DEF Exit, UnsavedExact, InStep

LEMMA InitUnsaved == Init => UnsavedExact
BY DEF Init, UnsavedExact, InStep

LEMMA PrepareUnsaved == IInv /\ Asked /\ UnsavedExact /\ (User \/ Prepare) => UnsavedExact'
<1> SUFFICES ASSUME IInv, Asked, UnsavedExact, User \/ Prepare PROVE UnsavedExact'
  OBVIOUS
<1>1. CASE RefuseRestart \/ SetupFails
  BY <1>1, ExitUnsaved DEF RefuseRestart, SetupFails
<1>2. CASE User
  BY <1>2 DEF User, Start, Goto, UnsavedExact, InStep
<1>3. CASE EradicateBuildDir
  <2>1. pc' \in {"wipe_prefix", "mkdirs"}
    BY <1>3 DEF EradicateBuildDir, Goto
  <2>2. \A d \in Unsaved : dir'[d] = {}
    BY <1>3, UnsavedFacts DEF EradicateBuildDir, Eradicated, Unsaved
  <2>3. QED
    BY <2>1, <2>2 DEF UnsavedExact, InStep
<1>4. CASE WipePrefix \/ WipeState \/ StateWiped
  <2>1. pc \in {"wipe_prefix", "wipe_state"} /\ pc' \in {"wipe_state", "mkdirs"}
    BY <1>4 DEF WipePrefix, WipeState, StateWiped, Goto
  <2>2. \A d \in Unsaved : dir'[d] = {}
    BY <1>4, <2>1, UnsavedFacts DEF WipePrefix, WipeState, StateWiped, disk, UnsavedExact
  <2>3. QED
    BY <2>1, <2>2 DEF UnsavedExact, InStep
<1>5. CASE MakeDirs
  <2>1. pc = "mkdirs" /\ ran = {} /\ sh.RESTART = req.RESTART
        /\ UNCHANGED <<dir, ran, req>>
    BY <1>5 DEF MakeDirs, ghost, Asked, Fresh, Request
  <2>2. CASE sh.RESTART = None
    BY <1>5, <2>1, <2>2 DEF MakeDirs, Goto, UnsavedExact, InStep
  <2>3. CASE sh.RESTART # None
    <3>1. pc' \in {"loop", "finish"}
      BY <1>5, <2>3 DEF MakeDirs, EnterLoop, Goto
    <3>2. Here' = {}
      BY <2>1, <2>3 DEF Here
    <3>3. QED
      BY <2>1, <3>1, <3>2 DEF UnsavedExact, InStep
  <2>4. QED
    BY <2>2, <2>3
<1>6. CASE Setup
  <2>1. pc = "setup" /\ pc' \in {"loop", "finish"} /\ ran = {} /\ req.RESTART = None
        /\ UNCHANGED <<ran, req>>
    BY <1>6 DEF Setup, EnterLoop, Goto, ghost, Asked, Fresh, Request, IInv, Parts, Preparing
  <2>2. Here' = {0}
    BY <2>1 DEF Here
  <2>3. \A d \in Unsaved : dir'[d] = IF d \in Writes[0] THEN {0} ELSE {}
    BY <1>6, <2>1, UnsavedFacts DEF Setup, UnsavedExact
  <2>4. QED
    BY <2>1, <2>2, <2>3 DEF UnsavedExact, InStep
<1>7. QED
  BY <1>1, <1>2, <1>3, <1>4, <1>5, <1>6 DEF Prepare

LEMMA RemoveUnsaved == IInv /\ UnsavedExact /\ Remove => UnsavedExact'
<1> SUFFICES ASSUME IInv, UnsavedExact, Remove PROVE UnsavedExact'
  OBVIOUS
<1>1. pc \in {"purge", "wipe_state"} /\ pc' \in {pc, IF pc = "purge" THEN "mkstate" ELSE pc}
  BY DEF Remove, RemoveFile, RemoveStateDir, Goto, proc, IInv, Parts, Removing
<1>2. UNCHANGED <<dir, ran, req>>
  BY DEF Remove, RemoveFile, RemoveStateDir, ghost
<1>3. QED
  BY <1>1, <1>2 DEF UnsavedExact, Here, InStep

LEMMA LoopUnsaved == UnsavedExact /\ Loop => UnsavedExact'
<1> SUFFICES ASSUME UnsavedExact, Loop PROVE UnsavedExact'
  OBVIOUS
<1>1. UNCHANGED <<dir, ran, req>>
  BY DEF Loop, SkipStep, RestartHere, EnterStep, LoopEnds, disk, ghost
<1>2. pc = "loop" /\ pc' \in {"loop", "load", "saved", "purge", "mkstate", "finish"}
  BY DEF Loop, SkipStep, RestartHere, EnterStep, LoopEnds, Goto
<1>3. QED
  BY <1>1, <1>2, UnsavedKept DEF InStep

LEMMA SaveUnsaved == UnsavedExact /\ Save => UnsavedExact'
<1> SUFFICES ASSUME UnsavedExact, Save PROVE UnsavedExact'
  OBVIOUS
<1>1. CASE MakeStateDir \/ BeginFile \/ EndFile
  <2>1. pc \in {"mkstate", "save"} /\ pc' \in {"save", "saved"} /\ UNCHANGED <<dir, ran, req>>
    BY <1>1 DEF MakeStateDir, BeginFile, EndFile, Goto, ghost, proc
  <2>2. QED
    BY <2>1, UnsavedKept DEF InStep
<1>2. CASE SaveFails \/ StopHere
  BY <1>2, ExitUnsaved DEF SaveFails, StopHere
<1>3. CASE BeginStep
  BY <1>3, UnsavedBegun DEF BeginStep, Goto, disk, ghost, InStep
<1>4. QED
  BY <1>1, <1>2, <1>3 DEF Save

\* Only directories with a tarball are written to while a state is restored.
LEMMA LoadUnsaved == IInv /\ UnsavedExact /\ Load => UnsavedExact'
<1> SUFFICES ASSUME IInv, UnsavedExact, Load PROVE UnsavedExact'
  OBVIOUS
<1>1. CASE RefuseLoad \/ TarFails \/ LoadFails
  BY <1>1, ExitUnsaved DEF RefuseLoad, TarFails, LoadFails
<1>2. CASE BeginLoad \/ DirsLoaded \/ LoadEnv
  <2>1. /\ pc \in {"load", "load_dirs", "load_env"}
        /\ pc' \in {"load_dirs", "load_env", "load_log"}
        /\ UNCHANGED <<dir, ran, req>>
    BY <1>2 DEF BeginLoad, DirsLoaded, LoadEnv, Goto, disk, ghost
  <2>2. QED
    BY <2>1, UnsavedKept DEF InStep
<1>3. CASE LoadDir
  <2>1. pc = "load_dirs" /\ pc' = pc /\ UNCHANGED <<ran, req>> /\ n \in 1..M
    BY <1>3, SaveOrderFacts DEF LoadDir, ghost, IInv, TypeOK, ProcTypeOK
  <2>2. \A d \in Unsaved : dir'[d] = dir[d]
    <3>1. SaveOrder[n] \in SavedDirs
      BY <2>1, SaveOrderFacts
    <3>2. \A d \in Unsaved : d # SaveOrder[n] /\ d \in Dirs
      BY <3>1, UnsavedFacts
    <3>3. QED
      BY <1>3, <3>2 DEF LoadDir, IInv, TypeOK, DiskTypeOK
  <2>3. QED
    BY <2>1, <2>2 DEF UnsavedExact, Here, InStep
<1>4. CASE LoadLog
  BY <1>4, UnsavedBegun DEF LoadLog, Goto, ghost, InStep
<1>5. QED
  BY <1>1, <1>2, <1>3, <1>4 DEF Load

LEMMA RunUnsaved == IInv /\ UnsavedExact /\ Run => UnsavedExact'
<1> SUFFICES ASSUME IInv, UnsavedExact, Run PROVE UnsavedExact'
  OBVIOUS
<1>1. CASE StepFails \/ InputMissing \/ Finish
  BY <1>1, ExitUnsaved DEF StepFails, InputMissing, Finish
<1>2. CASE Install
  <2>1. PICK d \in left : /\ dir' = [dir EXCEPT ![d] = @ \cup {step}]
                          /\ left' = left \ {d}
    BY <1>2 DEF Install
  <2>2. pc = "run" /\ UNCHANGED <<pc, step, ran, req>> /\ left \subseteq Writes[step]
    BY <1>2 DEF Install, ghost, IInv, Parts, Running
  <2>3. ASSUME NEW e \in Unsaved
        PROVE  dir'[e] = {j \in Here : e \in Writes[j]} \cup Installed(e)'
    <3>1. dir[e] = {j \in Here : e \in Writes[j]} \cup Installed(e) /\ e \in Dirs
      BY <2>2, UnsavedFacts DEF UnsavedExact, InStep
    <3>2. CASE e = d
      <4>1. dir'[e] = dir[e] \cup {step} /\ e \in Writes[step] \ left'
        BY <2>1, <2>2, <3>1, <3>2 DEF IInv, TypeOK, DiskTypeOK
      <4>2. Installed(e)' = {step} /\ Installed(e) \subseteq {step}
        BY <2>2, <4>1 DEF Installed
      <4>3. QED
        BY <3>1, <4>1, <4>2
    <3>3. CASE e # d
      <4>1. dir'[e] = dir[e] /\ Installed(e)' = Installed(e)
        BY <2>1, <2>2, <3>1, <3>3 DEF Installed, IInv, TypeOK, DiskTypeOK
      <4>2. QED
        BY <3>1, <4>1
    <3>4. QED
      BY <3>2, <3>3
  <2>4. QED
    BY <2>2, <2>3 DEF UnsavedExact, Here
<1>3. CASE StepDone
  <2>1. pc = "run" /\ pc' = "loop" /\ left = {} /\ ran' = ran \cup {step}
        /\ UNCHANGED <<dir, req>>
    BY <1>3 DEF StepDone, Goto, disk
  <2>2. Here' = Here \cup {step}
    BY <2>1 DEF Here
  <2>3. ASSUME NEW d \in Unsaved
        PROVE  dir[d] = {j \in Here \cup {step} : d \in Writes[j]}
    <3>1. dir[d] = {j \in Here : d \in Writes[j]} \cup Installed(d)
      BY <2>1 DEF UnsavedExact, InStep
    <3>2. Installed(d) = IF d \in Writes[step] THEN {step} ELSE {}
      BY <2>1 DEF Installed
    <3>3. QED
      BY <3>1, <3>2
  <2>4. QED
    BY <2>1, <2>2, <2>3 DEF UnsavedExact, InStep
<1>4. QED
  BY <1>1, <1>2, <1>3 DEF Run

LEMMA StepUnsaved == IInv /\ Asked /\ UnsavedExact /\ [Next]_vars => UnsavedExact'
<1> SUFFICES ASSUME IInv, Asked, UnsavedExact, [Next]_vars PROVE UnsavedExact'
  OBVIOUS
<1>1. CASE Crash
  BY <1>1, ExitUnsaved DEF Crash
<1>2. CASE UNCHANGED vars
  BY <1>2 DEF vars, disk, proc, ghost, UnsavedExact, Here, Installed
<1>3. QED
  BY <1>1, <1>2, PrepareUnsaved, RemoveUnsaved, LoopUnsaved, SaveUnsaved, LoadUnsaved,
     RunUnsaved DEF Next, Driver

\* A step misses exactly what lies in an unsaved directory below CT_BUILD_DIR and was not
\* made by this invocation: every other input is there, after any failures, kills and
\* restarts, and a library that a step before the restart built in CT_COMPLIBS_DIR never
\* is.
THEOREM OnlyUnsavedMissingCorrect == Spec => []OnlyUnsavedMissing
<1>1. ASSUME IInv, ExactStart, UnsavedExact PROVE OnlyUnsavedMissing
  <2>1. SUFFICES ASSUME pc = "run", ~taint, NEW in \in Needs[step]
                 PROVE  in[2] \notin dir[in[1]] <=> in[1] \in Unsaved /\ in[2] \notin Here
    BY DEF OnlyUnsavedMissing
  <2>2. step \in 1..NSteps /\ step \in Nat
    BY <1>1, <2>1 DEF IInv, TypeOK, ProcTypeOK, InStep, Steps
  <2>3. in[1] \in Dirs /\ in[2] \in 0..NSteps /\ in[2] < step /\ in[1] \in Writes[in[2]]
    BY <2>2, StepAssumption, NeedsAssumption
  <2>4. CASE in[1] \in SavedDirs
    <3>1. in[2] \in Expected(step, in[1])
      BY <2>2, <2>3 DEF Expected
    <3>2. QED
      BY <1>1, <2>1, <2>4, <3>1 DEF ExactStart, Unsaved
  <2>5. CASE in[1] \notin SavedDirs
    <3>1. in[1] \in Unsaved
      BY <2>3, <2>5, UnsavedAssumption DEF Unsaved, SavedDirs, M
    <3>2. dir[in[1]] = {j \in Here : in[1] \in Writes[j]} \cup Installed(in[1])
      BY <1>1, <2>1, <3>1 DEF UnsavedExact, InStep
    <3>3. in[2] # step /\ Installed(in[1]) \subseteq {step}
      BY <2>2, <2>3 DEF Installed
    <3>4. QED
      BY <2>3, <3>1, <3>2, <3>3
  <2>6. QED
    BY <2>4, <2>5
<1>2. IInv /\ Asked /\ UnsavedExact /\ [Next]_vars => UnsavedExact'
  BY StepUnsaved
<1>3. QED
  BY <1>1, <1>2, InitUnsaved, AskedInvariant, ExactStartCorrect, PTL DEF Spec

-----------------------------------------------------------------------------
(* The driver as a build with checkpoints *)

\* The state of Checkpoints that a state of the driver stands for.
At     == IF OnTheWay THEN step ELSE 0
Points == {k \in stateDir \ (torn \cup junk) : file[k]["log"] # "absent"}

\* What a step of the driver may do to it.
Kept    == UNCHANGED <<At, Points>>
Dropped == At' = At /\ Points' \subseteq Points
Left    == At' = 0 /\ Points' = Points
Abstract == CP!CPNext \/ Kept

LEMMA DroppedAbstract == Kept \/ Dropped \/ Left => Abstract
BY DEF Abstract, Kept, Dropped, Left, CP!CPNext, CP!Forget, CP!Leave, At, Points

LEMMA AwayAt == ~OnTheWay => At = 0
BY DEF At

\* Whatever ends an invocation leaves the checkpoints there are.
LEMMA ExitAbstract == ASSUME NEW o, Exit(o), UNCHANGED <<stateDir, file>> PROVE Abstract
<1>1. ~OnTheWay' /\ Points' = Points
  BY DEF Exit, OnTheWay, Points
<1>2. QED
  BY <1>1, DroppedAbstract DEF Left, At

LEMMA InitAbstract == Init => CP!CPInit
BY DEF Init, OnTheWay, CP!CPInit

LEMMA PrepareAbstract == IInv /\ Asked /\ (User \/ Prepare) => Abstract
<1> SUFFICES ASSUME IInv, Asked, User \/ Prepare PROVE Abstract
  OBVIOUS
<1>1. CASE RefuseRestart \/ SetupFails
  BY <1>1, ExitAbstract DEF RefuseRestart, SetupFails, disk
<1>2. CASE User \/ EradicateBuildDir \/ WipePrefix \/ WipeState \/ StateWiped
  <2>1. UNCHANGED <<stateDir, file, junk>> /\ torn \subseteq torn'
    BY <1>2 DEF User, Start, EradicateBuildDir, Eradicated, WipePrefix, WipeState, StateWiped,
                BeginRemoval, disk, ghost
  <2>2. ~OnTheWay /\ ~OnTheWay'
    BY <1>2 DEF User, Start, EradicateBuildDir, Eradicated, WipePrefix, WipeState, StateWiped,
                OnTheWay, Goto
  <2>3. Points' \subseteq Points
    BY <2>1 DEF Points
  <2>4. QED
    BY <2>2, <2>3, DroppedAbstract DEF Dropped, At
<1>3. CASE MakeDirs \/ Setup
  <2>1. /\ pc \in {"mkdirs", "setup"} /\ UNCHANGED <<stateDir, file, torn, junk, taint, step>>
        /\ step = 1
    BY <1>3 DEF MakeDirs, Setup, ghost, IInv, Parts, Preparing
  <2>2. ~OnTheWay /\ Points' = Points
    BY <2>1 DEF OnTheWay, Points
  <2>3. CASE ~OnTheWay'
    BY <2>2, <2>3, DroppedAbstract DEF Left, At
  <2>4. CASE OnTheWay'
    <3>1. Setup
      <4>1. sh \in Shell
        BY DEF IInv, TypeOK, ProcTypeOK
      <4>2. MakeDirs => pc' \in {"setup", "finish"} \/ ~sh'.do_it
        BY <4>1 DEF MakeDirs, EnterLoop, LoopShell, Goto, Shell
      <4>3. QED
        BY <1>3, <2>4, <4>2 DEF OnTheWay, MakeDirs, EnterLoop, Goto
    <3>2. stateDir = {}
      BY <3>1 DEF Setup, Asked, Fresh
    <3>3. At = 0 /\ At' = 1 /\ Points = {} /\ Points' = {}
      BY <2>1, <2>2, <2>4, <3>2 DEF At, Points
    <3>4. QED
      BY <3>3 DEF Abstract, CP!CPNext, CP!Begin, At, Points
  <2>5. QED
    BY <2>3, <2>4
<1>4. QED
  BY <1>1, <1>2, <1>3 DEF Prepare

LEMMA RemoveAbstract == IInv /\ Remove => Abstract
<1> SUFFICES ASSUME IInv, Remove PROVE Abstract
  OBVIOUS
<1>1. /\ busy \in torn /\ busy \in Steps /\ UNCHANGED <<sh, step, taint>>
      /\ pc \in {"purge", "wipe_state"}
      /\ pc' = pc \/ (pc = "purge" /\ pc' = "mkstate")
  BY DEF Remove, RemoveFile, RemoveStateDir, Goto, IInv, Parts, Removing, TypeOK,
         ObservedTypeOK, proc, ghost
<1>2. At' = At
  BY <1>1 DEF At, OnTheWay
<1>3. Points' = Points
  <2>1. CASE RemoveFile
    <3>1. UNCHANGED <<stateDir, torn, junk>> /\ \A k \in Steps \ {busy} : file'[k] = file[k]
      BY <2>1 DEF RemoveFile, ghost, IInv, TypeOK, DiskTypeOK, StateTable
    <3>2. stateDir \subseteq Steps
      BY DEF IInv, TypeOK, DiskTypeOK
    <3>3. QED
      BY <1>1, <3>1, <3>2 DEF Points
  <2>2. CASE RemoveStateDir
    BY <1>1, <2>2 DEF RemoveStateDir, Points
  <2>3. QED
    BY <2>1, <2>2 DEF Remove
<1>4. QED
  BY <1>2, <1>3, DroppedAbstract DEF Kept

LEMMA LoopAbstract == IInv /\ Loop => Abstract
<1> SUFFICES ASSUME IInv, Loop PROVE Abstract
  OBVIOUS
<1>1. pc = "loop" /\ UNCHANGED <<sh, stateDir, file, junk, taint>> /\ torn \subseteq torn'
  BY DEF Loop, SkipStep, RestartHere, EnterStep, LoopEnds, BeginRemoval, disk, ghost
<1>2. Points' \subseteq Points
  BY <1>1 DEF Points
<1>3. At' = At
  <2>1. CASE SkipStep \/ RestartHere \/ LoopEnds
    BY <1>1, <2>1 DEF SkipStep, RestartHere, LoopEnds, Goto, At, OnTheWay
  <2>2. CASE EnterStep
    BY <1>1, <2>2 DEF EnterStep, Listed, Goto, At, OnTheWay
  <2>3. QED
    BY <2>1, <2>2 DEF Loop
<1>4. QED
  BY <1>2, <1>3, DroppedAbstract DEF Dropped

LEMMA SaveAbstract == IInv /\ Save => Abstract
<1> SUFFICES ASSUME IInv, Save PROVE Abstract
  OBVIOUS
<1>0. step \in Steps /\ n \in 0..(M + 1) /\ stateDir \subseteq Steps /\ file \in StateTable
  BY DEF Save, MakeStateDir, BeginFile, EndFile, SaveFails, StopHere, BeginStep,
         IInv, TypeOK, DiskTypeOK, ProcTypeOK, InStep
<1>1. CASE SaveFails \/ StopHere
  BY <1>1, ExitAbstract DEF SaveFails, StopHere, disk
<1>2. ASSUME MakeStateDir \/ BeginFile \/ EndFile \/ BeginStep
      PROVE  At' = At /\ (At = step \/ taint)
  <2>1. /\ pc \in {"mkstate", "save", "saved"} /\ pc' \in {"save", "saved", "run"}
        /\ UNCHANGED <<sh, step, taint>>
    BY <1>2 DEF MakeStateDir, BeginFile, EndFile, BeginStep, Goto, proc, ghost
  <2>2. QED
    BY <2>1 DEF At, OnTheWay
<1>3. CASE MakeStateDir
  <2>1. /\ pc = "mkstate" /\ UNCHANGED <<file, torn>> /\ stateDir' = stateDir \cup {step}
        /\ junk' \in {junk, junk \cup {step}}
    BY <1>3 DEF MakeStateDir
  <2>2. step \notin stateDir /\ file[step]["log"] = "absent"
    BY <1>0, <2>1 DEF IInv, Parts, Saving, Removing, NoFiles, Files
  <2>3. Points' = Points
    BY <2>1, <2>2 DEF Points
  <2>4. QED
    BY <1>2, <1>3, <2>3, DroppedAbstract DEF Kept
<1>4. CASE BeginFile
  <2>1. /\ pc = "save" /\ UNCHANGED <<stateDir, torn, junk, taint>>
        /\ file' = [file EXCEPT ![step][FileAt(n)] = "partial"]
        /\ FileAt(n) \in Files
    BY <1>0, <1>4, SaveOrderFacts DEF BeginFile, proc, ghost
  <2>2. /\ step \in stateDir \ torn
        /\ taint => step \in junk
    BY <2>1 DEF IInv, Parts, Saving
  <2>3. \A k \in Steps : file'[k]["log"] = IF k = step /\ FileAt(n) = "log" THEN "partial"
                                           ELSE file[k]["log"]
    BY <1>0, <2>1 DEF StateTable, Files
  <2>4. CASE FileAt(n) = "log" /\ step \notin junk
    <3>1. Points' = Points \cup {step}
      BY <1>0, <2>1, <2>2, <2>3, <2>4 DEF Points
    <3>2. At = step /\ At' = At
      BY <1>2, <1>4, <2>2, <2>4
    <3>3. QED
      BY <1>0, <3>1, <3>2 DEF Abstract, CP!CPNext, CP!Keep, At, Points, Steps
  <2>5. CASE FileAt(n) # "log" \/ step \in junk
    <3>1. Points' = Points
      BY <1>0, <2>1, <2>3, <2>5 DEF Points
    <3>2. QED
      BY <1>2, <1>4, <3>1, DroppedAbstract DEF Kept
  <2>6. QED
    BY <2>4, <2>5
<1>5. CASE EndFile
  <2>1. /\ UNCHANGED <<stateDir, torn, junk>> /\ FileAt(n) \in Files
        /\ file[step][FileAt(n)] = "partial"
        /\ file' = [file EXCEPT ![step][FileAt(n)] = "whole"]
    BY <1>0, <1>5, SaveOrderFacts DEF EndFile, ghost
  <2>2. \A k \in Steps : file'[k]["log"] # "absent" <=> file[k]["log"] # "absent"
    BY <1>0, <2>1 DEF StateTable, Files
  <2>3. Points' = Points
    BY <1>0, <2>1, <2>2 DEF Points
  <2>4. QED
    BY <1>2, <1>5, <2>3, DroppedAbstract DEF Kept
<1>6. CASE BeginStep
  <2>1. Points' = Points
    BY <1>6 DEF BeginStep, Points, disk, ghost
  <2>2. QED
    BY <1>2, <1>6, <2>1, DroppedAbstract DEF Kept
<1>7. QED
  BY <1>1, <1>3, <1>4, <1>5, <1>6 DEF Save

LEMMA LoadAbstract == IInv /\ Load => Abstract
<1> SUFFICES ASSUME IInv, Load PROVE Abstract
  OBVIOUS
<1>1. CASE RefuseLoad \/ TarFails \/ LoadFails
  BY <1>1, ExitAbstract DEF RefuseLoad, TarFails, LoadFails, disk
<1>2. CASE BeginLoad \/ LoadDir \/ DirsLoaded \/ LoadEnv
  <2>1. /\ pc \in {"load", "load_dirs", "load_env"}
        /\ pc' \in {"load_dirs", "load_env", "load_log"}
        /\ UNCHANGED <<stateDir, file, torn, junk>>
    BY <1>2 DEF BeginLoad, LoadDir, DirsLoaded, LoadEnv, Goto, disk, ghost
  <2>2. At = 0 /\ At' = 0 /\ Points' = Points
    BY <2>1 DEF At, OnTheWay, Points
  <2>3. QED
    BY <2>2, DroppedAbstract DEF Kept
<1>3. CASE LoadLog
  <2>1. /\ pc = "load_log" /\ pc' = "run" /\ file[step]["log"] # "absent"
        /\ UNCHANGED <<stateDir, file, torn, junk, taint, step>>
    BY <1>3 DEF LoadLog, HasLog, Goto, ghost
  <2>2. At = 0 /\ Points' = Points /\ At' = (IF taint THEN 0 ELSE step)
    BY <2>1 DEF At, OnTheWay, Points
  <2>3. CASE taint
    BY <2>2, <2>3, DroppedAbstract DEF Kept
  <2>4. CASE ~taint
    <3>1. step \in Points
      BY <2>1, <2>4 DEF IInv, Parts, Loading, Trusted, Points
    <3>2. QED
      BY <2>2, <2>4, <3>1 DEF Abstract, CP!CPNext, CP!Resume, At, Points
  <2>5. QED
    BY <2>3, <2>4
<1>4. QED
  BY <1>1, <1>2, <1>3 DEF Load

LEMMA RunAbstract == IInv /\ Asked /\ Run => Abstract
<1> SUFFICES ASSUME IInv, Asked, Run PROVE Abstract
  OBVIOUS
<1>1. CASE StepFails \/ InputMissing \/ Finish
  BY <1>1, ExitAbstract DEF StepFails, InputMissing, Finish, disk
<1>2. CASE Install
  <2>1. UNCHANGED <<pc, sh, step, taint, stateDir, file, torn, junk>>
    BY <1>2 DEF Install, ghost
  <2>2. At' = At /\ Points' = Points
    BY <2>1 DEF At, OnTheWay, Points
  <2>3. QED
    BY <2>2, DroppedAbstract DEF Kept
<1>3. CASE StepDone
  <2>1. /\ pc = "run" /\ pc' = "loop" /\ step' = step + 1
        /\ UNCHANGED <<taint, stateDir, file, torn, junk>>
        /\ sh' = [sh EXCEPT !.do_stop = (sh.do_stop \/ sh.STOP = step)]
    BY <1>3 DEF StepDone, disk, Goto
  <2>2. step \in Steps /\ sh \in Shell /\ sh.do_it
    BY <2>1 DEF IInv, TypeOK, ProcTypeOK, InStep, Asked, Stretch
  <2>3. sh'.do_it
    BY <2>1, <2>2 DEF Shell
  <2>4. Points' = Points
    BY <2>1 DEF Points
  <2>5. CASE taint \/ step + 1 \notin Steps
    <3>1. At' = 0
      BY <2>1, <2>5 DEF At, OnTheWay
    <3>2. QED
      BY <2>4, <3>1, DroppedAbstract DEF Left
  <2>6. CASE ~taint /\ step + 1 \in Steps
    <3>1. At = step /\ At' = step + 1
      BY <2>1, <2>3, <2>6 DEF At, OnTheWay
    <3>2. QED
      BY <2>2, <2>4, <3>1 DEF Abstract, CP!CPNext, CP!Advance, At, Points, Steps
  <2>7. QED
    BY <2>5, <2>6
<1>4. QED
  BY <1>1, <1>2, <1>3 DEF Run

\* The driver implements Checkpoints, where only states that were saved to the end by a
\* driver that knew what it had are checkpoints: through any failures and kills a build
\* begins at step 1 with no checkpoints or at one of those kept, and goes on in order.
THEOREM KeepsCheckpointsCorrect == Spec => KeepsCheckpoints
<1>1. IInv /\ Asked /\ [Next]_vars => [CP!CPNext]_(CP!cpVars)
  <2> SUFFICES ASSUME IInv, Asked, [Next]_vars PROVE [CP!CPNext]_(CP!cpVars)
    OBVIOUS
  <2>1. CASE Next
    <3>1. Crash => Abstract
      BY ExitAbstract DEF Crash, disk
    <3>2. Abstract
      BY <2>1, <3>1, PrepareAbstract, RemoveAbstract, LoopAbstract, SaveAbstract,
         LoadAbstract, RunAbstract DEF Next, Driver
    <3>3. QED
      BY <3>2 DEF Abstract, Kept, CP!cpVars, At, Points
  <2>2. CASE UNCHANGED vars
    BY <2>2 DEF vars, disk, proc, ghost, CP!cpVars, OnTheWay
  <2>3. QED
    BY <2>1, <2>2
<1>2. QED
  BY <1>1, InitAbstract, AskedInvariant, PTL DEF Spec, KeepsCheckpoints, CP!CPSpec
=============================================================================
