------------------------------ MODULE EglibcGet ------------------------------
(***************************************************************************)
(* Retrieving eglibc: do_libc_get of scripts/build/libc/eglibc.sh.  One    *)
(* Subversion tree makes several tarballs, which are wanted all together,  *)
(* and linked, moved and saved one after the other.                        *)
(***************************************************************************)
EXTENDS Integers

CONSTANTS
    NFiles,     \* how many tarballs
    Saves,      \* CT_SAVE_TARBALLS
    MaxFaults   \* bound on failures and kills

ASSUME EglibcAssumption ==
    NFiles \in Nat \ {0} /\ Saves \in BOOLEAN /\ MaxFaults \in Nat

File == 1..NFiles

VARIABLES
    tarball,  \* tarball[n]: what is in CT_TARBALLS_DIR
    local,    \* the ones in CT_LOCAL_TARBALLS_DIR
    pc,       \* where the build is
    at,       \* the tarball a loop is at
    force,    \* CT_FORCE_DOWNLOAD
    faults    \* failures and kills so far

vars == <<tarball, local, pc, at, force, faults>>

TypeOK ==
    /\ tarball \in [File -> {"none", "whole", "link"}]
    /\ local \in SUBSET File
    /\ pc \in {"idle", "wipe", "check", "ln", "svn", "mv", "mvlocal", "lnsave", "done"}
    /\ at \in File
    /\ force \in BOOLEAN
    /\ faults \in 0..MaxFaults

Init ==
    /\ tarball = [n \in File |-> "none"]
    /\ local = {}
    /\ pc = "idle"
    /\ at = 1
    /\ force = FALSE
    /\ faults = 0

Exists(n) == tarball[n] = "whole" \/ (tarball[n] = "link" /\ n \in local)

Goto(l)    == pc' = l /\ at' = 1
Abort      == Goto("idle")

\* One round of a loop that is at l, followed by then.
Rounds == at < NFiles
Round(l, then) ==
    IF Rounds THEN pc' = l /\ at' = at + 1 ELSE Goto(then)
Fault      == faults < MaxFaults /\ faults' = faults + 1
SetTarball(c) == tarball' = [tarball EXCEPT ![at] = c]

-----------------------------------------------------------------------------

Start ==
    /\ pc \in {"idle", "done"}
    /\ \E f \in BOOLEAN : force' = f /\ Goto(IF f THEN "wipe" ELSE "check")
    /\ UNCHANGED <<tarball, local, faults>>

Crash ==
    /\ pc \notin {"idle", "done"}
    /\ Fault
    /\ Abort
    /\ UNCHANGED <<tarball, local, force>>

\* rm -rf of CT_TARBALLS_DIR
WipeFile ==
    /\ pc = "wipe"
    /\ \E n \in File : tarball[n] # "none" /\ tarball' = [tarball EXCEPT ![n] = "none"]
    /\ UNCHANGED <<local, pc, at, force, faults>>

Wiped ==
    /\ pc = "wipe"
    /\ \A n \in File : tarball[n] = "none"
    /\ Goto("check")
    /\ UNCHANGED <<tarball, local, force, faults>>

\* "Check if every tarballs are already present"
\* (Wrong variant: the first one stands for all.)
HaveFirst == Exists(1)
HaveAll   == \A n \in File : Exists(n)
\* (Wrong variant: some of them in the local storage are enough.)
AnyLocal  == local # {}
AllLocal  == local = File

AlreadyHave ==
    /\ pc = "check"
    /\ HaveAll
    /\ Goto("done")
    /\ UNCHANGED <<tarball, local, force, faults>>

GotFromLocal ==
    /\ pc = "check"
    /\ ~HaveAll
    /\ AllLocal /\ ~force
    /\ Goto("ln")
    /\ UNCHANGED <<tarball, local, force, faults>>

NotInLocal ==
    /\ pc = "check"
    /\ ~HaveAll
    /\ ~AllLocal \/ force
    /\ Goto("svn")
    /\ UNCHANGED <<tarball, local, force, faults>>

LinkToLocal ==
    /\ pc = "ln"
    /\ tarball[at] = "none"
    /\ SetTarball("link")
    /\ Round("ln", "done")
    /\ UNCHANGED <<local, force, faults>>

\* ln -s fails when something is there, and the trap ends the build.
CannotLink ==
    /\ pc = "ln"
    /\ tarball[at] # "none"
    /\ Abort
    /\ UNCHANGED <<tarball, local, force, faults>>

\* svn and tar, in a temporary directory that the next build eradicates.
Export ==
    /\ pc = "svn"
    /\ Goto("mv")
    /\ UNCHANGED <<tarball, local, force, faults>>

ExportFails ==
    /\ pc = "svn"
    /\ Fault
    /\ Abort
    /\ UNCHANGED <<tarball, local, force>>

MoveToName ==
    /\ pc = "mv"
    /\ SetTarball("whole")
    /\ Round("mv", IF Saves THEN "mvlocal" ELSE "done")
    /\ UNCHANGED <<local, force, faults>>

MoveToLocal ==
    /\ pc = "mvlocal"
    /\ SetTarball("none")
    /\ local' = local \cup {at}
    /\ pc' = "lnsave"
    /\ UNCHANGED <<at, force, faults>>

LinkToSaved ==
    /\ pc = "lnsave"
    /\ SetTarball("link")
    /\ Round("mvlocal", "done")
    /\ UNCHANGED <<local, force, faults>>

Shell == WipeFile \/ Wiped \/ AlreadyHave \/ GotFromLocal \/ NotInLocal \/ LinkToLocal
         \/ CannotLink \/ Export \/ ExportFails \/ MoveToName \/ MoveToLocal \/ LinkToSaved

Next == Start \/ Crash \/ Shell

Spec == Init /\ [][Next]_vars

\* The shell goes on, and the user builds again.
FairSpec == Spec /\ WF_vars(Shell) /\ WF_vars(Start)

-----------------------------------------------------------------------------
(* Properties *)

\* A retrieval that ends without an error has all the tarballs, never some of them.
Retrieved == pc = "done" => \A n \in File : Exists(n)

\* A build that is begun again after a kill gets all of them in the end, but in one
\* case: all of them are in the local storage, and only some are linked to.  Then every
\* ln -s of the first one linked to fails, and CT_FORCE_DOWNLOAD is the way out.
HalfLinked == local = File /\ ~HaveAll /\ \E n \in File : tarball[n] # "none"
Recovers   == []<>(pc = "done" \/ HalfLinked)
=============================================================================
