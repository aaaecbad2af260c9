------------------------------ MODULE Download ------------------------------
(***************************************************************************)
(* Retrieving the tarballs: CT_GetFile, CT_DoGetFile, CT_GetCVS,           *)
(* CT_GetLocal and CT_SaveLocal of scripts/functions, and                  *)
(* CT_FORCE_DOWNLOAD and CT_FORBID_DOWNLOAD of scripts/crosstool-NG.sh.    *)
(* Builds that each have their CT_TARBALLS_DIR share the local storage,    *)
(* CT_LOCAL_TARBALLS_DIR; both survive invocations that fail or are killed.*)
(*                                                                         *)
(* Of the URLs and extensions tried in turn only the one that has the file *)
(* is modelled (the others leave nothing), and not the second name         *)
(* CT_GetFile tries, under which the file stays for a moment.              *)
(***************************************************************************)
EXTENDS Integers, Sequences, FiniteSets

CONSTANTS
    Builds,      \* the builds that run at the same time
    Files,       \* the tarballs
    Plan,        \* the order the do_<package>_get get them in
    FromCVS,     \* the ones got by CT_GetCVS
    ActiveOnly,  \* the ones on an FTP server without the passive mode
    Options,     \* the configurations the user may choose
    SameFS,      \* CT_TARBALLS_DIR and CT_LOCAL_TARBALLS_DIR are on one file system
    Cleanable,   \* the ones the user may remove from the local storage
    MaxFaults    \* bound on failures, kills and such removals

ASSUME DownloadAssumption ==
    /\ Plan \in Seq(Files) /\ Plan # <<>>
    /\ FromCVS \subseteq Files
    /\ FromCVS = {} \/ (IsFiniteSet(Builds) /\ Cardinality(Builds) = 1)
    /\ ActiveOnly \subseteq Files
    /\ Options \subseteq [force : BOOLEAN, forbid : BOOLEAN, save : BOOLEAN]
    /\ SameFS \in BOOLEAN /\ Cleanable \subseteq Files
    /\ MaxFaults \in Nat

VARIABLES
    tarball,  \* tarball[b][f]: what f is in the CT_TARBALLS_DIR of b
    local,    \* local[f]: what f is in CT_LOCAL_TARBALLS_DIR
    tmp,      \* tmp[b]: the <file>.tmp-dl that b downloads into
    pc,       \* where b is
    at,       \* which file of Plan it is at
    opt,      \* the configuration b runs with
    faults    \* failures, kills and removals so far

files == <<tarball, local, tmp>>
vars  == <<files, pc, at, opt, faults>>

\* A link is one to the file of that name in CT_LOCAL_TARBALLS_DIR.
Contents == {"none", "part", "whole", "link"}
PCs == {"idle", "wipe", "get", "look", "ln", "fetch", "passive", "transfer", "active",
        "mv", "tar", "tarring", "save", "mvlocal", "copy", "copyaway", "lnsave", "done"}

TypeOK ==
    /\ tarball \in [Builds -> [Files -> Contents]]
    /\ local \in [Files -> Contents]
    /\ tmp \in [Builds -> {"none", "part", "whole"}]
    /\ pc \in [Builds -> PCs]
    /\ at \in [Builds -> 1..Len(Plan)]
    /\ opt \in [Builds -> Options]
    /\ faults \in 0..MaxFaults

\* What is read through the link, if it is one.
Read(b, f) == IF tarball[b][f] # "link" THEN tarball[b][f]
              ELSE IF local[f] = "link" THEN "none" ELSE local[f]

\* (Wrong variant: a link that leads nowhere is enough.)
ExistsOrLink(b, f) == tarball[b][f] # "none"
Exists(b, f) == Read(b, f) # "none"
Readable(f)  == local[f] \in {"part", "whole"}

File(b) == Plan[at[b]]

Init ==
    /\ tarball = [b \in Builds |-> [f \in Files |-> "none"]]
    /\ local = [f \in Files |-> "none"]
    /\ tmp = [b \in Builds |-> "none"]
    /\ pc = [b \in Builds |-> "idle"]
    /\ at = [b \in Builds |-> 1]
    /\ opt \in [Builds -> Options]
    /\ faults = 0

Goto(b, l) == pc' = [pc EXCEPT ![b] = l] /\ UNCHANGED at

More(b) == at[b] < Len(Plan)
NextFile(b) ==
    /\ pc' = [pc EXCEPT ![b] = IF More(b) THEN "get" ELSE "done"]
    /\ at' = [at EXCEPT ![b] = IF More(b) THEN @ + 1 ELSE 1]
Abort(b) ==
    /\ pc' = [pc EXCEPT ![b] = "idle"]
    /\ at' = [at EXCEPT ![b] = 1]
Fault == faults < MaxFaults /\ faults' = faults + 1

SetTarball(b, c) == tarball' = [tarball EXCEPT ![b][File(b)] = c]
SetLocal(b, c)   == local' = [local EXCEPT ![File(b)] = c]
SetTmp(b, c)     == tmp' = [tmp EXCEPT ![b] = c]

-----------------------------------------------------------------------------
(* The user *)

\* ct-ng build.  With CT_FORBID_DOWNLOAD nothing is retrieved.
Start(b) ==
    /\ pc[b] \in {"idle", "done"}
    /\ \E o \in Options :
          /\ opt' = [opt EXCEPT ![b] = o]
          /\ Goto(b, IF o.forbid THEN "done" ELSE IF o.force THEN "wipe" ELSE "get")
    /\ UNCHANGED <<files, faults>>

Crash(b) ==
    /\ pc[b] \notin {"idle", "done"}
    /\ Fault
    /\ Abort(b)
    /\ UNCHANGED <<files, opt>>

\* The user cleans the local storage, while nothing is being built.
Clean(f) ==
    /\ f \in Cleanable
    /\ \A b \in Builds : pc[b] \in {"idle", "done"}
    /\ local[f] # "none"
    /\ Fault
    /\ local' = [local EXCEPT ![f] = "none"]
    /\ UNCHANGED <<tarball, tmp, pc, at, opt>>

-----------------------------------------------------------------------------
(* CT_FORCE_DOWNLOAD: rm -rf of CT_TARBALLS_DIR, links and not what they lead to *)

WipeFile(b) ==
    /\ pc[b] = "wipe"
    /\ \E f \in Files :
          /\ tarball[b][f] # "none"
          /\ tarball' = [tarball EXCEPT ![b][f] = "none"]
    /\ UNCHANGED <<local, tmp, pc, at, opt, faults>>

Wiped(b) ==
    /\ pc[b] = "wipe"
    /\ \A f \in Files : tarball[b][f] = "none"
    /\ SetTmp(b, "none")
    /\ Goto(b, "get")
    /\ UNCHANGED <<tarball, local, opt, faults>>

-----------------------------------------------------------------------------
(* CT_GetLocal *)

AlreadyHave(b) ==
    /\ pc[b] = "get"
    /\ Exists(b, File(b))
    /\ NextFile(b)
    /\ UNCHANGED <<files, opt, faults>>

HaveNot(b) ==
    /\ pc[b] = "get"
    /\ ~Exists(b, File(b))
    /\ Goto(b, "look")
    /\ UNCHANGED <<files, opt, faults>>

GotFromLocal(b) ==
    /\ pc[b] = "look"
    /\ Readable(File(b)) /\ ~opt[b].force
    /\ Goto(b, "ln")
    /\ UNCHANGED <<files, opt, faults>>

NotInLocal(b) ==
    /\ pc[b] = "look"
    /\ ~Readable(File(b)) \/ opt[b].force
    /\ Goto(b, IF File(b) \in FromCVS THEN "tar" ELSE "fetch")
    /\ UNCHANGED <<files, opt, faults>>

\* (Wrong variant: the link is saved like a file that has been downloaded.)
SavesLink(b) == Goto(b, "save")
AfterLink(b) == NextFile(b)

\* ln -s.  It does nothing when there is a link already, and its failure goes
\* unnoticed: CT_GetLocal is called in a list of && and ||, where the trap is off.
LinkToLocal(b) ==
    /\ pc[b] = "ln"
    /\ SetTarball(b, IF tarball[b][File(b)] = "none" THEN "link" ELSE tarball[b][File(b)])
    /\ AfterLink(b)
    /\ UNCHANGED <<local, tmp, opt, faults>>

-----------------------------------------------------------------------------
(* CT_DoGetFile *)

RemoveLeftOver(b) ==
    /\ pc[b] = "fetch"
    /\ SetTmp(b, "none")
    /\ Goto(b, "passive")
    /\ UNCHANGED <<tarball, local, opt, faults>>

\* wget -nc -O <file> does nothing but fail when the file exists; it creates it
\* before it connects.
Refused(b) == tmp[b] # "none"

FirstTry(b) ==
    /\ pc[b] = "passive"
    /\ IF Refused(b) THEN Goto(b, "active") /\ UNCHANGED tmp
                     ELSE Goto(b, "transfer") /\ SetTmp(b, "part")
    /\ UNCHANGED <<tarball, local, opt, faults>>

Transferred(b) ==
    /\ pc[b] = "transfer"
    /\ File(b) \notin ActiveOnly
    /\ SetTmp(b, "whole")
    /\ Goto(b, "mv")
    /\ UNCHANGED <<tarball, local, opt, faults>>

\* (Wrong variant: what has been transferred is kept.)
KeepsPart(b)     == "mv"
AfterFirstTry(b)  == "active"

\* Without the passive mode, or cut.
TransferFails(b) ==
    /\ pc[b] = "transfer"
    /\ IF File(b) \in ActiveOnly THEN UNCHANGED faults ELSE Fault
    /\ Goto(b, AfterFirstTry(b))
    /\ UNCHANGED <<files, opt>>

\* "retry without": then CT_GetFile has no other URL and aborts.
SecondTry(b) ==
    /\ pc[b] = "active"
    /\ IF Refused(b) THEN SetTmp(b, "none") /\ Abort(b)
                     ELSE SetTmp(b, "whole") /\ Goto(b, "mv")
    /\ UNCHANGED <<tarball, local, opt, faults>>

\* mv to the final name, over a link that leads nowhere if there is one.
MoveToName(b) ==
    /\ pc[b] = "mv"
    /\ SetTarball(b, tmp[b])
    /\ SetTmp(b, "none")
    /\ Goto(b, "save")
    /\ UNCHANGED <<local, opt, faults>>

-----------------------------------------------------------------------------
(* CT_GetCVS: tar writes to the final name, or through the link of that name *)

ThroughLink(b) == tarball[b][File(b)] = "link"
LinkLoops(b)   == ThroughLink(b) /\ local[File(b)] = "link"

BeginTar(b) ==
    /\ pc[b] = "tar"
    /\ IF LinkLoops(b) THEN Abort(b) ELSE Goto(b, "tarring")
    /\ IF ThroughLink(b)
       THEN SetLocal(b, IF LinkLoops(b) THEN "link" ELSE "part") /\ UNCHANGED tarball
       ELSE SetTarball(b, "part") /\ UNCHANGED local
    /\ UNCHANGED <<tmp, opt, faults>>

TarFails(b) ==
    /\ pc[b] = "tarring"
    /\ Fault
    /\ Abort(b)
    /\ UNCHANGED <<files, opt>>

EndTar(b) ==
    /\ pc[b] = "tarring"
    /\ IF ThroughLink(b)
       THEN SetLocal(b, "whole") /\ UNCHANGED tarball
       ELSE SetTarball(b, "whole") /\ UNCHANGED local
    /\ Goto(b, "save")
    /\ UNCHANGED <<tmp, opt, faults>>

-----------------------------------------------------------------------------
(* CT_SaveLocal *)

SaveNot(b) ==
    /\ pc[b] = "save"
    /\ ~opt[b].save
    /\ NextFile(b)
    /\ UNCHANGED <<files, opt, faults>>

\* Another build that was copying to the name b removes or replaces goes on writing to a
\* file that has no name any more.
Overtake(b, l) ==
    /\ pc' = [c \in Builds |->
                IF c = b THEN l
                ELSE IF pc[c] = "copy" /\ File(c) = File(b) THEN "copyaway" ELSE pc[c]]
    /\ UNCHANGED at

RemoveFromLocal(b) ==
    /\ pc[b] = "save"
    /\ opt[b].save
    /\ SetLocal(b, "none")
    /\ Overtake(b, "mvlocal")
    /\ UNCHANGED <<tarball, tmp, opt, faults>>

\* mv -f: the link itself, if it is one; a file is copied to another file system.
Renames(b) == SameFS \/ tarball[b][File(b)] = "link"

MoveToLocal(b) ==
    /\ pc[b] = "mvlocal"
    /\ Renames(b)
    /\ SetLocal(b, tarball[b][File(b)])
    /\ SetTarball(b, "none")
    /\ Goto(b, "lnsave")
    /\ UNCHANGED <<tmp, opt, faults>>

BeginCopy(b) ==
    /\ pc[b] = "mvlocal"
    /\ ~Renames(b)
    /\ SetLocal(b, "part")
    /\ Overtake(b, "copy")
    /\ UNCHANGED <<tarball, tmp, opt, faults>>

EndCopy(b) ==
    /\ pc[b] \in {"copy", "copyaway"}
    /\ IF pc[b] = "copy" THEN SetLocal(b, tarball[b][File(b)]) ELSE UNCHANGED local
    /\ SetTarball(b, "none")
    /\ Goto(b, "lnsave")
    /\ UNCHANGED <<tmp, opt, faults>>

LinkToSaved(b) ==
    /\ pc[b] = "lnsave"
    /\ SetTarball(b, "link")
    /\ NextFile(b)
    /\ UNCHANGED <<local, tmp, opt, faults>>

-----------------------------------------------------------------------------

Wipe(b)  == WipeFile(b) \/ Wiped(b)
Local(b) == AlreadyHave(b) \/ HaveNot(b) \/ GotFromLocal(b) \/ NotInLocal(b) \/ LinkToLocal(b)
Fetch(b) == RemoveLeftOver(b) \/ FirstTry(b) \/ Transferred(b) \/ TransferFails(b)
            \/ SecondTry(b) \/ MoveToName(b)
GetCVS(b) == BeginTar(b) \/ TarFails(b) \/ EndTar(b)
Save(b)  == SaveNot(b) \/ RemoveFromLocal(b) \/ MoveToLocal(b) \/ BeginCopy(b) \/ EndCopy(b)
            \/ LinkToSaved(b)
Shell(b) == Wipe(b) \/ Local(b) \/ Fetch(b) \/ GetCVS(b) \/ Save(b)

Next ==
    \/ \E b \in Builds : Start(b) \/ Crash(b) \/ Shell(b)
    \/ \E f \in Files : Clean(f)

Spec == Init /\ [][Next]_vars

\* The shell goes on, servers that answer answer again after a failure, and the user
\* builds again.
FairSpec == Spec /\ \A b \in Builds : WF_vars(Shell(b)) /\ WF_vars(Start(b))

-----------------------------------------------------------------------------
(* Properties *)

\* The tarballs from URLs: see CT_GetCVS for the others.
FromURL == {Plan[j] : j \in 1..Len(Plan)} \ FromCVS
AllRead(b) == \A f \in FromURL : Read(b, f) = "whole"

\* When the retrieval ends without an error every tarball is there and whole: "to
\* pre-retrieve the tarballs before going off-line".
Retrieved ==
    [][\A b \in Builds :
          pc[b] # "done" /\ pc'[b] = "done" /\ ~opt'[b].forbid => AllRead(b)']_vars

\* A copy of a tarball that some build had is not lost by any other step than the
\* removal of CT_TARBALLS_DIR or of the local storage that the user asked for.
HasCopy(f) == local[f] = "whole" \/ \E b \in Builds : tarball[b][f] = "whole"
NeverLost ==
    [][\A f \in Files :
          HasCopy(f) => HasCopy(f)' \/ faults' # faults \/ \E b \in Builds : pc[b] = "wipe"]_vars

\* The local storage holds whole tarballs only: whoever reads it, and whenever.
LocalWhole == \A f \in FromURL : local[f] \in {"none", "whole"}

\* Nothing has failed or been killed, and no build is retrieving any more: each has
\* every tarball, whatever they did to each other's links meanwhile.
AllDone == \A b \in Builds : pc[b] = "done" /\ ~opt[b].forbid
Settled == (faults = 0 /\ AllDone) => \A b \in Builds : AllRead(b)

\* After the last failure or kill, every build that may download gets all it needs in
\* the end.
Recovers == \A b \in Builds : []<>(pc[b] = "done" /\ (opt[b].forbid \/ AllRead(b)))

=============================================================================
