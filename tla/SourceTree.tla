----------------------------- MODULE SourceTree -----------------------------
(***************************************************************************)
(* Extracting and patching the sources: CT_Extract and CT_Patch of         *)
(* scripts/functions, the do_<package>_extract functions that call them,   *)
(* and CT_FORCE_EXTRACT, across invocations that fail or are killed.       *)
(* CT_SRC_DIR survives the invocations; marker files in it tell what was   *)
(* begun and what was completed.  When an invocation finds something begun *)
(* and not completed it stops and tells the user what to remove.           *)
(*                                                                         *)
(* A unit is what one tarball holds.  A unit's tree in a directory is      *)
(* absent, broken, or whole with its first j patches applied.              *)
(***************************************************************************)
EXTENDS Integers, Sequences, FiniteSets

CONSTANTS
    Units,      \* the tarballs
    Places,     \* the directories below CT_SRC_DIR
    Inside,     \* Inside[d]: the directory d is in; "src" is CT_SRC_DIR
    Cwd,        \* Cwd[u]: where the tarball of u is extracted
    Unpacks,    \* Unpacks[u]: the directory its files then are in
    Dir,        \* Dir[u]: the directory they have to be in
    PatchCwd,   \* PatchCwd[u]: where its patches are applied
    EName,      \* EName[u]: the <basename> given to CT_Extract
    PName,      \* PName[u]: the <packagename>-<packageversion> given to CT_Patch
    NPatches,   \* NPatches[u]: how many patches there are
    Plans,      \* what the do_<package>_extract of a configuration do, in order
    MaxFaults,  \* bound on failures and kills
    MayForce    \* whether the user may set CT_FORCE_EXTRACT

Names == {EName[u] : u \in Units} \cup {PName[u] : u \in Units}
Marks == {"extracting", "extracted", "patching", "patched"} \X Names
Ops   == [op : {"extract", "rename", "link", "patch"}, unit : Units]

ASSUME LayoutAssumption ==
    /\ "src" \notin Places
    /\ Inside \in [Places -> Places \cup {"src"}]
    /\ Cwd \in [Units -> Places \cup {"src"}]
    /\ PatchCwd \in [Units -> Places]
    /\ Unpacks \in [Units -> Places]
    /\ Dir \in [Units -> Places]
    /\ NPatches \in [Units -> Nat]
    /\ Plans \subseteq Seq(Ops)
ASSUME BoundAssumption == MaxFaults \in Nat /\ MayForce \in BOOLEAN

VARIABLES
    plan,     \* the one of Plans that is carried out
    dirs,     \* the directories that exist
    tree,     \* tree[d][u]: the tree of u in directory d
    marks,    \* the marker files: <<kind, name>>
    pc,       \* where the running invocation is
    i,        \* the operation of plan it is at
    k,        \* the patches it has applied
    clean,    \* nothing was there before the tarball it is extracting
    advice,   \* what the last invocation told the user to remove
    faults,   \* failures and kills so far
    torn      \* a removal of CT_SRC_DIR was begun and is not finished

source == <<dirs, tree, marks>>
vars   == <<plan, source, pc, i, k, clean, advice, faults, torn>>

Absent   == 0
Broken   == 1
Whole(j) == j + 2

NoAdvice == [dirs |-> {}, marks |-> {}]
PCs == {"idle", "wipe", "next", "tar", "untar", "mark", "unmark", "patch", "markp",
        "unmarkp", "marklink", "done"}

TypeOK ==
    /\ plan \in Plans
    /\ dirs \subseteq Places
    /\ tree \in [Places -> [Units -> Nat]]
    /\ \A d \in Places, u \in Units : tree[d][u] <= Whole(NPatches[u])
    /\ marks \subseteq Marks
    /\ pc \in PCs
    /\ i \in 1..(Len(plan) + 1)
    /\ pc \notin {"idle", "wipe", "next", "done"} => i <= Len(plan)
    /\ k \in Nat
    /\ clean \in BOOLEAN
    /\ advice \in [dirs : SUBSET Places, marks : SUBSET Marks]
    /\ faults \in 0..MaxFaults
    /\ torn \in BOOLEAN

NoTrees == [d \in Places |-> [u \in Units |-> Absent]]

Init ==
    /\ plan \in Plans
    /\ dirs = {}
    /\ tree = NoTrees
    /\ marks = {}
    /\ pc = "idle"
    /\ i = 1
    /\ k = 0
    /\ clean = FALSE
    /\ advice = NoAdvice
    /\ faults = 0
    /\ torn = FALSE

-----------------------------------------------------------------------------
(* The user *)

\* ct-ng build, with or without CT_FORCE_EXTRACT.
Start(force) ==
    /\ pc \in {"idle", "done"}
    /\ i' = 1
    /\ advice' = NoAdvice
    /\ pc' = IF force THEN "wipe" ELSE "next"
    /\ torn' = (torn \/ force)
    /\ UNCHANGED <<source, k, clean, faults>>

\* A directory goes with all that is in it.
Gone(ds) == {d \in dirs : d \in ds \/ Inside[d] \in ds}
Pruned(ds) == [d \in Places |-> IF d \in ds THEN [u \in Units |-> Absent] ELSE tree[d]]

\* "Please remove first: ..."
FollowAdvice ==
    /\ pc = "idle"
    /\ advice # NoAdvice
    /\ dirs' = dirs \ Gone(advice.dirs)
    /\ tree' = Pruned(Gone(advice.dirs))
    /\ marks' = marks \ advice.marks
    /\ advice' = NoAdvice
    /\ UNCHANGED <<pc, i, k, clean, faults, torn>>

\* The invocation ends without having all the sources.
Abort(a) ==
    /\ pc' = "idle"
    /\ i' = 1
    /\ k' = 0
    /\ clean' = FALSE
    /\ advice' = a
    /\ UNCHANGED torn

\* A kill, at any point.
Crash ==
    /\ pc \notin {"idle", "done"}
    /\ faults < MaxFaults
    /\ faults' = faults + 1
    /\ Abort(NoAdvice)
    /\ UNCHANGED source

Fails ==
    /\ faults < MaxFaults
    /\ faults' = faults + 1
    /\ Abort(NoAdvice)

-----------------------------------------------------------------------------
(* CT_FORCE_EXTRACT: rm -rf of CT_SRC_DIR, entry by entry in any order *)

WipeMark ==
    /\ pc = "wipe"
    /\ \E m \in marks : marks' = marks \ {m}
    /\ UNCHANGED <<dirs, tree, pc, i, k, clean, advice, faults, torn>>

BreakDir ==
    /\ pc = "wipe"
    /\ \E d \in dirs :
          /\ \E u \in Units : tree[d][u] > Broken
          /\ tree' = [tree EXCEPT ![d] =
                        [u \in Units |-> IF tree[d][u] = Absent THEN Absent ELSE Broken]]
    /\ UNCHANGED <<dirs, marks, pc, i, k, clean, advice, faults, torn>>

WipeDir ==
    /\ pc = "wipe"
    /\ \E d \in dirs :
          /\ \A u \in Units : tree[d][u] <= Broken
          /\ \A e \in dirs : Inside[e] # d
          /\ dirs' = dirs \ {d}
          /\ tree' = Pruned({d})
    /\ UNCHANGED <<marks, pc, i, k, clean, advice, faults, torn>>

Wiped ==
    /\ pc = "wipe"
    /\ dirs = {} /\ marks = {}
    /\ torn' = FALSE
    /\ pc' = "next"
    /\ UNCHANGED <<source, i, k, clean, advice, faults>>

-----------------------------------------------------------------------------
(* CT_Extract *)

At(op) == pc = "next" /\ i <= Len(plan) /\ plan[i].op = op
U == plan[i].unit
NextOp == pc' = "next" /\ i' = i + 1
Enters(d) == d = "src" \/ d \in dirs

\* (Wrong variant: what was extracted before is extracted again.)
NeverExtracted(u) == FALSE
Extracted(u) == <<"extracted", EName[u]>> \in marks
\* (Wrong variant: a partial extraction is not noticed.)
NeverBegun(u) == FALSE
Extracting(u) == <<"extracting", EName[u]>> \in marks

\* (Wrong variant: the marker stays.)
DirOnlyAdvice(u) == [dirs |-> {Unpacks[u]}, marks |-> {}]
ExtractAdvice(u) == [dirs |-> {Unpacks[u]}, marks |-> {<<"extracting", EName[u]>>}]

SkipExtract ==
    /\ At("extract")
    /\ Extracted(U)
    /\ NextOp
    /\ UNCHANGED <<source, k, clean, advice, faults, torn>>

\* "The sources were partially extracted."
RefuseExtract ==
    /\ At("extract")
    /\ ~Extracted(U) /\ Extracting(U)
    /\ Abort(ExtractAdvice(U))
    /\ UNCHANGED <<source, faults>>

BeginExtract ==
    /\ At("extract")
    /\ ~Extracted(U) /\ ~Extracting(U)
    /\ marks' = marks \cup {<<"extracting", EName[U]>>}
    /\ pc' = "tar"
    /\ UNCHANGED <<dirs, tree, i, k, clean, advice, faults, torn>>

\* CT_Pushd fails: after the marker has been made.
NoCwd ==
    /\ pc = "tar"
    /\ ~Enters(Cwd[U])
    /\ Abort(NoAdvice)
    /\ UNCHANGED <<source, faults>>

BeginTar ==
    /\ pc = "tar"
    /\ Enters(Cwd[U])
    /\ dirs' = dirs \cup {Unpacks[U]}
    /\ tree' = [tree EXCEPT ![Unpacks[U]][U] = Broken]
    /\ clean' = (tree[Unpacks[U]][U] = Absent)
    /\ pc' = "untar"
    /\ UNCHANGED <<marks, i, k, advice, faults, torn>>

TarFails ==
    /\ pc = "untar"
    /\ Fails
    /\ UNCHANGED source

\* What is extracted over something else is not counted on to be exact.
EndTar ==
    /\ pc = "untar"
    /\ tree' = [tree EXCEPT ![Unpacks[U]][U] = IF clean THEN Whole(0) ELSE Broken]
    /\ clean' = FALSE
    /\ pc' = "mark"
    /\ UNCHANGED <<dirs, marks, i, k, advice, faults, torn>>

MarkExtracted ==
    /\ pc = "mark"
    /\ marks' = marks \cup {<<"extracted", EName[U]>>}
    /\ pc' = "unmark"
    /\ UNCHANGED <<dirs, tree, i, k, clean, advice, faults, torn>>

UnmarkExtracting ==
    /\ pc = "unmark"
    /\ marks' = marks \ {<<"extracting", EName[U]>>}
    /\ NextOp
    /\ UNCHANGED <<dirs, tree, k, clean, advice, faults, torn>>

-----------------------------------------------------------------------------
(* CT_Patch *)

Patched(u)  == <<"patched", PName[u]>> \in marks
Patching(u) == <<"patching", PName[u]>> \in marks

PatchAdvice(u) ==
    [dirs |-> {Dir[u]}, marks |-> {<<"extracted", PName[u]>>, <<"patching", PName[u]>>}]

SkipPatch ==
    /\ At("patch")
    /\ Patched(U)
    /\ NextOp
    /\ UNCHANGED <<source, k, clean, advice, faults, torn>>

\* "The sources were partially patched."
RefusePatch ==
    /\ At("patch")
    /\ ~Patched(U) /\ Patching(U)
    /\ Abort(PatchAdvice(U))
    /\ UNCHANGED <<source, faults>>

BeginPatch ==
    /\ At("patch")
    /\ ~Patched(U) /\ ~Patching(U)
    /\ marks' = marks \cup {<<"patching", PName[U]>>}
    /\ k' = 0
    /\ pc' = "patch"
    /\ UNCHANGED <<dirs, tree, i, clean, advice, faults, torn>>

\* (Wrong variant: one patch too many.)
PatchLeftOrOne == k <= NPatches[U]
PatchLeft == k < NPatches[U]

\* CT_Pushd fails, or the next patch does not apply to what is there.
CannotPatch ==
    /\ pc = "patch"
    /\ \/ ~Enters(PatchCwd[U])
       \/ PatchLeft /\ tree[Dir[U]][U] # Whole(k)
    /\ Abort(NoAdvice)
    /\ UNCHANGED <<source, faults>>

\* A patch also applies to a broken tree, if what it changes is not what is broken.
ApplyPatch ==
    /\ pc = "patch"
    /\ Enters(PatchCwd[U])
    /\ PatchLeft
    /\ tree[Dir[U]][U] \in {Whole(k), Broken}
    /\ tree' = [tree EXCEPT ![Dir[U]][U] = IF @ = Broken THEN Broken ELSE Whole(k + 1)]
    /\ k' = k + 1
    /\ UNCHANGED <<dirs, marks, pc, i, clean, advice, faults, torn>>

\* The patch fails, or is killed, half way.
PatchFails ==
    /\ pc = "patch"
    /\ Enters(PatchCwd[U])
    /\ PatchLeft
    /\ Fails
    /\ tree' = [tree EXCEPT ![Dir[U]][U] = IF @ = Absent THEN Absent ELSE Broken]
    /\ UNCHANGED <<dirs, marks>>

PatchesDone ==
    /\ pc = "patch"
    /\ Enters(PatchCwd[U])
    /\ k = NPatches[U]
    /\ k' = 0
    /\ pc' = "markp"
    /\ UNCHANGED <<source, i, clean, advice, faults, torn>>

MarkPatched ==
    /\ pc = "markp"
    /\ marks' = marks \cup {<<"patched", PName[U]>>}
    /\ pc' = "unmarkp"
    /\ UNCHANGED <<dirs, tree, i, k, clean, advice, faults, torn>>

UnmarkPatching ==
    /\ pc = "unmarkp"
    /\ marks' = marks \ {<<"patching", PName[U]>>}
    /\ NextOp
    /\ UNCHANGED <<dirs, tree, k, clean, advice, faults, torn>>

-----------------------------------------------------------------------------
(* What the packages do between the two *)

\* The directory of the tarball is given the package's name, if it is there.  Into an
\* existing directory it is moved as a sub-directory nobody looks at.
Rename ==
    /\ At("rename")
    /\ LET from == Unpacks[U]
           to   == Dir[U]
       IN  IF from \notin dirs THEN UNCHANGED <<dirs, tree>>
           ELSE /\ dirs' = (dirs \ {from}) \cup {to}
                /\ tree' = [tree EXCEPT ![from] = [u \in Units |-> Absent],
                                        ![to] = IF to \in dirs THEN @ ELSE tree[from]]
    /\ NextOp
    /\ UNCHANGED <<marks, k, clean, advice, faults, torn>>

\* uClibc's locales are not extracted: the tarball is linked to, and marked.
SkipLink ==
    /\ At("link")
    /\ Extracted(U)
    /\ NextOp
    /\ UNCHANGED <<source, k, clean, advice, faults, torn>>

BeginLink ==
    /\ At("link")
    /\ ~Extracted(U)
    /\ Enters(Dir[U])
    /\ tree[Dir[U]][U] = Absent
    /\ tree' = [tree EXCEPT ![Dir[U]][U] = Whole(0)]
    /\ pc' = "marklink"
    /\ UNCHANGED <<dirs, marks, i, k, clean, advice, faults, torn>>

\* CT_Pushd fails, or the link exists: ln -s does not replace it.
CannotLink ==
    /\ At("link")
    /\ ~Extracted(U)
    /\ ~Enters(Dir[U]) \/ tree[Dir[U]][U] # Absent
    /\ Abort(NoAdvice)
    /\ UNCHANGED <<source, faults>>

MarkLink ==
    /\ pc = "marklink"
    /\ marks' = marks \cup {<<"extracted", EName[U]>>}
    /\ NextOp
    /\ UNCHANGED <<dirs, tree, k, clean, advice, faults, torn>>

\* The build goes on with the sources.
Done ==
    /\ pc = "next"
    /\ i > Len(plan)
    /\ pc' = "done"
    /\ UNCHANGED <<source, i, k, clean, advice, faults, torn>>

Wipe    == WipeMark \/ BreakDir \/ WipeDir \/ Wiped
Extract == SkipExtract \/ RefuseExtract \/ BeginExtract \/ NoCwd \/ BeginTar \/ TarFails
           \/ EndTar \/ MarkExtracted \/ UnmarkExtracting
Patch   == SkipPatch \/ RefusePatch \/ BeginPatch \/ CannotPatch \/ ApplyPatch
           \/ PatchFails \/ PatchesDone \/ MarkPatched \/ UnmarkPatching
Between == Rename \/ SkipLink \/ BeginLink \/ CannotLink \/ MarkLink
Driver  == Wipe \/ Extract \/ Patch \/ Between \/ Done

Next ==
    /\ UNCHANGED plan
    /\ \/ Start(FALSE)
       \/ MayForce /\ Start(TRUE)
       \/ FollowAdvice
       \/ Crash
       \/ Driver

Spec == Init /\ [][Next]_vars

\* The shell goes on.  An obedient user does what an invocation said, if it said
\* something, before building again, and goes on building until the sources are there.
Same(A)      == A /\ UNCHANGED plan
Retry        == FollowAdvice \/ (advice = NoAdvice /\ Start(FALSE))
ObedientNext == Retry \/ Crash \/ Driver
FairSpec     == Spec /\ WF_vars(Same(Driver)) /\ WF_vars(Same(Retry))

-----------------------------------------------------------------------------
(* Properties *)

\* When the extraction ends without an error, every source is there, whole, and with
\* all its patches applied once and in order: whatever was killed before, and whatever
\* the user removed because CT_Extract or CT_Patch said so.  Excepted are the sources
\* a forced extraction has begun to remove and not finished: their markers are believed.
Sources == {plan[j].unit : j \in 1..Len(plan)}
Exact   == \A u \in Sources : tree[Dir[u]][u] = Whole(NPatches[u])
ExactSources == (pc = "done" /\ ~torn) => Exact

\* Sources once completed are left alone: an invocation that is not forced to extract
\* again touches no tree that has been extracted and patched.
Completed(u) ==
    EName[u] = PName[u] /\ {"extracted", "patched"} \X {EName[u]} \subseteq marks
CompletedKept ==
    [][\A u \in Units : (Completed(u) /\ pc \notin {"wipe", "idle"})
          => tree'[Dir[u]][u] = tree[Dir[u]][u]]_vars

\* Removing what the error message names is enough to go on: when nothing fails any more
\* and from some point on the user is obedient, every build gets past the extraction.
\* Excepted are torn sources again: CT_Extract can then refuse for ever.  So are the two
\* places where an obedient user is stuck: a link to the locales without its marker, which
\* can neither be used nor made again, and sources that are renamed between extraction and
\* patching: CT_Patch has them removed, and its marker, under the new name; the marker
\* that they are extracted has the old one and stays.
LinkLeft(op) ==
    op.op = "link" /\ tree[Dir[op.unit]][op.unit] # Absent /\ ~Extracted(op.unit)
RenamedGone(op) ==
    /\ op.op = "rename"
    /\ Extracted(op.unit)
    /\ \A d \in {Dir[op.unit], Unpacks[op.unit]} : tree[d][op.unit] = Absent
Stuck == \E j \in 1..Len(plan) : LinkLeft(plan[j]) \/ RenamedGone(plan[j])
Recovers == <>[][ObedientNext]_vars => []<>(pc = "done" \/ torn \/ Stuck)

=============================================================================
