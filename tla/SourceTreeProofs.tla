-------------------------- MODULE SourceTreeProofs --------------------------
(***************************************************************************)
(* What gets past the extraction is exact, and left alone once it is       *)
(* complete (ExactSources and CompletedKept of SourceTree): for any number *)
(* of tarballs and patches, failures, kills and forced extractions.        *)
(*                                                                         *)
(* ExactSources speaks of the end of an extraction, while what is there    *)
(* then was extracted and patched by any of the invocations before, and    *)
(* only the marker files say so.  Kept is what the markers say of the      *)
(* trees: it holds unless CT_SRC_DIR is partly removed.  Placed is what    *)
(* the running invocation knows besides.                                   *)
(***************************************************************************)
EXTENDS SourceTree, SequenceTheorems, TLAPS

USE LayoutAssumption, BoundAssumption

-----------------------------------------------------------------------------
(* Types *)

Advice == [dirs : SUBSET Places, marks : SUBSET Marks]

TreeType ==
    /\ tree \in [Places -> [Units -> Nat]]
    /\ \A d \in Places, u \in Units : tree[d][u] <= Whole(NPatches[u])
DiskType == dirs \subseteq Places /\ TreeType /\ marks \subseteq Marks
ProcType ==
    /\ plan \in Plans
    /\ pc \in PCs
    /\ i \in 1..(Len(plan) + 1)
    /\ pc \notin {"idle", "wipe", "next", "done"} => i <= Len(plan)
    /\ k \in Nat
    /\ clean \in BOOLEAN
    /\ advice \in Advice
    /\ faults \in 0..MaxFaults
    /\ torn \in BOOLEAN

LEMMA TypeParts ==
    /\ TypeOK <=> DiskType /\ ProcType
    /\ TypeOK' <=> DiskType' /\ ProcType'
BY DEF TypeOK, DiskType, TreeType, ProcType, Advice

LEMMA PlanOp ==
    ASSUME ProcType, i <= Len(plan)
    PROVE  /\ i \in 1..Len(plan) /\ i + 1 \in 1..(Len(plan) + 1)
           /\ plan[i] \in Ops /\ U \in Units
<1>1. plan \in Seq(Ops) /\ Len(plan) \in Nat
  BY LenProperties DEF ProcType
<1>2. i \in 1..Len(plan) /\ i + 1 \in 1..(Len(plan) + 1)
  BY <1>1 DEF ProcType
<1>3. plan[i] \in Ops
  BY <1>1, <1>2, ElementOfSeq
<1> QED
  BY <1>2, <1>3 DEF Ops, U

LEMMA NameTypes ==
    ASSUME NEW u \in Units, NEW kind \in {"extracting", "extracted", "patching", "patched"}
    PROVE  <<kind, EName[u]>> \in Marks /\ <<kind, PName[u]>> \in Marks
BY DEF Marks, Names

LEMMA AdviceTypes ==
    /\ NoAdvice \in Advice
    /\ \A u \in Units : ExtractAdvice(u) \in Advice /\ PatchAdvice(u) \in Advice
<1>1. ASSUME NEW D \in SUBSET Places, NEW M \in SUBSET Marks
      PROVE  [dirs |-> D, marks |-> M] \in Advice
  BY DEF Advice
<1>2. NoAdvice \in Advice
  BY <1>1 DEF NoAdvice
<1>3. ASSUME NEW u \in Units
      PROVE  ExtractAdvice(u) \in Advice /\ PatchAdvice(u) \in Advice
  <2>1. Unpacks[u] \in Places /\ Dir[u] \in Places
    OBVIOUS
  <2>2. /\ <<"extracting", EName[u]>> \in Marks
        /\ <<"extracted", PName[u]>> \in Marks /\ <<"patching", PName[u]>> \in Marks
    BY NameTypes
  <2>3. \A m1, m2 \in Marks : {m1} \in SUBSET Marks /\ {m1, m2} \in SUBSET Marks
    OBVIOUS
  <2> QED
    BY <1>1, <2>1, <2>2, <2>3 DEF ExtractAdvice, PatchAdvice
<1> QED
  BY <1>2, <1>3

LEMMA TreeSet ==
    ASSUME TreeType, NEW d \in Places, NEW u \in Units, NEW v \in Nat,
           v <= Whole(NPatches[u]), tree' = [tree EXCEPT ![d][u] = v]
    PROVE  TreeType'
BY DEF TreeType, Whole

LEMMA PrunedType == ASSUME TreeType, NEW ds PROVE tree' = Pruned(ds) => TreeType'
BY DEF TreeType, Pruned, Whole, Absent

LEMMA AbortType ==
    ASSUME ProcType, NEW a \in Advice, Abort(a), faults' \in 0..MaxFaults, plan' = plan
    PROVE  ProcType'
<1>1. 1 \in 1..(Len(plan) + 1)
  BY LenProperties DEF ProcType
<1>2. /\ plan' = plan /\ pc' = "idle" /\ i' = 1 /\ k' = 0 /\ clean' = FALSE
      /\ advice' = a /\ torn' = torn
  BY DEF Abort
<1> QED
  BY <1>1, <1>2 DEF ProcType, PCs

LEMMA FailsType == ASSUME ProcType, Fails, plan' = plan PROVE ProcType'
<1>1. faults' \in 0..MaxFaults
  BY DEF ProcType, Fails
<1> QED
  BY <1>1, AbortType, AdviceTypes DEF Fails

LEMMA InitType == Init => TypeOK
<1> SUFFICES ASSUME Init PROVE TypeOK
  OBVIOUS
<1>1. DiskType
  <2>1. TreeType
    BY DEF Init, TreeType, NoTrees, Absent, Whole
  <2> QED
    BY <2>1 DEF Init, DiskType
<1>2. ProcType
  <2>1. plan \in Plans /\ 1 \in 1..(Len(plan) + 1)
    BY LenProperties DEF Init
  <2>2. i \in 1..(Len(plan) + 1) /\ advice \in Advice /\ faults \in 0..MaxFaults
    BY <2>1, AdviceTypes DEF Init
  <2>3. pc = "idle" /\ k \in Nat /\ clean \in BOOLEAN /\ torn \in BOOLEAN
    BY DEF Init
  <2> QED
    BY <2>1, <2>2, <2>3 DEF ProcType, PCs
<1> QED
  BY <1>1, <1>2, TypeParts

LEMMA UserType ==
    ASSUME TypeOK, plan' = plan, Start(FALSE) \/ Start(TRUE) \/ FollowAdvice \/ Crash
    PROVE  TypeOK'
<1> USE TypeParts
<1>0. Len(plan) \in Nat
  BY LenProperties DEF ProcType
<1>1. ASSUME NEW force \in BOOLEAN, Start(force) PROVE TypeOK'
  BY <1>0, <1>1, AdviceTypes DEF Start, DiskType, TreeType, ProcType, source, PCs
<1>2. CASE FollowAdvice
  BY <1>2, PrunedType, AdviceTypes DEF FollowAdvice, DiskType, ProcType
<1>3. CASE Crash
  <2>1. DiskType'
    BY <1>3 DEF Crash, source, DiskType, TreeType
  <2>2. faults' \in 0..MaxFaults
    BY <1>3 DEF Crash, ProcType
  <2> QED
    BY <1>3, <2>1, <2>2, AbortType, AdviceTypes DEF Crash
<1> QED
  BY <1>1, <1>2, <1>3

LEMMA WipeType == ASSUME TypeOK, plan' = plan, Wipe PROVE TypeOK'
<1> USE TypeParts
<1>1. CASE WipeMark
  BY <1>1 DEF WipeMark, DiskType, TreeType, ProcType
<1>2. CASE BreakDir
  <2>1. PICK d \in dirs :
          tree' = [tree EXCEPT ![d] =
                     [u \in Units |-> IF tree[d][u] = Absent THEN Absent ELSE Broken]]
    BY <1>2 DEF BreakDir
  <2>2. TreeType'
    BY <2>1 DEF DiskType, TreeType, Absent, Broken, Whole
  <2> QED
    BY <1>2, <2>2 DEF BreakDir, DiskType, ProcType
<1>3. CASE WipeDir
  BY <1>3, PrunedType DEF WipeDir, DiskType, ProcType
<1>4. CASE Wiped
  BY <1>4 DEF Wiped, source, DiskType, TreeType, ProcType, PCs
<1> QED
  BY <1>1, <1>2, <1>3, <1>4 DEF Wipe

LEMMA ExtractType == ASSUME TypeOK, plan' = plan, Extract PROVE TypeOK'
<1> USE TypeParts
<1>0. /\ i \in 1..Len(plan) /\ i + 1 \in 1..(Len(plan) + 1) /\ U \in Units
      /\ Unpacks[U] \in Places /\ NPatches[U] \in Nat
      /\ \A kind \in {"extracting", "extracted"} : <<kind, EName[U]>> \in Marks
  <2>1. i <= Len(plan)
    BY DEF Extract, SkipExtract, RefuseExtract, BeginExtract, NoCwd, BeginTar, TarFails,
           EndTar, MarkExtracted, UnmarkExtracting, At, ProcType
  <2> QED
    BY <2>1, PlanOp, NameTypes
<1>1. CASE SkipExtract \/ BeginExtract \/ MarkExtracted \/ UnmarkExtracting
  <2>1. DiskType'
    BY <1>0, <1>1 DEF SkipExtract, BeginExtract, MarkExtracted, UnmarkExtracting, source,
           DiskType, TreeType
  <2>2. ProcType'
    BY <1>0, <1>1 DEF SkipExtract, BeginExtract, MarkExtracted, UnmarkExtracting, NextOp,
           ProcType, PCs
  <2> QED
    BY <2>1, <2>2
<1>2. CASE RefuseExtract \/ NoCwd \/ TarFails
  <2>1. DiskType'
    BY <1>2 DEF RefuseExtract, NoCwd, TarFails, source, DiskType, TreeType
  <2>2. CASE RefuseExtract \/ NoCwd
    <3>1. faults' \in 0..MaxFaults /\ (Abort(ExtractAdvice(U)) \/ Abort(NoAdvice))
      BY <2>2 DEF RefuseExtract, NoCwd, ProcType
    <3> QED
      BY <1>0, <2>1, <3>1, AbortType, AdviceTypes
  <2>3. CASE TarFails
    BY <2>1, <2>3, FailsType DEF TarFails
  <2> QED
    BY <1>2, <2>2, <2>3
<1>3. CASE BeginTar \/ EndTar
  <2>1. ASSUME NEW v \in {Broken, Whole(0)}, tree' = [tree EXCEPT ![Unpacks[U]][U] = v]
        PROVE  TreeType'
    <3>1. v \in Nat /\ v <= Whole(NPatches[U])
      BY <1>0 DEF Broken, Whole
    <3> QED
      BY <1>0, <2>1, <3>1, TreeSet DEF DiskType
  <2>2. TreeType'
    BY <1>3, <2>1 DEF BeginTar, EndTar
  <2>3. DiskType'
    BY <1>0, <1>3, <2>2 DEF BeginTar, EndTar, DiskType
  <2>4. ProcType'
    BY <1>0, <1>3 DEF BeginTar, EndTar, ProcType, PCs
  <2> QED
    BY <2>3, <2>4
<1> QED
  BY <1>1, <1>2, <1>3 DEF Extract

LEMMA PatchType == ASSUME TypeOK, plan' = plan, Patch PROVE TypeOK'
<1> USE TypeParts
<1>0. /\ i \in 1..Len(plan) /\ i + 1 \in 1..(Len(plan) + 1) /\ U \in Units
      /\ Dir[U] \in Places /\ NPatches[U] \in Nat
      /\ \A kind \in {"patching", "patched"} : <<kind, PName[U]>> \in Marks
  <2>1. i <= Len(plan)
    BY DEF Patch, SkipPatch, RefusePatch, BeginPatch, CannotPatch, ApplyPatch, PatchFails,
           PatchesDone, MarkPatched, UnmarkPatching, At, ProcType
  <2> QED
    BY <2>1, PlanOp, NameTypes
<1>1. CASE SkipPatch \/ BeginPatch \/ PatchesDone \/ MarkPatched \/ UnmarkPatching
  <2>1. DiskType'
    BY <1>0, <1>1 DEF SkipPatch, BeginPatch, PatchesDone, MarkPatched, UnmarkPatching, source,
           DiskType, TreeType
  <2>2. ProcType'
    BY <1>0, <1>1 DEF SkipPatch, BeginPatch, PatchesDone, MarkPatched, UnmarkPatching, NextOp,
           ProcType, PCs
  <2> QED
    BY <2>1, <2>2
<1>2. CASE RefusePatch \/ CannotPatch
  <2>1. DiskType' /\ faults' \in 0..MaxFaults
    BY <1>2 DEF RefusePatch, CannotPatch, source, DiskType, TreeType, ProcType
  <2>2. Abort(PatchAdvice(U)) \/ Abort(NoAdvice)
    BY <1>2 DEF RefusePatch, CannotPatch
  <2> QED
    BY <1>0, <2>1, <2>2, AbortType, AdviceTypes
<1>3. ASSUME ApplyPatch \/ PatchFails
      PROVE  TreeType'
  <2>1. k \in Nat /\ \A j \in Nat : Whole(j) \in Nat
    BY DEF ProcType, Whole
  <2>2. ASSUME NEW v \in {Absent, Broken, Whole(k + 1)},
               v = Whole(k + 1) => k < NPatches[U],
               tree' = [tree EXCEPT ![Dir[U]][U] = v]
        PROVE  TreeType'
    <3>1. v \in Nat /\ v <= Whole(NPatches[U])
      BY <1>0, <2>1, <2>2 DEF Absent, Broken, Whole
    <3> QED
      BY <1>0, <2>2, <3>1, TreeSet DEF DiskType
  <2>3. CASE ApplyPatch
    <3>1. k < NPatches[U] /\ Whole(k + 1) # Broken
      BY <2>1, <2>3 DEF ApplyPatch, PatchLeft, Whole, Broken
    <3>2. \/ tree' = [tree EXCEPT ![Dir[U]][U] = Broken]
          \/ tree' = [tree EXCEPT ![Dir[U]][U] = Whole(k + 1)]
      BY <1>0, <2>3 DEF ApplyPatch, DiskType, TreeType
    <3> QED
      BY <2>2, <3>1, <3>2
  <2>4. CASE PatchFails
    <3>1. \/ tree' = [tree EXCEPT ![Dir[U]][U] = Absent]
          \/ tree' = [tree EXCEPT ![Dir[U]][U] = Broken]
      BY <1>0, <2>4 DEF PatchFails, DiskType, TreeType
    <3>2. Whole(k + 1) \notin {Absent, Broken}
      BY <2>1 DEF Whole, Absent, Broken
    <3> QED
      BY <2>2, <3>1, <3>2
  <2> QED
    BY <1>3, <2>3, <2>4
<1>4. CASE ApplyPatch
  BY <1>0, <1>3, <1>4 DEF ApplyPatch, DiskType, ProcType, PCs
<1>5. CASE PatchFails
  BY <1>3, <1>5, FailsType DEF PatchFails, DiskType
<1> QED
  BY <1>1, <1>2, <1>4, <1>5 DEF Patch

LEMMA BetweenType == ASSUME TypeOK, plan' = plan, Between PROVE TypeOK'
<1> USE TypeParts
<1>0. /\ i \in 1..Len(plan) /\ i + 1 \in 1..(Len(plan) + 1) /\ U \in Units
      /\ Dir[U] \in Places /\ Unpacks[U] \in Places
      /\ <<"extracted", EName[U]>> \in Marks
  <2>1. i <= Len(plan)
    BY DEF Between, Rename, SkipLink, BeginLink, CannotLink, MarkLink, At, ProcType
  <2> QED
    BY <2>1, PlanOp, NameTypes
<1>1. CASE Rename
  <2>1. dirs' \subseteq Places
    BY <1>0, <1>1 DEF Rename, DiskType
  <2>2. TreeType'
    <3> DEFINE Rows == {row \in [Units -> Nat] : \A u \in Units : row[u] <= Whole(NPatches[u])}
               empty == [u \in Units |-> Absent]
    <3>1. empty \in Rows
      BY DEF Absent, Whole
    <3>2. \A e \in Places : tree[e] \in Rows
      BY DEF DiskType, TreeType
    <3> HIDE DEF Rows, empty
    <3>3. \/ tree' = tree
          \/ \E x, y \in Rows : tree' = [tree EXCEPT ![Unpacks[U]] = x, ![Dir[U]] = y]
      <4>1. CASE Unpacks[U] \notin dirs
        BY <1>1, <4>1 DEF Rename
      <4>2. CASE Unpacks[U] \in dirs /\ Dir[U] \in dirs /\ Dir[U] = Unpacks[U]
        BY <1>0, <1>1, <3>1, <4>2 DEF Rename, empty, DiskType, TreeType
      <4>3. CASE Unpacks[U] \in dirs /\ Dir[U] \in dirs /\ Dir[U] # Unpacks[U]
        BY <1>0, <1>1, <3>1, <3>2, <4>3 DEF Rename, empty, DiskType, TreeType
      <4>4. CASE Unpacks[U] \in dirs /\ Dir[U] \notin dirs
        BY <1>0, <1>1, <3>1, <3>2, <4>4 DEF Rename, empty
      <4> QED
        BY <4>1, <4>2, <4>3, <4>4
    <3>5. tree' \in [Places -> Rows] => TreeType'
      BY DEF Rows, TreeType
    <3>6. tree \in [Places -> Rows]
      BY <3>2 DEF DiskType, TreeType
    <3>7. CASE tree' = tree
      BY <3>5, <3>6, <3>7
    <3>8. ASSUME NEW x \in Rows, NEW y \in Rows,
                 tree' = [tree EXCEPT ![Unpacks[U]] = x, ![Dir[U]] = y]
          PROVE  TreeType'
      <4>1. tree' \in [Places -> Rows]
        BY <1>0, <3>6, <3>8
      <4> QED
        BY <3>5, <4>1
    <3> QED
      BY <3>3, <3>7, <3>8
  <2>3. DiskType' /\ ProcType'
    BY <1>0, <1>1, <2>1, <2>2 DEF Rename, NextOp, DiskType, ProcType, PCs
  <2> QED
    BY <2>3
<1>2. CASE SkipLink \/ MarkLink
  BY <1>0, <1>2 DEF SkipLink, MarkLink, NextOp, source, DiskType, TreeType, ProcType, PCs
<1>3. CASE BeginLink
  <2>1. tree' = [tree EXCEPT ![Dir[U]][U] = Whole(0)] /\ Whole(0) \in Nat
        /\ Whole(0) <= Whole(NPatches[U])
    BY <1>0, <1>3 DEF BeginLink, Whole
  <2>2. TreeType'
    BY <1>0, <2>1, TreeSet DEF DiskType
  <2> QED
    BY <1>0, <1>3, <2>2 DEF BeginLink, DiskType, ProcType, PCs
<1>4. CASE CannotLink
  <2>1. DiskType' /\ faults' \in 0..MaxFaults /\ Abort(NoAdvice)
    BY <1>4 DEF CannotLink, source, DiskType, TreeType, ProcType
  <2> QED
    BY <2>1, AbortType, AdviceTypes
<1> QED
  BY <1>1, <1>2, <1>3, <1>4 DEF Between

LEMMA StepType == TypeOK /\ [Next]_vars => TypeOK'
<1> SUFFICES ASSUME TypeOK, [Next]_vars PROVE TypeOK'
  OBVIOUS
<1>1. CASE Done /\ plan' = plan
  BY <1>1, TypeParts DEF Done, source, DiskType, TreeType, ProcType, PCs
<1>2. CASE UNCHANGED vars
  BY <1>2 DEF vars, source, TypeOK
<1> QED
  BY <1>1, <1>2, UserType, WipeType, ExtractType, PatchType, BetweenType DEF Next, Driver

\* Whatever is extracted, patched, renamed, linked, removed and killed, every variable
\* keeps its type, and an operation that has begun is one of the plan.
THEOREM TypeCorrect == Spec => []TypeOK
BY InitType, StepType, PTL DEF Spec

-----------------------------------------------------------------------------
(* What was completed is left alone *)

\* What is renamed is not what is, under one name, extracted and patched in place.
RenamesApart ==
    \A p \in Plans : \A j \in 1..Len(p) :
        p[j].op = "rename" =>
            \A u \in Units :
                EName[u] = PName[u] => Dir[u] \notin {Unpacks[p[j].unit], Dir[p[j].unit]}

\* What is being extracted has not been extracted; what is being patched, not patched.
Pending ==
    /\ pc \in {"tar", "untar", "mark"} => ~Extracted(U)
    /\ pc \in {"patch", "markp"} => ~Patched(U)

LEMMA PendingStep == ASSUME TypeOK, Pending, [Next]_vars PROVE Pending'
<1>1. CASE UNCHANGED vars
  BY <1>1 DEF vars, source, Pending, Extracted, Patched, U
<1> SUFFICES ASSUME Next PROVE Pending'
  BY <1>1
<1>2. CASE Extract
  BY <1>2 DEF Next, Extract, SkipExtract, RefuseExtract, BeginExtract, NoCwd, BeginTar, TarFails,
         EndTar, MarkExtracted, UnmarkExtracting, NextOp, Abort, Fails, source,
         Pending, Extracted, U
<1>3. CASE Patch
  BY <1>3 DEF Next, Patch, SkipPatch, RefusePatch, BeginPatch, CannotPatch, ApplyPatch, PatchFails,
         PatchesDone, MarkPatched, UnmarkPatching, NextOp, Abort, Fails, source,
         Pending, Patched, U
<1>4. CASE Between
  BY <1>4 DEF Between, Rename, SkipLink, BeginLink, CannotLink, MarkLink, NextOp, Abort, Pending
<1>5. CASE Start(FALSE) \/ Start(TRUE) \/ FollowAdvice \/ Crash \/ Done
  BY <1>5 DEF Start, FollowAdvice, Crash, Abort, Done, Pending
<1>6. CASE Wipe
  BY <1>6 DEF Wipe, WipeMark, BreakDir, WipeDir, Wiped, Pending
<1> QED
  BY <1>2, <1>3, <1>4, <1>5, <1>6 DEF Next, Driver

\* One value of a tree is changed; the others, and the ones in other places, are as before.
LEMMA OneTree ==
    ASSUME TypeOK, NEW d \in Places, NEW u \in Units, NEW x,
           tree' = [tree EXCEPT ![d][u] = x]
    PROVE  /\ tree'[d][u] = x
           /\ \A e \in Places, v \in Units : v # u => tree'[e][v] = tree[e][v]
BY DEF TypeOK

LEMMA CompletedStep ==
    ASSUME RenamesApart, TypeOK, Pending, [Next]_vars,
           NEW u \in Units, Completed(u), pc \notin {"wipe", "idle"}
    PROVE  tree'[Dir[u]][u] = tree[Dir[u]][u]
<1>0. Extracted(u) /\ Patched(u) /\ EName[u] = PName[u]
  BY DEF Completed, Extracted, Patched
<1>1. ASSUME NEW d \in Places, NEW x, U \in Units, U # u, tree' = [tree EXCEPT ![d][U] = x]
      PROVE  tree'[Dir[u]][u] = tree[Dir[u]][u]
  BY <1>1, OneTree
<1>2. ASSUME i <= Len(plan)
      PROVE  U \in Units /\ Unpacks[U] \in Places /\ Dir[U] \in Places
  BY <1>2, PlanOp, TypeParts
<1>3. CASE BeginTar \/ EndTar
  <2>1. i <= Len(plan) /\ ~Extracted(U)
    BY <1>3 DEF BeginTar, EndTar, TypeOK, Pending
  <2>2. U # u
    BY <1>0, <2>1
  <2> QED
    BY <1>1, <1>2, <1>3, <2>1, <2>2 DEF BeginTar, EndTar
<1>4. CASE ApplyPatch \/ PatchFails
  <2>1. i <= Len(plan) /\ ~Patched(U)
    BY <1>4 DEF ApplyPatch, PatchFails, TypeOK, Pending
  <2>2. U # u
    BY <1>0, <2>1
  <2>3. Dir[U] \in Places /\ U \in Units
    BY <1>2, <2>1
  <2>4. \/ tree' = [tree EXCEPT ![Dir[U]][U] = Broken]
        \/ tree' = [tree EXCEPT ![Dir[U]][U] = Whole(k + 1)]
        \/ tree' = [tree EXCEPT ![Dir[U]][U] = Absent]
    BY <1>4, <2>3 DEF ApplyPatch, PatchFails, TypeOK
  <2> QED
    BY <1>1, <2>2, <2>3, <2>4
<1>5. CASE BeginLink
  <2>1. i <= Len(plan) /\ U # u
    BY <1>0, <1>5 DEF BeginLink, At
  <2> QED
    BY <1>1, <1>2, <1>5, <2>1 DEF BeginLink
<1>6. CASE Rename
  <2>1. i <= Len(plan) /\ plan \in Plans /\ plan[i].op = "rename"
    BY <1>6 DEF Rename, At, TypeOK
  <2>2. i \in 1..Len(plan)
    BY <2>1, PlanOp, TypeParts
  <2>3. Dir[u] \notin {Unpacks[U], Dir[U]}
    BY <1>0, <2>1, <2>2 DEF RenamesApart, U
  <2>4. Dir[u] \in Places /\ tree \in [Places -> [Units -> Nat]]
    BY DEF TypeOK
  <2>5. CASE Unpacks[U] \notin dirs
    BY <1>6, <2>5 DEF Rename
  <2>6. CASE Unpacks[U] \in dirs
    <3>1. \E x, y : tree' = [tree EXCEPT ![Unpacks[U]] = x, ![Dir[U]] = y]
      BY <1>6, <2>6 DEF Rename
    <3> QED
      BY <2>3, <2>4, <3>1
  <2> QED
    BY <2>5, <2>6
<1>7. CASE UNCHANGED tree
  BY <1>7
<1>8. CASE Extract
  BY <1>3, <1>7, <1>8 DEF Extract, SkipExtract, RefuseExtract, BeginExtract, NoCwd, TarFails,
         MarkExtracted, UnmarkExtracting, source
<1>9. CASE Patch
  BY <1>4, <1>7, <1>9 DEF Patch, SkipPatch, RefusePatch, BeginPatch, CannotPatch,
         PatchesDone, MarkPatched, UnmarkPatching, source
<1>10. CASE Between
  BY <1>5, <1>6, <1>7, <1>10 DEF Between, SkipLink, CannotLink, MarkLink, source
<1>11. CASE Start(FALSE) \/ Start(TRUE) \/ FollowAdvice \/ Crash \/ Done \/ UNCHANGED vars
  BY <1>7, <1>11 DEF Start, FollowAdvice, Crash, Done, source, vars
<1>12. CASE Wipe
  BY <1>12 DEF Wipe, WipeMark, BreakDir, WipeDir, Wiped
<1> QED
  BY <1>8, <1>9, <1>10, <1>11, <1>12 DEF Next, Driver

\* An invocation that is not forced to extract again touches no tree that has been
\* extracted and patched, whatever else it extracts, patches, links and renames: if no
\* package is renamed from or to where another one is patched in place.
THEOREM CompletedKeptCorrect ==
    ASSUME RenamesApart
    PROVE  Spec => CompletedKept
<1>1. Init => Pending
  BY DEF Init, Pending
<1>2. TypeOK /\ Pending /\ [Next]_vars => Pending'
  BY PendingStep
<1>3. TypeOK /\ Pending /\ [Next]_vars =>
        [\A u \in Units : (Completed(u) /\ pc \notin {"wipe", "idle"})
            => tree'[Dir[u]][u] = tree[Dir[u]][u]]_vars
  BY CompletedStep
<1> QED
  BY <1>1, <1>2, <1>3, TypeCorrect, PTL DEF Spec, CompletedKept

-----------------------------------------------------------------------------
(* The layouts the exactness is proved for *)

\* One of the first n operations of p is o for v.
Has(p, n, o, v) == \E h \in 1..n : p[h].op = o /\ p[h].unit = v

\* Between its extraction and its patches u gets another directory, and another name.
Renamed(u) == Unpacks[u] # Dir[u]
NamesOf(u) == {EName[u], PName[u]}
DirsOf(u)  == {Unpacks[u], Dir[u]}

\* Every tarball has names of its own, and what is renamed also directories of its own,
\* with nothing below and nothing above.  What is patched or renamed has been extracted,
\* and what is linked to has no patches.  What lies in the directory of something
\* extracted, or below, is begun when that has been patched.
Plain ==
    /\ \A u, v \in Units : u # v => NamesOf(u) \cap NamesOf(v) = {}
    /\ \A u \in Units : IF Renamed(u)
          THEN /\ EName[u] # PName[u] /\ PatchCwd[u] = Dir[u]
               /\ Inside[Unpacks[u]] = "src" /\ Inside[Dir[u]] = "src"
               /\ \A d \in Places : Inside[d] \notin DirsOf(u)
               /\ \A v \in Units : v # u => DirsOf(u) \cap DirsOf(v) = {}
          ELSE EName[u] = PName[u]
    /\ \A p \in Plans : \A j \in 1..Len(p) :
          LET u == p[j].unit
          IN  /\ p[j].op = "rename" => Renamed(u)
              /\ p[j].op \in {"patch", "rename"} => Has(p, j - 1, "extract", u)
              /\ p[j].op = "link" =>
                    NPatches[u] = 0 /\ ~Renamed(u) /\ ~Has(p, Len(p), "extract", u)
              /\ Has(p, Len(p), "link", u) \/ Has(p, Len(p), "patch", u)
              /\ \A v \in Units \ {u} :
                    (Dir[v] \in {Dir[u], Inside[Dir[u]]} /\ Has(p, Len(p), "extract", v))
                       => Has(p, j - 1, "patch", v)

\* Raw(u): what is there of u where its tarball is extracted.
NameOf(kind, u) == IF kind \in {"patching", "patched"} THEN PName[u] ELSE EName[u]
Marked(kind, u) == <<kind, NameOf(kind, u)>> \in marks
Tree(u)         == tree[Dir[u]][u]
Raw(u)          == tree[Unpacks[u]][u]
Does(o, u)      == Has(plan, Len(plan), o, u)
Kinds           == {"extracting", "extracted", "patching", "patched"}

LEMMA Named ==
    ASSUME NEW u \in Units
    PROVE  /\ Extracting(u) <=> Marked("extracting", u)
           /\ Extracted(u) <=> Marked("extracted", u)
           /\ Patching(u) <=> Marked("patching", u)
           /\ Patched(u) <=> Marked("patched", u)
BY DEF Extracting, Extracted, Patching, Patched, Marked, NameOf

\* A marker is one unit's.
LEMMA OneMark ==
    ASSUME Plain, NEW u \in Units, NEW v \in Units, NEW kind \in Kinds, NEW c \in Kinds,
           <<c, NameOf(c, v)>> = <<kind, NameOf(kind, u)>>
    PROVE  c = kind /\ v = u
<1>1. c = kind /\ NameOf(c, v) = NameOf(kind, u)
  OBVIOUS
<1>2. NameOf(c, v) \in NamesOf(v) /\ NameOf(kind, u) \in NamesOf(u)
  BY DEF NameOf, NamesOf
<1> QED
  BY <1>1, <1>2 DEF Plain

LEMMA MarkAdded ==
    ASSUME Plain, NEW u \in Units, NEW kind \in Kinds,
           marks' = marks \cup {<<kind, NameOf(kind, u)>>}
    PROVE  \A c \in Kinds, v \in Units :
              Marked(c, v)' <=> (Marked(c, v) \/ (c = kind /\ v = u))
<1> SUFFICES ASSUME NEW c \in Kinds, NEW v \in Units
             PROVE  Marked(c, v)' <=> (Marked(c, v) \/ (c = kind /\ v = u))
  OBVIOUS
<1>1. <<c, NameOf(c, v)>> = <<kind, NameOf(kind, u)>> <=> c = kind /\ v = u
  BY OneMark
<1>2. Marked(c, v)' <=> <<c, NameOf(c, v)>> \in marks'
  BY DEF Marked, NameOf
<1> QED
  BY <1>1, <1>2 DEF Marked

LEMMA MarkRemoved ==
    ASSUME Plain, NEW u \in Units, NEW kind \in Kinds,
           marks' = marks \ {<<kind, NameOf(kind, u)>>}
    PROVE  \A c \in Kinds, v \in Units :
              Marked(c, v)' <=> (Marked(c, v) /\ ~(c = kind /\ v = u))
<1> SUFFICES ASSUME NEW c \in Kinds, NEW v \in Units
             PROVE  Marked(c, v)' <=> (Marked(c, v) /\ ~(c = kind /\ v = u))
  OBVIOUS
<1>1. <<c, NameOf(c, v)>> = <<kind, NameOf(kind, u)>> <=> c = kind /\ v = u
  BY OneMark
<1>2. Marked(c, v)' <=> <<c, NameOf(c, v)>> \in marks'
  BY DEF Marked, NameOf
<1> QED
  BY <1>1, <1>2 DEF Marked

LEMMA TreeGrown ==
    ASSUME TypeOK, NEW u \in Units, NEW d \in Places, NEW x, tree' = [tree EXCEPT ![d][u] = x]
    PROVE  /\ Tree(u)' = IF d = Dir[u] THEN x ELSE Tree(u)
           /\ Raw(u)' = IF d = Unpacks[u] THEN x ELSE Raw(u)
           /\ \A v \in Units : v # u => Tree(v)' = Tree(v) /\ Raw(v)' = Raw(v)
<1>1. \A v \in Units : Dir[v] \in Places /\ Unpacks[v] \in Places
  OBVIOUS
<1> QED
  BY <1>1 DEF Tree, Raw, TypeOK

\* What Plain says of the operation the invocation is at.
LEMMA PlainOp ==
    ASSUME Plain, TypeOK, i <= Len(plan)
    PROVE  /\ U \in Units /\ i \in 1..Len(plan)
           /\ Does(plan[i].op, U)
           /\ plan[i].op \in {"patch", "rename"} =>
                 Has(plan, i - 1, "extract", U) /\ Does("extract", U)
           /\ plan[i].op = "rename" => Renamed(U)
           /\ plan[i].op = "link" => NPatches[U] = 0 /\ ~Renamed(U)
           /\ plan[i].op # "link" => ~Does("link", U)
           /\ \A v \in Units \ {U} :
                 (Dir[v] \in {Dir[U], Inside[Dir[U]]} /\ Does("extract", v))
                    => Has(plan, i - 1, "patch", v)
<1>1. /\ U \in Units /\ i \in 1..Len(plan) /\ plan[i] \in Ops /\ U = plan[i].unit
      /\ plan \in Plans
  BY PlanOp, TypeParts DEF ProcType, U
<1>2. /\ plan[i].op = "rename" => Renamed(U)
      /\ plan[i].op \in {"patch", "rename"} => Has(plan, i - 1, "extract", U)
      /\ plan[i].op = "link" => NPatches[U] = 0 /\ ~Renamed(U)
      /\ \A v \in Units \ {U} :
            (Dir[v] \in {Dir[U], Inside[Dir[U]]} /\ Has(plan, Len(plan), "extract", v))
               => Has(plan, i - 1, "patch", v)
  BY <1>1 DEF Plain
<1>3. plan[i].op \in {"extract", "rename", "link", "patch"}
  BY <1>1 DEF Ops
<1>4. Does(plan[i].op, U)
  BY <1>1 DEF Does, Has
<1>5. Has(plan, i - 1, "extract", U) => Does("extract", U)
  BY <1>1 DEF Does, Has
<1>6. ASSUME Does("extract", U) PROVE ~Does("link", U)
  <2> SUFFICES ASSUME NEW h \in 1..Len(plan), plan[h].op = "link", plan[h].unit = U
               PROVE  FALSE
    BY DEF Does, Has
  <2> QED
    BY <1>1, <1>6 DEF Plain, Does
<1> QED
  BY <1>1, <1>2, <1>3, <1>4, <1>5, <1>6 DEF Does

-----------------------------------------------------------------------------
(* Where the invocation is *)

\* A tree lies in a directory that exists.
Homes == \A d \in Places, u \in Units : tree[d][u] # Absent => d \in dirs

\* The directories of what is renamed are not there without its tree.
Own == \A u \in Units, d \in Places :
          Renamed(u) /\ d \in DirsOf(u) \cap dirs => tree[d][u] # Absent

\* The operation that is being carried out, and the markers it has made.
Working ==
    /\ pc = "wipe" => torn /\ i = 1
    /\ pc \in {"tar", "untar", "mark", "unmark"} => plan[i].op = "extract"
    /\ pc \in {"patch", "markp", "unmarkp"} => plan[i].op = "patch"
    /\ pc = "marklink" => plan[i].op = "link"
    /\ pc \in {"tar", "untar", "mark"} => Marked("extracting", U)
    /\ pc = "unmark" => Marked("extracted", U)
    /\ pc \in {"patch", "markp"} => Marked("patching", U)
    /\ pc = "unmarkp" => Marked("patched", U)
    /\ pc = "untar" => Unpacks[U] \in dirs
    /\ pc = "done" => i > Len(plan)

\* What there is to rename gets a place of its own, whatever else is extracted.
LEMMA Renaming ==
    ASSUME Plain, TypeOK, Rename, NEW u \in Units, u = U
    PROVE  /\ Renamed(u) /\ Unpacks[u] \in Places /\ Dir[u] \in Places
           /\ i <= Len(plan) /\ plan[i].op = "rename"
           /\ \A v \in Units : v # u => DirsOf(u) \cap DirsOf(v) = {}
           /\ \/ Unpacks[u] \notin dirs /\ UNCHANGED <<dirs, tree>>
              \/ /\ Unpacks[u] \in dirs
                 /\ dirs' = (dirs \ {Unpacks[u]}) \cup {Dir[u]}
                 /\ \A v \in Units :
                       /\ tree'[Unpacks[u]][v] = Absent
                       /\ tree'[Dir[u]][v] = IF Dir[u] \in dirs THEN tree[Dir[u]][v]
                                                               ELSE tree[Unpacks[u]][v]
                 /\ \A d \in Places \ DirsOf(u) : tree'[d] = tree[d]
<1>1. i <= Len(plan) /\ plan[i].op = "rename"
  BY DEF Rename, At
<1>2. Renamed(u) /\ Unpacks[u] \in Places /\ Dir[u] \in Places
  BY <1>1, PlainOp
<1>3. \A v \in Units : v # u => DirsOf(u) \cap DirsOf(v) = {}
  BY <1>2 DEF Plain
<1>4. CASE Unpacks[u] \notin dirs
  BY <1>1, <1>2, <1>3, <1>4 DEF Rename
<1>5. CASE Unpacks[u] \in dirs
  <2>1. /\ dirs' = (dirs \ {Unpacks[u]}) \cup {Dir[u]}
        /\ tree' = [tree EXCEPT ![Unpacks[u]] = [v \in Units |-> Absent],
                                ![Dir[u]] = IF Dir[u] \in dirs THEN @ ELSE tree[Unpacks[u]]]
    BY <1>5 DEF Rename
  <2>2. Unpacks[u] # Dir[u]
    BY <1>2 DEF Renamed
  <2> QED
    BY <1>1, <1>2, <1>3, <1>5, <2>1, <2>2 DEF TypeOK, DirsOf
<1> QED
  BY <1>4, <1>5

LEMMA HomesStep == ASSUME Plain, TypeOK, Homes, Working, [Next]_vars PROVE Homes'
<1>1. CASE UNCHANGED <<dirs, tree>>
  BY <1>1 DEF Homes
<1>2. ASSUME NEW ds, dirs' = dirs \ ds, tree' = Pruned(ds) PROVE Homes'
  BY <1>2 DEF Homes, Pruned, TypeOK
<1>3. ASSUME NEW d \in Places, NEW x, NEW u \in Units,
             tree' = [tree EXCEPT ![d][u] = x], d \in dirs' \/ x = Absent, dirs \subseteq dirs'
      PROVE  Homes'
  <2> SUFFICES ASSUME NEW e \in Places, NEW v \in Units, tree'[e][v] # Absent PROVE e \in dirs'
    BY DEF Homes
  <2>1. CASE e = d /\ v = u
    <3>1. tree'[d][u] = x
      BY <1>3 DEF TypeOK
    <3> QED
      BY <1>3, <2>1, <3>1
  <2>2. CASE ~(e = d /\ v = u)
    <3>1. tree'[e][v] = tree[e][v]
      BY <1>3, <2>2 DEF TypeOK
    <3> QED
      BY <1>3, <3>1 DEF Homes
  <2> QED
    BY <2>1, <2>2
<1>4. ASSUME i <= Len(plan)
      PROVE  U \in Units /\ Unpacks[U] \in Places /\ Dir[U] \in Places
  BY <1>4, PlanOp, TypeParts
<1>5. CASE BeginTar
  BY <1>3, <1>4, <1>5 DEF BeginTar, TypeOK
<1>6. CASE EndTar
  <2>1. i <= Len(plan) /\ Unpacks[U] \in dirs /\ dirs' = dirs
    BY <1>6 DEF EndTar, TypeOK, Working
  <2>2. \E x \in {Whole(0), Broken} : tree' = [tree EXCEPT ![Unpacks[U]][U] = x]
    BY <1>6 DEF EndTar
  <2> QED
    BY <1>3, <1>4, <2>1, <2>2
<1>7. CASE ApplyPatch \/ PatchFails
  <2>1. i <= Len(plan)
    BY <1>7 DEF ApplyPatch, PatchFails, TypeOK
  <2>2. dirs' = dirs
    BY <1>7 DEF ApplyPatch, PatchFails
  <2>3. tree[Dir[U]][U] # Absent => Dir[U] \in dirs
    BY <1>4, <2>1 DEF Homes
  <2>4. \/ /\ tree[Dir[U]][U] # Absent
           /\ \E x \in {Broken, Whole(k + 1)} : tree' = [tree EXCEPT ![Dir[U]][U] = x]
        \/ tree' = [tree EXCEPT ![Dir[U]][U] = Absent]
    <3>1. CASE ApplyPatch
      <4>1. Whole(k) # Absent /\ Broken # Absent
        BY DEF TypeOK, Whole, Broken, Absent
      <4> QED
        BY <1>4, <2>1, <3>1, <4>1 DEF ApplyPatch, TypeOK
    <3>2. CASE PatchFails
      BY <1>4, <2>1, <3>2 DEF PatchFails, TypeOK
    <3> QED
      BY <1>7, <3>1, <3>2
  <2> QED
    BY <1>3, <1>4, <2>1, <2>2, <2>3, <2>4
<1>8. CASE BeginLink
  <2>1. i <= Len(plan) /\ dirs' = dirs /\ Enters(Dir[U])
    BY <1>8 DEF BeginLink, At
  <2> QED
    BY <1>3, <1>4, <1>8, <2>1 DEF BeginLink, Enters
<1>9. CASE BreakDir
  BY <1>9 DEF BreakDir, Homes, TypeOK, Absent, Broken
<1>10. CASE WipeDir \/ FollowAdvice
  BY <1>2, <1>10 DEF WipeDir, FollowAdvice
<1>11. CASE Extract
  BY <1>1, <1>5, <1>6, <1>11 DEF Extract, SkipExtract, RefuseExtract, BeginExtract, NoCwd,
         TarFails, MarkExtracted, UnmarkExtracting, source
<1>12. CASE Patch
  BY <1>1, <1>7, <1>12 DEF Patch, SkipPatch, RefusePatch, BeginPatch, CannotPatch, PatchesDone,
         MarkPatched, UnmarkPatching, source
<1>16. CASE Rename
  <2>1. i <= Len(plan)
    BY <1>16 DEF Rename, At
  <2>2. PICK u \in Units : u = U
    BY <1>4, <2>1
  <2> QED
    <3>1. /\ Renamed(u)
          /\ \/ UNCHANGED <<dirs, tree>>
             \/ /\ dirs' = (dirs \ {Unpacks[u]}) \cup {Dir[u]}
                /\ \A v \in Units : tree'[Unpacks[u]][v] = Absent
                /\ \A d \in Places \ DirsOf(u) : tree'[d] = tree[d]
      BY <1>16, <2>2, Renaming
    <3>2. CASE UNCHANGED <<dirs, tree>>
      BY <1>1, <3>2
    <3>3. CASE ~UNCHANGED <<dirs, tree>>
      <4> SUFFICES ASSUME NEW e \in Places, NEW v \in Units, tree'[e][v] # Absent
                   PROVE  e \in dirs'
        BY DEF Homes
      <4>1. e # Unpacks[u]
        BY <3>1, <3>3
      <4>2. CASE e \notin DirsOf(u)
        BY <3>1, <3>3, <4>1, <4>2 DEF Homes
      <4> QED
        BY <3>1, <3>3, <4>1, <4>2 DEF DirsOf
    <3> QED
      BY <3>2, <3>3
<1>13. CASE Between
  BY <1>1, <1>8, <1>13, <1>16 DEF Between, SkipLink, CannotLink, MarkLink, source
<1>14. CASE Start(FALSE) \/ Start(TRUE) \/ Crash \/ Done \/ UNCHANGED vars
  BY <1>1, <1>14 DEF Start, Crash, Done, source, vars
<1>15. CASE Wipe
  BY <1>1, <1>9, <1>10, <1>15 DEF Wipe, WipeMark, Wiped, source
<1> QED
  BY <1>10, <1>11, <1>12, <1>13, <1>14, <1>15 DEF Next, Driver

LEMMA WorkingStep == ASSUME Plain, TypeOK, Working, [Next]_vars PROVE Working'
<1>1. CASE UNCHANGED vars
  BY <1>1 DEF vars, source, Working, Marked, U
<1> SUFFICES ASSUME Next PROVE Working'
  BY <1>1
<1>2. CASE Extract
  BY <1>2 DEF Next, Extract, SkipExtract, RefuseExtract, BeginExtract, NoCwd, BeginTar, TarFails,
         EndTar, MarkExtracted, UnmarkExtracting, At, NextOp, Abort, Fails, source,
         Working, Marked, NameOf, U
<1>3. CASE Patch
  BY <1>3 DEF Next, Patch, SkipPatch, RefusePatch, BeginPatch, CannotPatch, ApplyPatch,
         PatchFails, PatchesDone, MarkPatched, UnmarkPatching, At, NextOp, Abort, Fails, source,
         Working, Marked, NameOf, U
<1>4. CASE Between
  BY <1>4 DEF Next, Between, Rename, SkipLink, BeginLink, CannotLink, MarkLink, At, NextOp, Abort,
         Working, Marked, NameOf, U, source
<1>5. CASE Start(FALSE) \/ Start(TRUE) \/ FollowAdvice \/ Crash \/ Done
  BY <1>5 DEF Next, Start, FollowAdvice, Crash, Abort, Done, Working
<1>6. CASE Wipe
  BY <1>6 DEF Next, Wipe, WipeMark, BreakDir, WipeDir, Wiped, Working
<1> QED
  BY <1>2, <1>3, <1>4, <1>5, <1>6 DEF Next, Driver

LEMMA OwnStep ==
    ASSUME Plain, TypeOK, Homes, Own, Working, [Next]_vars
    PROVE  Own'
<1> SUFFICES ASSUME NEW u \in Units, NEW d \in Places, Renamed(u), d \in DirsOf(u), d \in dirs'
             PROVE  tree'[d][u] # Absent
  BY DEF Own, Renamed, DirsOf
<1>1. d \in dirs => tree[d][u] # Absent
  BY DEF Own
<1>2. \A v \in Units : v # u => DirsOf(u) \cap DirsOf(v) = {}
  BY DEF Plain
<1>3. CASE UNCHANGED <<dirs, tree>>
  BY <1>1, <1>3
<1>4. ASSUME NEW ds, dirs' = dirs \ ds, tree' = Pruned(ds) PROVE tree'[d][u] # Absent
  BY <1>1, <1>4 DEF Pruned
<1>5. ASSUME NEW v \in Units, NEW e \in DirsOf(v), NEW x, tree' = [tree EXCEPT ![e][v] = x],
             x # Absent \/ (x = Absent /\ tree[e][v] = Absent),
             dirs' = dirs \/ (dirs' = dirs \cup {e} /\ x # Absent)
      PROVE  tree'[d][u] # Absent
  <2>1. e \in Places
    BY <1>5 DEF DirsOf
  <2>2. CASE v = u /\ e = d
    <3>1. tree'[d][u] = x
      BY <1>5, <2>1, <2>2 DEF TypeOK
    <3> QED
      BY <1>1, <1>5, <2>2, <3>1
  <2>3. CASE ~(v = u /\ e = d)
    <3>1. tree'[d][u] = tree[d][u]
      BY <1>5, <2>1, <2>3 DEF TypeOK
    <3>2. d \in dirs \/ (d = e /\ v # u)
      BY <1>5, <2>3
    <3>3. ~(d = e /\ v # u)
      BY <1>2, <1>5
    <3> QED
      BY <1>1, <3>1, <3>2, <3>3
  <2> QED
    BY <2>2, <2>3
<1>6. ASSUME i <= Len(plan)
      PROVE  U \in Units /\ Unpacks[U] \in Places /\ Dir[U] \in Places
  BY <1>6, PlanOp, TypeParts
<1>7. Broken # Absent /\ \A j \in Nat : Whole(j) # Absent
  BY DEF Broken, Absent, Whole
<1>8. Unpacks[U] \in DirsOf(U) /\ Dir[U] \in DirsOf(U)
  BY DEF DirsOf
<1>9. CASE BeginTar
  <2>1. /\ i <= Len(plan) /\ dirs' = dirs \cup {Unpacks[U]}
        /\ tree' = [tree EXCEPT ![Unpacks[U]][U] = Broken]
    BY <1>9 DEF BeginTar, TypeOK
  <2> QED
    BY <1>5, <1>6, <1>7, <1>8, <2>1
<1>10. CASE EndTar
  <2>1. i <= Len(plan) /\ dirs' = dirs
    BY <1>10 DEF EndTar, TypeOK
  <2>2. \E x \in {Whole(0), Broken} : tree' = [tree EXCEPT ![Unpacks[U]][U] = x]
    BY <1>10 DEF EndTar
  <2> QED
    BY <1>5, <1>6, <1>7, <1>8, <2>1, <2>2
<1>11. CASE ApplyPatch \/ PatchFails
  <2>1. i <= Len(plan) /\ dirs' = dirs /\ k \in Nat
    BY <1>11 DEF ApplyPatch, PatchFails, TypeOK
  <2>2. \/ \E x \in {Broken, Whole(k + 1)} : tree' = [tree EXCEPT ![Dir[U]][U] = x]
        \/ tree[Dir[U]][U] = Absent /\ tree' = [tree EXCEPT ![Dir[U]][U] = Absent]
    BY <1>6, <1>11, <2>1 DEF ApplyPatch, PatchFails, TypeOK
  <2>3. Whole(k + 1) # Absent
    BY <1>7, <2>1
  <2>4. CASE \E x \in {Broken, Whole(k + 1)} : tree' = [tree EXCEPT ![Dir[U]][U] = x]
    BY <1>5, <1>6, <1>7, <1>8, <2>1, <2>3, <2>4
  <2>5. CASE tree[Dir[U]][U] = Absent /\ tree' = [tree EXCEPT ![Dir[U]][U] = Absent]
    BY <1>5, <1>6, <1>8, <2>1, <2>5
  <2> QED
    BY <2>2, <2>4, <2>5
<1>12. CASE BeginLink
  <2>1. i <= Len(plan) /\ dirs' = dirs /\ tree' = [tree EXCEPT ![Dir[U]][U] = Whole(0)]
    BY <1>12 DEF BeginLink, At
  <2> QED
    BY <1>5, <1>6, <1>7, <1>8, <2>1
<1>13. CASE BreakDir
  <2>1. PICK e \in dirs :
          tree' = [tree EXCEPT ![e] =
                     [v \in Units |-> IF tree[e][v] = Absent THEN Absent ELSE Broken]]
    BY <1>13 DEF BreakDir
  <2>2. d \in dirs
    BY <1>13 DEF BreakDir
  <2>3. tree'[d][u] \in {tree[d][u], Broken} \/ tree[d][u] = Absent
    BY <2>1 DEF TypeOK
  <2> QED
    BY <1>1, <1>7, <2>2, <2>3
<1>14. CASE WipeDir \/ FollowAdvice
  BY <1>4, <1>14 DEF WipeDir, FollowAdvice
<1>15. CASE Rename
  <2>1. i <= Len(plan)
    BY <1>15 DEF Rename, At
  <2>2. PICK v \in Units : v = U
    BY <1>6, <2>1
  <2>3. CASE v # u
    <3>1. /\ DirsOf(v) \cap DirsOf(u) = {}
          /\ \/ UNCHANGED <<dirs, tree>>
             \/ /\ dirs' = (dirs \ {Unpacks[v]}) \cup {Dir[v]}
                /\ \A e \in Places \ DirsOf(v) : tree'[e] = tree[e]
      BY <1>15, <2>2, <2>3, Renaming
    <3>2. d \notin DirsOf(v)
      BY <3>1
    <3> QED
      BY <1>1, <3>1, <3>2 DEF DirsOf
  <2>4. CASE v = u
    <3>1. Own /\ Unpacks[u] \in Places /\ Dir[u] \in Places
      OBVIOUS
    <3>2. /\ Unpacks[u] \in dirs => tree[Unpacks[u]][u] # Absent
          /\ Dir[u] \in dirs => tree[Dir[u]][u] # Absent
      BY <3>1 DEF Own, DirsOf
    <3>3. Unpacks[u] # Dir[u]
      BY DEF Renamed
    <3> QED
      BY <1>1, <1>15, <2>2, <2>4, <3>2, <3>3, Renaming DEF DirsOf
  <2> QED
    BY <2>3, <2>4
<1>16. CASE Extract
  BY <1>3, <1>9, <1>10, <1>16 DEF Extract, SkipExtract, RefuseExtract, BeginExtract, NoCwd,
         TarFails, MarkExtracted, UnmarkExtracting, source
<1>17. CASE Patch
  BY <1>3, <1>11, <1>17 DEF Patch, SkipPatch, RefusePatch, BeginPatch, CannotPatch, PatchesDone,
         MarkPatched, UnmarkPatching, source
<1>18. CASE Between
  BY <1>3, <1>12, <1>15, <1>18 DEF Between, SkipLink, CannotLink, MarkLink, source
<1>19. CASE Start(FALSE) \/ Start(TRUE) \/ Crash \/ Done \/ UNCHANGED vars
  BY <1>3, <1>19 DEF Start, Crash, Done, source, vars
<1>20. CASE Wipe
  BY <1>3, <1>13, <1>14, <1>20 DEF Wipe, WipeMark, Wiped, source
<1> QED
  BY <1>14, <1>16, <1>17, <1>18, <1>19, <1>20 DEF Next, Driver

-----------------------------------------------------------------------------
(* What the markers tell, if no forced extraction was interrupted *)

\* The markers of u, and what is then there of it: in its one directory,
InPlace(u) ==
    /\ ~Does("link", u) /\ ~Marked("extracting", u) /\ ~Marked("extracted", u) =>
          Tree(u) = Absent
    /\ ~Marked("extracted", u) => ~Marked("patching", u) /\ ~Marked("patched", u)
    /\ Marked("extracted", u) /\ ~Marked("patching", u) /\ ~Marked("patched", u) =>
          Tree(u) = Whole(0)
    /\ Marked("patched", u) => Tree(u) = Whole(NPatches[u])
    /\ Does("link", u) =>
          ~Marked("extracting", u) /\ ~Marked("patching", u) /\ ~Marked("patched", u)

\* or first in one and then in the other.  What the user is told to remove leaves the
\* marker that it was extracted, and then nothing may be there.
Moved(u) ==
    /\ ~Marked("extracted", u) =>
          Tree(u) = Absent /\ ~Marked("patching", u) /\ ~Marked("patched", u)
    /\ ~Marked("extracting", u) /\ ~Marked("extracted", u) => Raw(u) = Absent
    /\ Marked("extracted", u) => Raw(u) \in {Absent, Whole(0)}
    /\ Raw(u) # Absent => Tree(u) = Absent
    /\ ~Marked("patching", u) /\ ~Marked("patched", u) => Tree(u) \in {Absent, Whole(0)}
    /\ Marked("patched", u) => Tree(u) = Whole(NPatches[u])

Status(u) == IF Renamed(u) THEN Moved(u) ELSE InPlace(u)

\* Removing v, which is extracted, removes u.
Within(u, v) ==
    v \in Units \ {u} /\ Dir[v] \in {Dir[u], Inside[Dir[u]]} /\ Does("extract", v)
Begun(u) == \E kind \in Kinds : Marked(kind, u)
Inner(u) == \A v \in Units : Within(u, v) /\ Begun(u) => Marked("patched", v)

Kept == \A u \in Units : Status(u) /\ Inner(u)

\* What is there of the unit the invocation is at.
Now ==
    /\ pc = "tar" => Raw(U) = Absent
    /\ pc = "untar" => clean
    /\ pc = "mark" => Raw(U) = Whole(0)
    /\ pc = "marklink" => Tree(U) = Whole(0)
    /\ pc = "patch" =>
          k <= NPatches[U] /\ (Tree(U) = Whole(k) \/ (Renamed(U) /\ Tree(U) = Absent))
    /\ pc = "markp" => Tree(U) = Whole(NPatches[U])

\* An operation that has been carried out has left its marker.
Carried(o, u) ==
    /\ o \in {"extract", "link"} => Marked("extracted", u)
    /\ o = "patch" => Marked("patched", u)
Progress ==
    pc \notin {"idle", "wipe"} => \A h \in 1..(i - 1) : Carried(plan[h].op, plan[h].unit)

\* What the user is told to remove was begun and not completed.
Unfinished(a) ==
    \/ a = NoAdvice
    \/ \E u \in Units :
          /\ Does("extract", u)
          /\ \/ a = ExtractAdvice(u) /\ ~Marked("extracted", u)
             \/ a = PatchAdvice(u) /\ ~Marked("patched", u)
Advised == pc = "idle" => Unfinished(advice)

\* A unit of which nothing has changed.
LEMMA StatusSame ==
    ASSUME NEW u \in Units, Status(u), Tree(u)' = Tree(u), Raw(u)' = Raw(u), plan' = plan,
           \A c \in Kinds : Marked(c, u)' <=> Marked(c, u)
    PROVE  Status(u)'
<1>1. (Does("link", u)' <=> Does("link", u)) /\ (Renamed(u)' <=> Renamed(u))
  BY DEF Does, Renamed
<1> QED
  BY <1>1 DEF Status, Moved, InPlace, Kinds

\* Nothing lies within what is renamed, and it lies in nothing.
LEMMA Apart ==
    ASSUME Plain, NEW u \in Units, Renamed(u), NEW v \in Units
    PROVE  /\ ~Within(u, v) /\ ~Within(v, u)
           /\ Inside[Dir[v]] \notin DirsOf(u) /\ Inside[Unpacks[v]] \notin DirsOf(u)
           /\ v # u => DirsOf(u) \cap DirsOf(v) = {}
<1>1. /\ Inside[Unpacks[u]] = "src" /\ Inside[Dir[u]] = "src"
      /\ \A d \in Places : Inside[d] \notin DirsOf(u)
      /\ v # u => DirsOf(u) \cap DirsOf(v) = {}
  BY DEF Plain
<1>2. Dir[v] \in Places /\ Unpacks[v] \in Places /\ Dir[v] # "src"
  OBVIOUS
<1> QED
  BY <1>1, <1>2 DEF Within, DirsOf

LEMMA KeptSame ==
    ASSUME Kept, UNCHANGED <<tree, marks, plan>>
    PROVE  Kept'
<1>1. \A u \in Units : Status(u)'
  BY StatusSame DEF Kept, Tree, Raw, Marked, NameOf
<1>2. \A u \in Units : Inner(u)'
  BY DEF Kept, Inner, Within, Begun, Marked, NameOf, Does
<1> QED
  BY <1>1, <1>2 DEF Kept

\* One marker of something that is renamed is made.
LEMMA MovedMark ==
    ASSUME NEW u \in Units, NEW kind \in Kinds, Moved(u), Tree(u)' = Tree(u), Raw(u)' = Raw(u),
           \A c \in Kinds : Marked(c, u)' <=> (Marked(c, u) \/ c = kind),
           kind = "extracted" => Raw(u) = Whole(0) /\ ~Marked("extracted", u),
           kind = "patching" => Marked("extracted", u),
           kind = "patched" => Marked("extracted", u) /\ Tree(u) = Whole(NPatches[u])
    PROVE  Moved(u)'
<1>1. /\ Marked("extracting", u)' <=> (Marked("extracting", u) \/ kind = "extracting")
      /\ Marked("extracted", u)' <=> (Marked("extracted", u) \/ kind = "extracted")
      /\ Marked("patching", u)' <=> (Marked("patching", u) \/ kind = "patching")
      /\ Marked("patched", u)' <=> (Marked("patched", u) \/ kind = "patched")
  BY DEF Kinds
<1> QED
  BY <1>1 DEF Moved

\* One marker is made, and what it tells is so.
LEMMA KeptMark ==
    ASSUME Plain, Kept, UNCHANGED <<tree, plan>>, NEW u \in Units, NEW kind \in Kinds,
           marks' = marks \cup {<<kind, NameOf(kind, u)>>},
           \A v \in Units : Within(u, v) => Marked("patched", v),
           kind = "extracting" => ~Does("link", u),
           kind = "extracted" => Raw(u) = Whole(0) /\ ~Marked("extracted", u),
           kind = "patching" => ~Does("link", u) /\ Marked("extracted", u),
           kind = "patched" => /\ ~Does("link", u) /\ Marked("extracted", u)
                               /\ Tree(u) = Whole(NPatches[u])
    PROVE  Kept'
<1>1. \A c \in Kinds, v \in Units : Marked(c, v)' <=> (Marked(c, v) \/ (c = kind /\ v = u))
  BY MarkAdded
<1>2. \A v \in Units : /\ Tree(v)' = Tree(v) /\ Raw(v)' = Raw(v)
                       /\ Does("link", v)' <=> Does("link", v)
                       /\ \A w \in Units : Within(v, w)' <=> Within(v, w)
  BY DEF Tree, Raw, Does, Within
<1> SUFFICES ASSUME NEW v \in Units PROVE Status(v)' /\ Inner(v)'
  BY DEF Kept
<1>3. Status(v) /\ Inner(v)
  BY DEF Kept
<1>4. CASE v # u
  BY <1>1, <1>2, <1>3, <1>4, StatusSame DEF Inner, Begun, Kinds
<1>5. CASE v = u
  <2>0. /\ \A c \in Kinds : Marked(c, u)' <=> (Marked(c, u) \/ c = kind)
        /\ Tree(u)' = Tree(u) /\ Raw(u)' = Raw(u)
        /\ Does("link", u)' <=> Does("link", u)
        /\ Renamed(u)' <=> Renamed(u)
    BY <1>1, <1>2 DEF Renamed
  <2>1. ASSUME Renamed(u) PROVE Status(u)'
    BY <1>3, <1>5, <2>0, <2>1, MovedMark DEF Status
  <2>2. ASSUME ~Renamed(u) PROVE Status(u)'
    <3>1. Raw(u) = Tree(u)
      BY <2>2 DEF Renamed, Raw, Tree
    <3>2. InPlace(u)
      BY <1>3, <1>5, <2>2 DEF Status
    <3>3. InPlace(u)'
      BY <2>0, <3>1, <3>2 DEF InPlace, Kinds
    <3> QED
      BY <2>0, <2>2, <3>3 DEF Status
  <2>3. Inner(v)'
    BY <1>1, <1>2, <1>3, <1>5 DEF Inner, Begun, Kinds
  <2> QED
    BY <1>5, <2>1, <2>2, <2>3
<1> QED
  BY <1>4, <1>5

\* The marker of what was begun is removed when it is completed.
LEMMA KeptUnmark ==
    ASSUME Plain, Kept, UNCHANGED <<tree, plan>>, NEW u \in Units,
           NEW kind \in {"extracting", "patching"},
           kind = "extracting" => Marked("extracted", u),
           kind = "patching" => Marked("patched", u),
           marks' = marks \ {<<kind, NameOf(kind, u)>>}
    PROVE  Kept'
<1>1. \A c \in Kinds, v \in Units : Marked(c, v)' <=> (Marked(c, v) /\ ~(c = kind /\ v = u))
  <2>1. kind \in Kinds
    BY DEF Kinds
  <2> QED
    BY <2>1, MarkRemoved
<1>2. \A v \in Units : /\ Tree(v)' = Tree(v) /\ Raw(v)' = Raw(v)
                       /\ Does("link", v)' <=> Does("link", v)
                       /\ \A w \in Units : Within(v, w)' <=> Within(v, w)
  BY DEF Tree, Raw, Does, Within
<1> SUFFICES ASSUME NEW v \in Units PROVE Status(v)' /\ Inner(v)'
  BY DEF Kept
<1>3. Status(v) /\ Inner(v)
  BY DEF Kept
<1>4. Status(v)'
  <2>1. CASE v # u
    BY <1>1, <1>2, <1>3, <2>1, StatusSame
  <2>2. CASE v = u
    BY <1>1, <1>2, <1>3, <2>2 DEF Status, Moved, InPlace, Kinds
  <2> QED
    BY <2>1, <2>2
<1>5. Inner(v)'
  BY <1>1, <1>2, <1>3 DEF Inner, Begun, Kinds
<1> QED
  BY <1>4, <1>5

\* A tree is changed of what is being extracted, patched or linked to.
LEMMA KeptTree ==
    ASSUME Plain, TypeOK, Kept, UNCHANGED <<marks, plan>>,
           NEW u \in Units, NEW d \in DirsOf(u), NEW x,
           tree' = [tree EXCEPT ![d][u] = x],
           ~Marked("extracted", u) \/ Marked("patching", u),
           Does("link", u) \/ Marked("extracting", u) \/ Marked("extracted", u),
           ~Marked("patched", u),
           Renamed(u) => IF d = Unpacks[u]
                         THEN ~Marked("extracted", u) /\ Marked("extracting", u)
                         ELSE Marked("extracted", u) /\ (Raw(u) = Absent \/ x = Absent)
    PROVE  Kept'
<1>0. d \in Places
  BY DEF DirsOf
<1>1. /\ \A v \in Units : v # u => Tree(v)' = Tree(v) /\ Raw(v)' = Raw(v)
      /\ Tree(u)' = IF d = Dir[u] THEN x ELSE Tree(u)
      /\ Raw(u)' = IF d = Unpacks[u] THEN x ELSE Raw(u)
  BY <1>0, TreeGrown
<1>2. \A v \in Units : /\ \A c \in Kinds : Marked(c, v)' <=> Marked(c, v)
                       /\ Does("link", v)' <=> Does("link", v)
                       /\ \A w \in Units : Within(v, w)' <=> Within(v, w)
  BY DEF Marked, NameOf, Does, Within
<1> SUFFICES ASSUME NEW v \in Units PROVE Status(v)' /\ Inner(v)'
  BY DEF Kept
<1>3. Status(v) /\ Inner(v)
  BY DEF Kept
<1>4. Status(v)'
  <2>1. CASE v # u
    BY <1>1, <1>2, <1>3, <2>1, StatusSame
  <2>2. CASE v = u /\ ~Renamed(u)
    BY <1>2, <1>3, <2>2 DEF Status, InPlace, Kinds
  <2>3. CASE v = u /\ Renamed(u)
    <3>1. Dir[u] # Unpacks[u] /\ d \in {Dir[u], Unpacks[u]} /\ (Renamed(u)' <=> Renamed(u))
      BY <2>3 DEF Renamed, DirsOf
    <3>2. /\ Marked("extracting", u)' <=> Marked("extracting", u)
          /\ Marked("extracted", u)' <=> Marked("extracted", u)
          /\ Marked("patching", u)' <=> Marked("patching", u)
          /\ Marked("patched", u)' <=> Marked("patched", u)
      BY <1>2 DEF Kinds
    <3>3. Moved(u)
      BY <1>3, <2>3 DEF Status
    <3>4. CASE d = Unpacks[u]
      <4>1. ~Marked("extracted", u) /\ Marked("extracting", u) /\ Tree(u)' = Tree(u)
        BY <1>1, <2>3, <3>1, <3>4
      <4>2. Moved(u)'
        BY <3>2, <3>3, <4>1 DEF Moved
      <4> QED
        BY <2>3, <3>1, <4>2 DEF Status
    <3>5. CASE d = Dir[u]
      <4>1. /\ Marked("extracted", u) /\ Marked("patching", u) /\ Raw(u)' = Raw(u)
            /\ Raw(u) = Absent \/ Tree(u)' = Absent
        BY <1>1, <2>3, <3>1, <3>5
      <4>2. Moved(u)'
        BY <3>2, <3>3, <4>1 DEF Moved
      <4> QED
        BY <2>3, <3>1, <4>2 DEF Status
    <3> QED
      BY <3>1, <3>4, <3>5
  <2> QED
    BY <2>1, <2>2, <2>3
<1>5. Inner(v)'
  BY <1>2, <1>3 DEF Inner, Begun, Kinds
<1> QED
  BY <1>4, <1>5

\* What was begun and not completed is removed: a tarball in its one directory goes with
\* all that lies within,
LEMMA KeptFollowInPlace ==
    ASSUME Plain, TypeOK, Homes, Kept, plan' = plan, FollowAdvice,
           NEW u \in Units, ~Renamed(u), Does("extract", u),
           \/ advice = ExtractAdvice(u) /\ ~Marked("extracted", u)
           \/ advice = PatchAdvice(u) /\ ~Marked("patched", u)
    PROVE  Kept'
<1>2. Unpacks[u] = Dir[u] /\ EName[u] = PName[u] /\ Dir[u] \in Places
  BY DEF Plain, Renamed
<1>3. /\ tree' = Pruned(Gone({Dir[u]}))
      /\ \/ ~Marked("extracted", u) /\ marks' = marks \ {<<"extracting", EName[u]>>}
         \/ marks' = marks \ {<<"extracted", EName[u]>>, <<"patching", EName[u]>>}
  <2>1. tree' = Pruned(Gone(advice.dirs)) /\ marks' = marks \ advice.marks
    BY DEF FollowAdvice
  <2>2. ASSUME advice = ExtractAdvice(u)
        PROVE  advice.dirs = {Dir[u]} /\ advice.marks = {<<"extracting", EName[u]>>}
    BY <1>2, <2>2 DEF ExtractAdvice
  <2>3. ASSUME advice = PatchAdvice(u)
        PROVE  /\ advice.dirs = {Dir[u]}
               /\ advice.marks = {<<"extracted", EName[u]>>, <<"patching", EName[u]>>}
    BY <1>2, <2>3 DEF PatchAdvice
  <2>4. CASE advice = ExtractAdvice(u) /\ ~Marked("extracted", u)
    BY <2>1, <2>2, <2>4
  <2>5. CASE advice = PatchAdvice(u)
    BY <2>1, <2>3, <2>5
  <2> QED
    BY <2>4, <2>5
<1>4. InPlace(u) /\ ~Marked("patched", u)
  BY DEF Kept, Status, InPlace
<1>5. \A c \in Kinds : \A v \in Units : v # u => (Marked(c, v)' <=> Marked(c, v))
  <2> SUFFICES ASSUME NEW c \in Kinds, NEW v \in Units, v # u
               PROVE  Marked(c, v)' <=> Marked(c, v)
    OBVIOUS
  <2>1. NameOf(c, v) # EName[u]
    BY <1>2 DEF Plain, NamesOf, NameOf
  <2> QED
    BY <1>3, <2>1 DEF Marked, NameOf
<1>6. /\ ~Marked("extracted", u)' /\ ~Marked("patching", u)' /\ ~Marked("patched", u)'
      /\ \A c \in Kinds : Marked(c, u)' => Marked(c, u)
  BY <1>2, <1>3, <1>4 DEF Marked, NameOf, InPlace
<1>7. \A v \in Units : /\ Does("link", v)' <=> Does("link", v)
                       /\ \A w \in Units : Within(v, w)' <=> Within(v, w)
  BY DEF Does, Within
<1>8. ASSUME NEW v \in Units
      PROVE  /\ Tree(v)' = IF Dir[v] \in Gone({Dir[u]}) THEN Absent ELSE Tree(v)
             /\ Raw(v)' = IF Unpacks[v] \in Gone({Dir[u]}) THEN Absent ELSE Raw(v)
  BY <1>3 DEF Tree, Raw, Pruned
<1>9. ASSUME NEW v \in Units, v = u \/ Within(v, u)
      PROVE  Tree(v)' = Absent
  <2>1. Dir[u] \in {Dir[v], Inside[Dir[v]]}
    BY <1>9 DEF Within
  <2>2. Dir[v] \in dirs => Dir[v] \in Gone({Dir[u]})
    BY <2>1 DEF Gone
  <2>3. Dir[v] \notin dirs => Tree(v) = Absent
    BY DEF Homes, Tree
  <2> QED
    BY <1>8, <2>2, <2>3
<1>10. ASSUME NEW v \in Units, v # u, ~Within(v, u)
       PROVE  Tree(v)' = Tree(v) /\ Raw(v)' = Raw(v)
  <2>1. Dir[u] \notin {Dir[v], Inside[Dir[v]]}
    BY <1>10 DEF Within
  <2>2. Dir[u] \notin {Unpacks[v], Inside[Unpacks[v]]}
    <3>1. CASE Renamed(v)
      <4>1. Inside[Unpacks[v]] = "src" /\ DirsOf(u) \cap DirsOf(v) = {}
        BY <1>10, <3>1 DEF Plain
      <4> QED
        BY <1>2, <4>1 DEF DirsOf
    <3>2. CASE ~Renamed(v)
      BY <2>1, <3>2 DEF Renamed
    <3> QED
      BY <3>1, <3>2
  <2>3. Dir[v] \notin Gone({Dir[u]}) /\ Unpacks[v] \notin Gone({Dir[u]})
    BY <2>1, <2>2 DEF Gone
  <2> QED
    BY <1>8, <2>3
<1> SUFFICES ASSUME NEW v \in Units PROVE Status(v)' /\ Inner(v)'
  BY DEF Kept
<1>11. Status(v) /\ Inner(v)
  BY DEF Kept
<1>12. CASE v = u
  <2>1. Status(v)'
    <3>1. InPlace(v)'
      BY <1>4, <1>6, <1>7, <1>9, <1>12 DEF InPlace, Kinds
    <3> QED
      BY <1>12, <3>1 DEF Status, Renamed
  <2>2. Inner(v)'
    BY <1>5, <1>6, <1>7, <1>11, <1>12 DEF Inner, Begun, Kinds, Within
  <2> QED
    BY <2>1, <2>2
<1>13. CASE v # u /\ Within(v, u)
  <2>1. ~Begun(v) /\ ~Begun(v)'
    BY <1>4, <1>5, <1>11, <1>13 DEF Inner, Begun
  <2>2. ~Renamed(v)
    BY <1>13, Apart
  <2>3. InPlace(v)'
    BY <1>9, <1>13, <2>1 DEF InPlace, Begun, Kinds
  <2> QED
    BY <2>1, <2>2, <2>3 DEF Status, Inner, Begun, Renamed
<1>14. CASE v # u /\ ~Within(v, u)
  <2>1. Status(v)'
    BY <1>5, <1>10, <1>11, <1>14, StatusSame
  <2>2. Inner(v)'
    BY <1>5, <1>7, <1>11, <1>14 DEF Inner, Begun, Kinds
  <2> QED
    BY <2>1, <2>2
<1> QED
  BY <1>12, <1>13, <1>14

\* and what is renamed, in one of its directories or the other, alone.
LEMMA KeptGone ==
    ASSUME Plain, TypeOK, Homes, Kept, plan' = plan, NEW u \in Units, Renamed(u),
           NEW d \in DirsOf(u), NEW kind \in {"extracting", "patching"},
           \/ d = Unpacks[u] /\ kind = "extracting" /\ ~Marked("extracted", u)
           \/ d = Dir[u] /\ kind = "patching" /\ ~Marked("patched", u),
           tree' = Pruned(Gone({d})),
           \A c \in Kinds, v \in Units : Marked(c, v)' <=> (Marked(c, v) /\ ~(c = kind /\ v = u))
    PROVE  Kept'
<1>2. /\ Moved(u) /\ d \in Places /\ d \in DirsOf(u)
      /\ d \in {Dir[u], Unpacks[u]} /\ Dir[u] # Unpacks[u]
  BY DEF Kept, Status, DirsOf, Renamed
<1>3. \A v \in Units : /\ Does("link", v)' <=> Does("link", v)
                       /\ \A w \in Units : Within(v, w)' <=> Within(v, w)
  BY DEF Does, Within
<1>4. ASSUME NEW v \in Units
      PROVE  /\ Tree(v)' = IF Dir[v] \in Gone({d}) THEN Absent ELSE Tree(v)
             /\ Raw(v)' = IF Unpacks[v] \in Gone({d}) THEN Absent ELSE Raw(v)
  BY DEF Tree, Raw, Pruned
<1>5. \A v \in Units : Inside[Dir[v]] # d /\ Inside[Unpacks[v]] # d
  BY <1>2, Apart
<1> SUFFICES ASSUME NEW v \in Units PROVE Status(v)' /\ Inner(v)'
  BY DEF Kept
<1>6. Status(v) /\ Inner(v)
  BY DEF Kept
<1>7. CASE v # u
  <2>1. Dir[v] # d /\ Unpacks[v] # d
    BY <1>2, <1>7, Apart DEF DirsOf
  <2>2. Dir[v] \notin Gone({d}) /\ Unpacks[v] \notin Gone({d})
    BY <1>5, <2>1 DEF Gone
  <2>3. Status(v)'
    BY <1>4, <1>6, <1>7, <2>2, StatusSame
  <2>4. Inner(v)'
    BY <1>3, <1>6, <1>7, Apart DEF Inner, Begun, Kinds
  <2> QED
    BY <2>3, <2>4
<1>8. CASE v = u
  <2>1. d \in dirs => d \in Gone({d})
    BY DEF Gone
  <2>2. \A e \in {Dir[u], Unpacks[u]} : e # d => e \notin Gone({d})
    BY <1>5 DEF Gone
  <2>3. /\ Marked("extracting", u)' <=> Marked("extracting", u) /\ kind # "extracting"
        /\ Marked("extracted", u)' <=> Marked("extracted", u)
        /\ Marked("patching", u)' <=> Marked("patching", u) /\ kind # "patching"
        /\ Marked("patched", u)' <=> Marked("patched", u)
    BY DEF Kinds
  <2>4. Moved(u)'
    <3>1. CASE d = Unpacks[u]
      <4>1. kind = "extracting" /\ ~Marked("extracted", u) /\ Tree(u)' = Tree(u)
        BY <1>2, <1>4, <2>2, <3>1
      <4>2. Raw(u)' = Absent
        BY <1>2, <1>4, <2>1, <3>1 DEF Homes, Raw
      <4> QED
        BY <1>2, <2>3, <4>1, <4>2 DEF Moved
    <3>2. CASE d = Dir[u]
      <4>1. kind = "patching" /\ ~Marked("patched", u) /\ Raw(u)' = Raw(u)
        BY <1>2, <1>4, <2>2, <3>2
      <4>2. Tree(u)' = Absent
        BY <1>2, <1>4, <2>1, <3>2 DEF Homes, Tree
      <4> QED
        BY <1>2, <2>3, <4>1, <4>2 DEF Moved
    <3> QED
      BY <1>2, <3>1, <3>2
  <2>5. Status(v)'
    BY <1>8, <2>4 DEF Status, Renamed
  <2>6. Inner(v)'
    BY <1>3, <1>8, Apart DEF Inner
  <2> QED
    BY <2>5, <2>6
<1> QED
  BY <1>7, <1>8

LEMMA KeptFollowMoved ==
    ASSUME Plain, TypeOK, Homes, Kept, plan' = plan, FollowAdvice,
           NEW u \in Units, Renamed(u),
           \/ advice = ExtractAdvice(u) /\ ~Marked("extracted", u)
           \/ advice = PatchAdvice(u) /\ ~Marked("patched", u)
    PROVE  Kept'
<1>1. tree' = Pruned(Gone(advice.dirs)) /\ marks' = marks \ advice.marks
  BY DEF FollowAdvice
<1>3. CASE advice = ExtractAdvice(u) /\ ~Marked("extracted", u)
  <2>1. advice.dirs = {Unpacks[u]} /\ advice.marks = {<<"extracting", NameOf("extracting", u)>>}
    BY <1>3 DEF ExtractAdvice, NameOf
  <2>2. \A c \in Kinds, v \in Units :
           Marked(c, v)' <=> (Marked(c, v) /\ ~(c = "extracting" /\ v = u))
    BY <1>1, <2>1, MarkRemoved DEF Kinds
  <2>3. tree' = Pruned(Gone({Unpacks[u]}))
    BY <1>1, <2>1
  <2>4. Unpacks[u] \in DirsOf(u)
    BY DEF DirsOf
  <2> QED
    BY <1>3, <2>2, <2>3, <2>4, KeptGone
<1>4. CASE advice = PatchAdvice(u) /\ ~Marked("patched", u)
  <2>1. /\ advice.dirs = {Dir[u]}
        /\ advice.marks = {<<"extracted", PName[u]>>, <<"patching", NameOf("patching", u)>>}
    BY <1>4 DEF PatchAdvice, NameOf
  <2>2. ASSUME NEW c \in Kinds, NEW v \in Units
        PROVE  Marked(c, v)' <=> (Marked(c, v) /\ ~(c = "patching" /\ v = u))
    <3>1. <<c, NameOf(c, v)>> = <<"patching", NameOf("patching", u)>> <=> c = "patching" /\ v = u
      BY OneMark DEF Kinds
    <3>2. <<c, NameOf(c, v)>> # <<"extracted", PName[u]>>
      BY DEF Plain, NamesOf, NameOf
    <3>3. Marked(c, v)' <=> <<c, NameOf(c, v)>> \in marks'
      BY DEF Marked, NameOf
    <3> QED
      BY <1>1, <2>1, <3>1, <3>2, <3>3 DEF Marked
  <2>3. tree' = Pruned(Gone({Dir[u]}))
    BY <1>1, <2>1
  <2>4. Dir[u] \in DirsOf(u)
    BY DEF DirsOf
  <2> QED
    BY <1>4, <2>2, <2>3, <2>4, KeptGone
<1> QED
  BY <1>3, <1>4

LEMMA KeptFollow ==
    ASSUME Plain, TypeOK, Homes, Kept, Advised, plan' = plan, FollowAdvice
    PROVE  Kept'
<1>1. PICK u \in Units :
        /\ Does("extract", u)
        /\ \/ advice = ExtractAdvice(u) /\ ~Marked("extracted", u)
           \/ advice = PatchAdvice(u) /\ ~Marked("patched", u)
  BY DEF FollowAdvice, Advised, Unfinished
<1> QED
  BY <1>1, KeptFollowInPlace, KeptFollowMoved

-----------------------------------------------------------------------------
(* The steps *)

Placed == Now /\ Progress /\ Advised

\* The invocation stops: there is nothing to show but that what it tells is unfinished.
LEMMA PlacedAbort ==
    ASSUME NEW a, Abort(a), Unfinished(a)'
    PROVE  Placed'
BY DEF Placed, Now, Progress, Advised, Abort

LEMMA UnfinishedSame ==
    ASSUME NEW a, Unfinished(a), UNCHANGED <<marks, plan>>
    PROVE  Unfinished(a)'
BY DEF Unfinished, Does, Marked, NameOf, Has, ExtractAdvice, PatchAdvice

LEMMA NothingUnfinished == Unfinished(NoAdvice)'
BY DEF Unfinished

\* Markers of completion stay, so what was carried out is.
LEMMA ProgressHeld ==
    ASSUME plan' = plan, i' = i, Progress, pc \notin {"idle", "wipe"}, marks \subseteq marks'
    PROVE  Progress'
BY DEF Progress, Carried, Marked, NameOf

LEMMA ProgressNext ==
    ASSUME TypeOK, plan' = plan, i' = i + 1, Progress, pc \notin {"idle", "wipe"},
           i <= Len(plan), NEW o, o = plan[i].op, NEW u \in Units, u = U,
           \A c \in {"extracted", "patched"}, v \in Units : Marked(c, v) => Marked(c, v)',
           Carried(o, u)'
    PROVE  Progress'
<1> SUFFICES ASSUME NEW h \in 1..((i + 1) - 1)
             PROVE  Carried(plan[h].op, plan[h].unit)'
  BY DEF Progress
<1>1. i \in 1..Len(plan) /\ plan \in Seq(Ops) /\ u = plan[i].unit
  BY PlanOp, TypeParts DEF ProcType, U
<1>2. CASE h = i
  BY <1>1, <1>2 DEF Carried, Marked, NameOf
<1>3. CASE h # i
  <2>1. h \in 1..(i - 1) /\ h \in 1..Len(plan)
    BY <1>1, <1>3, LenProperties
  <2>2. plan[h] \in Ops
    BY <1>1, <2>1, ElementOfSeq
  <2>3. PICK v \in Units : v = plan[h].unit
    BY <2>2 DEF Ops
  <2>4. Carried(plan[h].op, v)
    BY <2>1, <2>3 DEF Progress
  <2>5. Carried(plan[h].op, v)'
    BY <2>4 DEF Carried
  <2> QED
    BY <2>3, <2>5
<1> QED
  BY <1>2, <1>3

\* What the operation the invocation is at is to find there has been carried out.
LEMMA Before ==
    ASSUME Plain, TypeOK, Progress, pc \notin {"idle", "wipe"}, i <= Len(plan),
           NEW u \in Units, u = U
    PROVE  /\ plan[i].op \in {"patch", "rename"} => Marked("extracted", u)
           /\ \A v \in Units : Within(u, v) => Marked("patched", v)
<1>1. ASSUME NEW o, NEW v, Has(plan, i - 1, o, v) PROVE Carried(o, v)
  BY <1>1 DEF Has, Progress
<1>2. /\ plan[i].op \in {"patch", "rename"} => Has(plan, i - 1, "extract", u)
      /\ \A v \in Units : Within(u, v) => Has(plan, i - 1, "patch", v)
  BY PlainOp DEF Within
<1> QED
  BY <1>1, <1>2 DEF Carried

LEMMA ExtractPlaced ==
    ASSUME Plain, TypeOK, Pending, Working, Kept, Placed, plan' = plan, Extract
    PROVE  Kept' /\ Placed'
<1>0. i <= Len(plan) /\ plan[i].op = "extract"
  BY DEF Extract, SkipExtract, RefuseExtract, BeginExtract, NoCwd, BeginTar, TarFails,
         EndTar, MarkExtracted, UnmarkExtracting, At, Working, TypeOK
<1>1. PICK u \in Units : u = U
  BY <1>0, PlainOp
<1>2. /\ Unpacks[u] \in Places /\ Unpacks[u] \in DirsOf(u)
      /\ Status(u) /\ ~Does("link", u) /\ Does("extract", u)
  BY <1>0, <1>1, PlainOp DEF DirsOf, Kept
<1>3. pc \notin {"idle", "wipe"}
  BY DEF Extract, SkipExtract, RefuseExtract, BeginExtract, NoCwd, BeginTar, TarFails,
         EndTar, MarkExtracted, UnmarkExtracting, At
<1>4. /\ Extracting(u) <=> Marked("extracting", u)
      /\ Extracted(u) <=> Marked("extracted", u)
  BY Named
<1>5. CASE SkipExtract
  <2>1. Kept'
    BY <1>5, KeptSame DEF SkipExtract, source
  <2>2. Carried("extract", u)' /\ marks' = marks
    BY <1>1, <1>4, <1>5 DEF SkipExtract, source, Carried, Marked, NameOf
  <2>3. Progress'
    BY <1>0, <1>1, <1>3, <1>5, <2>2, ProgressNext DEF SkipExtract, NextOp, Marked, NameOf, Placed
  <2> QED
    BY <1>5, <2>1, <2>3 DEF SkipExtract, NextOp, Placed, Now, Advised
<1>6. CASE RefuseExtract
  <2>1. Kept' /\ UNCHANGED marks
    BY <1>6, KeptSame DEF RefuseExtract, source
  <2>2. Unfinished(ExtractAdvice(u))
    BY <1>1, <1>2, <1>4, <1>6 DEF RefuseExtract, Unfinished
  <2>3. Unfinished(ExtractAdvice(u))'
    BY <2>1, <2>2, UnfinishedSame
  <2> QED
    BY <1>1, <1>6, <2>1, <2>3, PlacedAbort DEF RefuseExtract
<1>7. CASE NoCwd
  BY <1>7, KeptSame, NothingUnfinished, PlacedAbort DEF NoCwd, source
<1>8. CASE TarFails
  BY <1>8, KeptSame, NothingUnfinished, PlacedAbort DEF TarFails, Fails, source
<1>9. CASE BeginExtract
  <2>1. \A v \in Units : Within(u, v) => Marked("patched", v)
    BY <1>0, <1>1, <1>3, Before DEF Placed
  <2>2. marks' = marks \cup {<<"extracting", NameOf("extracting", u)>>} /\ UNCHANGED <<tree, plan>>
    BY <1>1, <1>9 DEF BeginExtract, NameOf
  <2>3. Kept'
    BY <1>2, <2>1, <2>2, KeptMark DEF Kinds
  <2>4. Progress'
    BY <1>3, <1>9, <2>2, ProgressHeld DEF BeginExtract, Placed
  <2>5. Raw(u) = Absent
    <3>1. ~Marked("extracting", u) /\ ~Marked("extracted", u)
      BY <1>1, <1>4, <1>9 DEF BeginExtract
    <3> QED
      BY <1>2, <3>1 DEF Status, Moved, InPlace, Renamed, Raw, Tree
  <2>6. pc' = "tar" /\ U' = u /\ Raw(u)' = Raw(u)
    BY <1>1, <1>9 DEF BeginExtract, U, Raw
  <2> QED
    BY <2>3, <2>4, <2>5, <2>6 DEF Placed, Now, Advised
<1>10. CASE BeginTar
  <2>1. tree' = [tree EXCEPT ![Unpacks[u]][u] = Broken] /\ UNCHANGED <<marks, plan, i>>
    BY <1>1, <1>10 DEF BeginTar
  <2>2. Marked("extracting", u) /\ ~Marked("extracted", u)
    BY <1>1, <1>4, <1>10 DEF BeginTar, Working, Pending
  <2>3. Kept'
    <3>1. ~Marked("patched", u)
      BY <1>2, <2>2 DEF Status, Moved, InPlace
    <3> QED
      BY <1>2, <2>1, <2>2, <3>1, KeptTree
  <2>4. Progress'
    BY <1>3, <2>1, ProgressHeld DEF Placed
  <2>5. clean'
    BY <1>1, <1>10 DEF BeginTar, Placed, Now, Raw
  <2> QED
    BY <1>10, <2>3, <2>4, <2>5 DEF BeginTar, Placed, Now, Advised
<1>11. CASE EndTar
  <2>1. tree' = [tree EXCEPT ![Unpacks[u]][u] = Whole(0)] /\ UNCHANGED <<marks, plan, i>>
    BY <1>1, <1>11 DEF EndTar, Placed, Now
  <2>2. Marked("extracting", u) /\ ~Marked("extracted", u)
    BY <1>1, <1>4, <1>11 DEF EndTar, Working, Pending
  <2>3. Kept'
    <3>1. ~Marked("patched", u)
      BY <1>2, <2>2 DEF Status, Moved, InPlace
    <3> QED
      BY <1>2, <2>1, <2>2, <3>1, KeptTree
  <2>4. Progress'
    BY <1>3, <2>1, ProgressHeld DEF Placed
  <2>5. U' = u /\ Raw(u)' = Whole(0)
    BY <1>1, <1>2, <2>1, TreeGrown DEF U
  <2> QED
    BY <1>11, <2>3, <2>4, <2>5 DEF EndTar, Placed, Now, Advised
<1>12. CASE MarkExtracted
  <2>1. marks' = marks \cup {<<"extracted", NameOf("extracted", u)>>} /\ UNCHANGED <<tree, plan, i>>
    BY <1>1, <1>12 DEF MarkExtracted, NameOf
  <2>2. Raw(u) = Whole(0) /\ ~Marked("extracted", u)
    BY <1>1, <1>4, <1>12 DEF MarkExtracted, Placed, Now, Pending
  <2>3. \A v \in Units : Within(u, v) => Marked("patched", v)
    BY <1>0, <1>1, <1>3, Before DEF Placed
  <2>4. Kept'
    BY <2>1, <2>2, <2>3, KeptMark DEF Kinds
  <2>5. Progress'
    BY <1>3, <2>1, ProgressHeld DEF Placed
  <2> QED
    BY <1>12, <2>4, <2>5 DEF MarkExtracted, Placed, Now, Advised
<1>13. CASE UnmarkExtracting
  <2>1. marks' = marks \ {<<"extracting", NameOf("extracting", u)>>} /\ UNCHANGED <<tree, plan>>
    BY <1>1, <1>13 DEF UnmarkExtracting, NameOf
  <2>2. Marked("extracted", u)
    BY <1>1, <1>13 DEF UnmarkExtracting, Working
  <2>3. Kept'
    BY <2>1, <2>2, KeptUnmark
  <2>4. \A c \in {"extracted", "patched"}, v \in Units : Marked(c, v) => Marked(c, v)'
    BY <2>1, MarkRemoved DEF Kinds
  <2>5. Carried("extract", u)'
    BY <2>2, <2>4 DEF Carried
  <2>6. Progress'
    BY <1>0, <1>1, <1>3, <1>13, <2>4, <2>5, ProgressNext DEF UnmarkExtracting, NextOp, Placed
  <2> QED
    BY <1>13, <2>3, <2>6 DEF UnmarkExtracting, NextOp, Placed, Now, Advised
<1> QED
  BY <1>5, <1>6, <1>7, <1>8, <1>9, <1>10, <1>11, <1>12, <1>13 DEF Extract

LEMMA PatchPlaced ==
    ASSUME Plain, TypeOK, Own, Pending, Working, Kept, Placed, plan' = plan, Patch
    PROVE  Kept' /\ Placed'
<1>0. i <= Len(plan) /\ plan[i].op = "patch"
  BY DEF Patch, SkipPatch, RefusePatch, BeginPatch, CannotPatch, ApplyPatch, PatchFails,
         PatchesDone, MarkPatched, UnmarkPatching, At, Working, TypeOK
<1>1. PICK u \in Units : u = U
  BY <1>0, PlainOp
<1>2. /\ Dir[u] \in Places /\ Dir[u] \in DirsOf(u)
      /\ Status(u) /\ ~Does("link", u) /\ Does("extract", u)
      /\ k \in Nat /\ NPatches[u] \in Nat
  BY <1>0, <1>1, PlainOp DEF DirsOf, Kept, TypeOK
<1>3. pc \notin {"idle", "wipe"}
  BY DEF Patch, SkipPatch, RefusePatch, BeginPatch, CannotPatch, ApplyPatch, PatchFails,
         PatchesDone, MarkPatched, UnmarkPatching, At
<1>4. /\ Patching(u) <=> Marked("patching", u)
      /\ Patched(u) <=> Marked("patched", u)
  BY Named
<1>5. /\ Marked("extracted", u)
      /\ \A v \in Units : Within(u, v) => Marked("patched", v)
  BY <1>0, <1>1, <1>3, Before DEF Placed
<1>6. CASE SkipPatch
  <2>1. Kept'
    BY <1>6, KeptSame DEF SkipPatch, source
  <2>2. Carried("patch", u)' /\ marks' = marks
    BY <1>1, <1>4, <1>6 DEF SkipPatch, source, Carried, Marked, NameOf
  <2>3. Progress'
    BY <1>0, <1>1, <1>3, <1>6, <2>2, ProgressNext DEF SkipPatch, NextOp, Marked, NameOf, Placed
  <2> QED
    BY <1>6, <2>1, <2>3 DEF SkipPatch, NextOp, Placed, Now, Advised
<1>7. CASE RefusePatch
  <2>1. Kept' /\ UNCHANGED marks
    BY <1>7, KeptSame DEF RefusePatch, source
  <2>2. Unfinished(PatchAdvice(u))
    BY <1>1, <1>2, <1>4, <1>7 DEF RefusePatch, Unfinished
  <2>3. Unfinished(PatchAdvice(u))'
    BY <2>1, <2>2, UnfinishedSame
  <2> QED
    BY <1>1, <1>7, <2>1, <2>3, PlacedAbort DEF RefusePatch
<1>8. CASE CannotPatch
  BY <1>8, KeptSame, NothingUnfinished, PlacedAbort DEF CannotPatch, source
<1>9. CASE BeginPatch
  <2>1. marks' = marks \cup {<<"patching", NameOf("patching", u)>>} /\ UNCHANGED <<tree, plan, i>>
    BY <1>1, <1>9 DEF BeginPatch, NameOf
  <2>2. Kept'
    BY <1>2, <1>5, <2>1, KeptMark DEF Kinds
  <2>3. Progress'
    BY <1>3, <2>1, ProgressHeld DEF Placed
  <2>4. Tree(u) = Whole(0) \/ (Renamed(u) /\ Tree(u) = Absent)
    <3>1. ~Marked("patching", u) /\ ~Marked("patched", u)
      BY <1>1, <1>4, <1>9 DEF BeginPatch
    <3> QED
      BY <1>2, <1>5, <3>1 DEF Status, Moved, InPlace
  <2>5. pc' = "patch" /\ k' = 0 /\ U' = u /\ Tree(u)' = Tree(u)
    BY <1>1, <1>9, <2>1 DEF BeginPatch, U, Tree
  <2> QED
    BY <1>2, <2>2, <2>3, <2>4, <2>5 DEF Placed, Now, Advised
<1>10. CASE ApplyPatch
  <2>0. Whole(k) # Broken /\ Whole(k) # Absent /\ Broken # Absent
    BY <1>2 DEF Whole, Broken, Absent
  <2>1. k < NPatches[u] /\ Tree(u) = Whole(k)
    BY <1>1, <1>10, <2>0 DEF ApplyPatch, PatchLeft, Placed, Now, Tree
  <2>2. tree' = [tree EXCEPT ![Dir[u]][u] = Whole(k + 1)] /\ UNCHANGED <<marks, plan, i>>
    BY <1>1, <1>2, <2>0, <2>1, <1>10 DEF ApplyPatch, Tree, TypeOK
  <2>3. Marked("patching", u) /\ ~Marked("patched", u)
    BY <1>1, <1>4, <1>10 DEF ApplyPatch, Working, Pending
  <2>8. Renamed(u) => Raw(u) = Absent /\ Dir[u] # Unpacks[u]
    BY <1>2, <2>0, <2>1 DEF Status, Moved, Renamed
  <2>4. Kept'
    BY <1>2, <1>5, <2>2, <2>3, <2>8, KeptTree
  <2>5. Progress'
    BY <1>3, <2>2, ProgressHeld DEF Placed
  <2>6. Tree(u)' = Whole(k + 1)
    BY <1>2, <2>2, TreeGrown
  <2>7. U' = u /\ pc' = "patch" /\ k' = k + 1 /\ k + 1 <= NPatches[u]
    BY <1>1, <1>2, <1>10, <2>1 DEF ApplyPatch, U
  <2> QED
    BY <1>10, <2>4, <2>5, <2>6, <2>7 DEF Placed, Now, Advised
<1>11. CASE PatchFails
  <2>1. /\ \/ Tree(u) = Absent /\ tree' = [tree EXCEPT ![Dir[u]][u] = Absent]
           \/ Tree(u) # Absent /\ tree' = [tree EXCEPT ![Dir[u]][u] = Broken]
        /\ UNCHANGED <<marks, plan>>
    BY <1>1, <1>2, <1>11 DEF PatchFails, Tree, TypeOK
  <2>2. Marked("patching", u) /\ ~Marked("patched", u)
    BY <1>1, <1>4, <1>11 DEF PatchFails, Working, Pending
  <2>4. Renamed(u) => Dir[u] # Unpacks[u] /\ (Tree(u) # Absent => Raw(u) = Absent)
    BY <1>2 DEF Status, Moved, Renamed
  <2>3. Kept'
    <3>1. CASE Tree(u) = Absent
      BY <1>2, <1>5, <2>1, <2>2, <2>4, <3>1, KeptTree
    <3>2. CASE Tree(u) # Absent
      BY <1>2, <1>5, <2>1, <2>2, <2>4, <3>2, KeptTree
    <3> QED
      BY <3>1, <3>2
  <2> QED
    BY <1>11, <2>3, NothingUnfinished, PlacedAbort DEF PatchFails, Fails
<1>12. CASE PatchesDone
  <2>1. Kept'
    BY <1>12, KeptSame DEF PatchesDone, source
  <2>2. Progress'
    BY <1>3, <1>12, ProgressHeld DEF PatchesDone, source, Placed
  <2>4. Renamed(u) => Tree(u) # Absent
    <3> SUFFICES ASSUME Renamed(u) PROVE Tree(u) # Absent
      OBVIOUS
    <3>1. PatchCwd[u] = Dir[u] /\ Dir[u] # "src"
      BY <1>2 DEF Plain
    <3>2. Dir[u] \in dirs
      BY <1>1, <1>12, <3>1 DEF PatchesDone, Enters
    <3> QED
      BY <1>2, <3>2 DEF Own, Tree
  <2>3. Tree(u)' = Whole(NPatches[u]) /\ U' = u
    BY <1>1, <1>12, <2>4 DEF PatchesDone, source, Placed, Now, Tree, U
  <2> QED
    BY <1>12, <2>1, <2>2, <2>3 DEF PatchesDone, Placed, Now, Advised
<1>13. CASE MarkPatched
  <2>1. marks' = marks \cup {<<"patched", NameOf("patched", u)>>} /\ UNCHANGED <<tree, plan, i>>
    BY <1>1, <1>13 DEF MarkPatched, NameOf
  <2>2. Tree(u) = Whole(NPatches[u])
    BY <1>1, <1>13 DEF MarkPatched, Placed, Now
  <2>3. Kept'
    BY <1>2, <1>5, <2>1, <2>2, KeptMark DEF Kinds
  <2>4. Progress'
    BY <1>3, <2>1, ProgressHeld DEF Placed
  <2> QED
    BY <1>13, <2>3, <2>4 DEF MarkPatched, Placed, Now, Advised
<1>14. CASE UnmarkPatching
  <2>1. marks' = marks \ {<<"patching", NameOf("patching", u)>>} /\ UNCHANGED <<tree, plan>>
    BY <1>1, <1>14 DEF UnmarkPatching, NameOf
  <2>2. Marked("patched", u)
    BY <1>1, <1>14 DEF UnmarkPatching, Working
  <2>3. Kept'
    BY <2>1, <2>2, KeptUnmark
  <2>4. \A c \in {"extracted", "patched"}, v \in Units : Marked(c, v) => Marked(c, v)'
    BY <2>1, MarkRemoved DEF Kinds
  <2>5. Carried("patch", u)'
    BY <2>2, <2>4 DEF Carried
  <2>6. Progress'
    BY <1>0, <1>1, <1>3, <1>14, <2>4, <2>5, ProgressNext DEF UnmarkPatching, NextOp, Placed
  <2> QED
    BY <1>14, <2>3, <2>6 DEF UnmarkPatching, NextOp, Placed, Now, Advised
<1> QED
  BY <1>6, <1>7, <1>8, <1>9, <1>10, <1>11, <1>12, <1>13, <1>14 DEF Patch

LEMMA LinkPlaced ==
    ASSUME Plain, TypeOK, Pending, Working, Kept, Placed, plan' = plan, Between, ~Rename
    PROVE  Kept' /\ Placed'
<1>0. i <= Len(plan) /\ plan[i].op = "link"
  BY DEF Between, SkipLink, BeginLink, CannotLink, MarkLink, At, Working, TypeOK
<1>1. PICK u \in Units : u = U
  BY <1>0, PlainOp
<1>2. /\ InPlace(u) /\ Does("link", u) /\ ~Renamed(u)
      /\ Dir[u] \in Places /\ Dir[u] \in DirsOf(u)
  BY <1>0, <1>1, PlainOp DEF Kept, Status, DirsOf
<1>3. pc \notin {"idle", "wipe"}
  BY DEF Between, SkipLink, BeginLink, CannotLink, MarkLink, At
<1>4. Extracted(u) <=> Marked("extracted", u)
  BY Named
<1>5. CASE SkipLink
  <2>1. Kept'
    BY <1>5, KeptSame DEF SkipLink, source
  <2>2. Carried("link", u)' /\ marks' = marks
    BY <1>1, <1>4, <1>5 DEF SkipLink, source, Carried, Marked, NameOf
  <2>3. Progress'
    BY <1>0, <1>1, <1>3, <1>5, <2>2, ProgressNext DEF SkipLink, NextOp, Marked, NameOf, Placed
  <2> QED
    BY <1>5, <2>1, <2>3 DEF SkipLink, NextOp, Placed, Now, Advised
<1>6. CASE BeginLink
  <2>1. tree' = [tree EXCEPT ![Dir[u]][u] = Whole(0)] /\ UNCHANGED <<marks, plan, i>>
    BY <1>1, <1>6 DEF BeginLink
  <2>2. ~Marked("extracted", u)
    BY <1>1, <1>4, <1>6 DEF BeginLink
  <2>3. Kept'
    BY <1>2, <2>1, <2>2, KeptTree DEF InPlace
  <2>4. Progress'
    BY <1>3, <2>1, ProgressHeld DEF Placed
  <2>5. U' = u /\ Tree(u)' = Whole(0)
    BY <1>1, <1>2, <2>1, TreeGrown DEF U
  <2> QED
    BY <1>6, <2>3, <2>4, <2>5 DEF BeginLink, Placed, Now, Advised
<1>7. CASE CannotLink
  BY <1>7, KeptSame, NothingUnfinished, PlacedAbort DEF CannotLink, source
<1>8. CASE MarkLink
  <2>1. marks' = marks \cup {<<"extracted", NameOf("extracted", u)>>} /\ UNCHANGED <<tree, plan>>
    BY <1>1, <1>8 DEF MarkLink, NameOf
  <2>2. Raw(u) = Whole(0)
    BY <1>1, <1>2, <1>8 DEF MarkLink, Placed, Now, Renamed, Raw, Tree
  <2>3. \A v \in Units : Within(u, v) => Marked("patched", v)
    BY <1>0, <1>1, <1>3, Before DEF Placed
  <2>4. \A c \in Kinds, v \in Units : Marked(c, v)' <=> (Marked(c, v) \/ (c = "extracted" /\ v = u))
    BY <2>1, MarkAdded DEF Kinds
  <2>5. Kept'
    <3>1. CASE Marked("extracted", u)
      <4>1. marks' = marks
        BY <2>1, <3>1 DEF Marked
      <4> QED
        BY <2>1, <4>1, KeptSame
    <3>2. CASE ~Marked("extracted", u)
      BY <2>1, <2>2, <2>3, <3>2, KeptMark DEF Kinds
    <3> QED
      BY <3>1, <3>2
  <2>6. Carried("link", u)'
    BY <2>4 DEF Carried, Kinds
  <2>7. Progress'
    BY <1>0, <1>1, <1>3, <1>8, <2>4, <2>6, ProgressNext DEF MarkLink, NextOp, Placed, Kinds
  <2> QED
    BY <1>8, <2>5, <2>7 DEF MarkLink, NextOp, Placed, Now, Advised
<1> QED
  BY <1>5, <1>6, <1>7, <1>8 DEF Between

LEMMA RenamePlaced ==
    ASSUME Plain, TypeOK, Own, Kept, Placed, plan' = plan, Rename
    PROVE  Kept' /\ Placed'
<1>0. i <= Len(plan) /\ plan[i].op = "rename" /\ pc = "next"
  BY DEF Rename, At
<1>1. PICK u \in Units : u = U
  BY <1>0, PlainOp
<1>2. /\ Renamed(u) /\ Unpacks[u] \in Places /\ Dir[u] \in Places /\ Unpacks[u] # Dir[u]
      /\ Moved(u) /\ Marked("extracted", u) /\ marks' = marks
  BY <1>0, <1>1, Before, Renaming DEF Rename, Placed, Kept, Status, Renamed
<1>3. Kept'
  <2>1. CASE UNCHANGED tree
    BY <1>2, <2>1, KeptSame
  <2>2. CASE ~UNCHANGED tree
    <3>1. Unpacks[u] \in dirs
      BY <1>1, <2>2, Renaming
    <3>2. Raw(u) # Absent
      BY <1>2, <3>1 DEF Own, DirsOf, Raw
    <3>3. Raw(u) = Whole(0) /\ Tree(u) = Absent
      BY <1>2, <3>2 DEF Moved
    <3>4. Dir[u] \notin dirs
      BY <1>2, <3>3 DEF Own, DirsOf, Tree
    <3>5. Raw(u)' = Absent /\ Tree(u)' = Whole(0)
      BY <1>1, <1>2, <2>2, <3>3, <3>4, Renaming DEF Raw, Tree
    <3>6. ASSUME NEW v \in Units, v # u PROVE Tree(v)' = Tree(v) /\ Raw(v)' = Raw(v)
      <4>1. Dir[v] \notin DirsOf(u) /\ Unpacks[v] \notin DirsOf(u)
        BY <1>2, <3>6, Apart DEF DirsOf
      <4> QED
        BY <1>1, <2>2, <4>1, Renaming DEF Raw, Tree
    <3>7. \A c \in Kinds, v \in Units : Marked(c, v)' <=> Marked(c, v)
      BY <1>2 DEF Marked, NameOf
    <3>8. \A v \in Units : \A w \in Units : Within(v, w)' <=> Within(v, w)
      BY DEF Within, Does
    <3>9. Absent # Whole(NPatches[u])
      BY DEF Absent, Whole
    <3>10. Moved(u)'
      BY <1>2, <3>3, <3>5, <3>7, <3>9 DEF Moved, Kinds
    <3> SUFFICES ASSUME NEW v \in Units PROVE Status(v)' /\ Inner(v)'
      BY DEF Kept
    <3>11. Status(v) /\ Inner(v)
      BY DEF Kept
    <3>12. Inner(v)'
      BY <3>7, <3>8, <3>11 DEF Inner, Begun, Kinds
    <3>13. CASE v # u
      BY <3>6, <3>7, <3>11, <3>12, <3>13, StatusSame
    <3>14. CASE v = u
      BY <1>2, <3>10, <3>12, <3>14 DEF Status, Renamed
    <3> QED
      BY <3>13, <3>14
  <2> QED
    BY <2>1, <2>2
<1>4. Carried("rename", u)'
  BY DEF Carried
<1>5. Progress'
  BY <1>0, <1>1, <1>2, <1>4, ProgressNext DEF Rename, NextOp, Marked, NameOf, Placed
<1> QED
  BY <1>3, <1>5 DEF Rename, NextOp, Placed, Now, Advised

-----------------------------------------------------------------------------
(* The invariant *)

IInv ==
    /\ TypeOK
    /\ Pending
    /\ Homes
    /\ Own
    /\ Working
    /\ torn \/ (Kept /\ Placed)

\* With no marker and no tree nothing is begun.
LEMMA NothingKept ==
    ASSUME Homes, dirs = {}, marks = {}
    PROVE  Kept
<1>1. \A u \in Units : Dir[u] \in Places /\ Unpacks[u] \in Places
  OBVIOUS
<1>2. \A u \in Units : Tree(u) = Absent /\ Raw(u) = Absent
  BY <1>1 DEF Homes, Tree, Raw
<1>3. \A u \in Units, c \in Kinds : ~Marked(c, u)
  BY DEF Marked
<1> QED
  BY <1>2, <1>3 DEF Kept, Status, Moved, InPlace, Inner, Begun, Kinds

LEMMA NothingKeptNext ==
    ASSUME Homes', dirs' = {}, marks' = {}
    PROVE  Kept'
<1>1. \A u \in Units : Dir[u] \in Places /\ Unpacks[u] \in Places
  OBVIOUS
<1>2. \A u \in Units : Tree(u)' = Absent /\ Raw(u)' = Absent
  BY <1>1 DEF Homes, Tree, Raw
<1>3. \A u \in Units, c \in Kinds : ~Marked(c, u)'
  BY DEF Marked
<1> QED
  BY <1>2, <1>3 DEF Kept, Status, Moved, InPlace, Inner, Begun, Kinds

LEMMA InitIInv == Init => IInv
<1> SUFFICES ASSUME Init PROVE IInv
  OBVIOUS
<1>1. TypeOK
  BY InitType
<1>2. Pending /\ Working
  BY DEF Init, Pending, Working
<1>3. Homes /\ Own
  BY DEF Init, Homes, Own, NoTrees
<1>4. Kept
  BY <1>3, NothingKept DEF Init
<1>5. Placed
  BY DEF Init, Placed, Now, Progress, Advised, Unfinished
<1> QED
  BY <1>1, <1>2, <1>3, <1>4, <1>5 DEF IInv

LEMMA KeptStep ==
    ASSUME Plain, IInv, [Next]_vars, ~torn'
    PROVE  Kept' /\ Placed'
<1> USE DEF IInv
<1>1. CASE torn
  <2>1. Wiped
    BY <1>1 DEF vars, Next, Start, FollowAdvice, Crash, Driver, Wipe, WipeMark, BreakDir, WipeDir,
           Extract, SkipExtract, RefuseExtract, BeginExtract, NoCwd, BeginTar, TarFails, EndTar,
           MarkExtracted, UnmarkExtracting, Patch, SkipPatch, RefusePatch, BeginPatch,
           CannotPatch, ApplyPatch, PatchFails, PatchesDone, MarkPatched, UnmarkPatching,
           Between, Rename, SkipLink, BeginLink, CannotLink, MarkLink, Done, Abort, Fails
  <2>2. dirs' = {} /\ marks' = {} /\ Homes'
    BY <2>1, HomesStep DEF Wiped, source
  <2>3. Kept'
    BY <2>2, NothingKeptNext
  <2>4. pc' = "next" /\ i' = 1
    BY <2>1 DEF Wiped, Working
  <2> QED
    BY <2>3, <2>4 DEF Placed, Now, Progress, Advised
<1>2. CASE UNCHANGED vars
  <2>1. Kept /\ Placed
    BY <1>2 DEF vars
  <2>2. Kept'
    BY <1>2, <2>1, KeptSame DEF vars, source
  <2>4. Now'
    BY <1>2, <2>1 DEF vars, source, Placed, Now, Tree, Raw, Renamed, U
  <2>5. Progress'
    BY <1>2, <2>1 DEF vars, source, Placed, Progress, Carried, Marked, NameOf
  <2>6. Advised'
    BY <1>2, <2>1, UnfinishedSame DEF vars, source, Placed, Advised
  <2>3. Placed'
    BY <2>4, <2>5, <2>6 DEF Placed
  <2> QED
    BY <2>2, <2>3
<1> SUFFICES ASSUME Next, Kept, Placed, ~torn PROVE Kept' /\ Placed'
  BY <1>1, <1>2
<1>3. plan' = plan
  BY DEF Next
<1>4. CASE Start(FALSE)
  <2>1. Kept'
    BY <1>3, <1>4, KeptSame DEF Start, source
  <2> QED
    BY <1>4, <2>1 DEF Start, Placed, Now, Progress, Advised
<1>5. CASE Start(TRUE)
  BY <1>5 DEF Start
<1>6. CASE FollowAdvice
  <2>1. Kept'
    BY <1>3, <1>6, KeptFollow DEF Placed
  <2>2. pc' = "idle" /\ advice' = NoAdvice
    BY <1>6 DEF FollowAdvice
  <2> QED
    BY <2>1, <2>2 DEF Placed, Now, Progress, Advised, Unfinished
<1>7. CASE Crash
  BY <1>3, <1>7, KeptSame, NothingUnfinished, PlacedAbort DEF Crash, source
<1>8. CASE Wipe
  BY <1>8 DEF Wipe, WipeMark, BreakDir, WipeDir, Wiped, Working
<1>9. CASE Extract
  BY <1>3, <1>9, ExtractPlaced
<1>10. CASE Patch
  BY <1>3, <1>10, PatchPlaced
<1>11. CASE Between
  BY <1>3, <1>11, LinkPlaced, RenamePlaced
<1>12. CASE Done
  <2>1. Kept'
    BY <1>3, <1>12, KeptSame DEF Done, source
  <2>2. Progress'
    BY <1>3, <1>12, ProgressHeld DEF Done, source, Placed
  <2> QED
    BY <1>12, <2>1, <2>2 DEF Done, Placed, Now, Advised
<1> QED
  BY <1>4, <1>5, <1>6, <1>7, <1>8, <1>9, <1>10, <1>11, <1>12 DEF Next, Driver

LEMMA StepIInv == Plain /\ IInv /\ [Next]_vars => IInv'
<1> SUFFICES ASSUME Plain, IInv, [Next]_vars PROVE IInv'
  OBVIOUS
<1>1. TypeOK'
  BY StepType DEF IInv
<1>2. Pending'
  BY PendingStep DEF IInv
<1>3. Homes' /\ Own' /\ Working'
  BY HomesStep, OwnStep, WorkingStep DEF IInv
<1>4. torn' \/ (Kept' /\ Placed')
  BY KeptStep
<1> QED
  BY <1>1, <1>2, <1>3, <1>4 DEF IInv

LEMMA IInvExact == Plain /\ IInv => ExactSources
<1> SUFFICES ASSUME Plain, IInv, pc = "done", ~torn, NEW u \in Sources
             PROVE  tree[Dir[u]][u] = Whole(NPatches[u])
  BY DEF ExactSources, Exact
<1>1. plan \in Plans /\ plan \in Seq(Ops) /\ Len(plan) \in Nat /\ i = Len(plan) + 1
  <2>1. plan \in Plans /\ i \in 1..(Len(plan) + 1) /\ i > Len(plan)
    BY DEF IInv, TypeOK, Working
  <2>2. plan \in Seq(Ops) /\ Len(plan) \in Nat
    BY <2>1, LenProperties
  <2> QED
    BY <2>1, <2>2
<1>2. PICK j \in 1..Len(plan) : plan[j].unit = u
  BY DEF Sources
<1>3. u \in Units
  <2>1. plan[j] \in Ops
    BY <1>1, ElementOfSeq
  <2> QED
    BY <1>2, <2>1 DEF Ops
<1>4. \A h \in 1..Len(plan) : Carried(plan[h].op, plan[h].unit)
  BY <1>1 DEF IInv, Placed, Progress
<1>5. Status(u)
  BY <1>3 DEF IInv, Kept
<1>6. CASE Does("patch", u)
  BY <1>4, <1>5, <1>6 DEF Does, Has, Carried, Status, Moved, InPlace, Tree
<1>7. CASE Does("link", u)
  <2>1. PICK h \in 1..Len(plan) : plan[h].op = "link" /\ plan[h].unit = u
    BY <1>7 DEF Does, Has
  <2>2. NPatches[u] = 0 /\ ~Renamed(u)
    BY <1>1, <2>1 DEF Plain
  <2>3. Marked("extracted", u)
    BY <1>4, <2>1 DEF Carried
  <2> QED
    BY <1>5, <1>7, <2>2, <2>3 DEF Status, InPlace, Tree
<1> QED
  BY <1>1, <1>2, <1>6, <1>7 DEF Plain, Does

\* What gets past the extraction is there, whole, and with all its patches applied once
\* and in order, whatever failed or was killed before and whatever the user removed when
\* told to, however many tarballs and patches there are, renamed in between or not; for
\* the layouts of Plain.
THEOREM ExactSourcesCorrect ==
    ASSUME Plain
    PROVE  Spec => []ExactSources
<1>1. Init => IInv
  BY InitIInv
<1>2. IInv /\ [Next]_vars => IInv'
  BY StepIInv
<1>3. IInv => ExactSources
  BY IInvExact
<1> QED
  BY <1>1, <1>2, <1>3, PTL DEF Spec
=============================================================================
