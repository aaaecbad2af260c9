--------------------------- MODULE DownloadProofs ---------------------------
(***************************************************************************)
(* The local storage holds whole tarballs only, when it is on the same     *)
(* file system; builds that share it do not harm each other in the end, on *)
(* any; they lose no copy; and a build that has it to itself retrieves     *)
(* everything.  What is downloaded is proved about beside what CT_GetCVS   *)
(* gets, which may leave parts and is proved not to be lost.               *)
(***************************************************************************)
EXTENDS Download, FiniteSetTheorems, TLAPS

\* b is at a tarball that is downloaded.
Plainly(b) == File(b) \notin FromCVS

-----------------------------------------------------------------------------
(* Types *)

LEMMA FileType == TypeOK => \A b \in Builds : File(b) \in Files
<1>1. Plan \in Seq(Files)
  BY DownloadAssumption
<1> QED
  BY <1>1 DEF TypeOK, File

LEMMA PlanLength == Len(Plan) \in Nat /\ Len(Plan) >= 1
  BY DownloadAssumption

\* b goes to one of L, and the others stay where they are.
Moved(b, L) ==
    /\ at' \in [Builds -> 1..Len(Plan)]
    /\ pc' \in [Builds -> PCs]
    /\ pc'[b] \in L
    /\ \A c \in Builds : c # b => at'[c] = at[c] /\ pc'[c] = pc[c]

\* The next file, or the end.
LEMMA NextFileResult ==
  ASSUME TypeOK, NEW b \in Builds, NextFile(b)
  PROVE  /\ Moved(b, {"get", "done"})
         /\ pc'[b] = "get" => at'[b] = at[b] + 1
         /\ pc'[b] = "done" => at[b] = Len(Plan) /\ at'[b] = 1
  BY PlanLength DEF TypeOK, NextFile, More, PCs, Moved

\* Another place in the code, and the same file.
LEMMA GotoResult ==
  ASSUME TypeOK, NEW b \in Builds, NEW l \in PCs, Goto(b, l)
  PROVE  Moved(b, {l}) /\ at' = at
  BY DEF TypeOK, Goto, Moved

\* Another place too, and who was copying to the same name no longer does.
LEMMA OvertakeResult ==
  ASSUME TypeOK, NEW b \in Builds, NEW l \in PCs, Overtake(b, l)
  PROVE  /\ at' = at /\ pc' \in [Builds -> PCs] /\ pc'[b] = l
         /\ \A c \in Builds : c # b => \/ pc'[c] = pc[c]
                                     \/ /\ pc[c] = "copy" /\ pc'[c] = "copyaway"
                                        /\ File(c) = File(b)
  BY DEF TypeOK, Overtake, PCs

\* The end of the invocation.
LEMMA AbortResult ==
  ASSUME TypeOK, NEW b \in Builds, Abort(b)
  PROVE  Moved(b, {"idle"}) /\ at'[b] = 1
  BY PlanLength DEF TypeOK, Abort, PCs, Moved

-----------------------------------------------------------------------------
(* Whole tarballs only *)

NoPart == \A f \in Files \ FromCVS :
             /\ \A b \in Builds : tarball[b][f] # "part"
             /\ local[f] # "link" /\ (SameFS => local[f] # "part")
NoTar  == \A b \in Builds : /\ Plainly(b) => pc[b] \notin {"tar", "tarring"}
                            /\ SameFS => pc[b] \notin {"copy", "copyaway"}
Moves  == \A b \in Builds : pc[b] = "mv" => tmp[b] = "whole"
Saves  == \A b \in Builds : Plainly(b) =>
             /\ pc[b] \in {"save", "mvlocal", "copy", "copyaway"} => tarball[b][File(b)] = "whole"
             /\ pc[b] = "lnsave" => tarball[b][File(b)] = "none"

WholeInv == TypeOK /\ NoPart /\ NoTar /\ Moves /\ Saves

LEMMA WholeInit == Init => WholeInv
<1> SUFFICES ASSUME Init PROVE WholeInv
  OBVIOUS
<1>1. 1 \in 1..Len(Plan) /\ 0 \in 0..MaxFaults
  BY DownloadAssumption
<1>2. TypeOK
  BY <1>1 DEF Init, TypeOK, Contents, PCs
<1>3. NoPart /\ NoTar /\ Moves /\ Saves
  BY DEF Init, NoPart, NoTar, Moves, Saves
<1> QED
  BY <1>2, <1>3 DEF WholeInv

\* A fault is counted.
LEMMA FaultType == ASSUME TypeOK, Fault PROVE faults' \in 0..MaxFaults
  BY DownloadAssumption DEF TypeOK, Fault

\* The places where nothing is known of the files.
Quiet == PCs \ {"mv", "save", "mvlocal", "tar", "tarring", "copy", "copyaway", "lnsave"}

\* A step of b that changes no file and goes to such a place.
LEMMA QuietStep ==
  ASSUME WholeInv, NEW b \in Builds, UNCHANGED files, Moved(b, Quiet),
         opt' \in [Builds -> Options], faults' \in 0..MaxFaults
  PROVE  WholeInv'
<1> USE DEF WholeInv
<1>1. TypeOK' /\ NoPart'
  BY DEF files, Moved, TypeOK, NoPart
<1>2. NoTar' /\ Moves'
  BY DEF files, Moved, Quiet, NoTar, Plainly, File, Moves
<1>3. Saves'
  BY DEF files, Moved, Quiet, Saves, Plainly, File
<1> QED
  BY <1>1, <1>2, <1>3

\* A step of CT_GetCVS does nothing to what is downloaded.
LEMMA CVSStep ==
  ASSUME WholeInv, NEW b \in Builds, ~Plainly(b),
         \/ Moved(b, {"idle"})
         \/ Moved(b, {"tar", "tarring", "save"}) /\ at' = at,
         UNCHANGED <<tmp, opt>>, faults' \in 0..MaxFaults,
         \/ UNCHANGED <<tarball, local>>
         \/ \E x \in {"part", "whole"} : SetTarball(b, x) /\ local' = local
         \/ \E x \in {"part", "whole", "link"} : SetLocal(b, x) /\ tarball' = tarball
  PROVE  WholeInv'
<1> USE FileType DEF WholeInv
<1>1. File(b) \in FromCVS
  BY DEF Plainly
<1>2. /\ \A c \in Builds, f \in Files : f # File(b) => tarball'[c][f] = tarball[c][f]
      /\ \A f \in Files : f # File(b) => local'[f] = local[f]
  BY DEF SetTarball, SetLocal, TypeOK
<1>3. TypeOK'
  <2>1. CASE UNCHANGED <<tarball, local>>
    BY <2>1 DEF Moved, TypeOK
  <2>2. ASSUME NEW x \in Contents, SetTarball(b, x), local' = local PROVE TypeOK'
    BY <2>2 DEF SetTarball, Moved, TypeOK
  <2>3. ASSUME NEW x \in Contents, SetLocal(b, x), tarball' = tarball PROVE TypeOK'
    BY <2>3 DEF SetLocal, Moved, TypeOK
  <2>4. \A x : x \in {"part", "whole", "link"} => x \in Contents
    BY DEF Contents
  <2> QED
    BY <2>1, <2>2, <2>3, <2>4
<1>4. NoPart'
  BY <1>1, <1>2 DEF NoPart
<1>5. NoTar' /\ Moves'
  BY DEF Moved, NoTar, Moves, Plainly, File
<1>6. Saves'
  <2> SUFFICES ASSUME NEW c \in Builds, Plainly(c)',
                      pc'[c] \in {"save", "mvlocal", "copy", "copyaway", "lnsave"}
               PROVE  /\ c # b /\ Plainly(c) /\ File(c)' = File(c) /\ pc'[c] = pc[c]
                      /\ File(c) \in Files /\ File(c) # File(b)
    BY <1>2 DEF Saves
  <2>1. c # b
    BY DEF Moved, Plainly, File
  <2> QED
    BY <1>1, <2>1 DEF Moved, Plainly, File
<1> QED
  BY <1>3, <1>4, <1>5, <1>6

LEMMA WholeStep ==
  ASSUME WholeInv, [Next]_vars
  PROVE  WholeInv'
<1> USE DEF WholeInv
<1> USE FileType
<1>1. CASE UNCHANGED vars
  BY <1>1 DEF vars, files, TypeOK, NoPart, NoTar, Plainly, Moves, Saves, File
<1>2. ASSUME NEW b \in Builds, Start(b) PROVE WholeInv'
  <2> PICK o \in Options :
        /\ opt' = [opt EXCEPT ![b] = o]
        /\ Goto(b, IF o.forbid THEN "done" ELSE IF o.force THEN "wipe" ELSE "get")
    BY <1>2 DEF Start
  <2>1. PICK l \in {"done", "wipe", "get"} : Goto(b, l)
    OBVIOUS
  <2>2. Moved(b, {l})
    BY <2>1, GotoResult DEF PCs
  <2>3. Moved(b, Quiet)
    BY <2>2 DEF Moved, Quiet, PCs
  <2> QED
    BY <1>2, <2>3, QuietStep DEF Start, TypeOK
<1>3. ASSUME NEW b \in Builds, Crash(b) PROVE WholeInv'
  <2>1. Moved(b, Quiet)
    BY <1>3, AbortResult DEF Crash, Moved, Quiet, PCs
  <2> QED
    BY <1>3, <2>1, QuietStep, FaultType DEF Crash, TypeOK
<1>4. ASSUME NEW f \in Files, Clean(f) PROVE WholeInv'
  BY <1>4, FaultType DEF Clean, TypeOK, Contents, NoPart, NoTar, Plainly, Moves, Saves, File
<1>5. ASSUME NEW b \in Builds, WipeFile(b) PROVE WholeInv'
  BY <1>5 DEF WipeFile, TypeOK, Contents, NoPart, NoTar, Plainly, Moves, Saves, File
<1>6. ASSUME NEW b \in Builds, Wiped(b) PROVE WholeInv'
  <2>1. Moved(b, {"get"}) /\ at' = at
    BY <1>6, GotoResult DEF Wiped, PCs
  <2>2. TypeOK'
    BY <1>6, <2>1 DEF Wiped, SetTmp, Moved, TypeOK, Contents
  <2>3. NoPart'
    BY <1>6, <2>1 DEF Wiped, SetTmp, TypeOK, NoPart
  <2>4. NoTar'
    BY <2>1 DEF Moved, NoTar, Plainly, File
  <2>5. Moves'
    BY <1>6, <2>1 DEF Wiped, SetTmp, Moved, TypeOK, Moves
  <2>6. Saves'
    BY <1>6, <2>1 DEF Wiped, SetTmp, Moved, TypeOK, Saves, Plainly, File
  <2> QED
    BY <2>2, <2>3, <2>4, <2>5, <2>6
<1>7. ASSUME NEW b \in Builds, AlreadyHave(b) PROVE WholeInv'
  <2>1. Moved(b, Quiet)
    BY <1>7, NextFileResult DEF AlreadyHave, Moved, Quiet, PCs
  <2> QED
    BY <1>7, <2>1, QuietStep DEF AlreadyHave, TypeOK
<1>8. ASSUME NEW b \in Builds, HaveNot(b) PROVE WholeInv'
  <2>1. Moved(b, {"look"})
    BY <1>8, GotoResult DEF HaveNot, PCs
  <2>2. Moved(b, Quiet)
    BY <2>1 DEF Moved, Quiet, PCs
  <2> QED
    BY <1>8, <2>2, QuietStep DEF HaveNot, TypeOK
<1>9. ASSUME NEW b \in Builds, GotFromLocal(b) PROVE WholeInv'
  <2>1. Moved(b, {"ln"})
    BY <1>9, GotoResult DEF GotFromLocal, PCs
  <2>2. Moved(b, Quiet)
    BY <2>1 DEF Moved, Quiet, PCs
  <2> QED
    BY <1>9, <2>2, QuietStep DEF GotFromLocal, TypeOK
<1>10. ASSUME NEW b \in Builds, NotInLocal(b) PROVE WholeInv'
  <2>1. CASE Plainly(b)
    <3>1. Moved(b, {"fetch"})
      BY <1>10, <2>1, GotoResult DEF NotInLocal, Plainly, PCs
    <3>2. Moved(b, Quiet)
      BY <3>1 DEF Moved, Quiet, PCs
    <3> QED
      BY <1>10, <3>2, QuietStep DEF NotInLocal, TypeOK
  <2>2. CASE ~Plainly(b)
    <3>1. Moved(b, {"tar", "tarring", "save"}) /\ at' = at
      BY <1>10, <2>2, GotoResult DEF NotInLocal, Plainly, Moved, PCs
    <3>2. UNCHANGED <<tmp, opt>> /\ UNCHANGED <<tarball, local>> /\ faults' \in 0..MaxFaults
      BY <1>10 DEF NotInLocal, files, TypeOK
    <3> QED
      BY <2>2, <3>1, <3>2, CVSStep
  <2> QED
    BY <2>1, <2>2
<1>11. ASSUME NEW b \in Builds, LinkToLocal(b) PROVE WholeInv'
  <2>1. Moved(b, {"get", "done"})
    BY <1>11, NextFileResult DEF LinkToLocal, AfterLink
  <2>2. TypeOK'
    BY <1>11, <2>1, ZenonT(60) DEF LinkToLocal, SetTarball, Moved, TypeOK, Contents
  <2>3. NoPart'
    BY <1>11, <2>1 DEF LinkToLocal, SetTarball, TypeOK, NoPart
  <2>4. NoTar'
    BY <2>1 DEF Moved, NoTar, Plainly, File
  <2>5. Moves'
    BY <1>11, <2>1 DEF LinkToLocal, SetTarball, Moved, TypeOK, Moves
  <2>6. Saves'
    BY <1>11, <2>1 DEF LinkToLocal, SetTarball, Moved, TypeOK, Saves, Plainly, File
  <2> QED
    BY <2>2, <2>3, <2>4, <2>5, <2>6
<1>12. ASSUME NEW b \in Builds, RemoveLeftOver(b) PROVE WholeInv'
  <2>1. Moved(b, {"passive"}) /\ at' = at
    BY <1>12, GotoResult DEF RemoveLeftOver, PCs
  <2>2. TypeOK'
    BY <1>12, <2>1 DEF RemoveLeftOver, SetTmp, Moved, TypeOK, Contents
  <2>3. NoPart'
    BY <1>12, <2>1 DEF RemoveLeftOver, SetTmp, TypeOK, NoPart
  <2>4. NoTar'
    BY <2>1 DEF Moved, NoTar, Plainly, File
  <2>5. Moves'
    BY <1>12, <2>1 DEF RemoveLeftOver, SetTmp, Moved, TypeOK, Moves
  <2>6. Saves'
    <3>1. tarball' = tarball /\ \A c \in Builds : File(c)' = File(c)
      BY <1>12, <2>1 DEF RemoveLeftOver, File
    <3> QED
      BY <2>1, <3>1 DEF Moved, Saves, Plainly
  <2> QED
    BY <2>2, <2>3, <2>4, <2>5, <2>6
<1>13. ASSUME NEW b \in Builds, FirstTry(b) PROVE WholeInv'
  <2>1. Moved(b, {"active", "transfer"}) /\ at' = at
    BY <1>13, GotoResult DEF FirstTry, PCs, Moved
  <2>2. UNCHANGED <<tarball, local, opt, faults>> /\ tmp' \in [Builds -> {"none", "part", "whole"}]
        /\ \A c \in Builds : c # b => tmp'[c] = tmp[c]
    BY <1>13 DEF FirstTry, SetTmp, TypeOK
  <2>3. TypeOK' /\ NoPart'
    BY <2>1, <2>2 DEF Moved, TypeOK, NoPart
  <2>4. NoTar' /\ Moves'
    BY <2>1, <2>2 DEF Moved, NoTar, Plainly, File, Moves
  <2>5. Saves'
    BY <2>1, <2>2 DEF Moved, Saves, Plainly, File
  <2> QED
    BY <2>3, <2>4, <2>5
<1>14. ASSUME NEW b \in Builds, Transferred(b) PROVE WholeInv'
  <2>1. Moved(b, {"mv"}) /\ at' = at
    BY <1>14, GotoResult DEF Transferred, PCs
  <2>2. TypeOK'
    BY <1>14, <2>1 DEF Transferred, SetTmp, Moved, TypeOK, Contents
  <2>3. NoPart'
    BY <1>14, <2>1 DEF Transferred, SetTmp, TypeOK, NoPart
  <2>4. NoTar'
    BY <2>1 DEF Moved, NoTar, Plainly, File
  <2>5. Moves'
    BY <1>14, <2>1 DEF Transferred, SetTmp, Moved, TypeOK, Moves
  <2>6. Saves'
    <3>1. tarball' = tarball /\ \A c \in Builds : File(c)' = File(c)
      BY <1>14, <2>1 DEF Transferred, File
    <3> QED
      BY <2>1, <3>1 DEF Moved, Saves, Plainly
  <2> QED
    BY <2>2, <2>3, <2>4, <2>5, <2>6
<1>15. ASSUME NEW b \in Builds, TransferFails(b) PROVE WholeInv'
  <2>1. faults' \in 0..MaxFaults
    BY <1>15, FaultType DEF TransferFails, TypeOK
  <2>2. Moved(b, {"active"})
    BY <1>15, GotoResult DEF TransferFails, AfterFirstTry, PCs
  <2>3. Moved(b, Quiet)
    BY <2>2 DEF Moved, Quiet, PCs
  <2> QED
    BY <1>15, <2>1, <2>3, QuietStep DEF TransferFails, files, TypeOK
<1>16. ASSUME NEW b \in Builds, SecondTry(b) PROVE WholeInv'
  <2>1. CASE Refused(b)
    <3>1. Moved(b, {"idle"})
      BY <1>16, <2>1, AbortResult DEF SecondTry
    <3>2. UNCHANGED <<tarball, local, opt, faults>> /\ tmp' = [tmp EXCEPT ![b] = "none"]
      BY <1>16, <2>1 DEF SecondTry, SetTmp
    <3>3. TypeOK' /\ NoPart'
      BY <3>1, <3>2 DEF Moved, TypeOK, NoPart
    <3>4. NoTar' /\ Saves'
      BY <3>1, <3>2 DEF Moved, NoTar, Plainly, Saves, File
    <3>5. Moves'
      BY <3>1, <3>2 DEF Moved, TypeOK, Moves
    <3> QED
      BY <3>3, <3>4, <3>5
  <2>2. CASE ~Refused(b)
    <3>1. Moved(b, {"mv"}) /\ at' = at
      BY <1>16, <2>2, GotoResult DEF SecondTry, PCs
    <3>2. UNCHANGED <<tarball, local, opt, faults>> /\ tmp' = [tmp EXCEPT ![b] = "whole"]
      BY <1>16, <2>2 DEF SecondTry, SetTmp
    <3>3. TypeOK' /\ NoPart'
      BY <3>1, <3>2 DEF Moved, TypeOK, NoPart
    <3>4. NoTar' /\ Saves'
      BY <3>1, <3>2 DEF Moved, NoTar, Plainly, Saves, File
    <3>5. Moves'
      BY <3>1, <3>2 DEF Moved, TypeOK, Moves
    <3> QED
      BY <3>3, <3>4, <3>5
  <2> QED
    BY <2>1, <2>2
<1>17. ASSUME NEW b \in Builds, MoveToName(b) PROVE WholeInv'
  <2>1. Moved(b, {"save"}) /\ at' = at
    BY <1>17, GotoResult DEF MoveToName, PCs
  <2>2. TypeOK'
    BY <1>17, <2>1 DEF MoveToName, SetTmp, SetTarball, Moved, TypeOK, Contents
  <2>3. NoPart'
    BY <1>17, <2>1 DEF MoveToName, SetTmp, SetTarball, TypeOK, NoPart, Moves
  <2>4. NoTar'
    BY <2>1 DEF Moved, NoTar, Plainly, File
  <2>5. Moves'
    BY <1>17, <2>1 DEF MoveToName, SetTmp, SetTarball, Moved, TypeOK, Moves
  <2>6. Saves'
    BY <1>17, <2>1 DEF MoveToName, SetTmp, SetTarball, Moved, TypeOK, Moves, Saves, Plainly, File
  <2> QED
    BY <2>2, <2>3, <2>4, <2>5, <2>6
<1>18. ASSUME NEW b \in Builds, GetCVS(b) PROVE WholeInv'
  <2>1. ~Plainly(b)
    BY <1>18 DEF GetCVS, BeginTar, TarFails, EndTar, NoTar
  <2>2. faults' \in 0..MaxFaults
    BY <1>18, FaultType DEF GetCVS, BeginTar, TarFails, EndTar, TypeOK
  <2>3. \/ Moved(b, {"idle"})
        \/ Moved(b, {"tar", "tarring", "save"}) /\ at' = at
    BY <1>18, GotoResult, AbortResult DEF GetCVS, BeginTar, TarFails, EndTar, Moved, PCs
  <2>4. /\ UNCHANGED <<tmp, opt>>
        /\ \/ UNCHANGED <<tarball, local>>
           \/ \E x \in {"part", "whole"} : SetTarball(b, x) /\ local' = local
           \/ \E x \in {"part", "whole", "link"} : SetLocal(b, x) /\ tarball' = tarball
    BY <1>18 DEF GetCVS, BeginTar, TarFails, EndTar, files
  <2> QED
    BY <2>1, <2>2, <2>3, <2>4, CVSStep
<1>19. ASSUME NEW b \in Builds, SaveNot(b) PROVE WholeInv'
  <2>1. Moved(b, Quiet)
    BY <1>19, NextFileResult DEF SaveNot, Moved, Quiet, PCs
  <2> QED
    BY <1>19, <2>1, QuietStep DEF SaveNot, TypeOK
<1>20. ASSUME NEW b \in Builds, RemoveFromLocal(b) PROVE WholeInv'
  <2>1. /\ at' = at /\ pc' \in [Builds -> PCs] /\ pc'[b] = "mvlocal" /\ pc[b] = "save"
        /\ \A c \in Builds : c # b => pc'[c] = pc[c] \/ (pc[c] = "copy" /\ pc'[c] = "copyaway")
    BY <1>20, OvertakeResult DEF RemoveFromLocal, PCs
  <2>2. UNCHANGED <<tarball, tmp, opt, faults>> /\ local' = [local EXCEPT ![File(b)] = "none"]
    BY <1>20 DEF RemoveFromLocal, SetLocal
  <2>3. TypeOK' /\ NoPart'
    BY <2>1, <2>2 DEF TypeOK, Contents, NoPart
  <2>4. NoTar' /\ Moves' /\ Saves'
    BY <2>1, <2>2 DEF NoTar, Plainly, Moves, Saves, File
  <2> QED
    BY <2>3, <2>4
<1>21. ASSUME NEW b \in Builds, MoveToLocal(b) PROVE WholeInv'
  <2>1. Moved(b, {"lnsave"}) /\ at' = at
    BY <1>21, GotoResult DEF MoveToLocal, PCs
  <2>2. TypeOK'
    <3>1. tarball[b][File(b)] \in Contents
      BY DEF TypeOK
    <3>2. local' \in [Files -> Contents]
      BY <1>21, <3>1 DEF MoveToLocal, SetLocal, TypeOK
    <3>3. tarball' \in [Builds -> [Files -> Contents]]
      BY <1>21 DEF MoveToLocal, SetTarball, TypeOK, Contents
    <3> QED
      BY <1>21, <2>1, <3>2, <3>3 DEF MoveToLocal, Moved, TypeOK
  <2>3. NoPart'
    BY <1>21, <2>1 DEF MoveToLocal, SetLocal, SetTarball, TypeOK, NoPart, Saves, Plainly
  <2>4. NoTar'
    BY <2>1 DEF Moved, NoTar, Plainly, File
  <2>5. Moves'
    BY <1>21, <2>1 DEF MoveToLocal, SetLocal, SetTarball, Moved, TypeOK, Moves
  <2>6. Saves'
    BY <1>21, <2>1 DEF MoveToLocal, SetLocal, SetTarball, Moved, TypeOK, Saves, Plainly, File
  <2> QED
    BY <2>2, <2>3, <2>4, <2>5, <2>6
<1>22. ASSUME NEW b \in Builds, BeginCopy(b) PROVE WholeInv'
  <2>1. /\ at' = at /\ pc' \in [Builds -> PCs] /\ pc'[b] = "copy" /\ pc[b] = "mvlocal"
        /\ \A c \in Builds : c # b => pc'[c] = pc[c] \/ (pc[c] = "copy" /\ pc'[c] = "copyaway")
        /\ ~SameFS
    BY <1>22, OvertakeResult DEF BeginCopy, Renames, PCs
  <2>2. UNCHANGED <<tarball, tmp, opt, faults>> /\ local' = [local EXCEPT ![File(b)] = "part"]
    BY <1>22 DEF BeginCopy, SetLocal
  <2>3. TypeOK' /\ NoPart'
    BY <2>1, <2>2 DEF TypeOK, Contents, NoPart
  <2>4. NoTar' /\ Moves' /\ Saves'
    BY <2>1, <2>2 DEF NoTar, Plainly, Moves, Saves, File
  <2> QED
    BY <2>3, <2>4
<1>24. ASSUME NEW b \in Builds, EndCopy(b) PROVE WholeInv'
  <2>1. Moved(b, {"lnsave"}) /\ at' = at /\ pc[b] \in {"copy", "copyaway"}
    BY <1>24, GotoResult DEF EndCopy, PCs
  <2>2. tarball' = [tarball EXCEPT ![b][File(b)] = "none"] /\ UNCHANGED <<tmp, opt, faults>>
    BY <1>24 DEF EndCopy, SetTarball
  <2>3. /\ local' \in [Files -> Contents]
        /\ \A f \in Files : \/ local'[f] = local[f]
                            \/ f = File(b) /\ local'[f] = tarball[b][f]
    <3>1. tarball[b][File(b)] \in Contents
      BY DEF TypeOK
    <3> QED
      BY <1>24, <3>1 DEF EndCopy, SetLocal, TypeOK
  <2>4. TypeOK' /\ NoPart'
    <3>1. tarball' \in [Builds -> [Files -> Contents]]
      BY <2>2 DEF TypeOK, Contents
    <3>2. TypeOK'
      BY <2>1, <2>2, <2>3, <3>1 DEF Moved, TypeOK
    <3>3. \A f \in Files \ FromCVS : local'[f] = local[f] \/ local'[f] = "whole"
      BY <2>1, <2>3 DEF Saves, Plainly
    <3>4. \A c \in Builds, f \in Files : tarball'[c][f] = tarball[c][f] \/ tarball'[c][f] = "none"
      BY <2>2 DEF TypeOK
    <3> QED
      BY <3>2, <3>3, <3>4 DEF NoPart
  <2>5. NoTar' /\ Moves'
    BY <2>1, <2>2 DEF Moved, NoTar, Plainly, File, Moves
  <2>6. Saves'
    BY <2>1, <2>2 DEF Moved, TypeOK, Saves, Plainly, File
  <2> QED
    BY <2>4, <2>5, <2>6
<1>23. ASSUME NEW b \in Builds, LinkToSaved(b) PROVE WholeInv'
  <2>1. Moved(b, {"get", "done"})
    BY <1>23, NextFileResult DEF LinkToSaved
  <2>2. TypeOK'
    BY <1>23, <2>1 DEF LinkToSaved, SetTarball, Moved, TypeOK, Contents
  <2>3. NoPart'
    BY <1>23, <2>1 DEF LinkToSaved, SetTarball, TypeOK, NoPart
  <2>4. NoTar'
    BY <2>1 DEF Moved, NoTar, Plainly, File
  <2>5. Moves'
    BY <1>23, <2>1 DEF LinkToSaved, SetTarball, Moved, TypeOK, Moves
  <2>6. Saves'
    BY <1>23, <2>1 DEF LinkToSaved, SetTarball, Moved, TypeOK, Saves, Plainly, File
  <2> QED
    BY <2>2, <2>3, <2>4, <2>5, <2>6
<1> QED
  BY <1>1, <1>2, <1>3, <1>4, <1>5, <1>6, <1>7, <1>8, <1>9, <1>10, <1>11, <1>12, <1>13,
     <1>14, <1>15, <1>16, <1>17, <1>18, <1>19, <1>20, <1>21, <1>22, <1>23, <1>24
  DEF Next, Shell, Wipe, Local, Fetch, Save

\* However builds interleave, fail and are killed, and whatever the user cleans: the
\* local storage never holds a part of a tarball that is downloaded.
THEOREM LocalWholeCorrect ==
  ASSUME SameFS
  PROVE  Spec => []LocalWhole
<1>1. WholeInv => LocalWhole
  BY DownloadAssumption DEF WholeInv, NoPart, TypeOK, Contents, LocalWhole, FromURL
<1>2. WholeInv /\ [Next]_vars => WholeInv'
  BY WholeStep
<1> QED
  BY <1>1, <1>2, WholeInit, PTL DEF Spec

-----------------------------------------------------------------------------
(* Builds that share the local storage *)

\* Nothing is retrieved twice.
Distinct == \A i, j \in 1..Len(Plan) : Plan[i] = Plan[j] => i = j

\* A link to f leads somewhere, or will soon; of what CT_GetCVS gets nothing is said.
Kept(f)   == \/ local[f] = "whole"
             \/ \E c \in Builds : pc[c] \in {"mvlocal", "copy"} /\ File(c) = f
Backed(f) == f \in FromCVS \/ Kept(f)

Links   == \A b \in Builds, f \in Files : tarball[b][f] = "link" => Backed(f)
Linking == \A b \in Builds : pc[b] \in {"ln", "lnsave", "copyaway"} => Backed(File(b))
Parts   == \A f \in Files : local[f] = "part" => Backed(f)
Has(b, j) == Plan[j] \in FromCVS \/ tarball[b][Plan[j]] \in {"whole", "link"}
Passed(b, j) == j < at[b] \/ (pc[b] = "done" /\ ~opt[b].forbid)
Got     == \A b \in Builds, j \in 1..Len(Plan) : Passed(b, j) => Has(b, j)
AtStart == \A b \in Builds : pc[b] \in {"idle", "wipe", "done"} => at[b] = 1

SettledInv == Links /\ Linking /\ Parts /\ Got /\ AtStart

LEMMA SettledInit == Init => SettledInv
  BY DEF Init, SettledInv, Links, Linking, Parts, Got, Passed, AtStart

\* A step elsewhere takes nothing away.
LEMMA StaysBacked ==
  ASSUME NEW b \in Builds, Moved(b, PCs), pc[b] \notin {"mvlocal", "copy"}, UNCHANGED local,
         NEW f, Backed(f)
  PROVE  Backed(f)'
  BY DEF Moved, Backed, Kept, File

\* The tarballs b has been given stay, for the other builds.
LEMMA OthersGot ==
  ASSUME TypeOK, SettledInv, NEW b \in Builds, Moved(b, PCs),
         \A c \in Builds : c # b => tarball'[c] = tarball[c] /\ opt'[c] = opt[c]
  PROVE  /\ \A c \in Builds, j \in 1..Len(Plan) :
               c # b /\ Passed(c, j)' => Has(c, j)'
         /\ \A c \in Builds :
               c # b /\ pc'[c] \in {"idle", "wipe", "done"} => at'[c] = 1
  BY DEF SettledInv, Got, Passed, Has, AtStart, Moved

\* A step of b that leaves the tarballs and the local storage alone.
LEMMA SameFiles ==
  ASSUME TypeOK, SettledInv, NEW b \in Builds, UNCHANGED <<tarball, local>>,
         Moved(b, PCs), pc'[b] \notin {"ln", "lnsave", "copyaway", "mvlocal"}, pc[b] \notin {"mvlocal", "copy"},
         \A c \in Builds : c # b => opt'[c] = opt[c],
         pc'[b] \in {"idle", "wipe", "done"} => at'[b] = 1,
         \A j \in 1..Len(Plan) : Passed(b, j)' => Has(b, j)
  PROVE  SettledInv'
<1>1. \A f : Backed(f) => Backed(f)'
  BY StaysBacked
<1>2. Links'
  BY <1>1 DEF SettledInv, Links
<1>3. Linking'
  <2> SUFFICES ASSUME NEW c \in Builds, pc'[c] \in {"ln", "lnsave", "copyaway"}
               PROVE  Backed(File(c))'
    BY DEF Linking
  <2>1. c # b /\ pc[c] \in {"ln", "lnsave", "copyaway"} /\ at'[c] = at[c]
    BY DEF Moved
  <2>2. Backed(File(c)) /\ File(c)' = File(c)
    BY <2>1 DEF SettledInv, Linking, File
  <2>3. Backed(File(c)) => \E d : d = File(c) /\ Backed(d)'
    BY <1>1
  <2> QED
    BY <2>2, <2>3 DEF Backed, Kept
<1>4. Got'
  BY OthersGot DEF Got, Has
<1>5. AtStart'
  BY OthersGot DEF AtStart
<1>6. Parts'
  BY <1>1 DEF SettledInv, Parts
<1> QED
  BY <1>2, <1>3, <1>4, <1>5, <1>6 DEF SettledInv

\* The next file is begun when the last one is there.
LEMMA NextFileGot ==
  ASSUME TypeOK, SettledInv, NEW b \in Builds, NextFile(b),
         pc[b] \notin {"idle", "wipe", "done"},
         \A j \in 1..Len(Plan) : j < at[b] => Has(b, j)',
         Plainly(b) => tarball'[b][File(b)] \in {"whole", "link"}
  PROVE  /\ \A j \in 1..Len(Plan) : Passed(b, j)' => Has(b, j)'
         /\ pc'[b] \in {"idle", "wipe", "done"} => at'[b] = 1
<1>1. /\ pc'[b] = "get" => at'[b] = at[b] + 1
      /\ pc'[b] = "done" => at[b] = Len(Plan) /\ at'[b] = 1
      /\ pc'[b] \in {"get", "done"}
  BY NextFileResult DEF Moved
<1>2. at[b] \in 1..Len(Plan) /\ at'[b] \in 1..Len(Plan)
  BY NextFileResult DEF TypeOK, Moved
<1>3. ASSUME NEW j \in 1..Len(Plan), Passed(b, j)' PROVE Has(b, j)'
  <2>1. j < at[b] \/ j = at[b]
    BY <1>1, <1>2, <1>3, PlanLength DEF Passed
  <2> QED
    BY <1>2, <2>1 DEF Has, Plainly, File
<1> QED
  BY <1>1, <1>3

\* What b was given before the file it is at stays when only that one changes.
LEMMA EarlierStay ==
  ASSUME TypeOK, SettledInv, Distinct, NEW b \in Builds, NEW c,
         tarball' = [tarball EXCEPT ![b][File(b)] = c]
  PROVE  \A j \in 1..Len(Plan) : j < at[b] => Has(b, j)'
<1> SUFFICES ASSUME NEW j \in 1..Len(Plan), j < at[b] PROVE Has(b, j)'
  OBVIOUS
<1>1. at[b] \in 1..Len(Plan) /\ at[b] # j
  BY DEF TypeOK
<1>2. Plan[j] # File(b)
  BY <1>1 DEF Distinct, File
<1>3. Has(b, j)
  BY DEF SettledInv, Got, Passed
<1>4. tarball'[b][Plan[j]] = tarball[b][Plan[j]]
  BY <1>2 DEF TypeOK
<1> QED
  BY <1>3, <1>4 DEF Has

\* A step of b in CT_SaveLocal: who is about to link to a tarball still is, and who was
\* copying to the same name as b may no longer be.
Saving(b, l) ==
    /\ at' = at /\ pc'[b] = l /\ UNCHANGED opt
    /\ pc[b] \in {"save", "mvlocal", "copy", "copyaway"}
    /\ \A c \in Builds : c # b =>
          \/ pc'[c] = pc[c]
          \/ pc[c] = "copy" /\ pc'[c] = "copyaway" /\ File(c) = File(b)

LEMMA OthersLinking ==
  ASSUME TypeOK, SettledInv, NEW b \in Builds, NEW l, Saving(b, l), Backed(File(b))',
         \A f \in Files : Backed(f) => Backed(f)'
  PROVE  Linking'
<1> SUFFICES ASSUME NEW c \in Builds, pc'[c] \in {"ln", "lnsave", "copyaway"}
             PROVE  Backed(File(c))'
  BY DEF Linking
<1>1. File(c)' = File(c) /\ File(b)' = File(b)
  BY DEF Saving, File
<1>2. CASE File(c) = File(b)
  BY <1>1, <1>2 DEF Backed, Kept
<1>3. CASE File(c) # File(b)
  <2>1. pc[c] \in {"ln", "lnsave", "copyaway"}
    BY <1>3 DEF Saving
  <2>2. Backed(File(c)) /\ File(c) \in Files
    BY <2>1, FileType DEF SettledInv, Linking
  <2>3. \E d : d = File(c) /\ Backed(d)'
    BY <2>2
  <2> QED
    BY <1>1, <2>3 DEF Backed, Kept
<1> QED
  BY <1>2, <1>3

\* The tarball of b backs the local storage while and after it is saved.
LEMMA SavingStep ==
  ASSUME TypeOK, SettledInv, Distinct, NEW b \in Builds,
         NEW l \in {"mvlocal", "copy", "lnsave"}, Saving(b, l),
         NEW v, local' = [local EXCEPT ![File(b)] = v], Backed(File(b))',
         tarball' = tarball \/ tarball' = [tarball EXCEPT ![b][File(b)] = "none"]
  PROVE  SettledInv'
<1>1. File(b)' = File(b) /\ File(b) \in Files
  BY FileType DEF Saving, File
<1>2. ASSUME NEW f \in Files, Backed(f) PROVE Backed(f)'
  <2>1. CASE f = File(b)
    BY <1>1, <2>1 DEF Backed, Kept
  <2>2. CASE f # File(b) /\ local[f] = "whole"
    BY <2>2 DEF Backed, Kept, TypeOK
  <2>3. CASE f # File(b) /\ \E c \in Builds : pc[c] \in {"mvlocal", "copy"} /\ File(c) = f
    BY <2>3 DEF Backed, Kept, Saving, File
  <2> QED
    BY <1>2, <2>1, <2>2, <2>3 DEF Backed, Kept
<1>3. \A c \in Builds, f \in Files : tarball'[c][f] = "link" => tarball[c][f] = "link"
  BY DEF TypeOK
<1>4. Links'
  BY <1>2, <1>3 DEF SettledInv, Links
<1>5. Linking'
  BY <1>2, OthersLinking
<1>6. Parts'
  <2> SUFFICES ASSUME NEW f \in Files, local'[f] = "part" PROVE Backed(f)'
    BY DEF Parts
  <2>1. CASE f = File(b)
    BY <1>1, <2>1 DEF Backed, Kept
  <2>2. CASE f # File(b)
    BY <1>2, <2>2 DEF SettledInv, Parts, TypeOK
  <2> QED
    BY <2>1, <2>2
<1>7. \A j \in 1..Len(Plan) : j < at[b] => Has(b, j)'
  <2>1. CASE tarball' = tarball
    BY <2>1 DEF SettledInv, Got, Passed, Has
  <2>2. CASE tarball' = [tarball EXCEPT ![b][File(b)] = "none"]
    BY <2>2, EarlierStay
  <2> QED
    BY <2>1, <2>2
<1>8. \A c \in Builds : c # b => tarball'[c] = tarball[c]
  BY DEF TypeOK
<1>9. Got' /\ AtStart'
  BY <1>7, <1>8 DEF SettledInv, Got, AtStart, Passed, Has, Saving
<1> QED
  BY <1>4, <1>5, <1>6, <1>9 DEF SettledInv

\* The link that b makes, or the file it finds there.
LEMMA LinkedStep ==
  ASSUME TypeOK, SettledInv, NEW b \in Builds, pc[b] \in {"ln", "lnsave", "copyaway"}, NextFile(b),
         UNCHANGED <<local, opt>>,
         NEW c, tarball' = [tarball EXCEPT ![b][File(b)] = c], Backed(File(b)),
         Plainly(b) => tarball'[b][File(b)] \in {"whole", "link"},
         \A j \in 1..Len(Plan) : j < at[b] => Has(b, j)'
  PROVE  SettledInv'
<1>1. Moved(b, PCs) /\ pc'[b] \in {"get", "done"}
  BY NextFileResult DEF Moved, PCs
<1>2. \A f : Backed(f) => Backed(f)'
  BY <1>1, StaysBacked
<1>3. \A d \in Builds : d # b => tarball'[d] = tarball[d]
  BY DEF TypeOK
<1>4. \A f \in Files : f # File(b) => tarball'[b][f] = tarball[b][f]
  BY DEF TypeOK
<1>5. Links'
  <2> SUFFICES ASSUME NEW d \in Builds, NEW f \in Files, tarball'[d][f] = "link"
               PROVE  Backed(f)'
    BY DEF Links
  <2>1. Backed(f)
    BY <1>3, <1>4 DEF SettledInv, Links
  <2> QED
    BY <1>2, <2>1
<1>6. Linking'
  <2> SUFFICES ASSUME NEW d \in Builds, pc'[d] \in {"ln", "lnsave", "copyaway"}
               PROVE  Backed(File(d))'
    BY DEF Linking
  <2>1. d # b /\ pc[d] \in {"ln", "lnsave", "copyaway"} /\ at'[d] = at[d]
    BY <1>1 DEF Moved
  <2>2. Backed(File(d)) /\ File(d)' = File(d)
    BY <2>1 DEF SettledInv, Linking, File
  <2>3. \E e : e = File(d) /\ Backed(e)'
    BY <1>2, <2>2
  <2> QED
    BY <2>2, <2>3 DEF Backed, Kept
<1>7. /\ \A j \in 1..Len(Plan) : Passed(b, j)' => Has(b, j)'
      /\ pc'[b] \in {"idle", "wipe", "done"} => at'[b] = 1
  BY NextFileGot
<1>8. Got' /\ AtStart'
  BY <1>1, <1>3, <1>7, OthersGot DEF Got, AtStart
<1>9. Parts'
  BY <1>2 DEF SettledInv, Parts
<1> QED
  BY <1>5, <1>6, <1>8, <1>9 DEF SettledInv

\* A step of CT_GetCVS changes a tarball of which nothing is said.
LEMMA CVSSettled ==
  ASSUME Distinct, TypeOK, SettledInv, NEW b \in Builds, ~Plainly(b), pc[b] \in {"tar", "tarring"},
         \/ at' = at /\ Moved(b, {"tarring", "save"})
         \/ at'[b] = 1 /\ Moved(b, {"idle"}),
         tarball' = tarball \/ \E x : SetTarball(b, x),
         local' = local \/ \E y : SetLocal(b, y), opt' = opt
  PROVE  SettledInv'
<1>1. File(b) \in FromCVS
  BY DEF Plainly
<1>2. /\ \A c \in Builds, f \in Files \ FromCVS : tarball'[c][f] = tarball[c][f]
      /\ \A f \in Files \ FromCVS : local'[f] = local[f]
  <2>1. ASSUME NEW x, SetTarball(b, x), NEW c \in Builds, NEW f \in Files \ FromCVS
        PROVE  tarball'[c][f] = tarball[c][f]
    BY <1>1, <2>1 DEF SetTarball, TypeOK
  <2>2. ASSUME NEW y, SetLocal(b, y), NEW f \in Files \ FromCVS
        PROVE  local'[f] = local[f]
    BY <1>1, <2>2 DEF SetLocal, TypeOK
  <2> QED
    BY <2>1, <2>2
<1>3. ASSUME NEW f \in Files, Backed(f) PROVE Backed(f)'
  BY <1>2, <1>3 DEF Backed, Kept, Moved, File
<1>4. Links' /\ Parts'
  BY <1>2, <1>3 DEF SettledInv, Links, Parts, Backed
<1>5. Linking'
  <2> SUFFICES ASSUME NEW c \in Builds, pc'[c] \in {"ln", "lnsave", "copyaway"}
               PROVE  Backed(File(c))'
    BY DEF Linking
  <2>1. pc[c] \in {"ln", "lnsave", "copyaway"} /\ File(c)' = File(c)
    BY DEF Moved, File
  <2>2. Backed(File(c)) /\ File(c) \in Files
    BY <2>1, FileType DEF SettledInv, Linking
  <2>3. \E d : d = File(c) /\ Backed(d)'
    BY <1>3, <2>2
  <2> QED
    BY <2>1, <2>3 DEF Backed, Kept
<1>6. Got' /\ AtStart'
  <2>1. ASSUME NEW c \in Builds, NEW j \in 1..Len(Plan), Passed(c, j)' PROVE Has(c, j)'
    <3>1. at[c] \in 1..Len(Plan) /\ Len(Plan) \in Nat /\ Plan[j] \in Files
      BY PlanLength, DownloadAssumption DEF TypeOK
    <3>2. Passed(c, j)
      BY <2>1, <3>1 DEF Passed, Moved
    <3> QED
      BY <1>2, <3>1, <3>2 DEF SettledInv, Got, Has
  <2> QED
    BY <2>1 DEF SettledInv, Got, AtStart, Moved
<1> QED
  BY <1>4, <1>5, <1>6 DEF SettledInv

LEMMA SettledStep ==
  ASSUME Distinct, WholeInv, SettledInv, [Next]_vars, faults' = 0
  PROVE  SettledInv'
<1> USE DEF WholeInv
<1>0. \A b \in Builds : Plainly(b) => tarball[b][File(b)] # "part"
  BY FileType DEF Plainly, NoPart
<1>1. CASE UNCHANGED vars
  BY <1>1
  DEF vars, files, SettledInv, Links, Linking, Parts, Got, Passed, Has, AtStart, Backed, Kept, File
<1>2. ASSUME NEW b \in Builds, Start(b) PROVE SettledInv'
  <2> PICK o \in Options :
        /\ opt' = [opt EXCEPT ![b] = o]
        /\ Goto(b, IF o.forbid THEN "done" ELSE IF o.force THEN "wipe" ELSE "get")
    BY <1>2 DEF Start
  <2>1. opt'[b] = o /\ \A c \in Builds : c # b => opt'[c] = opt[c]
    BY DEF TypeOK
  <2>2. PICK l \in {"done", "wipe", "get"} : Goto(b, l) /\ (l = "done" => o.forbid)
    OBVIOUS
  <2>3. Moved(b, {l}) /\ at' = at
    BY <2>2, GotoResult DEF PCs
  <2>4. Moved(b, PCs) /\ pc'[b] = l
    BY <2>3 DEF Moved, PCs
  <2>5. at'[b] = 1
    BY <1>2, <2>3 DEF Start, SettledInv, AtStart
  <2>6. \A j \in 1..Len(Plan) : ~Passed(b, j)'
    BY <2>1, <2>2, <2>4, <2>5 DEF Passed
  <2> QED
    BY <1>2, <2>1, <2>4, <2>5, <2>6, SameFiles DEF Start, files
<1>3. ~ \E b \in Builds : Crash(b)
  BY DEF Crash, Fault, TypeOK
<1>4. ~ \E f \in Files : Clean(f)
  BY DEF Clean, Fault, TypeOK
<1>5. ASSUME NEW b \in Builds, WipeFile(b) PROVE SettledInv'
  <2>1. UNCHANGED <<local, pc, at, opt>> /\ pc[b] = "wipe" /\ at[b] = 1
    BY <1>5 DEF WipeFile, SettledInv, AtStart
  <2>2. \A c \in Builds, f \in Files :
          tarball'[c][f] = tarball[c][f] \/ (c = b /\ tarball'[c][f] = "none")
    BY <1>5 DEF WipeFile, TypeOK
  <2>3. Plan \in Seq(Files)
    BY DownloadAssumption
  <2> QED
    BY <2>1, <2>2, <2>3
    DEF SettledInv, Links, Linking, Parts, Got, Passed, Has, AtStart, Backed, Kept, File
<1>6. ASSUME NEW b \in Builds, Wiped(b) PROVE SettledInv'
  <2>1. Moved(b, {"get"}) /\ at' = at
    BY <1>6, GotoResult DEF Wiped, Moved, PCs
  <2>2. pc'[b] \in PCs \ {"ln", "lnsave", "copyaway", "mvlocal", "idle", "done", "wipe"} /\ Moved(b, PCs)
    BY <2>1 DEF Moved, PCs
  <2>3. \A j \in 1..Len(Plan) : Passed(b, j)' => Has(b, j)
    BY <1>6, <2>1, <2>2 DEF Wiped, SettledInv, Got, Passed
  <2> QED
    BY <1>6, <2>2, <2>3, SameFiles DEF Wiped, files
<1>7. ASSUME NEW b \in Builds, AlreadyHave(b) PROVE SettledInv'
  <2>1. Moved(b, PCs) /\ pc'[b] \in {"get", "done"} /\ pc[b] = "get"
    BY <1>7, NextFileResult DEF AlreadyHave, Moved, PCs
  <2>2. Has(b, at[b])
    BY <1>0, <1>7, FileType DEF AlreadyHave, Exists, Read, Has, Plainly, File, TypeOK, Contents
  <2>3. UNCHANGED <<tarball, local, opt>>
    BY <1>7 DEF AlreadyHave, files
  <2>4. /\ Plainly(b) => tarball'[b][File(b)] \in {"whole", "link"}
        /\ \A j \in 1..Len(Plan) : j < at[b] => Has(b, j)'
    BY <2>2, <2>3 DEF Has, Plainly, File, SettledInv, Got, Passed
  <2>5. /\ \A j \in 1..Len(Plan) : Passed(b, j)' => Has(b, j)
        /\ pc'[b] \in {"idle", "wipe", "done"} => at'[b] = 1
    BY <1>7, <2>1, <2>3, <2>4, NextFileGot DEF AlreadyHave, Has
  <2> QED
    BY <2>1, <2>3, <2>5, SameFiles
<1>8. ASSUME NEW b \in Builds, HaveNot(b) PROVE SettledInv'
  <2>1. Moved(b, {"look"}) /\ at' = at
    BY <1>8, GotoResult DEF HaveNot, Moved, PCs
  <2>2. pc'[b] \in PCs \ {"ln", "lnsave", "copyaway", "mvlocal", "idle", "done", "wipe"} /\ Moved(b, PCs)
    BY <2>1 DEF Moved, PCs
  <2>3. \A j \in 1..Len(Plan) : Passed(b, j)' => Has(b, j)
    BY <1>8, <2>1, <2>2 DEF HaveNot, SettledInv, Got, Passed
  <2> QED
    BY <1>8, <2>2, <2>3, SameFiles DEF HaveNot, files
<1>9. ASSUME NEW b \in Builds, GotFromLocal(b) PROVE SettledInv'
  <2>1. Moved(b, {"ln"}) /\ at' = at /\ pc[b] = "look" /\ UNCHANGED <<tarball, local, opt>>
    BY <1>9, GotoResult DEF GotFromLocal, files, PCs
  <2>2. Backed(File(b))
    BY <1>9, FileType DEF GotFromLocal, Readable, SettledInv, Parts, Backed, Kept
  <2>3. \A f : Backed(f) => Backed(f)'
    BY <2>1 DEF Backed, Kept, Moved, File
  <2>4. Links' /\ Parts'
    BY <2>1, <2>3 DEF SettledInv, Links, Parts
  <2>5. Linking'
    BY <2>1, <2>2, <2>3 DEF SettledInv, Linking, Moved, Backed, Kept, File
  <2>6. Got' /\ AtStart'
    BY <2>1 DEF SettledInv, Got, Passed, Has, AtStart, Moved
  <2> QED
    BY <2>4, <2>5, <2>6 DEF SettledInv
<1>10. ASSUME NEW b \in Builds, NotInLocal(b) PROVE SettledInv'
  <2>1. Moved(b, {"fetch", "tar"}) /\ at' = at
    BY <1>10, GotoResult DEF NotInLocal, Moved, PCs
  <2>2. pc'[b] \in PCs \ {"ln", "lnsave", "copyaway", "mvlocal", "idle", "done", "wipe"} /\ Moved(b, PCs)
    BY <2>1 DEF Moved, PCs
  <2>3. \A j \in 1..Len(Plan) : Passed(b, j)' => Has(b, j)
    BY <1>10, <2>1, <2>2 DEF NotInLocal, SettledInv, Got, Passed
  <2> QED
    BY <1>10, <2>2, <2>3, SameFiles DEF NotInLocal, files
<1>11. ASSUME NEW b \in Builds, LinkToLocal(b) PROVE SettledInv'
  <2>1. pc[b] = "ln" /\ NextFile(b) /\ UNCHANGED <<local, opt>>
    BY <1>11 DEF LinkToLocal, AfterLink
  <2>2. \E c : tarball' = [tarball EXCEPT ![b][File(b)] = c]
    BY <1>11 DEF LinkToLocal, SetTarball
  <2>3. Plainly(b) => tarball'[b][File(b)] \in {"link", "whole"}
    BY <1>0, <1>11, FileType DEF LinkToLocal, SetTarball, TypeOK, Contents
  <2>4. /\ Plainly(b) => tarball'[b][File(b)] \in {"whole", "link"}
        /\ \A j \in 1..Len(Plan) : j < at[b] => Has(b, j)'
    BY <2>2, <2>3, EarlierStay
  <2>5. Backed(File(b))
    BY <2>1 DEF SettledInv, Linking
  <2> QED
    BY <2>1, <2>2, <2>4, <2>5, LinkedStep
<1>12. ASSUME NEW b \in Builds, RemoveLeftOver(b) PROVE SettledInv'
  <2>1. Moved(b, {"passive"}) /\ at' = at
    BY <1>12, GotoResult DEF RemoveLeftOver, Moved, PCs
  <2>2. pc'[b] \in PCs \ {"ln", "lnsave", "copyaway", "mvlocal", "idle", "done", "wipe"} /\ Moved(b, PCs)
    BY <2>1 DEF Moved, PCs
  <2>3. \A j \in 1..Len(Plan) : Passed(b, j)' => Has(b, j)
    BY <1>12, <2>1, <2>2 DEF RemoveLeftOver, SettledInv, Got, Passed
  <2> QED
    BY <1>12, <2>2, <2>3, SameFiles DEF RemoveLeftOver, files
<1>13. ASSUME NEW b \in Builds, FirstTry(b) PROVE SettledInv'
  <2>1. Moved(b, {"active", "transfer"}) /\ at' = at
    BY <1>13, GotoResult DEF FirstTry, Moved, PCs
  <2>2. pc'[b] \in PCs \ {"ln", "lnsave", "copyaway", "mvlocal", "idle", "done", "wipe"} /\ Moved(b, PCs)
    BY <2>1 DEF Moved, PCs
  <2>3. \A j \in 1..Len(Plan) : Passed(b, j)' => Has(b, j)
    BY <1>13, <2>1, <2>2 DEF FirstTry, SettledInv, Got, Passed
  <2> QED
    BY <1>13, <2>2, <2>3, SameFiles DEF FirstTry, files
<1>14. ASSUME NEW b \in Builds, Transferred(b) PROVE SettledInv'
  <2>1. Moved(b, {"mv"}) /\ at' = at
    BY <1>14, GotoResult DEF Transferred, Moved, PCs
  <2>2. pc'[b] \in PCs \ {"ln", "lnsave", "copyaway", "mvlocal", "idle", "done", "wipe"} /\ Moved(b, PCs)
    BY <2>1 DEF Moved, PCs
  <2>3. \A j \in 1..Len(Plan) : Passed(b, j)' => Has(b, j)
    BY <1>14, <2>1, <2>2 DEF Transferred, SettledInv, Got, Passed
  <2> QED
    BY <1>14, <2>2, <2>3, SameFiles DEF Transferred, files
<1>15. ASSUME NEW b \in Builds, TransferFails(b) PROVE SettledInv'
  <2>1. Moved(b, {"active"}) /\ at' = at
    BY <1>15, GotoResult DEF TransferFails, Moved, PCs, AfterFirstTry
  <2>2. pc'[b] \in PCs \ {"ln", "lnsave", "copyaway", "mvlocal", "idle", "done", "wipe"} /\ Moved(b, PCs)
    BY <2>1 DEF Moved, PCs
  <2>3. \A j \in 1..Len(Plan) : Passed(b, j)' => Has(b, j)
    BY <1>15, <2>1, <2>2 DEF TransferFails, SettledInv, Got, Passed
  <2> QED
    BY <1>15, <2>2, <2>3, SameFiles DEF TransferFails, files
<1>16. ASSUME NEW b \in Builds, SecondTry(b) PROVE SettledInv'
  <2>1. Moved(b, {"idle", "mv"}) /\ (pc'[b] = "idle" => at'[b] = 1)
    <3>1. CASE Refused(b)
      BY <1>16, <3>1, AbortResult DEF SecondTry, Moved
    <3>2. CASE ~Refused(b)
      BY <1>16, <3>2, GotoResult DEF SecondTry, Moved, PCs
    <3> QED
      BY <3>1, <3>2
  <2>2. pc'[b] = "mv" => at' = at
    BY <1>16, AbortResult DEF SecondTry, Goto, Moved
  <2>3. Moved(b, PCs) /\ pc'[b] \notin {"ln", "lnsave", "copyaway", "mvlocal", "done", "wipe"}
    BY <2>1 DEF Moved, PCs
  <2>4. \A j \in 1..Len(Plan) : Passed(b, j)' => Has(b, j)
    BY <2>1, <2>2, <2>3 DEF SettledInv, Got, Passed, Moved
  <2> QED
    BY <1>16, <2>1, <2>3, <2>4, SameFiles DEF SecondTry
<1>17. ASSUME NEW b \in Builds, MoveToName(b) PROVE SettledInv'
  <2>1. Moved(b, {"save"}) /\ at' = at /\ pc[b] = "mv" /\ UNCHANGED <<local, opt>>
    BY <1>17, GotoResult DEF MoveToName, PCs
  <2>2. tarball' = [tarball EXCEPT ![b][File(b)] = "whole"]
    BY <1>17 DEF MoveToName, SetTarball, Moves
  <2>3. \A f : Backed(f) => Backed(f)'
    BY <2>1 DEF Backed, Kept, Moved, File
  <2>4. \A j \in 1..Len(Plan) : j < at[b] => Has(b, j)'
    BY <2>2, EarlierStay
  <2>5. \A c \in Builds : c # b => tarball'[c] = tarball[c]
    BY <2>2 DEF TypeOK
  <2>6. \A f \in Files : tarball'[b][f] = "link" => tarball[b][f] = "link"
    BY <2>2 DEF TypeOK
  <2>7. Links'
    BY <2>3, <2>5, <2>6 DEF SettledInv, Links
  <2>8. Linking'
    BY <2>1, <2>3 DEF SettledInv, Linking, Moved, Backed, Kept, File
  <2>9. Got' /\ AtStart'
    BY <2>1, <2>4, <2>5 DEF SettledInv, Got, AtStart, Passed, Has, Moved
  <2>10. Parts'
    BY <2>1, <2>3 DEF SettledInv, Parts
  <2> QED
    BY <2>7, <2>8, <2>9, <2>10 DEF SettledInv
<1>18. ASSUME NEW b \in Builds, GetCVS(b) PROVE SettledInv'
  <2>1. ~Plainly(b) /\ pc[b] \in {"tar", "tarring"}
    BY <1>18 DEF GetCVS, BeginTar, TarFails, EndTar, NoTar
  <2>2. \/ at' = at /\ Moved(b, {"tarring", "save"})
        \/ at'[b] = 1 /\ Moved(b, {"idle"})
    BY <1>18, GotoResult, AbortResult DEF GetCVS, BeginTar, TarFails, EndTar, Moved, PCs
  <2>3. /\ tarball' = tarball \/ \E x : SetTarball(b, x)
        /\ local' = local \/ \E y : SetLocal(b, y)
        /\ opt' = opt
    BY <1>18 DEF GetCVS, BeginTar, TarFails, EndTar, files
  <2> QED
    BY <2>1, <2>2, <2>3, CVSSettled
<1>19. ASSUME NEW b \in Builds, SaveNot(b) PROVE SettledInv'
  <2>1. Moved(b, PCs) /\ pc'[b] \in {"get", "done"} /\ pc[b] = "save"
    BY <1>19, NextFileResult DEF SaveNot, Moved, PCs
  <2>2. Has(b, at[b])
    BY <2>1 DEF Saves, Has, Plainly, File
  <2>3. UNCHANGED <<tarball, local, opt>>
    BY <1>19 DEF SaveNot, files
  <2>4. /\ Plainly(b) => tarball'[b][File(b)] \in {"whole", "link"}
        /\ \A j \in 1..Len(Plan) : j < at[b] => Has(b, j)'
    BY <2>2, <2>3 DEF Has, Plainly, File, SettledInv, Got, Passed
  <2>5. /\ \A j \in 1..Len(Plan) : Passed(b, j)' => Has(b, j)
        /\ pc'[b] \in {"idle", "wipe", "done"} => at'[b] = 1
    BY <1>19, <2>1, <2>3, <2>4, NextFileGot DEF SaveNot, Has
  <2> QED
    BY <2>1, <2>3, <2>5, SameFiles
<1>20. ASSUME NEW b \in Builds, RemoveFromLocal(b) PROVE SettledInv'
  <2>1. Saving(b, "mvlocal")
    BY <1>20, OvertakeResult DEF RemoveFromLocal, Saving, PCs
  <2>2. Backed(File(b))'
    BY <2>1 DEF Saving, Backed, Kept, File
  <2> QED
    BY <1>20, <2>1, <2>2, SavingStep DEF RemoveFromLocal, SetLocal
<1>21. ASSUME NEW b \in Builds, MoveToLocal(b) PROVE SettledInv'
  <2>1. Saving(b, "lnsave")
    BY <1>21, GotoResult DEF MoveToLocal, Moved, Saving, PCs
  <2>2. /\ local' = [local EXCEPT ![File(b)] = tarball[b][File(b)]]
        /\ Plainly(b) => tarball[b][File(b)] = "whole"
    BY <1>21 DEF MoveToLocal, SetLocal, Saves
  <2>3. Backed(File(b))'
    BY <2>1, <2>2, FileType DEF Saving, Backed, Kept, Plainly, TypeOK, File
  <2> QED
    BY <1>21, <2>1, <2>2, <2>3, SavingStep DEF MoveToLocal, SetTarball
<1>22. ASSUME NEW b \in Builds, BeginCopy(b) PROVE SettledInv'
  <2>1. Saving(b, "copy")
    BY <1>22, OvertakeResult DEF BeginCopy, Saving, PCs
  <2>2. Backed(File(b))'
    BY <2>1 DEF Saving, Backed, Kept, File
  <2> QED
    BY <1>22, <2>1, <2>2, SavingStep DEF BeginCopy, SetLocal
<1>24. ASSUME NEW b \in Builds, EndCopy(b) PROVE SettledInv'
  <2>1. Saving(b, "lnsave") /\ Moved(b, {"lnsave"})
    BY <1>24, GotoResult DEF EndCopy, Moved, Saving, PCs
  <2>2. CASE pc[b] = "copy"
    <3>1. /\ local' = [local EXCEPT ![File(b)] = tarball[b][File(b)]]
          /\ Plainly(b) => tarball[b][File(b)] = "whole"
      BY <1>24, <2>2 DEF EndCopy, SetLocal, Saves
    <3>2. Backed(File(b))'
      BY <2>1, <3>1, FileType DEF Saving, Backed, Kept, Plainly, TypeOK, File
    <3> QED
      BY <1>24, <2>1, <3>1, <3>2, SavingStep DEF EndCopy, SetTarball
  <2>3. CASE pc[b] = "copyaway"
    <3>1. local' = local
      BY <1>24, <2>3 DEF EndCopy
    <3>2. local' = [local EXCEPT ![File(b)] = local[File(b)]]
      BY <3>1 DEF TypeOK
    <3>3. Backed(File(b))
      BY <2>3 DEF SettledInv, Linking
    <3>4. \E f : f = File(b) /\ Backed(f)'
      BY <2>1, <2>3, <3>1, <3>3, StaysBacked DEF Moved, PCs
    <3>5. Backed(File(b))'
      BY <2>1, <3>4 DEF Saving, Backed, Kept, File
    <3> QED
      BY <1>24, <2>1, <3>2, <3>5, SavingStep DEF EndCopy, SetTarball
  <2> QED
    BY <1>24, <2>2, <2>3 DEF EndCopy
<1>23. ASSUME NEW b \in Builds, LinkToSaved(b) PROVE SettledInv'
  <2>1. /\ pc[b] = "lnsave" /\ NextFile(b) /\ UNCHANGED <<local, opt>>
        /\ tarball' = [tarball EXCEPT ![b][File(b)] = "link"]
    BY <1>23 DEF LinkToSaved, SetTarball
  <2>2. tarball'[b][File(b)] = "link"
    BY <2>1, FileType DEF TypeOK
  <2>3. /\ Plainly(b) => tarball'[b][File(b)] \in {"whole", "link"}
        /\ \A j \in 1..Len(Plan) : j < at[b] => Has(b, j)'
    BY <2>1, <2>2, EarlierStay
  <2>4. Backed(File(b))
    BY <2>1 DEF SettledInv, Linking
  <2> QED
    BY <2>1, <2>3, <2>4, LinkedStep
<1> QED
  BY <1>1, <1>2, <1>3, <1>4, <1>5, <1>6, <1>7, <1>8, <1>9, <1>10, <1>11, <1>12, <1>13,
     <1>14, <1>15, <1>16, <1>17, <1>18, <1>19, <1>20, <1>21, <1>22, <1>23, <1>24
  DEF Next, Shell, Wipe, Local, Fetch, Save

\* Faults are never forgotten.
LEMMA FaultsStay ==
  ASSUME TypeOK, [Next]_vars, faults' = 0
  PROVE  faults = 0
<1>1. faults \in Nat /\ ~Fault
  BY DEF TypeOK, Fault
<1>2. CASE Next
  BY <1>1, <1>2
  DEF Next, Shell, Wipe, Local, Fetch, GetCVS, Save, Start, Crash, Clean, WipeFile, Wiped,
      AlreadyHave, HaveNot, GotFromLocal, NotInLocal, LinkToLocal, RemoveLeftOver,
      FirstTry, Transferred, TransferFails, SecondTry, MoveToName, BeginTar, TarFails,
      EndTar, SaveNot, RemoveFromLocal, MoveToLocal, BeginCopy, EndCopy, LinkToSaved
<1>3. CASE UNCHANGED vars
  BY <1>3 DEF vars
<1> QED
  BY <1>2, <1>3

\* Nothing is known of the links once an invocation has failed.
UntilFault == faults = 0 => SettledInv

LEMMA UntilFaultHolds ==
  ASSUME Distinct
  PROVE  Spec => [](WholeInv /\ UntilFault)
<1>1. Init => WholeInv /\ UntilFault
  BY WholeInit, SettledInit DEF UntilFault
<1>2. WholeInv /\ UntilFault /\ [Next]_vars => WholeInv' /\ UntilFault'
  <2> SUFFICES ASSUME WholeInv, UntilFault, [Next]_vars PROVE WholeInv' /\ UntilFault'
    OBVIOUS
  <2>1. WholeInv'
    BY WholeStep
  <2>2. ASSUME faults' = 0 PROVE SettledInv'
    BY <2>2, FaultsStay, SettledStep DEF WholeInv, UntilFault
  <2> QED
    BY <2>1, <2>2 DEF UntilFault
<1> QED
  BY <1>1, <1>2, PTL DEF Spec

\* Builds that download at the same time and save into one local storage, on any file
\* system, all have every tarball when they are done and nothing has failed.
THEOREM SettledCorrect ==
  ASSUME Distinct
  PROVE  Spec => []Settled
<1>1. WholeInv /\ UntilFault => Settled
  <2> SUFFICES ASSUME WholeInv, SettledInv, AllDone,
                      NEW b \in Builds, NEW f \in FromURL
               PROVE  Read(b, f) = "whole"
    BY DEF Settled, AllRead, UntilFault
  <2>1. f \notin FromCVS /\ \E j \in 1..Len(Plan) : Plan[j] = f
    BY DEF FromURL
  <2>2. tarball[b][f] \in {"whole", "link"}
    BY <2>1 DEF AllDone, SettledInv, Got, Passed, Has
  <2>3. f \in Files
    BY <2>1, DownloadAssumption
  <2>4. tarball[b][f] = "link" => local[f] = "whole"
    BY <2>1, <2>3 DEF SettledInv, Links, Backed, Kept, AllDone
  <2> QED
    BY <2>2, <2>4 DEF Read
<1> QED
  BY <1>1, UntilFaultHolds, PTL

-----------------------------------------------------------------------------
(* Copies are not lost *)

\* Who copies on to a file without a name is not the last one to have the tarball.
Overtaken == \A b \in Builds : pc[b] = "copyaway" => Kept(File(b))

\* What those that are at f know of it.
Ready(f) == \A b \in Builds : File(b) = f =>
    /\ pc[b] \in {"save", "mvlocal", "copy", "copyaway"} => tarball[b][f] = "whole"
    /\ pc[b] = "lnsave" => tarball[b][f] = "none"
    /\ pc[b] \in {"tar", "tarring"} => tarball[b][f] \in {"none", "part"}

LEMMA CopyStep ==
  ASSUME TypeOK, Moves, Overtaken, [Next]_vars, NEW f \in Files, HasCopy(f), Ready(f),
         faults' = faults, \A b \in Builds : pc[b] # "wipe"
  PROVE  HasCopy(f)'
<1> USE FileType
<1>1. ASSUME tarball' = tarball, local' = local \/ local'[f] = "whole" PROVE HasCopy(f)'
  BY <1>1 DEF HasCopy
<1>2. ASSUME NEW b \in Builds, tarball'[b][f] = "whole" \/ local'[f] = "whole"
      PROVE  HasCopy(f)'
  BY <1>2 DEF HasCopy
<1>3. ASSUME NEW b \in Builds, NEW x, tarball' = [tarball EXCEPT ![b][File(b)] = x],
             local' = local, tarball[b][File(b)] # "whole"
      PROVE  HasCopy(f)'
  BY <1>3 DEF HasCopy, TypeOK
<1>4. ASSUME NEW b \in Builds, LinkToLocal(b) PROVE HasCopy(f)'
  <2>1. CASE tarball[b][File(b)] = "none"
    BY <1>3, <1>4, <2>1 DEF LinkToLocal, SetTarball
  <2>2. CASE tarball[b][File(b)] # "none"
    <3>1. tarball' = tarball /\ local' = local
      BY <1>4, <2>2 DEF LinkToLocal, SetTarball, TypeOK
    <3> QED
      BY <1>1, <3>1
  <2> QED
    BY <2>1, <2>2
<1>5. ASSUME NEW b \in Builds, MoveToName(b) PROVE HasCopy(f)'
  <2>1. tarball' = [tarball EXCEPT ![b][File(b)] = "whole"] /\ local' = local
    BY <1>5 DEF MoveToName, SetTarball, Moves
  <2>2. CASE File(b) = f
    BY <1>2, <2>1, <2>2 DEF TypeOK
  <2>3. CASE File(b) # f
    BY <2>1, <2>3 DEF HasCopy, TypeOK
  <2> QED
    BY <2>2, <2>3
<1>6. ASSUME NEW b \in Builds, RemoveFromLocal(b) \/ BeginCopy(b) PROVE HasCopy(f)'
  <2>1. /\ tarball' = tarball /\ (File(b) = f => tarball[b][f] = "whole")
        /\ \E x \in {"none", "part"} : local' = [local EXCEPT ![File(b)] = x]
    BY <1>6 DEF RemoveFromLocal, BeginCopy, SetLocal, Ready
  <2>2. CASE File(b) = f
    BY <1>2, <2>1, <2>2
  <2>3. CASE File(b) # f
    BY <2>1, <2>3 DEF HasCopy, TypeOK
  <2> QED
    BY <2>2, <2>3
<1>7. ASSUME NEW b \in Builds, File(b) # f, NEW x, NEW y,
             tarball' = [tarball EXCEPT ![b][File(b)] = x],
             local' = [local EXCEPT ![File(b)] = y] \/ local' = local
      PROVE  HasCopy(f)'
  BY <1>7 DEF HasCopy, TypeOK
<1>8. ASSUME NEW b \in Builds, MoveToLocal(b) \/ EndCopy(b) PROVE HasCopy(f)'
  <2>1. /\ tarball' = [tarball EXCEPT ![b][File(b)] = "none"]
        /\ \/ pc[b] # "copyaway" /\ local' = [local EXCEPT ![File(b)] = tarball[b][File(b)]]
           \/ pc[b] = "copyaway" /\ local' = local
    BY <1>8 DEF MoveToLocal, EndCopy, SetLocal, SetTarball
  <2>2. CASE File(b) # f
    BY <1>7, <2>1, <2>2
  <2>3. CASE File(b) = f /\ pc[b] # "copyaway"
    <3>1. tarball[b][f] = "whole"
      BY <1>8, <2>3 DEF Ready, MoveToLocal, EndCopy
    <3> QED
      BY <1>2, <2>1, <2>3, <3>1 DEF TypeOK
  <2>4. CASE File(b) = f /\ pc[b] = "copyaway"
    <3>1. \/ local[f] = "whole"
          \/ \E c \in Builds : pc[c] \in {"mvlocal", "copy"} /\ File(c) = f
      BY <2>4 DEF Overtaken, Kept
    <3>2. CASE local[f] = "whole"
      BY <1>2, <2>1, <2>4, <3>2
    <3>3. ASSUME NEW c \in Builds, pc[c] \in {"mvlocal", "copy"}, File(c) = f
          PROVE  HasCopy(f)'
      <4>1. tarball[c][f] = "whole" /\ c # b
        BY <2>4, <3>3 DEF Ready
      <4>2. tarball'[c][f] = "whole"
        BY <2>1, <4>1 DEF TypeOK
      <4> QED
        BY <1>2, <4>2
    <3> QED
      BY <3>1, <3>2, <3>3
  <2> QED
    BY <2>2, <2>3, <2>4
<1>9. ASSUME NEW b \in Builds, LinkToSaved(b) PROVE HasCopy(f)'
  <2>1. tarball' = [tarball EXCEPT ![b][File(b)] = "link"] /\ local' = local /\ pc[b] = "lnsave"
    BY <1>9 DEF LinkToSaved, SetTarball
  <2>2. CASE File(b) = f
    BY <1>3, <2>1, <2>2 DEF Ready
  <2>3. CASE File(b) # f
    BY <1>7, <2>1, <2>3
  <2> QED
    BY <2>2, <2>3
<1>15. ASSUME NEW b \in Builds, BeginTar(b) \/ EndTar(b) PROVE HasCopy(f)'
  <2>1. CASE File(b) = f
    <3>1. tarball[b][f] \in {"none", "part"}
      BY <1>15, <2>1 DEF BeginTar, EndTar, Ready
    <3>2. \E x : tarball' = [tarball EXCEPT ![b][File(b)] = x] /\ local' = local
      BY <1>15, <2>1, <3>1 DEF BeginTar, EndTar, ThroughLink, SetTarball
    <3> QED
      BY <1>3, <2>1, <3>1, <3>2
  <2>2. CASE File(b) # f
    <3>1. /\ tarball' = tarball \/ \E x : tarball' = [tarball EXCEPT ![b][File(b)] = x]
          /\ local' = local \/ \E y : local' = [local EXCEPT ![File(b)] = y]
      BY <1>15 DEF BeginTar, EndTar, SetTarball, SetLocal
    <3>2. tarball' = tarball => tarball' = [tarball EXCEPT ![b][File(b)] = tarball[b][File(b)]]
      BY DEF TypeOK
    <3> QED
      BY <1>7, <2>2, <3>1, <3>2
  <2> QED
    BY <2>1, <2>2
<1>10. CASE UNCHANGED <<tarball, local>>
  BY <1>10 DEF HasCopy
<1>11. ASSUME NEW b \in Builds, Start(b) \/ Crash(b) PROVE HasCopy(f)'
  BY <1>10, <1>11 DEF Start, Crash, files
<1>12. ASSUME NEW b \in Builds, Shell(b) PROVE HasCopy(f)'
  BY <1>4, <1>5, <1>6, <1>8, <1>9, <1>10, <1>12, <1>15
  DEF Shell, Wipe, WipeFile, Wiped, Local, AlreadyHave, HaveNot, GotFromLocal, NotInLocal, Fetch,
      RemoveLeftOver, FirstTry, Transferred, TransferFails, SecondTry, GetCVS,
      TarFails, Save, SaveNot, files
<1>13. ASSUME NEW g \in Files, Clean(g) PROVE FALSE
  BY <1>13, DownloadAssumption DEF Clean, Fault, TypeOK
<1>14. CASE UNCHANGED vars
  BY <1>10, <1>14 DEF vars, files
<1> QED
  BY <1>11, <1>12, <1>13, <1>14 DEF Next

\* Of what is downloaded all is known that is needed.
LEMMA PlainReady == ASSUME WholeInv, NEW f \in Files \ FromCVS PROVE Ready(f)
BY DEF WholeInv, NoTar, Saves, Plainly, Ready

\* Where there are tarballs of CT_GetCVS one build has the storage to itself.
OneBuild == \A b, c \in Builds : b = c

LEMMA CVSAlone == FromCVS # {} => OneBuild
BY DownloadAssumption, FS_Singleton DEF OneBuild

\* CT_GetCVS writes to the final name, but only to a name that has nothing: links lead to
\* whole tarballs while nobody removes these, so that a part is one in the build's
\* own directory, which is never saved, or one that is being copied from a whole one.
CVSWhole(b, f) ==
    /\ local[f] \in {"none", "whole"} \/ (local[f] = "part" /\ pc[b] = "copy" /\ File(b) = f)
    /\ pc[b] # "copyaway"
    /\ tarball[b][f] = "link" => local[f] = "whole"
    /\ File(b) = f =>
          /\ pc[b] \in {"look", "ln", "tar", "lnsave"} => tarball[b][f] = "none"
          /\ pc[b] \in {"ln", "lnsave"} => local[f] = "whole"
          /\ pc[b] = "tarring" => tarball[b][f] = "part"
          /\ pc[b] \in {"save", "mvlocal", "copy"} => tarball[b][f] = "whole"
CVSInv == \A b \in Builds, f \in FromCVS : CVSWhole(b, f)

LEMMA CVSReady == ASSUME CVSInv, NEW f \in FromCVS PROVE Ready(f)
BY DEF CVSInv, CVSWhole, Ready

LEMMA CVSInvInit == Init => CVSInv
BY DownloadAssumption DEF Init, CVSInv, CVSWhole

\* A step within or at the end of another file.
LEMMA CVSElsewhere ==
  ASSUME TypeOK, NEW b \in Builds, NEW f \in FromCVS, CVSWhole(b, f),
         tarball'[b][f] = tarball[b][f], local'[f] = local[f], pc'[b] # "copyaway",
         \/ pc'[b] \in {"idle", "done", "wipe", "get"} /\ local[f] # "part"
         \/ at' = at /\ File(b) # f
  PROVE  CVSWhole(b, f)'
BY DEF CVSWhole, File

LEMMA CVSInvStep ==
  ASSUME (SameFS /\ Cleanable \cap FromCVS = {}) \/ MaxFaults = 0,
         WholeInv, CVSInv, [Next]_vars
  PROVE  CVSInv'
<1> SUFFICES ASSUME NEW b \in Builds, NEW f \in FromCVS PROVE CVSWhole(b, f)'
  BY DEF CVSInv
<1> USE FileType DEF WholeInv
<1>1. CVSWhole(b, f) /\ f \in Files /\ \A c \in Builds : c = b
  BY CVSAlone, DownloadAssumption DEF CVSInv, OneBuild
<1>0. /\ Fault => SameFS /\ Cleanable \cap FromCVS = {}
      /\ Fault \/ pc[b] # "copy" => local[f] # "part"
  BY <1>1 DEF Fault, TypeOK, NoTar, CVSWhole
<1>2. CASE UNCHANGED vars
  BY <1>1, <1>2 DEF vars, files, CVSWhole, File
<1>3. ASSUME NEW g \in Files, Clean(g) PROVE CVSWhole(b, f)'
  <2>1. g # f /\ local'[f] = local[f] /\ UNCHANGED <<tarball, pc, at>>
    BY <1>0, <1>1, <1>3 DEF Clean, TypeOK
  <2> QED
    BY <1>1, <2>1 DEF CVSWhole, File
<1>4. CASE Start(b) \/ Crash(b) \/ TarFails(b) \/ AlreadyHave(b) \/ SaveNot(b)
  <2>1. UNCHANGED files /\ local[f] # "part"
    BY <1>0, <1>4 DEF Start, Crash, TarFails, AlreadyHave, SaveNot
  <2>2. pc'[b] \in {"idle", "done", "wipe", "get"}
    BY <1>4, NextFileResult DEF Start, Crash, TarFails, Goto, Abort, AlreadyHave, SaveNot, Moved, TypeOK
  <2> QED
    BY <1>1, <2>1, <2>2, CVSElsewhere DEF files
<1>5. CASE Wipe(b)
  <2>1. /\ local' = local /\ local[f] # "part"
        /\ tarball'[b][f] \in {tarball[b][f], "none"} /\ pc'[b] \in {"wipe", "get"}
    BY <1>0, <1>1, <1>5 DEF Wipe, WipeFile, Wiped, Goto, TypeOK
  <2> QED
    BY <1>1, <2>1 DEF CVSWhole
<1>6. CASE HaveNot(b) \/ GotFromLocal(b) \/ NotInLocal(b)
  <2>1. /\ UNCHANGED <<files, at>>
        /\ pc[b] = "get" => ~Exists(b, File(b))
        /\ pc'[b] \in {"look", "ln", "tar", "fetch"}
        /\ pc[b] \in {"get", "look"}
        /\ pc'[b] = "ln" => Readable(File(b))
        /\ pc[b] = "get" => pc'[b] = "look"
    BY <1>6 DEF HaveNot, GotFromLocal, NotInLocal, Goto, TypeOK
  <2>2. CASE File(b) = f
    <3>1. tarball[b][f] = "none"
      BY <1>1, <2>1, <2>2 DEF CVSWhole, Exists, Read
    <3>2. pc'[b] = "ln" => local[f] = "whole"
      BY <1>1, <2>1, <2>2 DEF CVSWhole, Readable
    <3> QED
      BY <1>1, <2>1, <3>1, <3>2 DEF CVSWhole, files
  <2>3. CASE File(b) # f
    BY <1>1, <2>1, <2>3, CVSElsewhere DEF files
  <2> QED
    BY <2>2, <2>3
<1>7. CASE LinkToLocal(b) \/ LinkToSaved(b)
  <2>1. /\ local' = local /\ pc'[b] \in {"get", "done"}
        /\ pc[b] \in {"ln", "lnsave"} /\ local[f] # "part"
        /\ \E x : SetTarball(b, x) /\ (x = "link" \/ x = tarball[b][File(b)])
    BY <1>0, <1>7, NextFileResult DEF LinkToLocal, AfterLink, LinkToSaved, Moved
  <2> QED
    BY <1>1, <2>1 DEF CVSWhole, SetTarball, TypeOK
<1>8. CASE Fetch(b)
  <2>1. /\ local' = local /\ local[f] # "part"
        /\ \/ pc'[b] \in {"idle", "passive", "active", "transfer", "mv"} /\ tarball' = tarball
           \/ pc'[b] = "save" /\ SetTarball(b, "whole") /\ at' = at
    BY <1>0, <1>8 DEF Fetch, RemoveLeftOver, FirstTry, Transferred, TransferFails, AfterFirstTry, SecondTry,
                MoveToName, Moves, Goto, Abort, files, TypeOK
  <2> QED
    BY <1>1, <2>1 DEF CVSWhole, SetTarball, TypeOK, File
<1>9. CASE BeginTar(b) \/ EndTar(b)
  <2>1. CASE File(b) = f
    <3>1. tarball[b][f] \in {"none", "part"}
      BY <1>1, <1>9, <2>1 DEF CVSWhole, BeginTar, EndTar
    <3>2. /\ local' = local /\ at' = at
          /\ \/ pc'[b] = "tarring" /\ SetTarball(b, "part")
             \/ pc'[b] = "save" /\ SetTarball(b, "whole")
      BY <1>9, <2>1, <3>1 DEF BeginTar, EndTar, ThroughLink, LinkLoops, Goto, TypeOK
    <3>3. local[f] # "part" /\ pc[b] # "copy"
      BY <1>0, <1>9 DEF BeginTar, EndTar
    <3> QED
      BY <1>1, <2>1, <3>2, <3>3 DEF CVSWhole, SetTarball, TypeOK, File
  <2>2. CASE File(b) # f
    <3>1. tarball'[b][f] = tarball[b][f] /\ local'[f] = local[f]
      BY <1>1, <1>9, <2>2 DEF BeginTar, EndTar, SetTarball, SetLocal, TypeOK
    <3>2. (pc'[b] = "idle" \/ at' = at) /\ local[f] # "part" /\ pc'[b] # "copyaway"
      BY <1>0, <1>9 DEF BeginTar, EndTar, Goto, Abort, TypeOK
    <3> QED
      BY <1>1, <2>2, <3>1, <3>2, CVSElsewhere
  <2> QED
    BY <2>1, <2>2
<1>10. CASE RemoveFromLocal(b) \/ MoveToLocal(b) \/ BeginCopy(b) \/ EndCopy(b)
  <2>1. /\ at' = at
        /\ \/ /\ pc[b] = "save" /\ pc'[b] = "mvlocal" /\ tarball' = tarball /\ SetLocal(b, "none")
           \/ /\ pc[b] = "mvlocal" /\ pc'[b] = "copy" /\ tarball' = tarball /\ SetLocal(b, "part")
           \/ /\ pc[b] \in {"mvlocal", "copy"} /\ pc'[b] = "lnsave"
              /\ SetTarball(b, "none") /\ SetLocal(b, tarball[b][File(b)])
    BY <1>1, <1>10 DEF RemoveFromLocal, MoveToLocal, BeginCopy, EndCopy, Overtake, Goto, TypeOK, CVSWhole
  <2>2. CASE File(b) = f
    BY <1>1, <2>1, <2>2 DEF CVSWhole, SetTarball, SetLocal, TypeOK, File
  <2>3. CASE File(b) # f
    <3>1. tarball'[b][f] = tarball[b][f] /\ local'[f] = local[f] /\ pc'[b] # "copyaway"
      BY <1>1, <2>1, <2>3 DEF SetTarball, SetLocal, TypeOK
    <3> QED
      BY <1>1, <2>1, <2>3, <3>1, CVSElsewhere
  <2> QED
    BY <2>2, <2>3
<1>12. ASSUME NEW c \in Builds, Start(c) \/ Crash(c) \/ Shell(c)
       PROVE  CVSWhole(b, f)'
  BY <1>1, <1>4, <1>5, <1>6, <1>7, <1>8, <1>9, <1>10, <1>12 DEF Shell, Local, GetCVS, Save
<1> QED
  BY <1>2, <1>3, <1>12 DEF Next

\* A copy of a tarball that some build had is not lost by any other step than a removal the
\* user asked for: on the same file system whatever fails and is killed, if the user leaves the
\* tarballs of CT_GetCVS in the local storage; on any file system while nothing fails.
THEOREM NeverLostCorrect ==
  ASSUME \/ SameFS /\ Cleanable \cap FromCVS = {}
         \/ Distinct /\ MaxFaults = 0
  PROVE  Spec => NeverLost
<1>1. WholeInv /\ CVSInv /\ [Next]_vars => WholeInv' /\ CVSInv'
  BY WholeStep, CVSInvStep
<1>2. WholeInv /\ CVSInv /\ Overtaken /\ [Next]_vars =>
        [\A f \in Files :
           HasCopy(f) => HasCopy(f)' \/ faults' # faults \/ \E b \in Builds : pc[b] = "wipe"]_vars
  <2>1. WholeInv /\ CVSInv => \A f \in Files : Ready(f)
    BY PlainReady, CVSReady
  <2> QED
    BY <2>1, CopyStep DEF WholeInv
<1>3. CASE SameFS /\ Cleanable \cap FromCVS = {}
  <2>1. WholeInv => Overtaken
    BY <1>3 DEF WholeInv, NoTar, Overtaken
  <2> QED
    BY <1>1, <1>2, <2>1, WholeInit, CVSInvInit, PTL DEF Spec, NeverLost
<1>4. CASE Distinct /\ MaxFaults = 0
  <2>1. WholeInv /\ CVSInv /\ UntilFault => Overtaken
    BY <1>4 DEF WholeInv, TypeOK, UntilFault, SettledInv, Linking, Backed, CVSInv, CVSWhole, Overtaken
  <2>2. Spec => [](WholeInv /\ UntilFault)
    BY <1>4, UntilFaultHolds
  <2> QED
    BY <1>1, <1>2, <2>1, <2>2, WholeInit, CVSInvInit, PTL DEF Spec, NeverLost
<1> QED
  BY <1>3, <1>4

-----------------------------------------------------------------------------
(* A build of its own retrieves everything *)

\* What has been passed is there to be read, and so is what is linked to next.
Earlier(b) == \A j \in 1..(at[b] - 1) : Plan[j] \notin FromCVS => Read(b, Plan[j]) = "whole"
ReadInv ==
    /\ AtStart
    /\ \A b \in Builds :
          /\ Earlier(b)
          /\ Plainly(b) /\ pc[b] \in {"ln", "lnsave"} => local[File(b)] = "whole"

\* What is done to one file does not touch those that have been passed.
LEMMA EarlierSame ==
  ASSUME Distinct, TypeOK, NEW b \in Builds, Earlier(b),
         tarball' = tarball \/ \E x : SetTarball(b, x),
         local' = local \/ \E y : SetLocal(b, y)
  PROVE  \A j \in 1..(at[b] - 1) : Plan[j] \notin FromCVS => Read(b, Plan[j])' = "whole"
<1> SUFFICES ASSUME NEW j \in 1..(at[b] - 1), Plan[j] \notin FromCVS
             PROVE  Read(b, Plan[j])' = "whole"
  OBVIOUS
<1>1. at[b] \in 1..Len(Plan) /\ j \in 1..Len(Plan) /\ j # at[b] /\ Len(Plan) \in Nat
  BY PlanLength DEF TypeOK
<1>2. Plan[j] # File(b)
  BY <1>1 DEF Distinct, File
<1>3. tarball'[b][Plan[j]] = tarball[b][Plan[j]]
  <2>1. ASSUME NEW x, SetTarball(b, x) PROVE tarball'[b][Plan[j]] = tarball[b][Plan[j]]
    BY <1>2, <2>1 DEF SetTarball, TypeOK
  <2> QED
    BY <2>1
<1>4. local'[Plan[j]] = local[Plan[j]]
  <2>1. ASSUME NEW y, SetLocal(b, y) PROVE local'[Plan[j]] = local[Plan[j]]
    BY <1>2, <2>1 DEF SetLocal, TypeOK
  <2> QED
    BY <2>1
<1>5. Read(b, Plan[j]) = "whole"
  BY DEF Earlier
<1> QED
  BY <1>3, <1>4, <1>5 DEF Read

\* A step within a file.
LEMMA StayedAt ==
  ASSUME Distinct, OneBuild, TypeOK, ReadInv, NEW b \in Builds,
         at' = at, pc'[b] \notin {"idle", "wipe", "done"},
         tarball' = tarball \/ \E x : SetTarball(b, x),
         local' = local \/ \E y : SetLocal(b, y),
         Plainly(b) /\ pc'[b] \in {"ln", "lnsave"} => local'[File(b)] = "whole"
  PROVE  ReadInv'
<1>1. Earlier(b)'
  BY EarlierSame DEF ReadInv, Earlier
<1> QED
  BY <1>1 DEF OneBuild, ReadInv, AtStart, Plainly, File

\* The end of a file that is there, and maybe of the last one.
LEMMA PassedOn ==
  ASSUME Distinct, OneBuild, TypeOK, ReadInv, NEW b \in Builds, NextFile(b),
         tarball' = tarball \/ \E x : SetTarball(b, x),
         local' = local,
         NEW g, g = File(b), g \notin FromCVS => Read(b, g)' = "whole"
  PROVE  /\ ReadInv'
         /\ pc'[b] = "done" => AllRead(b)'
<1>1. \A j \in 1..(at[b] - 1) : Plan[j] \notin FromCVS => Read(b, Plan[j])' = "whole"
  BY EarlierSame DEF ReadInv
<1>2. at[b] \in 1..Len(Plan) /\ Len(Plan) \in Nat /\ g = Plan[at[b]]
  BY PlanLength DEF TypeOK, File
<1>3. ASSUME NEW j \in 1..Len(Plan), j <= at[b], Plan[j] \notin FromCVS
      PROVE  Read(b, Plan[j])' = "whole"
  BY <1>1, <1>2, <1>3 DEF Read
<1>4. /\ Moved(b, {"get", "done"})
      /\ pc'[b] = "get" => at'[b] = at[b] + 1
      /\ pc'[b] = "done" => at[b] = Len(Plan) /\ at'[b] = 1
  BY NextFileResult
<1>5. Earlier(b)'
  <2> SUFFICES ASSUME NEW j \in 1..(at'[b] - 1), Plan[j] \notin FromCVS
               PROVE  Read(b, Plan[j])' = "whole"
    BY DEF Earlier
  <2>1. at'[b] \in 1..Len(Plan) /\ (at'[b] = at[b] + 1 \/ at'[b] = 1)
    BY <1>4 DEF Moved
  <2>2. j \in 1..Len(Plan) /\ j <= at[b]
    BY <1>2, <2>1
  <2> QED
    BY <1>3, <2>2
<1>6. ReadInv'
  BY <1>4, <1>5 DEF OneBuild, ReadInv, AtStart, Moved
<1>7. ASSUME pc'[b] = "done" PROVE AllRead(b)'
  <2>1. \A j \in 1..Len(Plan) : Plan[j] \notin FromCVS => Read(b, Plan[j])' = "whole"
    BY <1>2, <1>3, <1>4, <1>7
  <2> QED
    BY <2>1 DEF AllRead, FromURL
<1> QED
  BY <1>6, <1>7

\* The start or end of an invocation, before its first file.
LEMMA AtFirst ==
  ASSUME OneBuild, NEW b \in Builds, at'[b] = 1, pc'[b] \notin {"ln", "lnsave"}
  PROVE  ReadInv'
BY DEF OneBuild, ReadInv, AtStart, Earlier

LEMMA ReadStep ==
  ASSUME SameFS, Distinct, OneBuild, WholeInv, ReadInv, Next, NEW b \in Builds
  PROVE  /\ ReadInv'
         /\ pc[b] # "done" /\ pc'[b] = "done" /\ ~opt'[b].forbid => AllRead(b)'
<1> USE FileType DEF WholeInv
<1>0. \A c \in Builds : c = b
  BY DEF OneBuild
<1>1. Plainly(b) =>
        local[File(b)] \in {"none", "whole"} /\ tarball[b][File(b)] \in {"none", "whole", "link"}
  BY DEF Plainly, NoPart, TypeOK, Contents
<1>2. CASE Start(b)
  <2>1. PICK o \in Options : /\ opt' = [opt EXCEPT ![b] = o]
                             /\ Goto(b, IF o.forbid THEN "done" ELSE IF o.force THEN "wipe" ELSE "get")
    BY <1>2 DEF Start
  <2>2. at'[b] = 1 /\ pc'[b] \in {"done", "wipe", "get"} /\ (pc'[b] = "done" => opt'[b].forbid)
    BY <1>2, <2>1 DEF Start, Goto, ReadInv, AtStart, TypeOK
  <2> QED
    BY <2>2, AtFirst
<1>3. CASE Crash(b)
  BY <1>3, AbortResult, AtFirst DEF Crash, Moved
<1>4. ASSUME NEW f \in Files, Clean(f) PROVE ReadInv' /\ pc' = pc
  BY <1>0, <1>4 DEF Clean, ReadInv, AtStart, Earlier
<1>5. CASE Wipe(b)
  <2>1. pc'[b] \in {"wipe", "get"} /\ at'[b] = 1
    BY <1>5 DEF Wipe, WipeFile, Wiped, Goto, ReadInv, AtStart, TypeOK
  <2> QED
    BY <2>1, AtFirst
<1>6. CASE AlreadyHave(b) \/ SaveNot(b)
  <2>1. Plainly(b) => Read(b, File(b)) = "whole"
    BY <1>1, <1>6 DEF AlreadyHave, SaveNot, Exists, Read, Saves
  <2>2. NextFile(b) /\ tarball' = tarball /\ local' = local
    BY <1>6 DEF AlreadyHave, SaveNot, files
  <2>3. PICK g : g = File(b)
    OBVIOUS
  <2>4. g \notin FromCVS => Read(b, g)' = "whole"
    BY <2>1, <2>2, <2>3 DEF Plainly, Read
  <2> QED
    BY <2>2, <2>3, <2>4, PassedOn
<1>7. CASE LinkToLocal(b) \/ LinkToSaved(b)
  <2>1. PICK g : g = File(b)
    OBVIOUS
  <2>2. NextFile(b) /\ local' = local /\ (Plainly(b) => local[g] = "whole")
    BY <1>7, <2>1 DEF LinkToLocal, AfterLink, LinkToSaved, ReadInv
  <2>3. \E x : SetTarball(b, x) /\ (Plainly(b) => x \in {"link", "whole"})
    BY <1>1, <1>7 DEF LinkToLocal, LinkToSaved
  <2>4. g \notin FromCVS => Read(b, g)' = "whole"
    BY <2>1, <2>2, <2>3 DEF Plainly, Read, SetTarball, TypeOK
  <2> QED
    BY <2>1, <2>2, <2>3, <2>4, PassedOn
<1>8. CASE HaveNot(b) \/ GotFromLocal(b) \/ NotInLocal(b)
  <2>1. /\ at' = at /\ tarball' = tarball /\ local' = local
        /\ pc'[b] \in {"look", "ln", "fetch", "tar"}
        /\ Plainly(b) /\ pc'[b] = "ln" => local[File(b)] = "whole"
    BY <1>1, <1>8 DEF HaveNot, GotFromLocal, NotInLocal, Readable, Goto, files, TypeOK
  <2> QED
    BY <2>1, StayedAt
<1>9. CASE SecondTry(b) /\ Refused(b)
  BY <1>9, AbortResult, AtFirst DEF SecondTry, Moved
<1>10. CASE RemoveLeftOver(b) \/ FirstTry(b) \/ Transferred(b) \/ TransferFails(b) \/ MoveToName(b)
            \/ (SecondTry(b) /\ ~Refused(b))
  <2>1. /\ at' = at /\ (tarball' = tarball \/ \E x : SetTarball(b, x)) /\ local' = local
        /\ pc'[b] \in {"passive", "active", "transfer", "mv", "save"}
    BY <1>10 DEF RemoveLeftOver, FirstTry, Transferred, TransferFails, AfterFirstTry, MoveToName,
           SecondTry, Goto, files, TypeOK
  <2> QED
    BY <2>1, StayedAt
<1>11. CASE RemoveFromLocal(b)
  <2>1. at' = at /\ tarball' = tarball /\ SetLocal(b, "none") /\ pc'[b] = "mvlocal"
    BY <1>11 DEF RemoveFromLocal, Overtake
  <2> QED
    BY <2>1, StayedAt
<1>12. CASE MoveToLocal(b)
  <2>1. /\ at' = at /\ SetTarball(b, "none") /\ SetLocal(b, tarball[b][File(b)])
        /\ pc[b] = "mvlocal" /\ pc'[b] = "lnsave"
    BY <1>12 DEF MoveToLocal, Goto, TypeOK
  <2>2. Plainly(b) => local'[File(b)] = "whole"
    BY <2>1 DEF Saves, SetLocal, TypeOK
  <2> QED
    BY <2>1, <2>2, StayedAt
<1>13. CASE GetCVS(b)
  <2>1. /\ tarball' = tarball \/ \E x : SetTarball(b, x)
        /\ local' = local \/ \E y : SetLocal(b, y)
        /\ \/ at' = at /\ pc'[b] \in {"tarring", "save"}
           \/ at'[b] = 1 /\ pc'[b] = "idle"
    BY <1>13 DEF GetCVS, BeginTar, TarFails, EndTar, Goto, Abort, files, TypeOK
  <2> QED
    BY <2>1, StayedAt, AtFirst
<1>14. ~BeginCopy(b) /\ ~EndCopy(b)
  BY DEF BeginCopy, Renames, EndCopy, NoTar
<1> QED
  BY <1>0, <1>2, <1>3, <1>4, <1>5, <1>6, <1>7, <1>8, <1>9, <1>10, <1>11, <1>12, <1>13,
     <1>14
  DEF Next, Shell, Local, Fetch, Save

\* When a build that has the local storage to itself ends its retrieval, every tarball is
\* there and whole, whatever failed or was killed before, and whatever the user cleaned.
THEOREM RetrievedCorrect ==
  ASSUME SameFS, Distinct, OneBuild
  PROVE  Spec => Retrieved
<1>1. Init => ReadInv
  BY DEF Init, ReadInv, AtStart, Earlier
<1>2. WholeInv /\ ReadInv /\ [Next]_vars => ReadInv'
  <2>1. CASE UNCHANGED vars
    BY <2>1 DEF vars, files, ReadInv, AtStart, Earlier, Read, Plainly, File
  <2>2. ASSUME WholeInv, ReadInv, Next, Builds # {} PROVE ReadInv'
    BY <2>2, ReadStep
  <2>3. ASSUME Builds = {} PROVE ReadInv'
    BY <2>3 DEF ReadInv, AtStart
  <2> QED
    BY <2>1, <2>2, <2>3
<1>3. WholeInv /\ ReadInv /\ [Next]_vars =>
        [\A b \in Builds :
           pc[b] # "done" /\ pc'[b] = "done" /\ ~opt'[b].forbid => AllRead(b)']_vars
  BY ReadStep
<1>4. WholeInv /\ [Next]_vars => WholeInv'
  BY WholeStep
<1> QED
  BY <1>1, <1>2, <1>3, <1>4, WholeInit, PTL DEF Spec, Retrieved
=============================================================================
