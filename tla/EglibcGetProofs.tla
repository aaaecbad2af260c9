--------------------------- MODULE EglibcGetProofs ---------------------------
(***************************************************************************)
(* do_libc_get of eglibc never ends well with some of the tarballs only,   *)
(* however many there are and however often it has been killed.            *)
(***************************************************************************)
EXTENDS EglibcGet, TLAPS

\* The loops know what they have done, and what is still to do.
Linking == pc = "ln" =>
    /\ local = File
    /\ \A n \in File : n < at => tarball[n] = "link"
Moving == pc = "mv" => \A n \in File : n < at => tarball[n] = "whole"
Saved(n) == tarball[n] = "link" /\ n \in local
Saving == pc = "mvlocal" =>
    \A n \in File : (n < at => Saved(n)) /\ (n >= at => tarball[n] = "whole")
SaveHalf == pc = "lnsave" =>
    /\ at \in local
    /\ \A n \in File : (n < at => Saved(n)) /\ (n > at => tarball[n] = "whole")

IInv == TypeOK /\ Linking /\ Moving /\ Saving /\ SaveHalf /\ Retrieved

-----------------------------------------------------------------------------

\* A build begins with nothing in any loop.
LEMMA InitInv == Init => IInv
<1> SUFFICES ASSUME Init PROVE IInv
  OBVIOUS
<1>1. 1 \in File /\ 0 \in 0..MaxFaults
  BY EglibcAssumption DEF File
<1>2. TypeOK
  BY <1>1 DEF Init, TypeOK
<1>3. Linking /\ Moving /\ Saving /\ SaveHalf /\ Retrieved
  BY DEF Init, Linking, Moving, Saving, SaveHalf, Retrieved
<1> QED
  BY <1>2, <1>3 DEF IInv

\* A round of a loop goes to the next tarball or ends the loop after the last one.
LEMMA RoundResult ==
  ASSUME NEW l, NEW then, at \in File, Round(l, then)
  PROVE  /\ at' \in File
         /\ pc' \in {l, then}
         /\ pc' = l /\ l # then => at' = at + 1
         /\ pc' # l => at = NFiles /\ at' = 1
  BY EglibcAssumption DEF Round, Rounds, Goto, File

\* Every step of the shell and of the user keeps the inductive invariant.
LEMMA StepInv == IInv /\ [Next]_vars => IInv'
<1> SUFFICES ASSUME IInv, [Next]_vars PROVE IInv'
  OBVIOUS
<1> USE EglibcAssumption
<1> USE DEF IInv, TypeOK, File
<1>1. CASE UNCHANGED vars
  BY <1>1 DEF vars, Linking, Moving, Saving, SaveHalf, Saved, Retrieved, Exists
<1>2. CASE Start
  BY <1>2 DEF Start, Goto, Linking, Moving, Saving, SaveHalf, Retrieved
<1>3. CASE Crash
  BY <1>3 DEF Crash, Abort, Goto, Fault, Linking, Moving, Saving, SaveHalf, Retrieved
<1>4. CASE WipeFile
  BY <1>4 DEF WipeFile, Linking, Moving, Saving, SaveHalf, Retrieved
<1>5. CASE Wiped
  BY <1>5 DEF Wiped, Goto, Linking, Moving, Saving, SaveHalf, Retrieved
<1>6. CASE AlreadyHave
  BY <1>6 DEF AlreadyHave, HaveAll, Goto, Exists, Linking, Moving, Saving, SaveHalf, Retrieved
<1>7. CASE GotFromLocal
  BY <1>7 DEF GotFromLocal, AllLocal, Goto, Linking, Moving, Saving, SaveHalf, Retrieved
<1>8. CASE NotInLocal
  BY <1>8 DEF NotInLocal, Goto, Linking, Moving, Saving, SaveHalf, Retrieved
<1>9. CASE LinkToLocal
  BY <1>9, RoundResult
  DEF LinkToLocal, SetTarball, Exists, Linking, Moving, Saving, SaveHalf, Retrieved
<1>10. CASE CannotLink
  BY <1>10 DEF CannotLink, Abort, Goto, Linking, Moving, Saving, SaveHalf, Retrieved
<1>11. CASE Export
  BY <1>11 DEF Export, Goto, Linking, Moving, Saving, SaveHalf, Retrieved
<1>12. CASE ExportFails
  BY <1>12 DEF ExportFails, Abort, Goto, Fault, Linking, Moving, Saving, SaveHalf, Retrieved
<1>13. CASE MoveToName
  BY <1>13, RoundResult
  DEF MoveToName, SetTarball, Exists, Linking, Moving, Saving, SaveHalf, Saved, Retrieved
<1>14. CASE MoveToLocal
  BY <1>14
  DEF MoveToLocal, SetTarball, Linking, Moving, Saving, SaveHalf, Saved, Retrieved
<1>15. CASE LinkToSaved
  BY <1>15, RoundResult
  DEF LinkToSaved, SetTarball, Exists, Linking, Moving, Saving, SaveHalf, Saved, Retrieved
<1> QED
  BY <1>1, <1>2, <1>3, <1>4, <1>5, <1>6, <1>7, <1>8, <1>9, <1>10, <1>11, <1>12, <1>13,
     <1>14, <1>15 DEF Next, Shell

\* The inductive invariant of do_libc_get.
THEOREM EglibcInvariance == Spec => []IInv
  BY InitInv, StepInv, PTL DEF Spec

\* For any number of tarballs, failures and kills: a retrieval of eglibc that ends
\* without an error has all the tarballs.
THEOREM EglibcRetrieved == Spec => []Retrieved
<1>1. IInv => Retrieved
  BY DEF IInv
<1> QED
  BY <1>1, EglibcInvariance, PTL
=============================================================================
