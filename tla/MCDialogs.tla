----------------------------- MODULE MCDialogs -----------------------------
(***************************************************************************)
(* Lists that fit in the window and that do not, lines and texts that fit  *)
(* in a box and that do not.                                               *)
(***************************************************************************)
EXTENDS Dialogs

ListOf(hots) == [n \in DOMAIN hots |-> [data |-> IF hots[n] = "-" THEN None ELSE n, hot |-> hots[n]]]
\* An entry has gone, and one without a letter has come.
MCLists == {ListOf(<<"a", "s">>), ListOf(<<"a", "x", " ", "-", "a">>)}
MCInits == {<< >>, <<"c", "d", "c">>}
MCTexts ==
  {[full |-> 1, rest |-> FALSE, height |-> 0], [full |-> 4, rest |-> FALSE, height |-> 0],
   [full |-> 7, rest |-> FALSE, height |-> 0], [full |-> 1, rest |-> TRUE, height |-> 2]}
=============================================================================
