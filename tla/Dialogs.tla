------------------------------ MODULE Dialogs ------------------------------
(***************************************************************************)
(* The boxes of menuconfig on one terminal: mconf opens them one after the *)
(* other, and while one is open the terminal may be resized.               *)
(***************************************************************************)
EXTENDS MenuBox, CheckList, InputBox, TextBox

VARIABLES yes_button    \* dialog_yesno

vars == <<dialogVars, menuboxVars, checklistVars, inputVars, textVars, yes_button>>

Init ==
  DialogInit /\ MenuInit /\ CheckInit /\ InputInit /\ TextInit /\ yes_button = 0

\* The rows a menu will have, after the terminal was resized while another box was open.
OtherBox ==
  IF resizes' = resizes THEN UNCHANGED menuboxVars
  ELSE /\ menu_height' \in MenuHeights
       /\ UNCHANGED <<s_scroll, active_menu, scroll, choice, first_item, button, rows, lit>>

(***************************************************************************)
(* dialog_yesno (lxdialog/yesno.c).                                        *)
(***************************************************************************)
OpenYesNo == Open("yesno") /\ yes_button' = 0
YesNoButtons ==
  /\ open = "yesno" /\ Stay
  /\ yes_button' \in {NextButton(yes_button, 1), PrevButton(yes_button, 1)}
\* Return and space, y, n, and escape.
YesNoReturn ==
  /\ open = "yesno" /\ UNCHANGED marked /\ yes_button' = 0
  /\ \E code \in {yes_button, 0, 1, Esc} : Close(code)
YesNoResize ==
  /\ open = "yesno" /\ Resize
  /\ \/ UNCHANGED <<open, items, marked, result, yes_button>>
     \/ CloseSmall /\ yes_button' = 0
OpenYesNoSmall == Resized /\ OpenSmall /\ marked' = {} /\ UNCHANGED yes_button
YesNoNext == OpenYesNo \/ OpenYesNoSmall \/ YesNoButtons \/ YesNoReturn \/ YesNoResize

-----------------------------------------------------------------------------
Next ==
  \/ MenuNext /\ UNCHANGED <<checklistVars, inputVars, textVars, yes_button>>
  \/ CheckNext /\ OtherBox /\ UNCHANGED <<inputVars, textVars, yes_button>>
  \/ InputNext /\ OtherBox /\ UNCHANGED <<checklistVars, textVars, yes_button>>
  \/ TextNext /\ OtherBox /\ UNCHANGED <<checklistVars, inputVars, yes_button>>
  \/ YesNoNext /\ OtherBox /\ UNCHANGED <<checklistVars, inputVars, textVars>>

Spec == Init /\ [][Next]_vars

=============================================================================
