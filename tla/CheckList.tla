----------------------------- MODULE CheckList -----------------------------
(***************************************************************************)
(* dialog_checklist (lxdialog/checklist.c): the values of a choice, of     *)
(* which one is chosen.  Unlike the menu box it has a height of its own,   *)
(* and prints the arrows that tell of more items only when it scrolls.     *)
(***************************************************************************)
EXTENDS Dialog

CONSTANTS ListHeight    \* list_height, 6 for conf_choice

ASSUME CheckAssumption == ListHeight \in Nat \ {0}

VARIABLES list_scroll, list_choice, list_button,
          list_rows, list_lit,  \* the item each row shows, and the rows that are lit
          arrows                \* whether it shows that there are items above and below

checklistVars == <<list_scroll, list_choice, list_button, list_rows, list_lit, arrows>>
CheckInit ==
  /\ list_scroll = 0 /\ list_choice = 0 /\ list_button = 0
  /\ list_rows = << >> /\ list_lit = {} /\ arrows = [up |-> FALSE, down |-> FALSE]
CheckGone ==
  /\ list_scroll' = 0 /\ list_choice' = 0 /\ list_button' = 0
  /\ list_rows' = << >> /\ list_lit' = {} /\ arrows' = [up |-> FALSE, down |-> FALSE]

list_max == Lesser(ListHeight, Count)
Arrows(s, c, n) == [up |-> s > 0, down |-> ListHeight < n /\ s + c < n - 1]

\* do_resize: c is the choice, in the list or, when the box is drawn again, in the
\* window, and s the scroll it has been.
DrawList(c, s, n) ==
  /\ list_scroll' = IF c >= ListHeight THEN c - ListHeight + 1 ELSE s
  /\ list_choice' = IF c >= ListHeight THEN c - list_scroll' ELSE c
  /\ list_rows' = [r \in 0 .. Lesser(ListHeight, n) - 1 |-> list_scroll' + r]
  /\ list_lit' = {list_choice'}
  /\ arrows' = Arrows(list_scroll', list_choice', n)

\* conf_choice fills the list; the value that was selected is lit, or the one that is y.
OpenChecklist ==
  /\ \E list \in Lists : \E c \in 0 .. Len(list) - 1 :
       OpenOn("checklist", list) /\ DrawList(c, 0, Len(list)) /\ marked' = {c}
  /\ list_button' = 0

\* conf_choice returns.
OpenChecklistSmall ==
  /\ OpenSmall /\ \E list \in Lists : \E c \in 0 .. Len(list) - 1 : marked' = {c}
  /\ UNCHANGED checklistVars

InList == open = "checklist"
LightRow(c) ==
  /\ list_choice' = c
  /\ list_rows' = [list_rows EXCEPT ![list_choice] = list_scroll + list_choice,
                                    ![c] = list_scroll + c]
  /\ list_lit' = (list_lit \ {list_choice}) \union {c}
  /\ Stay /\ UNCHANGED <<list_scroll, list_button, arrows>>

\* A list of one row is printed over; a longer one is scrolled by n, after row c has
\* been put out, and row c is printed with what has come in.
\* (Wrong variant: the row that scrolls away from the edge is left lit.)
LitLeft(c, n) == ScrolledLit(list_lit, list_max, n) \union {c}
LitScrolled(c, n) ==
  (IF ListHeight > 1 THEN ScrolledLit(list_lit \ {c}, list_max, n) ELSE list_lit) \union {c}
ScrollBy(n, c) ==
  /\ list_scroll' = list_scroll + n
  /\ list_rows' =
       [(IF ListHeight > 1 THEN Scrolled(list_rows, list_max, n, list_rows) ELSE list_rows)
          EXCEPT ![c] = list_scroll' + c]
  /\ list_lit' = LitScrolled(c, n)
  /\ arrows' = Arrows(list_scroll', list_choice, Count)
  /\ Stay /\ UNCHANGED <<list_choice, list_button>>

ListUp ==
  /\ InList
  /\ \/ list_choice = 0 /\ list_scroll > 0 /\ ScrollBy(0 - 1, 0)
     \/ list_choice > 0 /\ LightRow(list_choice - 1)

More == list_scroll + list_choice < Count - 1
ListDown ==
  /\ InList
  /\ \/ list_choice = list_max - 1 /\ More /\ ScrollBy(1, list_max - 1)
     \/ list_choice # list_max - 1 /\ LightRow(list_choice + 1)

\* The first row in the window that begins with the letter.
Letter(key) == {r \in 0 .. list_max - 1 : Item(list_scroll + r).hot = key}
ListLetter ==
  /\ InList
  /\ \E key \in Keys \ {"-", "+"} :
       \E r \in Letter(key) : (\A q \in Letter(key) : r <= q) /\ LightRow(r)

ListButtons ==
  /\ InList /\ Stay
  /\ list_button' \in {NextButton(list_button, 1), PrevButton(list_button, 1)}
  /\ UNCHANGED <<list_scroll, list_choice, list_rows, list_lit, arrows>>

Chosen == list_scroll + list_choice
\* All but the item that is lit are unmarked.
ListReturn ==
  /\ InList
  /\ \/ Close(list_button)
     \/ \E key \in Keys \intersect {"s", " ", "h", "?"} :
          Letter(key) = {} /\ Close(IF key \in {"h", "?"} THEN 1 ELSE list_button)
  /\ marked' = {Chosen}
  /\ CheckGone

ListEscape ==
  /\ InList
  /\ \E key \in Keys \union {"esc"} : key \in {"esc", "x"} /\ Letter(key) = {}
  /\ Close(Esc) /\ CheckGone /\ UNCHANGED marked

ListResize ==
  /\ InList /\ Resize
  /\ \/ DrawList(list_choice, list_scroll, Count)
        /\ UNCHANGED <<open, items, marked, result, list_button>>
     \/ CloseSmall /\ CheckGone

CheckKey ==
  \/ ListUp \/ ListDown \/ ListLetter \/ ListButtons \/ ListReturn \/ ListEscape \/ ListResize
CheckNext == OpenChecklist \/ OpenChecklistSmall \/ CheckKey

CheckSpec == DialogInit /\ CheckInit /\ [][CheckNext]_<<dialogVars, checklistVars>>

-----------------------------------------------------------------------------
\* The window lies on the list, and the row that is lit in the window.
ListInWindow ==
  InList => /\ list_choice \in 0 .. list_max - 1
            /\ list_scroll \in 0 .. Count - list_max

\* Each row shows the value that a return there would choose, and one row is lit,
\* though only the rows that change are printed.
ListShows ==
  InList => /\ list_lit = {list_choice}
            /\ \A r \in 0 .. list_max - 1 : list_rows[r] = list_scroll + r

\* There are values below the window exactly when the arrow says so, though the arrows
\* are not printed when the light moves within the window.
ArrowsTell ==
  InList /\ resizes = 0 =>
    arrows = [up |-> list_scroll > 0, down |-> list_scroll + list_max < Count]

\* All that the checklist shows.
ListRight == ListInWindow /\ ListShows /\ ArrowsTell
=============================================================================
