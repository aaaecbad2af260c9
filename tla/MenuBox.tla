------------------------------ MODULE MenuBox ------------------------------
(***************************************************************************)
(* dialog_menu (lxdialog/menubox.c): a window onto the list of items, with *)
(* one row that is lit, called again and again by conf (mconf.c), which    *)
(* keeps in between the item it was left on and how far it was scrolled.   *)
(***************************************************************************)
EXTENDS Dialog

CONSTANTS MenuHeights   \* the rows the window can have: those of the terminal less 14

ASSUME MenuAssumption == MenuHeights \subseteq Nat \ {0} /\ MenuHeights # {}

VARIABLES s_scroll, active_menu,        \* conf
          menu_height, scroll, choice, first_item, button,
          rows,         \* the item that each row of the window shows
          lit           \* the rows that are lit

menuboxVars == <<s_scroll, active_menu, menu_height, scroll, choice, first_item, button,
                 rows, lit>>
MenuInit ==
  /\ s_scroll = 0 /\ active_menu = None
  /\ menu_height \in MenuHeights /\ scroll = 0 /\ choice = 0 /\ first_item = 0 /\ button = 0
  /\ rows = << >> /\ lit = {}
\* The variables of dialog_menu are gone when it returns.
MenuGone ==
  /\ scroll' = 0 /\ choice' = 0 /\ first_item' = 0 /\ button' = 0
  /\ rows' = << >> /\ lit' = {} /\ UNCHANGED menu_height

(***************************************************************************)
(* From do_resize on: the item that is lit, and where the window begins.   *)
(***************************************************************************)
MaxChoice(h, list) == Lesser(h, Len(list))
max_choice == MaxChoice(menu_height, items)

\* The last item that stands for the active menu; without one choice is what it was.
Found(list) == {n \in 0 .. Len(list) - 1 : active_menu # None /\ list[n + 1].data = active_menu}
Default(d, list, c) ==
  IF Found(list) = {} THEN d = c ELSE d \in Found(list) /\ \A n \in Found(list) : n <= d

SavedFits(m, list, c) == s_scroll <= c /\ c < s_scroll + m /\ s_scroll + m <= Len(list)
Middle(m, list, c) ==
  IF c >= Len(list) - m \div 2 THEN Len(list) - m ELSE c - m \div 2
Top(m, list, c) ==
  IF SavedFits(m, list, c) THEN s_scroll ELSE IF c >= m THEN Middle(m, list, c) ELSE 0
\* first_item is only assigned along with a scroll.
First(m, list, c, f) == IF SavedFits(m, list, c) \/ c >= m THEN Top(m, list, c) ELSE f

\* The box is drawn; c and f are what choice and first_item were.
Draw(h, list, c, f) ==
  LET m == MaxChoice(h, list)
  IN \E d \in 0 .. Len(list) - 1 :
       /\ Default(d, list, c)
       /\ menu_height' = h
       /\ scroll' = Top(m, list, d)
       /\ first_item' = First(m, list, d, f)
       /\ choice' = d - scroll'
       /\ rows' = [r \in 0 .. m - 1 |-> first_item' + r]
       /\ lit' = {choice'}

\* conf makes the list anew, as it is now, and calls dialog_menu.
OpenMenu ==
  /\ \E list \in Lists : OpenOn("menu", list) /\ Draw(menu_height, list, 0, 0)
  /\ marked' = {} /\ button' = 0
  /\ UNCHANGED <<s_scroll, active_menu>>

\* What conf does with an answer: the item becomes the active one; with Exit, or
\* without an item, it returns, and the next conf begins at the top.
Answered(code, sel) ==
  IF code \in {1, Esc, TooSmall} THEN s_scroll' = 0 /\ active_menu' = None
  ELSE s_scroll' = scroll /\ active_menu' = Item(sel).data

OpenMenuSmall ==
  Resized /\ OpenSmall /\ marked' = {} /\ Answered(TooSmall, 0) /\ MenuGone

(***************************************************************************)
(* Keys that move the light: it is put out, the list scrolls by n, and row *)
(* c is lit.                                                               *)
(***************************************************************************)
InMenu == open = "menu"
Move(n, c) ==
  LET out == [rows EXCEPT ![choice] = scroll + choice]
  IN /\ scroll' = scroll + n
     /\ choice' = c
     /\ rows' = [Scrolled(out, max_choice, n, [r \in 0 .. max_choice - 1 |-> scroll' + r])
                  EXCEPT ![c] = scroll' + c]
     /\ lit' = ScrolledLit(lit \ {choice}, max_choice, n) \union {c}
     /\ Stay /\ UNCHANGED <<s_scroll, active_menu, menu_height, first_item, button>>

MenuUp ==
  /\ InMenu
  /\ \/ choice < 2 /\ scroll > 0 /\ Move(0 - 1, choice)
     \/ ~(choice < 2 /\ scroll > 0) /\ Move(0, Greater(choice - 1, 0))

MoreBelow == scroll + max_choice < Count
MenuDown ==
  /\ InMenu
  /\ \/ choice > max_choice - 3 /\ MoreBelow /\ Move(1, choice)
     \/ ~(choice > max_choice - 3 /\ MoreBelow) /\ Move(0, Lesser(choice + 1, max_choice - 1))

\* A page: the list scrolls as far as it can, and the light moves for the rest.
MenuPageUp ==
  /\ InMenu
  /\ \E k \in {Lesser(scroll, max_choice)} :
       Move(0 - k, Greater(0, choice - (max_choice - k)))
MenuPageDown ==
  /\ InMenu
  /\ \E k \in {Lesser(max_choice, Count - max_choice - scroll)} :
       Move(k, Lesser(max_choice - 1, choice + (max_choice - k)))

\* The next row in the window with that letter, or the first one; y, n, m and h are
\* never taken for a letter.
Hot(key) == {r \in 0 .. max_choice - 1 : key \notin {"y", "n", "m", "h"} /\ Item(scroll + r).hot = key}
NextHot(r, key) ==
  LET below == {q \in Hot(key) : q > choice}
      at == IF below = {} THEN Hot(key) ELSE below
  IN r \in at /\ \A q \in at : r <= q
MenuLetter ==
  /\ InMenu
  /\ \E key \in Keys \ {"-", "+"}, r \in 0 .. max_choice - 1 : NextHot(r, key) /\ Move(0, r)

(***************************************************************************)
(* The other keys.                                                         *)
(***************************************************************************)
MenuButtons ==
  /\ InMenu /\ Stay
  /\ button' \in {NextButton(button, 2), PrevButton(button, 2)}
  /\ UNCHANGED <<s_scroll, active_menu, menu_height, scroll, choice, first_item, rows, lit>>

CloseMenu(code, sel) ==
  /\ Close(code)
  /\ marked' = IF code \in {Esc, TooSmall} THEN marked ELSE marked \union {sel}
  /\ Answered(code, sel) /\ MenuGone

\* Return and the keys that stand for a button or a value, if they are not the letter
\* of an item.
Codes ==
  [k \in {"y", "s", "n", "m", " ", "/", "h", "?"} |->
     CASE k \in {"y", "s"} -> 3 [] k = "n" -> 4 [] k = "m" -> 5
       [] k = " " -> 6 [] k = "/" -> 7 [] k \in {"h", "?"} -> 2]
MenuReturn ==
  /\ InMenu
  /\ \/ CloseMenu(button, scroll + choice)
     \/ \E key \in Keys \intersect DOMAIN Codes :
          Hot(key) = {} /\ CloseMenu(Codes[key], scroll + choice)

\* Escape, and e and x if they are no item's letter.
MenuEscape ==
  /\ InMenu
  /\ \E key \in Keys \union {"esc"} : key \in {"esc", "e", "x"} /\ Hot(key) = {}
  /\ CloseMenu(Esc, 0)

\* The terminal has another size: too small a one, or the box is drawn again.
MenuResize ==
  /\ InMenu /\ Resize
  /\ \/ /\ \E h \in MenuHeights : Draw(h, items, choice, first_item)
        /\ UNCHANGED <<open, items, marked, result, s_scroll, active_menu, button>>
     \/ CloseSmall /\ Answered(TooSmall, 0) /\ MenuGone

MenuKey ==
  \/ MenuUp \/ MenuDown \/ MenuPageUp \/ MenuPageDown \/ MenuLetter
  \/ MenuButtons \/ MenuReturn \/ MenuEscape \/ MenuResize
MenuNext == OpenMenu \/ OpenMenuSmall \/ MenuKey

MenuSpec == DialogInit /\ MenuInit /\ [][MenuNext]_<<dialogVars, menuboxVars>>

-----------------------------------------------------------------------------
\* The window lies on the list and the row that is lit in the window, however the
\* list has changed since s_scroll was saved, and whatever the size of the terminal:
\* item_set is never asked for an item that is not there.
MenuInWindow ==
  InMenu => /\ choice \in 0 .. max_choice - 1
            /\ scroll \in 0 .. Count - max_choice

\* Each row shows the item that a return there would choose, and only the row of
\* choice is lit: the lines that were scrolled in, and those that were not printed
\* again, are the right ones.
MenuShows ==
  InMenu => lit = {choice} /\ \A r \in 0 .. max_choice - 1 : rows[r] = scroll + r
MenuShownUnresized == resizes = 0 => MenuShows

\* Both, the second until the terminal is resized.
MenuRight == MenuInWindow /\ MenuShownUnresized
=============================================================================
