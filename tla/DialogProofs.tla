---------------------------- MODULE DialogProofs ----------------------------
(***************************************************************************)
(* The boxes never leave their lists, lines and texts, and show what a key *)
(* acts on: for every list, line and text, every size of the window, and   *)
(* every sequence of keys, boxes and sizes of the terminal.                *)
(***************************************************************************)
EXTENDS Dialogs, TLAPS

\* A box is open after its own steps or none is, and each counts the resizes.
LEMMA WhichBox ==
    /\ MenuNext => open' \in {"menu", "none"}
    /\ CheckNext => open' \in {"checklist", "none"} /\ (UNCHANGED resizes \/ Resize)
    /\ InputNext => open' \in {"inputbox", "none"} /\ (UNCHANGED resizes \/ Resize)
    /\ TextNext => open' \in {"textbox", "none"} /\ (UNCHANGED resizes \/ Resize)
    /\ YesNoNext => open' \in {"yesno", "none"} /\ (UNCHANGED resizes \/ Resize)
<1>1. ASSUME MenuNext PROVE open' \in {"menu", "none"}
  BY <1>1 DEF MenuNext, MenuKey, OpenMenu, OpenMenuSmall, OpenSmall, OpenOn, InMenu, MenuUp, MenuDown, MenuPageUp,
       MenuPageDown, MenuLetter, MenuButtons, MenuReturn, MenuEscape, MenuResize, CloseMenu,
       Move, Stay, Close, CloseSmall, dialogVars
<1>2. ASSUME CheckNext PROVE open' \in {"checklist", "none"} /\ (UNCHANGED resizes \/ Resize)
  BY <1>2 DEF CheckNext, CheckKey, OpenChecklist, OpenChecklistSmall, OpenSmall, OpenOn, InList,
       ListUp, ListDown, ListLetter, ListButtons, ListReturn, ListEscape, ListResize, LightRow, ScrollBy, Stay, Close,
       CloseSmall, dialogVars
<1>3. ASSUME InputNext PROVE open' \in {"inputbox", "none"} /\ (UNCHANGED resizes \/ Resize)
  BY <1>3 DEF InputNext, InputKey, OpenInput, OpenInputSmall, OpenSmall, Open, OpenOn, InField,
       TypeChar, Backspace, InputFocus, InputReturn, InputEscape, InputResize, Stay, Close, CloseSmall, dialogVars
<1>4. ASSUME TextNext PROVE open' \in {"textbox", "none"} /\ (UNCHANGED resizes \/ Resize)
  BY <1>4 DEF TextNext, TextKey, OpenText, OpenTextSmall, OpenSmall, Open, OpenOn, InText,
       FirstPage, LastPage, LineUp, PageUp, LineDown, PageDown, ShiftLeft, ShiftRight, Shifted,
       TextExit, TextReturn, TextResize, Keep, Stay, Close, CloseSmall,
       dialogVars
<1>5. ASSUME YesNoNext PROVE open' \in {"yesno", "none"} /\ (UNCHANGED resizes \/ Resize)
  BY <1>5 DEF YesNoNext, OpenYesNo, OpenYesNoSmall, OpenSmall, YesNoButtons, YesNoReturn, YesNoResize, Open, OpenOn,
       Stay, Close, CloseSmall, dialogVars
<1> QED
  BY <1>1, <1>2, <1>3, <1>4, <1>5

-----------------------------------------------------------------------------
(* The menu box *)

\* What the rows show is only known while the terminal has kept its size: first_item
\* is not set again when the box is drawn anew without a scroll.
MenuRows ==
    /\ rows \in [0 .. max_choice - 1 -> Int]
    /\ resizes = 0 => lit = {choice} /\ \A r \in 0 .. max_choice - 1 : rows[r] = scroll + r

MenuInv ==
    /\ resizes \in Nat /\ first_item \in Int
    /\ s_scroll \in Nat
    /\ menu_height \in MenuHeights
    /\ InMenu => /\ Count \in Nat \ {0}
                 /\ choice \in 0 .. max_choice - 1
                 /\ scroll \in 0 .. Count - max_choice
                 /\ MenuRows

LEMMA MaxChoiceType ==
    ASSUME NEW h \in Nat \ {0}, NEW list, Len(list) \in Nat \ {0}
    PROVE  MaxChoice(h, list) \in 1 .. Len(list)
BY DEF MaxChoice, Lesser

\* Whatever was saved, and whichever item is the active one, the window that is drawn
\* lies on the list and the item in it.
LEMMA Window ==
    ASSUME s_scroll \in Nat, NEW list, Len(list) \in Nat \ {0},
           NEW m \in 1 .. Len(list), NEW d \in 0 .. Len(list) - 1
    PROVE  /\ Top(m, list, d) \in 0 .. Len(list) - m
           /\ d - Top(m, list, d) \in 0 .. m - 1
<1> DEFINE q == m \div 2
<1>1. q \in Nat /\ 2 * q <= m /\ m <= 2 * q + 1
  OBVIOUS
<1>2. CASE SavedFits(m, list, d)
  BY <1>2 DEF Top, SavedFits
<1>3. CASE ~SavedFits(m, list, d) /\ d < m
  BY <1>3 DEF Top
<1>4. CASE ~SavedFits(m, list, d) /\ d >= m
  <2>1. Top(m, list, d) = IF d >= Len(list) - q THEN Len(list) - m ELSE d - q
    BY <1>4 DEF Top, Middle
  <2> HIDE DEF q
  <2> QED
    BY <2>1, <1>1, <1>4
<1> QED
  BY <1>2, <1>3, <1>4

LEMMA DrawnMenu ==
    ASSUME s_scroll \in Nat, NEW list, Len(list) \in Nat \ {0}, NEW h \in MenuHeights,
           NEW c \in Int, NEW f \in Int, Draw(h, list, c, f), items' = list
    PROVE  /\ menu_height' = h
           /\ choice' \in 0 .. max_choice' - 1
           /\ scroll' \in 0 .. Count' - max_choice'
           /\ rows' \in [0 .. max_choice' - 1 -> Int]
           /\ lit' = {choice'}
           /\ first_item' \in Int
           /\ f = 0 => \A r \in 0 .. max_choice' - 1 : rows'[r] = scroll' + r
<1> DEFINE m == MaxChoice(h, list)
<1>1. PICK d \in 0 .. Len(list) - 1 :
        /\ menu_height' = h
        /\ scroll' = Top(m, list, d)
        /\ first_item' = First(m, list, d, f)
        /\ choice' = d - scroll'
        /\ rows' = [r \in 0 .. m - 1 |-> first_item' + r]
        /\ lit' = {choice'}
  BY DEF Draw
<1>2. m \in 1 .. Len(list)
  BY MaxChoiceType, MenuAssumption
<1>3. max_choice' = m /\ Count' = Len(list)
  BY <1>1 DEF max_choice, Count
<1> HIDE DEF m
<1>4. /\ Top(m, list, d) \in 0 .. Len(list) - m
      /\ d - Top(m, list, d) \in 0 .. m - 1
  BY <1>2, Window
<1>5. first_item' \in Int /\ (f = 0 => first_item' = scroll')
  BY <1>1, <1>4 DEF First, Top
<1> QED
  BY <1>1, <1>2, <1>3, <1>4, <1>5, SMTT(40)

\* The rows that are scrolled in, and those that are scrolled, show what they should.
LEMMA MovedMenu ==
    ASSUME MenuInv, InMenu, NEW n \in Int, NEW c \in 0 .. max_choice - 1, Move(n, c),
           scroll + n \in 0 .. Count - max_choice
    PROVE  MenuInv'
<1>1. /\ UNCHANGED <<open, items, resizes, s_scroll, menu_height, first_item>>
      /\ scroll' = scroll + n /\ choice' = c
  BY DEF Move, Stay, dialogVars
<1>2. max_choice' = max_choice /\ Count' = Count /\ max_choice \in Nat \ {0}
  <2>1. menu_height \in Nat \ {0}
    BY MenuAssumption DEF MenuInv
  <2>2. menu_height' = menu_height /\ items' = items
    BY <1>1
  <2>3. max_choice' = max_choice /\ Count' = Count
    BY <2>2 DEF max_choice, Count
  <2>0. Len(items) \in Nat \ {0}
    BY DEF MenuInv, Count
  <2>4. max_choice \in 1 .. Len(items)
    BY <2>0, <2>1, MaxChoiceType DEF max_choice
  <2> QED
    BY <2>0, <2>3, <2>4
<1> DEFINE m == max_choice
           new == [r \in 0 .. m - 1 |-> scroll' + r]
           out == [rows EXCEPT ![choice] = scroll + choice]
<1>3. rows' = [Scrolled(out, m, n, new) EXCEPT ![c] = scroll' + c]
  BY DEF Move
<1>4. out \in [0 .. m - 1 -> Int] /\ new \in [0 .. m - 1 -> Int]
  BY <1>1 DEF MenuInv, MenuRows
<1>5. /\ Scrolled(out, m, n, new) \in [0 .. m - 1 -> Int]
      /\ \A r \in 0 .. m - 1 : Scrolled(out, m, n, new)[r] =
           IF r + n \in 0 .. m - 1 THEN out[r + n] ELSE scroll' + r
  <2> HIDE DEF out
  <2> QED
    BY <1>4 DEF Scrolled
<1>6. rows' \in [0 .. m - 1 -> Int]
  <2> HIDE DEF out, new
  <2> QED
    BY <1>1, <1>3, <1>5 DEF MenuInv
<1>7. ASSUME resizes = 0 PROVE lit' = {c} /\ \A r \in 0 .. m - 1 : rows'[r] = scroll' + r
  <2>1. \A r \in 0 .. m - 1 : out[r] = scroll + r
    BY <1>7 DEF MenuInv, MenuRows
  <2>2. ScrolledLit(lit \ {choice}, m, n) = {}
    BY <1>7 DEF ScrolledLit, MenuInv, MenuRows
  <2>3. lit' = {c}
    BY <2>2 DEF Move
  <2>4. ASSUME NEW r \in 0 .. m - 1 PROVE rows'[r] = scroll' + r
    <3> HIDE DEF out, new
    <3> scroll \in Int /\ m \in Nat
      BY <1>2 DEF MenuInv
    <3>0. r + n \in 0 .. m - 1 => out[r + n] = scroll + (r + n)
      BY <2>1
    <3>1. Scrolled(out, m, n, new)[r] = scroll' + r
      BY <1>1, <1>5, <3>0
    <3> QED
      BY <1>3, <1>5, <3>1
  <2> QED
    BY <2>3, <2>4
<1>8. MenuRows'
  BY <1>1, <1>2, <1>6, <1>7 DEF MenuRows
<1> QED
  BY <1>1, <1>2, <1>8 DEF MenuInv, InMenu

LEMMA MenuStep ==
    ASSUME MenuInv, MenuNext
    PROVE  MenuInv'
<1>0. menu_height \in Nat \ {0}
  BY MenuAssumption DEF MenuInv
<1>1. CASE OpenMenu
  <2>1. PICK list \in Lists : OpenOn("menu", list) /\ Draw(menu_height, list, 0, 0)
    BY <1>1 DEF OpenMenu
  <2>2. Len(list) \in Nat \ {0}
    BY DialogAssumption
  <2>3. items' = list /\ UNCHANGED <<resizes, s_scroll>>
    BY <1>1, <2>1 DEF OpenOn, OpenMenu
  <2>4. /\ menu_height' = menu_height
        /\ choice' \in 0 .. max_choice' - 1
        /\ scroll' \in 0 .. Count' - max_choice'
        /\ rows' \in [0 .. max_choice' - 1 -> Int]
        /\ lit' = {choice'}
        /\ first_item' \in Int
        /\ \A r \in 0 .. max_choice' - 1 : rows'[r] = scroll' + r
    BY <2>1, <2>2, <2>3, DrawnMenu DEF MenuInv
  <2>5. Count' = Len(list)
    BY <2>3 DEF Count
  <2> QED
    BY <2>2, <2>3, <2>4, <2>5 DEF MenuInv, MenuRows
<1>2. ASSUME InMenu
      PROVE  /\ max_choice \in 1 .. Count
             /\ Count \in Nat \ {0}
             /\ choice \in 0 .. max_choice - 1
             /\ scroll \in 0 .. Count - max_choice
             /\ \A n \in Int : \A c \in 0 .. max_choice - 1 :
                  Move(n, c) /\ scroll + n \in 0 .. Count - max_choice => MenuInv'
  BY <1>0, <1>2, MovedMenu, MaxChoiceType DEF MenuInv, max_choice, Count
<1>3. CASE MenuUp
  <2>1. \/ choice < 2 /\ scroll > 0 /\ Move(0 - 1, choice)
        \/ Move(0, Greater(choice - 1, 0))
    BY <1>3 DEF MenuUp
  <2> QED
    BY <1>2, <1>3, <2>1 DEF MenuUp, Greater
<1>4. CASE MenuDown
  <2>1. \/ MoreBelow /\ Move(1, choice)
        \/ Move(0, Lesser(choice + 1, max_choice - 1))
    BY <1>4 DEF MenuDown
  <2> QED
    BY <1>2, <1>4, <2>1 DEF MenuDown, Lesser, MoreBelow
<1>5. CASE MenuPageUp
  <2> DEFINE k == Lesser(scroll, max_choice)
             c == Greater(0, choice - (max_choice - k))
  <2>1. Move(0 - k, c)
    BY <1>5 DEF MenuPageUp
  <2>2. 0 - k \in Int /\ scroll + (0 - k) \in 0 .. Count - max_choice /\ c \in 0 .. max_choice - 1
    BY <1>2, <1>5 DEF MenuPageUp, Lesser, Greater
  <2> HIDE DEF k, c
  <2> QED
    BY <1>2, <1>5, <2>1, <2>2 DEF MenuPageUp
<1>6. CASE MenuPageDown
  <2> DEFINE k == Lesser(max_choice, Count - max_choice - scroll)
             c == Lesser(max_choice - 1, choice + (max_choice - k))
  <2>1. Move(k, c)
    BY <1>6 DEF MenuPageDown
  <2>2. k \in Int /\ scroll + k \in 0 .. Count - max_choice /\ c \in 0 .. max_choice - 1
    BY <1>2, <1>6 DEF MenuPageDown, Lesser
  <2> HIDE DEF k, c
  <2> QED
    BY <1>2, <1>6, <2>1, <2>2 DEF MenuPageDown
<1>7. CASE MenuLetter
  <2>1. InMenu /\ \E r \in 0 .. max_choice - 1 : Move(0, r)
    BY <1>7 DEF MenuLetter
  <2> QED
    BY <1>2, <2>1
<1>8. CASE MenuButtons
  BY <1>8 DEF MenuButtons, Stay, dialogVars, MenuInv, MenuRows, InMenu, max_choice, Count
<1>9. ASSUME InMenu, NEW code, NEW sel, open' = "none", resizes' \in Nat,
             Answered(code, sel), MenuGone
      PROVE  MenuInv'
  <2>1. menu_height' = menu_height /\ first_item' = 0
    BY <1>9 DEF MenuGone
  <2>2. s_scroll' \in Nat
    BY <1>2, <1>9 DEF Answered
  <2> QED
    BY <1>9, <2>1, <2>2 DEF MenuInv, InMenu
<1>10. ASSUME InMenu, NEW code, NEW sel, CloseMenu(code, sel) PROVE MenuInv'
  BY <1>9, <1>10 DEF CloseMenu, Close, MenuInv
<1>11. CASE MenuReturn
  BY <1>10, <1>11 DEF MenuReturn
<1>12. CASE MenuEscape
  BY <1>10, <1>12 DEF MenuEscape
<1>13. CASE MenuResize
  <2>1. resizes' = resizes + 1 /\ resizes' \in Nat /\ resizes' # 0
    BY <1>13 DEF MenuResize, Resize, MenuInv
  <2>2. ASSUME NEW h \in MenuHeights, Draw(h, items, choice, first_item),
               UNCHANGED <<open, items, s_scroll>>
        PROVE  MenuInv'
    <3>1. choice \in Int /\ first_item \in Int /\ Len(items) \in Nat \ {0} /\ s_scroll \in Nat
      BY <1>2, <1>13 DEF MenuResize, MenuInv, Count
    <3>2. /\ menu_height' = h
          /\ choice' \in 0 .. max_choice' - 1
          /\ scroll' \in 0 .. Count' - max_choice'
          /\ rows' \in [0 .. max_choice' - 1 -> Int]
          /\ first_item' \in Int
      BY <2>2, <3>1, DrawnMenu
    <3>3. Count' = Len(items)
      BY <2>2 DEF Count
    <3> QED
      BY <2>1, <2>2, <3>1, <3>2, <3>3 DEF MenuInv, MenuRows
  <2> QED
    BY <1>9, <1>13, <2>1, <2>2 DEF MenuResize, CloseSmall
<1>14. CASE OpenMenuSmall
  BY <1>14 DEF OpenMenuSmall, OpenSmall, Answered, MenuGone, MenuInv, InMenu
<1> QED
  BY <1>1, <1>3, <1>4, <1>5, <1>6, <1>7, <1>8, <1>11, <1>12, <1>13, <1>14 DEF MenuNext, MenuKey

-----------------------------------------------------------------------------
(* The checklist *)

ListInv ==
    InList =>
      /\ Count \in Nat \ {0}
      /\ list_choice \in 0 .. list_max - 1
      /\ list_scroll \in 0 .. Count - list_max
      /\ list_rows \in [0 .. list_max - 1 -> Int]
      /\ list_lit = {list_choice}
      /\ \A r \in 0 .. list_max - 1 : list_rows[r] = list_scroll + r

LEMMA DrawnList ==
    ASSUME NEW n \in Nat \ {0}, NEW s \in Int, NEW c \in 0 .. n - 1, DrawList(c, s, n),
           c < ListHeight => s \in 0 .. n - Lesser(ListHeight, n),
           Len(items') = n
    PROVE  ListInv'
<1> DEFINE m == Lesser(ListHeight, n)
<1>1. Count' = n /\ list_max' = m /\ m \in 1 .. n /\ m <= ListHeight
  BY CheckAssumption DEF Count, list_max, Lesser
<1>2. /\ list_scroll' \in 0 .. n - m
      /\ list_choice' \in 0 .. m - 1
  BY CheckAssumption DEF DrawList, Lesser
<1>3. list_rows' = [r \in 0 .. m - 1 |-> list_scroll' + r] /\ list_lit' = {list_choice'}
  BY DEF DrawList
<1> HIDE DEF m
<1> QED
  BY <1>1, <1>2, <1>3 DEF ListInv, InList

LEMMA LitRow ==
    ASSUME ListInv, InList, NEW c \in 0 .. list_max - 1, LightRow(c)
    PROVE  ListInv'
<1>1. UNCHANGED <<open, items, list_scroll>> /\ list_choice' = c
  BY DEF LightRow, Stay, dialogVars
<1>2. Count' = Count /\ list_max' = list_max
  BY <1>1 DEF Count, list_max
<1>3. list_lit' = {c}
  BY DEF LightRow, ListInv
<1>4. /\ list_rows' \in [0 .. list_max - 1 -> Int]
      /\ \A r \in 0 .. list_max - 1 : list_rows'[r] = list_scroll + r
  BY DEF LightRow, ListInv
<1> QED
  BY <1>1, <1>2, <1>3, <1>4 DEF ListInv, InList

\* A list that is scrolled by a row at its edge c, where the light stays.
LEMMA ScrolledList ==
    ASSUME ListInv, InList, NEW n \in {0 - 1, 1}, NEW c \in 0 .. list_max - 1,
           ScrollBy(n, c), list_choice = c,
           c = IF n = 1 THEN list_max - 1 ELSE 0,
           list_scroll + n \in 0 .. Count - list_max
    PROVE  ListInv'
<1> DEFINE m == list_max
<1>1. UNCHANGED <<open, items, list_choice>> /\ list_scroll' = list_scroll + n
  BY DEF ScrollBy, Stay, dialogVars
<1>2. Count' = Count /\ list_max' = list_max /\ list_max \in 1 .. ListHeight
  BY <1>1, CheckAssumption DEF Count, list_max, Lesser, ListInv
<1>3. list_lit' = {c}
  <2>1. CASE ListHeight > 1
    <3>1. ScrolledLit(list_lit \ {c}, m, n) = {}
      BY DEF ScrolledLit, ListInv
    <3> QED
      BY <2>1, <3>1 DEF ScrollBy, LitScrolled
  <2>2. CASE ~(ListHeight > 1)
    BY <2>2 DEF ScrollBy, LitScrolled, ListInv
  <2> QED
    BY <2>1, <2>2
<1>4. /\ list_rows' \in [0 .. m - 1 -> Int]
      /\ \A r \in 0 .. m - 1 : list_rows'[r] = list_scroll' + r
  <2>1. CASE ListHeight > 1
    <3> DEFINE new == Scrolled(list_rows, m, n, list_rows)
    <3>1. list_rows' = [new EXCEPT ![c] = list_scroll' + c]
      BY <2>1 DEF ScrollBy
    <3>2. /\ new \in [0 .. m - 1 -> Int]
          /\ \A r \in 0 .. m - 1 : r + n \in 0 .. m - 1 => new[r] = list_rows[r + n]
      BY DEF Scrolled, ListInv
    <3>3. \A r \in 0 .. m - 1 : r # c => r + n \in 0 .. m - 1 /\ list_rows[r + n] = list_scroll + (r + n)
      BY <1>2 DEF ListInv
    <3>4. m \in Nat /\ c \in 0 .. m - 1 /\ list_scroll \in Int /\ list_scroll' \in Int
      BY <1>1, <1>2 DEF ListInv
    <3> HIDE DEF new, m
    <3>5. ASSUME NEW r \in 0 .. m - 1, r # c PROVE new[r] = list_scroll' + r
      <4>1. new[r] = list_rows[r + n]
        BY <3>2, <3>3, <3>5
      <4>2. list_rows[r + n] = list_scroll + (r + n)
        BY <3>3, <3>5
      <4>3. list_scroll + (r + n) = (list_scroll + n) + r
        BY <3>4
      <4> QED
        BY <1>1, <4>1, <4>2, <4>3
    <3>6. \A r \in 0 .. m - 1 : list_rows'[r] = IF r = c THEN list_scroll' + c ELSE new[r]
      BY <3>1, <3>2
    <3>7. list_rows' \in [0 .. m - 1 -> Int]
      BY <3>1, <3>2, <3>4
    <3> QED
      BY <3>5, <3>6, <3>7
  <2>2. CASE ~(ListHeight > 1)
    <3>1. m = 1
      BY <1>2, <2>2, CheckAssumption
    <3> QED
      BY <1>1, <2>2, <3>1 DEF ScrollBy, ListInv
  <2> QED
    BY <2>1, <2>2
<1> QED
  BY <1>1, <1>2, <1>3, <1>4 DEF ListInv, InList

LEMMA ListStep ==
    ASSUME ListInv, CheckNext
    PROVE  ListInv'
<1>0. ASSUME InList
      PROVE  /\ list_max \in 1 .. Count /\ Count \in Nat \ {0}
             /\ list_choice \in 0 .. list_max - 1
             /\ list_scroll \in 0 .. Count - list_max
  BY <1>0, CheckAssumption DEF ListInv, list_max, Lesser
<1>1. CASE OpenChecklist
  <2>1. PICK list \in Lists : \E c \in 0 .. Len(list) - 1 :
          OpenOn("checklist", list) /\ DrawList(c, 0, Len(list))
    BY <1>1 DEF OpenChecklist
  <2>2. Len(list) \in Nat \ {0} /\ items' = list
    BY <2>1, DialogAssumption DEF OpenOn
  <2>3. 0 \in 0 .. Len(list) - Lesser(ListHeight, Len(list))
    BY <2>2, CheckAssumption DEF Lesser
  <2>4. PICK c \in 0 .. Len(list) - 1 : DrawList(c, 0, Len(list))
    BY <2>1
  <2>5. Len(items') = Len(list) /\ 0 \in Int
    BY <2>2
  <2> QED
    BY <2>2, <2>3, <2>4, <2>5, DrawnList, Zenon
<1>2. CASE ListUp
  <2>1. CASE list_choice = 0 /\ list_scroll > 0 /\ ScrollBy(0 - 1, 0)
    BY <1>0, <1>2, <2>1, ScrolledList DEF ListUp
  <2>2. CASE list_choice > 0 /\ LightRow(list_choice - 1)
    BY <1>0, <1>2, <2>2, LitRow DEF ListUp
  <2> QED
    BY <1>2, <2>1, <2>2 DEF ListUp
<1>3. CASE ListDown
  <2>1. CASE list_choice = list_max - 1 /\ More /\ ScrollBy(1, list_max - 1)
    BY <1>0, <1>3, <2>1, ScrolledList DEF ListDown, More
  <2>2. CASE list_choice # list_max - 1 /\ LightRow(list_choice + 1)
    BY <1>0, <1>3, <2>2, LitRow DEF ListDown
  <2> QED
    BY <1>3, <2>1, <2>2 DEF ListDown
<1>4. CASE ListLetter
  BY <1>4, LitRow DEF ListLetter, Letter
<1>5. CASE ListButtons
  BY <1>5 DEF ListButtons, Stay, dialogVars, ListInv, InList, Count, list_max
<1>6. CASE ListReturn \/ ListEscape
  BY <1>6 DEF ListReturn, ListEscape, Close, ListInv, InList
<1>7. CASE ListResize
  <2>1. CASE DrawList(list_choice, list_scroll, Count) /\ UNCHANGED <<open, items>>
    <3>1. list_max = Lesser(ListHeight, Count) /\ Len(items') = Count
      BY <2>1 DEF list_max, Count
    <3>2. /\ Count \in Nat \ {0} /\ list_scroll \in Int /\ list_choice \in 0 .. Count - 1
          /\ list_scroll \in 0 .. Count - Lesser(ListHeight, Count)
      BY <1>0, <1>7, <3>1 DEF ListResize
    <3> QED
      BY <2>1, <3>1, <3>2, DrawnList
  <2>2. CASE CloseSmall
    BY <2>2 DEF CloseSmall, ListInv, InList
  <2> QED
    BY <1>7, <2>1, <2>2 DEF ListResize
<1>8. CASE OpenChecklistSmall
  BY <1>8 DEF OpenChecklistSmall, OpenSmall, ListInv, InList
<1> QED
  BY <1>1, <1>2, <1>3, <1>4, <1>5, <1>6, <1>7, <1>8 DEF CheckNext, CheckKey

\* The arrows tell what a calculation from the lit row gives, for that row is at the edge
\* whenever they are printed: or it was, before a resize.
LEMMA ArrowsStep ==
    ASSUME ListInv, ArrowsTell, resizes \in Nat, CheckNext
    PROVE  ArrowsTell'
<1>0. ASSUME InList
      PROVE  /\ list_max = Lesser(ListHeight, Count) /\ list_max \in 1 .. Count
             /\ Count \in Nat \ {0}
             /\ list_choice \in 0 .. list_max - 1
             /\ list_scroll \in 0 .. Count - list_max
  BY <1>0, CheckAssumption DEF ListInv, list_max, Lesser
<1>1. CASE OpenChecklist
  <2>1. PICK list \in Lists : \E c \in 0 .. Len(list) - 1 :
          OpenOn("checklist", list) /\ DrawList(c, 0, Len(list))
    BY <1>1 DEF OpenChecklist
  <2>2. PICK c \in 0 .. Len(list) - 1 : DrawList(c, 0, Len(list))
    BY <2>1
  <2>3. Len(list) \in Nat \ {0} /\ Len(items') = Len(list)
    BY <2>1, DialogAssumption DEF OpenOn
  <2>4. list_max' = Lesser(ListHeight, Len(list)) /\ Count' = Len(list)
    BY <2>3 DEF list_max, Count
  <2> DEFINE n == Len(list)
             s == list_scroll'
             k == list_choice'
  <2>5. arrows' = [up |-> s > 0, down |-> ListHeight < n /\ s + k < n - 1]
    BY <2>2 DEF DrawList, Arrows
  <2>6. /\ s = (IF c >= ListHeight THEN c - ListHeight + 1 ELSE 0)
        /\ s + k = c
    BY <2>2, <2>3, CheckAssumption DEF DrawList
  <2>7. (ListHeight < n /\ s + k < n - 1) <=> s + Lesser(ListHeight, n) < n
    <3> HIDE DEF n, s, k
    <3>1. n \in Nat \ {0} /\ c \in 0 .. n - 1 /\ ListHeight \in Nat \ {0}
      BY <2>2, <2>3, CheckAssumption DEF n
    <3>2. CASE c >= ListHeight
      BY <2>6, <3>1, <3>2 DEF Lesser
    <3>3. CASE ~(c >= ListHeight)
      BY <2>6, <3>1, <3>3 DEF Lesser
    <3> QED
      BY <3>2, <3>3
  <2> QED
    BY <2>4, <2>5, <2>7 DEF ArrowsTell
<1>2. ASSUME NEW c, InList, LightRow(c)
      PROVE  ArrowsTell'
  BY <1>2 DEF LightRow, Stay, dialogVars, ArrowsTell, InList, list_max, Count
<1>3. ASSUME InList, ScrollBy(0 - 1, 0), list_choice = 0, list_scroll > 0
      PROVE  ArrowsTell'
  <2>1. UNCHANGED <<items, list_choice>> /\ list_scroll' = list_scroll - 1
    BY <1>0, <1>3 DEF ScrollBy, Stay, dialogVars
  <2>2. Count' = Count /\ list_max' = list_max
    BY <2>1 DEF Count, list_max
  <2> QED
    BY <1>0, <1>3, <2>1, <2>2, CheckAssumption DEF ScrollBy, Arrows, Lesser, ArrowsTell
<1>4. ASSUME InList, ScrollBy(1, list_max - 1), list_choice = list_max - 1, More
      PROVE  ArrowsTell'
  <2>1. UNCHANGED <<items, list_choice>> /\ list_scroll' = list_scroll + 1
    BY <1>4 DEF ScrollBy, Stay, dialogVars
  <2>2. Count' = Count /\ list_max' = list_max
    BY <2>1 DEF Count, list_max
  <2> QED
    BY <1>0, <1>4, <2>1, <2>2, CheckAssumption DEF ScrollBy, Arrows, Lesser, ArrowsTell
<1>5. CASE ListUp
  BY <1>2, <1>3, <1>5 DEF ListUp
<1>6. CASE ListDown
  BY <1>2, <1>4, <1>6 DEF ListDown
<1>7. CASE ListLetter
  BY <1>2, <1>7 DEF ListLetter
<1>8. CASE ListButtons
  BY <1>8 DEF ListButtons, Stay, dialogVars, ArrowsTell, InList, Count, list_max
<1>9. CASE ListReturn \/ ListEscape
  BY <1>9 DEF ListReturn, ListEscape, Close, ArrowsTell, InList
<1>10. CASE ListResize
  BY <1>10 DEF ListResize, Resize, ArrowsTell
<1>11. CASE OpenChecklistSmall
  BY <1>11 DEF OpenChecklistSmall, OpenSmall, ArrowsTell, InList
<1> QED
  BY <1>1, <1>5, <1>6, <1>7, <1>8, <1>9, <1>10, <1>11 DEF CheckNext, CheckKey

-----------------------------------------------------------------------------
(* The text box *)

\* The rows show the text from place p on, and what the keys go by agrees: page_length
\* counts the lines shown, with which back_lines gets from page to p.
TextAt(p) ==
    /\ text_rows = LinesFrom(text, p, boxh)
    /\ page = PlaceAfter(text, p, boxh)
    /\ page_length = PageLength(text, p, boxh)
    /\ begin_reached = (p = 1)
    /\ end_reached = (p + boxh - 1 >= text.full + 1)

TextTypes ==
    /\ text.full \in Nat \ {0} /\ text.height \in Nat /\ boxh \in Nat
    /\ page \in 1 .. text.full + 1 /\ page_length \in Nat
\* A box without rows shows nothing and knows little: begin_reached and end_reached are
\* what they were.  But page is a place in the text.
TextWell == TextTypes /\ (boxh > 0 => \E p \in 1 .. text.full + 1 : TextAt(p))
TextInv == InText /\ ~text.rest => TextWell

\* What get_line leaves, from any place of the text.
LEMMA ReadPlace ==
    ASSUME NEW t, ~t.rest, t.full \in Nat \ {0}, NEW h \in Nat, NEW p \in 1 .. t.full + 1
    PROVE  PlaceAfter(t, p, h) \in 1 .. t.full + 1 /\ PageLength(t, p, h) \in Nat
BY DEF PlaceAfter, PageLength, EndOf, Lesser, Greater

\* print_page from any place of the text.
LEMMA PrintedPage ==
    ASSUME NEW t, ~t.rest, t.full \in Nat \ {0}, t.height \in Nat, NEW h \in Nat,
           NEW p \in 1 .. t.full + 1, NEW e,
           PrintPage(t, p, e, h), text' = t, boxh' = h,
           h > 0 => begin_reached' = (p = 1)
    PROVE  TextWell'
<1>1. TextTypes'
  BY ReadPlace DEF PrintPage, ReadPage, TextTypes
<1>2. CASE h > 0
  <2>1. TextAt(p)'
    BY <1>2 DEF PrintPage, ReadPage, TextAt, AtEnd, PlaceAfter, EndOf, Lesser
  <2> QED
    BY <1>1, <2>1 DEF TextWell
<1>3. CASE ~(h > 0)
  BY <1>1, <1>3 DEF TextWell
<1> QED
  BY <1>2, <1>3

\* Where back_lines leads, from any place of the text.
LEMMA BackInText ==
    ASSUME ~text.rest, text.full \in Nat \ {0}, NEW q \in 1 .. text.full + 1, NEW e, NEW n \in Nat
    PROVE  /\ BackPlace(q, e, n) \in 1 .. text.full + 1
           /\ BackSteps(q, e, n) > 0 => BackBegin(q, e, n) = (BackPlace(q, e, n) = 1)
           /\ BackSteps(q, e, n) \in {n - 1, n} /\ BackSteps(q, e, n) >= 0
<1>1. BackSteps(q, e, n) \in {n - 1, n} /\ BackSteps(q, e, n) >= 0
  <2>1. CASE TakesBack(q, e, n)
    BY <2>1 DEF BackSteps, TakesBack
  <2>2. CASE ~TakesBack(q, e, n)
    BY <2>2 DEF BackSteps
  <2> QED
    BY <2>1, <2>2
<1> QED
  BY <1>1 DEF BackPlace, BackBegin, Greater

\* How far it goes from page: to the first line shown and n lines further.
LEMMA BackLines ==
    ASSUME TextTypes, ~text.rest, boxh > 0,
           NEW p \in 1 .. text.full + 1, TextAt(p), NEW n \in Nat
    PROVE  /\ BackPlace(page, end_reached, page_length + n) = Greater(1, p - n)
           /\ BackBegin(page, end_reached, page_length + n) = (Greater(1, p - n) = 1)
<1> DEFINE e == text.full + 1
           steps == BackSteps(page, end_reached, page_length + n)
<1>1. EndOf(text) = e /\ End = e /\ e \in Nat /\ e > 1 /\ p \in 1 .. e
  BY DEF EndOf, End, TextTypes
<1>2. page = Lesser(p + boxh, e) /\ page_length = Lesser(boxh, Greater(1, e + 1 - p))
  BY <1>1 DEF TextAt, PlaceAfter, PageLength, TextTypes
<1>3. end_reached <=> p + boxh - 1 >= e
  BY Zenon DEF TextAt
<1>4. boxh \in Nat \ {0}
  BY DEF TextTypes
<1> HIDE DEF e
<1>5. CASE p + boxh - 1 >= e
  <2>1. page = e /\ page_length = e + 1 - p
    BY <1>1, <1>2, <1>4, <1>5 DEF Lesser, Greater
  <2>2. steps = e - p + n
    <3>1. end_reached
      BY <1>3, <1>5, Zenon
    <3>2. page = End /\ page_length + n > 0
      BY <1>1, <2>1
    <3>3. steps = (page_length + n) - 1
      BY <3>1, <3>2, Zenon DEF BackSteps, TakesBack
    <3> QED
      BY <1>1, <2>1, <3>3
  <2> QED
    BY <1>1, <2>1, <2>2 DEF BackPlace, BackBegin, Greater
<1>6. CASE p + boxh - 1 < e
  <2>1. page = p + boxh /\ page_length = boxh
    BY <1>1, <1>2, <1>4, <1>6 DEF Lesser, Greater
  <2>2. steps = boxh + n
    <3>1. ~end_reached
      BY <1>1, <1>3, <1>4, <1>6
    <3> QED
      BY <2>1, <3>1, Zenon DEF BackSteps, TakesBack
  <2> QED
    BY <1>1, <1>4, <2>1, <2>2 DEF BackPlace, BackBegin, Greater
<1> QED
  BY <1>1, <1>4, <1>5, <1>6

LEMMA TextStep ==
    ASSUME TextInv, TextNext
    PROVE  TextInv'
<1> SUFFICES ASSUME InText', ~text'.rest
             PROVE  TextWell'
  BY DEF TextInv
<1>1. CASE OpenText
  <2>1. PICK t \in Texts, h \in TextHeights :
          text' = t /\ boxh' = BoxHeight(t, h) /\ PrintPage(t, 1, FALSE, BoxHeight(t, h))
    BY <1>1 DEF OpenText
  <2>2. t.full \in Nat \ {0} /\ t.height \in Nat /\ BoxHeight(t, h) \in Nat
    BY <2>1, TextsAssumption DEF BoxHeight
  <2>3. begin_reached' = (1 = 1) /\ 1 \in 1 .. t.full + 1
    <3>1. begin_reached' = (1 = 1)
      BY <1>1, Zenon DEF OpenText
    <3> QED
      BY <2>2, <3>1
  <2> QED
    BY <2>1, <2>2, <2>3, PrintedPage
<1>2. CASE OpenTextSmall
  BY <1>2 DEF OpenTextSmall, OpenSmall, InText
<1>3. ASSUME TextKey PROVE TextWell /\ ~text.rest /\ text' = text
  <2>1. InText /\ text' = text
    BY <1>3 DEF TextKey, FirstPage, LastPage, LineUp, PageUp, LineDown, PageDown, ShiftLeft,
         ShiftRight, Shifted, TextExit, TextReturn, TextResize, Keep, Close, CloseSmall, InText
  <2> QED
    BY <2>1 DEF TextInv
<1>4. ASSUME TextKey, NEW q \in 1 .. text.full + 1, NEW e, NEW h \in Nat,
             boxh' = h, PrintPage(text, q, e, h), h > 0 => begin_reached' = (q = 1)
      PROVE  TextWell'
  BY <1>3, <1>4, PrintedPage DEF TextWell, TextTypes
<1>5. ASSUME TextKey, NEW q \in 1 .. text.full + 1, NEW e, NEW n \in Nat, NEW h \in Nat,
             boxh' = h, PrintBack(q, e, n, h),
             h > 0 => BackBegin(q, e, n) = (BackPlace(q, e, n) = 1)
      PROVE  TextWell'
  <2>1. ~text.rest /\ text.full \in Nat \ {0}
    BY <1>3, <1>5 DEF TextWell, TextTypes
  <2>2. BackPlace(q, e, n) \in 1 .. text.full + 1
    BY <1>5, <2>1, BackInText
  <2> QED
    BY <1>4, <1>5, <2>2 DEF PrintBack
<1>6. CASE TextKey
  <2> USE <1>6
  <2>1. /\ TextTypes /\ ~text.rest /\ text' = text
        /\ End = text.full + 1 /\ text.full \in Nat \ {0} /\ text.height \in Nat /\ boxh \in Nat
        /\ page \in 1 .. text.full + 1 /\ page_length \in Nat
    BY <1>3 DEF TextWell, End, EndOf, TextTypes
  <2>2. ASSUME boxh > 0
        PROVE  \E p \in 1 .. text.full + 1 :
                 /\ TextAt(p)
                 /\ begin_reached <=> p = 1
                 /\ ~end_reached => p + boxh - 1 < text.full + 1 /\ page = p + boxh
                 /\ \A n \in Nat :
                      /\ BackPlace(page, end_reached, page_length + n) = Greater(1, p - n)
                      /\ BackBegin(page, end_reached, page_length + n) = (Greater(1, p - n) = 1)
    <3>1. PICK p \in 1 .. text.full + 1 : TextAt(p)
      BY <1>3, <2>2 DEF TextWell
    <3>2. begin_reached <=> p = 1
      BY <3>1, Zenon DEF TextAt
    <3>3. end_reached <=> p + boxh - 1 >= text.full + 1
      BY <3>1, Zenon DEF TextAt
    <3>4. page = Lesser(p + boxh, text.full + 1)
      BY <2>1, <3>1 DEF TextAt, PlaceAfter, EndOf
    <3>5. ~end_reached => p + boxh - 1 < text.full + 1 /\ page = p + boxh
      BY <2>1, <3>3, <3>4 DEF Lesser
    <3> QED
      BY <2>1, <2>2, <3>1, <3>2, <3>5, BackLines
  <2>3. CASE FirstPage
    <3>1. PrintPage(text, 1, end_reached, boxh) /\ boxh' = boxh /\ begin_reached' = (1 = 1)
      BY <2>3, Zenon DEF FirstPage, Keep
    <3> QED
      BY <1>4, <2>1, <3>1
  <2>4. CASE LastPage
    <3>1. PrintBack(End, TRUE, boxh, boxh) /\ boxh' = boxh
      BY <2>4 DEF LastPage, Keep
    <3>3. End \in 1 .. text.full + 1
      BY <2>1
    <3>2. ASSUME boxh > 0
          PROVE  BackBegin(End, TRUE, boxh) = (BackPlace(End, TRUE, boxh) = 1)
      <4>1. BackSteps(End, TRUE, boxh) = boxh - 1
        BY <3>2 DEF BackSteps, TakesBack
      <4>2. /\ BackPlace(End, TRUE, boxh) = Greater(1, End - (boxh - 1))
            /\ BackBegin(End, TRUE, boxh) = (boxh - 1 > 0 /\ End - (boxh - 1) <= 1)
        BY <4>1 DEF BackBegin, BackPlace
      <4>3. (boxh - 1 > 0 /\ End - (boxh - 1) <= 1) <=> Greater(1, End - (boxh - 1)) = 1
        <5>1. End \in Nat /\ End > 1 /\ boxh \in Nat \ {0}
          BY <2>1, <3>2
        <5> QED
          BY <5>1 DEF Greater
      <4> QED
        BY <4>2, <4>3, Zenon
    <3> QED
      BY <1>5, <2>1, <3>1, <3>2, <3>3
  <2>5. CASE PageUp
    <3>1. PrintBack(page, end_reached, page_length + boxh, boxh) /\ boxh' = boxh
      BY <2>5 DEF PageUp, Keep
    <3> QED
      BY <1>5, <2>1, <2>2, <3>1
  <2>6. CASE PageDown
    <3>1. PrintPage(text, page, end_reached, boxh) /\ boxh' = boxh
      BY <2>6 DEF PageDown, Keep
    <3>2. boxh > 0 => begin_reached' = (page = 1)
      <4>1. begin_reached' = FALSE /\ ~end_reached
        BY <2>6 DEF PageDown
      <4>2. boxh > 0 => (page = 1) = FALSE
        BY <2>1, <2>2, <4>1
      <4> QED
        BY <4>1, <4>2
    <3> QED
      BY <1>4, <2>1, <3>1, <3>2
  <2>7. CASE Shifted
    <3>1. PrintBack(page, end_reached, page_length, boxh) /\ boxh' = boxh
      BY <2>7 DEF Shifted, Keep
    <3>2. page_length + 0 = page_length
      BY <2>1
    <3> QED
      BY <1>5, <2>1, <2>2, <3>1, <3>2
  <2>8. CASE TextResize
    <3>1. PICK h \in TextHeights :
            /\ boxh' = BoxHeight(text, h)
            /\ PrintBack(page, end_reached, boxh + 4, BoxHeight(text, h))
      BY <2>8 DEF TextResize, CloseSmall, InText
    <3>2. BoxHeight(text, h) \in Nat /\ boxh + 4 \in Nat
      BY <2>1, TextsAssumption DEF BoxHeight
    <3>3. BackBegin(page, end_reached, boxh + 4) = (BackPlace(page, end_reached, boxh + 4) = 1)
      <4>1. BackSteps(page, end_reached, boxh + 4) \in {boxh + 4 - 1, boxh + 4}
        BY <2>1, <3>2, BackInText
      <4> QED
        BY <2>1, <3>2, <4>1, BackInText
    <3> QED
      BY <1>5, <2>1, <3>1, <3>2, <3>3
  <2>9. CASE LineUp
    <3> DEFINE q == BackPlace(page, end_reached, page_length + 1)
               e == BackEnd(page, end_reached, page_length + 1)
    <3>1. /\ ~begin_reached /\ boxh' = boxh
          /\ ReadPage(text, q, e, boxh)
          /\ begin_reached' = BackBegin(page, end_reached, page_length + 1)
          /\ text_rows' = [r \in 1 .. boxh |-> IF r = 1 THEN q ELSE text_rows[r - 1]]
      BY <2>9 DEF LineUp, Keep
    <3>2. q \in 1 .. text.full + 1
      BY <2>1, BackInText
    <3> HIDE DEF q, e
    <3>3. CASE boxh = 0
      BY <2>1, <3>1, <3>2, <3>3, ReadPlace DEF ReadPage, TextWell, TextTypes
    <3>4. CASE boxh > 0
      <4>1. PICK p \in 1 .. text.full + 1 :
              /\ TextAt(p) /\ p # 1
              /\ q = Greater(1, p - 1)
              /\ begin_reached' = (Greater(1, p - 1) = 1)
        BY <2>2, <3>1, <3>4 DEF q
      <4>2. q = p - 1
        BY <4>1 DEF Greater
      <4>3. text_rows' = LinesFrom(text, q, boxh)
        <5>1. ASSUME NEW r \in 1 .. boxh
              PROVE  (IF r = 1 THEN q ELSE text_rows[r - 1]) = Lesser(q + r - 1, text.full + 1)
          <6>1. CASE r = 1
            BY <2>1, <4>1, <4>2, <6>1 DEF Lesser
          <6>2. CASE r # 1
            <7>1. text_rows[r - 1] = Lesser(p + (r - 1) - 1, text.full + 1)
              BY <2>1, <4>1, <6>2 DEF TextAt, LinesFrom, EndOf
            <7> QED
              BY <2>1, <4>2, <6>2, <7>1 DEF Lesser
          <6> QED
            BY <6>1, <6>2
        <5> QED
          BY <2>1, <3>1, <5>1 DEF LinesFrom, EndOf
      <4>4. PrintPage(text, q, e, boxh)
        BY <3>1, <4>3 DEF PrintPage
      <4> QED
        BY <1>4, <2>1, <3>1, <3>2, <4>1, <4>2, <4>4
    <3> QED
      BY <2>1, <3>3, <3>4
  <2>10. CASE LineDown
    <3>1. /\ ~end_reached /\ boxh' = boxh /\ page_length' = page_length
          /\ begin_reached' = FALSE
          /\ page' = PlaceAfter(text, page, 1) /\ end_reached' = AtEnd(text, page)
          /\ text_rows' = [r \in 1 .. boxh |-> IF r = boxh THEN page ELSE text_rows[r + 1]]
      BY <2>10 DEF LineDown, Keep
    <3>2. TextTypes'
      BY <2>1, <3>1, ReadPlace DEF TextTypes
    <3>3. ASSUME boxh > 0 PROVE \E p \in 1 .. text'.full + 1 : TextAt(p)'
      <4>1. PICK p \in 1 .. text.full + 1 :
              TextAt(p) /\ p + boxh - 1 < text.full + 1 /\ page = p + boxh
        BY <2>2, <3>1, <3>3
      <4>2. text_rows' = LinesFrom(text, p + 1, boxh)
        <5>1. ASSUME NEW r \in 1 .. boxh
              PROVE  (IF r = boxh THEN page ELSE text_rows[r + 1])
                       = Lesser((p + 1) + r - 1, text.full + 1)
          <6>1. CASE r = boxh
            BY <2>1, <4>1, <6>1 DEF Lesser
          <6>2. CASE r # boxh
            <7>1. text_rows[r + 1] = Lesser(p + (r + 1) - 1, text.full + 1)
              BY <2>1, <4>1, <6>2 DEF TextAt, LinesFrom, EndOf
            <7> QED
              BY <2>1, <6>2, <7>1 DEF Lesser
          <6> QED
            BY <6>1, <6>2
        <5> QED
          BY <2>1, <3>1, <5>1 DEF LinesFrom, EndOf
      <4>3. page' = PlaceAfter(text, p + 1, boxh) /\ page_length' = PageLength(text, p + 1, boxh)
        <5>1. page' = Lesser(page + 1, text.full + 1) /\ page_length' = PageLength(text, p, boxh)
          BY <2>1, <3>1, <4>1 DEF TextAt, PlaceAfter, EndOf
        <5>2. PageLength(text, p, boxh) = boxh /\ PageLength(text, p + 1, boxh) = boxh
          BY <2>1, <3>3, <4>1 DEF PageLength, Lesser, Greater
        <5> QED
          BY <2>1, <4>1, <5>1, <5>2 DEF PlaceAfter, EndOf
      <4>4. begin_reached' = (p + 1 = 1) /\ end_reached' = (p + 1 + boxh - 1 >= text.full + 1)
        <5>1. begin_reached' = FALSE /\ (p + 1 = 1) = FALSE
          BY <3>1
        <5>2. end_reached' = (page >= text.full + 1)
          BY <3>1, Zenon DEF AtEnd
        <5>3. page = p + 1 + boxh - 1
          BY <2>1, <4>1
        <5> QED
          BY <5>1, <5>2, <5>3, Zenon
      <4>5. TextAt(p + 1)'
        BY <2>1, <3>1, <4>2, <4>3, <4>4 DEF TextAt
      <4> QED
        BY <2>1, <3>3, <4>1, <4>5
    <3> QED
      BY <3>1, <3>2, <3>3 DEF TextWell
  <2>11. CASE TextExit \/ TextReturn
    BY <2>11 DEF TextExit, TextReturn, Close, InText
  <2> QED
    BY <2>3, <2>4, <2>5, <2>6, <2>7, <2>8, <2>9, <2>10, <2>11 DEF TextKey, ShiftLeft, ShiftRight
<1> QED
  BY <1>1, <1>2, <1>6 DEF TextNext

LEMMA TextInvRight == TextInv => TextRight
<1> SUFFICES ASSUME TextInv, InText, ~text.rest, boxh > 0 PROVE TextShows /\ EdgesKnown
  BY DEF TextRight, TextShows, EdgesKnown
<1>1. PICK p \in 1 .. text.full + 1 : TextAt(p)
  BY DEF TextInv, TextWell
<1>2. text.full \in Nat \ {0} /\ boxh \in Nat \ {0} /\ End = text.full + 1
  BY DEF TextInv, TextWell, TextTypes, End, EndOf
<1>3. /\ text_rows[1] = p
      /\ text_rows[boxh] = Lesser(p + boxh - 1, text.full + 1)
  BY <1>1, <1>2 DEF TextAt, LinesFrom, EndOf, Lesser
<1>4. TextShows
  BY <1>1, <1>3 DEF TextShows, TextAt
<1>5. EdgesKnown
  BY <1>1, <1>2, <1>3 DEF EdgesKnown, TextAt, Lesser
<1> QED
  BY <1>4, <1>5

-----------------------------------------------------------------------------
(* The input box *)

\* b is a string of n characters, with anything behind its end.
Ends(b, n) ==
    /\ n \in 0 .. MAX_LEN /\ b[n] = Nul
    /\ \A i \in 0 .. n - 1 : b[i] # Nul

\* Until the terminal is resized: a scrolled field that is not full has lost its last
\* characters one by one, so that nothing is left of them in the buffer.
FieldAt(n) ==
    /\ input_x >= 0 /\ Place = n
    /\ field = Shown(instr, input_scroll, 0 .. input_x - 1)
    /\ input_scroll > 0 => \A i \in Place .. input_scroll + BoxWidth - 1 : instr[i] = Nul

\* The string never goes further than the place of the next character, not even when a
\* resize has parted the two.
InputAt(n) ==
    /\ input_x \in Int /\ input_x < BoxWidth
    /\ input_scroll \in 0 .. MAX_LEN - BoxWidth + 1
    /\ n <= Greater(0, Place)
    /\ resizes = 0 => FieldAt(n)

InputInv ==
    /\ DOMAIN instr = 0 .. MAX_LEN
    /\ \E n \in 0 .. MAX_LEN : Ends(instr, n) /\ (InInput => InputAt(n))

LEMMA Length ==
    ASSUME NEW b, NEW n, Ends(b, n)
    PROVE  strlen(b) = n
<1>1. MAX_LEN \in Nat
  BY InputAssumption
<1>2. ASSUME NEW m \in 0 .. MAX_LEN, b[m] = Nul, \A i \in 0 .. m - 1 : b[i] # Nul
      PROVE  m = n
  <2>1. ~(m < n)
    BY <1>1, <1>2 DEF Ends
  <2>2. ~(n < m)
    BY <1>1, <1>2 DEF Ends
  <2> QED
    BY <1>1, <1>2, <2>1, <2>2 DEF Ends
<1> QED
  BY <1>2 DEF strlen, Ends

\* Where the end of the string is after Nul was written at p.
LEMMA ErasedEnd ==
    ASSUME NEW b, DOMAIN b = 0 .. MAX_LEN, NEW n, Ends(b, n), NEW p \in Int
    PROVE  /\ n <= p \/ p < 0 => Ends(Written(b, p, Nul), n)
           /\ p >= 0 /\ n > p => Ends(Written(b, p, Nul), p)
<1>1. MAX_LEN \in Nat /\ n \in 0 .. MAX_LEN
  BY InputAssumption DEF Ends
<1>2. \A i \in 0 .. MAX_LEN : Written(b, p, Nul)[i] = IF i = p THEN Nul ELSE b[i]
  BY DEF Written
<1>3. n <= p \/ p < 0 => Ends(Written(b, p, Nul), n)
  BY <1>1, <1>2 DEF Ends
<1>4. p >= 0 /\ n > p => Ends(Written(b, p, Nul), p)
  BY <1>1, <1>2 DEF Ends
<1> QED
  BY <1>3, <1>4

LEMMA PutEnd ==
    ASSUME NEW b, DOMAIN b = 0 .. MAX_LEN, NEW n, Ends(b, n),
           NEW p \in Nat, n <= p, p < MAX_LEN, NEW c \in Chars
    PROVE  LET w == Written(Written(b, p, c), p + 1, Nul)
           IN  /\ DOMAIN w = 0 .. MAX_LEN
               /\ \A i \in 0 .. MAX_LEN : w[i] = IF i = p THEN c ELSE IF i = p + 1 THEN Nul ELSE b[i]
               /\ Ends(w, IF n = p THEN p + 1 ELSE n)
<1> DEFINE w == Written(Written(b, p, c), p + 1, Nul)
<1>1. MAX_LEN \in Nat /\ n \in 0 .. MAX_LEN /\ c # Nul
  BY InputAssumption DEF Ends
<1>2. DOMAIN w = 0 .. MAX_LEN
  BY DEF Written
<1>3. \A i \in 0 .. MAX_LEN : w[i] = IF i = p THEN c ELSE IF i = p + 1 THEN Nul ELSE b[i]
  BY <1>1 DEF Written
<1> HIDE DEF w
<1>4. Ends(w, IF n = p THEN p + 1 ELSE n)
  BY <1>1, <1>3 DEF Ends
<1> QED
  BY <1>2, <1>3, <1>4 DEF w

\* The box that is drawn, for the first time or after a resize, where the place was not
\* before the end of the string.
LEMMA DrawnInput ==
    ASSUME NEW b, NEW n, Ends(b, n), NEW s \in 0 .. MAX_LEN - BoxWidth + 1,
           DrawInput(b, s), instr' = b, s = 0 \/ resizes' # 0
    PROVE  InputAt(n)'
<1>1. strlen(b) = n /\ n \in 0 .. MAX_LEN /\ b[n] = Nul
  BY Length DEF Ends
<1>2. BoxWidth \in Nat /\ MAX_LEN \in Nat /\ BoxWidth > 1
  BY InputAssumption
<1>3. CASE n >= BoxWidth
  <2>1. /\ input_scroll' = n - BoxWidth + 1 /\ input_x' = BoxWidth - 1
        /\ field' = Shown(b, input_scroll', 0 .. BoxWidth - 2)
    BY <1>1, <1>3 DEF DrawInput
  <2>2. Place' = n /\ input_scroll' + BoxWidth - 1 = n
    BY <1>1, <1>2, <2>1 DEF Place
  <2>3. input_x' - 1 = BoxWidth - 2
    BY <1>2, <2>1
  <2>4. FieldAt(n)'
    BY <1>1, <1>2, <2>1, <2>2, <2>3 DEF FieldAt
  <2> QED
    BY <1>1, <1>2, <1>3, <2>1, <2>2, <2>4 DEF InputAt, Greater
<1>4. CASE n < BoxWidth
  <2>1. input_scroll' = s /\ input_x' = n /\ field' = Shown(b, 0, 0 .. n - 1)
    BY <1>1, <1>2, <1>4 DEF DrawInput
  <2>2. Place' = s + n
    BY <2>1 DEF Place
  <2>3. resizes' = 0 => FieldAt(n)'
    BY <1>1, <2>1, <2>2 DEF FieldAt
  <2> QED
    BY <1>1, <1>2, <1>4, <2>1, <2>2, <2>3 DEF InputAt, Greater
<1> QED
  BY <1>1, <1>2, <1>3, <1>4

LEMMA TypedChar ==
    ASSUME InputInv, TypeChar
    PROVE  InputInv'
<1>1. PICK n \in 0 .. MAX_LEN : Ends(instr, n) /\ InputAt(n)
  BY DEF InputInv, TypeChar, InField, InInput
<1>2. PICK c \in Chars :
        /\ instr' = Put(c)
        /\ IF input_x = BoxWidth - 1
           THEN /\ input_scroll' = input_scroll + 1 /\ UNCHANGED input_x
                /\ field' = [k \in Cells |-> IF k < BoxWidth - 1 THEN instr'[input_scroll' + k]
                                             ELSE field[k]]
           ELSE /\ input_x' = input_x + 1 /\ field' = Written(field, input_x, c)
                /\ UNCHANGED input_scroll
  BY DEF TypeChar
<1>3. /\ BoxWidth \in Nat /\ MAX_LEN \in Nat /\ BoxWidth > 1
      /\ input_x \in Int /\ input_x < BoxWidth /\ input_scroll \in 0 .. MAX_LEN - BoxWidth + 1
      /\ Place = input_scroll + input_x /\ Place \in Nat /\ Place < MAX_LEN /\ n <= Place
  BY <1>1, InputAssumption DEF InputAt, Place, TypeChar, InField, RoomLeft, Greater
<1>4. resizes' = resizes
  BY DEF TypeChar, Stay, dialogVars
<1>5. /\ DOMAIN instr' = 0 .. MAX_LEN /\ Ends(instr', IF n = Place THEN Place + 1 ELSE n)
      /\ \A i \in 0 .. MAX_LEN :
           instr'[i] = IF i = Place THEN c ELSE IF i = Place + 1 THEN Nul ELSE instr[i]
  <2>1. instr' = Written(Written(instr, Place, c), Place + 1, Nul)
    BY <1>2 DEF Put
  <2>2. DOMAIN instr = 0 .. MAX_LEN /\ Ends(instr, n)
    BY <1>1 DEF InputInv
  <2> QED
    BY <1>3, <2>1, <2>2, PutEnd
<1>6. PICK m \in 0 .. MAX_LEN :
        /\ Ends(instr', m)
        /\ m <= Place + 1
        /\ n = Place => m = Place + 1
  BY <1>3, <1>5
<1>7. Place' = Place + 1 /\ input_x' \in Int /\ input_x' < BoxWidth
  BY <1>2, <1>3 DEF Place
<1>8. input_scroll' \in 0 .. MAX_LEN - BoxWidth + 1
  BY <1>2, <1>3
<1>9. ASSUME resizes = 0
      PROVE  FieldAt(m)'
  <2>1. /\ input_x >= 0 /\ Place = n /\ m = Place + 1
        /\ field = Shown(instr, input_scroll, 0 .. input_x - 1)
        /\ input_scroll > 0 => \A i \in Place .. input_scroll + BoxWidth - 1 : instr[i] = Nul
    BY <1>1, <1>6, <1>9 DEF InputAt, FieldAt
  <2>2. CASE input_x = BoxWidth - 1
    <3>1. /\ input_scroll' = input_scroll + 1 /\ input_x' = BoxWidth - 1
          /\ Place + 1 = input_scroll' + BoxWidth - 1
      BY <1>2, <1>3, <2>2
    <3>2. ASSUME NEW k \in Cells
          PROVE  field'[k] = IF k \in 0 .. BoxWidth - 2 THEN instr'[input_scroll' + k] ELSE Blank
      <4>1. k < BoxWidth - 1 => field'[k] = instr'[input_scroll' + k]
        BY <1>2, <2>2
      <4>2. field[BoxWidth - 1] = Blank
        BY <1>3, <2>1, <2>2 DEF Shown, Cells
      <4> QED
        BY <1>2, <1>3, <2>2, <3>2, <4>1, <4>2 DEF Cells
    <3>3. field' = Shown(instr', input_scroll', 0 .. input_x' - 1)
      <4>1. input_x' - 1 = BoxWidth - 2
        BY <1>3, <3>1
      <4>2. field' = [k \in Cells |-> field'[k]]
        BY <1>2, <2>2
      <4> QED
        BY <3>2, <4>1, <4>2 DEF Shown
    <3>4. ASSUME NEW i \in Place + 1 .. input_scroll' + BoxWidth - 1
          PROVE  instr'[i] = Nul
      <4>1. i = Place + 1
        BY <1>3, <3>1, <3>4
      <4> QED
        BY <1>3, <1>5, <4>1
    <3>5. input_x' >= 0 /\ Place' = m
      BY <1>3, <1>7, <2>1, <3>1
    <3> QED
      BY <1>7, <3>3, <3>4, <3>5 DEF FieldAt
  <2>3. CASE input_x # BoxWidth - 1
    <3>1. /\ input_scroll' = input_scroll /\ input_x' = input_x + 1
          /\ field' = Written(field, input_x, c)
      BY <1>2, <2>3
    <3>2. ASSUME NEW k \in Cells
          PROVE  field'[k] = IF k \in 0 .. input_x THEN instr'[input_scroll + k] ELSE Blank
      <4>1. field'[k] = IF k = input_x THEN c ELSE IF k \in 0 .. input_x - 1
                                                   THEN instr[input_scroll + k] ELSE Blank
        BY <2>1, <3>1, <3>2 DEF Written, Shown
      <4>2. k \in 0 .. input_x - 1 => instr'[input_scroll + k] = instr[input_scroll + k]
        BY <1>3, <1>5, <3>2 DEF Cells
      <4>3. k = input_x => instr'[input_scroll + k] = c
        BY <1>3, <1>5
      <4> QED
        BY <1>3, <2>1, <3>2, <4>1, <4>2, <4>3 DEF Cells
    <3>3. field' = Shown(instr', input_scroll', 0 .. input_x' - 1)
      <4>1. input_x' - 1 = input_x
        BY <1>3, <3>1
      <4>2. field' = [k \in Cells |-> field'[k]]
        BY <2>1, <3>1 DEF Written, Shown
      <4> QED
        BY <3>1, <3>2, <4>1, <4>2 DEF Shown
    <3>4. ASSUME input_scroll > 0, NEW i \in Place + 1 .. input_scroll + BoxWidth - 1
          PROVE  instr'[i] = Nul
      BY <1>3, <1>5, <2>1, <3>4
    <3>5. input_x' >= 0 /\ Place' = m
      BY <1>3, <1>7, <2>1, <3>1
    <3> QED
      BY <1>7, <3>1, <3>3, <3>4, <3>5 DEF FieldAt
  <2> QED
    BY <2>2, <2>3
<1>10. InputAt(m)'
  BY <1>3, <1>4, <1>6, <1>7, <1>8, <1>9 DEF InputAt, Greater
<1> QED
  BY <1>5, <1>6, <1>10 DEF InputInv

LEMMA Erased ==
    ASSUME InputInv, Backspace
    PROVE  InputInv'
<1>1. PICK n \in 0 .. MAX_LEN : Ends(instr, n) /\ InputAt(n)
  BY DEF InputInv, Backspace, InField, InInput
<1>2. /\ BoxWidth \in Nat /\ MAX_LEN \in Nat /\ BoxWidth > 1 /\ BoxWidth <= MAX_LEN
      /\ input_x \in Int /\ input_x < BoxWidth /\ input_scroll \in 0 .. MAX_LEN - BoxWidth + 1
      /\ Place = input_scroll + input_x /\ Place \in 0 .. MAX_LEN /\ n <= Place
  BY <1>1, InputAssumption DEF InputAt, Place, Backspace, InField, Greater
<1>3. resizes' = resizes /\ DOMAIN instr = 0 .. MAX_LEN
  BY DEF Backspace, Stay, dialogVars, InputInv
<1>4. CASE input_x # 0 /\ Erase(input_x - 1, input_scroll, field)
  <2>1. /\ input_x' = input_x - 1 /\ input_scroll' = input_scroll
        /\ instr' = Written(instr, Place - 1, Nul)
        /\ field' = Written(field, input_x - 1, Blank)
    <3>1. input_scroll + (input_x - 1) = Place - 1
      BY <1>2
    <3> QED
      BY <1>4, <3>1 DEF Erase
  <2>2. Place' = Place - 1
    BY <1>2, <2>1 DEF Place
  <2>3. PICK m \in 0 .. MAX_LEN :
          Ends(instr', m) /\ m <= Greater(0, Place - 1) /\ (n = Place /\ Place > 0 => m = Place - 1)
    <3>1. Place - 1 \in Int /\ n <= (Place - 1) + 1
      BY <1>2
    <3>2. CASE Place > 0
      <4>1. Place - 1 >= 0 /\ Place - 1 \in 0 .. MAX_LEN /\ Greater(0, Place - 1) = Place - 1
        BY <1>2, <3>2, InputAssumption DEF Greater
      <4>2. CASE n <= Place - 1
        <5>1. Ends(instr', n)
          BY <1>1, <1>3, <2>1, <3>1, <4>1, <4>2, ErasedEnd
        <5> QED
          BY <1>1, <1>2, <4>1, <4>2, <5>1
      <4>3. CASE n > Place - 1
        <5>1. Ends(instr', Place - 1)
          BY <1>1, <1>3, <2>1, <3>1, <4>1, <4>3, ErasedEnd
        <5> QED
          BY <1>2, <4>1, <5>1
      <4> QED
        BY <1>1, <1>2, <4>2, <4>3
    <3>3. CASE Place = 0
      BY <1>1, <1>2, <1>3, <2>1, <3>1, <3>3, ErasedEnd DEF Greater
    <3> QED
      BY <1>2, <3>2, <3>3
  <2>4. DOMAIN instr' = 0 .. MAX_LEN
    BY <1>3, <2>1 DEF Written
  <2>5. ASSUME resizes = 0
        PROVE  FieldAt(m)'
    <3>1. /\ input_x > 0 /\ Place = n /\ m = Place - 1
          /\ field = Shown(instr, input_scroll, 0 .. input_x - 1)
          /\ input_scroll > 0 => \A i \in Place .. input_scroll + BoxWidth - 1 : instr[i] = Nul
      BY <1>1, <1>2, <1>4, <2>3, <2>5 DEF InputAt, FieldAt
    <3>2. \A i \in 0 .. MAX_LEN : instr'[i] = IF i = Place - 1 THEN Nul ELSE instr[i]
      BY <1>3, <2>1 DEF Written
    <3>3. ASSUME NEW k \in Cells
          PROVE  field'[k] = IF k \in 0 .. input_x - 2 THEN instr'[input_scroll + k] ELSE Blank
      <4>1. field'[k] = IF k = input_x - 1 THEN Blank ELSE IF k \in 0 .. input_x - 1
                                                   THEN instr[input_scroll + k] ELSE Blank
        BY <2>1, <3>1, <3>3 DEF Written, Shown
      <4>2. k \in 0 .. input_x - 2 => instr'[input_scroll + k] = instr[input_scroll + k]
        BY <1>2, <3>2, <3>3 DEF Cells
      <4> QED
        BY <1>2, <3>3, <4>1, <4>2 DEF Cells
    <3>4. field' = Shown(instr', input_scroll', 0 .. input_x' - 1)
      <4>1. input_x' - 1 = input_x - 2
        BY <1>2, <2>1
      <4>2. field' = [k \in Cells |-> field'[k]]
        BY <2>1, <3>1 DEF Written, Shown
      <4> QED
        BY <2>1, <3>3, <4>1, <4>2 DEF Shown
    <3>5. ASSUME input_scroll > 0, NEW i \in Place - 1 .. input_scroll + BoxWidth - 1
          PROVE  instr'[i] = Nul
      <4>1. i \in 0 .. MAX_LEN
        BY <1>2, <3>1, <3>5
      <4>2. i # Place - 1 => instr[i] = Nul
        BY <1>2, <3>1, <3>5
      <4> QED
        BY <3>2, <4>1, <4>2
    <3> QED
      BY <1>2, <2>1, <2>2, <3>1, <3>4, <3>5 DEF FieldAt
  <2>6. InputAt(m)'
    BY <1>2, <1>3, <2>1, <2>2, <2>3, <2>5 DEF InputAt
  <2> QED
    BY <2>3, <2>4, <2>6 DEF InputInv
<1>5. CASE /\ input_x = 0 /\ input_scroll > 0
           /\ Erase(strlen(instr) - BackScroll, BackScroll,
                    [c \in Cells |-> OrBlank(instr[BackScroll + c])])
  <2> DEFINE s == BackScroll
             x == n - s
  <2>1. /\ s = IF input_scroll < BoxWidth - 1 THEN 0 ELSE input_scroll - (BoxWidth - 1)
        /\ s \in 0 .. MAX_LEN - BoxWidth + 1
    BY <1>2 DEF BackScroll
  <2>2. /\ input_x' = x /\ input_scroll' = s
        /\ instr' = Written(instr, s + x, Nul)
        /\ field' = Written([c \in Cells |-> OrBlank(instr[s + c])], x, Blank)
    <3>1. strlen(instr) = n
      BY <1>1, Length
    <3> QED
      BY <1>5, <3>1 DEF Erase
  <2> HIDE DEF s
  <2>3. s + x = n /\ x \in Int /\ x < BoxWidth
    BY <1>2, <1>5, <2>1
  <2>4. DOMAIN instr' = 0 .. MAX_LEN /\ \A i \in 0 .. MAX_LEN : instr'[i] = instr[i]
    BY <1>1, <1>3, <2>2, <2>3 DEF Written, Ends
  <2>5. Ends(instr', n)
    BY <1>1, <1>2, <2>4 DEF Ends
  <2>6. Place' = n
    BY <2>2, <2>3 DEF Place
  <2>7. ASSUME resizes = 0
        PROVE  FieldAt(n)'
    <3>1. /\ n = input_scroll
          /\ \A i \in n .. input_scroll + BoxWidth - 1 : instr[i] = Nul
      BY <1>1, <1>2, <1>5, <2>7 DEF InputAt, FieldAt
    <3>2. x = (IF n < BoxWidth - 1 THEN n ELSE BoxWidth - 1) /\ x >= 0
      BY <1>2, <2>1, <3>1
    <3>3. ASSUME NEW k \in Cells
          PROVE  field'[k] = IF k \in 0 .. x - 1 THEN instr'[s + k] ELSE Blank
      <4>1. field'[k] = IF k = x THEN Blank ELSE OrBlank(instr[s + k])
        BY <2>2, <3>3 DEF Written
      <4>2. k \in 0 .. BoxWidth - 1 /\ s + k \in 0 .. MAX_LEN
        BY <1>2, <2>1, <3>3 DEF Cells
      <4>3. k < x => instr[s + k] # Nul /\ instr'[s + k] = instr[s + k]
        <5>1. k < x => s + k \in 0 .. n - 1
          BY <1>2, <2>1, <2>3, <4>2
        <5> QED
          BY <1>1, <2>4, <4>2, <5>1 DEF Ends
      <4>4. k > x => instr[s + k] = Nul
        BY <1>2, <2>1, <2>3, <3>1, <3>2, <4>2
      <4> QED
        BY <2>3, <4>1, <4>2, <4>3, <4>4 DEF OrBlank
    <3>4. field' = Shown(instr', input_scroll', 0 .. input_x' - 1)
      <4>1. field' = [k \in Cells |-> field'[k]]
        BY <2>2 DEF Written
      <4> QED
        BY <2>2, <3>3, <4>1 DEF Shown
    <3>5. ASSUME s > 0, NEW i \in n .. s + BoxWidth - 1
          PROVE  instr'[i] = Nul
      <4>1. i = n
        BY <1>2, <2>1, <3>1, <3>5
      <4> QED
        BY <2>5, <4>1 DEF Ends
    <3> QED
      BY <2>2, <2>6, <3>2, <3>4, <3>5 DEF FieldAt
  <2>8. InputAt(n)'
    BY <1>2, <1>3, <2>1, <2>2, <2>3, <2>6, <2>7 DEF InputAt, Greater
  <2> QED
    BY <2>4, <2>5, <2>8 DEF InputInv
<1> QED
  BY <1>4, <1>5 DEF Backspace

\* A line that is copied into the buffer ends where it does.
LEMMA Copied ==
    ASSUME DOMAIN instr = 0 .. MAX_LEN, NEW s \in Inits
    PROVE  /\ Len(s) \in 0 .. MAX_LEN
           /\ DOMAIN strcpy(instr, s) = 0 .. MAX_LEN
           /\ Ends(strcpy(instr, s), Len(s))
<1> DEFINE b == strcpy(instr, s)
<1>1. Len(s) \in 0 .. MAX_LEN /\ (\A i \in 1 .. Len(s) : s[i] # Nul) /\ MAX_LEN \in Nat
  BY InputAssumption
<1>2. DOMAIN b = 0 .. MAX_LEN
  BY DEF strcpy
<1>3. \A i \in 0 .. MAX_LEN : b[i] = IF i < Len(s) THEN s[i + 1]
                                     ELSE IF i = Len(s) THEN Nul ELSE instr[i]
  BY DEF strcpy
<1> HIDE DEF b
<1>4. Ends(b, Len(s))
  BY <1>1, <1>3 DEF Ends
<1> QED
  BY <1>1, <1>2, <1>4 DEF b

LEMMA InputStep ==
    ASSUME InputInv, resizes \in Nat, InputNext
    PROVE  InputInv'
<1>1. CASE OpenInput
  <2>1. PICK s \in Inits : instr' = strcpy(instr, s) /\ DrawInput(strcpy(instr, s), 0)
    BY <1>1 DEF OpenInput
  <2>2. /\ Len(s) \in 0 .. MAX_LEN
        /\ DOMAIN strcpy(instr, s) = 0 .. MAX_LEN
        /\ Ends(strcpy(instr, s), Len(s))
    BY <2>1, Copied DEF InputInv
  <2>3. 0 \in 0 .. MAX_LEN - BoxWidth + 1
    BY InputAssumption
  <2>4. InputAt(Len(s))'
    BY <2>1, <2>2, <2>3, DrawnInput
  <2> QED
    BY <2>1, <2>2, <2>4 DEF InputInv
<1>2. CASE TypeChar
  BY <1>2, TypedChar
<1>3. CASE Backspace
  BY <1>3, Erased
<1>4. CASE InputFocus
  BY <1>4 DEF InputFocus, Stay, dialogVars, InputInv, InInput, InputAt, FieldAt, Place
<1>5. CASE InputReturn \/ InputEscape
  BY <1>5 DEF InputReturn, InputEscape, Close, InputGone, InputInv, InInput
<1>6. CASE InputResize
  <2>1. CASE DrawInput(instr, input_scroll) /\ UNCHANGED instr
    <3>1. PICK n \in 0 .. MAX_LEN : Ends(instr, n) /\ InputAt(n)
      BY <1>6 DEF InputInv, InputResize, InInput
    <3>2. input_scroll \in 0 .. MAX_LEN - BoxWidth + 1
      BY <3>1 DEF InputAt
    <3>3. resizes' # 0
      BY <1>6 DEF InputResize, Resize
    <3>4. instr' = instr /\ DrawInput(instr, input_scroll)
      BY <2>1
    <3>5. InputAt(n)'
      BY <3>1, <3>2, <3>3, <3>4, DrawnInput
    <3> QED
      BY <3>1, <3>4, <3>5 DEF InputInv
  <2>2. CASE CloseSmall /\ InputGone
    BY <2>2 DEF CloseSmall, InputGone, InputInv, InInput
  <2> QED
    BY <1>6, <2>1, <2>2 DEF InputResize
<1>7. CASE OpenInputSmall
  <2>1. PICK s \in Inits : instr' = strcpy(instr, s) /\ open' = open /\ open = "none"
    BY <1>7 DEF OpenInputSmall, OpenSmall
  <2> QED
    BY <2>1, Copied DEF InputInv, InInput
<1> QED
  BY <1>1, <1>2, <1>3, <1>4, <1>5, <1>6, <1>7 DEF InputNext, InputKey

LEMMA InputInvRight == InputInv => FieldRight
<1> SUFFICES ASSUME InputInv, InInput
             PROVE  FieldRight
  BY DEF FieldRight, RoomKept, FieldShownUnresized, FieldShows
<1>1. PICK n \in 0 .. MAX_LEN : Ends(instr, n) /\ InputAt(n)
  BY DEF InputInv
<1>2. RoomKept
  BY <1>1, InputAssumption DEF RoomKept, InputAt, Ends, Place
<1>3. ASSUME resizes = 0
      PROVE  FieldShows
  BY <1>1, <1>3, Length, InputAssumption DEF InputAt, FieldAt, FieldShows, Cells
<1> QED
  BY <1>2, <1>3 DEF FieldRight, FieldShownUnresized

-----------------------------------------------------------------------------
(* All boxes *)

DialogInv == MenuInv /\ ListInv /\ ArrowsTell /\ InputInv /\ TextInv

LEMMA InvStart == Init => DialogInv
<1> SUFFICES ASSUME Init PROVE DialogInv
  OBVIOUS
<1>1. MenuInv /\ ListInv /\ ArrowsTell /\ TextInv
  BY DEF Init, DialogInit, MenuInit, MenuInv, ListInv, ArrowsTell, TextInv, InMenu, InList, InText
<1>2. DOMAIN instr = 0 .. MAX_LEN /\ Ends(instr, 0) /\ ~InInput /\ 0 \in 0 .. MAX_LEN
  BY InputAssumption DEF Init, DialogInit, InputInit, Ends, InInput
<1>3. InputInv
  BY <1>2 DEF InputInv
<1> QED
  BY <1>1, <1>3 DEF DialogInv

LEMMA InvStep == DialogInv /\ [Next]_vars => DialogInv'
<1> SUFFICES ASSUME DialogInv, [Next]_vars
             PROVE  DialogInv'
  OBVIOUS
<1> USE DEF DialogInv
<1>1. CASE MenuNext /\ UNCHANGED <<checklistVars, inputVars, textVars, yes_button>>
  <2>1. MenuInv' /\ open' \in {"menu", "none"}
    BY <1>1, MenuStep, WhichBox
  <2>2. ListInv' /\ ArrowsTell' /\ TextInv'
    BY <2>1 DEF ListInv, ArrowsTell, TextInv, InList, InText
  <2>3. InputInv'
    BY <1>1, <2>1 DEF InputInv, InInput, inputVars
  <2> QED
    BY <2>1, <2>2, <2>3
<1>2. ASSUME OtherBox, CheckNext \/ InputNext \/ TextNext \/ YesNoNext
      PROVE  MenuInv' /\ resizes \in Nat /\ resizes' \in Nat
  <2>1. open' # "menu" /\ (UNCHANGED resizes \/ Resize)
    BY <1>2, WhichBox
  <2>2. menu_height' \in MenuHeights /\ UNCHANGED <<s_scroll, first_item>>
    BY <1>2 DEF OtherBox, menuboxVars, MenuInv
  <2>3. resizes \in Nat /\ resizes' \in Nat
    BY <2>1 DEF Resize, MenuInv
  <2> QED
    BY <2>1, <2>2, <2>3 DEF MenuInv, InMenu
<1>3. CASE CheckNext /\ OtherBox /\ UNCHANGED <<inputVars, textVars, yes_button>>
  <2>1. open' \in {"checklist", "none"}
    BY <1>3, WhichBox
  <2>2. ListInv' /\ ArrowsTell'
    BY <1>2, <1>3, ListStep, ArrowsStep
  <2>3. TextInv' /\ InputInv'
    BY <1>3, <2>1 DEF TextInv, InText, InputInv, InInput, inputVars
  <2> QED
    BY <1>2, <1>3, <2>2, <2>3
<1>4. CASE InputNext /\ OtherBox /\ UNCHANGED <<checklistVars, textVars, yes_button>>
  <2>1. open' \in {"inputbox", "none"}
    BY <1>4, WhichBox
  <2>2. InputInv'
    BY <1>2, <1>4, InputStep
  <2>3. ListInv' /\ ArrowsTell' /\ TextInv'
    BY <2>1 DEF ListInv, ArrowsTell, TextInv, InList, InText
  <2> QED
    BY <1>2, <1>4, <2>2, <2>3
<1>5. CASE TextNext /\ OtherBox /\ UNCHANGED <<checklistVars, inputVars, yes_button>>
  <2>1. open' \in {"textbox", "none"}
    BY <1>5, WhichBox
  <2>2. TextInv'
    BY <1>5, TextStep
  <2>3. ListInv' /\ ArrowsTell' /\ InputInv'
    BY <1>5, <2>1 DEF ListInv, ArrowsTell, InList, InputInv, InInput, inputVars
  <2> QED
    BY <1>2, <1>5, <2>2, <2>3
<1>6. CASE YesNoNext /\ OtherBox /\ UNCHANGED <<checklistVars, inputVars, textVars>>
  <2>1. open' \in {"yesno", "none"}
    BY <1>6, WhichBox
  <2>2. ListInv' /\ ArrowsTell' /\ TextInv' /\ InputInv'
    BY <1>6, <2>1 DEF ListInv, ArrowsTell, InList, TextInv, InText, InputInv, InInput, inputVars
  <2> QED
    BY <1>2, <1>6, <2>2
<1>7. CASE UNCHANGED vars
  <2>1. MenuInv' /\ ListInv' /\ ArrowsTell'
    BY <1>7 DEF vars, dialogVars, menuboxVars, checklistVars, MenuInv, MenuRows, ListInv,
         ArrowsTell, InMenu, InList, Count, max_choice, list_max
  <2>2. InputInv'
    BY <1>7 DEF vars, dialogVars, inputVars, InputInv, InInput, InputAt, FieldAt, Place
  <2>3. TextInv'
    BY <1>7 DEF vars, dialogVars, textVars, TextInv, InText, TextWell, TextTypes, TextAt
  <2> QED
    BY <2>1, <2>2, <2>3
<1> QED
  BY <1>1, <1>3, <1>4, <1>5, <1>6, <1>7 DEF Next

\* The inductive invariant: the window on the list, what is printed and lit, the arrows,
\* the string and its field, and the page of a text.
THEOREM Invariance == Spec => []DialogInv
BY InvStart, InvStep, PTL DEF Spec

\* The menu never asks for an item that is not in its list, and the lit row is in the
\* window: however the list has changed since its scroll was saved, and however the
\* terminal is resized while it or another box is open.  While the terminal keeps its
\* size, each row shows the item that a return there chooses.
THEOREM MenuStaysRight == Spec => []MenuRight
<1>1. MenuInv => MenuInWindow
  BY DEF MenuInv, MenuInWindow
<1>2. MenuInv => MenuShownUnresized
  BY DEF MenuInv, MenuRows, MenuShownUnresized, MenuShows
<1>3. MenuInv => MenuRight
  BY <1>1, <1>2 DEF MenuRight
<1> QED
  BY <1>3, Invariance, PTL DEF DialogInv

\* The checklist, which keeps its height, never leaves its list either; each of its rows
\* shows the value that a return there chooses, one row is lit, and until the terminal is
\* resized the arrows tell whether there are values above and below.
THEOREM ListStaysRight == Spec => []ListRight
<1>1. ListInv => ListInWindow
  BY DEF ListInv, ListInWindow
<1>2. ListInv => ListShows
  BY DEF ListInv, ListShows
<1>3. ListInv /\ ArrowsTell => ListRight
  BY <1>1, <1>2 DEF ListRight
<1> QED
  BY <1>3, Invariance, PTL DEF DialogInv

\* Until the terminal is resized the field shows the end of the string that is edited,
\* with the cursor behind it, whatever an earlier and longer string has left in the buffer;
\* and with any resizes what is typed stays within the buffer and left of its edge.
THEOREM FieldStaysRight == Spec => []FieldRight
BY Invariance, InputInvRight, PTL DEF DialogInv

\* For any text that ends in a newline, sizes of the box and resizes: whatever keys bring
\* the page where it is, its rows show lines that follow each other, and the keys that
\* go up and down are refused exactly at the two ends.
THEOREM TextStaysRight == Spec => []TextRight
BY Invariance, TextInvRight, PTL DEF DialogInv
=============================================================================
