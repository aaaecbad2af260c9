------------------------------ MODULE InputBox ------------------------------
(***************************************************************************)
(* dialog_inputbox (lxdialog/inputbox.c): a line that is edited at its end *)
(* in a field that may be shorter, in a buffer that all input boxes share. *)
(***************************************************************************)
EXTENDS Dialog

CONSTANTS Chars,        \* what can be typed
          Nul, Blank,   \* the end of a string; a cell of the screen with nothing on it
          MAX_LEN,      \* the longest line
          BoxWidth,     \* the cells of the field
          Inits         \* the values a box is opened with: sequences of Chars

ASSUME InputAssumption ==
  /\ BoxWidth \in Nat /\ MAX_LEN \in Nat /\ BoxWidth > 1 /\ BoxWidth <= MAX_LEN
  /\ Nul \notin Chars
  /\ \A s \in Inits : Len(s) \in 0 .. MAX_LEN /\ \A i \in 1 .. Len(s) : s[i] # Nul

VARIABLES instr,        \* dialog_input_result
          input_x, input_scroll, input_button,
          field         \* the cells, as they are on the screen

inputVars == <<instr, input_x, input_scroll, input_button, field>>
Cells == 0 .. BoxWidth - 1
InputInit ==
  /\ instr = [i \in 0 .. MAX_LEN |-> Nul]
  /\ input_x = 0 /\ input_scroll = 0 /\ input_button = 0 - 1
  /\ field = [c \in Cells |-> Blank]
\* Only the buffer is left when the box is closed.
InputGone ==
  /\ input_x' = 0 /\ input_scroll' = 0 /\ input_button' = 0 - 1
  /\ field' = [c \in Cells |-> Blank] /\ UNCHANGED instr

strlen(b) == CHOOSE n \in 0 .. MAX_LEN : b[n] = Nul /\ \A i \in 0 .. n - 1 : b[i] # Nul
strcpy(b, s) == [i \in 0 .. MAX_LEN |-> IF i < Len(s) THEN s[i + 1] ELSE IF i = Len(s) THEN Nul ELSE b[i]]
\* A character put on the screen; Nul is shown as something too.
Shown(b, s, cells) == [c \in Cells |-> IF c \in cells THEN b[s + c] ELSE Blank]

\* From do_resize on: the end of the line is shown; s is what scroll was.
DrawInput(b, s) ==
  LET n == strlen(b)
  IN IF n >= BoxWidth
     THEN /\ input_scroll' = n - BoxWidth + 1 /\ input_x' = BoxWidth - 1
          /\ field' = Shown(b, input_scroll', 0 .. BoxWidth - 2)
     ELSE /\ input_scroll' = s /\ input_x' = n
          /\ field' = Shown(b, 0, 0 .. n - 1)

OpenInput ==
  /\ Open("inputbox")
  /\ \E s \in Inits : instr' = strcpy(instr, s) /\ DrawInput(instr', 0)
  /\ input_button' = 0 - 1

\* The buffer has the string already.
OpenInputSmall ==
  /\ Resized /\ OpenSmall /\ marked' = {}
  /\ \E s \in Inits : instr' = strcpy(instr, s)
  /\ UNCHANGED <<input_x, input_scroll, input_button, field>>

\* The place in the buffer where the next character goes.
Place == input_scroll + input_x
\* Once something has been written before the buffer, what a key does is undefined.
InField == open = "inputbox" /\ input_button = 0 - 1 /\ Place >= 0

\* A cell that is written; a place outside the field or the buffer is not one of its cells.
Written(cells, i, c) == [k \in DOMAIN cells |-> IF k = i THEN c ELSE cells[k]]
\* (Wrong variant: the end of the string is not moved.)
PutOver(c) == Written(instr, Place, c)
Put(c) == Written(Written(instr, Place, c), Place + 1, Nul)
RoomLeft == Place < MAX_LEN
\* A printable character goes to the end; when the field is full it scrolls.
TypeChar ==
  /\ InField /\ RoomLeft
  /\ \E c \in Chars :
       /\ instr' = Put(c)
       /\ IF input_x = BoxWidth - 1
          THEN /\ input_scroll' = input_scroll + 1 /\ UNCHANGED input_x
               /\ field' = [k \in Cells |-> IF k < BoxWidth - 1 THEN instr'[input_scroll' + k]
                                            ELSE field[k]]
          ELSE /\ input_x' = input_x + 1 /\ field' = Written(field, input_x, c)
               /\ UNCHANGED input_scroll
  /\ Stay /\ UNCHANGED input_button

\* Backspace takes the last character shown, or, when none is, scrolls back.  A cursor
\* that is left of the field goes further to the left.
BackScroll == IF input_scroll < BoxWidth - 1 THEN 0 ELSE input_scroll - (BoxWidth - 1)
OrBlank(c) == IF c = Nul THEN Blank ELSE c
Erase(x, s, f) ==
  /\ input_x' = x /\ input_scroll' = s
  /\ instr' = Written(instr, s + x, Nul)
  /\ field' = Written(f, x, Blank)
Backspace ==
  /\ InField
  /\ \/ input_x # 0 /\ Erase(input_x - 1, input_scroll, field)
     \/ /\ input_x = 0 /\ input_scroll > 0
        /\ Erase(strlen(instr) - BackScroll, BackScroll,
                 [c \in Cells |-> OrBlank(instr[BackScroll + c])])
  /\ Stay /\ UNCHANGED input_button

\* TAB and the arrows go from the field to the buttons and around; in the field, left
\* and right are ignored.
InputFocus ==
  /\ open = "inputbox" /\ Stay
  /\ input_button' \in {NextButton(input_button + 1, 2) - 1, PrevButton(input_button + 1, 2) - 1}
  /\ UNCHANGED <<instr, input_x, input_scroll, field>>

\* Return, space, and outside the field o and h.
InputReturn ==
  /\ open = "inputbox"
  /\ \/ Close(IF input_button = 0 - 1 THEN 0 ELSE input_button)
     \/ input_button # 0 - 1 /\ \E code \in {0, 1} : Close(code)
  /\ InputGone /\ UNCHANGED marked
InputEscape == open = "inputbox" /\ Close(Esc) /\ InputGone /\ UNCHANGED marked

InputResize ==
  /\ open = "inputbox" /\ Resize
  /\ \/ /\ DrawInput(instr, input_scroll)
        /\ UNCHANGED <<open, items, marked, result, instr, input_button>>
     \/ CloseSmall /\ InputGone

InputKey ==
  TypeChar \/ Backspace \/ InputFocus \/ InputReturn \/ InputEscape \/ InputResize
InputNext == OpenInput \/ OpenInputSmall \/ InputKey

-----------------------------------------------------------------------------
InInput == open = "inputbox"
\* Whatever is typed and erased and however often the terminal is resized: what is typed
\* stays left of the right edge of the field and within the buffer, which has an end.
RoomKept ==
  InInput => /\ input_x < BoxWidth /\ input_scroll >= 0 /\ Place <= MAX_LEN
             /\ \E n \in 0 .. MAX_LEN : instr[n] = Nul

\* The field shows the line: its end when it does not fit, nothing of an earlier and
\* longer line that is left in the buffer, and the cursor is in the field, at the end of
\* the line.
FieldShows ==
  InInput => /\ input_x \in Cells
             /\ Place = strlen(instr)
             /\ field = Shown(instr, input_scroll, 0 .. input_x - 1)
FieldShownUnresized == resizes = 0 => FieldShows

\* Both, the second until the terminal is resized.
FieldRight == RoomKept /\ FieldShownUnresized
=============================================================================
