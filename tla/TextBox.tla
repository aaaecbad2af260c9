------------------------------ MODULE TextBox ------------------------------
(***************************************************************************)
(* dialog_textbox (lxdialog/textbox.c): a help text that is paged through. *)
(*                                                                         *)
(* A text is [full, rest, height]: it has full lines that end in a newline *)
(* and, if rest, some characters after the last of them.  Places in it are *)
(* the beginnings of its lines, 1 .. , and its end.  height is the one the *)
(* box was asked for, in rows of text, or 0 for that of the terminal.      *)
(***************************************************************************)
EXTENDS Dialog

CONSTANTS Texts,
          TextHeights,  \* the rows of text for the sizes of the terminal
          HSCROLL_MAX   \* how far a text can be scrolled to the right: MAX_LEN

\* print_position divides by the length of the text.
ASSUME TextsAssumption ==
  /\ \A t \in Texts : /\ t.full \in Nat /\ t.rest \in BOOLEAN /\ (t.full > 0 \/ t.rest)
                       /\ t.height \in Nat
  /\ TextHeights \subseteq Nat

VARIABLES text, boxh, page, begin_reached, end_reached, page_length, hscroll,
          text_rows     \* the line each row of the box shows; End is none

textVars == <<text, boxh, page, begin_reached, end_reached, page_length, hscroll, text_rows>>
NoText == [full |-> 1, rest |-> FALSE, height |-> 0]
TextInit ==
  /\ text = NoText /\ boxh = 0 /\ page = 1
  /\ begin_reached = TRUE /\ end_reached = FALSE /\ page_length = 0 /\ hscroll = 0
  /\ text_rows = << >>
TextGone ==
  /\ text' = NoText /\ boxh' = 0 /\ page' = 1
  /\ begin_reached' = TRUE /\ end_reached' = FALSE /\ page_length' = 0 /\ hscroll' = 0
  /\ text_rows' = << >>

EndOf(t) == IF t.rest THEN t.full + 2 ELSE t.full + 1
End == EndOf(text)
\* The places from where get_line comes to the end.
AtEnd(t, p) == p >= t.full + 1

(***************************************************************************)
(* back_lines(n) from place q, when end_reached is e: the step from the    *)
(* end takes back end_reached, if it is set, and nothing else.             *)
(***************************************************************************)
\* (Wrong variant: end_reached counts as no line.)
BackFromEnd(q, e, n) == n
TakesBack(q, e, n) == q = End /\ e /\ n > 0
BackSteps(q, e, n) == IF TakesBack(q, e, n) THEN n - 1 ELSE n
BackPlace(q, e, n) == Greater(1, q - BackSteps(q, e, n))
BackBegin(q, e, n) == BackSteps(q, e, n) > 0 /\ q - BackSteps(q, e, n) <= 1
BackEnd(q, e, n) == e /\ ~TakesBack(q, e, n)

(***************************************************************************)
(* get_line, h times, from place p of text t, when end_reached is e.       *)
(***************************************************************************)
PlaceAfter(t, p, h) == Lesser(p + h, EndOf(t))
LinesFrom(t, p, h) == [r \in 1 .. h |-> Lesser(p + r - 1, EndOf(t))]
PageLength(t, p, h) == Lesser(h, Greater(1, t.full + 2 - p))
ReadPage(t, p, e, h) ==
  /\ page' = PlaceAfter(t, p, h)
  /\ end_reached' = IF h > 0 THEN AtEnd(t, PlaceAfter(t, p, h - 1)) ELSE e
  /\ page_length' = PageLength(t, p, h)
\* refresh_text_box.
PrintPage(t, p, e, h) == ReadPage(t, p, e, h) /\ text_rows' = LinesFrom(t, p, h)
\* From place q, n lines back.
PrintBack(q, e, n, h) ==
  /\ begin_reached' = BackBegin(q, e, n)
  /\ PrintPage(text, BackPlace(q, e, n), BackEnd(q, e, n), h)

\* A terminal of eight rows has none for the text.
BoxHeight(t, h) == IF t.height # 0 THEN t.height ELSE h
OpenText ==
  /\ Open("textbox")
  /\ \E t \in Texts, h \in TextHeights :
       /\ h > 0 \/ Resized
       /\ text' = t /\ boxh' = BoxHeight(t, h) /\ PrintPage(t, 1, FALSE, BoxHeight(t, h))
  /\ begin_reached' = TRUE /\ hscroll' = 0
OpenTextSmall == Resized /\ OpenSmall /\ marked' = {} /\ UNCHANGED textVars

InText == open = "textbox"
Keep == Stay /\ UNCHANGED <<text, boxh>>

FirstPage ==
  /\ InText /\ ~begin_reached
  /\ begin_reached' = TRUE /\ PrintPage(text, 1, end_reached, boxh)
  /\ Keep /\ UNCHANGED hscroll

LastPage ==
  /\ InText /\ PrintBack(End, TRUE, boxh, boxh)
  /\ Keep /\ UNCHANGED hscroll

\* Only the first line is printed; the others are read.
LineUp ==
  /\ InText /\ ~begin_reached
  /\ begin_reached' = BackBegin(page, end_reached, page_length + 1)
  /\ \E p \in {BackPlace(page, end_reached, page_length + 1)} :
       /\ ReadPage(text, p, BackEnd(page, end_reached, page_length + 1), boxh)
       /\ text_rows' = [r \in 1 .. boxh |-> IF r = 1 THEN p ELSE text_rows[r - 1]]
  /\ Keep /\ UNCHANGED hscroll

PageUp ==
  /\ InText /\ ~begin_reached
  /\ PrintBack(page, end_reached, page_length + boxh, boxh)
  /\ Keep /\ UNCHANGED hscroll

\* One line is read, and printed in the last row if there is one.
LineDown ==
  /\ InText /\ ~end_reached
  /\ begin_reached' = FALSE
  /\ page' = PlaceAfter(text, page, 1) /\ end_reached' = AtEnd(text, page)
  /\ text_rows' = [r \in 1 .. boxh |-> IF r = boxh THEN page ELSE text_rows[r + 1]]
  /\ Keep /\ UNCHANGED <<page_length, hscroll>>

PageDown ==
  /\ InText /\ ~end_reached
  /\ begin_reached' = FALSE /\ PrintPage(text, page, end_reached, boxh)
  /\ Keep /\ UNCHANGED hscroll

\* The page that is shown is printed again, shifted.
Shifted == PrintBack(page, end_reached, page_length, boxh) /\ Keep
ShiftLeft == InText /\ hscroll > 0 /\ hscroll' \in {0, hscroll - 1} /\ Shifted
ShiftRight == InText /\ hscroll < HSCROLL_MAX /\ hscroll' = hscroll + 1 /\ Shifted

\* The keys of Exit; and return and escape, which end the loop with their own codes.
TextExit == InText /\ Close(0) /\ TextGone /\ UNCHANGED marked
TextReturn ==
  /\ InText /\ \E code \in {Newline, Esc} : Close(code)
  /\ TextGone /\ UNCHANGED marked

\* It goes back by the height of the box, whose border takes four rows.
TextResize ==
  /\ InText /\ Resize
  /\ \/ \E h \in TextHeights :
          /\ boxh' = BoxHeight(text, h)
          /\ PrintBack(page, end_reached, boxh + 4, BoxHeight(text, h))
          /\ UNCHANGED <<open, items, marked, result, text, hscroll>>
     \/ CloseSmall /\ TextGone

TextKey ==
  \/ FirstPage \/ LastPage \/ LineUp \/ PageUp \/ LineDown \/ PageDown
  \/ ShiftLeft \/ ShiftRight \/ TextExit \/ TextReturn \/ TextResize
TextNext == OpenText \/ OpenTextSmall \/ TextKey
TextSpec == DialogInit /\ TextInit /\ [][TextNext]_<<dialogVars, textVars>>

-----------------------------------------------------------------------------
\* The rows show lines that follow each other, though they were scrolled in one at a
\* time from either side, and page is the place after them.
TextShows ==
  InText /\ ~text.rest /\ boxh > 0 =>
    /\ text_rows = LinesFrom(text, text_rows[1], boxh)
    /\ page = PlaceAfter(text, text_rows[1], boxh)

\* The keys that go up are refused exactly at the first line, and those that go down
\* exactly when the end is shown: every line can be reached from every other.
EdgesKnown ==
  InText /\ ~text.rest /\ boxh > 0 =>
    /\ begin_reached = (text_rows[1] = 1)
    /\ end_reached = (text_rows[boxh] = End)

\* Where the text box is, whatever keys were pressed, while it has a row for the text;
\* and when it gets rows again.
TextRight == TextShows /\ EdgesKnown
=============================================================================
