------------------------------- MODULE Dialog -------------------------------
(***************************************************************************)
(* What the boxes of kconfig/lxdialog share: which of them waits for a     *)
(* key, and the list of items of util.c, which mconf fills before it opens *)
(* a menu box or a checklist, and where a box marks the item it returns.   *)
(***************************************************************************)
EXTENDS Integers, Sequences, FiniteSets

CONSTANTS Lists,        \* the lists mconf makes: sequences of [data, hot], what an item
                        \* stands for and the key that jumps to it
          None,         \* data of a line that stands for nothing
          Keys,         \* the letters and signs a user types
          MaxResizes    \* bound: how often the terminal changes its size

ASSUME DialogAssumption ==
  MaxResizes \in Nat /\ \A list \in Lists : Len(list) \in Nat \ {0}

Newline == 10
Esc == 27
TooSmall == 0 - 1       \* -ERRDISPLAYTOOSMALL

VARIABLES open,         \* the box that waits for a key, or "none"
          items,
          marked,       \* the items whose selected is set
          result,       \* what the last box has returned
          resizes

dialogVars == <<open, items, marked, result, resizes>>

DialogInit ==
  open = "none" /\ items = << >> /\ marked = {} /\ result = 0 /\ resizes = 0

Count == Len(items)
Item(n) == items[n + 1]         \* item_set(n)
Lesser(a, b) == IF a < b THEN a ELSE b
Greater(a, b) == IF a < b THEN b ELSE a

\* (Wrong variant: what comes in is not printed.)
ScrolledOnly(rows, m, n, new) ==
  [r \in 0 .. m - 1 |-> IF r + n \in 0 .. m - 1 THEN rows[r + n] ELSE rows[r]]
\* How the row r of a list window of m rows looks after it has been scrolled up by n
\* rows: -n rows down if n is negative.  What comes in is printed: item new[r].
Scrolled(rows, m, n, new) ==
  [r \in 0 .. m - 1 |-> IF r + n \in 0 .. m - 1 THEN rows[r + n] ELSE new[r]]
ScrolledLit(lit, m, n) == {r \in 0 .. m - 1 : r + n \in lit}

\* The buttons of a box, with b the last: TAB and the arrows.
NextButton(k, b) == IF k = b THEN 0 ELSE k + 1
PrevButton(k, b) == IF k = 0 THEN b ELSE k - 1

\* item_reset, item_make and item_set_data, and the box that is opened on the list; the
\* caller of a box that has closed reads what is marked, and makes another list.
OpenOn(box, list) ==
  open = "none" /\ open' = box /\ items' = list /\ result' = 0 /\ UNCHANGED resizes
Open(box) == OpenOn(box, << >>) /\ marked' = {}
Close(code) == open' = "none" /\ result' = code /\ items' = << >> /\ UNCHANGED resizes
\* A box that is not opened, for the terminal is too small; it need not have changed for
\* the checklist alone, which wants more than init_dialog.
OpenSmall ==
  open = "none" /\ result' = TooSmall /\ UNCHANGED <<open, items, resizes>>
Resized == resizes > 0
\* One that has become too small.
CloseSmall == open' = "none" /\ result' = TooSmall /\ items' = << >> /\ UNCHANGED marked
Stay == UNCHANGED dialogVars
Resize == resizes < MaxResizes /\ resizes' = resizes + 1
=============================================================================
