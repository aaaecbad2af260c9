SPECIFICATION Spec
CONSTANTS
  Lists <- MCLists
  None = 0
  Keys = {"a", "s", "x", "n", "h", " ", "/"}
  MaxResizes = 1
  MenuHeights = {1, 3}
  ListHeight = 3
  Chars = {"c"}
  Nul = Nul
  Blank = Blank
  MAX_LEN = 6
  BoxWidth = 3
  Inits <- MCInits
  Texts <- MCTexts
  TextHeights = {0, 2, 5}
  HSCROLL_MAX = 1
INVARIANTS MenuRight ListRight FieldRight TextRight
