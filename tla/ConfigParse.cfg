\* All the texts of MCConfigParse.
SPECIFICATION Spec
CONSTANTS
  Files <- MCFiles
  Main = "main.in"
  Texts <- MCTexts
  Words <- MCWords
  Boolean = {"A", "B", "CHOICE", "CHOICE2", "MODSYM", "MODULES"}
  Tristate = {"C"}
  Valued = {}
  ChoiceSyms = {"CHOICE", "CHOICE2"}
  Modules = "MODSYM"
INVARIANTS ScannerAgrees BlocksAgree TreeKept ConditionsKept RecursionFound
