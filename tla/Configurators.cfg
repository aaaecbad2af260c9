\* menuconfig and oldconfig in one directory.
SPECIFICATION Spec
CONSTANTS
  Boolean = {"A", "B", "C", "D", "CH", "MODSYM", "MODULES"}
  Tristate = {"T", "U", "V", "W", "X", "TC"}
  Valued = {"I", "J", "S"}
  ChoiceSyms = {"CH", "TC"}
  Modules = "MODSYM"
  Numbers <- MCNumbers
  SymbolOrder <- MCOrder
  Directories <- MCDirectories
  Names = {config, alternate}
  Config = config
  Writers = {"mconf", "conf"}
  Configs <- AnyConfig
  Absent = Absent
  Typed <- MCTyped
  MaxRuns = 2
  MaxFaults = 1
INVARIANTS StoreInv CacheCoherent ChoiceExclusive SetTakes AskedOnce
PROPERTIES SaveWhole QuietExit AllAnswered OldconfigStops
