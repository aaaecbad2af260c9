SPECIFICATION Spec
CONSTANTS
    Logs <- ThreeSteps
    Before = {"Dumping", "Companion tools", "Extracting"}
    Tools = {"m4", "libtool"}
INVARIANTS
    Traced
PROPERTIES
    Nested
