SPECIFICATION Spec
CONSTANTS
    Layout = {"one", "big", "two"}
    NoLayout = none
    monitors <- MCmonitors
    outputOrder <- MCoutputOrder
    Answers = {"ready", "rejected"}
    Backends = {"embedded", "process"}
    MaxDepth = 1
INVARIANTS TypeOK OneLayoutEverywhere CrashEndsTrial
PROPERTIES RestoreBringsOutputsBack  UsesController
