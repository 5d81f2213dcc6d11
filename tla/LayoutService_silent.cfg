SPECIFICATION Spec
CONSTANTS
    Layout = {"one", "two"}
    NoLayout = none
    monitors <- MCmonitors
    outputOrder <- MCoutputOrder
    Answers = {"ready", "rejected"}
    Backends = {"embedded"}
    MaxDepth = 1
PROPERTY SuccessHasAllStreams
