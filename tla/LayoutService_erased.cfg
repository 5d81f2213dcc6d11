SPECIFICATION Spec
CONSTANTS
    Layout = {"one", "big"}
    NoLayout = none
    monitors <- MCmonitors
    outputOrder <- MCoutputOrder
    Answers = {"ready", "rejected"}
    Backends = {"embedded"}
    MaxDepth = 1
PROPERTY FailureRestoresLayout
