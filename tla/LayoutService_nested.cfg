SPECIFICATION FairSpec
CONSTANTS
    Layout = {"one", "big"}
    NoLayout = none
    monitors <- MCmonitors
    outputOrder <- MCoutputOrder
    Answers = {"ready"}
    Backends = {"embedded"}
    MaxDepth = 2
PROPERTY Settles
