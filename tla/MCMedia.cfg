SPECIFICATION Spec
SYMMETRY MCSymmetry
CONSTANTS
    ConnId = {c1, c2}
    NoId = none
    Text = {a, b}
    NoText = noText
    FrameBytes = 2
    MaxCopies = 3
    MaxQueue = 1
INVARIANTS TypeOK ClipboardsAgree AudioIsAligned
