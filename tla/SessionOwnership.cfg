SPECIFICATION FairSpec
CONSTANTS
    ConnId = {c1, c2}
    NoId = none
    Layout = {wide}
    NoLayout = noLayout
    MaxDepth = 2
    MaxRequests = 2
    MaxStarts = 2
INVARIANTS TypeOK OnlyControllerInjects RegisteredIsTracked
PROPERTIES HandsOver StaleClientsLeave RequestsAreAnswered
