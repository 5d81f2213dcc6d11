SPECIFICATION DashboardFairSpec
CONSTANTS
    none = none
    NoLayout = none
    MaximumMonitors = 2
    MinimumDimension = 200
    MaximumDimension = 8192
    MaximumDesktopDimension = 32766
    IntLimit = 1048576
    Drafts <- MCDrafts
    Nothing = 12
    Layout = {1, 2, 3, 4, 5, 6, 7, 8, 9, 10, 11, 12, 13, 14, 15, 16}
    ValidLayout = {1, 2, 3, 5, 6, 8, 9, 13, 15, 16}
    Normal <- MCNormal
    OtherLayout = {1, 8}
    Position <- MCPosition
    Change <- MCChange
    MaxDepth = 1
    MaxEvents = 4
INVARIANTS ScreenShowsLayout TrialFallsBackToKept DashboardTypeOK DraftIsAccepted
PROPERTIES TrialKeepsItsEnd EditsSurvive EditorCatchesUp
