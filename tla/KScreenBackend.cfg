SPECIFICATION Spec
CONSTANTS
    Monitors <- MCMonitors
    Configs <- MCConfigs
INVARIANTS TypeOK OwnOutputsAreShown OwnOutputsSuffice StockOutputsAreShown FailureChangesNothing
CHECK_DEADLOCK FALSE
