SPECIFICATION Spec
CONSTANTS
    Monitors <- MCMonitors
    Configs <- MCConfigs
INVARIANT CompatibilityMatchIsSafe
CHECK_DEADLOCK FALSE
