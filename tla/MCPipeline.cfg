CONSTANTS
    Configs <- MCConfigs
SPECIFICATION FairSpec
INVARIANTS
    TensorsMatch
    NoEarlyGradSync
PROPERTIES
    EveryRankFinishes
CHECK_DEADLOCK FALSE
