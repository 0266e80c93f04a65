\* The monitor, the watcher and the dashboard on one configuration.
CONSTANTS
    Files <- MCFiles
    Ports = {80, 443, 53}
    MaxRules = 2
    RuleMaps <- MCRuleMaps
    Loads = {1, 2}
    DynLimits = {9}
    HasTui = TRUE
    MaxElapsed = 2
SPECIFICATION FairSpec
INVARIANTS TypeOK KernelInSync DynamicLimitEnds NoOrphanLockdown RulesInForce
PROPERTIES CooldownObserved LockdownLifts
