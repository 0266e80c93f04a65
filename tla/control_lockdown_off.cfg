\* A reload during a flood ends the lockdown, and nothing resumes it.
CONSTANTS
    Files <- MCPlainFiles
    Ports = {80, 443, 53}
    MaxRules = 2
    RuleMaps <- MCRuleMaps
    Loads = {1, 2}
    DynLimits = {9}
    HasTui = FALSE
    MaxElapsed = 2
SPECIFICATION Spec
PROPERTY LockdownOn
