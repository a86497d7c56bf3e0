SPECIFICATION Spec
CONSTANTS
    None = None
    Deployments = {run1, run2, run3}
    ContractCount = 2
    Revisions = {old, new}
    Modes = {"site"}
    MaxAtOnce = 1
    MaxFailures = 0
SYMMETRY AnyOrder
INVARIANTS
    UpgradeTakesEffect
