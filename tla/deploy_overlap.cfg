SPECIFICATION Spec
CONSTANTS
    None = None
    Deployments = {run1, run2, run3}
    ContractCount = 1
    Revisions = {old, new}
    Modes = {"site", "contracts"}
    MaxAtOnce = 2
    MaxFailures = 0
SYMMETRY AnyOrder
PROPERTIES
    UpgradesAreChecked
