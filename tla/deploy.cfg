SPECIFICATION Spec
CONSTANTS
    None = None
    Deployments = {run1, run2}
    ContractCount = 2
    Revisions = {old, new}
    Modes = {"site", "contracts"}
    MaxAtOnce = 1
    MaxFailures = 1
SYMMETRY AnyOrder
INVARIANTS
    CleanDeploymentIsWhole
    CodeIsCurrent
PROPERTIES
    ProxySurvives
