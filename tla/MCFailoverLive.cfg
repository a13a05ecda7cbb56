CONSTANTS
    s1 = s1
    s2 = s2
    s3 = s3
    d1 = d1
    d2 = d2
    None = None
    Server = {s1, s2, s3}
    Deployment = {d1, d2}
    Vm = {d1, d2, v1, v2}
    Place <- TwoPlaces
    Capacity = 4
    MaxFaults <- OneDead
SPECIFICATION FairSpec
INVARIANT
    DeploymentHasVm
PROPERTIES
    FailedOver
    SomeoneLeads
