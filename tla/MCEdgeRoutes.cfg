CONSTANTS
    None = None
    Name = {n1}
    Deployment = {a, b}
    Vm = {v1, v2, v3}
    Goroutine = {g1, g2}
    MaxChanges = 3
    MaxFailures = 1
SPECIFICATION RoutesFairSpec
INVARIANT
    NotificationKept
PROPERTY
    Converges
