SPECIFICATION Spec
CONSTANTS
    p1 = p1
    p2 = p2
    cli = cli
    routineCall = routineCall
    sensitiveCall = sensitiveCall
    criticalCall = criticalCall
    durable = durable
    onceCritical = onceCritical
    Proxies = {p1, p2}
    Clis = {cli}
    Requests = {criticalCall}
    Grants = {durable, onceCritical}
    SingleUse = {onceCritical}
    BoundTo <- Bindings
    Cap <- Caps
    Exp <- Expiries
    PolicyOf <- ThreeTools
    Envelope <- OpenEnvelope
    Ttl <- Ttls
    MaxEntries = 1
    Slack = 1
    Horizon = 1
    ExpiryOfDurable = 2
    Seconds = 1
SYMMETRY Symmetry
INVARIANTS
    SingleUseAllowsOnce
    CriticalRevokedByNextDecision
