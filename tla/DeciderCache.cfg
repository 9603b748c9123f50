SPECIFICATION Spec
CONSTANTS
    p1 = p1
    p2 = p2
    cli = cli
    routineCall = routineCall
    sensitiveCall = sensitiveCall
    criticalCall = criticalCall
    durable = durable
    onceCritical = onceCritical
    Proxies = {p1}
    Clis = {cli}
    Requests = {routineCall, sensitiveCall}
    Grants = {durable}
    SingleUse = {}
    BoundTo <- Bindings
    Cap <- Caps
    Exp <- Expiries
    PolicyOf <- ThreeTools
    Envelope <- OpenEnvelope
    Ttl <- Ttls
    MaxEntries = 1
    Slack = 1
    Horizon = 5
    ExpiryOfDurable = 4
    Seconds = 2
INVARIANTS
    RevokedByNextDecision
    GrantedByNextDecision
    StalenessBounded
