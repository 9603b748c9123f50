SPECIFICATION FairSpec
CONSTANTS
    Approvals = {a1, a2}
    Resolvers = {r1, r2, r3}
    CallOf <- SameCall
    Timeout = 2
    Horizon = 4
INVARIANTS
    TypeOK
    OutcomeIsTold
    SingleWinner
    ApprovedIsEarned
    NoLingeringGrant
PROPERTIES
    ImplementsRecord
    EveryHoldEnds
