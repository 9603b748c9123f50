SPECIFICATION FairSpec
CONSTANTS
    Approvals = {c1, c2}
    Tabs = {t1, t2}
    Ids = {i1}
    i1 = i1
    IdOf <- OneId
    None = None
    NotifyMayFail = TRUE
    Timeout = 1
    Horizon = 2
INVARIANTS
    AuthorityNeedsAPerson
    LinkActsOnce
    CancelFindsItsCall
PROPERTIES
    HeldCallIsAnswered
