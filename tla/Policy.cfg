SPECIFICATION AllSpec
CONSTANTS
    Absent = Absent
    Bad = Bad
    Any = Any
    NoRef = NoRef
    Stripped = Stripped
    Printable <- Shown
    Clock = 5
    AskedPolicies <- SomePolicies
    AskedEnvelopes <- SomeEnvelopes
    AskedListings <- Listings
    Message <- BaseMessage
    Setting <- BaseSetting
    Kid = "k1"
    Papers <- SomePapers
    Presented <- CallsMade
    MintedAt = 5
    SignedBy = "k1"
    Idle = Idle
    Callers = {a, b}
    Inputs <- SomeInputs
    NoInput = NoInput
    Pairs = {a, b, c}
    Window = 2
    Threshold = 3
    MaxTracked = 2
    MaxTime = 3
    github = github
    files = files
    path = path
    Servers = {github, files}
    Mappings = {path}
    NoServer = NoServer
    NoTool = NoTool
    NoMapping = NoMapping
    FileConfigs <- SomeConfigs
    UserEntries <- ByHand
    OfferedPacks <- SomePacks
    FirstHints <- SomeHints
    MaxEdits = 1
INVARIANTS
    AllowIsAuthorised
    OrderIsIrrelevant
    EnvelopeOnlyRestricts
    GrantBearsOnItsCalls
    HitIsThisPolicy
    CountsTruly
    AdvisedCommandHelps
PROPERTY AuthorityStands
