SPECIFICATION AllSpec
CONSTANTS
    Clients = {c1, c2}
    Grants = {g1, g2}
    Scopes <- AllOrOne
    read = read
    write = write
    Tools = {read, write}
    Defs = {d1, d2}
    NoTool = NoTool
    NoBaseline = NoBaseline
    PageOf <- OnTwoPages
    MaxChanges = 2
    MaxListings = 3
    p1 = p1
    p2 = p2
    m1 = m1
    m2 = m2
    m3 = m3
    Minters = {m1, m2, m3}
    ProcessOf <- InProcesses
    Seeds = {s1, s2, s3}
    NoSeed = NoSeed
SYMMETRY Symmetry
INVARIANTS
    AllTypeOK
    RevokeLeavesNothing
    NoSilentDrift
    BaselineIsOneListing
    MintedVerifies
    ExitIsHonest
PROPERTIES
    ImplementsLedger
