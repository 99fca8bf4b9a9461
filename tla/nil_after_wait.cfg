SPECIFICATION Spec
CONSTANTS
    Ids = {1, 2, 3, 4, 5}
    LBs = {"lb1"}
    PortNames = {"http", "web"}
    PortNums = {80, 443, 30080, 30443}
    Addrs = {"v4", "v6"}
    FamilyOf <- Family
    Nodes = {"n1", "n2"}
    None = None
    NoKey = NoKey
    InitialKey <- NoForeignKey
    InitialTag <- NoForeignTag
    RefusesReferenced = TRUE
    Specs <- SpecsOne
    FaultKinds = {"timeout"}
    MaxFaults = 1
    MaxEdits = 0
INVARIANT NilMeansComplete
