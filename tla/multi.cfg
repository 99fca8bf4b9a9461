SPECIFICATION FairSpec
CONSTANTS
    Ids = {1, 2, 3, 4, 5, 6}
    LBs = {"lb1", "lb2"}
    PortNames = {"http", "web"}
    PortNums = {80, 443, 30080, 30443}
    Addrs = {"v4", "v6"}
    FamilyOf <- Family
    Nodes = {"n1", "n2"}
    None = None
    NoKey = NoKey
    InitialKey <- ForeignKey
    InitialTag <- ForeignTag
    RefusesReferenced = TRUE
    Specs <- SpecsBare
    FaultKinds = {}
    MaxFaults = 0
    MaxEdits = 1
INVARIANT Inv
PROPERTIES Converges OnlyOwnTouched
