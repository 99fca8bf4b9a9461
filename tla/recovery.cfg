SPECIFICATION FairSpec
CONSTANTS
    Ids = {1, 2, 3, 4, 5, 6, 7, 8, 9}
    LBs = {"lb1"}
    PortNames = {"http", "web"}
    PortNums = {80, 443, 30080, 30443}
    Addrs = {"v4", "v6"}
    FamilyOf <- Family
    Nodes = {"n1", "n2"}
    None = None
    NoKey = NoKey
    InitialKey <- NoForeignKey
    InitialTag <- NoForeignTag
    RefusesReferenced = TRUE
    Specs <- SpecsOnePort
    FaultKinds = {"deploy", "update", "get", "timeout"}
    MaxFaults = 2
    MaxEdits = 1
PROPERTIES CheckedIsComplete FailedRecover
