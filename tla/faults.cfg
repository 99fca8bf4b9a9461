SPECIFICATION Spec
CONSTANTS
    Ids = {1, 2, 3, 4, 5, 6, 7, 8, 9, 10}
    LBs = {"lb1"}
    PortNames = {"http", "web"}
    PortNums = {80, 443, 30080, 30443}
    Addrs = {"v4", "v4b", "v6"}
    FamilyOf <- Family
    Nodes = {"n1", "n2"}
    None = None
    NoKey = NoKey
    InitialKey <- NoForeignKey
    InitialTag <- NoForeignTag
    RefusesReferenced = TRUE
    Specs <- SpecsFaults
    FaultKinds = {"list", "get", "update", "destroy", "destroylost", "ratelimit", "create",
                  "createlost", "tag", "taglost", "timeout", "deploy", "crash"}
    MaxFaults = 2
    MaxEdits = 1
INVARIANTS NoDuplicates NoClash PlansFit
PROPERTIES DestroysOnlyDeployed DestroysOnlyUnused Promise
