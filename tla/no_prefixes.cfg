SPECIFICATION Spec
CONSTANTS
    Clusters = {"ours", "theirs"}
    TagPrefixes = {"anxkube-ccm-lb", "custom"}
    Resources = {"lb1", "lb2", "lb3", "vm"}
    LBs = {"lb1", "lb2", "lb3"}
    Starts <- StartsIdentifier
    Tagged <- TaggedHere
    DefaultTagPrefix = "anxkube-ccm-lb"
    DefaultName = "kubernetes"
    None = None
    FaultKinds = {}
    MaxFaults = 0
CHECK_DEADLOCK FALSE
INVARIANT IdentifierSuffices
