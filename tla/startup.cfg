SPECIFICATION FairSpec
CONSTANTS
    Clusters = {"ours", "theirs"}
    TagPrefixes = {"anxkube-ccm-lb", "custom"}
    Resources = {"lb1", "lb2", "lb3", "vm"}
    LBs = {"lb1", "lb2", "lb3"}
    Starts <- StartsAll
    Tagged <- TaggedHere
    DefaultTagPrefix = "anxkube-ccm-lb"
    DefaultName = "kubernetes"
    None = None
    FaultKinds = {"start", "client", "list", "retrieve", "get", "prefix", "crash"}
    MaxFaults = 2
CHECK_DEADLOCK FALSE
INVARIANTS TypeOK OnlyOwnLoadBalancers CleanStartIsComplete FeaturesAreOffered VIPIsBeforeBroadcast StartInv
PROPERTY NodesAreManaged
