SPECIFICATION FairSpec
CONSTANTS
    Services = {"s1", "s2"}
    LBs = {"lb1", "lb2"}
    Addrs = {"v4vip", "v4calc", "v6vip"}
    Families = {"IPv4", "IPv6"}
    PortNames = {"http", "web"}
    PortNums = {80, 443}
    FamilyOf <- Family
    Wishes <- WishesManager
    MayAsk <- MayAskManager
    PrefixLists <- PrefixesChanging
    Workers = 1
    None = None
    FaultKinds = {"list", "prefix", "services", "node", "new", "reconcile", "poll", "tag", "status", "crash"}
    MaxFaults = 1
    MaxEdits = 1
CHECK_DEADLOCK FALSE
INVARIANTS TypeOK StatusExclusive GoneLeavesNothing StatusIsServed ManagerInv ExclusiveInv KeptInv
PROPERTIES AddressesStay EveryServiceSettles
