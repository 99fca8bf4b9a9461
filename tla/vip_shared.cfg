SPECIFICATION Spec
CONSTANTS
    Services = {"s1", "s2"}
    LBs = {"lb1"}
    Addrs = {"v4vip", "v4calc", "v6vip"}
    Families = {"IPv4", "IPv6"}
    PortNames = {"http", "web"}
    PortNums = {80, 443}
    FamilyOf <- Family
    Wishes <- WishesHostname
    MayAsk <- MayAskHostname
    PrefixLists <- PrefixesFixed
    Workers = 1
    None = None
    FaultKinds = {}
    MaxFaults = 0
    MaxEdits = 0
CHECK_DEADLOCK FALSE
INVARIANT VIPExclusive
