SPECIFICATION Spec
CONSTANTS
    VMs = {"m1", "m2", "foreign"}
    Nodes = {"n1", "n2"}
    Addrs = {"a1", "a2", "a6", "b1", "f1"}
    VMName <- Names
    NodeName <- NodeNames
    Machine <- Machines
    NodeIPs <- DualIPs
    PresetIDs <- Presets
    Networks <- Nets
    Hardware <- Machinery
    CustomerIDs = {"cust", None}
    None = None
    FaultKinds = {"failed", "unauthorized"}
    MaxFaults = 0
    MaxEvents = 0
CHECK_DEADLOCK FALSE
INVARIANT NotUniqueMeansSeveral
