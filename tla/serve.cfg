SPECIFICATION Spec
CONSTANTS
    None = None
    Ports <- MCPorts
    Numeric <- MCNumeric
    LabelSets <- MCLabelSets
    MaxContainers = 2
    MaxCrashes = 1
    MaxFaults = 1
INVARIANTS ServeInv ServesLabels OnlyAsked StaysServed
CHECK_DEADLOCK FALSE
