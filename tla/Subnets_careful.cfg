SPECIFICATION Spec
CONSTANTS
    N = 4
    Nets <- MCNets
    NoSubnet = NoSubnet
    Careful = TRUE
    MaxQueue = 5
INVARIANTS
    NoDoubleHandout
    NoFalseExhaustion
