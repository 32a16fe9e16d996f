SPECIFICATION Spec
CONSTANTS
    x = x
    y = y
    Colors <- MCColors
    kVcDepth = 2
    TaskSpecs <- MCTaskSpecs
    MaxArrivals = 3
INVARIANTS
    TypeOK
    OperandsPaired
    ConsumedOnce
PROPERTIES
    NoLostWakeup
    DrainReturns
