SPECIFICATION Spec
CONSTANTS
    P = 3
    kVcDepth = 4
    Shapes <- MCShapes
    IndexSpan = 65536
INVARIANTS
    BothPanelsThere
    TilesAreProducts
    NoDrops
PROPERTIES
    StepsDoNotOverlap
    Terminates
