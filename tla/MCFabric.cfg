SPECIFICATION Spec
CONSTANTS
    Width = 3
    Height = 2
    Colors = {0}
    kVcDepth = 2
    MaxWavelets = 4
    Injections <- MCInjections
    Routes <- MCRoutes
    Readers = {}
INVARIANTS Conserved InOrder
