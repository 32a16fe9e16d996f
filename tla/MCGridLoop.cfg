SPECIFICATION LoopSpec
CONSTANTS
    Width = 3
    Height = 2
    Colors = {0}
    kVcDepth = 2
    MaxWavelets = 3
    Injections <- MCInjections
    Routes <- MCRoutes
    Readers = {}
INVARIANTS TypeOK VcBounded NothingVanishes
PROPERTIES StepImplementsCycle StepReturns
