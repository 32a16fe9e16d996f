SPECIFICATION FairSpec
CONSTANTS
    Width = 3
    Height = 1
    Colors = {0, 1}
    kVcDepth = 1
    MaxWavelets = 4
    Injections <- MCInjections
    Routes <- MCRoutes
    Readers <- MCReaders
PROPERTIES Delivered
