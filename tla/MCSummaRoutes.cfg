SPECIFICATION RoutedSpec
CONSTANTS
    Width = 3
    Height = 3
    Colors = {0, 1}
    AColors = {0}
    BColors = {1}
    kVcDepth = 4
    MaxWavelets = 2
    Injections <- MCInjections
    Routes = {}
    Readers = {}
INVARIANTS TapsOnce
