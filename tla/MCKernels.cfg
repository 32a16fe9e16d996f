SPECIFICATION FairSpec
CONSTANTS
  kBlock = 2
  kTile = 4
  PK_WARP_SIZE = 4
  kBlockThreads = 8
  kMaxBlocks = 2
  Undef = Undef
  Shapes <- MCShapeTable
  Launch <- MCLaunch
  Exec <- KernelExec
  Shuffle <- KernelShuffle
  Reg0 <- KernelReg0
INVARIANTS TypeOK TextSound NoRace StoredOnce ComputesReference
PROPERTY Finishes
