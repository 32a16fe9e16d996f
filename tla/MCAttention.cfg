SPECIFICATION Spec
CONSTANTS
  kTile = 4
  PK_WARP_SIZE = 2
  kKeyTile = 1
  Undef = Undef
  AttentionShapes <- MCShapeTable
  Launch <- MCLaunch
  Exec <- AttentionExec
  Shuffle <- KernelShuffle
  Reg0 <- AttentionReg0
INVARIANT SoftmaxStateAgrees
