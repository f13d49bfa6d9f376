SPECIFICATION HSpec
CONSTANT Vectors <- AllVectors
INVARIANT NoInterruptRightAfterEI
