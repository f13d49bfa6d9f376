SPECIFICATION HFairSpec
CONSTANT Vectors <- AllVectors
INVARIANTS
  TypeOK
  HaltedCanWake
  GraceOnlyWhileEnabled
  DelayIsParity
  AtMostOneInstructionLate
PROPERTIES
  NoRequestLost
  RequestServed
  WakesFromHalt
