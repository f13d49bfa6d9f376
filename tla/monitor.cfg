SPECIFICATION Spec
CONSTANTS
  Page = 4
  PCEND = 3
  UserRam = {5, 6, 9, 10}
  ExitPc = 11
INVARIANTS
  ProgramRecoverable
  ResumesWhereStopped
CONSTRAINT FewEvents
