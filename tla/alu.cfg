SPECIFICATION Spec
CONSTANTS
  Operands <- EdgeOperands
  Words <- SomeWords
INVARIANTS
  TypeOK
  SumsExact
  UndoneExactly
  DecimalSum
