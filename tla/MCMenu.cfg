SPECIFICATION Spec
CONSTANTS
  Key <- Keys
INVARIANTS
  TypeOK
  PauseIsAfterFunction
PROPERTIES
  Implements
