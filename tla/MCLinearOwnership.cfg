SPECIFICATION Spec
CONSTANTS
  x = x
  y = y
  w = w
  None = None
  Names <- MCNames
  Affine <- MCAffine
  Callables <- MCCallables
CHECK_DEADLOCK FALSE
INVARIANTS
  NoUseAfterMove
  StateIsPathIndependent
  ScopesAreComplete
