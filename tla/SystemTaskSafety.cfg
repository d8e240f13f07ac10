SPECIFICATION Spec
CONSTANTS
  a = a
  b = b
  Caller = {a, b}
  Zero = Zero
  Minus1 = Minus1
SYMMETRY Symmetric
INVARIANTS
  TypeOK
  OwnResult
  CommandWithinCall
CHECK_DEADLOCK FALSE
