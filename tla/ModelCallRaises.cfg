SPECIFICATION Spec
CONSTANT
  Retries = 1
INVARIANT
  SafeCallNeverRaises
