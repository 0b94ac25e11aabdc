SPECIFICATION Spec
CONSTANT
  Retries = 2
INVARIANTS
  TypeOK
  GivesUpOnlyWhenSpent
PROPERTY
  NeverAsksAgainForNothing
