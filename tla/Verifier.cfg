SPECIFICATION Spec
CONSTANTS
  Configs <- MCConfigs
  ExitCodes <- MCExitCodes
INVARIANTS
  TypeOK
  StopsAtFirstRequiredFailure
  PassMeansEveryRequiredStep
  ErrorIsOfTheFailingStep
  NeverChargedUnrun
