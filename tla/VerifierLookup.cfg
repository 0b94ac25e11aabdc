SPECIFICATION Spec
CONSTANTS
  Configs <- MCConfigs
  ExitCodes <- MCExitCodes
INVARIANT
  RealFailureIsNotAnError
