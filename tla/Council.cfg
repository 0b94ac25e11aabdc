SPECIFICATION Spec
CONSTANTS
  m1 = m1
  m2 = m2
  m3 = m3
  Models <- MCModels
  Rank <- MCRank
  Requests <- MCRequests
  MaxRounds = 2
INVARIANTS
  TypeOK
  ScoreboardTellsOfAPass
  RevisesOnTheRecord
