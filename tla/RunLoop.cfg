CONSTANTS
    Registries <- MCRegistries
    Tasks <- MCTasks
    Projects <- AllLayouts
    Agents = {1, 3}
    MaxLoopAttempts = 6
SPECIFICATION Spec
INVARIANTS
    TypeOK
    NoModelTwice
    StrongIsLast
    FreeFirst
    BestQualifiedAsked
    NothingAutoApplied
    ExitMatchesEvidence
    ChainExhausted
    ReviewKeepsTheEvidence
PROPERTIES
    FollowsEscalation
