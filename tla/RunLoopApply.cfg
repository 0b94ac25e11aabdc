CONSTANTS
    Registries <- SmallRegistries
    Tasks <- SmallTasks
    Projects <- NestedLayout
    Agents = {}
    MaxLoopAttempts = 6
SPECIFICATION Spec
INVARIANT AppliedMeansApplied
