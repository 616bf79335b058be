\* Two mutations, two calls at a time, two things that go wrong.
CONSTANTS
    NumMutations = 2
    NumTasks = 2
    NumSlots = 3
    MaxTroubles = 2
SPECIFICATION MCSpec
INVARIANTS AppliedOnce QueueIsFaithful
PROPERTY QueueDrains
