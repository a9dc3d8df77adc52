CONSTANTS
    Capacity = 3
    MaxValue = 3
    RTTs = {0, 1, 2, 9}
    MaxSamples = 5
    MaxLate = 2
SPECIFICATION Spec
INVARIANTS ReservoirHonest PercentilesExact
