SPECIFICATION Spec
CONSTANTS
    Conns = {c1, c2}
    Events = {a, b}
    MaxId = 2
    MaxBatch = 2
SYMMETRY Symmetry
INVARIANTS
    AckedIsCommitted
    IdMeansOneEvent
    ReadYourWrites
PROPERTY
    TableOnlyAppends
