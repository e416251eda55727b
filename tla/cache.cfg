SPECIFICATION Spec
CONSTANTS
    Handlers = {h1, h2}
    Jobs = {j1}
    Bare = bare
    Variants = {v1}
    Kinds <- SomeKinds
    Shapes <- SomeShapes
    PruneDue = {FALSE, TRUE}
    MaxRevalidations = 1
    MaxVersion = 2
    MaxAsked = 3
    None = None
SYMMETRY Symmetric
INVARIANTS
    FlightHasLeader
    TicketsPaired
    PurgedFromDisk
