\* Three imports of one catalog by two processes, two versions of its files, batches of two rows.
SPECIFICATION Spec
CONSTANTS
    Processes = {p1, p2}
    Upstreams <- MCUpstreams
    MinRows = 1
    MaxRows = 3
    MinRetained = 60
    BatchSize = 2
    MaxClock = 2
    MaxImports = 3
SYMMETRY Symmetry
INVARIANTS ShownIsOneImport
PROPERTIES NeverOlder
CHECK_DEADLOCK FALSE
