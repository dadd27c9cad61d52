SPECIFICATION Spec
CONSTANTS
    Readers = {r}
    MaxSegments = 3
    Grace = 1
INVARIANTS
    SqlReadsComplete
