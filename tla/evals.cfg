SPECIFICATION Spec
CONSTANTS
    n1 = n1
    n2 = n2
    n3 = n3
    n4 = n4
    None = None
    MaxIndexedMessages = 4
    Scale = 4
    Numbers <- MCNumbers
    Json <- MCJson
    NanosPerMs = 2
    CritSq = 4
    Runs = {n1, n2, n3, n4}
    ConfigOf <- MCConfigOf
    Replies <- MCReplies
    HashOf <- MCHashOf
    Labels <- MCLabels
    Earlier <- MCEarlier
    MaxFaults = 1
    MaxRuns = 2
INVARIANTS
    NotPaidTwice JudgedByOwnAnswer RunIsWhole ComparisonIsHonest CalibrationIsCurrent
CHECK_DEADLOCK FALSE
