SPECIFICATION LiveSpec
CONSTANTS
    r1 = r1
    r2 = r2
    r3 = r3
    a = a
    b = b
    c = c
    Spans <- MCSpans
    Hours <- MCHours
    HourOf <- MCHourOf
    Requests <- MCRequests
    Batch <- MCBatch
    Seal = seal
    ChannelCap = 2
    GroupMax = 1
    SealThreshold = 2
    MaxHot = 2
    MaxSeqno = 6
    MaxCrashes = 0
    MaxFaults = 1
    Faults = {"block", "commit"}
INVARIANTS
    HotBounded
PROPERTIES
    EveryRequestAnswered SealedGroupsDrain SheddingEnds
