SPECIFICATION Spec
CONSTANTS
    a = a
    b = b
    c = c
    d = d
    e = e
    f = f
    t1 = t1
    t2 = t2
    Spans <- BackfillSpans
    Traces <- MCTraces
    Hours <- BackfillHours
    HourOf <- BackfillHourOf
    TraceOf <- BackfillTraceOf
    Days <- MCDays
    DayOf <- BackfillDayOf
    Segments <- BackfillSegments
    HourThreshold = 2
    MaxSpans = 2
    DayMerge = TRUE
    DayQuiet = 1
    Grace = 1
    SlowCommit = FALSE
    MaxMishaps = 0
INVARIANTS
    NothingLost
