SPECIFICATION LiveSpec
CONSTANTS
    a = a
    b = b
    c = c
    d = d
    e = e
    f = f
    t1 = t1
    t2 = t2
    Spans <- MCSpans
    Traces <- MCTraces
    Hours <- MCHours
    HourOf <- MCHourOf
    TraceOf <- MCTraceOf
    Days <- MCDays
    DayOf <- MCDayOf
    Segments <- MCSegments
    HourThreshold = 2
    MaxSpans = 4
    DayMerge = TRUE
    DayQuiet = 1
    Grace = 1
    SlowCommit = FALSE
    MaxMishaps = 1
INVARIANTS
    NothingLost ColdIsSound
PROPERTIES
    NothingComesBack GarbageCollected ClosedDaysCollapse
