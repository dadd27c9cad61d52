SPECIFICATION Spec
CONSTANTS
    r1 = r1
    r2 = r2
    r3 = r3
    None = None
    MaxIndexedMessages = 4
    Requests <- MCRequests
    Items <- MCItems
    Policy = "genai"
    RecallCapacity = 1
    Baseline <- MCBaseline
    Files <- MCFiles
    Pattern <- MCPattern
    Inner <- MCInner
    DigitsOf <- MCDigitsOf
    Redactor <- MCRedactor
    TextKeys <- MCTextKeys
    MaxTries <- MCMaxTries
    MaxRestarts = 1
INVARIANTS
    RequestIsExact FactsAreTheRecords OneCallOneIdentity EachTokenPricedOnce StoredTextIsClean
CHECK_DEADLOCK FALSE
