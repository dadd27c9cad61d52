SPECIFICATION Spec
CONSTANTS
    None = None
    Procs = {p, q}
    Caps <- MCCaps
    ScanCap = 3
    PlanLines = 2
    Setups <- MCSetups
    Launching = 1
    MaxLaunches = 2
    MaxWrites = 1
    HttpRequests <- MCHttpRequests
    GrpcRequests <- MCGrpcRequests
    StdioMessages <- MCStdioMessages
    Places <- MCPlaces
    DemoSpans <- MCDemoSpans
    DemoScores <- MCDemoScores
PROPERTIES
    FormatRespected OnlyWritersWrite AnswersAgree Drains DoctorAgrees
CHECK_DEADLOCK FALSE
