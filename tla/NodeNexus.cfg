SPECIFICATION Spec
CONSTANTS
    Requests = {r1}
    MaxSteps = 8
    MaxFailures = 3
    MaxDrifts = 3
INVARIANTS TypeOK ReportIsEarned
PROPERTIES BrowserRunSpec
CHECK_DEADLOCK FALSE
