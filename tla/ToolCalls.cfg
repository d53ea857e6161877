SPECIFICATION Spec
CONSTANTS
    Calls = {b, i}
    Services = {w}
    Requests = {b}
    Initialize = {i}
    MaxStarts = 1
    MaxKills = 1
INVARIANTS TypeOK SuccessIsEarned PluginOutlivesAgent CrashOnlyAfterRemoval SessionsAccounted CompletedTaskWasAnswered
PROPERTIES EveryCallAnswered EveryAgentEnds
CHECK_DEADLOCK FALSE
