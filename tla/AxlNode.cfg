SPECIFICATION Spec
CONSTANTS
    Calls = {s1, s2, x1, q1}
    OneWay = {s1, s2}
    ForStream = {q1}
    Oversized = {}
    Pollers = {p1, p2}
    MaxConns = 1
    Capacity = 2
    MaxRestarts = 1
    NoMsg = NoMsg
INVARIANTS TypeOK SlotsExact QueueHoldsLatest ArrivalOrderKept AnsweredByStream
PROPERTIES ChannelSpec SlotsComeBack
CHECK_DEADLOCK FALSE
