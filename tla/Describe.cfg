SPECIFICATION DescribeSpec
CONSTANTS
    Streams = {main, sub}
    MaxNested = 3
INVARIANTS
    AnswersSound
PROPERTIES
    DescribeAnswered
    SignalEnds
CHECK_DEADLOCK FALSE
