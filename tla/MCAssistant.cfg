SPECIFICATION MCSpec
CONSTANTS
    Prompts = {q1, q2}
    MaxDeltas = 2
    MaxStops = 1
    MaxRestarts = 1
INVARIANT AnswerIsWhole
PROPERTY StopEndsTheAnswer
CHECK_DEADLOCK FALSE
