SPECIFICATION ProcessSpec
CONSTANTS
    w1 = w1
    Signals = {"SIGTERM"}
    Work = {w1}
    Probes = {"redis", "queues"}
    Failing = {"redis"}
PROPERTY AnswerDoesNotWaitForRedis
CHECK_DEADLOCK FALSE
