SPECIFICATION ProcessSpec
CONSTANTS
    w1 = w1
    w2 = w2
    Signals = {"SIGTERM", "uncaughtException"}
    Work = {w1, w2}
    Probes = {"redis", "queues"}
    Failing = {"redis"}
INVARIANT ProcessTypeOK
 
 
INVARIANT BlameIsDeserved
INVARIANT PraiseIsDeserved
 
PROPERTY ExitsInTheEnd
PROPERTY ReadinessIsAnswered
PROPERTY EventsOutlastAnOutage
CHECK_DEADLOCK FALSE
