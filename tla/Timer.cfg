\* The loop's thread and a second one; a long one-shot event and a short
\* repeated one.
CONSTANTS
    long = long
    short = short
    TimeEvents = {long, short}
    None = None
    Adders = {a1}
    LoopThread = loop
    Interval <- MCInterval
    Repeated = {short}
SPECIFICATION FairSpec
INVARIANTS TypeOK MapInOrder ArmedWhilePending ArmedUnlessOvertaken
PROPERTY EventFires
CHECK_DEADLOCK FALSE
