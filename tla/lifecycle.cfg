\* The whole life of the process, two signals at any time.
SPECIFICATION FairSpec
CONSTANTS
    MaxSignals = 2
INVARIANTS TypeOK JoinedUseMapped
PROPERTIES StopsOrSticks
CHECK_DEADLOCK FALSE
