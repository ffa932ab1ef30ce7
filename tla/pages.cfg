\* The pending orders, two to a page, while orders are placed and end.
SPECIFICATION FairSpec
CONSTANTS
    Id <- Ids
    Registered <- Known
    PageSize = 2
    Empty = empty
CHECK_DEADLOCK FALSE
INVARIANTS TypeOK NoneMissed NoneTwice
PROPERTIES Ends
