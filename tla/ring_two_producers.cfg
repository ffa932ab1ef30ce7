\* The report ring: the private listener and the reconciler both push to it.
SPECIFICATION FairSpec
CONSTANTS
    Producers = {listener, reconciler}
    Entry = {a, b}
    NoEntry = none
    Capacity = 2
    IndexSpace = 8
    MaxSends = 2
PROPERTIES AcceptedIsDelivered
