\* One producer, one consumer: the four quotation rings and the signal ring.
SPECIFICATION FairSpec
CONSTANTS
    Producers = {p1}
    Entry = {a, b}
    NoEntry = none
    Capacity = 2
    IndexSpace = 8
    MaxSends = 5
INVARIANTS TypeOK DeliveredInOrder NoDataRace RingInv
PROPERTIES ImplementsFifo AcceptedIsDelivered
