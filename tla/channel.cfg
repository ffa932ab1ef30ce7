\* The private web socket: three channels, two orders, two troubles.
SPECIFICATION FairSpec
CONSTANTS
    Request = {r1, r2}
    spot = spot
    account = account
    swap = swap
    Channel = {spot, account, swap}
    Plan <- Three
    Main = main
    Dispatcher = dispatcher
    Listener = listener
    Nobody = nobody
    Nothing = nothing
    MaxTroubles = 2
INVARIANTS TypeOK SubscribedOrAsked WholeButForListener RefusalsReported
PROPERTIES ImplementsSession ServesOrSticks
CHECK_DEADLOCK FALSE
