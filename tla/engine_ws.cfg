\* The engine between two rounds of the reconciler: two orders, one lost connection, one pushed balance.
SPECIFICATION ChannelSpec
CONSTANTS
    o1 = o1
    o2 = o2
    o3 = o3
    Coin = Coin
    Cash = Cash
    Perp = Perp
    Order = {o1, o2}
    Terms <- Desk
    Currency = {Coin, Cash}
    Instrument = {Perp}
    Thread = {listener, reconciler}
    Listener = listener
    Reconciler = reconciler
    NoId = noid
    None = none
    Deposit <- Stock
    Deals <- Market
    Carried <- Longs
    SignalCapacity = 1
    MaxDrops = 1
    MaxFailures = 0
    MaxPushes = 1
CHECK_DEADLOCK FALSE
INVARIANTS TypeOK SafeToSpend QuietIsExact NeverLost ToldTruth TrackerBehind AppliedOnce TablesAgree BooksAgree
