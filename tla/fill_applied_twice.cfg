\* The listener's report of a fill and the reconciler's replay of it.
SPECIFICATION Spec
CONSTANTS
    o1 = o1
    o2 = o2
    o3 = o3
    Coin = Coin
    Cash = Cash
    Perp = Perp
    Order = {o1}
    Terms <- OneUnit
    Currency = {Coin, Cash}
    Instrument = {Perp}
    Thread = {listener, reconciler}
    Listener = listener
    Reconciler = reconciler
    NoId = noid
    None = none
    Deposit <- Funds
    Deals <- Better
    Carried <- Longs
    SignalCapacity = 1
    MaxDrops = 0
    MaxFailures = 0
    MaxPushes = 0
INVARIANTS AppliedOnce
