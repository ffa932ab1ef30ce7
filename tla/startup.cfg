\* Init on an account with an order of an earlier run, the two threads started in the middle of it.
SPECIFICATION StartSpec
CONSTANTS
    o1 = o1
    o2 = o2
    o3 = o3
    Coin = Coin
    Cash = Cash
    Perp = Perp
    Order = {o2}
    Inherited = {o2}
    Terms <- Left
    Currency = {Coin, Cash}
    Instrument = {Perp}
    Thread = {listener, reconciler}
    Listener = listener
    Reconciler = reconciler
    NoId = noid
    None = none
    Deposit <- Change
    Deals <- Better
    Carried <- Flat
    SignalCapacity = 1
    MaxDrops = 1
    MaxFailures = 1
    MaxPushes = 0
INVARIANTS StartTypeOK InheritedLive
PROPERTIES HandedTold HeldConverge
