\* A position closed while the reconciler has read it and not yet written it.
SPECIFICATION EagerSpec
CONSTANTS
    o1 = o1
    o2 = o2
    o3 = o3
    Coin = Coin
    Cash = Cash
    Perp = Perp
    Order = {o3}
    Terms <- OneClose
    Currency = {Coin, Cash}
    Instrument = {Perp}
    Thread = {listener, reconciler}
    Listener = listener
    Reconciler = reconciler
    NoId = noid
    None = none
    Deposit <- Funds
    Deals <- Better
    Carried <- Longs
    SignalCapacity = 1
    MaxDrops = 0
    MaxFailures = 0
    MaxPushes = 0
PROPERTIES PositionsConverge
