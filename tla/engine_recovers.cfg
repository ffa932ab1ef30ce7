\* Listener and reconciler together, in the long run: what a lost message is made good by.
SPECIFICATION FairSpec
CONSTANTS
    o1 = o1
    o2 = o2
    o3 = o3
    Coin = Coin
    Cash = Cash
    Perp = Perp
    Order = {o1}
    Terms <- OneUnit
    Currency = {Coin, Cash}
    Instrument = {Perp}
    Thread = {listener, reconciler}
    Listener = listener
    Reconciler = reconciler
    NoId = noid
    None = none
    Deposit <- Funds
    Deals <- Better
    Carried <- Longs
    SignalCapacity = 1
    MaxDrops = 1
    MaxFailures = 1
    MaxPushes = 1
INVARIANTS NeverLost EngineInv
PROPERTIES EndForgotten EndTold RestingTracked BooksConverge ImplementsPromise
