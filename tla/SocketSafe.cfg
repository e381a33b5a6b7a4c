SPECIFICATION Spec
CONSTANTS
    c1 = c1  c2 = c2  sigA = sigA  sigB = sigB  iA = iA  iB = iB
    narrow = narrow  wide = wide
    Conns = {c1, c2}
    Signals = {sigA, sigB}
    Interfaces = {iA, iB}
    InterfaceOf <- TwoInterfaceOf
    Rules = {narrow, wide}
    Matches <- TwoMatches
    Queries = {"match"}
    None = None
    MaxSignals = 2
SYMMETRY Clients
INVARIANTS
    TypeOK
    NoSlotLeaks
    InOrderOnce
    NothingMissed
    OnlyLateSlots
PROPERTY SubscriptionPromise
CHECK_DEADLOCK FALSE
