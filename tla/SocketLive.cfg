SPECIFICATION FairSpec
CONSTANTS
    c1 = c1  c2 = c2  sigA = sigA  sigB = sigB  iA = iA  iB = iB
    narrow = narrow  wide = wide
    Conns = {c1}
    Signals = {sigA, sigB}
    Interfaces = {iA, iB}
    InterfaceOf <- TwoInterfaceOf
    Rules = {narrow, wide}
    Matches <- TwoMatches
    Queries = {"match", "alike", "short", "foreign"}
    None = None
    MaxSignals = 3
PROPERTIES
    StopReturns
    SignalsDispatched
CHECK_DEADLOCK FALSE
