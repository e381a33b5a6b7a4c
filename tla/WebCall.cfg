SPECIFICATION WebFairSpec
CONSTANTS
    a = a  b = b  prefix1 = prefix1
    root = root  leaf = leaf  iA = iA  d1 = d1  d2 = d2  m1 = m1  w1 = w1
    Names = {a, b}
    UniqueNames = {}
    Prefixes = {prefix1}
    service_prefixes = {prefix1}
    HasPrefix <- TwoHasPrefix
    Paths = {root}
    Root = root
    Parent <- TwoParent
    NoPath = NoPath
    Interfaces = {iA}
    Defs = {d1, d2}
    DefOf <- TwoDefOf
    Implements <- TwoImplements
    None = None
    Workers = {w1}
    Methods = {m1}
    Declares <- TwoDeclares
    Requests <- AllRequests
INVARIANTS
    TypeOKWeb
    AnswersTruthful
    SettledCallsExact
PROPERTY EveryRequestAnswered
CHECK_DEADLOCK FALSE
