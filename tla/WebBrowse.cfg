SPECIFICATION WebSpec
CONSTANTS
    a = a  b = b  prefix1 = prefix1
    root = root  leaf = leaf  iA = iA  d1 = d1  d2 = d2  m1 = m1  w1 = w1
    Names = {a, b}
    UniqueNames = {}
    Prefixes = {prefix1}
    service_prefixes = {prefix1}
    HasPrefix <- TwoHasPrefix
    Paths = {root, leaf}
    Root = root
    Parent <- TwoParent
    NoPath = NoPath
    Interfaces = {iA}
    Defs = {d1, d2}
    DefOf <- TwoDefOf
    Implements <- TwoImplements
    None = None
    Workers = {w1}
    Methods = {m1}
    Declares <- SameDeclares
    Requests <- BrowseRequests
INVARIANTS
    CheckedLookupsSucceed
    FollowUpsSucceed
    SealedListingExact
CHECK_DEADLOCK FALSE
