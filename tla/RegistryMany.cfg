SPECIFICATION Spec
CONSTANTS
    prefix1 = prefix1
    Prefixes = {prefix1}
    root = root  leaf = leaf  left = left  right = right  deep = deep
    iA = iA  iB = iB  d1 = d1  d2 = d2  a = a  b = b  bus1 = bus1
    Root = root  NoPath = NoPath  None = None
    Defs = {d1, d2}
    service_prefixes = {prefix1}
    Names <- ManyNames
    UniqueNames = {bus1}
    HasPrefix <- ManyHasPrefix
    Paths = {root, leaf}
    Parent <- ManyParent
    Interfaces = {iA, iB}
    DefOf <- ManyDefOf
    Implements <- ManyImplements
INVARIANTS
    TypeOK
    Described
    CompleteScan
PROPERTY CataloguePromise
\* the program may stop
CHECK_DEADLOCK FALSE
