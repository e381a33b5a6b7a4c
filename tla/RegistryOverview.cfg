SPECIFICATION FairSpec
CONSTANTS
    prefix1 = prefix1
    Prefixes = {prefix1}
    root = root  leaf = leaf  left = left  right = right  deep = deep
    iA = iA  iB = iB  d1 = d1  d2 = d2  a = a  b = b  bus1 = bus1
    Root = root  NoPath = NoPath  None = None
    Defs = {d1, d2}
    service_prefixes = {prefix1}
    Names <- WideNames
    UniqueNames = {}
    HasPrefix <- WideHasPrefix
    Paths = {root, left, right, deep}
    Parent <- WideParent
    Interfaces = {iA}
    DefOf <- WideDefOf
    Implements <- WideImplements
PROPERTY LiveOverview
CHECK_DEADLOCK FALSE
