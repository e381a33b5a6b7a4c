\* The whole process, with every failure at the start.
SPECIFICATION LifeFairSpec
INVARIANTS
    LifeTypeOK
    NobodyLeftBehind
    NeverHeadless
PROPERTIES
    EndsWhenAsked
CHECK_DEADLOCK FALSE
