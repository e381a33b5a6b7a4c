SPECIFICATION FairSpec
CONSTANTS
    None = None
    Listing <- TwoServices
    Methods <- TwoMethods
    Signals <- TwoSignals
    Awkward <- Descriptors
    Files <- SchemaFiles
    ws_port <- OtherPort
    Typed <- TypedUrls
    Inputs <- FormInputs
    MaxSockets = 2
INVARIANTS
    TypeOK
    CalledAsChosen
    LinksAnswered
    DocumentedAnswers
    RuleArrives
    StreamsAccounted
PROPERTY SchemaShown
CHECK_DEADLOCK FALSE
