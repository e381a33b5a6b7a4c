SPECIFICATION Spec
CONSTANTS
    None = None
    Listing <- TwoServices
    Methods <- TwoMethods
    Signals <- TwoSignals
    Awkward <- Descriptors
    Files <- SchemaFiles
    ws_port <- OtherPort
    Typed <- TypedUrls
    Inputs <- FormInputs
    MaxSockets = 1
INVARIANT CalledAsEntered
CHECK_DEADLOCK FALSE
