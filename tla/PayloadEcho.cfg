\* Every type EchoService has and more, every request worth a try.
SPECIFICATION PayloadSpec
CONSTANTS
    Width <- MCWidth
    MaxFdSize = 1
    Types <- MCTypes
    SigOf <- MCSigOf
    Nesting = 4
    Calls <- MCCalls
    Produces <- MCProduces
INVARIANTS
    MessageTyped
    PiecesComplete
    RoundTrip
    ReplyAsSent
    StringsChecked
    SamplesAccepted
CHECK_DEADLOCK FALSE
