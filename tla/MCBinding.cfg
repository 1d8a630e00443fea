SPECIFICATION Spec
CONSTANTS
    b1 = b1
    b2 = b2
    c1 = c1
    c2 = c2
    Nil = Nil
    Bindings <- MCBindings
    Channels <- MCChannels
    Messages <- MCMessages
    MaxMsgs = 2
    MaxDepth = 2
    MaxErrors = 2
SYMMETRY Symmetric
INVARIANTS
    TypeOK
    WaitsBelongToRouters
    IdleRouterIsArmed
    EndpointHasOneOwner
    ErrorReportedOncePerBind
    RouterGivesUpOnlyOnError
