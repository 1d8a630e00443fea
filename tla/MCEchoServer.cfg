SPECIFICATION EchoFairSpec
CONSTANTS
    b1 = b1
    b2 = b2
    c1 = c1
    c2 = c2
    Nil = Nil
    Bindings <- MCBindings
    Channels <- MCChannels
    Messages <- MCMessages
    MaxMsgs = 3
    MaxDepth = 1
    MaxErrors = 2
INVARIANTS
    EchoTypeOK
PROPERTIES
    ImplementsEchoService
    ClientsAreServed
CHECK_DEADLOCK FALSE
