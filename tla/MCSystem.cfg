SPECIFICATION Spec
CONSTANTS
    Nil = Nil
    Used <- ChannelMethods
    MaxHandles = 3
    MaxWrappers = 3
    MaxBytes = 1
    MaxQueue = 1
    MaxAttached = 1
INVARIANTS
    ExclusiveOwnership
PROPERTIES
    ReadsReportWhatTheyConsume
