SPECIFICATION Spec
CONSTANTS
    Nil = Nil
    Used <- VmoWriteMethods
    MaxHandles = 2
    MaxWrappers = 2
    MaxBytes = 2
    MaxQueue = 1
    MaxAttached = 1
INVARIANTS
    ResultBuiltAfterRelease
