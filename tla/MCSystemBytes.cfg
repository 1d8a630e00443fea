SPECIFICATION Spec
CONSTANTS
    Nil = Nil
    Used <- ByteMethods
    MaxHandles = 3
    MaxWrappers = 3
    MaxBytes = 2
    MaxQueue = 1
    MaxAttached = 1
PROPERTIES
    WritesReportWhatIsTaken
    ReadsReportWhatTheyConsume
