SPECIFICATION Spec
CONSTANTS
    t1 = t1
    t2 = t2
    Nil = Nil
    Threads <- MCThreads
SYMMETRY Symmetric
INVARIANTS
    TypeOK
    AnswersAsOneTable
