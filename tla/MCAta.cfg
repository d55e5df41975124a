SPECIFICATION FairSpec
CONSTANTS
    Lbas = {l1, l2}
    NumWords = 2
    Words = {w0, w1}
    Zero = w0
    MaxPolls = 2
INVARIANTS
    TypeOK
PROPERTIES
    CallReturns
    ImplementsSectorStore
