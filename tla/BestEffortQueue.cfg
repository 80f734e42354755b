SPECIFICATION FairSpec
CONSTANTS
    Appenders = {a1, a2}
    Removers = {r1, r2}
    Timed = {r2}
    maxSize = 1
    MaxAppends = 3
    Null = Null
INVARIANTS
    TypeOK
    SizeBound
    NoElementUnattended
    EnoughSignals
    NullIsLast
PROPERTIES
    AppendReturns
    ImplementsChannel
