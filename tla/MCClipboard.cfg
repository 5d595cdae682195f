CONSTANTS
    Windows = {w1, w2}
    Dirs = {d1, d2}
    NoEntry = NoEntry
    MaxCalls = 4
SPECIFICATION Spec
SYMMETRY Symmetry
INVARIANT BufferHoldsLast
INVARIANT MovedOnce
INVARIANT PasteStartsOperation
CHECK_DEADLOCK FALSE
