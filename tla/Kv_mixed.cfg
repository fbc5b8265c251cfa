\* Every policy of at most Capacity tokens. A full cache refuses every append,
\* so the system stops there.
SPECIFICATION Spec
CONSTANTS
    Values = {a, b}
    Capacity = 6
INVARIANT PrecisionIsExact
PROPERTY ImplementsRetention
CHECK_DEADLOCK FALSE
