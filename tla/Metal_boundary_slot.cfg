\* Executor configurations only: is the boundary slot there when a branch
\* begins?
SPECIFICATION Spec
CONSTANTS
    Values = {a}
    Junk = Junk
    Capacity = 20
    Policies <- MCProduction
INVARIANT BoundarySlotIsRetained
