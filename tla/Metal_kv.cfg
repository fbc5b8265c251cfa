\* The attention owner alone under policies whose window meets the pages in
\* every way, and under the executor with two kinds of pools, drafts one by
\* one and in a fused block; two kinds of token rows.
SPECIFICATION MetalSpec
CONSTANTS
    Values = {a, b}
    Junk = Junk
    Capacity = 5
    Policies <- MCAllPolicies
    MaximumDrafts = 2
    Context = 9
    ExecutorPolicies <- MCExecutorPolicies
    Prompts <- MCSequences
    Proposals <- MCSequences
SYMMETRY MCSymmetry
INVARIANTS
    SlotsArePartitioned
    OrdinaryAppendAlwaysFits
    MetalOwnersAgree
    TransactionIsAllOrNothing
PROPERTIES
    ImplementsRetention
    ImplementsExecutor
