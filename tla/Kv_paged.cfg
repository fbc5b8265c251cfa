\* Every retention policy of at most Capacity tokens, at the packed sizes of
\* one 64-value block; two kinds of token rows. The executor's context is five
\* tokens, its blocks hold up to two drafts.
SPECIFICATION CpuSpec
CONSTANTS
    Values = {a, b}
    Capacity = 6
    Q2TokenBytes = 18
    Q4TokenBytes = 34
    Context = 5
    MaximumDrafts = 2
    ExecutorPolicies <- MCExecutorPolicies
    Prompts <- MCPrompts
SYMMETRY MCSymmetry
INVARIANTS
    PagesCoverTheTokens
    CpuOwnersAgree
    BoundsNeverRefuse
PROPERTIES
    PushSettlesTheBudget
    ImplementsRetention
    ImplementsExecutor
