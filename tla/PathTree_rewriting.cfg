SPECIFICATION Spec
CONSTANTS
    a = a
    b = b
    ch = ch
    NoChain = NoChain
    NoExpr = NoExpr
    Exprs = {a, b}
    Chains = {ch}
    Conditions <- MCConditions
    Rewritable = {b}
    Interrupts = FALSE
    MaxConstraints = 7
    MaxDepth = 2
INVARIANT BranchesPaired
INVARIANT TagsAgree
INVARIANT NothingLost
INVARIANT PathMatchesDecisions
PROPERTY ImplementsFrontier
