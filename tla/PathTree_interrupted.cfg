SPECIFICATION Spec
CONSTANTS
    a = a
    b = b
    ch = ch
    NoChain = NoChain
    NoExpr = NoExpr
    Exprs = {a, b}
    Chains = {ch}
    Conditions <- MCOneTagged
    Rewritable = {b}
    Interrupts = TRUE
    MaxConstraints = 6
    MaxDepth = 3
INVARIANT TypeOK
INVARIANT TreeShape
INVARIANT SiblingsDistinct
INVARIANT PoolSound
PROPERTY DamageConfined
