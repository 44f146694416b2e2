SPECIFICATION RateSpec
CONSTANTS
    c1 = c1
    c2 = c2
    c3 = c3
    s1 = s1
    s2 = s2
    example = example
    None = None
    Callers = {c1, c2, c3}
    Servers = {s1, s2}
    ServerLists <- MCServerLists
    Ids = {1}
    Questions = {example}
    max_concurrent = 2
    max_qps = 2
SYMMETRY Symmetry
INVARIANTS
    RateTypeOK
    PermitsConserved
    GrantBound
    WireBound
    OneList
