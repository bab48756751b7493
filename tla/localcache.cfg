\* Three keys and two callers, with no limit and with a limit of two keys.
SPECIFICATION Spec
CONSTANTS
    k1 = k1
    k2 = k2
    g1 = g1
    g2 = g2
    k3 = k3
    Nobody = Nobody
    Value = Value
    Keys <- ThreeKeys
    Callers <- TwoCallers
    Limits = {0, 2}
    Delays = {0, 2}
    MaxRuns = 1
SYMMETRY Sym
VIEW View
INVARIANTS TypeOK LruExact ExpiresUnlessRaced
