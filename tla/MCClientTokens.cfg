CONSTANTS
    a = a
    m1 = m1
    m2 = m2
    f1 = f1
    f2 = f2
    h1 = h1
    s1 = s1
    s2 = s2
    Agent = {a}
    Mcp = {m1, m2}
    Fingerprint = {f1, f2}
    Challenge = {h1}
    Slot = {s1, s2}
    NULL = NULL
    MaxSecret = 2
    MaxEvents = 1
SPECIFICATION Spec
SYMMETRY Symmetry
CHECK_DEADLOCK FALSE
INVARIANTS
    OldSecretsAreOver
    OneTokenPerChallenge
    FingerprintsAreUnique
