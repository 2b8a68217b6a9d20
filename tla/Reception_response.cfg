SPECIFICATION Spec
CONSTANTS
    g1 = g1
    g2 = g2
    g3 = g3
    d1 = d1
    d2 = d2
    Groups = {g1, g2, g3}
    Individual = Individual
    Dpts = {d1, d2}
    Readers = {r1}
    Users = {u1, u2}
    None = None
    MaxSize = 1
    Settings <- Overhearing
CHECK_DEADLOCK FALSE
INVARIANT
    ReadReturnsResponse
