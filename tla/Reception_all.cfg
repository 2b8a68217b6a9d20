SPECIFICATION FairSpec
CONSTANTS
    g1 = g1
    g2 = g2
    g3 = g3
    d1 = d1
    d2 = d2
    Groups = {g1, g2, g3}
    Individual = Individual
    Dpts = {d1, d2}
    Readers = {r1, r2}
    Users = {u1, u2}
    None = None
    MaxSize = 1
    Settings <- MCSettings
INVARIANTS
    Consistent
    RatesBounded
    EveryoneIsCalled
    ReadsSound
    
    PoolSound
PROPERTIES
    ReceptionAdvances
CHECK_DEADLOCK FALSE
