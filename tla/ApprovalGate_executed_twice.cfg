SPECIFICATION Spec
CONSTANTS
    i1 = i1
    i2 = i2
    r1 = r1
    r2 = r2
    r3 = r3
    r4 = r4
    None = None
    Recommendations = {r1, r2}
    Incidents = {i1, i2}
    Sessions = {s1, s2}
    IncidentOf <- MCIncidentOf
    ActionOf <- MCActionOf
    TTL = 0
    MaxTime = 1
PROPERTY
    NotExecutedAgain
SYMMETRY Symmetry
CHECK_DEADLOCK FALSE
