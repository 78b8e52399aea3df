SPECIFICATION Spec
CONSTANTS
    t1 = t1
    t2 = t2
    c1 = c1
    c2 = c2
    v1 = v1
    v2 = v2
    None = None
    Turn = {t1, t2}
    Clip = {c1, c2}
    Voice = {v1, v2}
    MaxReacquire = 1
SYMMETRY Symmetry
INVARIANTS
    TypeOK
    OneOpenTurn
    
PROPERTIES
    LateAnswerIgnored
