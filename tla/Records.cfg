SPECIFICATION Spec
CONSTANTS
    r1 = r1
    r2 = r2
    e1 = e1
    e2 = e2
    i1 = i1
    i2 = i2
    t1 = t1
    t2 = t2
    None = None
    Request = {r1, r2}
    Entity = {e1, e2}
    Item = {i1, i2}
    Text = {t1, t2}
CHECK_DEADLOCK FALSE
SYMMETRY Symmetry
INVARIANTS
    TypeOK
    
    ItemsInOrder
PROPERTIES
    ClosedIsClosed
