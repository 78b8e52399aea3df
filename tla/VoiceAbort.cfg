SPECIFICATION Spec
CONSTANTS
    c1 = c1
    c2 = c2
    c3 = c3
    p1 = p1
    p2 = p2
    p3 = p3
    None = None
    Reaper = Reaper
    Closer = Closer
    Client = {c1, c2}
    Proc = {p1, p2}
CHECK_DEADLOCK FALSE
INVARIANTS
    OnlyAffectedWorkerStopped
