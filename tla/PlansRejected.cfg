SPECIFICATION Spec
CONSTANTS
    r1 = r1
    r2 = r2
    r3 = r3
    r4 = r4
    p1 = p1
    p2 = p2
    None = None
    Request = {r1, r2, r3}
    Plan = {p1}
    StepCount = 2
    Lifetime = 1
SYMMETRY Symmetry
INVARIANTS CancelledIsTrue
