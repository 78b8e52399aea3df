SPECIFICATION Spec
CONSTANTS
    r1 = r1
    r2 = r2
    h1 = h1
    h2 = h2
    e1 = e1
    None = None
    Request = {r1, r2}
    Thread = {h1, h2}
    Entity = {e1}
    MaxTurn = 4
    StoredTurns = 2
SYMMETRY Symmetry
INVARIANTS
    TypeOK
    ConversationIsKept
    PassesSuffice
    
