SPECIFICATION FairSpec
CONSTANTS
    r1 = r1
    r2 = r2
    Request <- MCRequest
    MaxSession = 1
    MaxToken = 2
    MaxLink = 2
    None = None
INVARIANTS
    TypeOK
    ResetShutsOut
    LinksWorkOnce
    
    LogoutStands
PROPERTIES
    ImplementsAccess
    RequestsEnd
