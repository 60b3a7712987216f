SPECIFICATION Spec
CONSTANTS
    Id = {i1, i2}
    Org = {o1, o2}
    Admin = {m1, m2}
    NoId = NoId
    NoOrg = NoOrg
    MaxFaults = 1
    MaxOrgs = 3
    MaxCaps = 2
    Listing <- Listings
    i1 = i1
    i2 = i2
    o1 = o1
    o2 = o2
    m1 = m1
    m2 = m2
INVARIANTS
    TypeOK
    
    SubmittedIsPooled
PROPERTIES
    ImplementsAccountLife
SYMMETRY Symmetry
CHECK_DEADLOCK FALSE
