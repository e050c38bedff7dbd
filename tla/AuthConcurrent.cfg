SPECIFICATION MCSpec
CONSTANTS
    u1 = u1
    t1 = t1
    t2 = t2
    t3 = t3
    r1 = r1
    r2 = r2
    Users <- OneUser
    Tokens <- ThreeTokens
    Requests <- TwoSlots
    NoToken = NoToken
    MaxPassword = 2
    MaxCrashes = 1
SYMMETRY SlotSymmetry
INVARIANTS DeadStayDead NoOrphans AloneSessionsEnd
PROPERTY KeepsContract
CHECK_DEADLOCK FALSE
