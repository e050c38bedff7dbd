SPECIFICATION MCSpec
CONSTANTS
    u1 = u1
    u2 = u2
    t1 = t1
    t2 = t2
    t3 = t3
    Users <- OneUser
    Tokens <- ThreeTokens
    NoUser = NoUser
    NoToken = NoToken
    MaxKills = 0
    MaxFailures = 0
SYMMETRY TokenSymmetry
PROPERTY RejectedMeansGone
CHECK_DEADLOCK FALSE
