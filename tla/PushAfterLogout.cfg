SPECIFICATION PushSpec
CONSTANTS
    Subscribers = {u}
    Tokens = {t}
    Nobody = Nobody
    Sends = {send1}
    BearerLife = 2
    BearerMargin = 1
    MaxChanges = 3
INVARIANT UnregisteredHearsNothing
CHECK_DEADLOCK FALSE
