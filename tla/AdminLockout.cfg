SPECIFICATION AdminSpec
CONSTANTS
    Accounts = {a1, a2}
    FirstAdmins = {a1, a2}
    Bootstrap = {}
    AdminOps = {"disable", "enable", "promote", "demote", "delete"}
    AdminRequests = {r1, r2}
    MaxStarts = 2
    MaxAdminCrashes = 0
INVARIANT AlwaysAnAdmin
CHECK_DEADLOCK FALSE
