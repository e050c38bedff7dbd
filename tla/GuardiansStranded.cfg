SPECIFICATION LinkSpec
CONSTANTS
    Owners = {owner}
    Invitees = {invitee}
    LinkRequests = {r1, r2}
    MaxRows = 2
    MaxLinkCrashes = 0
INVARIANT InvitesReachAccounts
CHECK_DEADLOCK FALSE
