\* Incidents, guardianships and the admin portal, one of them at a time, with two
\* requests that may overlap and one restart.
SPECIFICATION CoreSpec
CONSTANTS
    Users = {own, grd}
    Protected = {own}
    Admins = {own}
    Emergencies = {1}
    Requests = {r1, r2}
    NoOne = NoOne
    MaxEvents = 2
    MaxCrashes = 1
    Owners = {own}
    Invitees = {inv}
    LinkRequests = {r1, r2}
    MaxRows = 2
    MaxLinkCrashes = 1
    Accounts = {a1, a2}
    FirstAdmins = {a1, a2}
    Bootstrap = {a1}
    AdminOps = {"update", "disable", "enable", "promote", "demote", "delete", "logout", "reset"}
    AdminRequests = {r1, r2}
    MaxStarts = 3
    MaxAdminCrashes = 1
SYMMETRY SlotSymmetry
INVARIANTS
    EventsAreAllowedMoves
    ActorsWereEntitled
    AuditsAreTrue
    AnnouncedOnce
    PushStaysInCircle
    Consent
    LinkedExists
    AloneInvitesReachAccounts
    TrailIsTrue
    GapsExplained
    AloneTrailIsComplete
PROPERTIES
    KeepsWeakContract
    AloneFollowsRules
CHECK_DEADLOCK FALSE
