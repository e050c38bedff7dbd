SPECIFICATION Spec
CONSTANTS
    Users = {owner, guardian}
    Protected = {owner}
    Admins = {owner}
    Emergencies = {1}
    Requests = {r1, r2}
    NoOne = NoOne
    MaxEvents = 2
    MaxCrashes = 1
PROPERTIES TerminalIsFinal
CHECK_DEADLOCK FALSE
