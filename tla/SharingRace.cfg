SPECIFICATION SharingSpec
CONSTANTS
    LastRun = 3
    MaxFaults = 0
INVARIANT UploadsOnlyWhileSharing
CHECK_DEADLOCK FALSE
