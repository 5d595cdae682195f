CONSTANTS
    MaxMounts = 3
    MaxClients = 2
    MayFail = TRUE
SPECIFICATION Spec
INVARIANT LauncherTypeOK
INVARIANT StatesHold
INVARIANT KeysOfOneClient
PROPERTY InitialisedOnce
PROPERTY ConnectsUnlessRejected
CHECK_DEADLOCK FALSE
