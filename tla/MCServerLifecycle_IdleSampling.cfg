\* Expected violation: IdleOnlyAfterQuiet.
CONSTANTS
    c1 = c1
    c2 = c2
    Conn <- MCConn
    CheckInterval = 2
    IdleDuration = 4
    GraceDuration = 1
    Builds = {TRUE}
SPECIFICATION Spec
ACTION_CONSTRAINT NoAcceptWhileDeciding
PROPERTY IdleOnlyAfterQuiet
