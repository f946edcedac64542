\* Expected violation: SignalInstallFatal.
CONSTANTS
    c1 = c1
    c2 = c2
    Conn <- MCConn
    CheckInterval = 2
    IdleDuration = 4
    GraceDuration = 1
    Builds = {TRUE}
SPECIFICATION Spec
PROPERTY SignalInstallFatal
