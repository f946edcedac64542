\* Lifecycle guarantees, unix and non-unix builds.
CONSTANTS
    c1 = c1
    c2 = c2
    Conn <- MCConn
    CheckInterval = 2
    IdleDuration = 4
    GraceDuration = 1
    Builds = {TRUE, FALSE}
SPECIFICATION Spec
INVARIANT TypeOK
INVARIANT IdleDeadline
INVARIANT IdleInv
INVARIANT UnixDrainOnlyOnSignal
INVARIANT PhasesConsistent
PROPERTY SignalLeadsToExit
PROPERTY PhasesSpec
