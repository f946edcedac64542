----------------------- MODULE ServerLifecycleProofs -----------------------
(***************************************************************************)
(* Proofs about ServerLifecycle, for every value of the constants allowed  *)
(* by ConstantsAssumption.                                                 *)
(***************************************************************************)
EXTENDS ServerLifecycle, TLAPS

USE ConstantsAssumption

\* The saturating clock stays in range and grows by at most one.
LEMMA SaturateType ==
    ASSUME NEW x \in 0..TimeCap
    PROVE  /\ Saturate(x) \in 0..TimeCap
           /\ Saturate(x) <= x + 1
BY DEF Saturate, TimeCap

\* The saturating clock keeps the order of two clocks.
LEMMA SaturateMonotone ==
    ASSUME NEW x \in 0..TimeCap, NEW y \in 0..TimeCap, x <= y
    PROVE  Saturate(x) <= Saturate(y)
BY DEF Saturate, TimeCap

\* A forced close records the states of open connections only.
LEMMA ForcedStates ==
    ASSUME TypeOK
    PROVE  {conn[c] : c \in Open} \subseteq {"idle", "busy"}
BY DEF TypeOK, Open, ConnState

-----------------------------------------------------------------------------
(* Type correctness.                                                       *)

\* The initial state is well typed.
LEMMA TypeInit == Init => TypeOK
<1> SUFFICES ASSUME Init PROVE TypeOK
  OBVIOUS
<1>1. conn \in [Conn -> ConnState] /\ mon \in MonState
  BY DEF Init, AllClosed, ConnState, MonState
<1>2. /\ graceLeft \in 0..GraceDuration
      /\ sleepLeft \in 0..CheckInterval
      /\ elapsed \in 0..TimeCap
      /\ quiet \in 0..TimeCap
  BY DEF Init, TimeCap
<1>3. unix \in BOOLEAN
  BY DEF Init
<1>4. QED
  BY <1>1, <1>2, <1>3 DEF Init, TypeOK, PhaseNames

\* Every step keeps the types: in particular the two countdowns never go
\* below zero, because Tick only runs when neither timer is due.
LEMMA TypeStep == TypeOK /\ [Next]_vars => TypeOK'
<1> SUFFICES ASSUME TypeOK, [Next]_vars PROVE TypeOK'
  OBVIOUS
<1>1. CASE monitor_start
  BY <1>1 DEF monitor_start, grace_shutdown, GracefulShutdown, TypeOK,
              MonState, Signals, PhaseNames
<1>2. CASE \E sig \in Signals : Signal(sig)
  BY <1>2 DEF Signal, grace_shutdown, GracefulShutdown, TypeOK, MonState,
              PhaseNames
<1>3. CASE check_idle_count
  BY <1>3 DEF check_idle_count, TypeOK, MonState
<1>4. CASE check_idle_decide
  <2>1. mon' \in MonState /\ sleepLeft' \in 0..CheckInterval
    BY <1>4 DEF check_idle_decide, MonState
  <2>2. CASE sawActive /\ elapsed' = 0 /\ UNCHANGED <<phase, cause, conn, forced>>
    BY <1>4, <2>1, <2>2 DEF check_idle_decide, TypeOK, TimeCap
  <2>3. CASE UNCHANGED <<elapsed, phase, cause, conn, forced>>
    BY <1>4, <2>1, <2>3 DEF check_idle_decide, TypeOK
  <2>4. CASE HandleShutdown /\ UNCHANGED elapsed
    <3>1. forced' \in SUBSET {"idle", "busy"}
      BY <2>4, ForcedStates DEF HandleShutdown, TypeOK
    <3>2. conn' \in [Conn -> ConnState] /\ phase' \in PhaseNames
                                        /\ cause' \in {"none", "idle"} \cup Signals
      BY <2>4 DEF HandleShutdown, TypeOK, AllClosed, ConnState, PhaseNames
    <3>3. QED
      BY <1>4, <2>1, <2>4, <3>1, <3>2 DEF check_idle_decide, TypeOK
  <2>5. QED
    BY <1>4, <2>2, <2>3, <2>4 DEF check_idle_decide
<1>5. ASSUME NEW c \in Conn, Accept(c) PROVE TypeOK'
  BY <1>5 DEF Accept, TypeOK, ConnState, TimeCap
<1>6. ASSUME NEW c \in Conn, StartRequest(c) PROVE TypeOK'
  BY <1>6 DEF StartRequest, TypeOK, ConnState
<1>7. ASSUME NEW c \in Conn, FinishRequest(c) PROVE TypeOK'
  BY <1>7 DEF FinishRequest, TypeOK, ConnState
<1>8. ASSUME NEW c \in Conn, ClientClose(c) PROVE TypeOK'
  BY <1>8 DEF ClientClose, TypeOK, ConnState
<1>9. ASSUME NEW c \in Conn, DrainClose(c) PROVE TypeOK'
  BY <1>9 DEF DrainClose, TypeOK, ConnState
<1>10. CASE GraceExpire
  BY <1>10, ForcedStates DEF GraceExpire, TypeOK, AllClosed, ConnState,
                             PhaseNames
<1>11. CASE ServeReturn
  BY <1>11 DEF ServeReturn, TypeOK, PhaseNames
<1>12. CASE run_server_return
  BY <1>12 DEF run_server_return, TypeOK
<1>15. CASE serve
  BY <1>15 DEF serve, TypeOK, PhaseNames
<1>16. CASE startup_fail
  BY <1>16 DEF startup_fail, TypeOK, PhaseNames
<1>17. CASE main_panic
  BY <1>17 DEF main_panic, TypeOK, AllClosed, ConnState
<1>13. CASE Tick
  <2>1. elapsed' \in 0..TimeCap /\ quiet' \in 0..TimeCap
    BY <1>13, SaturateType DEF Tick, TypeOK, TimeCap
  <2>2. sleepLeft' \in 0..CheckInterval
    BY <1>13 DEF Tick, Urgent, TypeOK
  <2>3. graceLeft' \in 0..GraceDuration
    BY <1>13 DEF Tick, Urgent, TypeOK
  <2>4. QED
    BY <1>13, <2>1, <2>2, <2>3 DEF Tick, TypeOK
<1>14. CASE Terminated \/ UNCHANGED vars
  BY <1>14 DEF Terminated, vars, TypeOK
<1>18. QED
  BY <1>1, <1>2, <1>3, <1>4, <1>5, <1>6, <1>7, <1>8, <1>9, <1>10, <1>11,
     <1>12, <1>13, <1>14, <1>15, <1>16, <1>17 DEF Next

\* Every reachable state is well typed.
THEOREM TypeCorrect == Spec => []TypeOK
BY TypeInit, TypeStep, PTL DEF Spec

-----------------------------------------------------------------------------
(* The idle deadline.                                                      *)

\* The initial state satisfies the inductive invariant: nothing is open,
\* no time has passed and the first check is due at once.
\* One clock growing by at most what another shrinks by keeps their sum
\* under a bound (stated over plain numbers, cited for the clocks).
LEMMA StepWithinBound ==
  ASSUME NEW x \in Nat, NEW y \in Nat, NEW z \in Nat, NEW b \in Nat,
         z <= x + 1, x + y <= b
  PROVE  z + (y - 1) <= b
OBVIOUS

LEMMA IdleInvInit == Init => IdleInv
BY TypeInit DEF Init, IdleInv, OpenIsSeen, CountedIsSeen, QuietBelowElapsed,
                ElapsedBounded, StartsAtZero, MonitorAlive, Open, AllClosed

\* Every step keeps the inductive invariant.
LEMMA IdleInvStep == IdleInv /\ [Next]_vars => IdleInv'
<1> SUFFICES ASSUME IdleInv, [Next]_vars PROVE IdleInv'
  OBVIOUS
<1> USE DEF IdleInv
<1>1. TypeOK'
  BY TypeStep
<1> DEFINE Parts == OpenIsSeen /\ CountedIsSeen /\ QuietBelowElapsed
                    /\ ElapsedBounded /\ StartsAtZero
<1> SUFFICES Parts'
  BY <1>1
<1>2. CASE monitor_start
  BY <1>2 DEF monitor_start, grace_shutdown, GracefulShutdown, Unbound,
              OpenIsSeen, CountedIsSeen, QuietBelowElapsed, ElapsedBounded,
              StartsAtZero, MonitorAlive, Open
<1>3. CASE \E sig \in Signals : Signal(sig)
  BY <1>3 DEF Signal, grace_shutdown, GracefulShutdown, Unbound, OpenIsSeen,
              CountedIsSeen, QuietBelowElapsed, ElapsedBounded, StartsAtZero,
              MonitorAlive, Open
<1>4. CASE check_idle_count
  BY <1>4 DEF check_idle_count, OpenIsSeen, CountedIsSeen, QuietBelowElapsed,
              ElapsedBounded, StartsAtZero, MonitorAlive, Open
<1>5. CASE check_idle_decide
  <2>1. CountedIsSeen'
    BY <1>5 DEF check_idle_decide, CountedIsSeen
  <2>2. CASE sawActive /\ elapsed' = 0 /\ UNCHANGED <<phase, cause, conn, forced>>
    \* quiet = 0 because the count just read saw a connection.
    BY <1>5, <2>2 DEF check_idle_decide, OpenIsSeen, CountedIsSeen,
                      QuietBelowElapsed, ElapsedBounded, StartsAtZero,
                      MonitorAlive, Open, TypeOK
  <2>3. CASE ~sawActive /\ elapsed <= IdleDuration
             /\ UNCHANGED <<elapsed, phase, cause, conn, forced>>
    BY <1>5, <2>1, <2>3 DEF check_idle_decide, OpenIsSeen, QuietBelowElapsed,
                      ElapsedBounded, StartsAtZero, MonitorAlive, Open, TypeOK
  <2>4. CASE HandleShutdown /\ UNCHANGED elapsed
    \* The server is stopped, or not serving yet: the bound is void.
    <3>1. ~MonitorAlive'
      BY <2>4 DEF HandleShutdown, Unbound, MonitorAlive
    <3>2. OpenIsSeen'
      BY <1>5, <2>4 DEF check_idle_decide, HandleShutdown, OpenIsSeen, Open,
                        AllClosed
    <3>3. StartsAtZero'
      BY <1>5, <2>4 DEF check_idle_decide, HandleShutdown, Unbound,
                        StartsAtZero
    <3>4. QED
      BY <1>5, <2>1, <3>1, <3>2, <3>3, <2>4 DEF check_idle_decide,
                                          QuietBelowElapsed, ElapsedBounded
  <2>5. QED
    BY <1>5, <2>1, <2>2, <2>3, <2>4 DEF check_idle_decide
<1>6. ASSUME NEW c \in Conn,
             \/ Accept(c) \/ StartRequest(c) \/ FinishRequest(c)
             \/ ClientClose(c) \/ DrainClose(c)
      PROVE  Parts'
  \* Connections open and close; only Accept touches the clock, resetting
  \* quiet to zero.
  <2>1. CASE Accept(c)
    BY <2>1 DEF Accept, OpenIsSeen, CountedIsSeen, QuietBelowElapsed,
                ElapsedBounded, StartsAtZero, MonitorAlive, TypeOK
  <2>2. CASE StartRequest(c) \/ FinishRequest(c)
    BY <2>2 DEF StartRequest, FinishRequest, OpenIsSeen, CountedIsSeen,
                QuietBelowElapsed, ElapsedBounded, StartsAtZero, MonitorAlive,
                Open, TypeOK
  <2>3. CASE ClientClose(c) \/ DrainClose(c)
    BY <2>3 DEF ClientClose, DrainClose, OpenIsSeen, CountedIsSeen,
                QuietBelowElapsed, ElapsedBounded, StartsAtZero, MonitorAlive,
                Open, TypeOK
  <2>4. QED
    BY <1>6, <2>1, <2>2, <2>3
<1>7. CASE GraceExpire \/ ServeReturn \/ run_server_return
  BY <1>7 DEF GraceExpire, ServeReturn, run_server_return, OpenIsSeen,
              CountedIsSeen, QuietBelowElapsed, ElapsedBounded, StartsAtZero,
              MonitorAlive, Open, AllClosed
<1>8. CASE Tick
  <2>1. ~Urgent /\ Open' = Open /\ UNCHANGED <<mon, phase>>
    BY <1>8 DEF Tick, Open
  <2>2. OpenIsSeen'
    BY <1>8, <2>1 DEF Tick, OpenIsSeen
  <2>3. CountedIsSeen' /\ StartsAtZero'
    BY <2>1 DEF Urgent, CountedIsSeen, StartsAtZero
  <2>4. QuietBelowElapsed'
    <3>1. CASE Open # {}
      BY <1>8, <3>1, <2>1, SaturateType DEF Tick, QuietBelowElapsed, TypeOK
    <3>2. CASE Open = {}
      BY <1>8, <3>2, SaturateMonotone DEF Tick, QuietBelowElapsed, TypeOK
    <3>3. QED
      BY <3>1, <3>2
  <2>5. ElapsedBounded'
    \* Only a sleeping monitor lets time pass, and its sleep shrinks by
    \* the second its clock grows by.
    <3>1. CASE MonitorAlive'
      <4>1. mon = "sleeping" /\ sleepLeft > 0
        BY <3>1, <2>1 DEF MonitorAlive, Urgent, TypeOK
      <4>2. elapsed' <= elapsed + 1 /\ sleepLeft' = sleepLeft - 1
        BY <1>8, <4>1, SaturateType DEF Tick, TypeOK
      <4>3. elapsed + sleepLeft <= IdleDuration + CheckInterval
        BY <3>1, <2>1 DEF ElapsedBounded, MonitorAlive
      <4>4. elapsed' + sleepLeft' <= IdleDuration + CheckInterval
        <5>1. elapsed \in Nat /\ sleepLeft \in Nat /\ elapsed' \in Nat
          BY <1>1 DEF TypeOK, TimeCap
        <5>2. IdleDuration + CheckInterval \in Nat
          OBVIOUS
        <5>3. elapsed' + (sleepLeft - 1) <= IdleDuration + CheckInterval
          BY <5>1, <5>2, <4>2, <4>3, StepWithinBound
        <5>4. QED
          BY <5>3, <4>2
      <4>5. QED
        BY <4>4 DEF ElapsedBounded
    <3>2. QED
      BY <3>1 DEF ElapsedBounded
  <2>6. QED
    BY <2>2, <2>3, <2>4, <2>5
<1>9. CASE Terminated \/ UNCHANGED vars
  BY <1>9 DEF Terminated, vars, OpenIsSeen, CountedIsSeen, QuietBelowElapsed,
              ElapsedBounded, StartsAtZero, MonitorAlive, Open
<1>10. CASE serve
  \* Serving starts with the clock at zero and the monitor's sleep at most
  \* CHECK_INTERVAL long.
  <2>1. ElapsedBounded'
    <3>1. elapsed = 0 /\ sleepLeft \in 0..CheckInterval
      BY <1>10 DEF serve, StartsAtZero, TypeOK
    <3>2. QED
      BY <1>10, <3>1 DEF serve, ElapsedBounded
  <2>2. QED
    BY <1>10, <2>1 DEF serve, OpenIsSeen, CountedIsSeen, QuietBelowElapsed,
                       StartsAtZero, Open
<1>11. CASE startup_fail \/ main_panic
  BY <1>11 DEF startup_fail, main_panic, OpenIsSeen,
               CountedIsSeen, QuietBelowElapsed, ElapsedBounded, StartsAtZero,
               MonitorAlive, Open, AllClosed
<1>12. QED
  BY <1>2, <1>3, <1>4, <1>5, <1>6, <1>7, <1>8, <1>9, <1>10, <1>11 DEF Next

\* IdleInv holds in every reachable state.
THEOREM IdleInvHolds == Spec => []IdleInv
BY IdleInvInit, IdleInvStep, PTL DEF Spec

\* While the server runs and the monitor is alive, the server has not been
\* without connections for more than IDLE_DURATION + CHECK_INTERVAL seconds.
THEOREM IdleDeadlineHolds == Spec => []IdleDeadline
<1>1. IdleInv => IdleDeadline
  BY DEF IdleInv, IdleDeadline, QuietBelowElapsed, ElapsedBounded, TypeOK
<1>2. QED
  BY <1>1, IdleInvHolds, PTL

-----------------------------------------------------------------------------
(* Refinement of LifecyclePhases (its safety part; its fairness is         *)
(* checked by TLC in the lifecycle run).                                   *)

\* Serving starts only when no shutdown was requested, and a request while
\* serving ends serving: so the server is never running with a cause
\* recorded.  This is what makes a shutdown call while running the first
\* request of the abstract specification.
RunningUnrequested == phase = "Running" => cause = "none"

RefInv == TypeOK /\ RunningUnrequested

LEMMA RefInvInit == Init => RefInv
BY TypeInit DEF Init, RefInv, RunningUnrequested

LEMMA RefInvStep == RefInv /\ [Next]_vars => RefInv'
<1> SUFFICES ASSUME RefInv, [Next]_vars PROVE RefInv'
  OBVIOUS
<1>1. TypeOK'
  BY TypeStep DEF RefInv
<1>2. RunningUnrequested'
  BY DEF RefInv, RunningUnrequested, Next, monitor_start, Signal,
         grace_shutdown, GracefulShutdown, HandleShutdown, Unbound,
         check_idle_count, check_idle_decide, Accept, StartRequest,
         FinishRequest, ClientClose, DrainClose, GraceExpire, ServeReturn,
         serve, startup_fail, run_server_return, main_panic,
         Tick, Terminated, vars
<1>3. QED
  BY <1>1, <1>2 DEF RefInv

\* A graceful_shutdown call is the first request, or changes nothing the
\* abstract specification sees.
LEMMA GracefulRefines ==
  ASSUME RefInv, NEW sig \in Signals, GracefulShutdown(sig),
         UNCHANGED <<exited, rotated>>
  PROVE  [Phases!Next]_Phases!vars
<1>1. CASE phase = "Running"
  <2>1. Phases!Request(sig)
    BY <1>1 DEF GracefulShutdown, Unbound, RefInv, RunningUnrequested,
                Phases!Request, Signals
  <2>2. sig \in Phases!Requests
    BY DEF Signals, Phases!Requests
  <2>3. QED
    BY <2>1, <2>2 DEF Phases!Next
<1>2. CASE Unbound
  <2>1. Phases!Request(sig)
    BY <1>2 DEF GracefulShutdown, Unbound, Phases!Request
  <2>2. sig \in Phases!Requests
    BY DEF Signals, Phases!Requests
  <2>3. QED
    BY <2>1, <2>2 DEF Phases!Next
<1>3. CASE phase # "Running" /\ ~Unbound
  BY <1>3 DEF GracefulShutdown, Phases!vars
<1>4. QED
  BY <1>1, <1>2, <1>3

\* So is a shutdown call.
LEMMA ShutdownRefines ==
  ASSUME RefInv, HandleShutdown, UNCHANGED <<exited, rotated>>
  PROVE  [Phases!Next]_Phases!vars
<1>1. "idle" \in Phases!Requests
  BY DEF Phases!Requests
<1>2. CASE phase = "Running"
  <2>1. Phases!Request("idle")
    BY <1>2 DEF HandleShutdown, Unbound, RefInv, RunningUnrequested,
                Phases!Request
  <2>2. QED
    BY <1>1, <2>1 DEF Phases!Next
<1>3. CASE Unbound
  <2>1. Phases!Request("idle")
    BY <1>3 DEF HandleShutdown, Unbound, Phases!Request
  <2>2. QED
    BY <1>1, <2>1 DEF Phases!Next
<1>4. CASE phase = "Draining"
  \* shutdown() cuts the drain short: the abstract drain ends.
  <2>1. Phases!Drained
    BY <1>4 DEF HandleShutdown, Unbound, Phases!Drained
  <2>2. QED
    BY <2>1 DEF Phases!Next
<1>5. CASE phase \notin {"Running", "Draining"} /\ ~Unbound
  BY <1>5 DEF HandleShutdown, Phases!vars
<1>6. QED
  BY <1>2, <1>3, <1>4, <1>5

\* Every step of the lifecycle is a step of LifecyclePhases or leaves what
\* it sees unchanged.
LEMMA StepRefines == RefInv /\ [Next]_vars => [Phases!Next]_Phases!vars
<1> SUFFICES ASSUME RefInv, [Next]_vars PROVE [Phases!Next]_Phases!vars
  OBVIOUS
<1>1. CASE monitor_start
  <2>1. CASE ~unix /\ mon' = "done" /\ grace_shutdown("SIGTERM")
    BY <1>1, <2>1, GracefulRefines DEF monitor_start, grace_shutdown, Signals
  <2>2. CASE UNCHANGED <<phase, graceLeft, cause>>
    BY <1>1, <2>2 DEF monitor_start, Phases!vars
  <2>3. QED
    BY <1>1, <2>1, <2>2 DEF monitor_start
<1>2. ASSUME NEW sig \in Signals, Signal(sig)
      PROVE  [Phases!Next]_Phases!vars
  BY <1>2, GracefulRefines DEF Signal, grace_shutdown
<1>3. CASE check_idle_decide
  <2>1. CASE HandleShutdown
    BY <1>3, <2>1, ShutdownRefines DEF check_idle_decide
  <2>2. CASE UNCHANGED <<phase, cause>>
    BY <1>3, <2>2 DEF check_idle_decide, Phases!vars
  <2>3. QED
    BY <1>3, <2>1, <2>2 DEF check_idle_decide
<1>4. CASE GraceExpire \/ ServeReturn
  <2>1. Phases!Drained
    BY <1>4 DEF GraceExpire, ServeReturn, Phases!Drained
  <2>2. QED
    BY <2>1 DEF Phases!Next
<1>5. CASE serve
  <2>1. Phases!Listen
    BY <1>5 DEF serve, Phases!Listen
  <2>2. QED
    BY <2>1 DEF Phases!Next
<1>6. CASE startup_fail
  <2>1. Phases!Fail
    BY <1>6 DEF startup_fail, Phases!Fail
  <2>2. QED
    BY <2>1 DEF Phases!Next
<1>7. CASE run_server_return \/ main_panic
  <2>1. Phases!Exit
    BY <1>7 DEF run_server_return, main_panic, Phases!Exit
  <2>2. QED
    BY <2>1 DEF Phases!Next
<1>8. CASE \/ check_idle_count \/ Tick \/ Terminated \/ UNCHANGED vars
           \/ \E c \in Conn : \/ Accept(c) \/ StartRequest(c)
                              \/ FinishRequest(c) \/ ClientClose(c)
                              \/ DrainClose(c)
  BY <1>8 DEF check_idle_count, Tick, Terminated, vars, Accept, StartRequest,
              FinishRequest, ClientClose, DrainClose, Phases!vars
<1>9. QED
  BY <1>1, <1>2, <1>3, <1>4, <1>5, <1>6, <1>7, <1>8 DEF Next

\* The lifecycle implements LifecyclePhases under the mapping Phases
\* (status <- phase, stopCause <- cause): the first shutdown request wins,
\* a request made while TLS is loading is honoured when serving starts, a
\* drain ends only in a stop, rotate fires only on a clean stop and main
\* exits only after run_server returned -- for every value of the constants.
THEOREM Refinement == Spec => Phases!SafetySpec
<1>1. Spec => []RefInv
  BY RefInvInit, RefInvStep, PTL DEF Spec
<1>2. Init => Phases!Init
  BY DEF Init, Phases!Init
<1>3. QED
  BY <1>1, <1>2, StepRefines, PTL DEF Spec, Phases!SafetySpec

\* The abstract lifecycle's proofs, under the same mapping.
PP == INSTANCE LifecyclePhasesProofs WITH status <- phase, stopCause <- cause

\* What LifecyclePhases guarantees holds of the lifecycle: rotate has fired
\* exactly when main exited after a clean stop (never after run_server
\* failed), main exits only once run_server has returned, the server runs
\* only while no shutdown is recorded, and the idle path never drains.
THEOREM PhasesConsistentHolds == Spec => []PhasesConsistent
<1>1. PP!SafetySpec => []PP!Consistent
  BY PP!ConsistentHolds
\* The two instances are the same module under the same mapping.
<1>2. Phases!SafetySpec <=> PP!SafetySpec
  BY DEF Phases!SafetySpec, PP!SafetySpec, Phases!Init, PP!Init, Phases!Next,
         PP!Next, Phases!vars, PP!vars, Phases!Request, PP!Request,
         Phases!Requests, PP!Requests, Phases!Listen, PP!Listen, Phases!Fail,
         PP!Fail, Phases!Drained, PP!Drained, Phases!Exit, PP!Exit
<1>3. PhasesConsistent <=> PP!Consistent
  BY DEF PhasesConsistent, Phases!Consistent, PP!Consistent, Phases!TypeOK,
         PP!TypeOK, Phases!Statuses, PP!Statuses, Phases!Requests, PP!Requests
<1>4. QED
  BY <1>1, <1>2, <1>3, Refinement, PTL

-----------------------------------------------------------------------------
(* On unix only a signal drains.                                          *)

\* On a unix build a recorded signal cause was received: the signal arms
\* record what they received, and only the non-unix terminate() records
\* SIGTERM without one.
SignalCauseReceived ==
    unix /\ cause \in Signals => cause \in received

LEMMA SignalCauseStep ==
  TypeOK /\ SignalCauseReceived /\ [Next]_vars => SignalCauseReceived'
<1> SUFFICES ASSUME TypeOK, SignalCauseReceived, [Next]_vars
             PROVE  SignalCauseReceived'
  OBVIOUS
<1>1. CASE monitor_start
  BY <1>1 DEF monitor_start, grace_shutdown, GracefulShutdown, Unbound,
              SignalCauseReceived
<1>2. ASSUME NEW sig \in Signals, Signal(sig) PROVE SignalCauseReceived'
  BY <1>2 DEF Signal, grace_shutdown, GracefulShutdown, Unbound,
              SignalCauseReceived
<1>3. CASE check_idle_decide
  BY <1>3 DEF check_idle_decide, HandleShutdown, Unbound, SignalCauseReceived,
              Signals
<1>4. CASE UNCHANGED <<cause, received, unix>>
  BY <1>4 DEF SignalCauseReceived
\* Every other step leaves the cause, the signals received and the build
\* alone.
<1>5. ASSUME \/ serve \/ startup_fail \/ GraceExpire
             \/ ServeReturn \/ run_server_return \/ main_panic
      PROVE  UNCHANGED <<cause, received, unix>>
  BY <1>5 DEF serve, startup_fail, GraceExpire, ServeReturn,
              run_server_return, main_panic
<1>6. ASSUME \/ check_idle_count \/ Tick \/ Terminated \/ UNCHANGED vars
             \/ \E c \in Conn : \/ Accept(c) \/ StartRequest(c)
                                \/ FinishRequest(c) \/ ClientClose(c)
                                \/ DrainClose(c)
      PROVE  UNCHANGED <<cause, received, unix>>
  BY <1>6 DEF check_idle_count, Tick, Terminated, vars, Accept, StartRequest,
              FinishRequest, ClientClose, DrainClose
<1>7. QED
  BY <1>1, <1>2, <1>3, <1>4, <1>5, <1>6 DEF Next

\* On a #[cfg(unix)] build the server drains, or records a drain before
\* serving, only for a Ctrl+C or SIGTERM the monitor received -- for all
\* values of the constants.  (Off unix, the violation run nonunix_terminate
\* shows the opposite.)
THEOREM UnixDrainHolds == Spec => []UnixDrainOnlyOnSignal
<1>1. Init => SignalCauseReceived
  BY DEF Init, SignalCauseReceived, Signals
<1>2. Spec => [](TypeOK /\ SignalCauseReceived)
  BY <1>1, TypeInit, TypeStep, SignalCauseStep, PTL DEF Spec
<1>3. QED
  BY <1>2, PTL DEF UnixDrainOnlyOnSignal, DrainOnlyOnSignal,
                   SignalCauseReceived

=============================================================================
