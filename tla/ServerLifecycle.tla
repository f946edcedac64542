-------------------------- MODULE ServerLifecycle --------------------------
(***************************************************************************)
(* The lifecycle of the HTTP server: run_server in src/src/main.rs and the *)
(* shutdown monitor task of src/src/utils/shutdown_monitor.rs, composed    *)
(* with the axum_server Handle they share.  The handle (not under src/) is *)
(* modelled from its documented behaviour: it counts live connections,     *)
(* shutdown() makes serve return at once and drops every connection,      *)
(* graceful_shutdown(d) stops accepting, lets connections finish and       *)
(* forces the rest closed after d; both are no-ops once serve returned.    *)
(* A call made before serve is first polled is remembered (the handle's    *)
(* notifications are sticky) and acted on as serve starts.  serve returns  *)
(* Err when binding fails; an accept error while serving never reaches it  *)
(* (hyper's AddrIncoming logs and retries it), so it is not modelled.      *)
(*                                                                         *)
(* Time is discrete, one Tick is one second.  Timers fire promptly: no     *)
(* time passes while a task has become ready (the predicate Urgent).       *)
(***************************************************************************)
EXTENDS Naturals

CONSTANTS
    Conn,           \* connection slots, model values
    CheckInterval,  \* CHECK_INTERVAL: seconds slept between two idle checks
    IdleDuration,   \* IDLE_DURATION: idle time after which the server stops
    GraceDuration,  \* GRACE_DURATION: seconds granted to a graceful drain
    Builds          \* the builds considered: TRUE for #[cfg(unix)], FALSE otherwise

ASSUME ConstantsAssumption ==
    /\ CheckInterval \in Nat \ {0}
    /\ IdleDuration \in Nat
    /\ GraceDuration \in Nat
    /\ Builds \subseteq BOOLEAN
    /\ Builds # {}

Signals == {"SIGINT", "SIGTERM"}

\* A connection slot is closed, open with no request, or serving a request.
ConnState == {"closed", "idle", "busy"}

\* The monitor task: before its first poll, waiting in sleep(CHECK_INTERVAL),
\* between reading the count and acting on it, finished (a signal branch of
\* the select! completed) or dead (it panicked).
MonState == {"start", "sleeping", "deciding", "done", "dead"}

\* Clocks saturate here: past it no guard tells two values apart.
TimeCap == IdleDuration + CheckInterval + 1

VARIABLES
    conn,       \* connection slot -> ConnState
    phase,      \* run_server: "Starting" (monitor spawned, TLS being loaded),
                \* then the serve future: "Running", "Draining", "Stopped";
                \* "Failed" when run_server returns Err
    graceLeft,  \* seconds left of the graceful drain
    mon,        \* state of the monitor task
    sawActive,  \* count > 0, as read by check_idle
    sleepLeft,  \* seconds left of the monitor's sleep
    elapsed,    \* last_activity.elapsed(), in seconds
    rotated,    \* services().globals.rotate.fire() has run
    exited,     \* main has returned
    \* History variables, read only by properties:
    quiet,      \* seconds since a connection was last open
    cause,      \* what stopped the server: "none", "idle" or a signal
    received,   \* signals the monitor has received
    forced,     \* states of the connections the handle forced closed
    unix        \* the build: #[cfg(unix)] or not; never changes

vars == <<conn, phase, graceLeft, mon, sawActive, sleepLeft, elapsed,
          rotated, exited, quiet, cause, received, forced, unix>>

PhaseNames == {"Starting", "Running", "Draining", "Stopped", "Failed"}

Open == {c \in Conn : conn[c] # "closed"}

Saturate(x) == IF x < TimeCap THEN x + 1 ELSE TimeCap

AllClosed == [c \in Conn |-> "closed"]

TypeOK ==
    /\ conn \in [Conn -> ConnState]
    /\ phase \in PhaseNames
    /\ graceLeft \in 0..GraceDuration
    /\ mon \in MonState
    /\ sawActive \in BOOLEAN
    /\ sleepLeft \in 0..CheckInterval
    /\ elapsed \in 0..TimeCap
    /\ rotated \in BOOLEAN
    /\ exited \in BOOLEAN
    /\ quiet \in 0..TimeCap
    /\ cause \in {"none", "idle"} \cup Signals
    /\ received \in SUBSET Signals
    /\ forced \in SUBSET {"idle", "busy"}
    /\ unix \in BOOLEAN

Init ==
    /\ conn = AllClosed
    /\ phase = "Starting"
    /\ graceLeft = GraceDuration
    /\ mon = "start"
    /\ sawActive = FALSE
    /\ sleepLeft = 0
    /\ elapsed = 0
    /\ rotated = FALSE
    /\ exited = FALSE
    /\ quiet = 0
    /\ cause = "none"
    /\ received = {}
    /\ forced = {}
    /\ unix \in Builds

-----------------------------------------------------------------------------
(* The handle's two shutdown calls.                                        *)

\* serve has not started yet and no shutdown has been asked for: a call is
\* recorded in the handle and acted on when serve starts.
Unbound == phase = "Starting" /\ cause = "none"

\* handle.graceful_shutdown(Some(GRACE_DURATION)), called by grace_shutdown.
GracefulShutdown(sig) ==
    \/ /\ phase = "Running"
       /\ phase' = "Draining"
       /\ graceLeft' = GraceDuration
       /\ cause' = sig
    \/ /\ Unbound
       /\ cause' = sig
       /\ UNCHANGED <<phase, graceLeft>>
    \/ /\ phase # "Running"
       /\ ~Unbound
       /\ UNCHANGED <<phase, graceLeft, cause>>

\* handle.shutdown(): serve returns at once and drops every connection; a
\* graceful drain under way is cut short (the connections' watchers drop
\* them), and the drain keeps its cause.
HandleShutdown ==
    \/ /\ phase \in {"Running", "Draining"}
       /\ phase' = "Stopped"
       /\ cause' = IF phase = "Running" THEN "idle" ELSE cause
       /\ conn' = AllClosed
       /\ forced' = forced \cup {conn[c] : c \in Open}
    \/ /\ Unbound
       /\ cause' = "idle"
       /\ UNCHANGED <<phase, conn, forced>>
    \/ /\ phase \notin {"Running", "Draining"}
       /\ ~Unbound
       /\ UNCHANGED <<phase, cause, conn, forced>>

-----------------------------------------------------------------------------
(* The monitor task: monitor, ctrl_c, terminate, grace_shutdown, check_idle *)

\* Mutants of grace_shutdown: a grace period one second too long, and the
\* call to the handle forgotten (the warning is logged, nothing else happens).
grace_shutdown_too_long(sig) ==
    \/ /\ phase = "Running"
       /\ phase' = "Draining"
       /\ graceLeft' = GraceDuration + 1
       /\ cause' = sig
    \/ /\ Unbound
       /\ cause' = sig
       /\ UNCHANGED <<phase, graceLeft>>
    \/ /\ phase # "Running"
       /\ ~Unbound
       /\ UNCHANGED <<phase, graceLeft, cause>>

grace_shutdown_log_only(sig) == UNCHANGED <<phase, graceLeft, cause>>

\* grace_shutdown(&handle, signal): log, then start the graceful drain.
grace_shutdown(sig) == GracefulShutdown(sig)

\* Mutant of monitor_start: terminate() completes at once on every build,
\* as if the unix arm also built a future without awaiting it.
monitor_start_terminate_returns ==
    /\ mon = "start"
    /\ \/ /\ mon' = "dead"
          /\ UNCHANGED <<phase, graceLeft, cause>>
       \/ /\ mon' = "done"
          /\ grace_shutdown("SIGTERM")
    /\ UNCHANGED <<conn, sawActive, sleepLeft, elapsed, rotated, exited,
                   quiet, received, forced, unix>>

\* The first poll of the select! in monitor installs the signal handlers.
\* An install failure panics (expect) and ends the whole task; off unix,
\* terminate() creates std::future::pending() without awaiting it, so it
\* completes at once and its branch calls grace_shutdown(SIGTERM).
monitor_start ==
    /\ mon = "start"
    /\ \/ /\ mon' = "dead"
          /\ UNCHANGED <<phase, graceLeft, cause>>
       \/ /\ ~unix
          /\ mon' = "done"
          /\ grace_shutdown("SIGTERM")
       \/ /\ unix
          /\ mon' = "sleeping"
          /\ UNCHANGED <<phase, graceLeft, cause>>
    /\ UNCHANGED <<conn, sawActive, sleepLeft, elapsed, rotated, exited,
                   quiet, received, forced, unix>>

\* ctrl_c() or terminate() completes while the task waits in the select!;
\* the select! drops check_idle and calls grace_shutdown.
Signal(sig) ==
    /\ mon = "sleeping"
    /\ ~exited
    /\ sig = "SIGINT" \/ unix
    /\ mon' = "done"
    /\ received' = received \cup {sig}
    /\ grace_shutdown(sig)
    /\ UNCHANGED <<conn, sawActive, sleepLeft, elapsed, rotated, exited,
                   quiet, forced, unix>>

\* check_idle, top of the loop: let count = handle.connection_count().
check_idle_count ==
    /\ mon = "sleeping"
    /\ sleepLeft = 0
    /\ ~exited
    /\ mon' = "deciding"
    /\ sawActive' = (Open # {})
    /\ UNCHANGED <<conn, phase, graceLeft, sleepLeft, elapsed, rotated,
                   exited, quiet, cause, received, forced, unix>>

\* Mutant of check_idle_decide: last_activity reset on every wake-up,
\* whether or not a connection was seen.
check_idle_decide_always_reset ==
    /\ mon = "deciding"
    /\ mon' = "sleeping"
    /\ sleepLeft' = CheckInterval
    /\ elapsed' = 0
    /\ UNCHANGED <<phase, cause, conn, forced, graceLeft, sawActive, rotated,
                   exited, quiet, received, unix>>

\* Mutant of check_idle_decide: the idle path drains gracefully
\* (handle.graceful_shutdown) instead of calling handle.shutdown().
check_idle_decide_graceful ==
    /\ mon = "deciding"
    /\ mon' = "sleeping"
    /\ sleepLeft' = CheckInterval
    /\ \/ /\ sawActive
          /\ elapsed' = 0
          /\ UNCHANGED <<phase, cause, graceLeft, conn, forced>>
       \/ /\ ~sawActive
          /\ elapsed <= IdleDuration
          /\ UNCHANGED <<elapsed, phase, cause, graceLeft, conn, forced>>
       \/ /\ ~sawActive
          /\ elapsed >= IdleDuration
          /\ GracefulShutdown("idle")
          /\ UNCHANGED <<elapsed, conn, forced>>
    /\ UNCHANGED <<sawActive, rotated, exited, quiet, received, unix>>

\* check_idle, rest of the loop body, then sleep(CHECK_INTERVAL).  With
\* count > 0 last_activity is reset; otherwise the server is shut down when
\* idle_time > IDLE_DURATION.  The measured Duration includes the sleep's
\* lateness, so at exactly IDLE_DURATION whole seconds the test may go
\* either way.
check_idle_decide ==
    /\ mon = "deciding"
    /\ mon' = "sleeping"
    /\ sleepLeft' = CheckInterval
    /\ \/ /\ sawActive
          /\ elapsed' = 0
          /\ UNCHANGED <<phase, cause, conn, forced>>
       \/ /\ ~sawActive
          /\ elapsed <= IdleDuration
          /\ UNCHANGED <<elapsed, phase, cause, conn, forced>>
       \/ /\ ~sawActive
          /\ elapsed >= IdleDuration
          /\ HandleShutdown
          /\ UNCHANGED elapsed
    /\ UNCHANGED <<graceLeft, sawActive, rotated, exited, quiet, received, unix>>

-----------------------------------------------------------------------------
(* run_server between spawning the monitor and serving.                   *)

\* Mutant of serve: a shutdown requested before serve started is lost.
serve_ignores_request ==
    /\ phase = "Starting"
    /\ phase' = "Running"
    /\ graceLeft' = GraceDuration
    /\ UNCHANGED <<conn, mon, sawActive, sleepLeft, elapsed, rotated, exited,
                   quiet, cause, received, forced, unix>>

\* The TLS material is loaded, bind(...).handle(handle).serve(app) binds the
\* listener on its first poll and systemd is told Ready.  A shutdown the
\* handle already holds takes effect at once: shutdown() ends serve,
\* graceful_shutdown breaks the accept loop and drains (nothing to drain).
serve ==
    /\ phase = "Starting"
    /\ phase' = CASE cause = "none" -> "Running"
                   [] cause = "idle" -> "Stopped"
                   [] OTHER          -> "Draining"
    /\ graceLeft' = GraceDuration
    /\ UNCHANGED <<conn, mon, sawActive, sleepLeft, elapsed, rotated, exited,
                   quiet, cause, received, forced, unix>>

\* RustlsConfig::from_pem_file(..).await? fails, or the listener cannot be
\* bound: run_server returns Err while the monitor task is already running.
startup_fail ==
    /\ phase = "Starting"
    /\ phase' = "Failed"
    /\ UNCHANGED <<conn, graceLeft, mon, sawActive, sleepLeft, elapsed,
                   rotated, exited, quiet, cause, received, forced, unix>>


Accept(c) ==
    /\ phase = "Running"
    /\ conn[c] = "closed"
    /\ conn' = [conn EXCEPT ![c] = "idle"]
    /\ quiet' = 0
    /\ UNCHANGED <<phase, graceLeft, mon, sawActive, sleepLeft, elapsed,
                   rotated, exited, cause, received, forced, unix>>

\* A request arrives; a draining connection takes no new request.
StartRequest(c) ==
    /\ phase = "Running"
    /\ conn[c] = "idle"
    /\ conn' = [conn EXCEPT ![c] = "busy"]
    /\ UNCHANGED <<phase, graceLeft, mon, sawActive, sleepLeft, elapsed,
                   rotated, exited, quiet, cause, received, forced, unix>>

FinishRequest(c) ==
    /\ conn[c] = "busy"
    /\ conn' = [conn EXCEPT ![c] = "idle"]
    /\ UNCHANGED <<phase, graceLeft, mon, sawActive, sleepLeft, elapsed,
                   rotated, exited, quiet, cause, received, forced, unix>>

ClientClose(c) ==
    /\ conn[c] # "closed"
    /\ conn' = [conn EXCEPT ![c] = "closed"]
    /\ UNCHANGED <<phase, graceLeft, mon, sawActive, sleepLeft, elapsed,
                   rotated, exited, quiet, cause, received, forced, unix>>

\* During a graceful drain a connection with no request in flight closes.
DrainClose(c) ==
    /\ phase = "Draining"
    /\ conn[c] = "idle"
    /\ conn' = [conn EXCEPT ![c] = "closed"]
    /\ UNCHANGED <<phase, graceLeft, mon, sawActive, sleepLeft, elapsed,
                   rotated, exited, quiet, cause, received, forced, unix>>

\* The grace period ran out: the handle forces the remaining ones closed.
GraceExpire ==
    /\ phase = "Draining"
    /\ graceLeft = 0
    /\ Open # {}
    /\ phase' = "Stopped"
    /\ conn' = AllClosed
    /\ forced' = forced \cup {conn[c] : c \in Open}
    /\ UNCHANGED <<graceLeft, mon, sawActive, sleepLeft, elapsed, rotated,
                   exited, quiet, cause, received, unix>>

\* Every connection ended within the grace period: serve returns.
ServeReturn ==
    /\ phase = "Draining"
    /\ Open = {}
    /\ phase' = "Stopped"
    /\ UNCHANGED <<conn, graceLeft, mon, sawActive, sleepLeft, elapsed,
                   rotated, exited, quiet, cause, received, forced, unix>>

-----------------------------------------------------------------------------
(* run_server after server.await, and the end of main.                      *)

\* rotate.fire(), the systemd Stopping notification, return to main, exit.
run_server_return ==
    /\ phase = "Stopped"
    /\ ~exited
    /\ rotated' = TRUE
    /\ exited' = TRUE
    /\ UNCHANGED <<conn, phase, graceLeft, mon, sawActive, sleepLeft,
                   elapsed, quiet, cause, received, forced, unix>>

\* run_server returned Err: run_server().await.unwrap() panics in main, the
\* runtime is dropped with every task and connection, the process exits.
\* rotate.fire() and the Stopping notification are skipped.
main_panic ==
    /\ phase = "Failed"
    /\ ~exited
    /\ exited' = TRUE
    /\ conn' = AllClosed
    /\ UNCHANGED <<phase, graceLeft, mon, sawActive, sleepLeft, elapsed,
                   rotated, quiet, cause, received, forced, unix>>

-----------------------------------------------------------------------------
(* Time.                                                                   *)

\* Some task is ready to run, so no time passes before it does.
Urgent ==
    \/ mon \in {"start", "deciding"}
    \/ mon = "sleeping" /\ sleepLeft = 0
    \/ phase = "Draining" /\ (graceLeft = 0 \/ Open = {})
    \/ phase \in {"Starting", "Stopped", "Failed"}

Tick ==
    /\ ~exited
    /\ ~Urgent
    /\ elapsed' = Saturate(elapsed)
    /\ quiet' = IF Open # {} THEN 0 ELSE Saturate(quiet)
    /\ sleepLeft' = IF mon = "sleeping" THEN sleepLeft - 1 ELSE sleepLeft
    /\ graceLeft' = IF phase = "Draining" THEN graceLeft - 1 ELSE graceLeft
    /\ UNCHANGED <<conn, phase, mon, sawActive, rotated, exited, cause,
                   received, forced, unix>>

\* The process has exited; nothing changes any more.
Terminated ==
    /\ exited
    /\ UNCHANGED vars

Next ==
    \/ monitor_start
    \/ \E sig \in Signals : Signal(sig)
    \/ check_idle_count
    \/ check_idle_decide
    \/ \E c \in Conn :
          \/ Accept(c)
          \/ StartRequest(c)
          \/ FinishRequest(c)
          \/ ClientClose(c)
          \/ DrainClose(c)
    \/ GraceExpire
    \/ ServeReturn
    \/ serve
    \/ startup_fail
    \/ run_server_return
    \/ main_panic
    \/ Tick
    \/ Terminated

\* The runtime runs every ready task and time goes on; clients, the
\* operating system's signals and startup errors are under no obligation.
Fairness ==
    /\ WF_vars(monitor_start)
    /\ WF_vars(check_idle_count)
    /\ WF_vars(check_idle_decide)
    /\ \A c \in Conn : WF_vars(DrainClose(c))
    /\ WF_vars(GraceExpire)
    /\ WF_vars(ServeReturn)
    /\ WF_vars(serve)
    /\ WF_vars(run_server_return)
    /\ WF_vars(main_panic)
    /\ WF_vars(Tick)

Spec == Init /\ [][Next]_vars /\ Fairness

-----------------------------------------------------------------------------
(* Properties.                                                             *)

\* The server runs and the monitor task is still checking for idleness.
MonitorAlive == phase = "Running" /\ mon \in {"start", "sleeping", "deciding"}

\* While the server runs and the monitor task is alive, it never stays up
\* longer than IDLE_DURATION + CHECK_INTERVAL after its last connection
\* closed: check_idle must reset last_activity only when it sees a
\* connection, and must test the idle time on every wake-up.
IdleDeadline == MonitorAlive => quiet <= IdleDuration + CheckInterval

\* IdleDeadline made inductive.  A connection open now has just been seen
\* (quiet = 0), and so has one check_idle has just counted; check_idle
\* resets last_activity only after seeing a connection, so the time since a
\* connection was last open never exceeds last_activity.elapsed(); and the
\* monitor, having found elapsed <= IDLE_DURATION at its last wake-up, sleeps
\* at most CHECK_INTERVAL more before it tests again.
OpenIsSeen == Open # {} => quiet = 0

CountedIsSeen == mon = "deciding" /\ sawActive => quiet = 0

QuietBelowElapsed == quiet <= elapsed

ElapsedBounded ==
    MonitorAlive => elapsed + sleepLeft <= IdleDuration + CheckInterval

\* No time passes before serve starts (loading the TLS files is instant on
\* the scale of seconds), so the monitor's clock starts at zero.
StartsAtZero == phase = "Starting" => elapsed = 0 /\ quiet = 0

IdleInv ==
    /\ TypeOK
    /\ OpenIsSeen
    /\ CountedIsSeen
    /\ QuietBelowElapsed
    /\ ElapsedBounded
    /\ StartsAtZero

\* Once the monitor has received Ctrl+C or SIGTERM, the process exits:
\* the graceful drain ends within GRACE_DURATION and run_server returns.
SignalLeadsToExit == received # {} ~> exited

\* The lifecycle as a whole refines LifecyclePhases: the serve future's
\* phase, the first shutdown cause, rotate and exit move only as that
\* specification allows (a request recorded before serving is honoured when
\* serving starts, the first request wins, rotate fires exactly on a clean
\* stop, main exits only once run_server has returned), and a drain, a
\* start and an exit that can happen do happen.
Phases == INSTANCE LifecyclePhases WITH status <- phase, stopCause <- cause

PhasesSpec == Phases!Spec

\* The consistency LifecyclePhases keeps, read on the lifecycle: rotate has
\* fired exactly when main exited after a clean stop, main exits only once
\* run_server returned, a server is stopped only after a request, and only
\* a signal -- never the idle path -- makes it drain.
PhasesConsistent == Phases!Consistent

\* Spec section 8: a shutdown by the idle path closes no connection; it
\* "assumes zero connections, so there is nothing to drain".
IdleShutdownClosesNothing == cause = "idle" => forced = {}

\* Spec section 8: "given any connection open during that window, the idle
\* timer effectively resets and no shutdown occurs".
IdleOnlyAfterQuiet ==
    [][cause = "none" /\ cause' = "idle" => quiet >= IdleDuration]_vars

\* Spec section 4.4: the server drains only on Ctrl+C or SIGTERM.
DrainOnlyOnSignal == cause \in Signals => cause \in received

\* Spec section 4.4, on a #[cfg(unix)] build: the server drains only after
\* Ctrl+C or SIGTERM has actually been received (terminate() waits on the
\* SIGTERM stream there), even though the monitor's first poll, the signal
\* arms and the idle path all race to the handle.
UnixDrainOnlyOnSignal == unix => DrainOnlyOnSignal

\* Spec section 4.4/6: other subsystems are told (rotate) that the drain
\* has begun, so they can flush before the process exits.
RotateOnDrain == phase = "Draining" => rotated

\* Spec section 7: failing to install a signal handler is fatal.
SignalInstallFatal == mon = "dead" ~> exited

=============================================================================
