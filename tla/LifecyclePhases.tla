-------------------------- MODULE LifecyclePhases --------------------------
(***************************************************************************)
(* What the transport & lifecycle controller promises, with connections,   *)
(* the monitor's loop and time left out: run_server starts, serves until   *)
(* the first shutdown request, drains a graceful one, and main exits --    *)
(* telling the rest of the process (rotate) after a clean stop, and        *)
(* without doing so after run_server failed.  Only the first request       *)
(* counts; a request made before serving starts is kept until it does.     *)
(* ServerLifecycle implements this specification under the mapping given   *)
(* there (Phases).                                                         *)
(***************************************************************************)

VARIABLES
    status,     \* "Starting", "Running", "Draining", "Stopped" or "Failed"
    stopCause,  \* "none", or who asked first: "idle", "SIGINT", "SIGTERM"
    exited,     \* the process has exited
    rotated     \* rotate.fire() has run

vars == <<status, stopCause, exited, rotated>>

\* The idle monitor asks for an immediate stop, a signal for a drain.
Requests == {"idle", "SIGINT", "SIGTERM"}

Statuses == {"Starting", "Running", "Draining", "Stopped", "Failed"}

TypeOK ==
    /\ status \in Statuses
    /\ stopCause \in {"none"} \cup Requests
    /\ exited \in BOOLEAN
    /\ rotated \in BOOLEAN

Init ==
    /\ status = "Starting"
    /\ stopCause = "none"
    /\ exited = FALSE
    /\ rotated = FALSE

\* The first shutdown request: before serving it is only recorded; while
\* serving, the idle path stops at once and a signal starts the drain.
Request(r) ==
    /\ stopCause = "none"
    /\ stopCause' = r
    /\ \/ status = "Starting" /\ UNCHANGED status
       \/ status = "Running" /\ status' = IF r = "idle" THEN "Stopped"
                                                       ELSE "Draining"
    /\ UNCHANGED <<exited, rotated>>

\* Serving starts and honours a request already recorded.
Listen ==
    /\ status = "Starting"
    /\ status' = CASE stopCause = "none" -> "Running"
                   [] stopCause = "idle" -> "Stopped"
                   [] OTHER              -> "Draining"
    /\ UNCHANGED <<stopCause, exited, rotated>>

\* run_server fails before serving (TLS material or bind); once serving,
\* nothing makes it fail.
Fail ==
    /\ status = "Starting"
    /\ status' = "Failed"
    /\ UNCHANGED <<stopCause, exited, rotated>>

\* The drain is over.
Drained ==
    /\ status = "Draining"
    /\ status' = "Stopped"
    /\ UNCHANGED <<stopCause, exited, rotated>>

\* main exits; after a clean stop the other subsystems were told first.
Exit ==
    /\ ~exited
    /\ exited' = TRUE
    /\ \/ status = "Stopped" /\ rotated' = TRUE
       \/ status = "Failed" /\ UNCHANGED rotated
    /\ UNCHANGED <<status, stopCause>>

Next ==
    \/ \E r \in Requests : Request(r)
    \/ Listen
    \/ Fail
    \/ Drained
    \/ Exit

\* Starting, draining and exiting are up to the process alone; requests
\* and failures come from outside.
Fairness == WF_vars(Listen) /\ WF_vars(Drained) /\ WF_vars(Exit)

SafetySpec == Init /\ [][Next]_vars

Spec == SafetySpec /\ Fairness

\* What a reader of the controller can rely on at any moment: rotate has
\* fired exactly when the process exited after a clean stop; the process
\* exits only once serving is over; serving goes on only while nobody
\* asked to stop; a drain is always a signal's; and a stop always has a
\* recorded cause.
Consistent ==
    /\ TypeOK
    /\ rotated <=> exited /\ status = "Stopped"
    /\ exited => status \in {"Stopped", "Failed"}
    /\ status = "Running" => stopCause = "none"
    /\ status = "Draining" => stopCause \in Requests \ {"idle"}
    /\ status = "Stopped" => stopCause # "none"

=============================================================================
