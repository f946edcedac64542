# TLA+ models of the matrix-server transport layer

This directory holds TLA+ models of `src/src/main.rs` and `src/src/utils/shutdown_monitor.rs`. It also holds the TLC configurations that check the models on small instances and TLAPS proofs of their main invariants for all values of the constants. `PROJECT.json` lists the following:

- every component, with the modules that model it;
- every run;
- the mutant that each checked property must catch;
- the source lines each definition translates (`map`);
- the findings;
- the hazards of the code;
- the proved theorems.

## The system

`main` loads the configuration and the database, then awaits `run_server`. `run_server` does the following:

1. It builds the router with `routes()`.
2. It wraps every route in a middleware stack:
   - header redaction;
   - trace span;
   - compression;
   - `unrecognized_method`;
   - CORS;
   - body limit.
3. It creates an `axum_server::Handle` and spawns `shutdown_monitor::monitor` with a clone of that handle.
4. It serves plain or TLS.
5. When `serve` returns, it fires `rotate` and returns.

The monitor task races three futures in a `select!`:

- **Ctrl+C.** A graceful shutdown with a 3 s grace.
- **SIGTERM.** The same graceful shutdown. On non-unix builds this arm is a future meant never to complete.
- **`check_idle`.** A loop. Every 30 s it reads the handle's connection count. When the count is positive it resets `last_activity`. When the server has been idle for more than 300 s it calls `handle.shutdown()`.

The handle is the one piece of state the monitor and the server share.

The two parts interact only through that handle. For that reason they are modelled separately:

| Part | Module | Source |
|---|---|---|
| Transport & lifecycle: monitor, handle, TLS load and bind, serve, `run_server`'s exit and error paths | `ServerLifecycle` | shutdown_monitor.rs 6–60, main.rs 160–166, 228–268 |
| What the lifecycle promises (abstract) | `LifecyclePhases` | the same code, seen through its phases |
| Route table builder and handler adapter | `RouteTable` | main.rs 295–465, 479–556 |
| Middleware layers that decide a response | `RouteTable` | main.rs 176–228, 271–293, 467–477 |
| Startup (config, tracing, database) | not modelled | main.rs 57–158 |
| Endpoint business handlers | not modelled | conduit::api, outside src/ |

### ServerLifecycle

**State.**

- `conn`: each connection slot is closed, idle or busy. `Open` is what `connection_count()` returns.
- `phase`: `Starting` (the monitor is spawned, TLS is loading, the listener is not bound yet), then the serve future, `Running`, `Draining` or `Stopped`; `Failed` once `run_server` returned `Err`.
- `graceLeft`: the remaining grace period.
- `mon`: the monitor's program counter. It is `start` before the first poll, `sleeping`, `deciding` (between reading the count and acting on it), `done` (a signal arm completed) or `dead` (a signal-handler install panicked).
- `sleepLeft`: the remaining `sleep(CHECK_INTERVAL)`.
- `elapsed`: `last_activity.elapsed()`.
- `rotated`: `rotate.fire()` has run.
- `exited`: `main` has returned.
- History variables, read only by properties:
  - `quiet`: seconds since a connection was last open.
  - `cause`: what stopped the server.
  - `received`: the signals delivered.
  - `forced`: the states of the connections the handle force-closed.
- `unix`: the build, fixed at start, so one run covers both the `#[cfg(unix)]` build and the other build.

**Actions.**

- **Monitor.**
  - `monitor_start`: the first poll of `select!`. On a non-unix build `terminate()` completes at once. The action also covers an install panic.
  - `Signal(sig)`: the `ctrl_c` or `terminate` arm followed by `grace_shutdown`.
  - `check_idle_count`: line 48.
  - `check_idle_decide`: lines 49–60, including the next sleep.
- **Handle** (`GracefulShutdown`, `HandleShutdown`). Modelled from axum_server's documentation, because that crate is not under src/. `shutdown()` during a graceful drain cuts it short (every connection's watcher drops its connection). No run reaches that case, because the `select!` drops `check_idle` once a signal arm completes.
- **Connections.** `Accept`, `StartRequest`, `FinishRequest`, `ClientClose`, `DrainClose`, `GraceExpire`, `ServeReturn`. These are hyper's and axum_server's behaviour, also modelled from their documentation.
- **Before serving.**
  - `serve`: main.rs 240–256, binding and the systemd Ready notification. A shutdown the handle already holds takes effect at once: axum_server's handle notifications are sticky, so an idle `shutdown()` stops serve at once and a `graceful_shutdown` breaks the accept loop before it accepts anything.
  - `startup_fail`: main.rs 236–240. `from_pem_file(..).await?` or the bind fails while the monitor already runs.
- **Errors while serving** are not transitions. axum_server serves from hyper's `AddrIncoming`, which by default logs an accept error such as EMFILE, sleeps 1 s and retries, and skips per-connection errors. `server.await?` (main.rs 257) therefore sees only the bind error, which `startup_fail` covers.
- **`run_server_return`**: main.rs 259–268, which is `rotate.fire()` and the Stopping notification after `serve` returns `Ok`.
- **`main_panic`**: main.rs 160. `run_server().await.unwrap()` panics on `Err`. The runtime is dropped with every task and connection, and `rotate` never fires.
- **Time.** One `Tick` is one second. Clocks saturate at `IDLE_DURATION + CHECK_INTERVAL + 1`, beyond which no guard distinguishes values. No time passes while a task is ready (`Urgent`), so timers fire promptly. Startup is urgent too: loading two PEM files and binding take no measurable time on the scale of seconds.
- **The idle boundary.** When `elapsed = IDLE_DURATION` the comparison `idle_time > IDLE_DURATION` may go either way. The measured duration includes the sleep's lateness.

**Fairness.** There is weak fairness on the monitor's steps, the handle's drain steps, `serve` starting and returning, `run_server` returning, main's panic and `Tick`. The tokio runtime runs every ready task and the clock advances. There is no fairness on clients (accept, requests, closes), on signals or on I/O errors: nobody is obliged to connect, to send a signal, or to make the TLS load or an accept fail.

### LifecyclePhases

The abstract specification of the controller. Its state is the phase (`status`), the first shutdown request (`stopCause`), `exited` and `rotated`. Its steps:

- `Request(r)`: the first request. Before serving it is only recorded; while serving, `idle` stops at once and a signal starts the drain.
- `Listen`: serving starts and honours a recorded request.
- `Fail`: run_server fails before serving. Nothing fails it once it serves.
- `Drained`: the drain ends.
- `Exit`: main exits, with `rotate` after a clean stop and without it after a failure.

It has weak fairness on `Listen`, `Drained` and `Exit`. `ServerLifecycle` instantiates it as `Phases` with `status <- phase` and `stopCause <- cause`. Connections, the monitor's loop and time are hidden.

### RouteTable

**State.**

- `table[p][m]`: the handler routed for method `m` on path `p`.
- `next`: the next call of `routes()`.
- `state`: building, serving, or panicked, meaning startup aborted.
- `last`: the last request served and its response.
- `Registrations`: the list of calls `routes()` makes in this build, chosen at start from `RouteLists`.

**Actions.**

- `routes_step` runs one call:
  - `.ruma_route(h)` goes through `add_to_router`. That calls `method_to_filter`, which panics on other verbs, then `Router::route` once per alias.
  - `.route(p, get(..).put(..))` goes through `route`.
- `Router::route` merges method routers on a known path and panics on an overlapping verb. This is axum 0.6 behaviour, modelled from its documentation.
- `routes_fallback` installs `not_found` and starts serving.
- `ServeRequest` passes a request through the layers that decide the status, from the outside in:
  - `unrecognized_method` rewrites a 405 into the M_UNRECOGNIZED envelope, keeping status 405.
  - CORS answers a preflight itself.
  - axum's method router picks a handler. HEAD falls back to GET, a missing verb gives 405, and an unknown path goes to the fallback.
  - The Ruma extractor rejects a body over `max_request_size`.
  - The handler runs. `initial_sync` answers GuestAccessForbidden. A business handler returns Ok, or an Error that is passed through.
- Header redaction, trace span naming and compression change only logs and encoding, so they are left out.

## Runs

The passing runs:

| Run | Checks | Shows |
|---|---|---|
| `lifecycle` (`MCServerLifecycle.cfg`) | `TypeOK`, `IdleDeadline`, `IdleInv`, `UnixDrainOnlyOnSignal`, `PhasesConsistent`, `SignalLeadsToExit`, `PhasesSpec` | While the server runs with its monitor alive, no connection-free stretch exceeds `IDLE_DURATION + CHECK_INTERVAL`. On unix builds only a received signal drains the server. Rotate fires exactly when `main` exits after a clean stop. Every received signal ends with `main` returning, also one received while TLS loads. The whole lifecycle, startup failures included, implements `LifecyclePhases` with its fairness (`PhasesSpec`). So the first shutdown request wins over later ones from the other `select!` arm, and a stopped server stays stopped. |
| `route_table` (`MCRouteTable.cfg`) | `TypeOK`, `AliasesAgree`, `UnservedIsUnrecognized`, `BodyLimitExact` | An alias is never taken over; a conflicting registration panics at startup. Any request no route serves gets M_UNRECOGNIZED with a 4xx status, never a bare 405. The body limit is exact: no Ruma handler runs on a body over `max_request_size`, and a body of exactly `max_request_size` bytes reaches its handler. |

The violation runs each check one property taken from the spec. TLC finds a counterexample in every one, and the `findings` in PROJECT.json describe them:

| Run | Property | What the code does |
|---|---|---|
| `idle_race` | `IdleShutdownClosesNothing` | A connection accepted between `connection_count()` (line 48) and `shutdown()` (line 57) is dropped. The accept loop runs on another runtime thread. |
| `idle_sampling` | `IdleOnlyAfterQuiet` | A connection that opens and closes between two samples does not reset the idle timer. The server stops sooner than 300 s after the activity, which contradicts spec §8. The run's `ACTION_CONSTRAINT NoAcceptWhileDeciding` excludes accepts between the count and the decision, so the trace shows the gap between samples and not the `idle_race` race. |
| `nonunix_terminate` | `DrainOnlyOnSignal` | On non-unix builds, `std::future::pending::<()>();` is built but never awaited (line 34). `terminate()` therefore returns at once and the server drains at startup. |
| `rotate_on_drain` | `RotateOnDrain` | `rotate.fire()` (main.rs 263) runs after the drain, not when it starts, which contradicts spec §4.4 and §6. |
| `install_failure` | `SignalInstallFatal` | An `expect` panic installing a handler ends only the spawned monitor task. The server serves on with no signal or idle handling, which contradicts spec §7. |

**Bounds.**

- **Lifecycle.** The bounds are:
  - 2 connection slots;
  - `CHECK_INTERVAL = 2`;
  - `IDLE_DURATION = 4`, a multiple of the interval as in the code (300 = 10 × 30), so the boundary `idle_time = IDLE_DURATION` is reached;
  - `GRACE_DURATION = 1`, shorter than one interval as in the code.

  Two slots are enough for one connection to open while another closes, and for an accept to race the idle decision.
- **Route table.**
  - The registration list follows the order of `routes()`:
    - an endpoint with one alias;
    - GET and POST endpoints on the same two aliases (`get_login_types`, `login`), which exercises the merge;
    - the four hand-written state-event routes;
    - the two server-key routes;
    - a later endpoint;
    - the two initialSync routes.
  - A second list adds a hand-written route that collides with an alias, which exercises the startup panic.
  - One path has no route.
  - Requests use five methods, body sizes 0 to `max_request_size + 1` with `max_request_size = 1`, and both preflight and ordinary requests.

Each property of a passing run has a mutant in PROJECT.json: a plausible bug in a mapped definition that TLC catches.

## Proofs

There are three proof modules.

**`ServerLifecycleProofs`** assumes only `ConstantsAssumption`: `CHECK_INTERVAL` is a positive natural number, and the idle and grace durations are natural numbers.

- `TypeCorrect`: `Spec => []TypeOK`.
- `IdleInvHolds`: `Spec => []IdleInv`.
- `IdleDeadlineHolds`: `Spec => []IdleDeadline`.
- `Refinement`: `Spec => Phases!SafetySpec`, the safety part of `LifecyclePhases` under the mapping.
- `PhasesConsistentHolds`: `Spec => []PhasesConsistent`, the abstract consistency conditions of the implementation.
- `UnixDrainHolds`: `Spec => []UnixDrainOnlyOnSignal`. On unix builds a drain always has a received signal as its cause.

`IdleDeadline` is not inductive by itself. The proof uses `IdleInv`, which is `TypeOK` together with four facts:

- an open connection keeps `quiet` at 0;
- a positive count read by the monitor implies `quiet = 0`;
- `quiet <= elapsed`;
- while the monitor is alive, `elapsed + sleepLeft <= IDLE_DURATION + CHECK_INTERVAL`;
- before serving, no time has passed (`StartsAtZero`), so serving starts inside the bound.

The last fact is the core of the argument. The monitor always wakes within `CHECK_INTERVAL` and shuts down once `elapsed >= IDLE_DURATION`, so a Tick that grows `elapsed` shrinks `sleepLeft` by the same amount. The `lifecycle` run checks `IdleInv` on the reachable states; its inductiveness is what `IdleInvStep` proves.

`Refinement` follows the usual layout. The initial state maps to the abstract initial state. Every step maps to a step or a stutter, under `RefInv`: `TypeOK` and `RunningUnrequested` (while running, no shutdown cause is recorded, because serve starts running only without one). That conjunct is what makes a shutdown call while running the *first* request of the abstract spec. The lemmas `GracefulRefines` and `ShutdownRefines` map the handle's two calls, which the monitor's actions share. A `shutdown()` that cuts a drain short maps to the abstract `Drained`.

`UnixDrainOnlyOnSignal` is strengthened to `SignalCauseReceived`: on unix, a signal recorded as the cause is in `received`. This holds because on unix `monitor_start` waits for a real signal, and `Signal` adds to `received` before the handle records it. The non-unix build, where terminate returns at once, is what the strengthening excludes.

`PhasesConsistentHolds` transfers an abstract theorem to the implementation. The proof has three steps:

1. **`LifecyclePhasesProofs`** proves `ConsistentHolds`: `SafetySpec => []Consistent`. `Consistent` is inductive as stated, and `ConsistentStep` has one case per abstract action.
2. The module is instantiated as `PP` with the refinement mapping. Its statement is shown equivalent to the one written with `Phases!` by expanding both instances.
3. `Refinement` completes the argument: `Spec => Phases!SafetySpec => []Phases!Consistent`.

**`RouteTableProofs`** assumes `RouteTableAssumption`: every candidate list is a sequence of well-formed registrations, and `NoHandler` is not a handler.

- `TypeCorrect`: `Spec => []TypeOK`.
- `AliasesHold`: `Spec => []AliasesAgree`.
- `UnservedHolds`: `Spec => []UnservedIsUnrecognized`.
- `BodyLimitHolds`: `Spec => []BodyLimitExact`.

`AliasesAgree` is inductive together with `TypeOK`. Suppose a step writes `(p, m)` while an earlier endpoint's alias holds `(p, m)`. That entry is non-empty, so `Router::route` sees an overlap and panics instead of writing. Lemmas cover the registration shapes, the handler lookup and the response type.

Both response theorems use `RInv`, which adds `ServedWhenServing`: nothing is served before the fallback is installed. The last response was therefore computed from the table as it is now. `ServeUnrecognized`, `ServeWithinLimit` and `ServeReachesHandler` are lemmas about what the middleware stack returns for any request. The last one is the boundary: with `q.size <= MaxRequestSize` the extractor lets the body through, and neither CORS nor `unrecognized_method` replaces the handler's response.

Two kinds of property stay with TLC:

- **Liveness:** `SignalLeadsToExit` and the fairness part of `PhasesSpec`. The proof system does not handle fairness or `ENABLED`.
- **Violation-run properties:** these are false of the code by design, so there is nothing to prove.

Every safety invariant of a passing run has a theorem.

## Not modelled

- **`main` before `run_server`.** Configuration loading, tracing and telemetry setup, and database loading. These are sequential calls to external collaborators that exit on error. Nothing runs concurrently with them.

  Line 136 of main.rs holds `/ Use a default "warn" log level filter`, a comment missing one slash. That line does not compile.
- **The systemd notifications.** They are folded into `serve` (Ready) and `run_server_return` (Stopping), since they change nothing the model tells apart.
- **A second shutdown request before serving.** With `IDLE_DURATION = 0` an idle shutdown and a signal could both reach the handle before serve starts. The model keeps the first of them; axum_server would let `shutdown()` win. This has no effect beyond a momentary `Draining`.
- **The per-arity extraction of `RumaHandler` (T1..T8).** Extraction is abstracted to the body limit, the one extraction failure this code configures.
- **axum's path matching.** Paths are model values: conflicting path templates (matchit) and trailing-slash handling are not modelled.
- **The business handlers.** They are opaque functions returning Ok or an Error.

## Plan

1. **A larger lifecycle instance.** Three connection slots and `IDLE_DURATION = 6`, to see two accepts race one idle decision.
