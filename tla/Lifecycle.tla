----------------------------- MODULE Lifecycle -----------------------------
(***************************************************************************)
(* cmd/app/main.go with what it starts: the attempts of db.New to reach    *)
(* PostgreSQL, the goroutine of the HTTP server, the goroutine of the slot *)
(* worker, and the way out after a signal.  Time is counted in seconds; it *)
(* is kept where one timeout of the configuration is set against another.  *)
(***************************************************************************)
EXTENDS Naturals

CONSTANTS
    Requests,         \* the HTTP requests that ever arrive
    Worker,           \* the slot worker
    Attempts,         \* 10: how often db.New tries
    Pause,            \* 2: how long it sleeps after each failure
    ConnectTimeout,   \* DB_CONNECT_TIMEOUT
    RequestTimeout,   \* HTTP_WRITE_TIMEOUT, beyond the router's own timeout
    ShutdownTimeout   \* HTTP_SHUTDOWN_TIMEOUT

ASSUME ConstantsAssumption ==
    /\ Worker \notin Requests
    /\ {Attempts, Pause, ConnectTimeout, RequestTimeout} \subseteq Nat \ {0}
    /\ ShutdownTimeout \in Nat
    /\ RequestTimeout < ShutdownTimeout

VARIABLES
    main,       \* where the goroutine of main is
    status,     \* how the process ended
    failures,   \* the attempts that failed
    elapsed,    \* how long they took
    pools,      \* the pools that were opened and not closed
    signalled,  \* whether SIGINT or SIGTERM arrived: ctx is done
    server,     \* the goroutine of the server
    req,        \* each request
    age,        \* how long it has been running
    worker,     \* the goroutine of the worker
    busy,       \* who holds a connection: a statement of it is in flight
    draining    \* how long Shutdown has waited

startup == <<failures, elapsed, pools>>
serving == <<req, age, busy>>
vars == <<main, status, failures, elapsed, pools, signalled, server, req, age,
          worker, busy, draining>>

TypeOK ==
    /\ main \in {"connecting", "serving", "draining", "closing", "exited"}
    /\ status \in {"running", "ok", "error"}
    /\ failures \in 0 .. Attempts /\ elapsed \in Nat /\ pools \in Nat
    /\ signalled \in BOOLEAN
    /\ server \in {"starting", "listening", "closed"}
    /\ req \in [Requests -> {"none", "running", "answered", "cut"}]
    /\ age \in [Requests -> 0 .. RequestTimeout]
    /\ worker \in {"none", "generating", "waiting", "returned"}
    /\ busy \subseteq Requests \cup {Worker}
    /\ draining \in Nat

Init ==
    /\ main = "connecting" /\ status = "running"
    /\ failures = 0 /\ elapsed = 0 /\ pools = 0
    /\ signalled = FALSE
    /\ server = "starting"
    /\ req = [r \in Requests |-> "none"]
    /\ age = [r \in Requests |-> 0]
    /\ worker = "none"
    /\ busy = {}
    /\ draining = 0

Running == {r \in Requests : req[r] = "running"}

(* The process ends, and with it whatever was running.                     *)
Exit(how) ==
    /\ main' = "exited" /\ status' = how
    /\ req' = [r \in Requests |-> IF r \in Running THEN "cut" ELSE req[r]]
    /\ busy' = {}
    /\ UNCHANGED <<signalled, server, age, worker, draining>>

-----------------------------------------------------------------------------
(* db.New: every attempt makes a pool, and only Ping looks at the context, *)
(* whose deadline is ConnectTimeout and which the signal cancels too.      *)

PingSucceedsLate ==                                              \* defect
    /\ main = "connecting"
    /\ pools' = pools + 1
    /\ main' = "serving"
    /\ worker' = "generating"
    /\ UNCHANGED <<status, failures, elapsed, signalled, server, serving, draining>>

PingSucceeds ==
    /\ main = "connecting"
    /\ ~signalled /\ elapsed < ConnectTimeout
    /\ pools' = pools + 1
    /\ main' = "serving"
    /\ worker' = "generating"
    /\ UNCHANGED <<status, failures, elapsed, signalled, server, serving, draining>>

PingFailsForEver ==                                              \* defect
    /\ main = "connecting"
    /\ failures' = (failures + 1) % Attempts
    /\ UNCHANGED <<main, status, elapsed, pools, signalled, server, serving,
                   worker, draining>>

PingFailsOnceMore ==                                             \* defect
    /\ main = "connecting"
    /\ pools' = pools + 1
    /\ failures' = failures + 1
    /\ elapsed' = elapsed + Pause
    /\ IF failures = Attempts THEN Exit("error")
       ELSE UNCHANGED <<main, status, signalled, server, serving, worker, draining>>

(* Its pool is dropped without Close.  The sleep looks at no context.      *)
PingFails ==
    /\ main = "connecting"
    /\ pools' = pools + 1
    /\ failures' = failures + 1
    /\ \E took \in 0 .. ConnectTimeout :
          /\ took > 0 => elapsed + took <= ConnectTimeout
          /\ elapsed' = elapsed + took + Pause
    /\ IF failures' = Attempts THEN Exit("error")
       ELSE UNCHANGED <<main, status, signalled, server, serving, worker, draining>>

-----------------------------------------------------------------------------
(* The server's goroutine and its requests.                                *)

Listen ==
    /\ main = "serving" /\ server = "starting"
    /\ server' = "listening"
    /\ UNCHANGED <<main, status, startup, signalled, serving, worker, draining>>

(* ListenAndServe returns anything but ErrServerClosed.                    *)
ServerFails ==
    /\ main = "serving" /\ server # "closed"
    /\ Exit("error")
    /\ UNCHANGED startup

Accept(r) ==
    /\ server = "listening" /\ main # "exited"
    /\ req[r] = "none"
    /\ req' = [req EXCEPT ![r] = "running"]
    /\ UNCHANGED <<main, status, startup, signalled, server, age, worker, busy, draining>>

(* A statement of a request.  The pool refuses once Close was called.      *)
Query(r) ==
    /\ r \in Running \ busy
    /\ main \in {"serving", "draining"}
    /\ busy' = busy \cup {r}
    /\ UNCHANGED <<main, status, startup, signalled, server, req, age, worker, draining>>

QueryReturns(r) ==
    /\ r \in Running \cap busy
    /\ busy' = busy \ {r}
    /\ UNCHANGED <<main, status, startup, signalled, server, req, age, worker, draining>>

Respond(r) ==
    /\ r \in Running \ busy
    /\ req' = [req EXCEPT ![r] = "answered"]
    /\ age' = [age EXCEPT ![r] = 0]
    /\ UNCHANGED <<main, status, startup, signalled, server, worker, busy, draining>>

(* The timeouts of router, statements and server end every request in      *)
(* time; Shutdown watches its own.                                         *)
TickWithoutTimeouts ==                                           \* defect
    /\ Running # {} /\ draining < ShutdownTimeout
    /\ age' = [r \in Requests |->
                  IF r \in Running /\ age[r] < RequestTimeout THEN age[r] + 1 ELSE age[r]]
    /\ draining' = IF main = "draining" THEN draining + 1 ELSE draining
    /\ UNCHANGED <<main, status, startup, signalled, server, req, worker, busy>>

Tick ==
    /\ Running # {} /\ \A r \in Running : age[r] < RequestTimeout
    /\ draining < ShutdownTimeout
    /\ age' = [r \in Requests |-> IF r \in Running THEN age[r] + 1 ELSE age[r]]
    /\ draining' = IF main = "draining" THEN draining + 1 ELSE draining
    /\ UNCHANGED <<main, status, startup, signalled, server, req, worker, busy>>

-----------------------------------------------------------------------------
(* The worker's goroutine: a round, then select between ctx.Done and the   *)
(* ticker, which takes either when both are ready.                         *)

(* A statement fails at once when the context is done or the pool closed.  *)
WorkerQueries ==
    /\ worker = "generating" /\ Worker \notin busy
    /\ main = "serving" /\ ~signalled
    /\ busy' = busy \cup {Worker}
    /\ UNCHANGED <<main, status, startup, signalled, server, req, age, worker, draining>>

WorkerQueryReturns ==
    /\ Worker \in busy
    /\ busy' = busy \ {Worker}
    /\ UNCHANGED <<main, status, startup, signalled, server, req, age, worker, draining>>

WorkerRoundEnds ==
    /\ worker = "generating" /\ Worker \notin busy /\ main # "exited"
    /\ worker' = "waiting"
    /\ UNCHANGED <<main, status, startup, signalled, server, serving, draining>>

WorkerTicks ==
    /\ worker = "waiting" /\ main # "exited"
    /\ worker' = "generating"
    /\ UNCHANGED <<main, status, startup, signalled, server, serving, draining>>

WorkerReturns ==
    /\ worker = "waiting" /\ signalled /\ main # "exited"
    /\ worker' = "returned"
    /\ UNCHANGED <<main, status, startup, signalled, server, serving, draining>>

-----------------------------------------------------------------------------
(* The way out.                                                            *)

Signal ==
    /\ ~signalled /\ main # "exited"
    /\ signalled' = TRUE
    /\ UNCHANGED <<main, status, startup, server, serving, worker, draining>>

BeginShutdown ==
    /\ main = "serving" /\ signalled
    /\ main' = "draining"
    /\ server' = "closed"
    /\ UNCHANGED <<status, startup, signalled, serving, worker, draining>>

(* srv.Shutdown returns: no request is left, or the time is up.  Then the  *)
(* deferred pg.Close refuses further statements.                           *)
ShutdownReturns ==
    /\ main = "draining"
    /\ Running = {} \/ draining = ShutdownTimeout
    /\ main' = "closing"
    /\ UNCHANGED <<status, startup, signalled, server, serving, worker, draining>>

(* It returns when every connection was given back; main returns.          *)
CloseReturns ==
    /\ main = "closing" /\ busy = {}
    /\ pools' = pools - 1
    /\ Exit("ok")
    /\ UNCHANGED <<failures, elapsed>>

Stopped == main = "exited" /\ UNCHANGED vars

-----------------------------------------------------------------------------
Main == PingSucceeds \/ PingFails \/ BeginShutdown \/ ShutdownReturns \/ CloseReturns

Next ==
    \/ Main
    \/ Listen \/ ServerFails
    \/ \E r \in Requests : Accept(r) \/ Query(r) \/ QueryReturns(r) \/ Respond(r)
    \/ Tick
    \/ WorkerQueries \/ WorkerQueryReturns \/ WorkerRoundEnds \/ WorkerTicks \/ WorkerReturns
    \/ Signal
    \/ Stopped

Spec == Init /\ [][Next]_vars

(* Goroutines run, and no handler makes statements for ever.               *)
Fairness ==
    /\ WF_vars(Main)
    /\ \A r \in Requests : WF_vars(QueryReturns(r)) /\ SF_vars(Respond(r))
    /\ WF_vars(WorkerQueryReturns)

FairSpec == Spec /\ Fairness

-----------------------------------------------------------------------------
(* Properties.                                                             *)

(* Every failed attempt leaves a pool open beside the one that is used,    *)
(* and each may connect later.  The deadline of the attempts, set against  *)
(* the sleep after each, bounds how many of them a running service drags   *)
(* along: 4 and not 9 with the configured values.  The attempts themselves *)
(* outlive the deadline by one sleep each at most.                         *)
LeakIsBounded ==
    /\ main # "connecting" /\ status # "error" =>
          pools * Pause < ConnectTimeout + Pause
    /\ elapsed <= ConnectTimeout + Attempts * Pause

(* An exit after a signal has answered every request that was accepted:    *)
(* HTTP_SHUTDOWN_TIMEOUT never runs out, as the other timeouts end each    *)
(* request before, and the pool is closed behind the last of them.         *)
ShutdownIsGraceful ==
    /\ status = "ok" => \A r \in Requests : req[r] \in {"none", "answered"}
    /\ main = "closing" => Running = {}

(* SIGTERM ends the process from wherever it is: in the attempts, with     *)
(* requests and a round in flight, and in spite of a worker that may start *)
(* another round when its ticker and the signal come together.             *)
SignalEndsProcess == signalled ~> main = "exited"
=============================================================================
