---------------------------------- MODULE Server ----------------------------------
(***************************************************************************)
(* The process around RequestGate: configuration, listener, signals and    *)
(* shutdown (cmd/api/main.go, internal/config/config.go), and the health   *)
(* routes (internal/httpapi/router.go, health.go), whose readiness checks  *)
(* run at once, each a goroutine, under one deadline.  The two timeouts    *)
(* run on one clock; everything else takes any time.                       *)
(***************************************************************************)
EXTENDS RequestGate

CONSTANTS
    Environments,       \* the variables the process may be started with
    Checks,             \* the readiness checks registered
    NoCheck,
    ReadinessTimeout,   \* in ticks of the clock
    ShutdownTimeout

ASSUME TimeoutAssumption ==
    /\ NoCheck \notin Checks
    /\ ReadinessTimeout \in Nat /\ ShutdownTimeout \in Nat

VARIABLES
    environment,
    main,           \* what run() is at
    server,         \* the goroutine that calls ListenAndServe
    signalled,      \* the signal context is done
    drained,        \* ticks since Shutdown was called
    probe,          \* the readiness handler
    age,            \* ticks since the probe began
    check,          \* the goroutine of each check
    erred,          \* the checks of this probe that have returned an error
    failed,         \* the slice the goroutines append to
    read,           \* the slice as a goroutine has read it
    mu              \* the check that holds the mutex

process == <<environment, main, server, signalled, drained>>
probing == <<probe, age, check, erred, failed, read, mu>>
everything == <<route, gate, process, probing>>

Idle == [c \in Checks |-> "idle"]

ServerTypeOK ==
    /\ GateTypeOK
    /\ environment \in Environments
    /\ main \in {"load", "select", "shutdown", "ok", "error", "killed"}
    /\ server \in {"new", "listening", "failed", "closed"}
    /\ signalled \in BOOLEAN
    /\ drained \in 0..ShutdownTimeout /\ age \in 0..ReadinessTimeout
    /\ probe \in {"idle", "running", "ready", "not ready"}
    /\ check \in [Checks -> {"idle", "running", "lock", "append", "done"}]
    /\ erred \subseteq Checks /\ failed \subseteq Checks
    /\ read \in [Checks -> SUBSET Checks]
    /\ mu \in Checks \cup {NoCheck}

ServerInit ==
    /\ GateInit
    /\ environment \in Environments
    /\ main = "load" /\ server = "new" /\ signalled = FALSE /\ drained = 0
    /\ probe = "idle" /\ age = 0 /\ check = Idle
    /\ erred = {} /\ failed = {} /\ read = [c \in Checks |-> {}] /\ mu = NoCheck

Ended == main \in {"ok", "error", "killed"}

\* A connection that carries a request is not idle.
InFlight == place = "resolved" \/ answer.stage # "none"

-----------------------------------------------------------------------------
(* The life of the process.                                                *)

\* A blank entry is dropped; one that is no address is an error.
ParsesTrustedProxies(entries) == \A e \in entries : e = Blank \/ Parse[e] # NoAddr

Valid(e) ==
    /\ e.port \in 1..65535
    /\ e.env \in {"development", "staging", "production"}
    /\ ParsesTrustedProxies(e.proxies)

Load ==
    /\ main = "load"
    /\ main' = IF Valid(environment) THEN "select" ELSE "error"
    /\ UNCHANGED <<route, gate, probing, environment, server, signalled, drained>>

\* The port may be taken; a server already shut down refuses to listen.
ListenAndServe ==
    /\ main \in {"select", "shutdown"} /\ server = "new"
    /\ server' \in (IF main = "shutdown" THEN {"closed"} ELSE {"listening", "failed"})
    /\ UNCHANGED <<route, gate, probing, environment, main, signalled, drained>>

\* Caught once it is asked for, and until stop() gives it back its default.
Signal ==
    /\ ~Ended
    /\ IF main = "select" THEN signalled' = TRUE /\ UNCHANGED main
       ELSE main' = "killed" /\ UNCHANGED signalled
    /\ UNCHANGED <<route, gate, probing, environment, server, drained>>

SelectError ==
    /\ main = "select" /\ server = "failed"
    /\ main' = "error"
    /\ UNCHANGED <<route, gate, probing, environment, server, signalled, drained>>

\* stop(), and Shutdown closes the listener.
SelectSignal ==
    /\ main = "select" /\ signalled
    /\ main' = "shutdown"
    /\ server' = IF server = "listening" THEN "closed" ELSE server
    /\ UNCHANGED <<route, gate, probing, environment, signalled, drained>>

ShutdownReturns ==
    /\ main = "shutdown" /\ ~InFlight
    /\ main' = "ok"
    /\ UNCHANGED <<route, gate, probing, environment, server, signalled, drained>>

\* Mutant: Shutdown waits under the context of the program.
NoShutdownTimeout == FALSE /\ UNCHANGED everything

\* What is still in flight is cut.
ShutdownTimesOut ==
    /\ main = "shutdown" /\ drained = ShutdownTimeout
    /\ main' = "error"
    /\ UNCHANGED <<route, gate, probing, environment, server, signalled, drained>>

-----------------------------------------------------------------------------
(* The readiness route.                                                    *)

\* Every check gets a goroutine and the same context.
Readyz ==
    /\ place = "resolved" /\ probe = "idle"
    /\ probe' = "running" /\ age' = 0
    /\ check' = [c \in Checks |-> "running"]
    /\ erred' = {} /\ failed' = {}
    /\ UNCHANGED <<route, gate, process, read, mu>>

\* A check that hangs returns the error of its context at the deadline.
CheckReturns(c, err) ==
    /\ check[c] = "running"
    /\ age = ReadinessTimeout => err
    /\ check' = [check EXCEPT ![c] = IF err THEN "lock" ELSE "done"]
    /\ erred' = IF err THEN erred \cup {c} ELSE erred
    /\ UNCHANGED <<route, gate, process, probe, age, failed, read, mu>>

\* Mutant: the slice is shared without the mutex.
ReadUnlocked(c) ==
    /\ check[c] = "lock"
    /\ read' = [read EXCEPT ![c] = failed]
    /\ check' = [check EXCEPT ![c] = "append"]
    /\ UNCHANGED <<route, gate, process, probe, age, erred, failed, mu>>

Lock(c) ==
    /\ check[c] = "lock" /\ mu = NoCheck
    /\ mu' = c
    /\ read' = [read EXCEPT ![c] = failed]
    /\ check' = [check EXCEPT ![c] = "append"]
    /\ UNCHANGED <<route, gate, process, probe, age, erred, failed>>

AppendAndUnlock(c) ==
    /\ check[c] = "append"
    /\ failed' = read[c] \cup {c}
    /\ mu' = NoCheck
    /\ read' = [read EXCEPT ![c] = {}]
    /\ check' = [check EXCEPT ![c] = "done"]
    /\ UNCHANGED <<route, gate, process, probe, age, erred>>

\* wg.Wait(), then the status.
Report ==
    /\ probe = "running" /\ \A c \in Checks : check[c] = "done"
    /\ probe' = IF failed = {} THEN "ready" ELSE "not ready"
    /\ UNCHANGED <<route, gate, process, age, check, erred, failed, read, mu>>

\* The answer has left; so has that of /healthz, which asks nothing.
Sent ==
    /\ probe # "running"
    /\ Forget
    /\ probe' = "idle" /\ check' = Idle /\ erred' = {} /\ failed' = {} /\ age' = 0
    /\ UNCHANGED <<gate, process, read, mu>>

-----------------------------------------------------------------------------

\* A request is taken from the listener, and answered after it is closed; one
\* for the health routes meets no gate.
Serve ==
    /\ ~Ended /\ UNCHANGED process
    /\ \/ /\ probe = "idle" /\ UNCHANGED probing
          /\ GateNext
          /\ place' = "resolved" /\ place # "resolved" => server = "listening"
       \/ Readyz
       \/ \E c \in Checks :
            \/ \E err \in BOOLEAN : CheckReturns(c, err)
            \/ Lock(c) \/ AppendAndUnlock(c)
       \/ Report
       \/ Sent

\* Mutant: the checks run under the request's own context, without a deadline.
TickWithoutReadiness ==
    /\ ~Ended
    /\ main = "shutdown" /\ drained < ShutdownTimeout
    /\ drained' = drained + 1
    /\ UNCHANGED <<route, gate, environment, main, server, signalled, probing>>

\* Routing takes no time, and a deadline that has passed is acted on before the
\* clock goes on: Shutdown returns, and so do the checks, which honour their context.
Tick ==
    /\ ~Ended
    /\ main = "shutdown" \/ probe = "running"
    /\ main = "shutdown" => drained < ShutdownTimeout
    /\ probe = "running" => age < ReadinessTimeout
    /\ place = "resolved" => probe # "idle"
    /\ drained' = IF main = "shutdown" THEN drained + 1 ELSE drained
    /\ age' = IF probe = "running" THEN age + 1 ELSE age
    /\ UNCHANGED <<route, gate, environment, main, server, signalled, probe, check,
                   erred, failed, read, mu>>

ServerNext ==
    \/ Load \/ ListenAndServe \/ Signal \/ SelectError \/ SelectSignal
    \/ ShutdownReturns \/ ShutdownTimesOut
    \/ Serve
    \/ Tick

ServerSpec == ServerInit /\ [][ServerNext]_everything

\* main's goroutines and the checks' run on, a request is routed, the clock goes
\* on, and a check whose context is done returns: the handler waits for each.
ServerFairness ==
    /\ WF_everything(Load) /\ WF_everything(SelectError) /\ WF_everything(SelectSignal)
    /\ WF_everything(ShutdownTimesOut) /\ WF_everything(Tick)
    /\ \A c \in Checks :
         WF_everything(\/ age = ReadinessTimeout /\ CheckReturns(c, TRUE)
                       \/ Lock(c) \/ AppendAndUnlock(c))
    /\ WF_everything(Report) /\ WF_everything(Sent)

FairServerSpec == ServerSpec /\ ServerFairness

-----------------------------------------------------------------------------
(* Properties.                                                             *)

\* However the checks' goroutines interleave, the report names exactly the
\* checks that failed, and none that failed is lost (health.go 41-64).
ReportIsComplete == probe \in {"ready", "not ready"} =>
    failed = erred /\ (probe = "ready" <=> erred = {})

\* A probe whose dependency hangs when the signal comes does not turn an orderly
\* shutdown into a failed one: its deadline is the shorter (router.go 15-18,
\* main.go 19-23).
ProbesNeverSpoilShutdown == main = "error" => probe # "running"

\* A dependency that hangs does not hang the probe (health.go 30-35).
ProbeAnswered == probe = "running" ~> probe # "running" \/ Ended

\* A signal ends the process, whatever hangs in it (main.go 68-77).
SignalEndsProcess == signalled ~> Ended
=============================================================================
