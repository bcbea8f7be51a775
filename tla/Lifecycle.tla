------------------------------- MODULE Lifecycle -------------------------------
(***************************************************************************)
(* The life of the webhook's process: run (cmd/webhook/main.go) opens two  *)
(* listeners (internal/server), waits for a signal or for the end of a     *)
(* listener, and shuts both down, while clients have requests in flight.   *)
(* What net/http does for Serve and Shutdown is modelled from its use in   *)
(* server.go: Shutdown closes the listeners that Serve has taken up, waits *)
(* for those Serve calls to return, and then for the requests.             *)
(* Module Config holds the arguments and what is made of them.             *)
(***************************************************************************)
EXTENDS Config

CONSTANTS
    Lines,          \* the command lines the process may be started with
    MaxRequests     \* bound: requests in flight at one listener

ASSUME LinesAssumption == Lines \subseteq Seq(Argument)

ASSUME MaxRequestsAssumption == MaxRequests \in Nat

Server == {"provider", "exposed"}

\* Mutant: room for one report.
CapacityOne == 1

Capacity == 2           \* of the channel errs

VARIABLES
    pc,         \* of run
    listener,   \* "none", "open" or "closed"
    serve,      \* the goroutine Server.serve of each listener
    report,     \* what the listener's Serve returned, once it has
    errs,       \* the channel
    requests,   \* in flight
    down,       \* http.Server.Shutdown was called
    turn,       \* the server that is being shut down
    signalled,  \* the context of run is done
    grace,      \* the context of Shutdown: "none", "running" or "expired"
    failed,     \* run has an error to return
    exit,       \* the exit code, -1 before the end
    telemetry   \* "none" before New; "local"; "otlp" if it is exported too

servers == <<listener, serve, report, requests, down>>
stops   == <<turn, signalled, grace, failed, exit>>
started == <<config, telemetry>>
vars    == <<pc, errs, servers, stops, started>>

TypeOK ==
    /\ ConfigType
    /\ pc \in {"init", "build", "telemetry", "client", "listen", "listen2",
               "refused", "select", "close", "drain", "flush", "ended"}
    /\ telemetry \in {"none", "local", "otlp"}
    /\ listener \in [Server -> {"none", "open", "closed"}]
    /\ serve \in [Server -> {"none", "starting", "serving", "sending", "done"}]
    /\ report \in [Server -> {"closed", "failure"}]
    /\ errs \in Seq({"nil", "failure"})
    /\ requests \in [Server -> 0 .. MaxRequests]
    /\ down \in [Server -> BOOLEAN]
    /\ turn \in Server
    /\ signalled \in BOOLEAN
    /\ grace \in {"none", "running", "expired"}
    /\ failed \in BOOLEAN
    /\ exit \in {-1, 0, 1}

Init ==
    /\ ConfigInit(Lines)
    /\ pc = "init"
    /\ telemetry = "none"
    /\ listener = [s \in Server |-> "none"]
    /\ serve = [s \in Server |-> "none"]
    /\ report = [s \in Server |-> "closed"]
    /\ errs = <<>>
    /\ requests = [s \in Server |-> 0]
    /\ down = [s \in Server |-> FALSE]
    /\ turn = "provider"
    /\ signalled = FALSE
    /\ grace = "none"
    /\ failed = FALSE
    /\ exit = -1

-----------------------------------------------------------------------------
Read ==
    /\ pc = "init"
    /\ ReadSetting \/ ReadDomain
    /\ UNCHANGED <<pc, errs, servers, stops, telemetry>>

\* An argument that Parse cannot take.
ReadBroken ==
    /\ pc = "init"
    /\ Ahead("broken")
    /\ pc' = "refused"
    /\ UNCHANGED <<errs, servers, stops, started>>

\* The usage was asked for.
Help ==
    /\ pc = "init"
    /\ Ahead("help")
    /\ pc' = "ended"
    /\ exit' = 0
    /\ UNCHANGED <<errs, servers, turn, signalled, grace, failed>>
    /\ UNCHANGED started

EndOfArguments ==
    /\ pc = "init"
    /\ Parsed
    /\ pc' = "build"
    /\ UNCHANGED <<errs, servers, stops, started>>

Build ==
    /\ pc = "build"
    /\ pc' = IF Valid THEN "telemetry" ELSE "refused"
    /\ Forget
    /\ UNCHANGED <<errs, servers, stops, settings, domains, telemetry>>

\* Exporters are made only if there is where to export to.
NewTelemetry ==
    /\ pc = "telemetry"
    /\ \/ /\ telemetry' = IF OTLPEnabled THEN "otlp" ELSE "local"
          /\ pc' = "client"
       \/ /\ UNCHANGED telemetry
          /\ pc' = "refused"
    /\ UNCHANGED <<errs, servers, stops, config>>

\* The token's file is named, not read; the endpoint may be no URL.
NewClient ==
    /\ pc = "client"
    /\ pc' \in {"listen", "refused"}
    /\ UNCHANGED <<errs, servers, stops, started>>

ListenProvider ==
    /\ pc = "listen"
    /\ \/ /\ listener' = [listener EXCEPT !["provider"] = "open"]
          /\ pc' = "listen2"
       \/ /\ UNCHANGED listener
          /\ pc' = "refused"
    /\ UNCHANGED <<serve, report, errs, requests, down, stops, started>>

\* Both are open: Start returns, its two goroutines have yet to begin.
ListenExposed ==
    /\ pc = "listen2"
    /\ listener' = [listener EXCEPT !["exposed"] = "open"]
    /\ serve' = [s \in Server |-> "starting"]
    /\ pc' = "select"
    /\ UNCHANGED <<report, errs, requests, down, stops, started>>

\* Mutant: Start fails and leaves the provider's listener open.
ExposedFailsHalf ==
    /\ pc = "listen2"
    /\ pc' = "refused"
    /\ UNCHANGED <<errs, servers, stops, started>>

ExposedFails ==
    /\ pc = "listen2"
    /\ listener' = [listener EXCEPT !["provider"] = "closed"]
    /\ pc' = "refused"
    /\ UNCHANGED <<serve, report, errs, requests, down, stops, started>>

\* run returns its error, which main turns into exit code 1.
Refused ==
    /\ pc = "refused"
    /\ pc' = IF telemetry = "none" THEN "ended" ELSE "flush"
    /\ exit' = 1
    /\ UNCHANGED <<errs, servers, turn, signalled, grace, failed, started>>

-----------------------------------------------------------------------------
\* Serve takes the listener up; after Shutdown it closes it and returns.
ServeBegins(s) ==
    /\ serve[s] = "starting"
    /\ serve' = [serve EXCEPT ![s] = IF down[s] THEN "sending" ELSE "serving"]
    /\ listener' = [listener EXCEPT ![s] = IF down[s] THEN "closed" ELSE @]
    /\ UNCHANGED <<pc, errs, report, requests, down, stops, started>>

\* The listener breaks, and is closed as Serve returns the error.
AcceptFails(s) ==
    /\ serve[s] = "serving" /\ ~down[s]
    /\ serve' = [serve EXCEPT ![s] = "sending"]
    /\ report' = [report EXCEPT ![s] = "failure"]
    /\ listener' = [listener EXCEPT ![s] = "closed"]
    /\ UNCHANGED <<pc, errs, requests, down, stops, started>>

\* Serve returns ErrServerClosed.
ServeReturns(s) ==
    /\ serve[s] = "serving" /\ down[s]
    /\ serve' = [serve EXCEPT ![s] = "sending"]
    /\ UNCHANGED <<pc, errs, listener, report, requests, down, stops, started>>

\* Mutant: an ordinary end is reported as an error, too.
ReportedAsIs(err) == err

\* The end that a Shutdown brings about is none to report.
Reported(err) == IF err = "closed" THEN "nil" ELSE err

\* Mutant: the end of Serve is only logged.
ReportNothing(s) ==
    /\ serve[s] = "sending"
    /\ serve' = [serve EXCEPT ![s] = "done"]
    /\ UNCHANGED <<pc, errs, listener, report, requests, down, stops, started>>

\* The goroutine sends the end of Serve into the channel, if it has room.
Report(s) ==
    /\ serve[s] = "sending"
    /\ Len(errs) < Capacity
    /\ errs' = Append(errs, Reported(report[s]))
    /\ serve' = [serve EXCEPT ![s] = "done"]
    /\ UNCHANGED <<pc, listener, report, requests, down, stops, started>>

-----------------------------------------------------------------------------
\* A client's request; it goes on when its listener is closed.
Accept(s) ==
    /\ serve[s] = "serving" /\ ~down[s]
    /\ requests[s] < MaxRequests
    /\ requests' = [requests EXCEPT ![s] = @ + 1]
    /\ UNCHANGED <<pc, errs, listener, serve, report, down, stops, started>>

Answer(s) ==
    /\ pc # "ended"
    /\ requests[s] > 0
    /\ requests' = [requests EXCEPT ![s] = @ - 1]
    /\ UNCHANGED <<pc, errs, listener, serve, report, down, stops, started>>

\* SIGINT or SIGTERM; further ones change nothing.
Signal ==
    /\ pc \notin {"init", "build", "ended"}
    /\ ~signalled
    /\ signalled' = TRUE
    /\ UNCHANGED <<pc, errs, servers, turn, grace, failed, exit, started>>

-----------------------------------------------------------------------------
\* Mutant: Shutdown is given the context of run, which is done.
ShutdownCtxDone == "done"

\* The context of Shutdown is a new one.
ShutdownCtx == "running"

StopOnSignal ==
    /\ pc = "select"
    /\ signalled
    /\ pc' = "close"
    /\ grace' = ShutdownCtx
    /\ UNCHANGED <<errs, servers, turn, signalled, failed, exit, started>>

StopOnErr ==
    /\ pc = "select"
    /\ errs # <<>>
    /\ failed' = (Head(errs) # "nil")
    /\ errs' = Tail(errs)
    /\ pc' = "close"
    /\ grace' = ShutdownCtx
    /\ UNCHANGED <<servers, turn, signalled, exit, started>>

\* http.Server.Shutdown closes the listener, if Serve has taken it up.
Close ==
    /\ pc = "close"
    /\ down' = [down EXCEPT ![turn] = TRUE]
    /\ listener' =
          [listener EXCEPT ![turn] = IF serve[turn] = "serving" THEN "closed"
                                     ELSE @]
    /\ pc' = "drain"
    /\ UNCHANGED <<errs, serve, report, requests, stops, started>>

\* Mutant: the error of the listener is only logged.
ExitCodeOfDrain == IF requests[turn] > 0 THEN 1 ELSE 0

\* The errors of the listener and of both Shutdowns are joined.
ExitCode == IF failed' THEN 1 ELSE 0

\* The other server's turn, or the end of run.
NextTurn ==
    IF turn = "provider"
    THEN /\ turn' = "exposed"
         /\ pc' = "close"
         /\ UNCHANGED exit
    ELSE /\ exit' = ExitCode
         /\ pc' = "flush"
         /\ UNCHANGED turn

\* Serve has returned, and no request is left.
Drained ==
    /\ pc = "drain"
    /\ serve[turn] # "serving"
    /\ requests[turn] = 0
    /\ UNCHANGED failed
    /\ NextTurn
    /\ UNCHANGED <<errs, servers, signalled, grace, started>>

\* The grace is over: Shutdown returns the error of its context.
DrainFails ==
    /\ pc = "drain"
    /\ serve[turn] # "serving"
    /\ requests[turn] > 0
    /\ grace # "running"
    /\ failed' = TRUE
    /\ NextTurn
    /\ UNCHANGED <<errs, servers, signalled, grace, started>>

\* shutdownTimeout is over.
Expire ==
    /\ grace = "running"
    /\ pc # "ended"
    /\ grace' = "expired"
    /\ UNCHANGED <<pc, errs, servers, turn, signalled, failed, exit, started>>

(***************************************************************************)
(* run has returned, with an error or not: Shutdown of the telemetry sends *)
(* what is left. It has time of its own (5 s, although the context of run  *)
(* is done), and its failure is only logged.                               *)
(***************************************************************************)
Flush ==
    /\ pc = "flush"
    /\ pc' = "ended"
    /\ UNCHANGED <<errs, servers, stops, started>>

Run ==
    \/ Read \/ ReadBroken \/ Help \/ EndOfArguments
    \/ Build \/ NewTelemetry \/ NewClient \/ Refused \/ Flush
    \/ ListenProvider \/ ListenExposed \/ ExposedFails
    \/ StopOnSignal \/ StopOnErr \/ Close \/ Drained \/ DrainFails

Serve(s) == ServeBegins(s) \/ ServeReturns(s) \/ Report(s)

Next ==
    \/ Run \/ Signal \/ Expire
    \/ \E s \in Server : Serve(s) \/ AcceptFails(s) \/ Accept(s) \/ Answer(s)

Spec == Init /\ [][Next]_vars

(***************************************************************************)
(* The goroutines run and the timer fires; no client need ever be answered *)
(* and no signal need come.                                                *)
(***************************************************************************)
Fairness ==
    /\ WF_vars(Run) /\ WF_vars(Expire)
    /\ \A s \in Server : WF_vars(Serve(s))

FairSpec == Spec /\ Fairness

-----------------------------------------------------------------------------
(***************************************************************************)
(* By default the process denies: nothing is managed, exported or sent     *)
(* without TLS unless an argument says so, a flag given again overwrites   *)
(* and a domain adds, and no listener is opened without the name of a      *)
(* token's file or with a value that has no meaning (config.go, Load).     *)
(***************************************************************************)
StartsAsAsked ==
    /\ pc = "build" => AsAsked
    /\ (\E s \in Server : listener[s] # "none") =>
          /\ settings["dpf-token-file"] # ""
          /\ settings["otlp-protocol"] \in Protocols
          /\ settings["log-level"] \in Levels

(***************************************************************************)
(* Start opens both listeners or leaves none open (server.go, Start); and  *)
(* while run waits, a listener that has gone is announced to it: it never  *)
(* waits half alive without knowing (server.go, Err).                      *)
(***************************************************************************)
NeverHalfAlive ==
    /\ pc = "refused" => \A s \in Server : listener[s] # "open"
    /\ pc = "select" =>
          \/ \A s \in Server : listener[s] = "open"
          \/ errs # <<>>
          \/ \E s \in Server : serve[s] = "sending" /\ report[s] = "failure"

(***************************************************************************)
(* However the two listeners end, and although run reads the channel once  *)
(* at most, neither goroutine is stuck in sending.                         *)
(***************************************************************************)
ReportsNeverBlock ==
    \A s \in Server : serve[s] = "sending" => Len(errs) < Capacity

(***************************************************************************)
(* A request that was accepted is cut off by the end of the process only   *)
(* after the whole grace: neither the signal nor the end of the other      *)
(* listener cuts it (main.go: the context of Shutdown is a new one).       *)
(***************************************************************************)
NoRequestIsCut ==
    pc = "ended" /\ (\E s \in Server : requests[s] > 0) => grace = "expired"

(***************************************************************************)
(* Exit code 0 means that nothing was opened (the usage was asked for), or *)
(* that a signal came and all requests had been answered.                  *)
(***************************************************************************)
CleanExit ==
    exit = 0 =>
        \/ \A s \in Server : listener[s] = "none"
        \/ signalled /\ \A s \in Server : requests[s] = 0

(***************************************************************************)
(* After a signal, or after one listener broke, the process ends, whatever *)
(* the requests in flight do.                                              *)
(***************************************************************************)
EndsWhenItMust ==
    signalled \/ (\E s \in Server : serve[s] \in {"sending", "done"})
        ~> pc = "ended"

=============================================================================
