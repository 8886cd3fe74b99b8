--------------------------- MODULE ServerShutdown ---------------------------
(***************************************************************************)
(* The life of the EchoVault server: main in src/cmd/server/main.go.       *)
(*                                                                         *)
(* main opens the database, makes its tables, listens for gRPC, opens the  *)
(* storage, and then starts two goroutines: one waits for a signal, stops  *)
(* the gRPC server and then the REST server, and one serves the REST       *)
(* files.  main itself serves gRPC, and waits for nothing else: when the   *)
(* gRPC server has stopped, main closes the database and returns, which    *)
(* ends the process and every goroutine.  A signal may come at any time,   *)
(* also before main handles signals or serves.                             *)
(*                                                                         *)
(* The gRPC library is modelled as main uses it: GracefulStop refuses new  *)
(* calls, waits until every handler has returned, and Serve returns after  *)
(* that; or at once, if GracefulStop came first.  Shutdown of the HTTP     *)
(* server closes its listener and waits for the requests in flight, up to  *)
(* a deadline; a server that was shut down does not listen any more.  When *)
(* either server fails, the process ends at once.                          *)
(***************************************************************************)
EXTENDS Naturals

CONSTANTS
    Unary,       \* gRPC calls that end by themselves
    Streams,     \* SubscribeChanges calls, which end when their client does
    Uploads,     \* requests to the REST server
    MayFail      \* what may fail: "setup" of main, "serve" of gRPC, "rest"

ASSUME MayFailAssumption == MayFail \subseteq {"setup", "serve", "rest"}
ASSUME KindsAssumption ==
    Unary \cap Streams = {} /\ (Unary \cup Streams) \cap Uploads = {}

VARIABLES
    main,      \* what main does next, or does
    signalled, \* TRUE when a signal is in sigCh or was
    stopper,   \* the goroutine that waits for it: "none", "waiting", "grpc", "rest", "over"
    grpc,      \* the gRPC server: "down", "listening", "serving", "stopping", "stopped",
               \* "failed"
    rest,      \* the REST server: "down", "starting", "serving", "closing", "failed"
    requests   \* "idle", "running", "ended" or "killed"

lifeVars == <<main, signalled, stopper, grpc, rest, requests>>

Handlers == Unary \cup Streams
Requests == Handlers \cup Uploads

\* The steps of main that end the process when they fail.
Setup == {"database", "schema", "listen", "storage"}
Starting == Setup \cup {"signals", "rest", "serve"}

InFlight(R) == {r \in R : requests[r] = "running"}

LifeInit ==
    /\ main = "database"
    /\ signalled = FALSE
    /\ stopper = "none"
    /\ grpc = "down"
    /\ rest = "down"
    /\ requests = [r \in Requests |-> "idle"]

Alive == main # "exited"

-----------------------------------------------------------------------------
(* main, up to Serve. *)

\* sql.Open
SetupDB ==
    /\ main = "database"
    /\ main' = "schema"
    /\ UNCHANGED <<signalled, stopper, grpc, rest, requests>>

CreateSchema ==
    /\ main = "schema"
    /\ main' = "listen"
    /\ UNCHANGED <<signalled, stopper, grpc, rest, requests>>

SetupGRPC ==
    /\ main = "listen"
    /\ main' = "storage"
    /\ grpc' = "listening"
    /\ UNCHANGED <<signalled, stopper, rest, requests>>

\* The local storage makes its directories.
SetupREST ==
    /\ main = "storage"
    /\ main' = "signals"
    /\ UNCHANGED <<signalled, stopper, grpc, rest, requests>>

\* log.Fatalf, which runs no deferred call: a port that is taken, directories that
\* cannot be made, or storage_type s3, which is not implemented.
SetupFails ==
    /\ main \in Setup
    /\ "setup" \in MayFail
    /\ main' = "exited"
    /\ UNCHANGED <<signalled, stopper, grpc, rest, requests>>

\* signal.Notify, and the goroutine that waits.
HandleSignals ==
    /\ main = "signals"
    /\ main' = "rest"
    /\ stopper' = "waiting"
    /\ UNCHANGED <<signalled, grpc, rest, requests>>

\* The goroutine of the REST server; if it was shut down already ListenAndServe
\* returns at once.
StartREST ==
    /\ main = "rest"
    /\ main' = "serve"
    /\ rest' = IF rest = "down" THEN "starting" ELSE rest
    /\ UNCHANGED <<signalled, stopper, grpc, requests>>

ListenREST ==
    /\ Alive
    /\ rest = "starting"
    /\ rest' = "serving"
    /\ UNCHANGED <<main, signalled, stopper, grpc, requests>>

\* Mutant: a server that was stopped serves after all.
ServeAnyway ==
    /\ main = "serve"
    /\ main' = "serving"
    /\ grpc' = "serving"
    /\ UNCHANGED <<signalled, stopper, rest, requests>>

\* A server that was stopped before it served returns at once.
Serve ==
    /\ main = "serve"
    /\ IF grpc = "stopped"
         THEN main' = "deferred" /\ UNCHANGED grpc
         ELSE main' = "serving" /\ grpc' = "serving"
    /\ UNCHANGED <<signalled, stopper, rest, requests>>

-----------------------------------------------------------------------------
(* Clients. *)

StartCall(r) ==
    /\ Alive
    /\ r \in Handlers
    /\ requests[r] = "idle"
    /\ grpc = "serving"
    /\ requests' = [requests EXCEPT ![r] = "running"]
    /\ UNCHANGED <<main, signalled, stopper, grpc, rest>>

\* The REST server takes requests until its listener is closed.
StartUpload(r) ==
    /\ Alive
    /\ r \in Uploads
    /\ requests[r] = "idle"
    /\ rest = "serving"
    /\ requests' = [requests EXCEPT ![r] = "running"]
    /\ UNCHANGED <<main, signalled, stopper, grpc, rest>>

EndRequest(r) ==
    /\ Alive
    /\ r \in Unary \cup Uploads
    /\ requests[r] = "running"
    /\ requests' = [requests EXCEPT ![r] = "ended"]
    /\ UNCHANGED <<main, signalled, stopper, grpc, rest>>

\* The client of a stream goes away: its context is done and the handler returns.
EndStream(r) ==
    /\ Alive
    /\ r \in Streams
    /\ requests[r] = "running"
    /\ requests' = [requests EXCEPT ![r] = "ended"]
    /\ UNCHANGED <<main, signalled, stopper, grpc, rest>>

-----------------------------------------------------------------------------
(* The goroutines. *)

\* A second signal finds sigCh full and is dropped.
Signal ==
    /\ Alive
    /\ stopper # "none"
    /\ ~ signalled
    /\ signalled' = TRUE
    /\ UNCHANGED <<main, stopper, grpc, rest, requests>>

\* Before signal.Notify a signal ends the process.
SignalKills ==
    /\ Alive
    /\ stopper = "none"
    /\ signalled' = TRUE
    /\ main' = "exited"
    /\ UNCHANGED <<stopper, grpc, rest, requests>>

\* Nothing is to be waited for if the server does not serve yet.
GracefulStop ==
    /\ Alive
    /\ stopper = "waiting"
    /\ signalled
    /\ stopper' = "grpc"
    /\ grpc' = IF grpc = "listening" THEN "stopped" ELSE "stopping"
    /\ UNCHANGED <<main, signalled, rest, requests>>

\* Mutant: Stop in the place of GracefulStop, which waits for no handler.
StoppedAtOnce ==
    /\ Alive
    /\ grpc = "stopping"
    /\ grpc' = "stopped"
    /\ UNCHANGED <<main, signalled, stopper, rest, requests>>

\* The last handler has returned.
Stopped ==
    /\ Alive
    /\ grpc = "stopping"
    /\ InFlight(Handlers) = {}
    /\ grpc' = "stopped"
    /\ UNCHANGED <<main, signalled, stopper, rest, requests>>

\* GracefulStop has returned, and Shutdown closes the listener.
Shutdown ==
    /\ Alive
    /\ stopper = "grpc"
    /\ grpc = "stopped"
    /\ stopper' = "rest"
    /\ rest' = "closing"
    /\ UNCHANGED <<main, signalled, grpc, requests>>

\* Shutdown returns: no request is in flight, or its deadline has passed.
ShutdownReturns ==
    /\ Alive
    /\ stopper = "rest"
    /\ stopper' = "over"
    /\ UNCHANGED <<main, signalled, grpc, rest, requests>>

\* Serve returns to main, whose deferred function closes the database.
ServeReturns ==
    /\ main = "serving"
    /\ grpc = "stopped"
    /\ main' = "deferred"
    /\ UNCHANGED <<signalled, stopper, grpc, rest, requests>>

CloseDatabase ==
    /\ main = "deferred"
    /\ main' = "closed"
    /\ UNCHANGED <<signalled, stopper, grpc, rest, requests>>

\* The process ends, and with it whatever is still running.
Kill == requests' = [r \in Requests |->
    IF requests[r] = "running" THEN "killed" ELSE requests[r]]

Exit ==
    /\ main = "closed"
    /\ main' = "exited"
    /\ Kill
    /\ UNCHANGED <<signalled, stopper, grpc, rest>>

\* Serve returns an error: the listener failed, and nothing had stopped the server.
\* os.Exit ends the process, with the calls that run; the database is not closed.
ServeFails ==
    /\ main = "serving"
    /\ "serve" \in MayFail
    /\ grpc = "serving"
    /\ grpc' = "failed"
    /\ main' = "exited"
    /\ Kill
    /\ UNCHANGED <<signalled, stopper, rest>>

\* ListenAndServe fails and log.Fatalf ends the process, deferred calls and all.
RestFails ==
    /\ Alive
    /\ "rest" \in MayFail
    /\ rest \in {"starting", "serving"}
    /\ rest' = "failed"
    /\ main' = "exited"
    /\ Kill
    /\ UNCHANGED <<signalled, stopper, grpc>>

Start ==
    \/ SetupDB \/ CreateSchema \/ SetupGRPC \/ SetupREST \/ SetupFails
    \/ HandleSignals \/ StartREST \/ Serve

LifeNext ==
    \/ Start \/ ListenREST
    \/ \E r \in Requests :
        StartCall(r) \/ StartUpload(r) \/ EndRequest(r) \/ EndStream(r)
    \/ Signal \/ SignalKills \/ ServeFails \/ RestFails
    \/ GracefulStop \/ Stopped \/ Shutdown \/ ShutdownReturns
    \/ ServeReturns \/ CloseDatabase \/ Exit

LifeSpec == LifeInit /\ [][LifeNext]_lifeVars

\* Goroutines that can run do run, and calls that end by themselves end.
FairSpec ==
    /\ LifeSpec
    /\ \A r \in Requests : WF_lifeVars(EndRequest(r))
    /\ WF_lifeVars(Start) /\ WF_lifeVars(ListenREST)
    /\ WF_lifeVars(GracefulStop) /\ WF_lifeVars(Stopped)
    /\ WF_lifeVars(Shutdown) /\ WF_lifeVars(ShutdownReturns)
    /\ WF_lifeVars(ServeReturns) /\ WF_lifeVars(CloseDatabase) /\ WF_lifeVars(Exit)

\* The clients of streams go away in the end; nothing in the server sees to it.
ClientsLeaveSpec == FairSpec /\ \A r \in Streams : WF_lifeVars(EndStream(r))

-----------------------------------------------------------------------------
(* Properties. *)

LifeTypeOK ==
    /\ main \in Starting \cup {"serving", "deferred", "closed", "exited"}
    /\ signalled \in BOOLEAN
    /\ stopper \in {"none", "waiting", "grpc", "rest", "over"}
    /\ grpc \in {"down", "listening", "serving", "stopping", "stopped", "failed"}
    /\ rest \in {"down", "starting", "serving", "closing", "failed"}
    /\ requests \in [Requests -> {"idle", "running", "ended", "killed"}]

\* A gRPC call has the database as long as it runs, and the process does not end
\* under it, unless Serve or the REST server fails, which ends the process at once:
\* main waits in Serve (cmd/server/main.go:183) until GracefulStop has seen every
\* handler return, also when the signal came before Serve, a second one follows it, or
\* the wait for the REST requests is cut short.
CallsFinish ==
    \/ "failed" \in {grpc, rest}
    \/ \A r \in Handlers :
        /\ requests[r] # "killed"
        /\ main \in {"closed", "exited"} => requests[r] # "running"

\* A signal ends the process whenever it comes (cmd/server/main.go:153): while main
\* starts, while it serves, and after the REST server was asked to close.
ShutdownEnds == signalled ~> (main = "exited")
=============================================================================
