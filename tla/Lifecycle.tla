----------------------------- MODULE Lifecycle -----------------------------
(***************************************************************************)
(* The life of the process (main of cmd/server/main.go): start-up step by  *)
(* step, each of which may end the process; serving; and the end, when     *)
(* another goroutine has received a signal and calls server.Shutdown, main *)
(* returns, and the process is gone with whatever its other goroutines     *)
(* were doing.                                                             *)
(*                                                                         *)
(* The flags are a record of what was given: opa, embed, params, schema,   *)
(* names (--allowed-operation-names), admin, rate and metrics are BOOLEAN, *)
(* maxBodyMB is a number, upstream says whether --upstream is a usable     *)
(* URL.  Files may turn out unreadable or wrong, addresses taken.          *)
(***************************************************************************)
EXTENDS Integers

CONSTANTS
  Flags,  \* the command lines
  Conns   \* connections, one request each

ASSUME FlagsAssumption ==
  Flags \subseteq [opa : BOOLEAN, embed : BOOLEAN, params : BOOLEAN, schema : BOOLEAN,
                   names : BOOLEAN, admin : BOOLEAN, rate : BOOLEAN, upstream : BOOLEAN,
                   metrics : BOOLEAN, maxBodyMB : Int]

VARIABLES
  flags,      \* the command line
  main,       \* the main goroutine
  conf,       \* what start-up has put in place
  listening,  \* the listener accepts connections
  conns,      \* what became of each connection's request
  sigCh,      \* the signal channel, which holds one signal at most
  shutdown,   \* the goroutine that waits for the signal
  cleanup     \* the rate limiter's stop channel is closed

serveVars == <<listening, conns, sigCh, shutdown, cleanup>>
vars == <<flags, main, conf, serveVars>>

Running == main # "exited"

Active == {c \in Conns : conns[c] = "active"}

\* The process is gone, with every request still in progress.
EndProcess ==
  /\ main' = "exited"
  /\ conns' = [c \in Conns |-> IF c \in Active THEN "cut" ELSE conns[c]]
  /\ listening' = FALSE
  /\ UNCHANGED <<flags, conf, sigCh, shutdown, cleanup>>

-----------------------------------------------------------------------------
(* Start-up: main goes through these steps in order.                       *)

\* log.Fatal or os.Exit(1): deferred calls do not run.
Fatal == EndProcess

\* main goes on to its next step, having changed conf or not.
Continue(next) == main' = next /\ UNCHANGED <<flags, serveVars>>

\* Exactly one of --opa and --opa-embed, and no negative body limit.
CheckFlags ==
  /\ main = "flags"
  /\ IF flags.opa = flags.embed \/ flags.maxBodyMB < 0
     THEN Fatal
     ELSE Continue("schema") /\ UNCHANGED conf

\* Mutant: a schema that does not load is done without.
MutSchemaError == Continue("evaluator") /\ UNCHANGED conf

SchemaError == Fatal

\* The schema is read, parsed and validated.
LoadSchema ==
  /\ main = "schema"
  /\ \/ flags.schema /\ SchemaError
     \/ Continue("evaluator") /\ conf' = [conf EXCEPT !.schema = flags.schema]

\* The sidecar's client is made without a call to its endpoint.
NewSidecar == [conf EXCEPT !.mode = "sidecar"]

\* The embedded policy's file is read.
BuildEvaluator ==
  /\ main = "evaluator"
  /\ \/ flags.opa /\ Continue("admin") /\ conf' = NewSidecar
     \/ ~flags.opa /\ Fatal
     \/ ~flags.opa /\ Continue("params") /\ UNCHANGED conf

\* LoadParamsFromJSON: the parameters are not a JSON object.
ParamsError == Fatal

LoadParams ==
  /\ main = "params"
  /\ \/ flags.params /\ (Fatal \/ ParamsError)
     \/ /\ Continue("compile")
        /\ conf' = [conf EXCEPT !.store = IF flags.params THEN {"file"} ELSE @]

\* The list of operation names of the command line joins the parameters.
AddNames(store) == IF flags.names THEN store \cup {"names"} ELSE store

\* compile: the policy is not valid Rego.
CompileError == Fatal

\* NewEmbedded refuses an empty policy, too.
NewEmbedded ==
  /\ main = "compile"
  /\ \/ Fatal \/ CompileError
     \/ /\ Continue("admin")
        /\ conf' = [conf EXCEPT !.mode = "embedded",
                                !.store = AddNames(@)]

startAdminAPI ==
  /\ main = "admin"
  /\ Continue("proxy")
  /\ conf' = [conf EXCEPT !.admin = IF flags.admin THEN "starting" ELSE "none"]

\* proxy.New: the upstream URL has a host, and http or https for a scheme.
NewProxy ==
  /\ main = "proxy"
  /\ IF flags.upstream THEN Continue("limiter") /\ UNCHANGED conf ELSE Fatal

\* The limiter, the metrics on a server of their own or on the main one, and the
\* goroutine that will wait for a signal.
SetUpServer ==
  /\ main = "limiter"
  /\ main' = "listen"
  /\ conf' = [conf EXCEPT !.limiter = flags.rate,
                          !.metrics = IF flags.metrics THEN "own" ELSE "main"]
  /\ shutdown' = "starting"
  /\ UNCHANGED <<flags, listening, conns, sigCh, cleanup>>

\* main falls through to its deferred rl.Stop().
LeaveServe ==
  /\ main' = "returning"
  /\ cleanup' = conf.limiter
  /\ UNCHANGED <<flags, conf, listening, conns, sigCh, shutdown>>

\* ListenAndServe fails if the address is taken, and returns at once if Shutdown
\* was called before it.
Listen ==
  /\ main = "listen"
  /\ IF shutdown \in {"starting", "waiting"}
     THEN \/ Fatal
          \/ /\ main' = "serving" /\ listening' = TRUE
             /\ UNCHANGED <<flags, conf, conns, sigCh, shutdown, cleanup>>
     ELSE LeaveServe

\* The admin server has a goroutine of its own, which only logs a failure.
AdminListens ==
  /\ Running /\ conf.admin = "starting"
  /\ \E result \in {"up", "failed"} : conf' = [conf EXCEPT !.admin = result]
  /\ UNCHANGED <<flags, main, serveVars>>

\* An update through the admin API replaces the parameters, at any time.
AdminUpdate ==
  /\ Running /\ conf.admin = "up"
  /\ conf' = [conf EXCEPT !.store = {"admin"}]
  /\ UNCHANGED <<flags, main, serveVars>>

-----------------------------------------------------------------------------
(* Serving and the end.                                                    *)

Accept(c) ==
  /\ Running /\ listening
  /\ conns[c] = "none"
  /\ conns' = [conns EXCEPT ![c] = "active"]
  /\ UNCHANGED <<flags, main, conf, listening, sigCh, shutdown, cleanup>>

Respond(c) ==
  /\ Running
  /\ conns[c] = "active"
  /\ conns' = [conns EXCEPT ![c] = "answered"]
  /\ UNCHANGED <<flags, main, conf, listening, sigCh, shutdown, cleanup>>

\* SIGINT or SIGTERM ends the process until signal.Notify has been called; then
\* one is kept until it is taken, and further ones are dropped.
Signal ==
  /\ Running
  /\ IF shutdown \in {"none", "starting"}
     THEN EndProcess
     ELSE /\ sigCh = "empty"
          /\ sigCh' = "full"
          /\ UNCHANGED <<flags, main, conf, listening, conns, shutdown, cleanup>>

Notify ==
  /\ Running /\ shutdown = "starting"
  /\ shutdown' = "waiting"
  /\ UNCHANGED <<flags, main, conf, listening, conns, sigCh, cleanup>>

\* Mutant: the goroutine takes the signal and does not shut the server down.
MutCloseListener ==
  /\ Running
  /\ shutdown = "waiting" /\ sigCh = "full"
  /\ sigCh' = "empty"
  /\ shutdown' = "draining"
  /\ UNCHANGED <<flags, main, conf, listening, conns, cleanup>>

\* <-sigCh, then server.Shutdown closes the listener ...
CloseListener ==
  /\ Running
  /\ shutdown = "waiting" /\ sigCh = "full"
  /\ sigCh' = "empty"
  /\ listening' = FALSE
  /\ shutdown' = "draining"
  /\ UNCHANGED <<flags, main, conf, conns, cleanup>>

\* ... and returns when the connections are idle or its context times out.
ShutdownReturns ==
  /\ Running
  /\ shutdown = "draining"
  /\ \/ Active = {} /\ shutdown' = "drained"
     \/ shutdown' = "timedout"
  /\ UNCHANGED <<flags, main, conf, listening, conns, sigCh, cleanup>>

\* ListenAndServe returns ErrServerClosed as soon as Shutdown has closed the
\* listener.
ServeReturns == main = "serving" /\ ~listening /\ LeaveServe

\* The listener breaks: log.Fatalf.
ServeFails == main = "serving" /\ listening /\ Fatal

MainReturns == main = "returning" /\ EndProcess

Init ==
  /\ flags \in Flags
  /\ main = "flags"
  /\ conf = [schema |-> FALSE, mode |-> "none", store |-> {}, admin |-> "none",
             limiter |-> FALSE, metrics |-> "none"]
  /\ listening = FALSE
  /\ conns = [c \in Conns |-> "none"]
  /\ sigCh = "empty"
  /\ shutdown = "none"
  /\ cleanup = FALSE

StartUp ==
  \/ CheckFlags \/ LoadSchema \/ BuildEvaluator \/ LoadParams \/ NewEmbedded
  \/ startAdminAPI \/ NewProxy \/ SetUpServer \/ Listen

Next ==
  \/ StartUp \/ AdminListens \/ AdminUpdate
  \/ \E c \in Conns : Accept(c) \/ Respond(c)
  \/ Signal \/ Notify \/ CloseListener \/ ShutdownReturns
  \/ ServeReturns \/ MainReturns \/ ServeFails

\* The goroutines of main.go run; neither signals nor requests have to come or
\* to end.
Spec ==
  /\ Init /\ [][Next]_vars
  /\ WF_vars(StartUp) /\ WF_vars(Notify)
  /\ WF_vars(CloseListener) /\ WF_vars(ServeReturns) /\ WF_vars(MainReturns)

-----------------------------------------------------------------------------

\* A step of start-up that fails ends the process, and none is skipped: no
\* request is accepted without one kind of evaluator and the right one, never a
\* sidecar client without an endpoint (README.md:113), the schema that was
\* named, a usable upstream and body limit, the limiter if and only if there is
\* a rate, and the metrics on the main port unless they have one of their own;
\* and in embedded mode not without the parameters and the list of operation
\* names, or an admin update that replaced them both (main).  It asks for
\* nothing more: a sidecar is never handed parameters or names, and an admin
\* listener that fails is logged and done without.
NoPartialStart ==
  (\E c \in Conns : conns[c] # "none") =>
    /\ flags.opa # flags.embed
    /\ conf.mode = (IF flags.opa THEN "sidecar" ELSE "embedded")
    /\ conf.schema = flags.schema
    /\ flags.upstream /\ flags.maxBodyMB >= 0
    /\ conf.limiter = flags.rate
    /\ (conf.metrics = "main") = ~flags.metrics
    /\ (flags.embed /\ conf.store # {"admin"}) =>
         /\ ("file" \in conf.store) = flags.params
         /\ ("names" \in conf.store) = flags.names

\* A signal ends the process, whatever the requests in progress do and however
\* far start-up is (main, the shutdown goroutine and ListenAndServe).
SignalEndsProcess == (sigCh = "full") ~> (main = "exited")

\* README.md:155, "Graceful shutdown | Built-in | Dropped requests on deploy":
\* a shutdown that has not run out of time drops no request.
NoRequestDropped ==
  (main = "exited" /\ shutdown \in {"draining", "drained"})
    => \A c \in Conns : conns[c] # "cut"

=============================================================================
