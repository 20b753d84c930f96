-------------------------- MODULE LifecycleProofs --------------------------
(***************************************************************************)
(* For every command line and every number of connections: the process     *)
(* accepts no request before each step of start-up has put in place what   *)
(* it is there for, and what is in place stays until the process is gone,  *)
(* whatever fails on the way and whenever a signal, a shutdown or an admin *)
(* update comes.                                                           *)
(***************************************************************************)
EXTENDS Lifecycle, TLAPS

ConfType ==
  [schema : BOOLEAN, mode : {"none", "sidecar", "embedded"},
   store : SUBSET {"file", "names", "admin"},
   admin : {"none", "starting", "up", "failed"},
   limiter : BOOLEAN, metrics : {"none", "own", "main"}]

\* The steps of main at which something is in place: the policy mode, the proxy,
\* the server; and those that come after the flags and the schema.
SetUp == {"listen", "serving", "returning"}
Proxied == SetUp \cup {"limiter"}
Judged == Proxied \cup {"admin", "proxy"}
Loaded == Judged \cup {"evaluator", "params", "compile"}
Checked == Loaded \cup {"schema"}
Steps == Checked \cup {"flags", "exited"}

FlagsChecked == flags.opa # flags.embed /\ flags.maxBodyMB >= 0

StoreIsConfigured ==
  (flags.embed /\ conf.store # {"admin"}) =>
    /\ ("file" \in conf.store) = flags.params
    /\ ("names" \in conf.store) = flags.names

EvaluatorIsConfigured ==
  /\ conf.mode = (IF flags.opa THEN "sidecar" ELSE "embedded")
  /\ StoreIsConfigured

ServerIsConfigured ==
  /\ conf.limiter = flags.rate
  /\ (conf.metrics = "main") = ~flags.metrics

Served == \E c \in Conns : conns[c] # "none"

Ready ==
  /\ FlagsChecked /\ conf.schema = flags.schema
  /\ EvaluatorIsConfigured /\ flags.upstream /\ ServerIsConfigured

\* What start-up has established when main is at a step.
StartUpInv ==
  /\ main \in Checked => FlagsChecked
  /\ main \in Loaded => conf.schema = flags.schema
  /\ main \in {"params", "compile"} => ~flags.opa
  /\ main \in Steps \ (Proxied \cup {"proxy", "exited"}) => conf.admin = "none"
  /\ main \in {"flags", "schema", "evaluator", "params"} => conf.store = {}
  /\ main = "compile" => conf.store = IF flags.params THEN {"file"} ELSE {}
  /\ main \in Judged => EvaluatorIsConfigured
  /\ main \in Proxied => flags.upstream
  /\ main \in SetUp => ServerIsConfigured

IInv ==
  /\ flags \in Flags
  /\ main \in Steps
  /\ conf \in ConfType
  /\ conns \in [Conns -> {"none", "active", "answered", "cut"}]
  /\ StartUpInv
  /\ listening => main = "serving"
  /\ Served => main \in {"serving", "returning", "exited"} /\ Ready

LEMMA FlagsType ==
  ASSUME flags \in Flags
  PROVE  /\ flags.opa \in BOOLEAN /\ flags.embed \in BOOLEAN /\ flags.params \in BOOLEAN
         /\ flags.schema \in BOOLEAN /\ flags.names \in BOOLEAN /\ flags.rate \in BOOLEAN
         /\ flags.metrics \in BOOLEAN /\ flags.upstream \in BOOLEAN
         /\ flags.maxBodyMB \in Int
BY FlagsAssumption

LEMMA LifecycleInit == Init => IInv
<1> SUFFICES ASSUME Init PROVE IInv
  OBVIOUS
<1>1. /\ flags \in Flags /\ main = "flags" /\ ~listening
      /\ conns \in [Conns -> {"none", "active", "answered", "cut"}] /\ ~Served
  BY DEF Init, Served
<1>2. conf \in ConfType /\ conf.store = {} /\ conf.admin = "none"
  BY DEF Init, ConfType
<1>3. StartUpInv
  BY <1>1, <1>2 DEF StartUpInv, Checked, Loaded, Judged, Proxied, SetUp
<1> QED BY <1>1, <1>2, <1>3 DEF IInv, Steps

\* The end of the process leaves what was in place.
LEMMA EndKeeps == ASSUME IInv, EndProcess PROVE IInv'
<1>1. /\ main' = "exited" /\ listening' = FALSE /\ UNCHANGED <<flags, conf>>
      /\ conns' = [c \in Conns |-> IF c \in Active THEN "cut" ELSE conns[c]]
  BY DEF EndProcess
<1>2. conns' \in [Conns -> {"none", "active", "answered", "cut"}]
  BY <1>1 DEF IInv
<1>3. Served' => Served
  BY <1>1 DEF Served, Active, IInv
<1>4. Ready => Ready'
  BY <1>1 DEF Ready, FlagsChecked, EvaluatorIsConfigured, StoreIsConfigured, ServerIsConfigured
<1>5. StartUpInv'
  BY <1>1 DEF StartUpInv, Checked, Loaded, Judged, Proxied, SetUp
<1> QED BY <1>1, <1>2, <1>3, <1>4, <1>5 DEF IInv, Steps

\* A step of start-up: nothing has been served.
LEMMA StartUpStep ==
  ASSUME IInv, conf' \in ConfType, main' \in Steps, StartUpInv',
         UNCHANGED <<flags, listening, conns>>,
         main \in Steps \ {"serving", "returning", "exited"}
  PROVE  IInv'
<1>1. ~Served /\ ~listening
  BY DEF IInv
<1>2. ~Served' /\ ~listening'
  BY <1>1 DEF Served, IInv
<1> QED BY <1>2 DEF IInv

\* A step that leaves main and conf alone.
LEMMA ServeStep ==
  ASSUME IInv, UNCHANGED <<flags, main, conf>>,
         conns' \in [Conns -> {"none", "active", "answered", "cut"}],
         listening' => listening,
         Served' => Served \/ main = "serving"
  PROVE  IInv'
<1>1. StartUpInv'
  BY DEF IInv, StartUpInv, FlagsChecked, EvaluatorIsConfigured, StoreIsConfigured, ServerIsConfigured
<1>2. main = "serving" => Ready
  BY DEF IInv, StartUpInv, Ready, Checked, Loaded, Judged, Proxied, SetUp
<1>3. Ready => Ready'
  BY DEF Ready, FlagsChecked, EvaluatorIsConfigured, StoreIsConfigured, ServerIsConfigured
<1> QED BY <1>1, <1>2, <1>3 DEF IInv

LEMMA LifecycleStep == IInv /\ [Next]_vars => IInv'
<1> SUFFICES ASSUME IInv, [Next]_vars PROVE IInv'
  OBVIOUS
<1> USE DEF Steps, Checked, Loaded, Judged, Proxied, SetUp
<1>0. flags \in Flags /\ conf \in ConfType /\ StartUpInv
  BY DEF IInv
<1>1. ASSUME EndProcess PROVE IInv'
  BY <1>1, EndKeeps
<1>2. CASE CheckFlags
  <2>1. CASE flags.opa = flags.embed \/ flags.maxBodyMB < 0
    BY <1>1, <1>2, <2>1 DEF CheckFlags, Fatal
  <2>2. CASE ~(flags.opa = flags.embed \/ flags.maxBodyMB < 0)
    <3>1. main = "flags" /\ main' = "schema" /\ UNCHANGED <<flags, conf, listening, conns>>
      BY <1>2, <2>2 DEF CheckFlags, Continue, serveVars
    <3>2. FlagsChecked'
      BY <1>0, <2>2, <3>1, FlagsType DEF FlagsChecked
    <3>3. StartUpInv'
      BY <1>0, <3>1, <3>2 DEF StartUpInv
    <3> QED BY <1>0, <3>1, <3>3, StartUpStep
  <2> QED BY <2>1, <2>2
<1>3. CASE LoadSchema
  <2>1. CASE SchemaError
    BY <1>1, <2>1 DEF SchemaError, Fatal
  <2>2. CASE Continue("evaluator") /\ conf' = [conf EXCEPT !.schema = flags.schema]
    <3>1. main = "schema" /\ main' = "evaluator" /\ UNCHANGED <<flags, listening, conns>>
      BY <1>3, <2>2 DEF LoadSchema, Continue, serveVars
    <3>2. /\ conf' \in ConfType /\ conf'.schema = flags.schema
          /\ conf'.admin = conf.admin /\ conf'.store = conf.store
      BY <1>0, <2>2, FlagsType DEF ConfType
    <3>3. StartUpInv'
      BY <1>0, <3>1, <3>2 DEF StartUpInv, FlagsChecked
    <3> QED BY <3>1, <3>2, <3>3, StartUpStep
  <2> QED BY <1>3, <2>1, <2>2 DEF LoadSchema
<1>4. CASE BuildEvaluator
  <2>1. CASE Fatal
    BY <1>1, <2>1 DEF Fatal
  <2>2. CASE flags.opa /\ Continue("admin") /\ conf' = NewSidecar
    <3>1. main = "evaluator" /\ main' = "admin" /\ UNCHANGED <<flags, listening, conns>>
      BY <1>4, <2>2 DEF BuildEvaluator, Continue, serveVars
    <3>2. /\ conf' \in ConfType /\ conf'.mode = "sidecar" /\ conf'.schema = conf.schema
          /\ conf'.admin = conf.admin /\ conf'.store = conf.store
      BY <1>0, <2>2 DEF ConfType, NewSidecar
    <3>3. ~flags.embed
      BY <1>0, <2>2, <3>1, FlagsType DEF StartUpInv, FlagsChecked
    <3>4. EvaluatorIsConfigured'
      BY <2>2, <3>1, <3>2, <3>3 DEF EvaluatorIsConfigured, StoreIsConfigured
    <3>5. StartUpInv'
      BY <1>0, <3>1, <3>2, <3>4 DEF StartUpInv, FlagsChecked
    <3> QED BY <3>1, <3>2, <3>5, StartUpStep
  <2>3. CASE ~flags.opa /\ Continue("params") /\ UNCHANGED conf
    <3>1. main = "evaluator" /\ main' = "params" /\ UNCHANGED <<flags, conf, listening, conns>>
      BY <1>4, <2>3 DEF BuildEvaluator, Continue, serveVars
    <3>2. StartUpInv'
      BY <1>0, <2>3, <3>1 DEF StartUpInv, FlagsChecked
    <3> QED BY <1>0, <3>1, <3>2, StartUpStep
  <2> QED BY <1>4, <2>1, <2>2, <2>3 DEF BuildEvaluator
<1>5. CASE LoadParams
  <2>1. CASE Fatal \/ ParamsError
    BY <1>1, <2>1 DEF Fatal, ParamsError
  <2>2. CASE /\ Continue("compile")
             /\ conf' = [conf EXCEPT !.store = IF flags.params THEN {"file"} ELSE @]
    <3>1. main = "params" /\ main' = "compile" /\ UNCHANGED <<flags, listening, conns>>
      BY <1>5, <2>2 DEF LoadParams, Continue, serveVars
    <3>2. conf.store = {} /\ ~flags.opa
      BY <1>0, <3>1 DEF StartUpInv
    <3>3. /\ conf' \in ConfType /\ conf'.schema = conf.schema /\ conf'.admin = conf.admin
          /\ conf'.store = IF flags.params THEN {"file"} ELSE {}
      BY <1>0, <2>2, <3>2 DEF ConfType
    <3>4. StartUpInv'
      BY <1>0, <3>1, <3>2, <3>3 DEF StartUpInv, FlagsChecked
    <3> QED BY <3>1, <3>3, <3>4, StartUpStep
  <2> QED BY <1>5, <2>1, <2>2 DEF LoadParams
<1>6. CASE NewEmbedded
  <2>1. CASE Fatal \/ CompileError
    BY <1>1, <2>1 DEF Fatal, CompileError
  <2>2. CASE /\ Continue("admin")
             /\ conf' = [conf EXCEPT !.mode = "embedded", !.store = AddNames(@)]
    <3>1. main = "compile" /\ main' = "admin" /\ UNCHANGED <<flags, listening, conns>>
      BY <1>6, <2>2 DEF NewEmbedded, Continue, serveVars
    <3>2. (conf.store = IF flags.params THEN {"file"} ELSE {}) /\ ~flags.opa
      BY <1>0, <3>1 DEF StartUpInv
    <3>3. /\ conf' \in ConfType /\ conf'.schema = conf.schema /\ conf'.admin = conf.admin
          /\ conf'.mode = "embedded" /\ conf'.store = AddNames(conf.store)
      BY <1>0, <2>2 DEF ConfType, AddNames
    <3>4. /\ "file" \in conf'.store <=> flags.params
          /\ "names" \in conf'.store <=> flags.names
      BY <3>2, <3>3 DEF AddNames
    <3>5. StoreIsConfigured'
      BY <1>0, <3>1, <3>4, FlagsType DEF StoreIsConfigured
    <3>6. EvaluatorIsConfigured'
      BY <3>1, <3>2, <3>3, <3>5 DEF EvaluatorIsConfigured
    <3>7. StartUpInv'
      BY <1>0, <3>1, <3>3, <3>6 DEF StartUpInv, FlagsChecked
    <3> QED BY <3>1, <3>3, <3>7, StartUpStep
  <2> QED BY <1>6, <2>1, <2>2 DEF NewEmbedded
<1>7. CASE startAdminAPI
  <2>1. /\ main = "admin" /\ main' = "proxy" /\ UNCHANGED <<flags, listening, conns>>
        /\ conf' = [conf EXCEPT !.admin = IF flags.admin THEN "starting" ELSE "none"]
    BY <1>7 DEF startAdminAPI, Continue, serveVars
  <2>2. /\ conf' \in ConfType /\ conf'.schema = conf.schema
        /\ conf'.mode = conf.mode /\ conf'.store = conf.store
    BY <1>0, <2>1 DEF ConfType
  <2>3. EvaluatorIsConfigured'
    BY <1>0, <2>1, <2>2 DEF StartUpInv, EvaluatorIsConfigured, StoreIsConfigured
  <2>4. StartUpInv'
    BY <1>0, <2>1, <2>2, <2>3 DEF StartUpInv, FlagsChecked
  <2> QED BY <2>1, <2>2, <2>4, StartUpStep
<1>8. CASE NewProxy
  <2>1. CASE Fatal
    BY <1>1, <2>1 DEF Fatal
  <2>2. CASE flags.upstream /\ Continue("limiter") /\ UNCHANGED conf
    <3>1. main = "proxy" /\ main' = "limiter" /\ UNCHANGED <<flags, conf, listening, conns>>
      BY <1>8, <2>2 DEF NewProxy, Continue, serveVars
    <3>2. StartUpInv'
      BY <1>0, <2>2, <3>1
      DEF StartUpInv, FlagsChecked, EvaluatorIsConfigured, StoreIsConfigured
    <3> QED BY <1>0, <3>1, <3>2, StartUpStep
  <2> QED BY <1>8, <2>1, <2>2 DEF NewProxy
<1>9. CASE SetUpServer
  <2>1. /\ main = "limiter" /\ main' = "listen" /\ UNCHANGED <<flags, listening, conns>>
        /\ conf' = [conf EXCEPT !.limiter = flags.rate,
                                !.metrics = IF flags.metrics THEN "own" ELSE "main"]
    BY <1>9 DEF SetUpServer
  <2>2. /\ conf' \in ConfType /\ conf'.schema = conf.schema
        /\ conf'.mode = conf.mode /\ conf'.store = conf.store
        /\ conf'.limiter = flags.rate
        /\ conf'.metrics = IF flags.metrics THEN "own" ELSE "main"
    BY <1>0, <2>1, FlagsType DEF ConfType
  <2>3. EvaluatorIsConfigured'
    BY <1>0, <2>1, <2>2 DEF StartUpInv, EvaluatorIsConfigured, StoreIsConfigured
  <2>4. ServerIsConfigured'
    <3>1. conf'.metrics = "main" <=> ~flags'.metrics
      BY <2>1, <2>2
    <3> QED BY <1>0, <2>1, <2>2, <3>1, FlagsType DEF ServerIsConfigured
  <2>5. StartUpInv'
    BY <1>0, <2>1, <2>2, <2>3, <2>4 DEF StartUpInv, FlagsChecked
  <2> QED BY <2>1, <2>2, <2>5, StartUpStep
<1>10. ASSUME main \in {"listen", "serving"}, main' \in {"serving", "returning"},
              UNCHANGED <<flags, conf, conns>>, listening' => main' = "serving"
       PROVE  IInv'
  <2>1. StartUpInv'
    BY <1>0, <1>10 DEF StartUpInv, FlagsChecked, EvaluatorIsConfigured, StoreIsConfigured,
                       ServerIsConfigured
  <2>2. Ready => Ready'
    BY <1>10 DEF Ready, FlagsChecked, EvaluatorIsConfigured, StoreIsConfigured, ServerIsConfigured
  <2>3. Served' => Served
    BY <1>10 DEF Served
  <2> QED BY <1>10, <2>1, <2>2, <2>3 DEF IInv
<1>11. CASE Listen
  <2>1. CASE Fatal
    BY <1>1, <2>1 DEF Fatal
  <2>2. CASE LeaveServe
    BY <1>10, <1>11, <2>2 DEF Listen, LeaveServe, IInv
  <2>3. CASE /\ main' = "serving" /\ listening' = TRUE
             /\ UNCHANGED <<flags, conf, conns, sigCh, shutdown, cleanup>>
    BY <1>10, <1>11, <2>3 DEF Listen
  <2> QED BY <1>11, <2>1, <2>2, <2>3 DEF Listen
<1>12. CASE ServeReturns
  BY <1>10, <1>12 DEF ServeReturns, LeaveServe
<1>13. CASE AdminListens \/ AdminUpdate
  <2>1. /\ conf.admin \in {"starting", "up"} /\ main # "exited"
        /\ UNCHANGED <<flags, main, listening, conns>>
    BY <1>13 DEF AdminListens, AdminUpdate, Running, serveVars
  <2>2. main \in Proxied \cup {"proxy"}
    BY <1>0, <2>1 DEF StartUpInv, IInv
  <2>3. /\ conf' \in ConfType /\ conf'.schema = conf.schema /\ conf'.mode = conf.mode
        /\ conf'.limiter = conf.limiter /\ conf'.metrics = conf.metrics
        /\ conf'.store = conf.store \/ conf'.store = {"admin"}
    <3>1. CASE AdminListens
      BY <1>0, <3>1 DEF AdminListens, ConfType
    <3>2. CASE AdminUpdate
      BY <1>0, <3>2 DEF AdminUpdate, ConfType
    <3> QED BY <1>13, <3>1, <3>2
  <2>4. EvaluatorIsConfigured => EvaluatorIsConfigured'
    BY <2>1, <2>3 DEF EvaluatorIsConfigured, StoreIsConfigured
  <2>5. ServerIsConfigured => ServerIsConfigured'
    BY <2>1, <2>3 DEF ServerIsConfigured
  <2>6. StartUpInv'
    BY <1>0, <2>1, <2>2, <2>3, <2>4, <2>5 DEF StartUpInv, FlagsChecked
  <2>7. Ready => Ready'
    BY <2>1, <2>3, <2>4, <2>5 DEF Ready, FlagsChecked
  <2>8. Served' => Served
    BY <2>1 DEF Served
  <2> QED BY <2>1, <2>3, <2>6, <2>7, <2>8 DEF IInv
<1>14. ASSUME NEW c \in Conns, Accept(c) PROVE IInv'
  <2>1. /\ main = "serving" /\ UNCHANGED <<flags, main, conf, listening>>
        /\ conns' = [conns EXCEPT ![c] = "active"]
    BY <1>14 DEF Accept, IInv
  <2> QED BY <2>1, ServeStep DEF IInv
<1>15. ASSUME NEW c \in Conns, Respond(c) PROVE IInv'
  <2>1. /\ UNCHANGED <<flags, main, conf, listening>>
        /\ conns' = [conns EXCEPT ![c] = "answered"] /\ conns[c] = "active"
    BY <1>15 DEF Respond
  <2>2. Served
    BY <2>1 DEF Served
  <2> QED BY <2>1, <2>2, ServeStep DEF IInv
<1>16. CASE Signal
  <2>1. CASE EndProcess
    BY <1>1, <2>1
  <2>2. CASE UNCHANGED <<flags, main, conf, listening, conns, shutdown, cleanup>>
    BY <2>2, ServeStep DEF IInv, Served
  <2> QED BY <1>16, <2>1, <2>2 DEF Signal
<1>17. CASE Notify \/ CloseListener \/ ShutdownReturns \/ UNCHANGED vars
  <2>1. UNCHANGED <<flags, main, conf, conns>> /\ (listening' => listening)
    BY <1>17 DEF Notify, CloseListener, ShutdownReturns, vars, serveVars
  <2> QED BY <2>1, ServeStep DEF IInv, Served
<1>18. CASE MainReturns \/ ServeFails
  BY <1>1, <1>18 DEF MainReturns, ServeFails, Fatal
<1> QED
  BY <1>2, <1>3, <1>4, <1>5, <1>6, <1>7, <1>8, <1>9, <1>11, <1>12, <1>13, <1>14, <1>15, <1>16,
     <1>17, <1>18
  DEF Next, StartUp

\* For every command line, whatever start-up meets and whenever signals and admin
\* updates come: a request is accepted only after every step of start-up has been
\* taken and none has failed (cmd/server/main.go, main).
THEOREM ProcessStartsWhole == Spec => []NoPartialStart
<1>1. IInv => NoPartialStart
  BY DEF IInv, NoPartialStart, Served, Ready, FlagsChecked, EvaluatorIsConfigured,
         StoreIsConfigured, ServerIsConfigured
<1> QED BY <1>1, LifecycleInit, LifecycleStep, PTL DEF Spec

=============================================================================
