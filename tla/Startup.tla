------------------------------ MODULE Startup -------------------------------
(***************************************************************************)
(* types/readconfig.go and main.go: the gateway reads its settings from    *)
(* the environment, exits if they make no sense, builds its handlers and   *)
(* their wrappers, connects to the queue, registers the routes and         *)
(* listens.  A goroutine serves the metrics on a port of its own; either   *)
(* server that cannot listen ends the process.                             *)
(***************************************************************************)
EXTENDS Integers, Sequences

CONSTANTS
  Seconds,     \* that upstream_timeout may name, with either sign
  Second,      \* time.Second: its nanoseconds
  Half         \* half the width of an int64, which is a time.Duration too

ASSUME StartupAssumption ==
  /\ Seconds \subseteq Nat
  /\ Second \in Nat \ {0}
  /\ Half \in Nat
  /\ 60 * Second < Half

VARIABLES
  env,             \* the environment, as the settings in it are spelt
  pc,              \* of main
  config,          \* GatewayConfig
  credentials,     \* nil, or read
  handlers,        \* HandlerSet: the wrappers of each, the outermost first
  routes,          \* what the router serves, and with which wrappers
  queue,           \* the connection to NATS Streaming
  metricsServer    \* the goroutine of runMetricsServer

settingVars == <<env, config, credentials>>
servedVars  == <<handlers, routes, queue>>
startVars   == <<pc, settingVars, servedVars, metricsServer>>

Urls == {"unset", "bad", "good"}

Timeouts ==
  [unit : {"none", "some"}, value : Seconds \cup {-n : n \in Seconds}]
    \cup [unit : {"malformed"}, value : {0}]

(* numbers stands for faas_prometheus_port, max_idle_conns and             *)
(* max_idle_conns_per_host, which are read alike.                          *)
Environments ==
  [functions_provider_url : Urls,
   logs_provider_url      : Urls,
   faas_nats_address      : {"unset", "good"},
   faas_nats_port         : {"unset", "bad", "good"},
   numbers                : {"bad", "good"},
   basic_auth             : {"true", "TRUE"},
   scale_from_zero        : {"true", "TRUE"},
   upstream_timeout       : Timeouts]

Durations == -Half .. (Half - 1)

DefaultTimeout == 60 * Second

Nil == "nil"

(* The handlers that main.go decorates with basic auth. *)
Sensitive ==
  {"Alert", "UpdateFunction", "DeleteFunction", "DeployFunction", "ListFunctions",
   "ScaleFunction", "FunctionStatus", "InfoHandler", "SecretHandler",
   "LogProxyHandler", "NamespaceListerHandler", "NamespaceMutatorHandler"}

HandlerSet == Sensitive \cup {"Proxy", "QueuedProxy", "TelemetryHandler", "ui"}

(* Where the route of each handler begins. *)
Prefix(h) ==
  CASE h = "Proxy" -> "/function"
    [] h = "QueuedProxy" -> "/async-function"
    [] h = "ui" -> "/ui"
    [] OTHER -> "/system"

Wrappers == {"auth", "scaling", "callId", "notify", "metrics", "info", "horizontal"}

Chains == Seq(Wrappers)

Configs ==
  [FunctionsProviderURL : {Nil, "good"},
   LogsProviderURL      : {Nil, "good"},
   NATSAddress          : {Nil, "good"},
   NATSPort             : {Nil, "good"},
   UseBasicAuth         : BOOLEAN,
   ScaleFromZero        : BOOLEAN,
   UpstreamTimeout      : Durations]

Steps == {"reading", "checking", "authenticating", "building", "queuing", "wrapping",
          "guarding", "routing", "measuring", "listening", "serving", "exited", "crashed"}

StartTypeOK ==
  /\ env \in Environments
  /\ pc \in Steps
  /\ config \in Configs
  /\ credentials \in {Nil, "read"}
  /\ \A h \in DOMAIN handlers : h \in HandlerSet /\ handlers[h] \in Chains
  /\ \A h \in DOMAIN routes : h \in HandlerSet /\ routes[h] \in Chains
  /\ queue \in {"none", "connected"}
  /\ metricsServer \in {"none", "starting", "up"}

Init ==
  /\ env \in Environments
  /\ pc = "reading"
  /\ config = [FunctionsProviderURL |-> Nil, LogsProviderURL |-> Nil, NATSAddress |-> Nil,
               NATSPort |-> Nil, UseBasicAuth |-> FALSE, ScaleFromZero |-> FALSE,
               UpstreamTimeout |-> 0]
  /\ credentials = Nil
  /\ handlers = <<>>
  /\ routes = <<>>
  /\ queue = "none"
  /\ metricsServer = "none"

------------------------------------------------------------------------------
(* readconfig.go *)

Goto(step, next) == pc = step /\ pc' = next

Given(setting) == IF setting = "unset" THEN Nil ELSE setting

(* What is left of a product of int64s. *)
Int64(n) == ((n + Half) % (2 * Half)) - Half

(* A negative number counts as one. *)
ParseAnyInt(val, fallback) ==
  CASE val.unit = "none" /\ val.value \in Durations -> Int64(val.value * Second)
    [] val.unit = "some" /\ val.value * Second \in Durations -> val.value * Second
    [] OTHER -> fallback

(* A number of seconds, or else what time.ParseDuration takes: "-5" is     *)
(* neither, "-5s" is a duration.  Atoi and ParseDuration refuse what they  *)
(* cannot hold, the multiplication of line 51 wraps around.                *)
ParseIntOrDurationValue(val, fallback) ==
  CASE val.unit = "none" /\ val.value \in 0..(Half - 1) -> Int64(val.value * Second)
    [] val.unit = "some" /\ val.value * Second \in Durations -> val.value * Second
    [] OTHER -> fallback

(* Nothing but what is set is taken. *)
LogsUrlAsGiven(e) == Given(e.logs_provider_url)

LogsUrl(e) ==
  Given(IF e.logs_provider_url = "unset" THEN e.functions_provider_url
                                         ELSE e.logs_provider_url)

(* The number is taken for what Atoi makes of it. *)
UnreadableButPort(e) ==
  "bad" \in {e.functions_provider_url, e.logs_provider_url, e.numbers}

Unreadable(e) ==
  "bad" \in {e.functions_provider_url, e.logs_provider_url, e.faas_nats_port, e.numbers}

Exit == pc' = "exited" /\ UNCHANGED <<settingVars, servedVars, metricsServer>>

ReadFails == pc = "reading" /\ Unreadable(env) /\ Exit

Read ==
  /\ Goto("reading", "checking")
  /\ ~Unreadable(env)
  /\ config' = [FunctionsProviderURL |-> Given(env.functions_provider_url),
                LogsProviderURL |-> LogsUrl(env),
                NATSAddress |-> Given(env.faas_nats_address),
                NATSPort |-> Given(env.faas_nats_port),
                UseBasicAuth |-> env.basic_auth = "true",
                ScaleFromZero |-> env.scale_from_zero = "true",
                UpstreamTimeout |->
                  ParseIntOrDurationValue(env.upstream_timeout, DefaultTimeout)]
  /\ UNCHANGED <<env, credentials, servedVars, metricsServer>>

UseExternalProvider == config.FunctionsProviderURL # Nil

UseNATS == config.NATSPort # Nil /\ config.NATSAddress # Nil

------------------------------------------------------------------------------
(* main *)

NoProvider == pc = "checking" /\ ~UseExternalProvider /\ Exit

CheckProvider ==
  /\ Goto("checking", "authenticating")
  /\ UseExternalProvider
  /\ UNCHANGED <<settingVars, servedVars, metricsServer>>

(* The secrets are not where they should be: log.Panic. *)
NoCredentials == pc = "authenticating" /\ config.UseBasicAuth /\ Exit

LoadCredentials ==
  /\ Goto("authenticating", "building")
  /\ credentials' = IF config.UseBasicAuth THEN "read" ELSE Nil
  /\ UNCHANGED <<env, config, servedVars, metricsServer>>

(* The service watcher is started, the handlers are made from pointers of  *)
(* config, and the proxy is wrapped for scaling.                           *)
BuildHandlers ==
  /\ pc = "building"
  /\ pc' = IF Nil \in {config.FunctionsProviderURL, config.LogsProviderURL}
           THEN "crashed" ELSE "queuing"
  /\ handlers' = [h \in HandlerSet \ {"ScaleFunction", "QueuedProxy"} |->
       CASE h = "Proxy" -> (IF config.ScaleFromZero THEN <<"scaling", "callId">>
                                                     ELSE <<"callId">>)
         [] h = "Alert" -> <<"notify">>
         [] h = "InfoHandler" -> <<"info">>
         [] OTHER -> <<>>]
  /\ UNCHANGED <<settingVars, routes, queue, metricsServer>>

NoQueue ==
  /\ Goto("queuing", "wrapping")
  /\ ~UseNATS
  /\ UNCHANGED <<settingVars, servedVars, metricsServer>>

(* CreateNATSQueue takes what the two pointers point to.                   *)
ConnectQueue ==
  /\ UseNATS
  /\ pc = "queuing"
  /\ IF Nil \in {config.NATSAddress, config.NATSPort}
     THEN pc' = "crashed" /\ UNCHANGED <<handlers, queue>>
     ELSE /\ pc' = "wrapping"
          /\ queue' = "connected"
          /\ handlers' = [h \in DOMAIN handlers \cup {"QueuedProxy"} |->
               IF h = "QueuedProxy" THEN <<"notify", "callId">> ELSE handlers[h]]
  /\ UNCHANGED <<settingVars, routes, metricsServer>>

ConnectFails == pc = "queuing" /\ UseNATS /\ Exit

AddWrappers ==
  /\ Goto("wrapping", "guarding")
  /\ handlers' = [h \in DOMAIN handlers \cup {"ScaleFunction"} |->
       CASE h = "ListFunctions" -> <<"metrics">> \o handlers[h]
         [] h = "ScaleFunction" -> <<"horizontal">>
         [] OTHER -> handlers[h]]
  /\ UNCHANGED <<settingVars, routes, queue, metricsServer>>

(* As if the wrappers of before went around it. *)
GuardInside ==
  /\ Goto("guarding", "routing")
  /\ handlers' = [h \in DOMAIN handlers |->
       IF credentials # Nil /\ h \in Sensitive \cup {"ui"}
       THEN handlers[h] \o <<"auth">> ELSE handlers[h]]
  /\ UNCHANGED <<settingVars, routes, queue, metricsServer>>

(* The user interface is guarded where its route is registered. *)
Guard ==
  /\ Goto("guarding", "routing")
  /\ handlers' = [h \in DOMAIN handlers |->
       IF credentials # Nil /\ h \in Sensitive \cup {"ui"}
       THEN <<"auth">> \o handlers[h] ELSE handlers[h]]
  /\ UNCHANGED <<settingVars, routes, queue, metricsServer>>

(* A route each; that of QueuedProxy if there is one. *)
Register ==
  /\ Goto("routing", "measuring")
  /\ routes' = handlers
  /\ UNCHANGED <<settingVars, handlers, queue, metricsServer>>

StartMetricsServer ==
  /\ Goto("measuring", "listening")
  /\ metricsServer' = "starting"
  /\ UNCHANGED <<settingVars, servedVars>>

Listen ==
  /\ Goto("listening", "serving")
  /\ UNCHANGED <<settingVars, servedVars, metricsServer>>

(* log.Fatal(s.ListenAndServe()) *)
ServerFails == pc \in {"listening", "serving"} /\ Exit

MetricsListen ==
  /\ pc # "exited"
  /\ metricsServer = "starting"
  /\ metricsServer' = "up"
  /\ UNCHANGED <<pc, settingVars, servedVars>>

(* The goroutine returns, and the gateway goes on. *)
MetricsReturns ==
  /\ pc # "exited"
  /\ metricsServer = "starting"
  /\ metricsServer' = "none"
  /\ UNCHANGED <<pc, settingVars, servedVars>>

(* log.Fatal here as well: the gateway goes with its metrics.              *)
MetricsFail ==
  /\ pc # "exited"
  /\ metricsServer # "none"
  /\ Exit

Boot ==
  \/ ReadFails \/ Read \/ NoProvider \/ CheckProvider \/ NoCredentials \/ LoadCredentials
  \/ BuildHandlers \/ NoQueue \/ ConnectQueue \/ ConnectFails \/ AddWrappers \/ Guard
  \/ Register \/ StartMetricsServer \/ Listen

Next == Boot \/ ServerFails \/ MetricsListen \/ MetricsFail

(* main and the goroutine are scheduled.  stan.Connect gives up after its  *)
(* ConnectWait; a port is taken or is not.                                 *)
Fairness == WF_startVars(Boot) /\ WF_startVars(MetricsListen \/ MetricsFail)

Spec == Init /\ [][Next]_startVars /\ Fairness

------------------------------------------------------------------------------
(* Properties *)

(* No setting that is left out is used: whatever the environment, main     *)
(* dereferences no nil pointer of its configuration.                       *)
NothingMissingIsUsed == pc # "crashed"

(* A gateway that serves had sound settings, and serves what they ask for: *)
(* asynchronous calls when address and port are set, and then over a       *)
(* queue that was connected; calls that scale from zero; and calls end in  *)
(* a timeout that has passed as they begin only where the setting says so, *)
(* or names more seconds than a Duration can hold.                         *)
ServesWhatIsConfigured ==
  pc = "serving" =>
    /\ ~Unreadable(env) /\ env.functions_provider_url = "good"
    /\ "QueuedProxy" \in DOMAIN routes <=>
         env.faas_nats_address = "good" /\ env.faas_nats_port = "good"
    /\ "QueuedProxy" \in DOMAIN routes => queue = "connected"
    /\ env.scale_from_zero = "true" <=> Head(routes["Proxy"]) = "scaling"
    /\ HandlerSet \ {"QueuedProxy"} \subseteq DOMAIN routes
    /\ config.UpstreamTimeout <= 0 =>
         \/ env.upstream_timeout.unit = "some" /\ env.upstream_timeout.value <= 0
         \/ env.upstream_timeout.unit = "none" /\ env.upstream_timeout.value = 0
         \/ env.upstream_timeout.unit = "none" /\ env.upstream_timeout.value * Second >= Half

AuthOutermost(h) == routes[h] # <<>> /\ Head(routes[h]) = "auth"

(* Where basic auth is asked for, it comes before anything else on every   *)
(* route under /system and /ui but /system/telemetry (main.go 192-204 and  *)
(* 217), whatever wraps their handlers and whenever they were made; calls  *)
(* of functions have none.                                                 *)
AuthIsOutermost ==
  pc = "serving" =>
    \A h \in DOMAIN routes :
      AuthOutermost(h) <=>
        /\ env.basic_auth = "true"
        /\ Prefix(h) \in {"/system", "/ui"}
        /\ h # "TelemetryHandler"

(* The gateway comes up or exits, and it does not go on serving without    *)
(* its metrics: alerts, which scale functions, depend on them.             *)
ComesUpOrExits ==
  /\ pc = "reading" ~> pc \in {"serving", "exited"}
  /\ pc = "serving" ~> metricsServer = "up" \/ pc = "exited"
=============================================================================
