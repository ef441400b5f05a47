--------------------------- MODULE Startup_proofs ---------------------------
(***************************************************************************)
(* For every environment, with any timeouts: the configuration that main   *)
(* works with is what the environment says, nothing that is missing is     *)
(* used, and what is served is what was configured.                        *)
(***************************************************************************)
EXTENDS Startup, TLAPS

(* What readconfig.go makes of an environment.                             *)
ReadFrom(e) ==
  [FunctionsProviderURL |-> Given(e.functions_provider_url),
   LogsProviderURL |-> LogsUrl(e),
   NATSAddress |-> Given(e.faas_nats_address),
   NATSPort |-> Given(e.faas_nats_port),
   UseBasicAuth |-> e.basic_auth = "true",
   ScaleFromZero |-> e.scale_from_zero = "true",
   UpstreamTimeout |-> ParseIntOrDurationValue(e.upstream_timeout, DefaultTimeout)]

(* The steps of main from some point on. *)
AfterRouting     == {"measuring", "listening", "serving"}
AfterGuarding    == {"routing"} \cup AfterRouting
AfterWrapping    == {"guarding"} \cup AfterGuarding
AfterQueuing     == {"wrapping"} \cup AfterWrapping
AfterBuilding    == {"queuing"} \cup AfterQueuing
AfterCredentials == {"building"} \cup AfterBuilding
AfterChecking    == {"authenticating"} \cup AfterCredentials
AfterReading     == {"checking"} \cup AfterChecking

(* The settings, at each step of main. *)
SettingsInv ==
  /\ pc \in AfterReading => ~Unreadable(env) /\ config = ReadFrom(env)
  /\ pc \in AfterChecking => env.functions_provider_url = "good"
  /\ pc \in AfterCredentials => (credentials # Nil <=> env.basic_auth = "true")

NatsGiven == env.faas_nats_address = "good" /\ env.faas_nats_port = "good"

Guarded(h) == handlers[h] # <<>> /\ Head(handlers[h]) = "auth"

(* The handlers that exist, and their outermost wrappers. *)
HandlersInv ==
  /\ pc \in AfterBuilding =>
       /\ HandlerSet \ {"QueuedProxy", "ScaleFunction"} \subseteq DOMAIN handlers
       /\ env.scale_from_zero = "true" <=> Head(handlers["Proxy"]) = "scaling"
  /\ pc = "queuing" => "QueuedProxy" \notin DOMAIN handlers
  /\ pc \in AfterQueuing =>
       /\ "QueuedProxy" \in DOMAIN handlers <=> NatsGiven
       /\ NatsGiven => queue = "connected"
  /\ pc \in AfterWrapping => "ScaleFunction" \in DOMAIN handlers
  /\ pc \in AfterBuilding \ AfterGuarding => \A h \in DOMAIN handlers : ~Guarded(h)
  /\ pc \in AfterGuarding =>
       \A h \in DOMAIN handlers :
         Guarded(h) <=> env.basic_auth = "true" /\ h \in Sensitive \cup {"ui"}
  /\ pc \in AfterRouting => routes = handlers

StartInv == StartTypeOK /\ pc # "crashed" /\ SettingsInv /\ HandlersInv

------------------------------------------------------------------------------
(* The settings *)

(* The steps that are left, from each on. *)
LEMMA StepSets ==
  /\ AfterRouting = {"measuring", "listening", "serving"}
  /\ AfterGuarding = {"routing", "measuring", "listening", "serving"}
  /\ AfterWrapping = {"guarding", "routing", "measuring", "listening", "serving"}
  /\ AfterQueuing = {"wrapping", "guarding", "routing", "measuring", "listening",
                     "serving"}
  /\ AfterBuilding = {"queuing", "wrapping", "guarding", "routing", "measuring",
                      "listening", "serving"}
  /\ AfterCredentials = {"building"} \cup AfterBuilding
  /\ AfterChecking = {"authenticating"} \cup AfterCredentials
  /\ AfterReading = {"checking"} \cup AfterChecking
BY DEF AfterRouting, AfterGuarding, AfterWrapping, AfterQueuing, AfterBuilding,
       AfterCredentials, AfterChecking, AfterReading

(* Whatever is left of a product is an int64, and all of it if it fits.    *)
LEMMA Int64Type ==
  ASSUME NEW n \in Int
  PROVE  /\ Int64(n) \in Durations
         /\ n \in 0..(Half - 1) => Int64(n) = n
<1>1. 2 * Half \in Nat /\ 2 * Half > 0 /\ Half \in Nat /\ n + Half \in Int
  BY StartupAssumption
<1>2. /\ (n + Half) % (2 * Half) \in 0..(2 * Half - 1)
      /\ n \in 0..(Half - 1) => (n + Half) % (2 * Half) = n + Half
  BY <1>1
<1> QED
  BY <1>1, <1>2 DEF Int64, Durations

LEMMA SecondsGrow ==
  ASSUME NEW n \in Int
  PROVE  n * Second \in Int /\ (n > 0 => n * Second > 0)
BY StartupAssumption

(* A timeout is a Duration, and has passed only if it was given so or is   *)
(* more seconds than a Duration can hold.                                  *)
LEMMA TimeoutRead ==
  ASSUME NEW val \in Timeouts
  PROVE  LET timeout == ParseIntOrDurationValue(val, DefaultTimeout)
         IN  /\ timeout \in Durations
             /\ timeout <= 0 =>
                  \/ val.unit = "some" /\ val.value <= 0
                  \/ val.unit = "none" /\ val.value = 0
                  \/ val.unit = "none" /\ val.value * Second >= Half
<1>1. /\ val.value \in Int
      /\ val.unit \in {"none", "some", "malformed"}
  <2>1. \A x \in Seconds \cup {-n : n \in Seconds} : x \in Int
    BY StartupAssumption
  <2>2. CASE val \in [unit : {"none", "some"}, value : Seconds \cup {-n : n \in Seconds}]
    BY <2>1, <2>2
  <2>3. CASE val \in [unit : {"malformed"}, value : {0}]
    BY <2>3
  <2> QED
    BY <2>2, <2>3 DEF Timeouts
<1> DEFINE product == val.value * Second
<1>2. product \in Int /\ (val.value > 0 => product > 0) /\ Half \in Nat
  BY <1>1, SecondsGrow, StartupAssumption
<1>3. CASE val.unit = "none" /\ val.value \in 0..(Half - 1)
  <2>1. ParseIntOrDurationValue(val, DefaultTimeout) = Int64(product)
    BY <1>3 DEF ParseIntOrDurationValue
  <2> HIDE DEF product
  <2>2. Int64(product) \in Durations
        /\ (product \in 0..(Half - 1) => Int64(product) = product)
    BY <1>2, Int64Type
  <2>3. Int64(product) <= 0 => val.value = 0 \/ product >= Half
    BY <1>1, <1>2, <1>3, <2>2
  <2> QED
    BY <1>3, <2>1, <2>2, <2>3 DEF product
<1>4. CASE val.unit = "some" /\ product \in Durations
  <2>1. ParseIntOrDurationValue(val, DefaultTimeout) = product
    BY <1>4 DEF ParseIntOrDurationValue
  <2> HIDE DEF product
  <2>2. product <= 0 => val.value <= 0
    BY <1>1, <1>2
  <2> QED
    BY <1>4, <2>1, <2>2
<1>5. CASE /\ ~(val.unit = "none" /\ val.value \in 0..(Half - 1))
           /\ ~(val.unit = "some" /\ product \in Durations)
  <2>1. ParseIntOrDurationValue(val, DefaultTimeout) = DefaultTimeout
    BY <1>5 DEF ParseIntOrDurationValue
  <2>2. DefaultTimeout \in Durations /\ ~(DefaultTimeout <= 0)
    BY StartupAssumption DEF DefaultTimeout, Durations
  <2> QED
    BY <2>1, <2>2
<1> QED
  BY <1>3, <1>4, <1>5

(* A readable environment makes a configuration, with a URL for the logs   *)
(* wherever there is one for functions.                                    *)
LEMMA ReadSound ==
  ASSUME NEW e \in Environments, ~Unreadable(e)
  PROVE  /\ ReadFrom(e) \in Configs
         /\ Given(e.functions_provider_url) # Nil => e.functions_provider_url = "good"
         /\ e.functions_provider_url = "good" => LogsUrl(e) # Nil
         /\ Given(e.faas_nats_address) # Nil /\ Given(e.faas_nats_port) # Nil
              <=> e.faas_nats_address = "good" /\ e.faas_nats_port = "good"
<1>1. /\ e.functions_provider_url \in {"unset", "good"}
      /\ e.logs_provider_url \in {"unset", "good"}
      /\ e.faas_nats_address \in {"unset", "good"}
      /\ e.faas_nats_port \in {"unset", "good"}
      /\ e.upstream_timeout \in Timeouts
  BY DEF Environments, Urls, Unreadable
<1>2. ParseIntOrDurationValue(e.upstream_timeout, DefaultTimeout) \in Durations
  BY <1>1, TimeoutRead
<1>3. \A s \in {"unset", "good"} :
        Given(s) \in {Nil, "good"} /\ (Given(s) # Nil <=> s = "good")
  BY DEF Given, Nil
<1>4. LogsUrl(e) \in {Nil, "good"}
      /\ (e.functions_provider_url = "good" => LogsUrl(e) # Nil)
  BY <1>1, <1>3 DEF LogsUrl
<1> QED
  BY <1>1, <1>2, <1>3, <1>4 DEF ReadFrom, Configs

------------------------------------------------------------------------------
(* The wrappers *)

LEMMA Wrap ==
  ASSUME NEW s \in Chains, NEW w \in Wrappers
  PROVE  <<w>> \o s \in Chains /\ <<w>> \o s # <<>> /\ Head(<<w>> \o s) = w
BY DEF Chains

LEMMA ShortChains ==
  /\ <<>> \in Chains
  /\ \A s \in {<<"scaling", "callId">>, <<"callId">>, <<"notify">>, <<"info">>,
              <<"notify", "callId">>, <<"horizontal">>} :
       s \in Chains /\ s # <<>> /\ Head(s) # "auth"
<1>1. ASSUME NEW v \in Wrappers \ {"auth"}
      PROVE  <<v>> \in Chains /\ <<v>> # <<>> /\ Head(<<v>>) # "auth"
  BY DEF Chains
<1>2. ASSUME NEW v \in Wrappers \ {"auth"}, NEW w \in Wrappers
      PROVE  <<v, w>> \in Chains /\ <<v, w>> # <<>> /\ Head(<<v, w>>) # "auth"
  BY DEF Chains
<1>3. <<>> \in Chains
  BY DEF Chains
<1>4. {"scaling", "callId", "notify", "info", "horizontal"} \subseteq Wrappers \ {"auth"}
  BY DEF Wrappers
<1>5. \A s \in {<<"callId">>, <<"notify">>, <<"info">>, <<"horizontal">>} :
        s \in Chains /\ s # <<>> /\ Head(s) # "auth"
  BY <1>1, <1>4
<1>6. \A s \in {<<"scaling", "callId">>, <<"notify", "callId">>} :
        s \in Chains /\ s # <<>> /\ Head(s) # "auth"
  BY <1>2, <1>4
<1> QED
  BY <1>3, <1>5, <1>6

(* A step that leaves handlers and routes alone. *)
LEMMA ServedFrame ==
  ASSUME StartTypeOK, UNCHANGED servedVars
  PROVE  /\ \A h \in DOMAIN handlers' : h \in HandlerSet /\ handlers'[h] \in Chains
         /\ \A h \in DOMAIN routes' : h \in HandlerSet /\ routes'[h] \in Chains
         /\ queue' \in {"none", "connected"}
BY DEF StartTypeOK, servedVars

------------------------------------------------------------------------------
(* The steps *)

(* Exits, from wherever. *)
LEMMA ExitInv ==
  ASSUME StartInv, Exit
  PROVE  StartInv'
<1>1. StartTypeOK'
  BY ServedFrame DEF StartInv, StartTypeOK, Exit, settingVars, Steps
<1>2. pc' = "exited"
  BY DEF Exit
<1>3. SettingsInv' /\ HandlersInv'
  BY <1>2, StepSets DEF SettingsInv, HandlersInv
<1> QED
  BY <1>1, <1>2, <1>3 DEF StartInv

(* Steps of main up to the first handler. *)
LEMMA SettingStep ==
  ASSUME StartInv, Read \/ CheckProvider \/ LoadCredentials
  PROVE  StartInv'
<1> USE DEF StartInv
<1>1. UNCHANGED <<env, handlers, routes, queue, metricsServer>>
  BY DEF Read, CheckProvider, LoadCredentials, settingVars, servedVars
<1>2. /\ \A h \in DOMAIN handlers' : h \in HandlerSet /\ handlers'[h] \in Chains
      /\ \A h \in DOMAIN routes' : h \in HandlerSet /\ routes'[h] \in Chains
      /\ queue' \in {"none", "connected"} /\ metricsServer' \in {"none", "starting", "up"}
      /\ env' \in Environments
  BY <1>1 DEF StartTypeOK
<1>3. ASSUME pc' \in {"checking", "authenticating", "building"},
             config' \in Configs, credentials' \in {Nil, "read"}, SettingsInv'
      PROVE  StartInv'
  <2>1. StartTypeOK'
    BY <1>2, <1>3 DEF StartTypeOK, Steps
  <2>2. HandlersInv'
    BY <1>3, StepSets DEF HandlersInv
  <2> QED
    BY <1>3, <2>1, <2>2
<1>4. CASE Read
  <2>1. /\ pc' = "checking" /\ ~Unreadable(env) /\ config' = ReadFrom(env)
        /\ UNCHANGED <<env, credentials>>
    BY <1>4 DEF Read, Goto, ReadFrom
  <2>2. config' \in Configs
    BY <2>1, ReadSound DEF StartTypeOK
  <2>3. SettingsInv'
    BY <2>1, StepSets DEF SettingsInv
  <2> QED
    BY <1>3, <2>1, <2>2, <2>3 DEF StartTypeOK
<1>5. CASE CheckProvider
  <2>1. /\ pc = "checking" /\ pc' = "authenticating"
        /\ UNCHANGED <<env, config, credentials>>
        /\ config.FunctionsProviderURL # Nil
    BY <1>5 DEF CheckProvider, Goto, UseExternalProvider, settingVars
  <2>2. ~Unreadable(env) /\ config = ReadFrom(env)
    BY <2>1, StepSets DEF SettingsInv, Steps
  <2>3. env.functions_provider_url = "good"
    BY <2>1, <2>2, ReadSound DEF StartTypeOK, ReadFrom
  <2>4. SettingsInv'
    BY <2>1, <2>2, <2>3, StepSets DEF SettingsInv, Unreadable
  <2> QED
    BY <1>3, <2>1, <2>4 DEF StartTypeOK
<1>6. CASE LoadCredentials
  <2>1. /\ pc = "authenticating" /\ pc' = "building" /\ UNCHANGED <<env, config>>
        /\ credentials' = IF config.UseBasicAuth THEN "read" ELSE Nil
    BY <1>6 DEF LoadCredentials, Goto
  <2>2. ~Unreadable(env) /\ config = ReadFrom(env) /\ env.functions_provider_url = "good"
    BY <2>1, StepSets DEF SettingsInv, Steps
  <2>3. config.UseBasicAuth <=> env.basic_auth = "true"
    BY <2>2 DEF ReadFrom
  <2>4. SettingsInv' /\ credentials' \in {Nil, "read"}
    BY <2>1, <2>2, <2>3, StepSets DEF SettingsInv, Unreadable, Nil
  <2> QED
    BY <1>3, <2>1, <2>4 DEF StartTypeOK
<1> QED
  BY <1>4, <1>5, <1>6

(* What is known of the settings once they are complete. *)
LEMMA SettingsKnown ==
  ASSUME StartInv, pc \in AfterCredentials
  PROVE  /\ env \in Environments /\ ~Unreadable(env)
         /\ config.FunctionsProviderURL # Nil /\ config.LogsProviderURL # Nil
         /\ config.ScaleFromZero <=> env.scale_from_zero = "true"
         /\ UseNATS <=> NatsGiven
         /\ credentials # Nil <=> env.basic_auth = "true"
<1>1. pc \in AfterReading /\ pc \in AfterChecking
  BY StepSets
<1>2. /\ env \in Environments /\ ~Unreadable(env) /\ config = ReadFrom(env)
      /\ env.functions_provider_url = "good"
      /\ credentials # Nil <=> env.basic_auth = "true"
  BY <1>1 DEF StartInv, StartTypeOK, SettingsInv
<1>3. /\ config.FunctionsProviderURL = Given(env.functions_provider_url)
      /\ config.LogsProviderURL = LogsUrl(env)
      /\ config.ScaleFromZero <=> env.scale_from_zero = "true"
      /\ config.NATSPort = Given(env.faas_nats_port)
      /\ config.NATSAddress = Given(env.faas_nats_address)
  BY <1>2 DEF ReadFrom
<1>4. config.FunctionsProviderURL # Nil
  BY <1>2, <1>3 DEF Given, Nil
<1> QED
  BY <1>2, <1>3, <1>4, ReadSound DEF UseNATS, NatsGiven

(* A later step of main keeps the settings. *)
LEMMA SettingsFrame ==
  ASSUME StartInv, UNCHANGED settingVars,
         pc \in AfterCredentials, pc' \in AfterCredentials
  PROVE  SettingsInv'
<1>1. pc \in AfterReading /\ pc \in AfterChecking
  BY StepSets
<1>2. UNCHANGED <<env, config, credentials>>
  BY DEF settingVars
<1> QED
  BY <1>1, <1>2 DEF StartInv, SettingsInv, Unreadable, ReadFrom, LogsUrl, Given

(* Steps of main from the first handler on: what each has to establish. *)
LEMMA Later ==
  ASSUME StartInv, UNCHANGED settingVars,
         pc \in AfterCredentials, pc' \in AfterCredentials,
         \A h \in DOMAIN handlers' : h \in HandlerSet /\ handlers'[h] \in Chains,
         \A h \in DOMAIN routes' : h \in HandlerSet /\ routes'[h] \in Chains,
         queue' \in {"none", "connected"}, metricsServer' \in {"none", "starting", "up"},
         HandlersInv'
  PROVE  StartInv'
<1>1. SettingsInv'
  BY SettingsFrame
<1>2. StartTypeOK'
  BY StepSets DEF StartInv, StartTypeOK, settingVars, Steps
<1>3. pc' # "crashed"
  BY StepSets
<1> QED
  BY <1>1, <1>2, <1>3 DEF StartInv

LEMMA BuildStep ==
  ASSUME StartInv, BuildHandlers
  PROVE  StartInv'
<1>1. pc = "building" /\ UNCHANGED settingVars /\ UNCHANGED <<routes, queue, metricsServer>>
  BY DEF BuildHandlers
<1>2. pc \in AfterCredentials
  BY <1>1, StepSets DEF Steps
<1>3. /\ config.FunctionsProviderURL # Nil /\ config.LogsProviderURL # Nil
      /\ config.ScaleFromZero <=> env.scale_from_zero = "true"
  BY <1>2, SettingsKnown
<1>4. pc' = "queuing"
  BY <1>3 DEF BuildHandlers
<1> DEFINE built == HandlerSet \ {"ScaleFunction", "QueuedProxy"}
           chain(h) ==
             CASE h = "Proxy" -> (IF config.ScaleFromZero THEN <<"scaling", "callId">>
                                                          ELSE <<"callId">>)
               [] h = "Alert" -> <<"notify">>
               [] h = "InfoHandler" -> <<"info">>
               [] OTHER -> <<>>
<1>5. handlers' = [h \in built |-> chain(h)]
  BY DEF BuildHandlers
<1>6. ASSUME NEW h \in built
      PROVE  chain(h) \in Chains /\ (chain(h) # <<>> => Head(chain(h)) # "auth")
  <2>1. chain(h) \in {<<"scaling", "callId">>, <<"callId">>, <<"notify">>, <<"info">>, <<>>}
    <3>1. CASE h = "Proxy"
      BY <3>1
    <3>2. CASE h = "Alert"
      BY <3>2
    <3>3. CASE h = "InfoHandler"
      BY <3>3
    <3>4. CASE h \notin {"Proxy", "Alert", "InfoHandler"}
      BY <3>4
    <3> QED
      BY <3>1, <3>2, <3>3, <3>4
  <2> QED
    BY <2>1, ShortChains
<1>7. "Proxy" \in built /\ (Head(chain("Proxy")) = "scaling" <=> config.ScaleFromZero)
  BY DEF HandlerSet
<1> HIDE DEF chain
<1>8. /\ DOMAIN handlers' = built
      /\ \A h \in DOMAIN handlers' : handlers'[h] \in Chains /\ ~Guarded(h)'
      /\ Head(handlers'["Proxy"]) = "scaling" <=> config.ScaleFromZero
  BY <1>5, <1>6, <1>7 DEF Guarded
<1>9. HandlersInv'
  <2>1. env' = env
    BY <1>1 DEF settingVars
  <2> QED
    BY <1>3, <1>4, <1>8, <2>1, StepSets DEF HandlersInv, Steps
<1>10. pc' \in AfterCredentials
  BY <1>4, StepSets DEF Steps
<1> QED
  BY <1>1, <1>2, <1>8, <1>9, <1>10, Later DEF StartInv, StartTypeOK

(* Whether there is a queue or not: its pointers are not nil if it is used. *)
LEMMA QueueStep ==
  ASSUME StartInv, NoQueue \/ ConnectQueue
  PROVE  StartInv'
<1>1. /\ pc = "queuing" /\ UNCHANGED settingVars
      /\ UNCHANGED <<routes, metricsServer>>
  BY DEF NoQueue, ConnectQueue, Goto, servedVars
<1>2. pc \in AfterCredentials /\ pc \in AfterBuilding /\ pc \in AfterBuilding \ AfterGuarding
  BY <1>1, StepSets
<1>3. UseNATS <=> NatsGiven
  BY <1>2, SettingsKnown
<1>4. /\ HandlerSet \ {"QueuedProxy", "ScaleFunction"} \subseteq DOMAIN handlers
      /\ env.scale_from_zero = "true" <=> Head(handlers["Proxy"]) = "scaling"
      /\ "QueuedProxy" \notin DOMAIN handlers
      /\ \A h \in DOMAIN handlers : ~Guarded(h)
      /\ \A h \in DOMAIN handlers : h \in HandlerSet /\ handlers[h] \in Chains
      /\ \A h \in DOMAIN routes : h \in HandlerSet /\ routes[h] \in Chains
      /\ queue \in {"none", "connected"} /\ metricsServer \in {"none", "starting", "up"}
  BY <1>1, <1>2 DEF StartInv, StartTypeOK, HandlersInv
<1>5. env' = env /\ (NatsGiven' <=> NatsGiven)
  BY <1>1 DEF settingVars, NatsGiven
<1>6. CASE NoQueue
  <2>1. pc' = "wrapping" /\ UNCHANGED <<handlers, queue>> /\ ~NatsGiven
    BY <1>3, <1>6 DEF NoQueue, Goto, servedVars
  <2>2. HandlersInv'
    BY <1>4, <1>5, <2>1, StepSets DEF HandlersInv, Guarded
  <2>3. pc' \in AfterCredentials
    BY <2>1, StepSets
  <2> QED
    BY <1>1, <1>2, <1>4, <2>1, <2>2, <2>3, Later
<1>7. CASE ConnectQueue
  <2>1. Nil \notin {config.NATSAddress, config.NATSPort} /\ NatsGiven
    BY <1>3, <1>7 DEF ConnectQueue, UseNATS
  <2> DEFINE chain == <<"notify", "callId">>
  <2>2. /\ pc' = "wrapping" /\ queue' = "connected"
        /\ handlers' = [h \in DOMAIN handlers \cup {"QueuedProxy"} |->
                          IF h = "QueuedProxy" THEN chain ELSE handlers[h]]
    BY <1>7, <2>1 DEF ConnectQueue
  <2>3. chain \in Chains /\ Head(chain) # "auth" /\ "QueuedProxy" \in HandlerSet
    BY ShortChains DEF HandlerSet
  <2>4. "Proxy" \in DOMAIN handlers /\ "Proxy" # "QueuedProxy"
    BY <1>4 DEF HandlerSet
  <2> HIDE DEF chain
  <2>5. /\ DOMAIN handlers' = DOMAIN handlers \cup {"QueuedProxy"}
        /\ handlers'["QueuedProxy"] = chain
        /\ \A h \in DOMAIN handlers : handlers'[h] = handlers[h]
        /\ handlers'["Proxy"] = handlers["Proxy"]
    BY <1>4, <2>2, <2>4
  <2>6. /\ \A h \in DOMAIN handlers' : h \in HandlerSet /\ handlers'[h] \in Chains
        /\ \A h \in DOMAIN handlers' : ~Guarded(h)'
    BY <1>4, <2>3, <2>5 DEF Guarded
  <2>7. HandlersInv'
    BY <1>4, <1>5, <2>1, <2>2, <2>5, <2>6, StepSets DEF HandlersInv
  <2>8. pc' \in AfterCredentials
    BY <2>2, StepSets
  <2> QED
    BY <1>1, <1>2, <1>4, <2>2, <2>6, <2>7, <2>8, Later
<1> QED
  BY <1>6, <1>7

(* The list gets its metrics, scaling by hand its check. *)
LEMMA WrapStep ==
  ASSUME StartInv, AddWrappers
  PROVE  StartInv'
<1> DEFINE wrapped(h) == CASE h = "ListFunctions" -> <<"metrics">> \o handlers[h]
                           [] h = "ScaleFunction" -> <<"horizontal">>
                           [] OTHER -> handlers[h]
<1>1. /\ pc = "wrapping" /\ pc' = "guarding" /\ UNCHANGED settingVars
      /\ UNCHANGED <<routes, queue, metricsServer>>
      /\ handlers' = [h \in DOMAIN handlers \cup {"ScaleFunction"} |-> wrapped(h)]
  BY DEF AddWrappers, Goto
<1>2. /\ pc \in AfterCredentials /\ pc \in AfterBuilding /\ pc \in AfterQueuing
      /\ pc \in AfterBuilding \ AfterGuarding
  BY <1>1, StepSets
<1>3. /\ HandlerSet \ {"QueuedProxy", "ScaleFunction"} \subseteq DOMAIN handlers
      /\ env.scale_from_zero = "true" <=> Head(handlers["Proxy"]) = "scaling"
      /\ "QueuedProxy" \in DOMAIN handlers <=> NatsGiven
      /\ NatsGiven => queue = "connected"
      /\ \A h \in DOMAIN handlers : ~Guarded(h)
      /\ \A h \in DOMAIN handlers : h \in HandlerSet /\ handlers[h] \in Chains
      /\ \A h \in DOMAIN routes : h \in HandlerSet /\ routes[h] \in Chains
      /\ queue \in {"none", "connected"} /\ metricsServer \in {"none", "starting", "up"}
  BY <1>2 DEF StartInv, StartTypeOK, HandlersInv
<1>4. env' = env /\ (NatsGiven' <=> NatsGiven)
  BY <1>1 DEF settingVars, NatsGiven
<1>5. ASSUME NEW h \in DOMAIN handlers \cup {"ScaleFunction"}
      PROVE  /\ h \in HandlerSet /\ wrapped(h) \in Chains
             /\ wrapped(h) # <<>> => Head(wrapped(h)) # "auth"
  <2>1. CASE h = "ScaleFunction"
    BY <2>1, ShortChains DEF HandlerSet, Sensitive
  <2>2. CASE h = "ListFunctions"
    <3>1. "metrics" \in Wrappers /\ "metrics" # "auth" /\ handlers[h] \in Chains
      BY <1>3, <2>2 DEF Wrappers
    <3>2. wrapped(h) = <<"metrics">> \o handlers[h]
      BY <2>2
    <3> HIDE DEF wrapped
    <3> QED
      BY <1>3, <2>2, <3>1, <3>2, Wrap
  <2>3. CASE h \notin {"ScaleFunction", "ListFunctions"}
    BY <1>3, <2>3 DEF Guarded
  <2> QED
    BY <2>1, <2>2, <2>3
<1>6. wrapped("Proxy") = handlers["Proxy"] /\ "Proxy" \in DOMAIN handlers
  BY <1>3 DEF HandlerSet
<1> HIDE DEF wrapped
<1>7. /\ DOMAIN handlers' = DOMAIN handlers \cup {"ScaleFunction"}
      /\ \A h \in DOMAIN handlers' : h \in HandlerSet /\ handlers'[h] \in Chains
      /\ \A h \in DOMAIN handlers' : ~Guarded(h)'
      /\ handlers'["Proxy"] = handlers["Proxy"]
  BY <1>1, <1>5, <1>6 DEF Guarded
<1>8. HandlersInv'
  BY <1>1, <1>3, <1>4, <1>7, StepSets DEF HandlersInv
<1>9. pc' \in AfterCredentials
  BY <1>1, StepSets
<1> QED
  BY <1>1, <1>2, <1>3, <1>7, <1>8, <1>9, Later

(* Basic auth goes around the handlers it is meant for, and no others. *)
LEMMA GuardStep ==
  ASSUME StartInv, Guard
  PROVE  StartInv'
<1> DEFINE meant(h)   == credentials # Nil /\ h \in Sensitive \cup {"ui"}
           guarded(h) == IF meant(h) THEN <<"auth">> \o handlers[h] ELSE handlers[h]
<1>1. /\ pc = "guarding" /\ pc' = "routing" /\ UNCHANGED settingVars
      /\ UNCHANGED <<routes, queue, metricsServer>>
      /\ handlers' = [h \in DOMAIN handlers |-> guarded(h)]
  BY DEF Guard, Goto
<1>2. /\ pc \in AfterCredentials /\ pc \in AfterBuilding /\ pc \in AfterQueuing
      /\ pc \in AfterWrapping /\ pc \in AfterBuilding \ AfterGuarding
  BY <1>1, StepSets
<1>3. /\ HandlerSet \ {"QueuedProxy", "ScaleFunction"} \subseteq DOMAIN handlers
      /\ env.scale_from_zero = "true" <=> Head(handlers["Proxy"]) = "scaling"
      /\ "QueuedProxy" \in DOMAIN handlers <=> NatsGiven
      /\ NatsGiven => queue = "connected"
      /\ "ScaleFunction" \in DOMAIN handlers
      /\ \A h \in DOMAIN handlers : ~Guarded(h)
      /\ \A h \in DOMAIN handlers : h \in HandlerSet /\ handlers[h] \in Chains
      /\ \A h \in DOMAIN routes : h \in HandlerSet /\ routes[h] \in Chains
      /\ queue \in {"none", "connected"} /\ metricsServer \in {"none", "starting", "up"}
  BY <1>2 DEF StartInv, StartTypeOK, HandlersInv
<1>4. env' = env /\ (NatsGiven' <=> NatsGiven)
  BY <1>1 DEF settingVars, NatsGiven
<1>5. credentials # Nil <=> env.basic_auth = "true"
  BY <1>2, SettingsKnown
<1>6. ASSUME NEW h \in DOMAIN handlers
      PROVE  /\ guarded(h) \in Chains
             /\ guarded(h) # <<>> /\ Head(guarded(h)) = "auth" <=> meant(h)
  <2>1. handlers[h] \in Chains /\ "auth" \in Wrappers
    BY <1>3 DEF Wrappers
  <2>2. CASE meant(h)
    <3>1. guarded(h) = <<"auth">> \o handlers[h]
      BY <2>2
    <3> HIDE DEF guarded, meant
    <3> QED
      BY <2>1, <2>2, <3>1, Wrap
  <2>3. CASE ~meant(h)
    <3>1. guarded(h) = handlers[h]
      BY <2>3
    <3> HIDE DEF guarded, meant
    <3> QED
      BY <1>3, <2>1, <2>3, <3>1 DEF Guarded
  <2> QED
    BY <2>2, <2>3
<1>7. guarded("Proxy") = handlers["Proxy"] /\ "Proxy" \in DOMAIN handlers
  BY <1>3 DEF HandlerSet, Sensitive
<1>8. \A h : meant(h) <=> env.basic_auth = "true" /\ h \in Sensitive \cup {"ui"}
  BY <1>5
<1> HIDE DEF guarded, meant
<1>9. /\ DOMAIN handlers' = DOMAIN handlers
      /\ \A h \in DOMAIN handlers' : h \in HandlerSet /\ handlers'[h] \in Chains
      /\ \A h \in DOMAIN handlers' : Guarded(h)' <=> meant(h)
      /\ handlers'["Proxy"] = handlers["Proxy"]
  BY <1>1, <1>3, <1>6, <1>7 DEF Guarded
<1>10. HandlersInv'
  BY <1>1, <1>3, <1>4, <1>8, <1>9, StepSets DEF HandlersInv
<1>11. pc' \in AfterCredentials
  BY <1>1, StepSets
<1> QED
  BY <1>1, <1>2, <1>3, <1>9, <1>10, <1>11, Later

(* The routes are what the handlers have become; then main listens. *)
LEMMA ServeStep ==
  ASSUME StartInv, Register \/ StartMetricsServer \/ Listen
  PROVE  StartInv'
<1>1. /\ pc \in {"routing", "measuring", "listening"}
      /\ pc' \in {"measuring", "listening", "serving"}
      /\ UNCHANGED settingVars /\ UNCHANGED <<handlers, queue>>
      /\ metricsServer' \in {metricsServer, "starting"}
      /\ \/ routes' = handlers
         \/ pc \in AfterRouting /\ routes' = routes
  BY StepSets DEF Register, StartMetricsServer, Listen, Goto, servedVars
<1>2. /\ pc \in AfterCredentials /\ pc \in AfterBuilding /\ pc \in AfterQueuing
      /\ pc \in AfterWrapping /\ pc \in AfterGuarding
  BY <1>1, StepSets
<1>3. /\ HandlerSet \ {"QueuedProxy", "ScaleFunction"} \subseteq DOMAIN handlers
      /\ env.scale_from_zero = "true" <=> Head(handlers["Proxy"]) = "scaling"
      /\ "QueuedProxy" \in DOMAIN handlers <=> NatsGiven
      /\ NatsGiven => queue = "connected"
      /\ "ScaleFunction" \in DOMAIN handlers
      /\ \A h \in DOMAIN handlers :
           Guarded(h) <=> env.basic_auth = "true" /\ h \in Sensitive \cup {"ui"}
      /\ \A h \in DOMAIN handlers : h \in HandlerSet /\ handlers[h] \in Chains
      /\ \A h \in DOMAIN routes : h \in HandlerSet /\ routes[h] \in Chains
      /\ queue \in {"none", "connected"} /\ metricsServer \in {"none", "starting", "up"}
      /\ pc \in AfterRouting => routes = handlers
  BY <1>2 DEF StartInv, StartTypeOK, HandlersInv
<1>4. env' = env /\ (NatsGiven' <=> NatsGiven)
  BY <1>1 DEF settingVars, NatsGiven
<1>5. routes' = handlers'
  BY <1>1, <1>3
<1>6. /\ handlers' = handlers
      /\ \A h : Guarded(h)' <=> Guarded(h)
  BY <1>1 DEF Guarded
<1>7. HandlersInv'
  BY <1>1, <1>3, <1>4, <1>5, <1>6, StepSets DEF HandlersInv
<1>8. pc' \in AfterCredentials
  BY <1>1, StepSets
<1> QED
  BY <1>1, <1>2, <1>3, <1>5, <1>6, <1>7, <1>8, Later

(* The goroutine of the metrics server, at any time. *)
LEMMA MetricsStep ==
  ASSUME StartInv, MetricsListen \/ UNCHANGED startVars
  PROVE  StartInv'
<1>1. /\ UNCHANGED <<pc, env, config, credentials, handlers, routes, queue>>
      /\ metricsServer' \in {metricsServer, "up"}
  BY DEF MetricsListen, startVars, settingVars, servedVars
<1>2. StartTypeOK'
  BY <1>1 DEF StartInv, StartTypeOK
<1>3. SettingsInv'
  BY <1>1 DEF StartInv, SettingsInv, Unreadable, ReadFrom, LogsUrl, Given
<1>4. HandlersInv'
  BY <1>1 DEF StartInv, HandlersInv, NatsGiven, Guarded
<1> QED
  BY <1>1, <1>2, <1>3, <1>4 DEF StartInv

LEMMA InitInv == Init => StartInv
<1> SUFFICES ASSUME Init PROVE StartInv
  OBVIOUS
<1>1. /\ pc = "reading" /\ config \in Configs
      /\ \A h \in DOMAIN handlers : h \in HandlerSet /\ handlers[h] \in Chains
      /\ \A h \in DOMAIN routes : h \in HandlerSet /\ routes[h] \in Chains
  <2>1. 0 \in Durations
    BY StartupAssumption DEF Durations
  <2> QED
    BY <2>1 DEF Init, Configs
<1>2. StartTypeOK
  BY <1>1 DEF Init, StartTypeOK, Steps
<1>3. SettingsInv /\ HandlersInv
  BY <1>1, StepSets DEF SettingsInv, HandlersInv
<1> QED
  BY <1>1, <1>2, <1>3 DEF StartInv

(* StartInv is inductive. *)
LEMMA NextInv == StartInv /\ [Next]_startVars => StartInv'
<1> SUFFICES ASSUME StartInv, [Next]_startVars PROVE StartInv'
  OBVIOUS
<1>1. CASE \/ ReadFails \/ NoProvider \/ NoCredentials \/ ConnectFails
           \/ ServerFails \/ MetricsFail
  BY <1>1, ExitInv DEF ReadFails, NoProvider, NoCredentials, ConnectFails,
                       ServerFails, MetricsFail
<1> QED
  BY <1>1, SettingStep, BuildStep, QueueStep, WrapStep, GuardStep, ServeStep, MetricsStep
  DEF Next, Boot

LEMMA StartInvariant == Spec => []StartInv
BY InitInv, NextInv, PTL DEF Spec

------------------------------------------------------------------------------
(* Theorems *)

(* main keeps its types, whatever the environment and however large the    *)
(* timeouts in it: each is an int64 in the end, and every handler that is  *)
(* made or served is one of HandlerSet.                                    *)
THEOREM StartTypeCorrect == Spec => []StartTypeOK
<1>1. StartInv => StartTypeOK
  BY DEF StartInv
<1> QED
  BY <1>1, StartInvariant, PTL

(* Whatever the environment, main dereferences no pointer of its           *)
(* configuration that is nil: neither the URL of the provider nor that of  *)
(* the logs, which it stands in for, nor the address and port of the queue *)
(* (main.go 74-113, 153 and 174).                                          *)
THEOREM NoNilIsUsed == Spec => []NothingMissingIsUsed
<1>1. StartInv => NothingMissingIsUsed
  BY DEF StartInv, NothingMissingIsUsed
<1> QED
  BY <1>1, StartInvariant, PTL

(* What is known when main serves. *)
LEMMA Serving ==
  ASSUME StartInv, pc = "serving"
  PROVE  /\ env \in Environments /\ ~Unreadable(env) /\ config = ReadFrom(env)
         /\ env.functions_provider_url = "good"
         /\ HandlerSet \ {"QueuedProxy"} \subseteq DOMAIN handlers
         /\ env.scale_from_zero = "true" <=> Head(handlers["Proxy"]) = "scaling"
         /\ "QueuedProxy" \in DOMAIN handlers <=> NatsGiven
         /\ NatsGiven => queue = "connected"
         /\ \A h \in DOMAIN handlers :
              /\ h \in HandlerSet
              /\ Guarded(h) <=> env.basic_auth = "true" /\ h \in Sensitive \cup {"ui"}
         /\ routes = handlers
<1>1. /\ pc \in AfterReading /\ pc \in AfterChecking /\ pc \in AfterBuilding
      /\ pc \in AfterQueuing /\ pc \in AfterWrapping /\ pc \in AfterGuarding
      /\ pc \in AfterRouting
  BY StepSets
<1>2. /\ env \in Environments /\ ~Unreadable(env) /\ config = ReadFrom(env)
      /\ env.functions_provider_url = "good"
      /\ \A h \in DOMAIN handlers : h \in HandlerSet
  BY <1>1 DEF StartInv, StartTypeOK, SettingsInv
<1>3. /\ HandlerSet \ {"QueuedProxy", "ScaleFunction"} \subseteq DOMAIN handlers
      /\ env.scale_from_zero = "true" <=> Head(handlers["Proxy"]) = "scaling"
      /\ "QueuedProxy" \in DOMAIN handlers <=> NatsGiven
      /\ NatsGiven => queue = "connected"
      /\ "ScaleFunction" \in DOMAIN handlers
      /\ \A h \in DOMAIN handlers :
           Guarded(h) <=> env.basic_auth = "true" /\ h \in Sensitive \cup {"ui"}
      /\ routes = handlers
  BY <1>1 DEF StartInv, HandlersInv
<1> QED
  BY <1>2, <1>3

(* A gateway that serves, serves what its environment asks for: for every  *)
(* environment that readconfig.go can be given, with timeouts of any size, *)
(* those included that a Duration cannot hold.                             *)
THEOREM ServesConfigured == Spec => []ServesWhatIsConfigured
<1>1. ASSUME StartInv, pc = "serving"
      PROVE  ServesWhatIsConfigured
  <2>1. config.UpstreamTimeout <= 0 =>
          \/ env.upstream_timeout.unit = "some" /\ env.upstream_timeout.value <= 0
          \/ env.upstream_timeout.unit = "none" /\ env.upstream_timeout.value = 0
          \/ env.upstream_timeout.unit = "none" /\ env.upstream_timeout.value * Second >= Half
    <3>1. /\ env.upstream_timeout \in Timeouts
          /\ config.UpstreamTimeout =
               ParseIntOrDurationValue(env.upstream_timeout, DefaultTimeout)
      BY <1>1, Serving DEF Environments, ReadFrom
    <3> QED
      BY <3>1, TimeoutRead
  <2> QED
    BY <1>1, <2>1, Serving DEF ServesWhatIsConfigured, NatsGiven
<1>2. StartInv => ServesWhatIsConfigured
  BY <1>1 DEF ServesWhatIsConfigured
<1> QED
  BY <1>2, StartInvariant, PTL

(* The handlers that main.go lists for basic auth are those whose routes   *)
(* are under /system or /ui, but for telemetry.                            *)
LEMMA SensitiveRoutes ==
  ASSUME NEW h \in HandlerSet
  PROVE  h \in Sensitive \cup {"ui"} <=>
           Prefix(h) \in {"/system", "/ui"} /\ h # "TelemetryHandler"
<1>1. CASE h \in Sensitive
  <2>1. h \notin {"Proxy", "QueuedProxy", "ui", "TelemetryHandler"}
    BY <1>1 DEF Sensitive
  <2>2. Prefix(h) = "/system"
    BY <2>1 DEF Prefix
  <2> QED
    BY <1>1, <2>1, <2>2
<1>2. CASE h = "Proxy" \/ h = "QueuedProxy"
  <2>1. Prefix(h) \in {"/function", "/async-function"} /\ h \notin Sensitive \cup {"ui"}
    BY <1>2 DEF Prefix, Sensitive
  <2> QED
    BY <2>1
<1>3. CASE h = "TelemetryHandler"
  BY <1>3 DEF Sensitive
<1>4. CASE h = "ui"
  BY <1>4 DEF Prefix
<1> QED
  BY <1>1, <1>2, <1>3, <1>4 DEF HandlerSet

(* Basic auth, where it is asked for, is in front of every route under     *)
(* /system and /ui except /system/telemetry, and of no other (main.go      *)
(* 192-204 against 211-250).                                               *)
THEOREM AuthInFront == Spec => []AuthIsOutermost
<1>1. ASSUME StartInv, pc = "serving"
      PROVE  AuthIsOutermost
  <2>1. ASSUME NEW h \in DOMAIN routes
        PROVE  AuthOutermost(h) <=>
                 /\ env.basic_auth = "true"
                 /\ Prefix(h) \in {"/system", "/ui"}
                 /\ h # "TelemetryHandler"
    <3>1. /\ h \in HandlerSet
          /\ AuthOutermost(h) <=> env.basic_auth = "true" /\ h \in Sensitive \cup {"ui"}
      BY <1>1, <2>1, Serving DEF AuthOutermost, Guarded
    <3> QED
      BY <3>1, SensitiveRoutes
  <2> QED
    BY <2>1 DEF AuthIsOutermost
<1>2. StartInv => AuthIsOutermost
  BY <1>1 DEF AuthIsOutermost
<1> QED
  BY <1>2, StartInvariant, PTL
=============================================================================
