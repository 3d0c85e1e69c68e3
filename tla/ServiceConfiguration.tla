------------------------- MODULE ServiceConfiguration -------------------------
(***************************************************************************)
(* How the environment becomes the configuration, and who reads it.        *)
(*                                                                         *)
(*   src/config/loader.ts     envSchema, initializeConfig                  *)
(*   src/config/schemas.ts    the ranges, AppConfigSchema                  *)
(*   src/config/defaults.ts, src/config/helpers.ts, src/config/config.ts   *)
(*                                                                         *)
(* An environment maps the variables that are set to their values.  Of the *)
(* variables that are only passed on, the model keeps those whose range in *)
(* the environment differs from their range in the configuration, and PORT *)
(* for all the others.  Text that is no number is out of range, as 0 is.   *)
(***************************************************************************)
EXTENDS Integers

VARIABLES
    environment,        \* the variables of the process that are set
    cachedConfig,       \* getConfig's configuration: a set of at most one
    proxyConfig,        \* the copy behind the exported proxy, likewise
    loadedFrom,         \* the environment cachedConfig was made of
    startRefused        \* the last load threw

configurationVars == <<environment, cachedConfig, proxyConfig, loadedFrom, startRefused>>

\* { ...defaults, ...given }
Spread(defaults, given) ==
    [n \in DOMAIN defaults \cup DOMAIN given |->
        IF n \in DOMAIN given THEN given[n] ELSE defaults[n]]

(***************************************************************************)
(* Defaults                                                                *)
(***************************************************************************)
\* Switches that are on and off unless the environment says otherwise.
DefaultOn == {"CIRCUIT_BREAKER_ENABLED", "CACHE_CB_ENABLED", "CACHE_HEALTH_MONITOR_ENABLED",
              "CONTINUOUS_PROFILING_AUTO_TRIGGER_ON_SLA"}
DefaultOff == {"HIGH_AVAILABILITY", "OTEL_RUNTIME_METRICS_ENABLED", "PROFILING_ENABLED",
               "CONTINUOUS_PROFILING_ENABLED"}
Switches == DefaultOn \cup DefaultOff
DefaultSwitches == [s \in Switches |-> s \in DefaultOn]

DefaultNumbers ==
    [PORT |-> 3000, CIRCUIT_BREAKER_VOLUME_THRESHOLD |-> 3,
     CIRCUIT_BREAKER_ROLLING_COUNT_BUCKETS |-> 10, STALE_DATA_TOLERANCE_MINUTES |-> 30,
     CACHE_CB_FAILURE_THRESHOLD |-> 5, CACHE_CB_RESET_TIMEOUT |-> 30000,
     CACHE_CB_SUCCESS_THRESHOLD |-> 2, CACHE_RECONNECT_COOLDOWN_MS |-> 60000,
     CACHE_HEALTH_MONITOR_UNHEALTHY_THRESHOLD |-> 3,
     CACHE_HEALTH_MONITOR_HEALTHY_THRESHOLD |-> 2, CACHE_TIMEOUT_SCAN_MS |-> 5000,
     CACHE_TIMEOUT_PING_MS |-> 500, CONTINUOUS_PROFILING_THROTTLE_MINUTES |-> 60]
Numbers == DOMAIN DefaultNumbers

\* The least and the greatest number that envSchema lets through.
EnvRange ==
    [PORT |-> <<1, 65535>>, CIRCUIT_BREAKER_VOLUME_THRESHOLD |-> <<1, 100>>,
     CIRCUIT_BREAKER_ROLLING_COUNT_BUCKETS |-> <<1, 20>>,
     STALE_DATA_TOLERANCE_MINUTES |-> <<1, 120>>, CACHE_CB_FAILURE_THRESHOLD |-> <<1, 100>>,
     CACHE_CB_RESET_TIMEOUT |-> <<1000, 300000>>, CACHE_CB_SUCCESS_THRESHOLD |-> <<1, 20>>,
     CACHE_RECONNECT_COOLDOWN_MS |-> <<10000, 300000>>,
     CACHE_HEALTH_MONITOR_UNHEALTHY_THRESHOLD |-> <<1, 20>>,
     CACHE_HEALTH_MONITOR_HEALTHY_THRESHOLD |-> <<1, 20>>,
     CACHE_TIMEOUT_SCAN_MS |-> <<100, 30000>>, CACHE_TIMEOUT_PING_MS |-> <<50, 5000>>]

\* The range in the schema of the merged configuration, where it is another one.
KongRange ==
    [CIRCUIT_BREAKER_VOLUME_THRESHOLD |-> <<1, 1000>>,
     CIRCUIT_BREAKER_ROLLING_COUNT_BUCKETS |-> <<2, 50>>]
CacheRange ==
    [STALE_DATA_TOLERANCE_MINUTES |-> <<5, 240>>, CACHE_CB_FAILURE_THRESHOLD |-> <<1, 20>>,
     CACHE_CB_RESET_TIMEOUT |-> <<5000, 300000>>, CACHE_CB_SUCCESS_THRESHOLD |-> <<1, 10>>,
     CACHE_RECONNECT_COOLDOWN_MS |-> <<10000, 600000>>,
     CACHE_HEALTH_MONITOR_UNHEALTHY_THRESHOLD |-> <<1, 10>>,
     CACHE_HEALTH_MONITOR_HEALTHY_THRESHOLD |-> <<1, 10>>,
     CACHE_TIMEOUT_SCAN_MS |-> <<1000, 30000>>, CACHE_TIMEOUT_PING_MS |-> <<100, 5000>>]
ProfilingRange == [CONTINUOUS_PROFILING_THROTTLE_MINUTES |-> <<1, 1440>>]
ConfigRange == Spread(Spread(Spread(EnvRange, ProfilingRange), CacheRange), KongRange)

InRange(numbers, ranges) ==
    \A n \in DOMAIN numbers \cap DOMAIN ranges :
        ranges[n][1] <= numbers[n] /\ numbers[n] <= ranges[n][2]

(***************************************************************************)
(* Environments: the required variables, with one switch or one number, or *)
(* with some of the texts that are read together                           *)
(***************************************************************************)
Required == [KONG_JWT_AUTHORITY |-> "authority", KONG_JWT_AUDIENCE |-> "audience",
             KONG_ADMIN_URL |-> "remote", KONG_ADMIN_TOKEN |-> "long"]

\* The required variables and one more.
With(name, value) == Spread(Required, [n \in {name} |-> value])

SetOf(names, env) == [n \in names \cap DOMAIN env |-> env[n]]

Boundaries(n) ==
    LET ends(range) == {range[1] - 1, range[1], range[2], range[2] + 1}
    IN  ends(ConfigRange[n]) \cup IF n \in DOMAIN EnvRange THEN ends(EnvRange[n]) ELSE {}

\* Texts that are read together, each of which may be left unset.
KongTexts ==
    [NODE_ENV : {"unset", "production", "unheard of"}, KONG_MODE : {"unset", "KONNECT"},
     KONG_ADMIN_TOKEN : {"unset", "", "short"}, KONG_ADMIN_URL : {"unset", "localhost"},
     OTEL_SERVICE_NAME : {"unset", "test"}]
OtherTexts ==
    [TELEMETRY_MODE : {"unset", "console", "otlp"}, KONG_JWT_ISSUER : {"unset", "issuer"},
     OTEL_EXPORTER_OTLP_ENDPOINT : {"unset", "collector"},
     OTEL_EXPORTER_OTLP_LOGS_ENDPOINT : {"unset", "own"},
     KUBERNETES_SERVICE_HOST : {"unset", "cluster"},
     CONTINUOUS_PROFILING_OUTPUT_DIR : {"unset", "given"}]

ThoseSet(texts) == SetOf({n \in DOMAIN texts : texts[n] # "unset"}, texts)

Environments ==
    {With(s, text) : s \in Switches, text \in {"true", "yes", "false"}}
    \cup (UNION {{With(n, value) : value \in Boundaries(n)} : n \in Numbers})
    \cup {Spread(Required, ThoseSet(texts)) : texts \in KongTexts \cup OtherTexts}
    \cup {SetOf(DOMAIN Required \ {n}, Required) : n \in DOMAIN Required}

(***************************************************************************)
(* From the environment to the configuration                               *)
(***************************************************************************)
\* The value of a text, which need not be set.
Text(env, name, otherwise) == IF name \in DOMAIN env THEN env[name] ELSE otherwise

\* "yes" stands for the words that toBool takes besides "true".
ToBool(env, name, fallback) ==
    IF name \in DOMAIN env THEN env[name] \in {"true", "yes"} ELSE fallback

\* toBool(value, undefined) takes the default of its parameter, which is false.
NoFallback == FALSE

\* The switches of the structured environment, none of which is ever undefined.
GivenSwitches(env) ==
    [s \in Switches |->
        CASE s = "HIGH_AVAILABILITY" -> Text(env, s, "") = "true"
          [] s \in {"CIRCUIT_BREAKER_ENABLED", "CONTINUOUS_PROFILING_AUTO_TRIGGER_ON_SLA"} ->
                 ToBool(env, s, TRUE)
          [] s \in {"PROFILING_ENABLED", "CONTINUOUS_PROFILING_ENABLED"} ->
                 ToBool(env, s, FALSE)
          [] s \in {"CACHE_CB_ENABLED", "CACHE_HEALTH_MONITOR_ENABLED",
                    "OTEL_RUNTIME_METRICS_ENABLED"} -> ToBool(env, s, NoFallback)]

\* The numbers of the structured environment: what is not set is filtered out.
GivenNumbers(env) == SetOf(Numbers, env)

\* An endpoint of its own, else the base with the path, else none.
DeriveEndpoint(env, name) ==
    Text(env, name, Text(env, "OTEL_EXPORTER_OTLP_ENDPOINT", "none"))

\* The merged configuration: the environment over the defaults.
Merged(env) ==
    [switches |-> Spread(DefaultSwitches, GivenSwitches(env)),
     numbers |-> Spread(DefaultNumbers, GivenNumbers(env)),
     nodeEnv |-> Text(env, "NODE_ENV", "development"),
     mode |-> Text(env, "KONG_MODE", "API_GATEWAY"),
     adminUrl |-> env["KONG_ADMIN_URL"],
     adminToken |-> env["KONG_ADMIN_TOKEN"],
     serviceName |-> Text(env, "OTEL_SERVICE_NAME", "authentication-service"),
     issuer |-> Text(env, "KONG_JWT_ISSUER", env["KONG_JWT_AUTHORITY"]),
     logsEndpoint |-> DeriveEndpoint(env, "OTEL_EXPORTER_OTLP_LOGS_ENDPOINT"),
     tracesEndpoint |-> DeriveEndpoint(env, "OTEL_EXPORTER_OTLP_TRACES_ENDPOINT"),
     telemetryEnabled |-> Text(env, "TELEMETRY_MODE", "both") # "console",
     outputDir |-> Text(env, "CONTINUOUS_PROFILING_OUTPUT_DIR",
                        IF "KUBERNETES_SERVICE_HOST" \in DOMAIN env
                        THEN "/tmp/profiles" ELSE "profiles/auto")]

\* What production asks for; an empty token is not looked at.
ProductionSecure(nodeEnv, serviceName, adminUrl, adminToken) ==
    nodeEnv = "production" =>
        serviceName # "test" /\ adminUrl # "localhost" /\ adminToken \in {"", "long"}

EnvSchemaAccepts(env) ==
    /\ DOMAIN Required \subseteq DOMAIN env
    /\ Text(env, "NODE_ENV", "development") # "unheard of"
    /\ InRange(SetOf(Numbers, env), EnvRange)
    /\ ProductionSecure(Text(env, "NODE_ENV", ""), Text(env, "OTEL_SERVICE_NAME", ""),
                        env["KONG_ADMIN_URL"], env["KONG_ADMIN_TOKEN"])

KonnectHasToken(config) == config.mode = "KONNECT" => config.adminToken # ""

AppConfigSchemaAccepts(config) ==
    /\ InRange(config.numbers, ConfigRange)
    /\ KonnectHasToken(config)
    /\ ProductionSecure(config.nodeEnv, config.serviceName, config.adminUrl, config.adminToken)

\* initializeConfig: a set of one configuration, or none if it throws.
InitializeConfig(env) ==
    IF EnvSchemaAccepts(env) /\ AppConfigSchemaAccepts(Merged(env)) THEN {Merged(env)} ELSE {}

CacheSwitches == {"CACHE_CB_ENABLED", "CACHE_HEALTH_MONITOR_ENABLED"}
CacheNumbers == DOMAIN CacheRange \ {"STALE_DATA_TOLERANCE_MINUTES"}

\* What the Redis cache is built with.  Between the factory and the cache the
\* resilience section is dropped, and the cache takes the constants of its
\* parts, which say what the defaults say.
CacheRunsWith(config) ==
    [switches |-> SetOf(CacheSwitches, DefaultSwitches),
     numbers |-> SetOf(CacheNumbers, DefaultNumbers)]

(***************************************************************************)
(* Readers                                                                 *)
(***************************************************************************)
ConfigurationInit ==
    /\ environment \in Environments
    /\ cachedConfig = {}
    /\ proxyConfig = {}
    /\ loadedFrom = Required
    /\ startRefused = FALSE

\* The configuration that getConfig returns; none if it throws.
Current == IF cachedConfig # {} THEN cachedConfig ELSE InitializeConfig(environment)

Load ==
    /\ cachedConfig' = Current
    /\ startRefused' = (Current = {})
    /\ loadedFrom' = IF cachedConfig = {} THEN environment ELSE loadedFrom

\* getConfig, and every module and getter that asks it: the first one loads.
GetConfig ==
    /\ Load
    /\ UNCHANGED <<environment, proxyConfig>>

\* The proxy keeps the configuration that getConfig gave to its first reader.
ReadProxy ==
    /\ proxyConfig = {}
    /\ Load
    /\ proxyConfig' = Current
    /\ UNCHANGED environment

\* resetConfigCache, for the tests: both copies go.
ResetConfigCache ==
    /\ cachedConfig' = {}
    /\ proxyConfig' = {}
    /\ UNCHANGED <<environment, loadedFrom, startRefused>>

\* A test sets a variable of its own process, or takes it away.
ChangeEnvironment ==
    /\ environment' \in {Required, With("PORT", 1)}
    /\ UNCHANGED <<cachedConfig, proxyConfig, loadedFrom, startRefused>>

ConfigurationNext == GetConfig \/ ReadProxy \/ ResetConfigCache \/ ChangeEnvironment

ConfigurationSpec == ConfigurationInit /\ [][ConfigurationNext]_configurationVars

(***************************************************************************)
(* Properties                                                              *)
(***************************************************************************)

\* What was loaded conforms to the schemas, and whoever reads through the
\* proxy reads the configuration that the getters return (config.ts: the two
\* caches are filled one from the other and emptied together).
ConfigurationTypeOK ==
    /\ environment \in Environments
    /\ \A config \in cachedConfig :
        /\ config.switches \in [Switches -> BOOLEAN]
        /\ AppConfigSchemaAccepts(config)
    /\ proxyConfig # {} => proxyConfig = cachedConfig
    /\ startRefused \in BOOLEAN

\* A setting of the Redis cache that the environment makes is what the cache
\* runs with (docs/configuration/environment.md: "All settings are fully
\* configurable via environment variables").
SettingsTakeEffect ==
    \A config \in cachedConfig :
        /\ \A s \in CacheSwitches \cap DOMAIN loadedFrom :
              CacheRunsWith(config).switches[s] = ToBool(loadedFrom, s, NoFallback)
        /\ \A n \in CacheNumbers \cap DOMAIN loadedFrom :
              CacheRunsWith(config).numbers[n] = loadedFrom[n]

==============================================================================
