--------------------------- MODULE Configuration ---------------------------
(***************************************************************************)
(* How a process comes to its settings: AppConfig::load() merges .env with *)
(* the environment and validates it, and configure() hands the             *)
(* observability settings to the error reporter.  That logins and requests *)
(* read .env again is in Sessions.                                         *)
(*                                                                         *)
(* Of the settings that are read in the same way one stands for all: the   *)
(* required ones by SECRET_KEY, those of number() by                       *)
(* OBSERVABILITY_BATCH_SIZE, those of seconds() by                         *)
(* OBSERVABILITY_BATCH_DELAY_SECONDS.  A duration counts units of which    *)
(* Resolution make the microsecond that std::to_string() keeps.            *)
(***************************************************************************)
EXTENDS Naturals

CONSTANTS Files,       \* what .env may hold: texts by key
          Environments,\* what the environment may hold: texts by key
          Absent,      \* the text of a key that is not there
          Empty,       \* the empty text
          Bad,         \* a text that is no number
          NaN,         \* the text that std::stod() reads as one all the same
          SentryUrl,   \* a DSN as Sentry writes it
          Missing,     \* there is no .env
          NoConfig,    \* no configuration was loaded yet
          MaxNumber,   \* the 65535 of number()
          MaxSeconds,  \* the 3600 of seconds()
          Resolution

\* The settings that stand for all.
Settings == {"SECRET_KEY", "ERROR_TRACKING_PROVIDER", "SENTRY_DSN",
             "OTLP_ENDPOINT", "OBSERVABILITY_TIMEOUT_SECONDS",
             "OBSERVABILITY_BATCH_SIZE", "OBSERVABILITY_BATCH_DELAY_SECONDS",
             "OBSERVABILITY_RETRY_MAX_ATTEMPTS", "RATE_LIMIT_REQUESTS"}

\* The limits that the code has, and that the texts are what they stand for.
ASSUME ConfigurationAssumption ==
  /\ MaxNumber \in Nat /\ MaxNumber >= 10
  /\ Resolution \in Nat \ {0}
  /\ MaxSeconds \in Nat /\ MaxSeconds >= Resolution
  /\ \A t \in {Absent, Empty, Bad, NaN} : t \notin Nat
  /\ Bad \notin {Absent, Empty, NaN} /\ Empty # NaN /\ SentryUrl # Empty
  /\ Missing \notin Files
  /\ \A f \in Files : Settings \subseteq DOMAIN f

VARIABLES
  file,     \* what .env holds
  env,      \* the environment of the process
  phase,    \* "start", "refused", "configured" or "running"
  config,   \* the AppConfig
  reporter  \* the provider of the configured reporter, "none" if a no-op

configVars == << file, env, phase, config, reporter >>

ConfigInit ==
  /\ file \in Files \cup {Missing}
  /\ env \in Environments
  /\ phase = "start"
  /\ config = NoConfig
  /\ reporter = "none"

-----------------------------------------------------------------------------
(* AppConfig::load() and fromValues().                                     *)

\* overrideFromEnvironment(): a variable that is set, even to nothing, wins.
Values ==
  [k \in DOMAIN file |-> IF env[k] # Absent THEN env[k] ELSE file[k]]

Unset(v) == v \in {Absent, Empty}

\* number(), for the settings whose fallback is in range.
NumberOk(v) == Unset(v) \/ v \in 1..MaxNumber

\* nonNegativeNumber().
NonNegativeOk(v) == Unset(v) \/ v \in 0..MaxNumber

\* seconds(): neither comparison holds of NaN.
SecondsOk(v) == Unset(v) \/ v = NaN \/ v \in 1..MaxSeconds

AttemptsOk(v) == NumberOk(v) /\ v \notin 11..MaxNumber

ObservabilityOk(v) ==
  /\ NumberOk(v["OBSERVABILITY_BATCH_SIZE"])
  /\ AttemptsOk(v["OBSERVABILITY_RETRY_MAX_ATTEMPTS"])
  /\ SecondsOk(v["OBSERVABILITY_TIMEOUT_SECONDS"])
  /\ SecondsOk(v["OBSERVABILITY_BATCH_DELAY_SECONDS"])

Accepted(v) ==
  /\ ~ Unset(v["SECRET_KEY"])
  /\ NonNegativeOk(v["RATE_LIMIT_REQUESTS"])
  /\ ObservabilityOk(v)

Or(v, fallback) == IF Unset(v) THEN fallback ELSE v

\* A text that is not there is an empty one; the provider alone has a default.
TextOf(v) == IF v = Absent THEN Empty ELSE v

FromValues(v) ==
  [ secretKey |-> v["SECRET_KEY"],
    errorTrackingProvider |->
      IF v["ERROR_TRACKING_PROVIDER"] = Absent THEN "none"
                                              ELSE v["ERROR_TRACKING_PROVIDER"],
    sentryDsn |-> TextOf(v["SENTRY_DSN"]),
    otlpEndpoint |-> TextOf(v["OTLP_ENDPOINT"]),
    batchSize |-> Or(v["OBSERVABILITY_BATCH_SIZE"], 10),
    retryMaxAttempts |-> Or(v["OBSERVABILITY_RETRY_MAX_ATTEMPTS"], 3),
    timeoutSeconds |-> Or(v["OBSERVABILITY_TIMEOUT_SECONDS"], Resolution),
    batchDelaySeconds |-> Or(v["OBSERVABILITY_BATCH_DELAY_SECONDS"], Resolution),
    rateLimitRequests |-> Or(v["RATE_LIMIT_REQUESTS"], 0) ]

Load ==
  /\ phase = "start"
  /\ file # Missing
  /\ Accepted(Values)
  /\ config' = FromValues(Values)
  /\ phase' = "configured"
  /\ UNCHANGED << file, env, reporter >>

\* main() reports the exception and returns 1.
LoadFails ==
  /\ phase = "start"
  /\ IF file = Missing THEN TRUE ELSE ~ Accepted(Values)
  /\ phase' = "refused"
  /\ UNCHANGED << file, env, config, reporter >>

-----------------------------------------------------------------------------
(* observability::configure() and configureErrorReporter().                *)

\* std::to_string() of a duration, and std::stod() of that.
Printed(d) ==
  IF d = NaN THEN NaN
             ELSE ((2 * d + Resolution) \div (2 * Resolution)) * Resolution

\* The environment replaces the timeout's text once more, as it is.
TimeoutText ==
  IF env["OBSERVABILITY_TIMEOUT_SECONDS"] = Absent
    THEN Printed(config.timeoutSeconds)
    ELSE env["OBSERVABILITY_TIMEOUT_SECONDS"]

\* The constructor of HttpErrorReporter: stod() of the timeout, and its checks.
ConstructorAccepts ==
  /\ TimeoutText \notin {Empty, Bad}
  /\ config.batchSize > 0
  /\ config.retryMaxAttempts \in 1..10
  /\ Printed(config.batchDelaySeconds) # 0

\* Mutant: the DSN is the only endpoint.
OtlpEndpointOfDsn(c) == c.sentryDsn

\* The DSN, else the endpoint of the settings; the environment's is there, too.
OtlpEndpoint(c) == IF c.sentryDsn # Empty THEN c.sentryDsn ELSE c.otlpEndpoint

\* The factories of the built-in providers make a reporter, or do not.
Makes(provider) ==
  /\ ConstructorAccepts
  /\ \/ provider = "otlp" /\ OtlpEndpoint(config) # Empty
     \/ provider = "sentry" /\ config.sentryDsn = SentryUrl

ConfigureReporter ==
  /\ phase = "configured"
  /\ phase' = "running"
  /\ reporter' = IF Makes(config.errorTrackingProvider)
                   THEN config.errorTrackingProvider
                   ELSE "none"
  /\ UNCHANGED << file, env, config >>

ConfigNext == Load \/ LoadFails \/ ConfigureReporter

ConfigSpec == ConfigInit /\ [][ConfigNext]_configVars

-----------------------------------------------------------------------------
Configured == phase \in {"configured", "running"}

\* "validates it into a typed configuration": what the reporter and the limiter
\* are given is in the ranges that they assume, a duration that is NaN apart.
ConfigTypeOK ==
  /\ phase \in {"start", "refused", "configured", "running"}
  /\ reporter \in {"none", "otlp", "sentry"}
  /\ Configured =>
       /\ config.rateLimitRequests \in 0..MaxNumber
       /\ config.batchSize \in 1..MaxNumber
       /\ config.retryMaxAttempts \in 1..10
       /\ config.timeoutSeconds \in 1..MaxSeconds \cup {NaN}
       /\ config.batchDelaySeconds \in 1..MaxSeconds \cup {NaN}

\* "The built-in OTLP adapter ... requires only an endpoint", and Sentry its
\* DSN: what AppConfig accepts, the constructor of the reporter accepts as well,
\* so a provider that has an endpoint runs.  Apart are a delay that is printed as
\* 0, and a timeout that is exported as the empty text.
ReporterRunsAsConfigured ==
  phase = "running" /\ Printed(config.batchDelaySeconds) # 0 /\ TimeoutText # Empty =>
    /\ config.errorTrackingProvider = "otlp" /\ config.otlpEndpoint # Empty
         => reporter = "otlp"
    /\ config.errorTrackingProvider = "sentry" /\ config.sentryDsn = SentryUrl
         => reporter = "sentry"
=============================================================================
