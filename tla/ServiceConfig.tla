---------------------------- MODULE ServiceConfig ----------------------------
(***************************************************************************)
(* LoadServiceConfig of config/: from the environment of the process, the  *)
(* .env files and a YAML file to a normalised and validated configuration. *)
(* Loading changes the environment, so a second load of the same process   *)
(* begins with what the first has left.                                    *)
(*                                                                         *)
(* gotenv and viper are outside the code, modelled as they are used:       *)
(* gotenv sets a variable that is absent, and nothing of a file it cannot  *)
(* parse; viper takes for a setting the first variable that is not empty,  *)
(* the one named like the setting before those bound to it, then the YAML  *)
(* file, then the default.                                                 *)
(*                                                                         *)
(* Texts stand for their kinds: "x" is a good one, " x" the same with      *)
(* blanks around it, "bad" one of the wrong shape, "junk" one that cannot  *)
(* be decoded, "/" a URL without host, "," a list without items, "0" a     *)
(* number that is not positive and "70000" one that is not a port.         *)
(* A file's name is the sequence of what follows .env in it.               *)
(***************************************************************************)
EXTENDS Integers, Sequences

CONSTANTS
  Worlds,    \* what a process may be started with: its environment, its
             \* .env files, its YAML files and those that cannot be parsed
  MaxLoads   \* bound on the loads of a process

ASSUME ConfigAssumption == MaxLoads \in Nat

VARIABLES
  world,   \* environment, .env files and YAML files the process started with
  env,     \* the environment of the process
  loads,   \* how often it has loaded its configuration
  cfg,     \* the configuration of the last load, <<>> after an error
  file,    \* the YAML file of the last load
  err      \* the error of the last load

configVars == <<world, env, loads, cfg, file, err>>

ConfigInit ==
  /\ world \in Worlds
  /\ env = world.env
  /\ loads = 0
  /\ cfg = <<>> /\ file = "" /\ err = "none"

-----------------------------------------------------------------------------
\* The entries of a sequence, and the first of them that is in S.
Entries(seq) == {seq[i] : i \in DOMAIN seq}

FirstIn(seq, S) ==
  seq[CHOOSE i \in DOMAIN seq :
        seq[i] \in S /\ \A j \in DOMAIN seq : seq[j] \in S => i <= j]

(* Texts. *)

TrimSpace(t) == CASE t = " " -> "" [] t = " x" -> "x" [] OTHER -> t

TrimURL(t) == IF TrimSpace(t) = "/" THEN "" ELSE TrimSpace(t)

ensureLeadingSlash(t) ==
  IF t = "" THEN "/" ELSE IF t = "x" THEN "/x" ELSE t

NormalizeServiceEnvironment(t) ==
  CASE TrimSpace(t) \in {"", "dev", "development"} -> "development"
    [] TrimSpace(t) \in {"local", "dev.local"}     -> "local"
    [] TrimSpace(t) \in {"prod", "production"}     -> "production"
    [] OTHER                                       -> TrimSpace(t)

-----------------------------------------------------------------------------
(* The environment. *)

Getenv(e, v) == IF v \in DOMAIN e THEN e[v] ELSE ""

NotBlank(e, v) == TrimSpace(Getenv(e, v)) # ""

DetectOrder == <<"APP_ENV", "GO_ENV", "ENVIRONMENT", "NODE_ENV">>

Given(e) == {v \in Entries(DetectOrder) : NotBlank(e, v)}

\* The first variable that is not blank names the environment.
detectServiceAppEnv(e) ==
  IF Given(e) = {} THEN "local" ELSE TrimSpace(e[FirstIn(DetectOrder, Given(e))])

serviceEnvFileCandidates(appEnv) ==
  LET name == NormalizeServiceEnvironment(appEnv)
  IN CASE name = "local" ->
            <<<<"local">>, <<"development", "local">>, <<"development">>, <<>>>>
       [] name = "production" -> <<<<"production">>, <<"local">>, <<>>>>
       [] OTHER -> <<<<name, "local">>, <<"local">>, <<name>>, <<>>>>

\* The directory of work before that of the executable.
EnvFiles(e) ==
  LET names == serviceEnvFileCandidates(detectServiceAppEnv(e))
      In(dir) == [i \in DOMAIN names |-> <<dir, names[i]>>]
  IN In("work") \o In("exe")

\* Those of them that are there, the variables they name, and what the first
\* file to name one says of it.
Found(e) == Entries(EnvFiles(e)) \cap DOMAIN world.dotenv

Named(e) == UNION {DOMAIN world.dotenv[f] : f \in Found(e)}

Said(e, v) ==
  world.dotenv[FirstIn(EnvFiles(e), {f \in Found(e) : v \in DOMAIN world.dotenv[f]})][v]

\* Mutant of preloadServiceEnvFiles: gotenv.Overload in the place of Load.
preloadOverload(e) ==
  [v \in DOMAIN e \cup Named(e) |-> IF v \in Named(e) THEN Said(e, v) ELSE e[v]]

\* Mutant of preloadServiceEnvFiles: a variable that is empty is set as well.
preloadEmpty(e) ==
  [v \in DOMAIN e \cup Named(e) |->
     IF v \in DOMAIN e /\ ~(e[v] = "" /\ v \in Named(e)) THEN e[v] ELSE Said(e, v)]

\* The first file to name an absent variable sets it; which files are read is
\* settled by the environment before the first of them.
preloadServiceEnvFiles(e) ==
  [v \in DOMAIN e \cup Named(e) |-> IF v \in DOMAIN e THEN e[v] ELSE Said(e, v)]

-----------------------------------------------------------------------------
(* The settings. *)

Switches == {"opensearch.enabled", "grpc.enabled", "metrics.enabled",
             "postgres.enabled", "auth.enabled", "telemetry.enabled",
             "redpanda.enabled", "tls.enabled", "verifier.enabled",
             "client.enabled"}

\* What Validate wants of a section that is switched on, and of every service.
Required ==
  [s \in Switches |->
     CASE s = "opensearch.enabled" -> {"opensearch.endpoint", "opensearch.index"}
       [] s = "grpc.enabled"       -> {}
       [] s = "metrics.enabled"    -> {"metrics.bind_address", "metrics.handler_path"}
       [] s = "postgres.enabled"   -> {"postgres.host", "postgres.user",
                                       "postgres.database", "postgres.sslmode"}
       [] s = "auth.enabled"       -> {"auth.service_url", "auth.issuer"}
       [] s = "telemetry.enabled"  -> {"telemetry.otlp_endpoint"}
       [] s = "redpanda.enabled"   -> {"redpanda.brokers"}
       [] s = "tls.enabled"        -> {"tls.cert_file", "tls.key_file"}
       [] s = "verifier.enabled"   -> {"verifier.issuer", "verifier.jwks_url",
                                       "verifier.audience", "verifier.allowed_callers",
                                       "verifier.allowed_algorithms"}
       [] s = "client.enabled"     -> {"client.token_url", "client.client_id",
                                       "client.client_secret"}]

Always == {"app.name", "app.public_url", "http.port",
           "http.cors_allowed_origins", "redis.host"}

\* Numbers Validate wants positive, and numbers Normalize puts in order first.
Checked   == {"grpc.port", "grpc.max_receive_bytes", "grpc.max_send_bytes",
              "grpc.keepalive_time", "grpc.keepalive_timeout"}
FallsBack == {"opensearch.flush_interval", "opensearch.batch_size",
              "opensearch.queue_size", "opensearch.request_timeout",
              "redis.port", "auth.timeout", "auth.jwks_cache_ttl",
              "postgres.port", "postgres.conn_timeout", "postgres.max_conn",
              "postgres.max_conn_lifetime", "postgres.max_conn_idle_time",
              "redpanda.dial_timeout", "redpanda.read_batch_timeout",
              "redpanda.write_timeout"}
URLs      == {"app.public_url", "opensearch.endpoint", "auth.service_url",
              "auth.issuer"}
Paths     == {"metrics.handler_path", "auth.jwks_path"}
Lists     == {"redpanda.brokers", "verifier.allowed_callers",
              "verifier.allowed_algorithms"}

Identity  == Required["verifier.enabled"] \cup Required["client.enabled"]

Wanted   == UNION {Required[w] : w \in Switches}
Plain    == {"app.env", "logger.level", "redpanda.client_id"}

Settings == Switches \cup Always \cup Wanted \cup Checked \cup FallsBack
              \cup Paths \cup Plain

Default(s, appEnv) ==
  CASE s = "app.env"                  -> appEnv
    [] s = "postgres.enabled"         -> "true"
    [] s \in Switches \ {"postgres.enabled"} -> "false"
    [] s \in Checked \cup FallsBack   -> "1"
    [] s \in Paths                    -> "/x"
    [] s \in {"http.port", "logger.level", "redis.host", "opensearch.index",
              "metrics.bind_address", "postgres.host", "postgres.user",
              "postgres.sslmode", "verifier.allowed_algorithms"} -> "x"
    [] OTHER                          -> ""

\* Mutant of Names: the bound names alone, in the order they are bound.
NamesAsBound(s) ==
  CASE s = "app.env"      -> <<"APP_ENV">>
    [] s = "http.port"    -> <<"REST_PORT", "HTTP_PORT">>
    [] s = "auth.timeout" -> <<"AUTH_SERVICE_TIMEOUT", "AUTH_TIMEOUT">>
    [] OTHER              -> <<s>>

\* The variables of a setting. The name viper derives from the setting itself
\* comes first, wherever it stands in the list bound to the setting. (One name
\* is enough for the others: it is written as the setting.)
Names(s) ==
  CASE s = "app.env"      -> <<"APP_ENV">>
    [] s = "http.port"    -> <<"HTTP_PORT", "REST_PORT">>
    [] s = "auth.timeout" -> <<"AUTH_TIMEOUT", "AUTH_SERVICE_TIMEOUT">>
    [] OTHER              -> <<s>>

-----------------------------------------------------------------------------
(* From the environment and the file to a configuration. *)

\* Mutant of serviceAppEnv: detected before the .env files are read.
serviceAppEnvEarly(e) == NormalizeServiceEnvironment(detectServiceAppEnv(world.env))

serviceAppEnv(e) == NormalizeServiceEnvironment(detectServiceAppEnv(e))

\* The file of CONFIG_PATH, or the one named after the environment.
ConfigFile(e) ==
  IF NotBlank(e, "CONFIG_PATH") THEN TrimSpace(e["CONFIG_PATH"])
                                ELSE serviceAppEnv(e)

\* Only the file named after the environment may be missing.
Readable(e) ==
  /\ ConfigFile(e) \notin world.broken
  /\ NotBlank(e, "CONFIG_PATH") => ConfigFile(e) \in DOMAIN world.yaml

\* What viper holds after reading the file: a variable, else the file, else the
\* default.
Unmarshal(e) ==
  LET yaml   == IF ConfigFile(e) \in DOMAIN world.yaml
                THEN world.yaml[ConfigFile(e)] ELSE <<>>
      appEnv == serviceAppEnv(e)
  IN [s \in Settings |->
        LET set == {v \in Entries(Names(s)) : Getenv(e, v) # ""}
        IN IF set # {} THEN e[FirstIn(Names(s), set)]
           ELSE IF s \in DOMAIN yaml THEN yaml[s] ELSE Default(s, appEnv)]

Decodable(c) == \A s \in Switches \cup Checked \cup FallsBack : c[s] # "junk"

Normalize(c) ==
  [s \in Settings |->
     CASE s = "app.env"   -> NormalizeServiceEnvironment(c[s])
       [] s \in URLs      -> TrimURL(c[s])
       [] s \in Paths     -> ensureLeadingSlash(TrimSpace(c[s]))
       [] s \in FallsBack -> IF c[s] = "0" THEN "1" ELSE c[s]
       [] s \in Identity  -> c[s]
       [] s = "redpanda.client_id" /\ TrimSpace(c[s]) = "" -> TrimSpace(c["app.name"])
       [] OTHER           -> TrimSpace(c[s])]

Missing(c, s) == TrimSpace(c[s]) \in {""} \cup (IF s \in Lists THEN {","} ELSE {})

\* Mutant of Validate: the identity client is not looked at.
ValidateClientless(c) ==
  /\ \A s \in Always : ~Missing(c, s)
  /\ \A w \in Switches \ {"client.enabled"} :
       c[w] = "true" => \A s \in Required[w] : ~Missing(c, s)
  /\ c["grpc.enabled"] = "true" =>
       c["grpc.port"] # "70000" /\ \A s \in Checked : c[s] # "0"
  /\ c["opensearch.enabled"] = "true" => c["opensearch.endpoint"] # "bad"
  /\ c["metrics.enabled"] = "true" => c["metrics.bind_address"] # "bad"

Validate(c) ==
  /\ \A s \in Always : ~Missing(c, s)
  /\ \A w \in Switches :
       c[w] = "true" => \A s \in Required[w] : ~Missing(c, s)
  /\ c["grpc.enabled"] = "true" =>
       c["grpc.port"] # "70000" /\ \A s \in Checked : c[s] # "0"
  /\ c["opensearch.enabled"] = "true" => c["opensearch.endpoint"] # "bad"
  /\ c["metrics.enabled"] = "true" => c["metrics.bind_address"] # "bad"

-----------------------------------------------------------------------------
(* LoadServiceConfig. The .env files are read whatever comes of the rest. *)

Load(e) ==
  /\ loads < MaxLoads
  /\ loads' = loads + 1
  /\ env' = e
  /\ file' = ConfigFile(e)
  /\ UNCHANGED world

LoadFails(e, why) == Load(e) /\ cfg' = <<>> /\ err' = why

ReadFails(e) == ~Readable(e) /\ LoadFails(e, "read")

DecodeFails(e, c) == Readable(e) /\ ~Decodable(c) /\ LoadFails(e, "unmarshal")

Refused(e, c) ==
  /\ Readable(e) /\ Decodable(c)
  /\ ~Validate(Normalize(c))
  /\ LoadFails(e, "validate")

Accepted(e, c) ==
  /\ Readable(e) /\ Decodable(c)
  /\ Validate(Normalize(c))
  /\ Load(e)
  /\ cfg' = Normalize(c)
  /\ err' = "none"

LoadServiceConfig ==
  LET e == preloadServiceEnvFiles(env)
      c == Unmarshal(e)
  IN ReadFails(e) \/ DecodeFails(e, c) \/ Refused(e, c) \/ Accepted(e, c)

ConfigSpec == ConfigInit /\ [][LoadServiceConfig]_configVars

-----------------------------------------------------------------------------
(* What the sections of the configuration are handed to. *)

\* The constructor of the section accepts it: NewOpenSearchExporter,
\* NewPrometheusServer, NewVerifier, NewClientCredentialsProvider and the
\* reader of the Redpanda client, which needs a broker.
Starts(c, w) ==
  CASE w = "opensearch.enabled" ->
         /\ TrimURL(c["opensearch.endpoint"]) \notin {"", "bad"}
         /\ TrimSpace(c["opensearch.index"]) # ""
         /\ c["logger.level"] # "bad"
    [] w = "metrics.enabled" ->
         /\ TrimSpace(c["metrics.bind_address"]) # ""
         /\ TrimSpace(c["metrics.handler_path"]) # ""
    [] w = "verifier.enabled" ->
         /\ \A s \in {"verifier.issuer", "verifier.jwks_url", "verifier.audience"} :
              TrimSpace(c[s]) # ""
         /\ \A s \in {"verifier.allowed_callers", "verifier.allowed_algorithms"} :
              ~Missing(c, s)
    [] w = "client.enabled" ->
         /\ TrimSpace(c["client.token_url"]) # ""
         /\ TrimSpace(c["client.client_id"]) # ""
         /\ c["client.client_secret"] # ""
    [] w = "redpanda.enabled" -> ~Missing(c, "redpanda.brokers")
    [] OTHER -> TRUE

-----------------------------------------------------------------------------
(* Properties. *)

\* A variable the process has keeps its value, an empty one as well: the .env
\* files fill in what is absent (env.go:133-156). Deployments rely on it to
\* switch a setting of a .env file off.
GivenStays == [][\A v \in DOMAIN env : v \in DOMAIN env' /\ env'[v] = env[v]]_configVars

\* A load may name another environment for the next one, whose .env files then
\* are read too; each of the four names can be given once, so the fifth load is
\* the last to change anything and the process does not go back and forth.
LoadsSettle == loads > 4 => preloadServiceEnvFiles(env) = env

\* From then on every load gives the same: environment, file, configuration or
\* error. Whoever loads again in a running process does not get another service.
ReloadsAgree ==
  [][loads > 4 => UNCHANGED <<env, cfg, file, err>>]_configVars

\* A process that has an APP_ENV, from a .env file too, reads the YAML file of
\* that environment and bears its name (service_config_test.go:11).
FileAndNameAgree ==
  loads > 0 /\ NotBlank(env, "APP_ENV") /\ ~NotBlank(env, "CONFIG_PATH") =>
    /\ file = NormalizeServiceEnvironment(env["APP_ENV"])
    /\ cfg # <<>> => cfg["app.env"] = file

\* The value a process is started with under the setting's own name is the one
\* it runs with, whatever the .env files, the YAML file and the other names of
\* the setting say (service_config_test.go:47).
GivenSettingWins ==
  cfg # <<>> =>
    /\ Getenv(world.env, "HTTP_PORT") # "" =>
         cfg["http.port"] = TrimSpace(world.env["HTTP_PORT"])
    /\ Getenv(world.env, "AUTH_TIMEOUT") \in {"1", "70000"} =>
         cfg["auth.timeout"] = world.env["AUTH_TIMEOUT"]

\* The constructors refuse nothing of a configuration that was accepted: what
\* Validate lets pass starts (validate.go against the constructors of pkg/). The
\* one thing it leaves to them is a level of the logger that is none.
AcceptedStarts ==
  cfg # <<>> /\ cfg["logger.level"] # "bad" =>
    \A w \in Switches : cfg[w] = "true" => Starts(cfg, w)

=============================================================================
