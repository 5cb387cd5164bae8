--------------------------- MODULE MCServiceConfig ---------------------------
(* What a process of the service is started with, in three families. *)
EXTENDS ServiceConfig, TLC

World(e, d, y) == [env |-> e, dotenv |-> d, yaml |-> y, broken |-> {}]

\* A YAML file that starts a service with nothing switched on.
Bare ==
  [s \in {"app.name", "app.public_url", "http.cors_allowed_origins"} |-> "x"]
    @@ [s \in {"postgres.enabled"} |-> "false"]

\* Who gives which variables: the deployment, the .env files of the directory of
\* work and of the executable, and the YAML files.
Deployments ==
  {e @@ p :
     e \in {<<>>, "APP_ENV" :> "prod", "APP_ENV" :> "", "APP_ENV" :> " ",
            "GO_ENV" :> "production",
            "APP_ENV" :> "local" @@ "GO_ENV" :> "prod"},
     p \in {<<>>, "HTTP_PORT" :> "given", "HTTP_PORT" :> " x",
            "HTTP_PORT" :> "" @@ "REST_PORT" :> "given",
            "HTTP_PORT" :> "given" @@ "REST_PORT" :> "other",
            "AUTH_TIMEOUT" :> "70000" @@ "AUTH_SERVICE_TIMEOUT" :> "0",
            "CONFIG_PATH" :> "missing"}}

Anywhere ==
  {<<>>, "APP_ENV" :> "local", "GO_ENV" :> "prod",
   "APP_ENV" :> "production" @@ "HTTP_PORT" :> "dotenv",
   "REST_PORT" :> "dotenv", "CONFIG_PATH" :> "explicit"}

DotEnvs ==
  {<<"work", <<>>>> :> a @@ f :> b :
     a \in Anywhere,
     b \in {"APP_ENV" :> "prod", "HTTP_PORT" :> "late"},
     f \in {<<"work", <<"local">>>>, <<"work", <<"production">>>>, <<"exe", <<>>>>}}

Yamls ==
  {"local" :> Bare @@ "production" :> Bare @@ "explicit" :> Bare,
   "local" :> ("http.port" :> "yaml" @@ Bare)
     @@ "production" :> ("auth.timeout" :> "junk" @@ Bare)}

EnvironmentWorlds == {World(e, d, y) : e \in Deployments, d \in DotEnvs, y \in Yamls}

\* A service with one section switched on and all it wants, and then one setting
\* given another value.
Full ==
  [s \in {"opensearch.endpoint", "postgres.database", "auth.service_url",
          "auth.issuer", "telemetry.otlp_endpoint", "redpanda.brokers",
          "tls.cert_file", "tls.key_file", "verifier.issuer", "verifier.jwks_url",
          "verifier.audience", "verifier.allowed_callers", "client.token_url",
          "client.client_id", "client.client_secret"} |-> "x"] @@ Bare

Sections == {"opensearch.enabled", "grpc.enabled", "metrics.enabled",
             "postgres.enabled", "auth.enabled", "telemetry.enabled",
             "redpanda.enabled", "tls.enabled", "verifier.enabled",
             "client.enabled"}

Numbers == {"grpc.port", "grpc.max_send_bytes", "grpc.keepalive_time",
            "opensearch.queue_size", "redis.port", "auth.timeout", "postgres.port",
            "redpanda.dial_timeout"}

Texts == {"app.name", "app.public_url", "http.port", "logger.level", "redis.host",
          "opensearch.index", "metrics.bind_address", "metrics.handler_path",
          "postgres.host", "postgres.sslmode", "verifier.allowed_algorithms",
          "redpanda.client_id", "auth.jwks_path"}
            \cup (DOMAIN Full \ {"postgres.enabled"})

Deviations ==
  {s :> v : s \in Texts, v \in {"", " ", " x", "bad", "/", ","}}
    \cup {s :> v : s \in Numbers, v \in {"0", "70000", "junk"}}
    \cup {w :> v : w \in Sections, v \in {"true", "junk"}}

SectionWorlds ==
  {World(<<>>, <<>>, "local" :> (d @@ w :> "true" @@ Full)) :
     w \in Sections, d \in Deviations}

\* Every load finds the .env file that names the next environment, four times,
\* and a file that cannot be parsed stops none of them.
ChainWorlds ==
  {[env |-> <<>>, broken |-> b,
    dotenv |-> <<"work", <<"local">>>> :> ("NODE_ENV" :> "one")
            @@ <<"work", <<"one">>>>   :> ("ENVIRONMENT" :> "two")
            @@ <<"work", <<"two">>>>   :> ("GO_ENV" :> "three")
            @@ <<"work", <<"three">>>> :> ("APP_ENV" :> "prod")
            @@ <<"exe", <<"production">>>> :> ("HTTP_PORT" :> "last"),
    yaml |-> [n \in {"one", "two", "production"} |-> Bare]] :
     b \in {{}, {"two"}, {"production"}}}

\* The .env files of two environments name each other.
MutualWorlds ==
  {World(e, <<"work", <<"one">>>> :> ("APP_ENV" :> "two")
              @@ <<"work", <<"two">>>> :> ("APP_ENV" :> "one"),
         [n \in {"one", "two"} |-> Bare]) :
     e \in {"APP_ENV" :> "one", "GO_ENV" :> "one", "NODE_ENV" :> "two"}}

MCWorlds == EnvironmentWorlds \cup SectionWorlds \cup ChainWorlds \cup MutualWorlds

=============================================================================
