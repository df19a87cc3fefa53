------------------------------ MODULE CoreProcess ------------------------------
(***************************************************************************)
(* The start of the core (core/src/main.rs and core/src/config.rs): one    *)
(* step after another, each of which may end the process.  Docker starts   *)
(* it again (docker-compose.yml, restart: unless-stopped); on a desk       *)
(* somebody may.  The configuration is read anew every time; Redis answers *)
(* at one address.                                                         *)
(***************************************************************************)
EXTENDS Naturals

CONSTANTS
  Environments,   \* what CONFIG_FILE, REDIS_URL, PORT, the files and Redis may be
  MaxFaults       \* BOUND: the crashes, failing steps and broken connections

Addresses == {"127.0.0.1", "redis"}

ASSUME CoreAssumption ==
  /\ MaxFaults \in Nat
  /\ Environments \subseteq
       [file : {"missing", "broken", "good"}, redisUrl : Addresses \cup {"unset"},
        port : {"unset", "number", "text"}, redisAt : Addresses,
        static : BOOLEAN, docker : BOOLEAN]

VARIABLES
  stage,    \* the step of main that comes next
  config,   \* the address of Redis and the port, as they are in force
  router,   \* the map: loaded, or empty
  env,      \* the environment that every start finds; static: the directory of the
            \* pages and the graph file is there; docker: Docker runs the core
  redisUp,
  faults

process == <<stage, config, router>>
core == <<process, env, redisUp, faults>>

NotLoaded == [redis |-> "unset", port |-> "unset"]

\* Listening: the telemetry listener runs, also while the port is not bound yet.
Listening == stage \in {"bind", "serving"}
Serving == stage = "serving"

CoreInit ==
  /\ stage = "load" /\ config = NotLoaded /\ router = "empty"
  /\ env \in Environments
  /\ redisUp \in BOOLEAN /\ faults = 0

\* Mutant: the file's address of Redis stands.
FileOnly(e) == [redis |-> "127.0.0.1", port |-> "default"]

\* AppConfig::load: the file or the defaults, both with Redis at 127.0.0.1; then
\* REDIS_URL, and PORT if it is a number.
Configured(e) ==
  [redis |-> IF e.redisUrl = "unset" THEN "127.0.0.1" ELSE e.redisUrl,
   port  |-> IF e.port = "number" THEN "env" ELSE "default"]

GoOn(from, next) == stage = from /\ stage' = next

\* The step returns an error, and with it main.
Fails(from) == GoOn(from, "exited")

MayFail(from) == faults < MaxFaults /\ faults' = faults + 1 /\ Fails(from)

LoadConfig ==
  /\ IF env.file = "broken" THEN Fails("load") /\ UNCHANGED config
                            ELSE GoOn("load", "redis") /\ config' = Configured(env)
  /\ UNCHANGED <<router, env, redisUp, faults>>

ConnectRedis ==
  /\ IF redisUp /\ config.redis = env.redisAt THEN GoOn("redis", "graph") ELSE Fails("redis")
  /\ UNCHANGED <<config, router, env, redisUp, faults>>

\* A graph file that cannot be read is a warning only.
LoadGraph ==
  /\ GoOn("graph", "zenoh")
  /\ router' = IF env.static THEN "loaded" ELSE "empty"
  /\ UNCHANGED <<config, env, redisUp, faults>>

\* The session is opened and the subscriber declared; then the listener is spawned.
OpenZenoh ==
  /\ \/ GoOn("zenoh", "bind") /\ UNCHANGED faults
     \/ MayFail("zenoh")
  /\ UNCHANGED <<config, router, env, redisUp>>

Bind ==
  /\ GoOn("bind", "serving")
  /\ UNCHANGED <<config, router, env, redisUp, faults>>

BindFails ==
  /\ MayFail("bind")
  /\ UNCHANGED <<config, router, env, redisUp>>

\* The process dies while it serves.
Crash ==
  /\ MayFail("serving")
  /\ UNCHANGED <<config, router, env, redisUp>>

Restart ==
  /\ GoOn("exited", "load") /\ config' = NotLoaded /\ router' = "empty"
  /\ UNCHANGED <<env, redisUp, faults>>

RedisStops ==
  /\ redisUp /\ faults < MaxFaults /\ faults' = faults + 1 /\ redisUp' = FALSE
  /\ UNCHANGED <<process, env>>

RedisStarts == ~redisUp /\ redisUp' = TRUE /\ UNCHANGED <<process, env, faults>>

\* The steps of main, all but those that end a process with a listener.
StartUp == LoadConfig \/ ConnectRedis \/ LoadGraph \/ OpenZenoh \/ Bind

CoreTypeOK ==
  /\ stage \in {"load", "redis", "graph", "zenoh", "bind", "serving", "exited"}
  /\ config \in [redis : Addresses \cup {"unset"}, port : {"unset", "default", "env"}]
  /\ router \in {"loaded", "empty"} /\ env \in Environments
  /\ redisUp \in BOOLEAN /\ faults \in 0..MaxFaults

\* The configuration can be read and names the Redis there is.
CanServe ==
  /\ env.file # "broken"
  /\ env.redisAt = IF env.redisUrl = "unset" THEN "127.0.0.1" ELSE env.redisUrl
================================================================================
