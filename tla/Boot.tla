--------------------------------- MODULE Boot ---------------------------------
(***************************************************************************)
(* The life of the server process: cmd/server/main.go with config.go,      *)
(* db/mongo.go and db/redis.go, launched again and again with whatever     *)
(* environment it finds, while Redis comes and goes.  What depends on the  *)
(* boot is modelled with it: the worker and its consumer group, which      *)
(* outlives the process, the handlers that use the global client db.Rdb,   *)
(* and a browser's stream.                                                 *)
(*                                                                         *)
(* Of the handlers only the kind of their Redis calls is left: an XADD to  *)
(* the processing stream, an XREAD.  Without a client they skip the call   *)
(* or answer 503; with one, while Redis is down, the call fails: neither   *)
(* changes anything here.                                                  *)
(***************************************************************************)
EXTENDS Naturals

CONSTANTS
  Default,      \* "valpago:notifications"
  OtherNames,   \* other values of REDIS_NOTIFICATIONS_STREAM
  Unset,        \* an empty environment or configuration variable
  LaunchBound,  \* bound: launches
  LogBound      \* bound: entries appended

ASSUME BootAssumption ==
  /\ Default \notin OtherNames
  /\ Unset \notin OtherNames \cup {Default}
  /\ LaunchBound \in Nat
  /\ LogBound \in Nat

Names == OtherNames \cup {Default}

\* What a launch finds: whether MONGODB_URI is set, whether REDIS_URL parses,
\* and the name of the notification stream.
Environment == [uri : BOOLEAN, url : BOOLEAN, notify : Names \cup {Unset}]

VARIABLES
  at,         \* main's place: "down", "config", "mongo", "redis", "listen", "serving"
  env,        \* the environment of the last launch
  notify,     \* config.C.RedisNotificationsStream
  rdb,        \* db.Rdb: "nil" or "client"
  worker,     \* worker.Start: "none", "start", "read"
  browser,    \* a browser's stream: "away" or "open"
  ended,      \* "no", or how the process ended
  redisUp,    \* Redis answers
  group,      \* Redis: the consumer group exists
  log,        \* Redis: entries in the processing stream
  delivered,  \* Redis: the group's last-delivered-id
  launches

process == <<at, env, notify, rdb, worker, browser, ended, launches>>
redis == <<redisUp, group, log, delivered>>
vars == <<process, redis>>

Init ==
  /\ at = "down"
  /\ env = [uri |-> FALSE, url |-> FALSE, notify |-> Unset]
  /\ notify = Unset
  /\ rdb = "nil"
  /\ worker = "none"
  /\ browser = "away"
  /\ ended = "no"
  /\ redisUp \in BOOLEAN
  /\ group = FALSE
  /\ log = 0
  /\ delivered = 0
  /\ launches = 0

-----------------------------------------------------------------------------
(***************************************************************************)
(* main                                                                    *)
(***************************************************************************)
Launch ==
  /\ at = "down"
  /\ launches < LaunchBound
  /\ launches' = launches + 1
  /\ at' = "config"
  /\ env' \in Environment
  /\ notify' = Unset
  /\ rdb' = "nil"
  /\ ended' = "no"
  /\ UNCHANGED <<worker, browser, redis>>

\* Everything the process consists of ends with it; Redis keeps its data.
Exit(how) ==
  /\ at' = "down"
  /\ ended' = how
  /\ worker' = "none"
  /\ browser' = "away"
  /\ UNCHANGED <<env, notify, rdb, launches, redis>>

Advance(from, to) ==
  /\ at = from
  /\ at' = to
  /\ UNCHANGED <<env, browser, ended, launches, redis>>

\* Mutant: an empty variable is taken as it is.
GetenvBare(value, default) == value

Getenv(value, default) == IF value = Unset THEN default ELSE value

LoadConfig ==
  \/ /\ env.uri
     /\ notify' = Getenv(env.notify, Default)
     /\ Advance("config", "mongo")
     /\ UNCHANGED <<rdb, worker>>
  \/ at = "config" /\ ~env.uri /\ Exit("config")

\* Connect and Ping; an error is fatal.
ConnectMongo ==
  \/ Advance("mongo", "redis") /\ UNCHANGED <<notify, rdb, worker>>
  \/ at = "mongo" /\ Exit("mongo")

\* Mutant: the client is published once the ping has succeeded.
ConnectRedisAfterPing ==
  /\ Advance("redis", "listen")
  /\ rdb' = IF env.url /\ redisUp THEN "client" ELSE "nil"
  /\ worker' = "start"
  /\ UNCHANGED notify

\* Mutant: main treats a failed ping like Mongo's.
ConnectRedisFatal ==
  \/ /\ redisUp
     /\ Advance("redis", "listen")
     /\ rdb' = IF env.url THEN "client" ELSE "nil"
     /\ worker' = "start"
     /\ UNCHANGED notify
  \/ at = "redis" /\ ~redisUp /\ Exit("redis")

\* db.Rdb is set when the URL parses, whatever Ping answers; main goes on in
\* every case and starts the worker's goroutine.
ConnectRedis ==
  /\ Advance("redis", "listen")
  /\ rdb' = IF env.url THEN "client" ELSE "nil"
  /\ worker' = "start"
  /\ UNCHANGED notify

\* e.Start fails if it cannot bind the port.
Listen ==
  \/ Advance("listen", "serving") /\ UNCHANGED <<notify, rdb, worker>>
  \/ at = "listen" /\ Exit("listen")

-----------------------------------------------------------------------------
(***************************************************************************)
(* The worker's goroutine.                                                 *)
(***************************************************************************)
\* The group is created if Redis answers now; the loop is entered in any case.
\* Without a client there is no worker.
WorkerStart ==
  /\ worker = "start"
  /\ IF rdb = "nil" THEN worker' = "none" /\ UNCHANGED group
     ELSE worker' = "read" /\ group' = (group \/ redisUp)
  /\ UNCHANGED <<at, env, notify, rdb, browser, ended, launches, redisUp, log, delivered>>

\* Mutant: an error ends the loop.
WorkerReadOnce ==
  /\ worker = "read"
  /\ \/ /\ redisUp /\ group /\ delivered < log
        /\ delivered' = delivered + 1
        /\ UNCHANGED process
     \/ /\ ~redisUp
        /\ worker' = "none"
        /\ UNCHANGED <<at, env, notify, rdb, browser, ended, launches, delivered>>
  /\ UNCHANGED <<redisUp, group, log>>

\* One entry read, notified and acknowledged (Worker models how that can fail).
\* A read that fails, for want of Redis or of the group, is tried again.
WorkerRead ==
  /\ worker = "read" /\ redisUp /\ group
  /\ delivered < log
  /\ delivered' = delivered + 1
  /\ UNCHANGED <<process, redisUp, group, log>>

-----------------------------------------------------------------------------
(***************************************************************************)
(* The handlers.                                                           *)
(***************************************************************************)
Serving == at = "serving"
CanCall == Serving /\ rdb = "client" /\ redisUp

\* create, review, approve and reject append their event.
Publish ==
  /\ CanCall
  /\ log < LogBound
  /\ log' = log + 1
  /\ UNCHANGED <<process, redisUp, group, delivered>>

\* The goroutine's XREAD on a nil client panics outside any handler, where
\* middleware.Recover does not reach it.
OpenStream ==
  /\ Serving /\ browser = "away"
  /\ IF rdb = "nil" THEN Exit("panic")
     ELSE /\ browser' = "open"
          /\ UNCHANGED <<at, env, notify, rdb, worker, ended, launches, redis>>

CloseStream ==
  /\ browser = "open"
  /\ browser' = "away"
  /\ UNCHANGED <<at, env, notify, rdb, worker, ended, launches, redis>>

-----------------------------------------------------------------------------
Kill == at # "down" /\ Exit("killed")

RedisSwitches ==
  /\ redisUp' = ~redisUp
  /\ UNCHANGED <<process, group, log, delivered>>

MainStep == LoadConfig \/ ConnectMongo \/ ConnectRedis \/ Listen
WorkerStep == WorkerStart \/ WorkerRead

Next ==
  \/ Launch \/ MainStep \/ WorkerStep
  \/ Publish \/ OpenStream \/ CloseStream
  \/ Kill \/ RedisSwitches

(***************************************************************************)
(* The calls of the boot have timeouts of ten seconds or return, and the   *)
(* worker's loop goes on.  Nothing is assumed of launches or of Redis.     *)
(***************************************************************************)
Spec == Init /\ [][Next]_vars /\ WF_vars(MainStep) /\ WF_vars(WorkerStep)

-----------------------------------------------------------------------------
(***************************************************************************)
(* Properties.                                                             *)
(***************************************************************************)
TypeOK ==
  /\ at \in {"down", "config", "mongo", "redis", "listen", "serving"}
  /\ env \in Environment
  /\ notify \in Names \cup {Unset}
  /\ at \in {"mongo", "redis", "listen", "serving"} => notify \in Names
  /\ rdb \in {"nil", "client"}
  /\ worker \in {"none", "start", "read"}
  /\ browser \in {"away", "open"}
  /\ ended \in {"no", "config", "mongo", "listen", "panic", "killed"}
  /\ redisUp \in BOOLEAN /\ group \in BOOLEAN
  /\ log \in 0..LogBound /\ delivered \in 0..log
  /\ launches \in 0..LaunchBound

\* However Redis comes and goes, at boot or later, its absence never makes a
\* browser's goroutine panic and take the process down: only a REDIS_URL that
\* does not parse does, since the client is published before the ping.
PanicNeedsBadURL == ended = "panic" => ~env.url

\* main.go:36, "continuing without Redis": whatever Redis does, a launch that
\* has reached Mongo serves, unless it cannot bind its port or is killed.
RedisIsOptional ==
  at = "redis" ~> Serving \/ (at = "down" /\ ended \in {"listen", "killed"})

\* A worker survives every outage of Redis: if the process and Redis are in the
\* end there to stay, every entry is delivered, the ones appended before the
\* last launch included, provided some launch found Redis up and made the group.
WorkerOutlivesOutages ==
  <>[](CanCall) =>
    \A i \in 1..LogBound : group /\ i <= log ~> i <= delivered
=============================================================================
