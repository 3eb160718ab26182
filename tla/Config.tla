------------------------------- MODULE Config -------------------------------
(***************************************************************************)
(* config/load.go, config.go and log.go: the environment file is read into *)
(* the process environment, AppConfig is made from that, and checked.      *)
(*                                                                         *)
(* An environment maps names to values.  Values are without surrounding    *)
(* blanks and quotes; "" stands for every blank value.  What the           *)
(* conversions make of a string is given by the first four constants.  A   *)
(* line of the file is a comment, an assignment, or malformed (no "=", no  *)
(* or a bad name); a file that cannot be read is a malformed line, no file *)
(* is an empty one.                                                        *)
(***************************************************************************)
EXTENDS Integers, Sequences

CONSTANTS
  Numeral,       \* the strings strconv.Atoi accepts -> their values
  UrlList,       \* the JSON arrays of strings -> their non-empty elements
  Lowered,       \* the strings strings.ToLower changes -> what it returns
  AbsolutePath   \* the strings that begin with "/"

ASSUME ConfigAssumption ==
  \A s \in DOMAIN Numeral : Numeral[s] \in Int

StringKeys == {"SERVER_NAME", "NETWORK", "LISTEN_ADDR", "WS_PATH", "HEALTH_PATH",
               "ALLOW_ORIGINS", "WEBHOOK_URL"}
LimitKeys  == {"MAX_CLIENTS_PER_AREA", "MAX_AREAS",
               "MAX_CHANNELS", "MAX_CLIENTS_PER_CHANNEL"}
IntKeys    == {"READ_BUFFER_SIZE", "WRITE_BUFFER_SIZE"} \cup LimitKeys
LogKeys    == {"SYSTEM_LOG_MODE", "ACCESS_LOG_MODE", "SYSTEM_LOG_FILE",
               "ACCESS_LOG_FILE", "LOG_DB_DRIVER", "LOG_DB_DSN"}
KnownKeys  == StringKeys \cup IntKeys \cup LogKeys

Default ==
  [SERVER_NAME |-> "ws-server", NETWORK |-> "tcp", LISTEN_ADDR |-> ":8080",
   WS_PATH |-> "/ws", HEALTH_PATH |-> "/health", ALLOW_ORIGINS |-> "*",
   WEBHOOK_URL |-> "",
   READ_BUFFER_SIZE |-> 4096, WRITE_BUFFER_SIZE |-> 4096,
   MAX_CLIENTS_PER_AREA |-> 500, MAX_AREAS |-> 10000,
   MAX_CHANNELS |-> 20000, MAX_CLIENTS_PER_CHANNEL |-> 200]

DefaultLog ==
  [SYSTEM_LOG_MODE |-> "file", ACCESS_LOG_MODE |-> "file",
   SYSTEM_LOG_FILE |-> "logs/system.log", ACCESS_LOG_FILE |-> "logs/access.log",
   LOG_DB_DRIVER |-> "sqlite", LOG_DB_DSN |-> "logs/ws-server.db"]

-----------------------------------------------------------------------------
(* LoadFile.                                                               *)

Line ==
  [kind : {"comment", "malformed"}] \cup [kind : {"set"}, key : STRING, val : STRING]

set(f, k, v) == [x \in DOMAIN f \cup {k} |-> IF x = k THEN v ELSE f[x]]

(* Broken variant of setenv: the file wins over the environment.           *)
setenvAlways(st, line) ==
  [st EXCEPT !.env = set(@, line.key, line.val),
             !.fromFile = set(@, line.key, line.val)]

(* A variable the environment has is left alone, even if it is blank.      *)
setenv(st, line) ==
  IF line.key \in DOMAIN st.env
  THEN [st EXCEPT !.skippedOS = @ \cup {line.key}]
  ELSE [st EXCEPT !.env = set(@, line.key, line.val),
                  !.fromFile = set(@, line.key, line.val)]

readLine(st, line) ==
  CASE ~st.ok \/ line.kind = "comment" -> st
    [] st.ok /\ line.kind = "malformed" -> [st EXCEPT !.ok = FALSE]
    [] st.ok /\ line.kind = "set" -> setenv(st, line)

(* st[i] is the loadState after i lines, with the environment and without  *)
(* an error so far.  What was set before a malformed line remains set.     *)
LoadFile(env, file) ==
  LET start == [ok |-> TRUE, env |-> env, fromFile |-> <<>>, skippedOS |-> {}]
      st[i \in 0 .. Len(file)] ==
        IF i = 0 THEN start ELSE readLine(st[i - 1], file[i])
  IN  st[Len(file)]

-----------------------------------------------------------------------------
(* Reading the environment.                                                *)

lookupNonEmpty(env, k) == k \in DOMAIN env /\ env[k] # ""

envString(env, k, def) == IF lookupNonEmpty(env, k) THEN env[k] ELSE def

IsInteger(env, k) == lookupNonEmpty(env, k) => env[k] \in DOMAIN Numeral

envIntStrict(env, k, def) ==
  IF lookupNonEmpty(env, k) THEN Numeral[env[k]] ELSE def

lower(s) == IF s \in DOMAIN Lowered THEN Lowered[s] ELSE s

NormalizeLogDBDriver(raw) ==
  LET s == lower(raw) IN
  CASE s \in {"sqlite", "sqlite3"} -> "sqlite"
    [] s \in {"mysql", "mariadb"} -> "mysql"
    [] s \in {"postgres", "postgresql", "pg", "pgsql"} -> "postgres"
    [] OTHER -> s

LoadLog(env) ==
  LET get(k) == envString(env, k, DefaultLog[k]) IN
  [SystemMode |-> lower(get("SYSTEM_LOG_MODE")),
   AccessMode |-> lower(get("ACCESS_LOG_MODE")),
   SystemFile |-> get("SYSTEM_LOG_FILE"),
   AccessFile |-> get("ACCESS_LOG_FILE"),
   DBDriver   |-> NormalizeLogDBDriver(get("LOG_DB_DRIVER")),
   DBDSN      |-> get("LOG_DB_DSN")]

(* Broken variant of ValidLog: any driver will do.                         *)
ValidLogAnyDriver(c) ==
  /\ {c.SystemMode, c.AccessMode} \subseteq {"off", "file", "db"}
  /\ c.SystemMode = "file" => c.SystemFile # ""
  /\ c.AccessMode = "file" => c.AccessFile # ""
  /\ "db" \in {c.SystemMode, c.AccessMode} => c.DBDSN # ""

(* LogConfig.Validate.                                                     *)
ValidLog(c) ==
  /\ {c.SystemMode, c.AccessMode} \subseteq {"off", "file", "db"}
  /\ c.SystemMode = "file" => c.SystemFile # ""
  /\ c.AccessMode = "file" => c.AccessFile # ""
  /\ "db" \in {c.SystemMode, c.AccessMode} =>
       c.DBDriver \in {"sqlite", "mysql", "postgres"} /\ c.DBDSN # ""

-----------------------------------------------------------------------------
(* Load.                                                                   *)

stringOf(env, k) ==
  LET s == envString(env, k, Default[k]) IN IF k = "NETWORK" THEN lower(s) ELSE s

(* Broken variant of extraOf: without the variables the OS had.            *)
extraOfFile(st) == [k \in DOMAIN st.fromFile \ KnownKeys |-> st.env[k]]

(* The names of the file that the program does not know; the value is the  *)
(* one the environment has in the end.                                     *)
extraOf(st) ==
  [k \in (DOMAIN st.fromFile \cup st.skippedOS) \ KnownKeys |-> st.env[k]]

appConfig(st) ==
  [str   |-> [k \in StringKeys |-> stringOf(st.env, k)],
   int   |-> [k \in IntKeys |-> envIntStrict(st.env, k, Default[k])],
   log   |-> LoadLog(st.env),
   extra |-> extraOf(st)]

(* Broken variant of Valid: the limits are not looked at.                  *)
ValidUnlimited(c) ==
  /\ c.str["NETWORK"] \in {"tcp", "tcp4", "tcp6"}
  /\ c.str["LISTEN_ADDR"] # ""
  /\ {c.str["WS_PATH"], c.str["HEALTH_PATH"]} \subseteq AbsolutePath
  /\ c.str["WS_PATH"] # c.str["HEALTH_PATH"]
  /\ \A k \in IntKeys \ LimitKeys : c.int[k] >= 0
  /\ c.str["WEBHOOK_URL"] # "" => c.str["WEBHOOK_URL"] \in DOMAIN UrlList

(* AppConfig.Validate.                                                     *)
Valid(c) ==
  /\ c.str["NETWORK"] \in {"tcp", "tcp4", "tcp6"}
  /\ c.str["LISTEN_ADDR"] # ""
  /\ {c.str["WS_PATH"], c.str["HEALTH_PATH"]} \subseteq AbsolutePath
  /\ c.str["WS_PATH"] # c.str["HEALTH_PATH"]
  /\ \A k \in IntKeys : c.int[k] >= 0
  /\ c.str["WEBHOOK_URL"] # "" => c.str["WEBHOOK_URL"] \in DOMAIN UrlList

NoConfig == [ok |-> FALSE]

(* The environment afterwards, and the configuration or an error.          *)
Load(env, file) ==
  LET st == LoadFile(env, file) IN
  [env  |-> st.env,
   conf |-> IF /\ st.ok
               /\ \A k \in IntKeys : IsInteger(st.env, k)
               /\ ValidLog(LoadLog(st.env))
               /\ Valid(appConfig(st))
            THEN appConfig(st) ELSE NoConfig]

(* The flag -addr; it is not checked again.                                *)
SetListenAddr(c, addr) ==
  IF addr # "" THEN [c EXCEPT !.str["LISTEN_ADDR"] = addr] ELSE c

(* The views of the configuration that the other parts take.               *)
WebhookURLs(c) ==
  IF c.str["WEBHOOK_URL"] = "" THEN <<>> ELSE UrlList[c.str["WEBHOOK_URL"]]

FromConfig(c) ==
  [SystemMode |-> c.log.SystemMode, AccessMode |-> c.log.AccessMode,
   DBDriver |-> IF c.log.DBDriver \in {"sqlite", "mysql", "postgres"}
               THEN c.log.DBDriver ELSE "none"]

=============================================================================
