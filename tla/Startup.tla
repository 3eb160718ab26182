------------------------------ MODULE Startup ------------------------------
(***************************************************************************)
(* A server process from its environment to its logger: config.Load, the   *)
(* flag -addr, server.New, the running server's log calls, and its end,    *)
(* any number of times with the same disk.  cmd/ws-server, which makes the *)
(* calls in this order, is not part of the repository (README.md, 2 and    *)
(* 3); the hub, the webhook and the listener keep nothing across starts.   *)
(***************************************************************************)
EXTENDS Config, Logger

CONSTANT
  Boots   \* ways to start: variables set by the OS, lines of the file, -addr

ASSUME StartupAssumption ==
  \A b \in Boots : b.file \in Seq(Line)

VARIABLES
  boot,  \* how the process was started
  env,   \* its environment
  conf   \* cfg of main, once Load has returned it

bootVars == <<boot, env, conf>>
vars == <<loggerVars, bootVars>>

NoBoot == [os |-> <<>>, file |-> <<>>, addr |-> ""]

StartupInit ==
  /\ LoggerInit
  /\ boot = NoBoot /\ env = <<>> /\ conf = NoConfig

(* What config.Load returns for each way to start that it accepts.         *)
Accepted ==
  {l \in {[boot |-> b, result |-> Load(b.os, b.file)] : b \in Boots} :
     l.result.conf # NoConfig}

(* Load and SetListenAddr, then logging.New.  An error of Load ends the    *)
(* process before it has touched anything outside.                         *)
Boot(l) ==
  /\ New(FromConfig(l.result.conf))
  /\ boot' = l.boot /\ env' = l.result.env
  /\ conf' = SetListenAddr(l.result.conf, l.boot.addr)

Run == (OpenStep \/ CallStep) /\ UNCHANGED bootVars

End ==
  /\ Exit
  /\ boot' = NoBoot /\ env' = <<>> /\ conf' = NoConfig

StartupNext == (\E l \in Accepted : Boot(l)) \/ Run \/ End

StartupSpec == StartupInit /\ [][StartupNext]_vars

FairStartupSpec == StartupSpec /\ LoggerFairness

-----------------------------------------------------------------------------
Loaded == conf # NoConfig

(* What the first source that has the variable says; a blank value there   *)
(* hides the later sources and stands for the default.                     *)
effective(k) ==
  LET lines == {i \in DOMAIN boot.file : boot.file[i].kind = "set" /\ boot.file[i].key = k}
  IN  IF k \in DOMAIN boot.os THEN boot.os[k]
      ELSE IF lines # {} THEN boot.file[CHOOSE i \in lines : \A j \in lines : i <= j].val
      ELSE ""

expected(k, def) == IF effective(k) # "" THEN effective(k) ELSE def

expectedLog(k) == expected(k, DefaultLog[k])

(* The names the file assigns to.                                          *)
named == {boot.file[i].key : i \in {j \in DOMAIN boot.file : boot.file[j].kind = "set"}}

(* The precedence of config.go:8: -addr, the OS, the file (its first line  *)
(* for the variable), the default, variable by variable, those of the log  *)
(* included.  The names of the file that the program does not know are in  *)
(* Extra, with what the OS or else their first line says.  The variables   *)
(* of the OS are as they were (LoadFile, Load, LoadLog, envString,         *)
(* envIntStrict).                                                          *)
FollowsPrecedence ==
  Loaded =>
    /\ \A k \in StringKeys \ {"NETWORK", "LISTEN_ADDR"} :
         conf.str[k] = expected(k, Default[k])
    /\ conf.str["NETWORK"] = lower(expected("NETWORK", Default["NETWORK"]))
    /\ conf.str["LISTEN_ADDR"] =
         IF boot.addr # "" THEN boot.addr
         ELSE expected("LISTEN_ADDR", Default["LISTEN_ADDR"])
    /\ \A k \in IntKeys :
         conf.int[k] = IF effective(k) # "" THEN Numeral[effective(k)] ELSE Default[k]
    /\ conf.log =
         [SystemMode |-> lower(expectedLog("SYSTEM_LOG_MODE")),
          AccessMode |-> lower(expectedLog("ACCESS_LOG_MODE")),
          SystemFile |-> expectedLog("SYSTEM_LOG_FILE"),
          AccessFile |-> expectedLog("ACCESS_LOG_FILE"),
          DBDriver   |-> NormalizeLogDBDriver(expectedLog("LOG_DB_DRIVER")),
          DBDSN      |-> expectedLog("LOG_DB_DSN")]
    /\ conf.extra = [k \in named \ KnownKeys |-> effective(k)]
    /\ \A k \in DOMAIN boot.os : env[k] = boot.os[k]

(* Loading the same file again in the process gives the same, although the *)
(* variables now come from the environment instead of the file; unknown    *)
(* names (Extra) included (LoadFile, Load).                                *)
ReloadAgrees ==
  Loaded => LET again == Load(env, boot.file)
            IN  again.env = env /\ SetListenAddr(again.conf, boot.addr) = conf

(* What the other parts take for granted of a configuration: the hub, that *)
(* the limits are natural numbers; NewMux, that its two paths differ, for  *)
(* it panics otherwise; NewWebhook, that the URLs parse; newLogger, that   *)
(* it knows the modes and the driver (Validate, LogConfig.Validate).       *)
ConfigSound ==
  Loaded =>
    /\ \A k \in LimitKeys : conf.int[k] \in Nat
    /\ conf.str["WS_PATH"] # conf.str["HEALTH_PATH"]
    /\ conf.str["WEBHOOK_URL"] \in DOMAIN UrlList \cup {""}
    /\ FromConfig(conf) \in View

=============================================================================
