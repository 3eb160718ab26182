----------------------------- MODULE MCStartup -----------------------------
(* Strings and boots for the run of Startup.                               *)
EXTENDS Startup, LoggerJournal, TLC

MCNumeral == "-1" :> -1 @@ "0" :> 0 @@ "7" :> 7
MCUrlList == "[]" :> <<>> @@ "[a]" :> <<"a">>
MCLowered == "FILE" :> "file" @@ "MariaDB" :> "mariadb" @@ "TCP4" :> "tcp4"
MCAbsolutePath == {"/ws", "/health", "/a"}

line(k, v) == [kind |-> "set", key |-> k, val |-> v]
bad     == [kind |-> "malformed"]
comment == [kind |-> "comment"]

Quiet == "SYSTEM_LOG_MODE" :> "off" @@ "ACCESS_LOG_MODE" :> "off"

(* Every kind of value for a few variables, in the OS and in the file.     *)
OSes ==
  {Quiet,
   Quiet @@ "LISTEN_ADDR" :> "" @@ "WS_PATH" :> "/a" @@ "MAX_AREAS" :> "0",
   Quiet @@ "LISTEN_ADDR" :> "/a" @@ "WS_PATH" :> "" @@ "MAX_AREAS" :> "",
   Quiet @@ "X" :> "os" @@ "NETWORK" :> "TCP4" @@ "WEBHOOK_URL" :> "[a]",
   Quiet @@ "NETWORK" :> "udp", Quiet @@ "WEBHOOK_URL" :> "a",
   Quiet @@ "WS_PATH" :> "a"}
  \cup {Quiet @@ "MAX_AREAS" :> v : v \in {"-1", "many"}}

Files ==
  {<<>>, <<comment, line("X", "file"), line("X", "again")>>,
   <<line("LISTEN_ADDR", "/a"), line("WS_PATH", ""), line("MAX_AREAS", "7")>>,
   <<line("WS_PATH", "/a"), line("WS_PATH", "/health"),
     line("MAX_AREAS", ""), line("MAX_AREAS", "7")>>,
   <<line("WS_PATH", "/a"), bad, line("X", "file")>>,
   <<line("HEALTH_PATH", "/ws"), line("WEBHOOK_URL", "[]")>>}

(* An environment is tried with the files that set a variable of it; one   *)
(* that no file touches, without a file.                                   *)
Touches(f, o) == \E i \in DOMAIN f : f[i].kind = "set" /\ f[i].key \in DOMAIN o

Meet(o, f) ==
  \/ o = Quiet
  \/ Touches(f, o)
  \/ f = <<>> /\ \A g \in Files : ~Touches(g, o)

(* Sinks of every kind, spelled in different ways, with two drivers, and   *)
(* modes and a driver that are refused.                                    *)
LogEnvs ==
  {"SYSTEM_LOG_MODE" :> m[1] @@ "ACCESS_LOG_MODE" :> m[2] @@ "LOG_DB_DRIVER" :> "MariaDB" :
     m \in {<<"", "FILE">>, <<"db", "db">>, <<"off", "db">>, <<"db", "none">>}}
  \cup {"SYSTEM_LOG_MODE" :> "db" @@ "LOG_DB_DRIVER" :> d : d \in {"", "oracle"}}

MCBoots ==
  {b \in [os : OSes, file : Files, addr : {""}] : Meet(b.os, b.file)}
  \cup [os : {Quiet}, file : {<<line("LISTEN_ADDR", "/a")>>}, addr : {"/b"}]
  \cup [os : LogEnvs, file : {<<>>}, addr : {""}]

=============================================================================
