------------------------------- MODULE Logger -------------------------------
(***************************************************************************)
(* logging/logging.go and db.go: newLogger opens up to three sinks one     *)
(* after the other, System and Access write to them under l.mu, Close      *)
(* closes them.  The files, the rows and the schema outlive the process,   *)
(* which may end at any point and be started again, with other modes, too. *)
(*                                                                         *)
(* A log entry is the caller and the number of its call; there is one file *)
(* for each kind of log and one database for each driver.  A statement or  *)
(* a write takes effect or fails as a whole.  Modes and drivers that are   *)
(* not known do not get this far: Config refuses them.                     *)
(***************************************************************************)
EXTENDS Naturals, Sequences

CONSTANTS
  Caller,      \* goroutines that use the logger
  NoCaller,    \* nobody holds the mutex
  MaxCalls,    \* bound: calls of one caller
  MaxStarts    \* bound: starts of the process

ASSUME LoggerAssumption ==
  /\ NoCaller \notin Caller
  /\ MaxCalls \in Nat /\ MaxStarts \in Nat

Mode   == {"off", "file", "db"}
Driver == {"sqlite", "mysql", "postgres"}
Kind   == {"System", "Access"}
Handle == {"db", "sysF", "accF"}

NeedsDB(v) == "db" \in {v.SystemMode, v.AccessMode}

(* LogConfigView; "none" is any driver name that openDB would reject.      *)
View == {v \in [SystemMode : Mode, AccessMode : Mode, DBDriver : Driver \cup {"none"}] :
           NeedsDB(v) => v.DBDriver \in Driver}

Table  == {"system_logs", "access_logs"}
Index  == {"idx_system_logs_created", "idx_access_logs_created"}
Step   == {"connect", "done", "none"} \cup Table \cup Index \cup {"sysF", "accF"}
Medium == (Driver \cup {"file"}) \X Kind
Entry  == Caller \X Nat

VARIABLES
  \* the process
  proc,     \* down, opening (in newLogger), running, failed (newLogger: error)
  cfg,      \* l.cfg
  step,     \* what newLogger does next
  fault,    \* something outside the program failed during this start
  handles,  \* open files and connections of the process
  fields,   \* the ones l.sysF, l.accF and l.db refer to
  closed,   \* l.closed
  mu,       \* who holds l.mu
  at,       \* caller -> where it is
  op,       \* caller -> what it called
  \* what outlives it
  schema,   \* driver -> tables and indexes of its database
  stored,   \* the logs
  \* counters
  calls, starts

processVars == <<proc, cfg, step, fault, handles, fields>>
callVars    == <<closed, mu, at, op, calls>>
diskVars    == <<schema, stored>>
loggerVars  == <<processVars, callVars, diskVars, starts>>

NoView == [SystemMode |-> "off", AccessMode |-> "off", DBDriver |-> "none"]

LoggerInit ==
  /\ proc = "down" /\ cfg = NoView /\ step = "none" /\ fault = FALSE
  /\ handles = {} /\ fields = {}
  /\ closed = FALSE /\ mu = NoCaller
  /\ at = [c \in Caller |-> "idle"]
  /\ op = [c \in Caller |-> "none"]
  /\ schema = [d \in Driver |-> {}]
  /\ stored = [m \in Medium |-> <<>>]
  /\ calls = [c \in Caller |-> 0]
  /\ starts = 0

-----------------------------------------------------------------------------
(* newLogger.                                                              *)

accessStep(v) == IF v.AccessMode = "file" THEN "accF" ELSE "done"
systemStep(v) == IF v.SystemMode = "file" THEN "sysF" ELSE accessStep(v)
firstStep(v)  == IF NeedsDB(v) THEN "connect" ELSE systemStep(v)

nextStep ==
  CASE step = "connect"                 -> "system_logs"
    [] step = "system_logs"             -> "access_logs"
    [] step = "access_logs"             -> "idx_system_logs_created"
    [] step = "idx_system_logs_created" -> "idx_access_logs_created"
    [] step = "idx_access_logs_created" -> systemStep(cfg)
    [] step = "sysF"                    -> accessStep(cfg)
    [] step = "accF"                    -> "done"

Needed(v) ==
  (IF NeedsDB(v) THEN {"db"} ELSE {})
  \cup (IF v.SystemMode = "file" THEN {"sysF"} ELSE {})
  \cup (IF v.AccessMode = "file" THEN {"accF"} ELSE {})

New(v) ==
  /\ proc = "down" /\ starts < MaxStarts
  /\ proc' = "opening" /\ cfg' = v /\ step' = firstStep(v) /\ fault' = FALSE
  /\ starts' = starts + 1
  /\ UNCHANGED <<handles, fields, callVars, diskVars>>

advance == step' = nextStep /\ UNCHANGED <<proc, cfg, fault, callVars, starts>>

(* sql.Open and Ping.                                                      *)
Connect ==
  /\ step = "connect" /\ advance
  /\ handles' = handles \cup {"db"}
  /\ UNCHANGED <<fields, diskVars>>

(* migrate, first loop: CREATE TABLE IF NOT EXISTS.                        *)
CreateTable ==
  /\ step \in Table /\ advance
  /\ schema' = [schema EXCEPT ![cfg.DBDriver] = @ \cup {step}]
  /\ UNCHANGED <<handles, fields, stored>>

(* l.db is set when migrate has returned.                                  *)
assigned ==
  fields' = IF step = "idx_access_logs_created"
            THEN fields \cup {"db"} ELSE fields

(* MySQL's CREATE INDEX knows no IF NOT EXISTS: an index that exists from  *)
(* an earlier start is an error.                                           *)
duplicate == cfg.DBDriver = "mysql" /\ step \in schema["mysql"]

(* Broken variant of CreateIndex: every error ends migrate.                *)
CreateIndexStrict ==
  /\ step \in Index
  /\ IF duplicate
     THEN /\ handles' = handles \ {"db"}
          /\ proc' = "failed" /\ step' = "none"
          /\ UNCHANGED <<cfg, fault, callVars, schema, starts, fields>>
     ELSE /\ advance
          /\ schema' = [schema EXCEPT ![cfg.DBDriver] = @ \cup {step}]
          /\ assigned
          /\ UNCHANGED handles
  /\ UNCHANGED stored

(* migrate, second loop; the error of a duplicate is passed over.          *)
CreateIndex ==
  /\ step \in Index /\ advance
  /\ schema' = IF duplicate THEN schema
               ELSE [schema EXCEPT ![cfg.DBDriver] = @ \cup {step}]
  /\ assigned
  /\ UNCHANGED <<handles, stored>>

File(k) == IF k = "System" THEN "sysF" ELSE "accF"

(* Broken variant of OpenFile: the file is truncated.                      *)
OpenFileTruncating ==
  /\ step \in {"sysF", "accF"} /\ advance
  /\ handles' = handles \cup {step}
  /\ fields' = fields \cup {step}
  /\ stored' = [m \in Medium |->
                  IF m[1] = "file" /\ File(m[2]) = step THEN <<>> ELSE stored[m]]
  /\ UNCHANGED schema

(* openAppend keeps what the file holds.                                   *)
OpenFile ==
  /\ step \in {"sysF", "accF"} /\ advance
  /\ handles' = handles \cup {step}
  /\ fields' = fields \cup {step}
  /\ UNCHANGED diskVars

Opened ==
  /\ proc = "opening" /\ step = "done"
  /\ proc' = "running" /\ step' = "none"
  /\ UNCHANGED <<cfg, fault, handles, fields, callVars, diskVars, starts>>

(* Broken variant of givesUp: a file that cannot be opened is reported     *)
(* without closing the sinks that are open.                                *)
givesUpWithoutClose ==
  /\ handles' = IF step \in {"sysF", "accF"} THEN handles ELSE handles \ {"db"}
  /\ fields' = {}
  /\ proc' = "failed" /\ step' = "none"

(* newLogger returns an error: openDB closes its connection, a file that   *)
(* cannot be opened makes newLogger call l.Close.                          *)
givesUp ==
  /\ handles' = IF step \in {"sysF", "accF"} THEN handles \ fields ELSE handles \ {"db"}
  /\ fields' = {}
  /\ proc' = "failed" /\ step' = "none"

(* Broken variant of OpenFails: no error of a CREATE INDEX ends migrate.   *)
OpenFailsUnlessIndex ==
  /\ proc = "opening" /\ step # "done"
  /\ fault' = TRUE
  /\ IF step \in Index
     THEN step' = nextStep /\ assigned /\ UNCHANGED <<proc, handles>>
     ELSE givesUp
  /\ UNCHANGED <<cfg, callVars, diskVars, starts>>

(* A step fails for reasons outside the program: no connection, no right   *)
(* to create a table, a full disk, a directory that cannot be made.        *)
OpenFails ==
  /\ proc = "opening" /\ step # "done"
  /\ fault' = TRUE
  /\ givesUp
  /\ UNCHANGED <<cfg, callVars, diskVars, starts>>

OpenStep ==
  Connect \/ CreateTable \/ CreateIndex \/ OpenFile \/ Opened \/ OpenFails

-----------------------------------------------------------------------------
(* System, Access and Close.                                               *)

goto(c, next) == at' = [at EXCEPT ![c] = next]

Call(c) ==
  /\ proc = "running" /\ at[c] = "idle" /\ calls[c] < MaxCalls
  /\ \E o \in Kind \cup {"Close"} : op' = [op EXCEPT ![c] = o]
  /\ calls' = [calls EXCEPT ![c] = @ + 1]
  /\ goto(c, "lock")
  /\ UNCHANGED <<processVars, closed, mu, diskVars, starts>>

(* Broken variant of Lock: Close does not take the mutex.                  *)
LockUnlessClose(c) ==
  /\ at[c] = "lock"
  /\ mu = NoCaller \/ op[c] = "Close"
  /\ mu' = c
  /\ goto(c, "locked")
  /\ UNCHANGED <<processVars, closed, op, calls, diskVars, starts>>

Lock(c) ==
  /\ at[c] = "lock" /\ mu = NoCaller
  /\ mu' = c
  /\ goto(c, "locked")
  /\ UNCHANGED <<processVars, closed, op, calls, diskVars, starts>>

(* Broken variant of AlreadyClosed: it returns without unlocking.          *)
AlreadyClosedLocked(c) ==
  /\ at[c] = "locked" /\ closed
  /\ goto(c, "idle")
  /\ op' = [op EXCEPT ![c] = "none"]
  /\ UNCHANGED <<processVars, closed, mu, calls, diskVars, starts>>

(* After Close every call returns at once.                                 *)
AlreadyClosed(c) ==
  /\ at[c] = "locked" /\ closed
  /\ goto(c, "unlock")
  /\ UNCHANGED <<processVars, closed, mu, op, calls, diskVars, starts>>

BeginWrite(c) ==
  /\ at[c] = "locked" /\ ~closed /\ op[c] \in Kind
  /\ goto(c, "write")
  /\ UNCHANGED <<processVars, closed, mu, op, calls, diskVars, starts>>

modeOf(k) == IF k = "System" THEN cfg.SystemMode ELSE cfg.AccessMode
mediumOf(k) == <<IF modeOf(k) = "db" THEN cfg.DBDriver ELSE "file", k>>
fieldOf(k)  == IF modeOf(k) = "db" THEN "db" ELSE File(k)

(* WriteString, insertSystem, insertAccess.  Their errors are discarded.   *)
Write(c) ==
  /\ at[c] = "write"
  /\ LET k == op[c] IN
       \/ /\ modeOf(k) # "off" /\ fieldOf(k) \in fields
          /\ stored' = [stored EXCEPT ![mediumOf(k)] = Append(@, <<c, calls[c]>>)]
       \/ UNCHANGED stored
  /\ goto(c, "unlock")
  /\ UNCHANGED <<processVars, closed, mu, op, calls, schema, starts>>

BeginClose(c) ==
  /\ at[c] = "locked" /\ ~closed /\ op[c] = "Close"
  /\ closed' = TRUE
  /\ goto(c, "close")
  /\ UNCHANGED <<processVars, mu, op, calls, diskVars, starts>>

(* One sink after the other; an error does not keep the rest open.         *)
CloseSink(c) ==
  /\ at[c] = "close"
  /\ \E f \in fields :
       /\ f = "accF" => "sysF" \notin fields
       /\ f = "db" => fields = {"db"}
       /\ handles' = handles \ {f}
       /\ fields' = fields \ {f}
  /\ UNCHANGED <<proc, cfg, step, fault, callVars, diskVars, starts>>

Closed(c) ==
  /\ at[c] = "close" /\ fields = {}
  /\ goto(c, "unlock")
  /\ UNCHANGED <<processVars, closed, mu, op, calls, diskVars, starts>>

Unlock(c) ==
  /\ at[c] = "unlock"
  /\ mu' = NoCaller
  /\ goto(c, "idle")
  /\ op' = [op EXCEPT ![c] = "none"]
  /\ UNCHANGED <<processVars, closed, calls, diskVars, starts>>

(* What the holder of the mutex does.                                      *)
HolderStep(c) ==
  \/ AlreadyClosed(c) \/ BeginWrite(c) \/ Write(c)
  \/ BeginClose(c) \/ CloseSink(c) \/ Closed(c) \/ Unlock(c)

CallStep == \E c \in Caller : Call(c) \/ Lock(c) \/ HolderStep(c)

(* The process ends: killed, crashed, or done with a failed start.  Only   *)
(* what is on disk remains.                                                *)
Exit ==
  /\ proc # "down"
  /\ proc' = "down" /\ cfg' = NoView /\ step' = "none" /\ fault' = FALSE
  /\ handles' = {} /\ fields' = {}
  /\ closed' = FALSE /\ mu' = NoCaller
  /\ at' = [c \in Caller |-> "idle"]
  /\ op' = [c \in Caller |-> "none"]
  /\ UNCHANGED <<diskVars, calls, starts>>

LoggerNext == (\E v \in View : New(v)) \/ OpenStep \/ CallStep \/ Exit

LoggerSpec == LoggerInit /\ [][LoggerNext]_loggerVars

(* sync.Mutex lets every waiting goroutine in at last, and a write returns *)
(* (nothing in the code limits how long an insert may take).               *)
LoggerFairness ==
  \A c \in Caller : SF_loggerVars(Lock(c)) /\ WF_loggerVars(HolderStep(c))

-----------------------------------------------------------------------------
(* Type correctness, the modes and the driver included: whatever Config    *)
(* lets through newLogger can work with.                                   *)
LoggerTypeOK ==
  /\ proc \in {"down", "opening", "running", "failed"}
  /\ cfg \in View
  /\ step \in Step
  /\ fault \in BOOLEAN
  /\ handles \subseteq Handle /\ fields \subseteq Handle
  /\ closed \in BOOLEAN
  /\ mu \in Caller \cup {NoCaller}
  /\ at \in [Caller -> {"idle", "lock", "locked", "write", "close", "unlock"}]
  /\ op \in [Caller -> Kind \cup {"Close", "none"}]
  /\ schema \in [Driver -> SUBSET (Table \cup Index)]
  /\ stored \in [Medium -> Seq(Entry)]
  /\ calls \in [Caller -> 0 .. MaxCalls]
  /\ starts \in 0 .. MaxStarts

(* No sink is left open by a start that failed at a later one or by Close, *)
(* and none is missing in a logger that runs: its open files and           *)
(* connections are exactly the ones it refers to, and the ones its modes   *)
(* need until it is closed (newLogger, openDB, Close).                     *)
NoHandleLeaks ==
  /\ proc \in {"down", "failed"} => handles = {}
  /\ proc = "running" =>
       /\ handles = fields
       /\ ~closed => handles = Needed(cfg)
       /\ closed /\ mu = NoCaller => handles = {}

(* Nobody writes to a sink that is closed or was never opened, although    *)
(* Close can be called while other goroutines log (System, Access, Close). *)
WritesToOpenSinks ==
  \A c \in Caller : at[c] = "write" =>
    ~closed /\ (modeOf(op[c]) # "off" => fieldOf(op[c]) \in handles)

(* A logger that runs in db mode has all its tables and indexes, however   *)
(* earlier starts ended (openDB, migrate).                                 *)
SchemaComplete ==
  proc = "running" /\ NeedsDB(cfg) => schema[cfg.DBDriver] = Table \cup Index

(* What earlier starts left behind, a migration cut short by a crash       *)
(* included, never keeps the server from starting (migrate, openAppend).   *)
StartsAgain == proc = "failed" => fault

(* No step, and no restart, loses or changes what was logged, and every    *)
(* entry comes from the call that holds the mutex.                         *)
LogOnlyGrows ==
  [][\A m \in Medium :
       \/ stored'[m] = stored[m]
       \/ mu \in Caller /\ stored'[m] = Append(stored[m], <<mu, calls[mu]>>)]_stored

(* Every call returns, Close and calls after Close included, if the writes *)
(* to the sinks do; or the process ends.                                   *)
CallsReturn == \A c \in Caller : at[c] # "idle" ~> at[c] = "idle"

=============================================================================
