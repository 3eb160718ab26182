---------------------------- MODULE LoggerProofs ----------------------------
(***************************************************************************)
(* Proofs about Logger: the safety properties of the sinks for any number  *)
(* of goroutines, calls and starts.                                        *)
(***************************************************************************)
EXTENDS LoggerJournal, TLAPS

-----------------------------------------------------------------------------
(* The inductive invariant.                                                *)

FileSteps == {"sysF", "accF"}
DBSteps   == {"connect"} \cup Table \cup Index

Inside == {"locked", "write", "close", "unlock"}

(* The mutex excludes, and nobody runs but in a running process.           *)
MutexHeld ==
  /\ \A c \in Caller : at[c] \in Inside => mu = c
  /\ mu # NoCaller => at[mu] \in Inside
  /\ \A c \in Caller : at[c] # "idle" => proc = "running"
  /\ proc # "running" => mu = NoCaller /\ ~closed

(* What the goroutine in the critical section has found.                   *)
Found ==
  \A c \in Caller :
    /\ at[c] = "write" => ~closed /\ op[c] \in Kind
    /\ at[c] = "close" => closed

(* newLogger visits the steps its modes call for.                          *)
StepFits ==
  /\ proc = "opening" <=> step # "none"
  /\ step \in DBSteps => NeedsDB(cfg)
  /\ step = "sysF" => cfg.SystemMode = "file"
  /\ step = "accF" => cfg.AccessMode = "file"

(* What is open before each step.                                          *)
OpenBefore(s) ==
  {h \in Needed(cfg) :
     \/ h = "db" /\ s \notin {"connect"}
     \/ h = "sysF" /\ s \in {"accF", "done"}
     \/ h = "accF" /\ s = "done"}

HandlesFit ==
  /\ proc \in {"down", "failed"} => handles = {} /\ fields = {}
  /\ proc = "opening" =>
       /\ handles = OpenBefore(step)
       /\ fields = IF step \in DBSteps THEN {} ELSE handles
  /\ proc = "running" =>
       /\ handles = fields
       /\ ~closed => handles = Needed(cfg)
       /\ closed /\ fields # {} => mu # NoCaller /\ at[mu] = "close"

(* What migrate has created before each step.                              *)
CreatedBefore(s) ==
  (IF s \in {"connect", "system_logs"} THEN {} ELSE {"system_logs"})
  \cup (IF s \in {"connect"} \cup Table THEN {} ELSE {"access_logs"})
  \cup (IF s \in DBSteps \ {"idx_access_logs_created"} THEN {}
        ELSE {"idx_system_logs_created"})
  \cup (IF s \in DBSteps THEN {} ELSE {"idx_access_logs_created"})

SchemaFits ==
  proc \in {"opening", "running"} /\ NeedsDB(cfg) =>
    CreatedBefore(step) \subseteq schema[cfg.DBDriver]

LoggerInv ==
  /\ LoggerTypeOK /\ MutexHeld /\ Found
  /\ StepFits /\ HandlesFit /\ SchemaFits /\ StartsAgain

-----------------------------------------------------------------------------
LEMMA StepsDistinct ==
  ASSUME step \in Step
  PROVE  /\ \/ step = "connect" \/ step = "system_logs" \/ step = "access_logs"
            \/ step = "idx_system_logs_created" \/ step = "idx_access_logs_created"
            \/ step = "sysF" \/ step = "accF" \/ step = "done" \/ step = "none"
BY DEF Step, Table, Index

LEMMA NoViewIsView == NoView \in View
BY DEF NoView, View, NeedsDB, Mode, Driver

LEMMA LoggerInitInv == LoggerInit => LoggerInv
<1> SUFFICES ASSUME LoggerInit PROVE LoggerInv
  OBVIOUS
<1> USE DEF LoggerInit
<1>1. LoggerTypeOK
  <2>1. fault \in BOOLEAN /\ closed \in BOOLEAN
    BY Zenon
  <2>2. stored \in [Medium -> Seq(Entry)]
    BY SMT
  <2>3. /\ schema \in [Driver -> SUBSET (Table \cup Index)]
        /\ calls \in [Caller -> 0 .. MaxCalls] /\ starts \in 0 .. MaxStarts
    BY LoggerAssumption
  <2>4. /\ cfg \in View /\ step \in Step
        /\ at \in [Caller -> {"idle", "lock", "locked", "write", "close", "unlock"}]
        /\ op \in [Caller -> Kind \cup {"Close", "none"}]
    BY NoViewIsView DEF Step
  <2> QED
    BY <2>1, <2>2, <2>3, <2>4 DEF LoggerTypeOK
<1>2. MutexHeld /\ Found
  BY DEF MutexHeld, Found, Inside
<1>3. StepFits /\ HandlesFit /\ SchemaFits /\ StartsAgain
  BY DEF StepFits, HandlesFit, SchemaFits, StartsAgain, DBSteps, Table, Index
<1> QED
  BY <1>1, <1>2, <1>3 DEF LoggerInv

-----------------------------------------------------------------------------
(* newLogger.                                                              *)

LEMMA NewInv ==
  ASSUME LoggerInv, NEW v \in View, New(v)
  PROVE  LoggerInv'
<1> USE DEF New
<1>1. LoggerTypeOK'
  <2>1. UNCHANGED <<handles, fields, closed, mu, at, op, calls, schema, stored>>
    BY DEF callVars, diskVars
  <2>2. fault' \in BOOLEAN
    BY Zenon
  <2>3. starts' \in 0 .. MaxStarts
    BY LoggerAssumption DEF LoggerInv, LoggerTypeOK
  <2>4. proc' = "opening" /\ cfg' \in View /\ step' \in Step
    BY DEF Step, firstStep, systemStep, accessStep
  <2> QED
    BY <2>1, <2>2, <2>3, <2>4 DEF LoggerInv, LoggerTypeOK
<1>2. MutexHeld' /\ Found'
  BY DEF LoggerInv, MutexHeld, Found, callVars, Inside
<1>3. /\ firstStep(v) \in {"connect", "sysF", "accF", "done"}
      /\ firstStep(v) = "connect" <=> NeedsDB(v)
      /\ firstStep(v) = "sysF" => v.SystemMode = "file"
      /\ firstStep(v) = "accF" => v.AccessMode = "file" /\ v.SystemMode # "file"
      /\ firstStep(v) = "done" => v.AccessMode # "file" /\ v.SystemMode # "file"
  BY DEF firstStep, systemStep, accessStep
<1>4. StepFits' /\ StartsAgain'
  BY <1>3 DEF StepFits, StartsAgain, DBSteps, Table, Index, NeedsDB
<1>5. HandlesFit'
  <2>1. handles' = {} /\ fields' = {} /\ proc' = "opening" /\ cfg' = v
        /\ step' = firstStep(v)
    BY DEF LoggerInv, HandlesFit
  <2>2. OpenBefore(step)' = {}
    BY <1>3, <2>1 DEF OpenBefore, Needed, NeedsDB
  <2> QED
    BY <2>1, <2>2 DEF HandlesFit
<1>6. SchemaFits'
  BY <1>3 DEF SchemaFits, CreatedBefore, DBSteps, Table, Index, NeedsDB
<1> QED
  BY <1>1, <1>2, <1>4, <1>5, <1>6 DEF LoggerInv

(* A step of newLogger that has succeeded: the next one fits.              *)
LEMMA AdvanceFits ==
  ASSUME LoggerInv, step \notin {"done", "none"}, advance
  PROVE  /\ proc = "opening" /\ step' \in Step
         /\ StepFits' /\ MutexHeld' /\ Found' /\ StartsAgain'
<1>1. step \in Step /\ proc = "opening"
  BY DEF LoggerInv, LoggerTypeOK, StepFits
<1>2. step' = nextStep /\ proc' = "opening" /\ cfg' = cfg
  BY <1>1 DEF advance
<1>3. step' \in Step \ {"none"}
  BY <1>1, <1>2, StepsDistinct
     DEF nextStep, systemStep, accessStep, Step, Table, Index
<1>4. StepFits'
  <2>1. step' \in DBSteps => step \in DBSteps
    BY <1>1, <1>2, StepsDistinct
       DEF nextStep, systemStep, accessStep, DBSteps, Table, Index
  <2>2. step' = "sysF" => cfg.SystemMode = "file"
    BY <1>1, <1>2, StepsDistinct DEF nextStep, systemStep, accessStep
  <2>3. step' = "accF" => cfg.AccessMode = "file"
    BY <1>1, <1>2, StepsDistinct DEF nextStep, systemStep, accessStep
  <2> QED
    BY <1>2, <1>3, <2>1, <2>2, <2>3 DEF LoggerInv, StepFits, NeedsDB
<1>5. MutexHeld' /\ Found' /\ StartsAgain'
  BY <1>2 DEF LoggerInv, MutexHeld, Found, StartsAgain, advance, callVars, Inside
<1> QED
  BY <1>1, <1>3, <1>4, <1>5

LEMMA ConnectInv ==
  ASSUME LoggerInv, Connect
  PROVE  LoggerInv'
<1> USE DEF Connect
<1>1. proc = "opening" /\ StepFits' /\ MutexHeld' /\ Found' /\ StartsAgain'
      /\ step' = "system_logs" /\ cfg' = cfg /\ proc' = "opening"
  BY AdvanceFits DEF advance, nextStep
<1>2. LoggerTypeOK'
  BY DEF LoggerInv, LoggerTypeOK, advance, nextStep, callVars, diskVars, Handle,
         Step, Table
<1>3. NeedsDB(cfg) /\ OpenBefore("connect") = {} /\ OpenBefore("system_logs") = {"db"}
  BY DEF LoggerInv, StepFits, DBSteps, OpenBefore, Needed
<1>4. HandlesFit'
  <2>1. handles = {} /\ fields = {}
    BY <1>1, <1>3 DEF LoggerInv, HandlesFit, DBSteps
  <2>2. handles' = {"db"} /\ fields' = {}
    BY <2>1
  <2>3. OpenBefore(step)' = {"db"}
    BY <1>1, <1>3 DEF OpenBefore, Needed, NeedsDB
  <2> QED
    BY <1>1, <2>2, <2>3 DEF HandlesFit, DBSteps, Table
<1>5. SchemaFits'
  BY <1>1 DEF SchemaFits, CreatedBefore, DBSteps, Table
<1> QED
  BY <1>1, <1>2, <1>4, <1>5 DEF LoggerInv

(* The schema of the database that is being migrated has whatever it had   *)
(* and what this step creates.                                             *)
LEMMA CreatedFits ==
  ASSUME LoggerInv, step \in Table \cup Index, advance,
         schema' = [schema EXCEPT ![cfg.DBDriver] = @ \cup {step}]
  PROVE  /\ schema' \in [Driver -> SUBSET (Table \cup Index)]
         /\ SchemaFits'
<1>1. NeedsDB(cfg) /\ cfg.DBDriver \in Driver /\ proc = "opening"
  BY AdvanceFits DEF LoggerInv, LoggerTypeOK, StepFits, DBSteps, View, Table, Index
<1>2. schema'[cfg.DBDriver] = schema[cfg.DBDriver] \cup {step}
  BY <1>1 DEF LoggerInv, LoggerTypeOK
<1>3. schema' \in [Driver -> SUBSET (Table \cup Index)]
  BY <1>1 DEF LoggerInv, LoggerTypeOK
<1>4. CreatedBefore(step') \subseteq CreatedBefore(step) \cup {step}
  <2>1. \/ step = "system_logs" /\ step' = "access_logs"
        \/ step = "access_logs" /\ step' = "idx_system_logs_created"
        \/ step = "idx_system_logs_created" /\ step' = "idx_access_logs_created"
        \/ step = "idx_access_logs_created"
    BY DEF advance, nextStep, Table, Index
  <2> QED
    BY <2>1 DEF CreatedBefore, DBSteps, Table, Index
<1>5. CreatedBefore(step) \subseteq schema[cfg.DBDriver]
  BY <1>1 DEF LoggerInv, SchemaFits
<1>6. CreatedBefore(step)' = CreatedBefore(step') /\ cfg' = cfg
  BY DEF CreatedBefore, advance
<1> QED
  BY <1>2, <1>3, <1>4, <1>5, <1>6 DEF SchemaFits

LEMMA CreateTableInv ==
  ASSUME LoggerInv, CreateTable
  PROVE  LoggerInv'
<1> USE DEF CreateTable
<1>1. step \notin {"done", "none"}
  BY DEF Table
<1>2. /\ proc = "opening" /\ step' \in Step /\ cfg' = cfg /\ proc' = "opening"
      /\ StepFits' /\ MutexHeld' /\ Found' /\ StartsAgain'
  BY <1>1, AdvanceFits DEF advance
<1>3. schema' \in [Driver -> SUBSET (Table \cup Index)] /\ SchemaFits'
  BY CreatedFits
<1>4. LoggerTypeOK'
  BY <1>2, <1>3 DEF LoggerInv, LoggerTypeOK, advance, callVars
<1>5. step' \in {"access_logs", "idx_system_logs_created"} /\ step \in DBSteps
      /\ step # "connect"
  BY DEF advance, nextStep, Table, DBSteps
<1>6. HandlesFit'
  <2>1. handles' = OpenBefore(step) /\ fields' = {}
    BY <1>2, <1>5 DEF LoggerInv, HandlesFit
  <2>2. OpenBefore(step)' = OpenBefore(step)
    BY <1>2, <1>5 DEF OpenBefore, Needed, NeedsDB, DBSteps, Table, Index
  <2>3. step' \in DBSteps
    BY <1>5 DEF DBSteps, Table, Index
  <2> QED
    BY <1>2, <2>1, <2>2, <2>3 DEF HandlesFit
<1> QED
  BY <1>2, <1>3, <1>4, <1>6 DEF LoggerInv

LEMMA CreateIndexInv ==
  ASSUME LoggerInv, CreateIndex
  PROVE  LoggerInv'
<1> USE DEF CreateIndex
<1>1. step \notin {"done", "none"} /\ step \in Table \cup Index
  BY DEF Index
<1>2. /\ proc = "opening" /\ step' \in Step /\ cfg' = cfg /\ proc' = "opening"
      /\ StepFits' /\ MutexHeld' /\ Found' /\ StartsAgain'
  BY <1>1, AdvanceFits DEF advance
<1>3. schema' = [schema EXCEPT ![cfg.DBDriver] = @ \cup {step}]
  <2>1. CASE duplicate
    BY <2>1 DEF duplicate, LoggerInv, LoggerTypeOK
  <2>2. CASE ~duplicate
    BY <2>2
  <2> QED
    BY <2>1, <2>2
<1>4. schema' \in [Driver -> SUBSET (Table \cup Index)] /\ SchemaFits'
  BY <1>1, <1>3, CreatedFits
<1>5. handles = OpenBefore(step) /\ fields = {} /\ NeedsDB(cfg)
  BY <1>2 DEF LoggerInv, HandlesFit, StepFits, DBSteps
<1>6. OpenBefore(step) = {"db"}
  BY <1>5 DEF OpenBefore, Needed, Index
<1>7. LoggerTypeOK'
  BY <1>2, <1>4 DEF LoggerInv, LoggerTypeOK, advance, callVars, assigned, Handle
<1>8. HandlesFit'
  <2>1. CASE step = "idx_system_logs_created"
    <3>1. step' = "idx_access_logs_created"
      BY <2>1 DEF advance, nextStep
    <3>2. OpenBefore(step)' = {"db"}
      BY <1>2, <1>5, <3>1 DEF OpenBefore, Needed, NeedsDB
    <3>3. handles' = {"db"} /\ fields' = {} /\ step' \in DBSteps
      BY <1>5, <1>6, <2>1, <3>1 DEF assigned, DBSteps, Index
    <3> QED
      BY <1>2, <3>2, <3>3 DEF HandlesFit
  <2>2. CASE step = "idx_access_logs_created"
    <3>1. step' = systemStep(cfg)
      BY <2>2 DEF advance, nextStep
    <3>2. OpenBefore(step)' = {"db"} /\ step' \notin DBSteps
      BY <1>2, <1>5, <3>1
         DEF OpenBefore, Needed, NeedsDB, systemStep, accessStep, DBSteps, Table, Index
    <3>3. handles' = {"db"} /\ fields' = {"db"}
      BY <1>5, <1>6, <2>2 DEF assigned
    <3> QED
      BY <1>2, <3>2, <3>3 DEF HandlesFit
  <2> QED
    BY <2>1, <2>2 DEF Index
<1> QED
  BY <1>2, <1>4, <1>7, <1>8 DEF LoggerInv

LEMMA OpenFileInv ==
  ASSUME LoggerInv, OpenFile
  PROVE  LoggerInv'
<1> USE DEF OpenFile
<1>1. /\ proc = "opening" /\ step' \in Step /\ cfg' = cfg /\ proc' = "opening"
      /\ StepFits' /\ MutexHeld' /\ Found' /\ StartsAgain'
  BY AdvanceFits DEF advance
<1>2. LoggerTypeOK'
  BY <1>1 DEF LoggerInv, LoggerTypeOK, advance, callVars, diskVars, Handle
<1>3. handles = OpenBefore(step) /\ fields = handles
  BY <1>1 DEF LoggerInv, HandlesFit, DBSteps, Table, Index
<1>4. \/ step = "sysF" /\ cfg.SystemMode = "file" /\ step' = accessStep(cfg)
      \/ step = "accF" /\ cfg.AccessMode = "file" /\ step' = "done"
  BY DEF LoggerInv, StepFits, advance, nextStep
<1>5. OpenBefore(step)' = OpenBefore(step) \cup {step}
  BY <1>1, <1>4 DEF OpenBefore, Needed, NeedsDB, accessStep
<1>6. step' \in {"accF", "done"}
  BY <1>4 DEF accessStep
<1>7. HandlesFit'
  BY <1>1, <1>3, <1>5, <1>6 DEF HandlesFit, DBSteps, Table, Index
<1>8. SchemaFits'
  <2>1. CreatedBefore(step') = CreatedBefore(step)
    BY <1>6 DEF CreatedBefore, DBSteps, Table, Index
  <2>2. CreatedBefore(step)' = CreatedBefore(step') /\ schema' = schema
    BY DEF CreatedBefore, diskVars
  <2> QED
    BY <1>1, <2>1, <2>2 DEF LoggerInv, SchemaFits, NeedsDB
<1> QED
  BY <1>1, <1>2, <1>7, <1>8 DEF LoggerInv

LEMMA OpenedInv ==
  ASSUME LoggerInv, Opened
  PROVE  LoggerInv'
<1> USE DEF Opened
<1>1. cfg' = cfg /\ handles' = handles /\ fields' = fields /\ schema' = schema
      /\ closed' = closed /\ mu' = mu /\ at' = at /\ op' = op /\ calls' = calls
      /\ proc' = "running" /\ step' = "none" /\ proc = "opening" /\ step = "done"
  BY DEF callVars, diskVars
<1>2. LoggerTypeOK'
  BY <1>1 DEF LoggerInv, LoggerTypeOK, diskVars, Step
<1>3. MutexHeld' /\ Found'
  BY <1>1 DEF LoggerInv, MutexHeld, Found, Inside
<1>4. StepFits' /\ StartsAgain'
  BY <1>1 DEF StepFits, StartsAgain, DBSteps, Table, Index
<1>5. HandlesFit'
  <2>1. handles = OpenBefore("done") /\ fields = handles /\ ~closed
    BY <1>1 DEF LoggerInv, HandlesFit, DBSteps, Table, Index, MutexHeld
  <2>2. OpenBefore("done") = Needed(cfg)
    BY DEF OpenBefore, Needed
  <2> QED
    BY <1>1, <2>1, <2>2 DEF HandlesFit, Needed, NeedsDB
<1>6. SchemaFits'
  <2>1. CreatedBefore("none") = CreatedBefore("done")
    BY DEF CreatedBefore, DBSteps, Table, Index
  <2>2. CreatedBefore(step)' = CreatedBefore("none")
    BY <1>1 DEF CreatedBefore
  <2> QED
    BY <1>1, <2>1, <2>2 DEF LoggerInv, SchemaFits, NeedsDB
<1> QED
  BY <1>2, <1>3, <1>4, <1>5, <1>6 DEF LoggerInv

LEMMA OpenFailsInv ==
  ASSUME LoggerInv, OpenFails
  PROVE  LoggerInv'
<1> USE DEF OpenFails, givesUp
<1>1. /\ cfg' = cfg /\ fields' = {} /\ proc' = "failed" /\ step' = "none"
      /\ fault' = TRUE /\ schema' = schema /\ stored' = stored /\ starts' = starts
      /\ closed' = closed /\ mu' = mu /\ at' = at /\ op' = op /\ calls' = calls
      /\ proc = "opening" /\ step # "done"
  BY DEF callVars, diskVars
<1>2. handles' = {}
  <2>1. step \in Step \ {"none", "done"} /\ handles = OpenBefore(step)
        /\ fields = IF step \in DBSteps THEN {} ELSE handles
    BY <1>1 DEF LoggerInv, LoggerTypeOK, StepFits, HandlesFit
  <2>2. CASE step \in {"sysF", "accF"}
    BY <2>1, <2>2 DEF DBSteps, Table, Index
  <2>3. CASE step \in DBSteps
    <3>1. OpenBefore(step) \subseteq {"db"}
      BY <2>3 DEF OpenBefore, Needed, DBSteps, Table, Index
    <3>2. handles' = handles \ {"db"}
      BY <2>3 DEF DBSteps, Table, Index
    <3> QED
      BY <2>1, <3>1, <3>2
  <2> QED
    BY <2>1, <2>2, <2>3 DEF Step, DBSteps
<1>3. LoggerTypeOK'
  BY <1>1, <1>2 DEF LoggerInv, LoggerTypeOK, Step
<1>4. MutexHeld' /\ Found'
  BY <1>1 DEF LoggerInv, MutexHeld, Found, Inside
<1>5. StepFits' /\ StartsAgain'
  BY <1>1 DEF StepFits, StartsAgain, DBSteps, Table, Index
<1>6. HandlesFit' /\ SchemaFits'
  BY <1>1, <1>2 DEF HandlesFit, SchemaFits
<1> QED
  BY <1>3, <1>4, <1>5, <1>6 DEF LoggerInv

-----------------------------------------------------------------------------
(* System, Access and Close.                                               *)

LEMMA CallInv ==
  ASSUME LoggerInv, NEW c \in Caller, Call(c)
  PROVE  LoggerInv'
<1> USE DEF Call, goto
<1>1. /\ UNCHANGED <<proc, cfg, step, fault, handles, fields, closed, mu, schema,
                     stored, starts>>
      /\ at' = [at EXCEPT ![c] = "lock"] /\ at[c] = "idle" /\ proc = "running"
  BY DEF processVars, diskVars
<1>2. LoggerTypeOK'
  <2>1. op' \in [Caller -> Kind \cup {"Close", "none"}]
    BY DEF LoggerInv, LoggerTypeOK
  <2>2. calls' \in [Caller -> 0 .. MaxCalls]
    BY LoggerAssumption DEF LoggerInv, LoggerTypeOK
  <2> QED
    BY <1>1, <2>1, <2>2 DEF LoggerInv, LoggerTypeOK
<1>3. MutexHeld'
  BY <1>1 DEF LoggerInv, LoggerTypeOK, MutexHeld, Inside
<1>4. Found'
  <2>1. \A d \in Caller : at'[d] \in {"write", "close"} => d # c /\ at'[d] = at[d]
    BY <1>1 DEF LoggerInv, LoggerTypeOK
  <2>2. \A d \in Caller : d # c => op'[d] = op[d]
    BY DEF LoggerInv, LoggerTypeOK
  <2> QED
    BY <1>1, <2>1, <2>2 DEF LoggerInv, Found
<1>5. StepFits' /\ SchemaFits' /\ StartsAgain'
  BY <1>1 DEF LoggerInv, StepFits, SchemaFits, StartsAgain, CreatedBefore
<1>6. HandlesFit'
  BY <1>1 DEF LoggerInv, LoggerTypeOK, MutexHeld, HandlesFit, Inside
<1> QED
  BY <1>2, <1>3, <1>4, <1>5, <1>6 DEF LoggerInv

LEMMA LockInv ==
  ASSUME LoggerInv, NEW c \in Caller, Lock(c)
  PROVE  LoggerInv'
<1> USE DEF Lock, goto
<1>1. /\ UNCHANGED <<proc, cfg, step, fault, handles, fields, closed, op, calls,
                     schema, stored, starts>>
      /\ at' = [at EXCEPT ![c] = "locked"] /\ at[c] = "lock"
      /\ mu = NoCaller /\ mu' = c /\ proc = "running"
  BY DEF processVars, diskVars, LoggerInv, MutexHeld
<1>2. LoggerTypeOK'
  BY <1>1 DEF LoggerInv, LoggerTypeOK
<1>3. MutexHeld'
  BY <1>1, LoggerAssumption DEF LoggerInv, LoggerTypeOK, MutexHeld, Inside
<1>4. Found'
  BY <1>1 DEF LoggerInv, LoggerTypeOK, Found
<1>5. StepFits' /\ SchemaFits' /\ StartsAgain'
  BY <1>1 DEF LoggerInv, StepFits, SchemaFits, StartsAgain, CreatedBefore
<1>6. HandlesFit'
  BY <1>1 DEF LoggerInv, HandlesFit
<1> QED
  BY <1>2, <1>3, <1>4, <1>5, <1>6 DEF LoggerInv

(* The holder of the mutex moves on and changes nothing but its place.     *)
LEMMA MovesInv ==
  ASSUME LoggerInv, NEW c \in Caller, NEW next \in {"unlock", "write"},
         at[c] \in {"locked", "write", "close"},
         at' = [at EXCEPT ![c] = next],
         next = "write" => ~closed /\ op[c] \in Kind,
         at[c] = "close" => fields = {},
         UNCHANGED <<processVars, closed, mu, op, calls, schema, starts>>,
         stored' \in [Medium -> Seq(Entry)]
  PROVE  LoggerInv'
<1>1. /\ UNCHANGED <<proc, cfg, step, fault, handles, fields, closed, mu, op, calls,
                     schema, starts>>
      /\ mu = c
  BY DEF processVars, LoggerInv, MutexHeld, Inside
<1>2. LoggerTypeOK'
  BY <1>1 DEF LoggerInv, LoggerTypeOK
<1>3. MutexHeld'
  BY <1>1 DEF LoggerInv, LoggerTypeOK, MutexHeld, Inside
<1>4. Found'
  BY <1>1 DEF LoggerInv, LoggerTypeOK, Found
<1>5. StepFits' /\ SchemaFits' /\ StartsAgain'
  BY <1>1 DEF LoggerInv, StepFits, SchemaFits, StartsAgain, CreatedBefore
<1>6. HandlesFit'
  <2>1. closed /\ fields # {} => at[c] = "close"
    BY <1>1 DEF LoggerInv, HandlesFit, MutexHeld
  <2>2. ~(closed /\ fields # {})
    BY <2>1
  <2> QED
    BY <1>1, <2>2 DEF LoggerInv, HandlesFit, OpenBefore
<1> QED
  BY <1>2, <1>3, <1>4, <1>5, <1>6 DEF LoggerInv

LEMMA WriteAppends ==
  ASSUME LoggerInv, NEW c \in Caller, Write(c)
  PROVE  /\ stored' \in [Medium -> Seq(Entry)]
         /\ mu = c
         /\ \A m \in Medium :
              stored'[m] = stored[m] \/ stored'[m] = Append(stored[m], <<c, calls[c]>>)
<1>1. mu = c
  BY DEF Write, LoggerInv, MutexHeld, Inside
<1>2. stored \in [Medium -> Seq(Entry)] /\ <<c, calls[c]>> \in Entry
  BY LoggerAssumption DEF LoggerInv, LoggerTypeOK, Entry
<1>3. \/ stored' = [stored EXCEPT ![mediumOf(op[c])] = Append(@, <<c, calls[c]>>)]
      \/ stored' = stored
  BY DEF Write
<1>4. \A m \in Medium :
        stored'[m] = stored[m] \/ stored'[m] = Append(stored[m], <<c, calls[c]>>)
  BY <1>2, <1>3
<1>5. stored' \in [Medium -> Seq(Entry)]
  <2> DEFINE e == <<c, calls[c]>>
             x == mediumOf(op[c])
  <2>1. e \in Entry
    BY <1>2
  <2>2. \/ stored' = [stored EXCEPT ![x] = Append(@, e)]
        \/ stored' = stored
    BY <1>3
  <2> HIDE DEF e, x
  <2>3. ASSUME NEW m \in Medium PROVE stored'[m] \in Seq(Entry)
    <3> DEFINE q == stored[m]
    <3>1. q \in Seq(Entry)
      BY <1>2
    <3>2. Append(q, e) \in Seq(Entry)
      BY <2>1, <3>1
    <3> QED
      BY <1>2, <2>2, <3>1, <3>2
  <2>4. stored' = [m \in Medium |-> stored'[m]]
    BY <1>2, <2>2
  <2> QED
    BY <2>3, <2>4
<1> QED
  BY <1>1, <1>4, <1>5

LEMMA BeginCloseInv ==
  ASSUME LoggerInv, NEW c \in Caller, BeginClose(c)
  PROVE  LoggerInv'
<1> USE DEF BeginClose, goto
<1>1. /\ UNCHANGED <<proc, cfg, step, fault, handles, fields, mu, op, calls,
                     schema, stored, starts>>
      /\ at' = [at EXCEPT ![c] = "close"] /\ at[c] = "locked"
      /\ mu = c /\ proc = "running"
  BY DEF processVars, diskVars, LoggerInv, MutexHeld, Inside
<1>2. LoggerTypeOK'
  <2>1. closed' \in BOOLEAN
    BY Zenon
  <2> QED
    BY <1>1, <2>1 DEF LoggerInv, LoggerTypeOK
<1>3. MutexHeld'
  BY <1>1 DEF LoggerInv, LoggerTypeOK, MutexHeld, Inside
<1>4. Found'
  <2>1. \A d \in Caller : at'[d] # "write"
    BY <1>1 DEF LoggerInv, LoggerTypeOK, MutexHeld, Inside
  <2> QED
    BY <1>1, <2>1 DEF Found
<1>5. StepFits' /\ SchemaFits' /\ StartsAgain'
  BY <1>1 DEF LoggerInv, StepFits, SchemaFits, StartsAgain, CreatedBefore
<1>6. HandlesFit'
  <2>1. mu' \in Caller /\ mu' # NoCaller /\ at'[mu'] = "close"
    BY <1>1, LoggerAssumption DEF LoggerInv, LoggerTypeOK
  <2>2. handles' = fields'
    BY <1>1 DEF LoggerInv, HandlesFit
  <2> QED
    BY <1>1, <2>1, <2>2 DEF HandlesFit
<1> QED
  BY <1>2, <1>3, <1>4, <1>5, <1>6 DEF LoggerInv

LEMMA CloseSinkInv ==
  ASSUME LoggerInv, NEW c \in Caller, CloseSink(c)
  PROVE  LoggerInv'
<1>1. /\ UNCHANGED <<proc, cfg, step, fault, closed, mu, at, op, calls,
                     schema, stored, starts>>
      /\ at[c] = "close" /\ mu = c /\ proc = "running" /\ closed
  BY DEF CloseSink, callVars, diskVars, LoggerInv, MutexHeld, Found, Inside
<1>2. PICK f \in fields : handles' = handles \ {f} /\ fields' = fields \ {f}
  BY DEF CloseSink
<1>3. LoggerTypeOK'
  BY <1>1, <1>2 DEF LoggerInv, LoggerTypeOK
<1>4. MutexHeld' /\ Found'
  BY <1>1 DEF LoggerInv, MutexHeld, Found
<1>5. StepFits' /\ SchemaFits' /\ StartsAgain'
  BY <1>1 DEF LoggerInv, StepFits, SchemaFits, StartsAgain, CreatedBefore
<1>6. HandlesFit'
  <2>1. handles' = fields' /\ mu # NoCaller
    BY <1>1, <1>2, LoggerAssumption DEF LoggerInv, HandlesFit
  <2> QED
    BY <1>1, <2>1 DEF HandlesFit
<1> QED
  BY <1>3, <1>4, <1>5, <1>6 DEF LoggerInv

LEMMA UnlockInv ==
  ASSUME LoggerInv, NEW c \in Caller, Unlock(c)
  PROVE  LoggerInv'
<1> USE DEF Unlock, goto
<1>1. /\ UNCHANGED <<proc, cfg, step, fault, handles, fields, closed, calls,
                     schema, stored, starts>>
      /\ at' = [at EXCEPT ![c] = "idle"] /\ op' = [op EXCEPT ![c] = "none"]
      /\ at[c] = "unlock" /\ mu = c /\ mu' = NoCaller /\ proc = "running"
  BY DEF processVars, diskVars, LoggerInv, MutexHeld, Inside
<1>2. LoggerTypeOK'
  BY <1>1 DEF LoggerInv, LoggerTypeOK
<1>3. MutexHeld'
  BY <1>1 DEF LoggerInv, LoggerTypeOK, MutexHeld, Inside
<1>4. Found'
  BY <1>1 DEF LoggerInv, LoggerTypeOK, Found
<1>5. StepFits' /\ SchemaFits' /\ StartsAgain'
  BY <1>1 DEF LoggerInv, StepFits, SchemaFits, StartsAgain, CreatedBefore
<1>6. HandlesFit'
  <2>1. ~(closed /\ fields # {})
    BY <1>1 DEF LoggerInv, HandlesFit
  <2> QED
    BY <1>1, <2>1 DEF LoggerInv, HandlesFit, OpenBefore
<1> QED
  BY <1>2, <1>3, <1>4, <1>5, <1>6 DEF LoggerInv

LEMMA ExitInv ==
  ASSUME LoggerInv, Exit
  PROVE  LoggerInv'
<1> USE DEF Exit
<1>1. schema' = schema /\ stored' = stored
  BY DEF diskVars
<1>2. LoggerTypeOK'
  <2>1. fault' \in BOOLEAN /\ closed' \in BOOLEAN
    BY Zenon
  <2>2. cfg' \in View /\ step' \in Step
    BY NoViewIsView DEF Step
  <2> QED
    BY <1>1, <2>1, <2>2 DEF LoggerInv, LoggerTypeOK
<1>3. MutexHeld' /\ Found'
  BY DEF MutexHeld, Found, Inside
<1>4. StepFits' /\ HandlesFit' /\ SchemaFits' /\ StartsAgain'
  BY DEF StepFits, HandlesFit, SchemaFits, StartsAgain, DBSteps, Table, Index
<1> QED
  BY <1>2, <1>3, <1>4 DEF LoggerInv

LEMMA LoggerNextInv ==
  ASSUME LoggerInv, [LoggerNext]_loggerVars
  PROVE  LoggerInv'
<1>1. CASE \E v \in View : New(v)
  BY <1>1, NewInv
<1>2. CASE OpenStep
  BY <1>2, ConnectInv, CreateTableInv, CreateIndexInv, OpenFileInv, OpenedInv,
     OpenFailsInv DEF OpenStep
<1>3. ASSUME NEW c \in Caller, Call(c) PROVE LoggerInv'
  BY <1>3, CallInv
<1>4. ASSUME NEW c \in Caller, Lock(c) PROVE LoggerInv'
  BY <1>4, LockInv
<1>5. ASSUME NEW c \in Caller, HolderStep(c) PROVE LoggerInv'
  <2>1. stored \in [Medium -> Seq(Entry)]
    BY DEF LoggerInv, LoggerTypeOK
  <2>2. CASE AlreadyClosed(c)
    BY <2>1, <2>2, MovesInv DEF AlreadyClosed, goto, diskVars
  <2>3. CASE BeginWrite(c)
    BY <2>1, <2>3, MovesInv DEF BeginWrite, goto, diskVars
  <2>4. CASE Write(c)
    BY <2>4, MovesInv, WriteAppends DEF Write, goto
  <2>5. CASE BeginClose(c)
    BY <2>5, BeginCloseInv
  <2>6. CASE CloseSink(c)
    BY <2>6, CloseSinkInv
  <2>7. CASE Closed(c)
    BY <2>1, <2>7, MovesInv DEF Closed, goto, diskVars
  <2>8. CASE Unlock(c)
    BY <2>8, UnlockInv
  <2> QED
    BY <1>5, <2>2, <2>3, <2>4, <2>5, <2>6, <2>7, <2>8 DEF HolderStep
<1>6. CASE Exit
  BY <1>6, ExitInv
<1>7. CASE UNCHANGED loggerVars
  <2>1. UNCHANGED <<proc, cfg, step, fault, handles, fields, closed, mu, at, op, calls,
                    schema, stored, starts>>
    BY <1>7 DEF loggerVars, processVars, callVars, diskVars
  <2> QED
    BY <2>1 DEF LoggerInv, LoggerTypeOK, MutexHeld, Found, StepFits, HandlesFit,
                SchemaFits, StartsAgain, OpenBefore, CreatedBefore
<1> QED
  BY <1>1, <1>2, <1>3, <1>4, <1>5, <1>6, <1>7 DEF LoggerNext, CallStep

THEOREM LoggerInvariant == LoggerSpec => []LoggerInv
BY LoggerInitInv, LoggerNextInv, PTL DEF LoggerSpec

-----------------------------------------------------------------------------
(* Type correctness.                                                       *)
THEOREM LoggerTypeCorrect == LoggerSpec => []LoggerTypeOK
<1>1. LoggerInv => LoggerTypeOK
  BY DEF LoggerInv
<1> QED
  BY <1>1, LoggerInvariant, PTL

(* A start that fails at its second or third sink, and Close at any time,  *)
(* leave no file or connection open; a logger that runs has all it needs.  *)
THEOREM NoHandleEverLeaks == LoggerSpec => []NoHandleLeaks
<1>1. LoggerInv => NoHandleLeaks
  BY DEF LoggerInv, HandlesFit, NoHandleLeaks
<1> QED
  BY <1>1, LoggerInvariant, PTL

(* Whenever Close comes, a write finds its sink open.                      *)
THEOREM WritesFindTheirSink == LoggerSpec => []WritesToOpenSinks
<1>1. ASSUME LoggerInv, NEW c \in Caller, at[c] = "write",
             modeOf(op[c]) # "off"
      PROVE  fieldOf(op[c]) \in handles
  <2>1. handles = Needed(cfg) /\ op[c] \in Kind
    BY <1>1 DEF LoggerInv, HandlesFit, MutexHeld, Found
  <2>2. cfg.SystemMode \in Mode /\ cfg.AccessMode \in Mode
    BY <1>1 DEF LoggerInv, LoggerTypeOK, View
  <2> QED
    BY <1>1, <2>1, <2>2 DEF modeOf, fieldOf, File, Kind, Needed, NeedsDB, Mode
<1>2. LoggerInv => WritesToOpenSinks
  BY <1>1 DEF WritesToOpenSinks, LoggerInv, Found
<1> QED
  BY <1>2, LoggerInvariant, PTL

(* However often the server was killed while it migrated, one that runs    *)
(* has its whole schema.                                                   *)
THEOREM SchemaIsComplete == LoggerSpec => []SchemaComplete
<1>1. ASSUME LoggerInv, proc = "running", NeedsDB(cfg)
      PROVE  schema[cfg.DBDriver] = Table \cup Index
  <2>1. step = "none" /\ cfg.DBDriver \in Driver
    BY <1>1 DEF LoggerInv, LoggerTypeOK, StepFits, View
  <2>2. CreatedBefore("none") = Table \cup Index
    BY DEF CreatedBefore, DBSteps, Table, Index
  <2> QED
    BY <1>1, <2>1, <2>2 DEF LoggerInv, SchemaFits, LoggerTypeOK
<1>2. LoggerInv => SchemaComplete
  BY <1>1 DEF SchemaComplete
<1> QED
  BY <1>2, LoggerInvariant, PTL

(* A start fails only if something outside the program fails during it.    *)
THEOREM AlwaysStartsAgain == LoggerSpec => []StartsAgain
<1>1. LoggerInv => StartsAgain
  BY DEF LoggerInv
<1> QED
  BY <1>1, LoggerInvariant, PTL

(* No step and no restart loses or rewrites a log entry.                   *)
THEOREM LogsOnlyGrow == LoggerSpec => LogOnlyGrows
<1> DEFINE Grows ==
      \A m \in Medium :
        \/ stored'[m] = stored[m]
        \/ mu \in Caller /\ stored'[m] = Append(stored[m], <<mu, calls[mu]>>)
<1>1. ASSUME LoggerInv, [LoggerNext]_loggerVars PROVE [Grows]_stored
  <2>1. CASE \E c \in Caller : Write(c)
    BY <1>1, <2>1, WriteAppends
  <2>2. CASE ~\E c \in Caller : Write(c)
    <3>1. stored' = stored
      BY <1>1, <2>2
         DEF LoggerNext, New, OpenStep, Connect, CreateTable, CreateIndex, OpenFile,
             Opened, OpenFails, CallStep, Call, Lock, HolderStep, AlreadyClosed,
             BeginWrite, BeginClose, CloseSink, Closed, Unlock, Exit, loggerVars,
             diskVars
    <3> QED
      BY <3>1
  <2> QED
    BY <2>1, <2>2
<1> QED
  BY <1>1, LoggerInvariant, PTL DEF LoggerSpec, LogOnlyGrows


-----------------------------------------------------------------------------
(* The logger implements Journal.                                          *)

(* A caller that is under way has called something.                        *)
Requested ==
  \A c \in Caller : at[c] # "idle" => op[c] \in Kind \cup {"Close"}

JournalInv == LoggerInv /\ Requested

LEMMA RequestedStep ==
  ASSUME LoggerInv, Requested, [LoggerNext]_loggerVars
  PROVE  Requested'
<1>0. at \in [Caller -> {"idle", "lock", "locked", "write", "close", "unlock"}]
      /\ op \in [Caller -> Kind \cup {"Close", "none"}]
  BY DEF LoggerInv, LoggerTypeOK
<1>1. ASSUME NEW v \in View, New(v) PROVE Requested'
  BY <1>1 DEF New, callVars, Requested
<1>2. CASE OpenStep
  BY <1>2 DEF OpenStep, Connect, CreateTable, CreateIndex, OpenFile, Opened,
              OpenFails, advance, callVars, Requested
<1>3. ASSUME NEW c \in Caller, Call(c) PROVE Requested'
  BY <1>0, <1>3 DEF Call, goto, Requested
<1>4. ASSUME NEW c \in Caller, Lock(c) PROVE Requested'
  BY <1>0, <1>4 DEF Lock, goto, Requested
<1>5. ASSUME NEW c \in Caller, HolderStep(c) PROVE Requested'
  <2>1. CASE Unlock(c)
    BY <1>0, <2>1 DEF Unlock, goto, Requested
  <2>2. CASE CloseSink(c)
    BY <2>2 DEF CloseSink, callVars, Requested
  <2>3. CASE ~Unlock(c) /\ ~CloseSink(c)
    <3>1. op' = op /\ at[c] # "idle"
          /\ \A d \in Caller : d # c => at'[d] = at[d]
      BY <1>0, <1>5, <2>3
         DEF HolderStep, AlreadyClosed, BeginWrite, Write, BeginClose, Closed, goto
    <3> QED BY <3>1 DEF Requested
  <2> QED BY <2>1, <2>2, <2>3
<1>6. CASE Exit
  BY <1>6 DEF Exit, Requested
<1>7. CASE UNCHANGED loggerVars
  BY <1>7 DEF loggerVars, callVars, Requested
<1> QED BY <1>1, <1>2, <1>3, <1>4, <1>5, <1>6, <1>7 DEF LoggerNext, CallStep

LEMMA JournalInvariance == LoggerSpec => []JournalInv
<1>1. LoggerInit => JournalInv
  BY LoggerInitInv DEF JournalInv, Requested, LoggerInit
<1>2. JournalInv /\ [LoggerNext]_loggerVars => JournalInv'
  BY LoggerNextInv, RequestedStep DEF JournalInv
<1> QED BY <1>1, <1>2, PTL DEF LoggerSpec

(* What the callers see when one of them moves.                            *)
LEMMA PendingMoves ==
  ASSUME LoggerTypeOK, NEW c \in Caller, NEW p, NEW r,
         at' = [at EXCEPT ![c] = p], op' = [op EXCEPT ![c] = r]
  PROVE  /\ pendingOf' = [pendingOf EXCEPT ![c] = pendingAt(p, r)]
         /\ pendingOf[c] = pendingAt(at[c], op[c])
<1>1. \A d \in Caller : pendingAt(at'[d], op'[d]) =
                          IF d = c THEN pendingAt(p, r) ELSE pendingAt(at[d], op[d])
  BY DEF LoggerTypeOK
<1> QED BY <1>1 DEF pendingOf

(* The same when it stays with what it called.                             *)
LEMMA PendingAdvances ==
  ASSUME LoggerTypeOK, NEW c \in Caller, NEW p,
         at' = [at EXCEPT ![c] = p], op' = op
  PROVE  /\ pendingOf' = [pendingOf EXCEPT ![c] = pendingAt(p, op[c])]
         /\ pendingOf[c] = pendingAt(at[c], op[c])
<1>1. op' = [op EXCEPT ![c] = op[c]]
  BY DEF LoggerTypeOK
<1> QED BY <1>1, PendingMoves

(* Until the logger runs, and after, nothing of it is seen.                *)
LEMMA PlaceWhenDown ==
  ASSUME proc # "running"
  PROVE  placeOf = [k \in Kind |-> Nowhere]
BY DEF placeOf

(* What is kept is kept in a medium.                                       *)
LEMMA MediumType ==
  ASSUME LoggerTypeOK, NEW k \in Kind, modeOf(k) # "off"
  PROVE  mediumOf(k) \in Medium
<1>1. cfg \in View
  BY DEF LoggerTypeOK
<1>2. modeOf(k) = "db" => cfg.DBDriver \in Driver
  BY <1>1 DEF modeOf, View, NeedsDB
<1> QED BY <1>2 DEF mediumOf, Medium

(* The steps of newLogger are not seen, but for the last.                  *)
LEMMA OpeningSim ==
  ASSUME JournalInv, OpenStep \/ \E v \in View : New(v)
  PROVE  J!Next \/ UNCHANGED J!vars
<1>1. pendingOf' = pendingOf /\ calls' = calls /\ stored' = stored
      /\ at' = at /\ closed' = closed
  BY DEF OpenStep, New, Connect, CreateTable, CreateIndex, OpenFile, Opened,
         OpenFails, advance, callVars, diskVars, pendingOf
<1>2. CASE Opened
  <2>1. proc = "opening" /\ proc' = "running"
    BY <1>2 DEF Opened
  <2>2. ~closed
    BY <2>1 DEF JournalInv, LoggerInv, MutexHeld
  <2>3. placeOf' \in [Kind -> Medium \cup {Nowhere}]
    <3>1. \A k \in Kind : modeOf(k) # "off" => mediumOf(k) \in Medium
      BY MediumType DEF JournalInv, LoggerInv
    <3>2. cfg' = cfg
      BY <1>2 DEF Opened
    <3>3. \A k \in Kind : modeOf(k)' = modeOf(k) /\ mediumOf(k)' = mediumOf(k)
      BY <3>2 DEF modeOf, mediumOf
    <3> QED BY <3>1, <3>3 DEF placeOf
  <2>4. /\ ~(proc = "running")
        /\ (proc = "running")' = TRUE /\ (proc = "running" /\ ~closed)' = TRUE
    BY <1>1, <2>1, <2>2
  <2>5. J!Start
    BY <1>1, <2>3, <2>4 DEF J!Start
  <2> QED BY <2>5 DEF J!Next
<1>3. CASE ~Opened
  <2>1. proc # "running" /\ proc' # "running"
    <3>1. CASE \E v \in View : New(v)
      BY <3>1 DEF New
    <3>2. CASE OpenFails
      BY <3>2 DEF OpenFails, givesUp
    <3>3. CASE Connect \/ CreateTable \/ CreateIndex \/ OpenFile
      <4>1. proc' = proc /\ step # "none"
        BY <3>3 DEF Connect, CreateTable, CreateIndex, OpenFile, advance, Table, Index
      <4> QED BY <4>1 DEF JournalInv, LoggerInv, StepFits
    <3> QED BY <1>3, <3>1, <3>2, <3>3 DEF OpenStep
  <2>2. placeOf' = placeOf
    BY <2>1, PlaceWhenDown DEF placeOf
  <2> QED BY <1>1, <2>1, <2>2 DEF J!vars
<1> QED BY <1>2, <1>3

(* What System, Access and Close leave alone.                              *)
LEMMA CallsKeepPlaces ==
  ASSUME UNCHANGED <<proc, cfg>>
  PROVE  placeOf' = placeOf
BY DEF placeOf, modeOf, mediumOf

LEMMA CallSim ==
  ASSUME JournalInv, NEW c \in Caller, Call(c)
  PROVE  J!Invoke(c)
<1>0. LoggerTypeOK
  BY DEF JournalInv, LoggerInv
<1>1. PICK r \in Kind \cup {"Close"} : op' = [op EXCEPT ![c] = r]
  BY DEF Call
<1>2. /\ proc = "running" /\ at[c] = "idle"
      /\ at' = [at EXCEPT ![c] = "lock"] /\ calls' = [calls EXCEPT ![c] = @ + 1]
      /\ UNCHANGED <<proc, cfg, closed, stored>>
  BY DEF Call, goto, processVars, diskVars
<1>3. pendingOf[c] = "idle" /\ pendingOf' = [pendingOf EXCEPT ![c] = r]
  BY <1>0, <1>1, <1>2, PendingMoves DEF pendingAt
<1>4. placeOf' = placeOf
  BY <1>2, CallsKeepPlaces
<1> QED BY <1>2, <1>3, <1>4 DEF J!Invoke

(* The write is where a log call takes effect.                             *)
LEMMA WriteSim ==
  ASSUME JournalInv, NEW c \in Caller, Write(c)
  PROVE  J!Record(c) \/ J!Lose(c)
<1>0. LoggerTypeOK
  BY DEF JournalInv, LoggerInv
<1>1. /\ at[c] = "write" /\ op[c] \in Kind /\ ~closed /\ proc = "running"
  BY DEF Write, JournalInv, LoggerInv, Found, MutexHeld
<1>2. /\ at' = [at EXCEPT ![c] = "unlock"] /\ op' = op
      /\ UNCHANGED <<proc, cfg, closed, calls>>
  BY DEF Write, goto, processVars
<1>3. pendingOf[c] = op[c] /\ pendingOf' = [pendingOf EXCEPT ![c] = "returning"]
  BY <1>0, <1>1, <1>2, PendingAdvances DEF pendingAt
<1>4. placeOf' = placeOf
  BY <1>2, CallsKeepPlaces
<1>5. CASE stored' = stored
  BY <1>1, <1>2, <1>3, <1>4, <1>5 DEF J!Lose, J!TakesEffect
<1>6. CASE /\ modeOf(op[c]) # "off"
           /\ stored' = [stored EXCEPT ![mediumOf(op[c])] = Append(@, <<c, calls[c]>>)]
  <2>1. placeOf[op[c]] = mediumOf(op[c]) /\ mediumOf(op[c]) # Nowhere
    BY <1>1, <1>6 DEF placeOf, mediumOf, Nowhere
  <2> QED BY <1>1, <1>2, <1>3, <1>4, <1>6, <2>1 DEF J!Record, J!TakesEffect
<1> QED BY <1>5, <1>6 DEF Write

(* The other steps of a caller.                                            *)
LEMMA HolderSim ==
  ASSUME JournalInv, NEW c \in Caller, Lock(c) \/ HolderStep(c)
  PROVE  J!Next \/ UNCHANGED J!vars
<1>0. LoggerTypeOK /\ (at[c] # "idle" => op[c] \in Kind \cup {"Close"} /\ proc = "running")
  BY DEF JournalInv, LoggerInv, Requested, MutexHeld
<1>1. CASE Write(c)
  BY <1>1, WriteSim DEF J!Next
<1>2. CASE ~Write(c)
  <2>0. /\ UNCHANGED <<proc, cfg, calls, stored>> /\ placeOf' = placeOf
        /\ at[c] # "idle"
    <3>1. UNCHANGED <<proc, cfg, calls, stored>> /\ at[c] # "idle"
      BY <1>2 DEF HolderStep, Lock, AlreadyClosed, BeginWrite, BeginClose,
                  CloseSink, Closed, Unlock, processVars, callVars, diskVars
    <3> QED BY <3>1, CallsKeepPlaces
  <2>1. CASE Lock(c) \/ BeginWrite(c) \/ CloseSink(c) \/ Closed(c)
    <3>1. closed' = closed
      BY <2>1 DEF Lock, BeginWrite, CloseSink, Closed, callVars
    <3>2. pendingOf' = pendingOf
      <4>1. CASE CloseSink(c)
        BY <4>1 DEF CloseSink, callVars, pendingOf
      <4>2. ASSUME NEW p \in {"locked", "write", "unlock"},
                   at' = [at EXCEPT ![c] = p], op' = op,
                   \/ at[c] = "lock" /\ p = "locked"
                   \/ at[c] = "locked" /\ p = "write"
                   \/ at[c] = "close" /\ p = "unlock"
            PROVE  pendingOf' = pendingOf
        <5>1. pendingAt(p, op[c]) = pendingAt(at[c], op[c])
          BY <4>2 DEF pendingAt
        <5>2. /\ pendingOf' = [pendingOf EXCEPT ![c] = pendingAt(p, op[c])]
              /\ pendingOf[c] = pendingAt(at[c], op[c])
          BY <1>0, <4>2, PendingAdvances
        <5> QED BY <5>1, <5>2 DEF pendingOf
      <4> QED BY <2>1, <4>1, <4>2 DEF Lock, BeginWrite, Closed, goto
    <3> QED BY <2>0, <3>1, <3>2 DEF J!vars
  <2>2. CASE AlreadyClosed(c)
    <3>1. /\ at[c] = "locked" /\ closed /\ closed' = closed
          /\ at' = [at EXCEPT ![c] = "unlock"] /\ op' = op
      BY <2>2 DEF AlreadyClosed, goto
    <3>2. pendingOf[c] = op[c] /\ pendingOf' = [pendingOf EXCEPT ![c] = "returning"]
      BY <1>0, <3>1, PendingAdvances DEF pendingAt
    <3>3. J!Lose(c) \/ J!Close(c)
      BY <1>0, <2>0, <3>1, <3>2 DEF J!Lose, J!Close, J!TakesEffect
    <3> QED BY <3>3 DEF J!Next
  <2>3. CASE BeginClose(c)
    <3>1. /\ at[c] = "locked" /\ op[c] = "Close" /\ closed' = TRUE
          /\ at' = [at EXCEPT ![c] = "close"] /\ op' = op
      BY <2>3 DEF BeginClose, goto
    <3>2. pendingOf[c] = op[c] /\ pendingOf' = [pendingOf EXCEPT ![c] = "returning"]
      BY <1>0, <3>1, PendingAdvances DEF pendingAt
    <3>3. J!Close(c)
      BY <2>0, <3>1, <3>2 DEF J!Close, J!TakesEffect
    <3> QED BY <3>3 DEF J!Next
  <2>4. CASE Unlock(c)
    <3>1. /\ at[c] = "unlock" /\ closed' = closed
          /\ at' = [at EXCEPT ![c] = "idle"] /\ op' = [op EXCEPT ![c] = "none"]
      BY <2>4 DEF Unlock, goto
    <3>2. pendingOf[c] = "returning" /\ pendingOf' = [pendingOf EXCEPT ![c] = "idle"]
      BY <1>0, <3>1, PendingMoves DEF pendingAt
    <3>3. J!Return(c)
      BY <2>0, <3>1, <3>2 DEF J!Return
    <3> QED BY <3>3 DEF J!Next
  <2> QED BY <1>2, <2>1, <2>2, <2>3, <2>4 DEF HolderStep
<1> QED BY <1>1, <1>2

(* The end of a process that runs is End; that of another is not seen.     *)
LEMMA ExitSim ==
  ASSUME JournalInv, Exit
  PROVE  J!Next \/ UNCHANGED J!vars
<1>1. /\ proc' = "down" /\ calls' = calls /\ stored' = stored
      /\ pendingOf' = [c \in Caller |-> "idle"]
      /\ placeOf' = [k \in Kind |-> Nowhere]
  <2>1. /\ proc' = "down" /\ calls' = calls /\ stored' = stored
        /\ \A c \in Caller : at'[c] = "idle"
    BY DEF Exit, diskVars
  <2> QED BY <2>1 DEF pendingOf, pendingAt, placeOf
<1>2. CASE proc = "running"
  <2>1. J!End
    BY <1>1, <1>2 DEF J!End
  <2> QED BY <2>1 DEF J!Next
<1>3. CASE proc # "running"
  <2>1. placeOf = [k \in Kind |-> Nowhere]
    BY <1>3, PlaceWhenDown
  <2>2. pendingOf = [c \in Caller |-> "idle"]
    <3>1. \A c \in Caller : at[c] = "idle"
      BY <1>3 DEF JournalInv, LoggerInv, MutexHeld
    <3> QED BY <3>1 DEF pendingOf, pendingAt
  <2> QED BY <1>1, <1>3, <2>1, <2>2 DEF J!vars
<1> QED BY <1>2, <1>3

(* Callers see a journal: every call of System, Access and Close takes     *)
(* effect at one instant, for any number of callers, calls and starts.     *)
THEOREM LoggerIsJournal == LoggerSpec => ImplementsJournal
<1>1. LoggerInit => J!Init
  <2> SUFFICES ASSUME LoggerInit PROVE J!Init
    OBVIOUS
  <2>1. pendingOf = [c \in Caller |-> "idle"] /\ placeOf = [k \in Kind |-> Nowhere]
    BY DEF LoggerInit, pendingOf, pendingAt, placeOf
  <2> QED BY <2>1 DEF LoggerInit, J!Init
<1>2. ASSUME JournalInv, [LoggerNext]_loggerVars
      PROVE  [J!Next]_J!vars
  <2>1. CASE UNCHANGED loggerVars
    <3>1. placeOf' = placeOf
      BY <2>1, CallsKeepPlaces DEF loggerVars, processVars
    <3> QED BY <2>1, <3>1 DEF loggerVars, processVars, callVars, diskVars,
                              J!vars, pendingOf
  <2>2. ASSUME NEW c \in Caller, Call(c) PROVE J!Next
    BY <1>2, <2>2, CallSim DEF J!Next
  <2>3. ASSUME NEW c \in Caller, Lock(c) \/ HolderStep(c)
        PROVE  [J!Next]_J!vars
    BY <1>2, <2>3, HolderSim
  <2> QED BY <1>2, <2>1, <2>2, <2>3, OpeningSim, ExitSim DEF LoggerNext, CallStep
<1>3. JournalInv /\ [LoggerNext]_loggerVars => [J!Next]_J!vars
  BY <1>2
<1> QED BY <1>1, <1>3, JournalInvariance, PTL
        DEF LoggerSpec, ImplementsJournal, J!Spec
=============================================================================
