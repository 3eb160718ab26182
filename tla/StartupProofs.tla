--------------------------- MODULE StartupProofs ---------------------------
(***************************************************************************)
(* Proofs about Startup: what Load accepts is what the other parts need,   *)
(* and a server that is started in this way uses its logger as Logger says *)
(* - for every environment, file and meaning of the strings.  The second   *)
(* part looks into LoadFile: where each variable of the configuration      *)
(* comes from, by induction on the lines of the file.                      *)
(***************************************************************************)
EXTENDS Startup, LoggerProofs, FiniteSetTheorems

(* A configuration that passed the checks of Load.                         *)
Checked(c) ==
  /\ c # NoConfig
  /\ \E st : /\ \A k \in IntKeys : IsInteger(st.env, k)
             /\ ValidLog(LoadLog(st.env))
             /\ Valid(appConfig(st))
             /\ c = appConfig(st)

LEMMA LoadChecks ==
  ASSUME NEW e, NEW f, Load(e, f).conf # NoConfig
  PROVE  Checked(Load(e, f).conf)
<1> DEFINE st == LoadFile(e, f)
<1>1. Load(e, f).conf =
        IF /\ st.ok
           /\ \A k \in IntKeys : IsInteger(st.env, k)
           /\ ValidLog(LoadLog(st.env))
           /\ Valid(appConfig(st))
        THEN appConfig(st) ELSE NoConfig
  BY DEF Load
<1> HIDE DEF st
<1> QED
  BY <1>1 DEF Checked

LEMMA AcceptedIsChecked ==
  ASSUME NEW l \in Accepted
  PROVE  Checked(l.result.conf)
<1>1. PICK b \in Boots : l = [boot |-> b, result |-> Load(b.os, b.file)]
  BY DEF Accepted
<1>2. l.result = Load(b.os, b.file) /\ l.result.conf # NoConfig
  BY <1>1 DEF Accepted
<1> QED
  BY <1>2, LoadChecks

LEMMA IntegersAreIntegers ==
  ASSUME NEW st, NEW k \in IntKeys, IsInteger(st.env, k)
  PROVE  appConfig(st).int[k] \in Int
<1>1. appConfig(st).int[k] = envIntStrict(st.env, k, Default[k])
  BY DEF appConfig
<1>2. Default[k] \in Int
  <2>1. /\ Default["READ_BUFFER_SIZE"] = 4096 /\ Default["WRITE_BUFFER_SIZE"] = 4096
        /\ Default["MAX_CLIENTS_PER_AREA"] = 500 /\ Default["MAX_AREAS"] = 10000
        /\ Default["MAX_CHANNELS"] = 20000 /\ Default["MAX_CLIENTS_PER_CHANNEL"] = 200
    BY DEF Default
  <2> QED
    BY <2>1 DEF IntKeys, LimitKeys
<1> QED
  BY <1>1, <1>2, ConfigAssumption DEF IsInteger, envIntStrict

LEMMA CheckedLimits ==
  ASSUME NEW c, Checked(c)
  PROVE  \A k \in LimitKeys : c.int[k] \in Nat
<1>1. PICK st : /\ \A k \in IntKeys : IsInteger(st.env, k)
                /\ Valid(appConfig(st)) /\ c = appConfig(st)
  BY DEF Checked
<1>2. ASSUME NEW k \in IntKeys PROVE c.int[k] >= 0 /\ c.int[k] \in Int
  <2>1. c.int[k] \in Int
    BY <1>1, IntegersAreIntegers
  <2>2. c.int[k] >= 0
    <3>1. Valid(c)
      BY <1>1
    <3> QED
      BY <3>1 DEF Valid
  <2> QED
    BY <2>1, <2>2
<1>3. ASSUME NEW n \in Int, n >= 0 PROVE n \in Nat
  BY <1>3
<1>4. ASSUME NEW k \in LimitKeys PROVE c.int[k] \in Nat
  <2> DEFINE n == c.int[k]
  <2>1. n \in Int /\ n >= 0
    BY <1>2 DEF IntKeys
  <2> HIDE DEF n
  <2>2. n \in Nat
    BY <1>3, <2>1
  <2> QED
    BY <2>2 DEF n
<1> QED
  BY <1>4

(* newLogger gets a mode it knows for each log and, where a database is    *)
(* needed, a driver it knows.                                              *)
LEMMA CheckedView ==
  ASSUME NEW c, Checked(c)
  PROVE  FromConfig(c) \in View
<1>1. PICK st : ValidLog(LoadLog(st.env)) /\ c = appConfig(st)
  BY DEF Checked
<1> DEFINE log == LoadLog(st.env)
<1>2. c.log = log
  BY <1>1 DEF appConfig
<1> HIDE DEF log
<1>3. ValidLog(log)
  BY <1>1 DEF log
<1>4. /\ FromConfig(c).SystemMode = log.SystemMode
      /\ FromConfig(c).AccessMode = log.AccessMode
      /\ FromConfig(c).DBDriver = IF log.DBDriver \in Driver THEN log.DBDriver ELSE "none"
      /\ FromConfig(c) = [SystemMode |-> log.SystemMode, AccessMode |-> log.AccessMode,
                          DBDriver |-> FromConfig(c).DBDriver]
  BY <1>2 DEF FromConfig, Driver
<1>5. log.SystemMode \in Mode /\ log.AccessMode \in Mode
  BY <1>3 DEF ValidLog, Mode
<1>6. NeedsDB(FromConfig(c)) => FromConfig(c).DBDriver \in Driver
  BY <1>3, <1>4 DEF NeedsDB, ValidLog, Driver
<1> QED
  BY <1>4, <1>5, <1>6 DEF View

LEMMA CheckedPathsAndURLs ==
  ASSUME NEW c, Checked(c)
  PROVE  /\ c.str["WS_PATH"] # c.str["HEALTH_PATH"]
         /\ c.str["WEBHOOK_URL"] \in DOMAIN UrlList \cup {""}
BY DEF Checked, Valid

(* The flag -addr touches nothing that was checked but the address.        *)
LEMMA AddrKeepsTheRest ==
  ASSUME NEW c, Checked(c), NEW addr
  PROVE  /\ SetListenAddr(c, addr).int = c.int
         /\ SetListenAddr(c, addr).log = c.log
         /\ SetListenAddr(c, addr).extra = c.extra
         /\ \A k \in StringKeys \ {"LISTEN_ADDR"} :
              SetListenAddr(c, addr).str[k] = c.str[k]
<1>1. PICK st : c = appConfig(st)
  BY DEF Checked
<1>2. /\ c.str = [k \in StringKeys |-> stringOf(st.env, k)]
      /\ {"str", "int", "log", "extra"} = DOMAIN c
  BY <1>1 DEF appConfig
<1> QED
  BY <1>2 DEF SetListenAddr

-----------------------------------------------------------------------------
(* Every start gives newLogger a view it can work with, so the process is  *)
(* a process of Logger whatever its environment says.                      *)
THEOREM StartupImplementsLogger == StartupSpec => LoggerSpec
<1>1. StartupInit => LoggerInit
  BY DEF StartupInit
<1>2. ASSUME [StartupNext]_vars PROVE [LoggerNext]_loggerVars
  <2>1. ASSUME NEW l \in Accepted, Boot(l) PROVE LoggerNext
    <3>1. FromConfig(l.result.conf) \in View
      BY AcceptedIsChecked, CheckedView
    <3> QED
      BY <2>1, <3>1 DEF Boot, LoggerNext
  <2>2. CASE Run
    BY <2>2 DEF Run, LoggerNext
  <2>3. CASE End
    BY <2>3 DEF End, LoggerNext
  <2>4. CASE UNCHANGED vars
    BY <2>4 DEF vars
  <2> QED
    BY <1>2, <2>1, <2>2, <2>3, <2>4 DEF StartupNext
<1> QED
  BY <1>1, <1>2, PTL DEF StartupSpec, LoggerSpec

(* The sinks of a server, from its first start on.                         *)
THEOREM SinksAreSafe ==
  StartupSpec => /\ [](LoggerTypeOK /\ NoHandleLeaks /\ WritesToOpenSinks)
                 /\ [](SchemaComplete /\ StartsAgain)
                 /\ LogOnlyGrows
BY StartupImplementsLogger, LoggerTypeCorrect, NoHandleEverLeaks, WritesFindTheirSink,
   SchemaIsComplete, AlwaysStartsAgain, LogsOnlyGrow, PTL

(* Load lets no configuration through that the hub, the mux, the webhook   *)
(* or the logger could not work with, whatever environment and file say.   *)
THEOREM ConfigIsSound == StartupSpec => []ConfigSound
<1>1. StartupInit => ConfigSound
  BY DEF StartupInit, ConfigSound, Loaded
<1>2. ASSUME ConfigSound, [StartupNext]_vars PROVE ConfigSound'
  <2>1. ASSUME NEW l \in Accepted, Boot(l) PROVE ConfigSound'
    <3> DEFINE c == l.result.conf
    <3>1. Checked(c)
      BY AcceptedIsChecked
    <3>2. conf' = SetListenAddr(c, l.boot.addr)
      BY <2>1 DEF Boot
    <3> HIDE DEF c
    <3>3. /\ conf'.int = c.int /\ conf'.log = c.log
          /\ \A k \in StringKeys \ {"LISTEN_ADDR"} : conf'.str[k] = c.str[k]
      BY <3>1, <3>2, AddrKeepsTheRest
    <3>4. \A k \in LimitKeys : conf'.int[k] \in Nat
      BY <3>1, <3>3, CheckedLimits
    <3>5. /\ conf'.str["WS_PATH"] # conf'.str["HEALTH_PATH"]
          /\ conf'.str["WEBHOOK_URL"] \in DOMAIN UrlList \cup {""}
      BY <3>1, <3>3, CheckedPathsAndURLs DEF StringKeys
    <3>6. FromConfig(conf') \in View
      BY <3>1, <3>3, CheckedView DEF FromConfig
    <3> QED
      BY <3>4, <3>5, <3>6 DEF ConfigSound, FromConfig
  <2>2. CASE Run
    BY <1>2, <2>2 DEF Run, bootVars, ConfigSound, Loaded, FromConfig
  <2>3. CASE End
    BY <2>3 DEF End, ConfigSound, Loaded
  <2>4. CASE UNCHANGED vars
    BY <1>2, <2>4 DEF vars, bootVars, ConfigSound, Loaded, FromConfig
  <2> QED
    BY <1>2, <2>1, <2>2, <2>3, <2>4 DEF StartupNext
<1> QED
  BY <1>1, <1>2, PTL DEF StartupSpec

-----------------------------------------------------------------------------
(* Induction on the natural numbers, with a set in the place of the        *)
(* predicate: the numbers up to n that are not in S would be closed under  *)
(* the predecessor, which is one to one and never yields n.                *)
LEMMA SetInduction ==
  ASSUME NEW S, 0 \in S, \A n \in Nat : n \in S => n + 1 \in S
  PROVE  \A n \in Nat : n \in S
<1> SUFFICES ASSUME NEW n \in Nat, n \notin S PROVE FALSE
  OBVIOUS
<1> DEFINE A == {m \in 0 .. n : m \notin S}
           pred == [m \in A |-> m - 1]
<1>1. IsFiniteSet(A) /\ n \in A
  <2>1. IsFiniteSet(0 .. n) /\ A \subseteq 0 .. n
    BY FS_Interval
  <2> QED
    BY <2>1, FS_Subset
<1>2. /\ IsFiniteSet(A \ {n})
      /\ Cardinality(A \ {n}) < Cardinality(A)
  <2>1. /\ IsFiniteSet(A \ {n}) /\ Cardinality(A \ {n}) = Cardinality(A) - 1
    BY <1>1, FS_RemoveElement
  <2>2. Cardinality(A) \in Nat
    BY <1>1, FS_CardinalityType
  <2> QED
    BY <2>1, <2>2
<1>3. \A m \in A : m - 1 \in A \ {n}
  <2> SUFFICES ASSUME NEW m \in A PROVE m - 1 \in A \ {n}
    OBVIOUS
  <2>1. m - 1 \in Nat /\ (m - 1) + 1 = m
    OBVIOUS
  <2> QED
    BY <2>1
<1>4. pred \in [A -> A \ {n}]
  BY <1>3
<1>5. PICK x \in A, y \in A : x # y /\ pred[x] = pred[y]
  <2> HIDE DEF A, pred
  <2> QED
    BY <1>1, <1>2, <1>4, FS_PigeonHole
<1> QED
  BY <1>5

LEMMA InductionUpTo ==
  ASSUME NEW n \in Nat, NEW S, 0 \in S, \A i \in 1 .. n : i - 1 \in S => i \in S
  PROVE  n \in S
<1> DEFINE T == {i \in Nat : i <= n => i \in S}
<1>1. 0 \in T
  OBVIOUS
<1>2. ASSUME NEW i \in Nat, i \in T PROVE i + 1 \in T
  <2>1. CASE i + 1 <= n
    <3>1. i + 1 \in 1 .. n /\ (i + 1) - 1 \in S
      BY <1>2, <2>1
    <3> QED
      BY <3>1
  <2> QED
    BY <2>1
<1>3. n \in T
  <2> HIDE DEF T
  <2> QED
    BY <1>1, <1>2, SetInduction
<1> QED
  BY <1>3

LEMMA LeastNumber ==
  ASSUME NEW T, T \subseteq Nat, T # {}
  PROVE  \E m \in T : \A n \in T : m <= n
<1> SUFFICES ASSUME \A m \in T : \E n \in T : n < m PROVE FALSE
  OBVIOUS
<1> DEFINE S == {n \in Nat : \A m \in 0 .. n : m \notin T}
<1>1. 0 \in S
  OBVIOUS
<1>2. ASSUME NEW n \in Nat, n \in S PROVE n + 1 \in S
  <2>1. n + 1 \notin T
    BY <1>2
  <2> QED
    BY <1>2, <2>1
<1>3. \A n \in Nat : n \in S
  <2> HIDE DEF S
  <2> QED
    BY <1>1, <1>2, SetInduction
<1>4. PICK m \in T : m \in Nat
  OBVIOUS
<1>5. m \in S /\ m \in 0 .. m
  BY <1>3, <1>4
<1> QED
  BY <1>4, <1>5

-----------------------------------------------------------------------------
(* The loop of LoadFile: its state after each line.                        *)
start(e) == [ok |-> TRUE, env |-> e, fromFile |-> <<>>, skippedOS |-> {}]

LEMMA LoadFileLoop ==
  ASSUME NEW e, NEW f \in Seq(Line)
  PROVE  \E st : /\ st[0] = start(e)
                 /\ \A i \in 1 .. Len(f) : st[i] = readLine(st[i - 1], f[i])
                 /\ LoadFile(e, f) = st[Len(f)]
<1> DEFINE Loop(st, n) ==
             st = [i \in 0 .. n |-> IF i = 0 THEN start(e)
                                    ELSE readLine(st[i - 1], f[i])]
           S == {n \in Nat : \E st : Loop(st, n)}
<1>1. 0 \in S
  <2>1. Loop([i \in 0 .. 0 |-> start(e)], 0)
    OBVIOUS
  <2> QED
    BY <2>1
<1>2. ASSUME NEW n \in Nat, n \in S PROVE n + 1 \in S
  <2>1. PICK st : Loop(st, n)
    BY <1>2
  <2> DEFINE next == [i \in 0 .. n + 1 |-> IF i = n + 1 THEN readLine(st[n], f[i])
                                          ELSE st[i]]
  <2>2. ASSUME NEW i \in 0 .. n + 1
        PROVE  next[i] = IF i = 0 THEN start(e) ELSE readLine(next[i - 1], f[i])
    <3>1. CASE i = n + 1
      BY <3>1
    <3>2. CASE i \in 0 .. n
      BY <2>1, <3>2
    <3> QED
      BY <3>1, <3>2
  <2>3. next = [i \in 0 .. n + 1 |-> next[i]]
    OBVIOUS
  <2> HIDE DEF next
  <2>4. Loop(next, n + 1)
    BY <2>2, <2>3
  <2> HIDE DEF Loop
  <2> QED
    BY <2>4
<1>3. Len(f) \in S
  <2>1. Len(f) \in Nat
    OBVIOUS
  <2> HIDE DEF S
  <2> QED
    BY <1>1, <1>2, <2>1, SetInduction
<1> DEFINE st == CHOOSE st : Loop(st, Len(f))
<1>4. Loop(st, Len(f))
  BY <1>3
<1>5. LoadFile(e, f) = st[Len(f)]
  BY DEF LoadFile, start
<1> HIDE DEF st
<1>6. /\ st[0] = start(e)
      /\ \A i \in 1 .. Len(f) : st[i] = readLine(st[i - 1], f[i])
  BY <1>4
<1> QED
  BY <1>5, <1>6

-----------------------------------------------------------------------------
(* What the state after i lines tells of the environment.                  *)
setLines(f, i) == {j \in 1 .. i : f[j].kind = "set"}

Keys(f, i) == {f[j].key : j \in setLines(f, i)}

(* The first line that sets its variable.                                  *)
First(f, j) == \A m \in setLines(f, j) : f[m].key = f[j].key => m = j

IsState(st) ==
  st = [ok |-> st.ok, env |-> st.env, fromFile |-> st.fromFile, skippedOS |-> st.skippedOS]

(* No line was refused; a variable is the one of the OS or that of the     *)
(* first line for it; and every variable of the file is accounted for.     *)
ReadUpTo(os, f, st, i) ==
  /\ \A j \in 1 .. i : f[j].kind # "malformed"
  /\ DOMAIN st.env = DOMAIN os \cup Keys(f, i)
  /\ \A k \in DOMAIN os : st.env[k] = os[k]
  /\ \A j \in setLines(f, i) :
       First(f, j) /\ f[j].key \notin DOMAIN os => st.env[f[j].key] = f[j].val
  /\ DOMAIN st.fromFile \cup st.skippedOS = Keys(f, i)

LEMMA ReadOneLine ==
  ASSUME NEW os, NEW f \in Seq(Line), NEW i \in 1 .. Len(f), NEW st, IsState(st),
         st.ok => ReadUpTo(os, f, st, i - 1)
  PROVE  /\ IsState(readLine(st, f[i]))
         /\ readLine(st, f[i]).ok => ReadUpTo(os, f, readLine(st, f[i]), i)
<1> DEFINE line == f[i]
           next == readLine(st, line)
<1>1. line \in Line /\ line.kind \in {"comment", "malformed", "set"}
  <2>1. f[i] \in Line
    OBVIOUS
  <2> QED
    BY <2>1 DEF Line
<1>2. setLines(f, i) = setLines(f, i - 1) \cup (IF line.kind = "set" THEN {i} ELSE {})
  BY DEF setLines
<1>3. \A j \in 1 .. i : j \in 1 .. i - 1 \/ j = i
  OBVIOUS
<1>4. CASE ~st.ok
  BY <1>4 DEF readLine
<1>5. CASE st.ok /\ line.kind = "comment"
  <2>1. next = st
    BY <1>5 DEF readLine
  <2>2. setLines(f, i) = setLines(f, i - 1)
    BY <1>2, <1>5
  <2> HIDE DEF next
  <2>4. ReadUpTo(os, f, st, i)
    BY <1>3, <1>5, <2>2 DEF ReadUpTo, Keys
  <2> QED
    BY <2>1, <2>4 DEF next
<1>6. CASE st.ok /\ line.kind = "malformed"
  BY <1>6 DEF readLine, IsState
<1>7. CASE st.ok /\ line.kind = "set"
  <2>1. next = setenv(st, line)
    BY <1>7 DEF readLine
  <2>2. Keys(f, i) = Keys(f, i - 1) \cup {line.key}
    BY <1>2, <1>7 DEF Keys
  <2>3. /\ \A j \in 1 .. i : f[j].kind # "malformed"
        /\ \A j \in setLines(f, i) : j \in setLines(f, i - 1) \/ j = i
        /\ \A j \in setLines(f, i - 1) : j \in setLines(f, i) /\ j # i
    BY <1>2, <1>3, <1>7 DEF ReadUpTo, setLines
  <2>4. CASE line.key \in DOMAIN st.env
    <3>1. /\ next = [ok |-> st.ok, env |-> st.env, fromFile |-> st.fromFile,
                     skippedOS |-> st.skippedOS \cup {line.key}]
      BY <2>1, <2>4 DEF setenv, IsState
    <3>2. First(f, i) => line.key \in DOMAIN os
      <4> SUFFICES ASSUME line.key \notin DOMAIN os PROVE ~First(f, i)
        OBVIOUS
      <4>1. PICK m \in setLines(f, i - 1) : f[m].key = line.key
        BY <1>7, <2>4 DEF ReadUpTo, Keys
      <4> QED
        BY <4>1, <2>3 DEF First
    <3> HIDE DEF next
    <3>3. ReadUpTo(os, f, next, i)
      BY <1>7, <2>2, <2>4, <2>3, <3>1, <3>2 DEF ReadUpTo
    <3>4. IsState(next)
      BY <3>1 DEF IsState
    <3> QED
      BY <3>3, <3>4 DEF next
  <2>5. CASE line.key \notin DOMAIN st.env
    <3>1. next = [ok |-> st.ok, env |-> set(st.env, line.key, line.val),
                  fromFile |-> set(st.fromFile, line.key, line.val),
                  skippedOS |-> st.skippedOS]
      BY <2>1, <2>5 DEF setenv, IsState
    <3> HIDE DEF next
    <3>2. /\ DOMAIN next.env = DOMAIN st.env \cup {line.key}
          /\ DOMAIN next.fromFile = DOMAIN st.fromFile \cup {line.key}
          /\ next.skippedOS = st.skippedOS
          /\ next.env[line.key] = line.val
          /\ \A k \in DOMAIN st.env : next.env[k] = st.env[k]
      BY <3>1, <2>5 DEF set
    <3>3. \A j \in setLines(f, i - 1) : f[j].key \in DOMAIN st.env
      BY <1>7 DEF ReadUpTo, Keys
    <3>4. \A j \in setLines(f, i) :
            First(f, j) /\ f[j].key \notin DOMAIN os => next.env[f[j].key] = f[j].val
      BY <1>7, <2>3, <3>2, <3>3 DEF ReadUpTo
    <3>5. ReadUpTo(os, f, next, i)
      BY <1>7, <2>2, <2>3, <3>2, <3>4 DEF ReadUpTo
    <3>6. IsState(next)
      BY <3>1 DEF IsState
    <3> QED
      BY <3>5, <3>6 DEF next
  <2> QED
    BY <2>4, <2>5
<1> QED
  BY <1>1, <1>4, <1>5, <1>6, <1>7

LEMMA FileIsRead ==
  ASSUME NEW os, NEW f \in Seq(Line), LoadFile(os, f).ok
  PROVE  ReadUpTo(os, f, LoadFile(os, f), Len(f))
<1>1. PICK st : /\ st[0] = start(os)
                /\ \A i \in 1 .. Len(f) : st[i] = readLine(st[i - 1], f[i])
                /\ LoadFile(os, f) = st[Len(f)]
  BY LoadFileLoop
<1> DEFINE S == {i \in 0 .. Len(f) :
                   IsState(st[i]) /\ (st[i].ok => ReadUpTo(os, f, st[i], i))}
<1>2. 0 \in S
  <2>1. setLines(f, 0) = {} /\ 1 .. 0 = {}
    BY DEF setLines
  <2>2. IsState(st[0])
    BY <1>1 DEF start, IsState
  <2>3. Keys(f, 0) = {} /\ DOMAIN st[0].fromFile \cup st[0].skippedOS = {}
    BY <1>1, <2>1 DEF start, Keys
  <2>4. ReadUpTo(os, f, st[0], 0)
    <3>1. st[0].env = os
      BY <1>1 DEF start
    <3> QED
      BY <2>1, <2>3, <3>1 DEF ReadUpTo
  <2> QED
    BY <2>2, <2>4
<1>3. ASSUME NEW i \in 1 .. Len(f), i - 1 \in S PROVE i \in S
  <2>1. IsState(st[i - 1]) /\ (st[i - 1].ok => ReadUpTo(os, f, st[i - 1], i - 1))
    BY <1>3
  <2>2. st[i] = readLine(st[i - 1], f[i])
    BY <1>1
  <2>3. /\ IsState(readLine(st[i - 1], f[i]))
        /\ readLine(st[i - 1], f[i]).ok => ReadUpTo(os, f, readLine(st[i - 1], f[i]), i)
    BY <2>1, ReadOneLine
  <2>4. IsState(st[i]) /\ (st[i].ok => ReadUpTo(os, f, st[i], i))
    BY <2>2, <2>3
  <2> QED
    BY <2>4
<1>4. Len(f) \in S
  <2>1. Len(f) \in Nat
    OBVIOUS
  <2> HIDE DEF S
  <2> QED
    BY <1>2, <1>3, <2>1, InductionUpTo
<1> QED
  BY <1>1, <1>4

(* A file whose variables the environment has changes nothing.             *)
LEMMA FileIsRereadInVain ==
  ASSUME NEW e, NEW f \in Seq(Line), Keys(f, Len(f)) \subseteq DOMAIN e,
         \A j \in 1 .. Len(f) : f[j].kind # "malformed"
  PROVE  LoadFile(e, f) = [ok |-> TRUE, env |-> e, fromFile |-> <<>>,
                           skippedOS |-> Keys(f, Len(f))]
<1> DEFINE after(i) == [ok |-> TRUE, env |-> e, fromFile |-> <<>>,
                        skippedOS |-> Keys(f, i)]
<1>1. PICK st : /\ st[0] = start(e)
                /\ \A i \in 1 .. Len(f) : st[i] = readLine(st[i - 1], f[i])
                /\ LoadFile(e, f) = st[Len(f)]
  BY LoadFileLoop
<1> DEFINE S == {i \in 0 .. Len(f) : st[i] = after(i)}
<1>2. 0 \in S
  <2>1. Keys(f, 0) = {}
    BY DEF setLines, Keys
  <2>2. st[0] = after(0)
    BY <1>1, <2>1 DEF start
  <2> HIDE DEF after
  <2> QED
    BY <2>2
<1>3. ASSUME NEW i \in 1 .. Len(f), i - 1 \in S PROVE i \in S
  <2> DEFINE prev == after(i - 1)
  <2>1. st[i] = readLine(prev, f[i])
    BY <1>1, <1>3
  <2>2. f[i] \in Line /\ f[i].kind \in {"comment", "set"}
    <3>1. f[i] \in Line
      OBVIOUS
    <3> QED
      BY <3>1 DEF Line
  <2>3. prev.ok /\ prev.env = e
    OBVIOUS
  <2>4. setLines(f, i) = setLines(f, i - 1) \cup (IF f[i].kind = "set" THEN {i} ELSE {})
    BY DEF setLines
  <2>5. CASE f[i].kind = "comment"
    <3>1. Keys(f, i) = Keys(f, i - 1)
      BY <2>4, <2>5 DEF Keys
    <3> QED
      BY <2>1, <2>3, <2>5, <3>1 DEF readLine
  <2>6. CASE f[i].kind = "set"
    <3>1. Keys(f, i) = Keys(f, i - 1) \cup {f[i].key}
      BY <2>4, <2>6 DEF Keys
    <3>2. f[i].key \in DOMAIN e
      BY <2>6 DEF Keys, setLines
    <3>3. readLine(prev, f[i]) = [prev EXCEPT !.skippedOS = @ \cup {f[i].key}]
      BY <2>3, <2>6, <3>2 DEF readLine, setenv
    <3>4. st[i] = after(i)
      BY <2>1, <3>1, <3>3
    <3> HIDE DEF after
    <3> QED
      BY <3>4
  <2> QED
    BY <2>2, <2>5, <2>6
<1>4. Len(f) \in S
  <2>1. Len(f) \in Nat
    OBVIOUS
  <2> HIDE DEF S
  <2> QED
    BY <1>2, <1>3, <2>1, InductionUpTo
<1> QED
  BY <1>1, <1>4

-----------------------------------------------------------------------------
LEMMA LoadResult ==
  ASSUME NEW os, NEW f, Load(os, f).conf # NoConfig
  PROVE  /\ LoadFile(os, f).ok
         /\ Load(os, f).conf = appConfig(LoadFile(os, f))
         /\ Load(os, f).env = LoadFile(os, f).env
<1> DEFINE st == LoadFile(os, f)
<1>1. /\ Load(os, f).env = st.env
      /\ Load(os, f).conf =
           IF /\ st.ok
              /\ \A k \in IntKeys : IsInteger(st.env, k)
              /\ ValidLog(LoadLog(st.env))
              /\ Valid(appConfig(st))
           THEN appConfig(st) ELSE NoConfig
  BY DEF Load
<1> HIDE DEF st
<1>2. st.ok /\ Load(os, f).conf = appConfig(st)
  BY <1>1
<1> QED
  BY <1>1, <1>2 DEF st

(* What a running server has is what Load made of the way it was started.  *)
ComesFromBoot ==
  Loaded => /\ boot \in Boots
            /\ Load(boot.os, boot.file).conf # NoConfig
            /\ env = Load(boot.os, boot.file).env
            /\ conf = SetListenAddr(Load(boot.os, boot.file).conf, boot.addr)

LEMMA ConfigurationComesFromBoot == StartupSpec => []ComesFromBoot
<1>1. StartupInit => ComesFromBoot
  BY DEF StartupInit, ComesFromBoot, Loaded
<1>2. ASSUME ComesFromBoot, [StartupNext]_vars PROVE ComesFromBoot'
  <2>1. ASSUME NEW l \in Accepted, Boot(l) PROVE ComesFromBoot'
    <3>1. PICK b \in Boots : l = [boot |-> b, result |-> Load(b.os, b.file)]
      BY DEF Accepted
    <3>2. l.boot = b /\ l.result = Load(b.os, b.file) /\ l.result.conf # NoConfig
      BY <3>1 DEF Accepted
    <3> QED
      BY <2>1, <3>2 DEF Boot, ComesFromBoot
  <2>2. CASE Run
    BY <1>2, <2>2 DEF Run, bootVars, ComesFromBoot, Loaded
  <2>3. CASE End
    BY <2>3 DEF End, ComesFromBoot, Loaded
  <2>4. CASE UNCHANGED vars
    BY <1>2, <2>4 DEF vars, bootVars, ComesFromBoot, Loaded
  <2> QED
    BY <1>2, <2>1, <2>2, <2>3, <2>4 DEF StartupNext
<1> QED
  BY <1>1, <1>2, PTL DEF StartupSpec

(* The readers see of the environment what the sources say.                *)
LEMMA EffectiveIsRead ==
  ASSUME boot \in Boots, LoadFile(boot.os, boot.file).ok, NEW k
  PROVE  LET e == LoadFile(boot.os, boot.file).env
         IN  /\ lookupNonEmpty(e, k) <=> effective(k) # ""
             /\ effective(k) # "" => effective(k) = e[k]
             /\ k \in DOMAIN e => effective(k) = e[k]
<1> DEFINE f == boot.file
           st == LoadFile(boot.os, f)
           lines == {i \in DOMAIN f : f[i].kind = "set" /\ f[i].key = k}
<1>1. f \in Seq(Line) /\ DOMAIN f = 1 .. Len(f) /\ Len(f) \in Nat
  <2>1. f \in Seq(Line)
    BY StartupAssumption
  <2> HIDE DEF f
  <2> QED
    BY <2>1
<1>2. ReadUpTo(boot.os, f, st, Len(f))
  BY <1>1, FileIsRead
<1>3. effective(k) =
        IF k \in DOMAIN boot.os THEN boot.os[k]
        ELSE IF lines # {} THEN f[CHOOSE i \in lines : \A j \in lines : i <= j].val
        ELSE ""
  BY DEF effective
<1> HIDE DEF st
<1>4. CASE k \in DOMAIN boot.os
  BY <1>2, <1>3, <1>4 DEF ReadUpTo, lookupNonEmpty, st
<1>5. CASE k \notin DOMAIN boot.os /\ lines # {}
  <2> DEFINE i == CHOOSE i \in lines : \A j \in lines : i <= j
  <2>1. lines \subseteq Nat
    BY <1>1
  <2>2. i \in lines /\ \A j \in lines : i <= j
    <3>1. \E m \in lines : \A j \in lines : m <= j
      BY <1>5, <2>1, LeastNumber
    <3> QED
      BY <3>1
  <2> HIDE DEF i
  <2>3. i \in setLines(f, Len(f)) /\ f[i].key = k
    BY <1>1, <2>2 DEF setLines
  <2>4. First(f, i)
    <3>1. ASSUME NEW m \in setLines(f, i), f[m].key = f[i].key PROVE m = i
      <4>1. m \in 1 .. i /\ m \in lines /\ i \in 1 .. Len(f)
        BY <1>1, <2>2, <2>3, <3>1 DEF setLines
      <4> QED
        BY <2>2, <4>1
    <3> QED
      BY <3>1 DEF First
  <2>5. k \in DOMAIN st.env /\ st.env[k] = f[i].val
    BY <1>2, <1>5, <2>3, <2>4 DEF ReadUpTo, Keys
  <2>6. effective(k) = f[i].val
    BY <1>3, <1>5 DEF i
  <2> QED
    BY <2>5, <2>6 DEF lookupNonEmpty, st
<1>6. CASE k \notin DOMAIN boot.os /\ lines = {}
  <2>1. k \notin Keys(f, Len(f))
    BY <1>1, <1>6 DEF Keys, setLines
  <2> QED
    BY <1>2, <1>3, <1>6, <2>1 DEF ReadUpTo, lookupNonEmpty, st
<1> QED
  BY <1>4, <1>5, <1>6

(* For every environment and every file, each variable of a running server *)
(* is that of -addr, the OS, the first line of the file or the default, in *)
(* this order, and the program leaves the variables of the OS alone.       *)
THEOREM PrecedenceIsFollowed == StartupSpec => []FollowsPrecedence
<1>1. ASSUME ComesFromBoot PROVE FollowsPrecedence
  <2> SUFFICES ASSUME Loaded PROVE FollowsPrecedence
    BY DEF FollowsPrecedence
  <2> DEFINE st == LoadFile(boot.os, boot.file)
             c == Load(boot.os, boot.file).conf
  <2>1. /\ boot \in Boots /\ st.ok /\ env = st.env
        /\ conf = SetListenAddr(c, boot.addr) /\ c = appConfig(st) /\ Checked(c)
    BY <1>1, LoadResult, LoadChecks DEF ComesFromBoot
  <2>2. ASSUME NEW k, NEW def
        PROVE  envString(st.env, k, def) = expected(k, def)
    BY <2>1, EffectiveIsRead DEF envString, expected
  <2>3. ASSUME NEW k, NEW def
        PROVE  envIntStrict(st.env, k, def) =
                 IF effective(k) # "" THEN Numeral[effective(k)] ELSE def
    BY <2>1, EffectiveIsRead DEF envIntStrict
  <2>4. \A k \in DOMAIN boot.os : env[k] = boot.os[k]
    <3>1. ReadUpTo(boot.os, boot.file, st, Len(boot.file))
      BY <2>1, FileIsRead, StartupAssumption
    <3> QED
      BY <2>1, <3>1 DEF ReadUpTo
  <2> HIDE DEF st, c
  <2>5. /\ c.str = [k \in StringKeys |-> stringOf(st.env, k)]
        /\ c.int = [k \in IntKeys |-> envIntStrict(st.env, k, Default[k])]
    BY <2>1 DEF appConfig
  <2>6. /\ conf.int = c.int
        /\ \A k \in StringKeys \ {"LISTEN_ADDR"} : conf.str[k] = c.str[k]
    BY <2>1, AddrKeepsTheRest
  <2>7. conf.str["LISTEN_ADDR"] =
          IF boot.addr # "" THEN boot.addr ELSE c.str["LISTEN_ADDR"]
    BY <2>1, <2>5 DEF SetListenAddr, StringKeys, appConfig
  <2>8. ASSUME NEW k \in StringKeys \ {"NETWORK"}
        PROVE  c.str[k] = expected(k, Default[k])
    BY <2>2, <2>5 DEF stringOf
  <2>9. c.str["NETWORK"] = lower(expected("NETWORK", Default["NETWORK"]))
    BY <2>2, <2>5 DEF stringOf, StringKeys
  <2>10. \A k \in IntKeys :
           conf.int[k] = IF effective(k) # "" THEN Numeral[effective(k)] ELSE Default[k]
    <3>1. ASSUME NEW k \in IntKeys
          PROVE  conf.int[k] = envIntStrict(st.env, k, Default[k])
      BY <2>5, <2>6
    <3>2. ASSUME NEW k \in IntKeys
          PROVE  envIntStrict(st.env, k, Default[k]) =
                   IF effective(k) # "" THEN Numeral[effective(k)] ELSE Default[k]
      BY <2>3
    <3> QED
      BY <3>1, <3>2
  <2>11. /\ \A k \in StringKeys \ {"NETWORK", "LISTEN_ADDR"} :
              conf.str[k] = expected(k, Default[k])
         /\ conf.str["NETWORK"] = lower(expected("NETWORK", Default["NETWORK"]))
         /\ conf.str["LISTEN_ADDR"] =
              IF boot.addr # "" THEN boot.addr
              ELSE expected("LISTEN_ADDR", Default["LISTEN_ADDR"])
    BY <2>6, <2>7, <2>8, <2>9 DEF StringKeys
  <2>12. /\ conf.log = LoadLog(st.env)
         /\ conf.extra = extraOf(st)
    BY <2>1, AddrKeepsTheRest DEF appConfig
  <2>13. conf.log =
           [SystemMode |-> lower(expectedLog("SYSTEM_LOG_MODE")),
            AccessMode |-> lower(expectedLog("ACCESS_LOG_MODE")),
            SystemFile |-> expectedLog("SYSTEM_LOG_FILE"),
            AccessFile |-> expectedLog("ACCESS_LOG_FILE"),
            DBDriver   |-> NormalizeLogDBDriver(expectedLog("LOG_DB_DRIVER")),
            DBDSN      |-> expectedLog("LOG_DB_DSN")]
    <3>1. \A k : envString(st.env, k, DefaultLog[k]) = expectedLog(k)
      BY <2>2 DEF expectedLog
    <3> QED
      BY <2>12, <3>1 DEF LoadLog
  <2>14. conf.extra = [k \in named \ KnownKeys |-> effective(k)]
    <3>1. Keys(boot.file, Len(boot.file)) = named
      <4>1. boot.file \in Seq(Line)
        BY <2>1, StartupAssumption
      <4>2. DOMAIN boot.file = 1 .. Len(boot.file)
        BY <4>1
      <4> QED
        BY <4>2 DEF Keys, setLines, named
    <3>2. /\ DOMAIN st.fromFile \cup st.skippedOS = named
          /\ named \subseteq DOMAIN st.env
      BY <2>1, <3>1, FileIsRead, StartupAssumption DEF ReadUpTo, st
    <3>3. \A k \in named : st.env[k] = effective(k)
      BY <2>1, <3>2, EffectiveIsRead DEF st
    <3> QED
      BY <2>12, <3>2, <3>3 DEF extraOf
  <2> QED
    BY <2>4, <2>10, <2>11, <2>13, <2>14 DEF FollowsPrecedence
<1> QED
  BY <1>1, ConfigurationComesFromBoot, PTL

(* Loading once more in the same process changes neither the environment   *)
(* nor the configuration, for every environment and every file.            *)
THEOREM ReloadChangesNothing == StartupSpec => []ReloadAgrees
<1>1. ASSUME ComesFromBoot PROVE ReloadAgrees
  <2> SUFFICES ASSUME Loaded PROVE ReloadAgrees
    BY DEF ReloadAgrees
  <2> DEFINE f == boot.file
             st == LoadFile(boot.os, f)
             c == Load(boot.os, f).conf
             st2 == LoadFile(env, f)
  <2>1. /\ f \in Seq(Line) /\ st.ok /\ env = st.env /\ c # NoConfig
        /\ conf = SetListenAddr(c, boot.addr) /\ c = appConfig(st)
    <3>1. boot \in Boots /\ c # NoConfig /\ env = Load(boot.os, f).env
          /\ conf = SetListenAddr(c, boot.addr)
      BY <1>1 DEF ComesFromBoot
    <3>2. st.ok /\ c = appConfig(st) /\ env = st.env
      BY <3>1, LoadResult
    <3>3. f \in Seq(Line)
      BY <3>1, StartupAssumption
    <3> QED
      BY <3>1, <3>2, <3>3
  <2>2. ReadUpTo(boot.os, f, st, Len(f))
    BY <2>1, FileIsRead
  <2>3. st2 = [ok |-> TRUE, env |-> env, fromFile |-> <<>>, skippedOS |-> Keys(f, Len(f))]
    BY <2>1, <2>2, FileIsRereadInVain DEF ReadUpTo
  <2>4. st2.ok /\ st2.env = st.env
    BY <2>1, <2>3
  <2>5. extraOf(st2) = extraOf(st)
    <3>1. DOMAIN st2.fromFile \cup st2.skippedOS = DOMAIN st.fromFile \cup st.skippedOS
      BY <2>2, <2>3 DEF ReadUpTo
    <3> QED
      BY <2>4, <3>1 DEF extraOf
  <2>6. appConfig(st2) = appConfig(st)
    BY <2>4, <2>5 DEF appConfig
  <2>7. /\ \A k \in IntKeys : IsInteger(st.env, k)
        /\ ValidLog(LoadLog(st.env))
        /\ Valid(appConfig(st))
    BY <2>1 DEF Load
  <2> HIDE DEF st, st2, c
  <2>8. Load(env, f) = [env |-> env, conf |-> c]
    BY <2>1, <2>4, <2>6, <2>7 DEF Load, st2
  <2> QED
    BY <2>1, <2>8 DEF ReloadAgrees
<1> QED
  BY <1>1, ConfigurationComesFromBoot, PTL


-----------------------------------------------------------------------------
(* The callers of a started server see a journal, whatever environment and *)
(* file its configuration comes from (System, Access, Close).              *)
THEOREM StartupImplementsJournal == StartupSpec => ImplementsJournal
BY StartupImplementsLogger, LoggerIsJournal, PTL
=============================================================================
