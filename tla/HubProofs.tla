----------------------------- MODULE HubProofs -----------------------------
(***************************************************************************)
(* Proofs about Hub, for any sets of clients and rooms and any limits.     *)
(* The argument is about single tables first (what Opened, Added and       *)
(* Removed preserve), then about the two tables of the hub and the copies  *)
(* that the clients keep.                                                  *)
(***************************************************************************)
EXTENDS Hub, FiniteSetTheorems, TLAPS

(* A table as the hub keeps it: finite, without empty rooms, within its    *)
(* two limits.                                                             *)
GoodTable(t, maxRooms, maxClients) ==
  /\ t \in Tables
  /\ IsFiniteSet(DOMAIN t)
  /\ \A r \in DOMAIN t : IsFiniteSet(t[r]) /\ t[r] # {}
  /\ maxRooms > 0 => Cardinality(DOMAIN t) <= maxRooms
  /\ maxClients > 0 => \A r \in DOMAIN t : Cardinality(t[r]) <= maxClients

GoodTables == \A s \in Scope : GoodTable(rooms[s], MaxRooms[s], MaxClients[s])

(* A client is registered from register to unregister, its queue is closed *)
(* exactly when it has been unregistered, and from leaveAll on it holds no *)
(* membership: nothing lets a departing client back into a room.           *)
LifecycleAgrees ==
  \A c \in Client :
    /\ c \in clients <=> stage[c] \in {"open", "closing"}
    /\ c \in closed <=> stage[c] = "closed"
    /\ stage[c] # "open" => \A s \in Scope : mine[s][c] = {}

(* The inductive invariant.                                                *)
HubInv == HubTypeOK /\ GoodTables /\ Mirrored /\ LifecycleAgrees

-----------------------------------------------------------------------------
(* A table is a function from some of the rooms to sets of clients.        *)
LEMMA TableFacts ==
  ASSUME NEW t \in Tables
  PROVE  /\ DOMAIN t \subseteq Room
         /\ t = [r \in DOMAIN t |-> t[r]]
         /\ \A r \in DOMAIN t : t[r] \subseteq Client
BY DEF Tables

(* The converse: such a function is a table.                               *)
LEMMA TableIntro ==
  ASSUME NEW D \in SUBSET Room, NEW t \in [D -> SUBSET Client]
  PROVE  t \in Tables
BY DEF Tables

(* The limits are natural numbers.                                         *)
LEMMA LimitsNat ==
  ASSUME NEW s \in Scope
  PROVE  MaxRooms[s] \in Nat /\ MaxClients[s] \in Nat
BY HubAssumption DEF MaxRooms, MaxClients, Scope

(* Members of a room are clients.                                          *)
LEMMA MembersType ==
  ASSUME NEW t \in Tables, NEW r
  PROVE  Members(t, r) \subseteq Client
BY TableFacts DEF Members

(* A room that is full has members, so it exists, and opening it changes   *)
(* nothing: a refused join leaves no empty room behind.                    *)
LEMMA OpenedFull ==
  ASSUME NEW t \in Tables, NEW r, NEW max \in Nat, Full(t, r, max)
  PROVE  Opened(t, r) = t
<1>1. r \in DOMAIN t
  <2>1. SUFFICES ASSUME r \notin DOMAIN t PROVE FALSE
    OBVIOUS
  <2>2. Members(t, r) = {}
    BY <2>1 DEF Members
  <2>3. Cardinality(Members(t, r)) = 0
    BY <2>2, FS_EmptySet
  <2> QED BY <2>3 DEF Full
<1>2. DOMAIN t \cup {r} = DOMAIN t
  BY <1>1
<1>3. \A x \in DOMAIN t : Members(t, x) = t[x]
  BY DEF Members
<1>4. Opened(t, r) = [x \in DOMAIN t |-> t[x]]
  BY <1>2, <1>3 DEF Opened
<1> QED BY <1>4, TableFacts

(* What Added does to the table and to its members.                        *)
LEMMA AddedShape ==
  ASSUME NEW t \in Tables, NEW c \in Client, NEW r \in Room
  PROVE  /\ DOMAIN Added(t, c, r) = DOMAIN t \cup {r}
         /\ \A x \in DOMAIN t \cup {r} :
              Added(t, c, r)[x] = Members(t, x) \cup (IF x = r THEN {c} ELSE {})
         /\ \A x : Members(Added(t, c, r), x) =
                     IF x = r THEN Members(t, r) \cup {c} ELSE Members(t, x)
         /\ Added(t, c, r) \in Tables
<1>1. DOMAIN Added(t, c, r) = DOMAIN t \cup {r}
  BY DEF Added, Opened
<1>2. \A x \in DOMAIN t \cup {r} :
        Added(t, c, r)[x] = Members(t, x) \cup (IF x = r THEN {c} ELSE {})
  BY DEF Added, Opened
<1>3. \A x : Members(Added(t, c, r), x) =
               IF x = r THEN Members(t, r) \cup {c} ELSE Members(t, x)
  <2> TAKE x
  <2>1. CASE x \in DOMAIN t \cup {r}
    BY <1>1, <1>2, <2>1 DEF Members
  <2>2. CASE x \notin DOMAIN t \cup {r}
    BY <1>1, <2>2 DEF Members
  <2> QED BY <2>1, <2>2
<1>4. Added(t, c, r) \in Tables
  <2>1. DOMAIN t \cup {r} \in SUBSET Room
    BY TableFacts
  <2>2. Added(t, c, r) \in [DOMAIN t \cup {r} -> SUBSET Client]
    <3>1. \A x \in DOMAIN t \cup {r} : Added(t, c, r)[x] \in SUBSET Client
      BY <1>2, MembersType
    <3>2. Added(t, c, r) = [x \in DOMAIN t \cup {r} |-> Added(t, c, r)[x]]
      BY DEF Added, Opened
    <3> QED BY <3>1, <3>2
  <2> QED BY <2>1, <2>2, TableIntro
<1> QED BY <1>1, <1>2, <1>3, <1>4

(* Added, seen through membership: c is in r, nothing else has changed.    *)
LEMMA AddedMembers ==
  ASSUME NEW t \in Tables, NEW c \in Client, NEW r \in Room, NEW x, NEW d
  PROVE  d \in Members(Added(t, c, r), x) <=>
           d \in Members(t, x) \/ (x = r /\ d = c)
<1>1. CASE x \in DOMAIN t \cup {r}
  BY <1>1 DEF Members, Added, Opened
<1>2. CASE x \notin DOMAIN t \cup {r}
  BY <1>2 DEF Members, Added, Opened
<1> QED BY <1>1, <1>2

(* An admitted join keeps the table good.                                  *)
LEMMA AddedGood ==
  ASSUME NEW t, NEW c \in Client, NEW r \in Room,
         NEW maxRooms \in Nat, NEW maxClients \in Nat,
         GoodTable(t, maxRooms, maxClients),
         ~NoSlot(t, r, maxRooms),
         c \notin Members(t, r),
         ~Full(t, r, maxClients)
  PROVE  GoodTable(Added(t, c, r), maxRooms, maxClients)
<1> DEFINE u == Added(t, c, r)
<1>0. t \in Tables
  BY DEF GoodTable
<1>1. /\ DOMAIN u = DOMAIN t \cup {r}
      /\ \A x : Members(u, x) =
                  IF x = r THEN Members(t, r) \cup {c} ELSE Members(t, x)
      /\ u \in Tables
  BY <1>0, AddedShape
<1>2. /\ IsFiniteSet(DOMAIN u)
      /\ maxRooms > 0 => Cardinality(DOMAIN u) <= maxRooms
  <2>1. IsFiniteSet(DOMAIN t) /\ Cardinality(DOMAIN t) \in Nat
    BY FS_CardinalityType DEF GoodTable
  <2>2. /\ IsFiniteSet(DOMAIN t \cup {r})
        /\ Cardinality(DOMAIN t \cup {r}) =
             IF r \in DOMAIN t THEN Cardinality(DOMAIN t)
                               ELSE Cardinality(DOMAIN t) + 1
    BY <2>1, FS_AddElement
  <2>3. maxRooms > 0 => Cardinality(DOMAIN t \cup {r}) <= maxRooms
    BY <2>1, <2>2 DEF GoodTable, NoSlot
  <2> QED BY <1>1, <2>2, <2>3
<1>3. ASSUME NEW x \in DOMAIN u
      PROVE  /\ IsFiniteSet(u[x]) /\ u[x] # {}
             /\ maxClients > 0 => Cardinality(u[x]) <= maxClients
  <2>1. u[x] = Members(u, x)
    BY <1>3 DEF Members
  <2>2. CASE x # r
    <3>1. x \in DOMAIN t /\ u[x] = t[x]
      BY <1>1, <1>3, <2>1, <2>2 DEF Members
    <3> QED BY <3>1 DEF GoodTable
  <2>3. CASE x = r
    <3>1. u[x] = Members(t, r) \cup {c}
      BY <1>1, <2>1, <2>3
    <3>2. IsFiniteSet(Members(t, r))
      BY FS_EmptySet DEF GoodTable, Members
    <3>3. Cardinality(Members(t, r)) \in Nat
      BY <3>2, FS_CardinalityType
    <3>4. /\ IsFiniteSet(Members(t, r) \cup {c})
          /\ Cardinality(Members(t, r) \cup {c}) =
               Cardinality(Members(t, r)) + 1
      BY <3>2, FS_AddElement
    <3> QED BY <3>1, <3>3, <3>4 DEF Full
  <2> QED BY <2>2, <2>3
<1> QED BY <1>1, <1>2, <1>3 DEF GoodTable

(* What Removed does to the table and to its members.                      *)
LEMMA RemovedShape ==
  ASSUME NEW t \in Tables, NEW c, NEW R
  PROVE  /\ DOMAIN Removed(t, c, R) \subseteq DOMAIN t
         /\ \A x \in DOMAIN Removed(t, c, R) :
              /\ Removed(t, c, R)[x] \subseteq t[x]
              /\ t[x] # {} => Removed(t, c, R)[x] # {}
         /\ \A x : Members(Removed(t, c, R), x) =
                     IF x \in R THEN Members(t, x) \ {c} ELSE Members(t, x)
         /\ Removed(t, c, R) \in Tables
<1> DEFINE u == Removed(t, c, R)
<1>1. DOMAIN u = {x \in DOMAIN t : x \in R => t[x] \ {c} # {}}
  BY DEF Removed
<1>2. \A x \in DOMAIN u : u[x] = IF x \in R THEN t[x] \ {c} ELSE t[x]
  BY DEF Removed
<1>3. \A x : Members(u, x) =
               IF x \in R THEN Members(t, x) \ {c} ELSE Members(t, x)
  <2> TAKE x
  <2>1. CASE x \in DOMAIN u
    BY <1>1, <1>2, <2>1 DEF Members
  <2>2. CASE x \notin DOMAIN u
    BY <1>1, <2>2 DEF Members
  <2> QED BY <2>1, <2>2
<1>4. u \in Tables
  <2>1. DOMAIN u \in SUBSET Room
    BY <1>1, TableFacts
  <2>2. \A x \in DOMAIN u : u[x] \in SUBSET Client
    BY <1>1, <1>2, TableFacts
  <2>3. u = [x \in DOMAIN u |-> u[x]]
    BY DEF Removed
  <2>4. u \in [DOMAIN u -> SUBSET Client]
    BY <2>2, <2>3
  <2> QED BY <2>1, <2>4, TableIntro
<1> QED BY <1>1, <1>2, <1>3, <1>4

(* Removed, seen through membership: c is in no room of R, nothing else    *)
(* has changed.                                                            *)
LEMMA RemovedMembers ==
  ASSUME NEW t \in Tables, NEW c, NEW R, NEW x, NEW d
  PROVE  d \in Members(Removed(t, c, R), x) <=>
           d \in Members(t, x) /\ ~(x \in R /\ d = c)
<1>1. CASE x \in DOMAIN Removed(t, c, R)
  BY <1>1 DEF Members, Removed
<1>2. CASE x \notin DOMAIN Removed(t, c, R)
  BY <1>2 DEF Members, Removed
<1> QED BY <1>1, <1>2

(* Leaving keeps the table good.                                           *)
LEMMA RemovedGood ==
  ASSUME NEW t, NEW c, NEW R, NEW maxRooms \in Nat, NEW maxClients \in Nat,
         GoodTable(t, maxRooms, maxClients)
  PROVE  GoodTable(Removed(t, c, R), maxRooms, maxClients)
<1> DEFINE u == Removed(t, c, R)
<1>0. t \in Tables
  BY DEF GoodTable
<1>1. /\ DOMAIN u \subseteq DOMAIN t
      /\ \A x \in DOMAIN u : u[x] \subseteq t[x] /\ (t[x] # {} => u[x] # {})
      /\ u \in Tables
  BY <1>0, RemovedShape
<1>2. /\ IsFiniteSet(DOMAIN u)
      /\ maxRooms > 0 => Cardinality(DOMAIN u) <= maxRooms
  <2>1. IsFiniteSet(DOMAIN t) /\ Cardinality(DOMAIN t) \in Nat
    BY FS_CardinalityType DEF GoodTable
  <2>2. IsFiniteSet(DOMAIN u) /\ Cardinality(DOMAIN u) <= Cardinality(DOMAIN t)
    BY <1>1, <2>1, FS_Subset
  <2>3. Cardinality(DOMAIN u) \in Nat
    BY <2>2, FS_CardinalityType
  <2> QED BY <2>1, <2>2, <2>3 DEF GoodTable
<1>3. ASSUME NEW x \in DOMAIN u
      PROVE  /\ IsFiniteSet(u[x]) /\ u[x] # {}
             /\ maxClients > 0 => Cardinality(u[x]) <= maxClients
  <2>1. x \in DOMAIN t /\ IsFiniteSet(t[x]) /\ Cardinality(t[x]) \in Nat
    BY <1>1, FS_CardinalityType DEF GoodTable
  <2>2. IsFiniteSet(u[x]) /\ Cardinality(u[x]) <= Cardinality(t[x])
    BY <1>1, <2>1, FS_Subset
  <2>3. Cardinality(u[x]) \in Nat
    BY <2>2, FS_CardinalityType
  <2>4. u[x] # {}
    BY <1>1, <2>1 DEF GoodTable
  <2> QED BY <2>1, <2>2, <2>3, <2>4 DEF GoodTable
<1> QED BY <1>1, <1>2, <1>3 DEF GoodTable

-----------------------------------------------------------------------------
(* Every operation preserves the inductive invariant.                      *)

(* An empty hub satisfies the inductive invariant.                         *)
LEMMA HubInitInv == HubInit => HubInv
<1> SUFFICES ASSUME HubInit PROVE HubInv
  OBVIOUS
<1> DEFINE e == [r \in {} |-> {}]
<1>1. e \in Tables /\ DOMAIN e = {} /\ \A r : Members(e, r) = {}
  <2>1. {} \in SUBSET Room /\ e \in [{} -> SUBSET Client]
    OBVIOUS
  <2>2. e \in Tables
    BY <2>1, TableIntro
  <2> QED BY <2>2 DEF Members
<1>2. HubTypeOK
  BY <1>1 DEF HubInit, HubTypeOK, Stage
<1>3. GoodTables
  <2> SUFFICES ASSUME NEW s \in Scope
               PROVE  GoodTable(rooms[s], MaxRooms[s], MaxClients[s])
    BY DEF GoodTables
  <2>1. rooms[s] = e
    BY DEF HubInit
  <2>2. MaxRooms[s] > 0 => 0 <= MaxRooms[s]
    BY LimitsNat
  <2> QED BY <1>1, <2>1, <2>2, FS_EmptySet DEF GoodTable
<1>4. Mirrored
  BY <1>1 DEF HubInit, Mirrored
<1>5. LifecycleAgrees
  BY DEF HubInit, LifecycleAgrees
<1> QED BY <1>2, <1>3, <1>4, <1>5 DEF HubInv

(* register touches no table.                                              *)
LEMMA RegisterInv ==
  ASSUME HubInv, NEW c \in Client, register(c)
  PROVE  HubInv'
<1>1. HubTypeOK'
  BY DEF HubInv, register, HubTypeOK, Stage
<1>2. GoodTables'
  BY DEF HubInv, register, GoodTables
<1>3. Mirrored'
  BY DEF HubInv, register, Mirrored
<1>4. LifecycleAgrees'
  BY DEF HubInv, register, LifecycleAgrees, HubTypeOK
<1> QED BY <1>1, <1>2, <1>3, <1>4 DEF HubInv

(* A step that replaces one table by a good one that encodes the client's  *)
(* new copy of its memberships, and leaves the lifecycle alone.            *)
ReplacesTable(s, c, t, M) ==
  /\ stage[c] = "open"
  /\ GoodTable(t, MaxRooms[s], MaxClients[s])
  /\ M \in SUBSET Room
  /\ \A x \in Room : /\ c \in Members(t, x) <=> x \in M
                     /\ \A d \in Client \ {c} :
                          d \in Members(t, x) <=> d \in Members(rooms[s], x)
  /\ rooms' = [rooms EXCEPT ![s] = t]
  /\ mine' = [mine EXCEPT ![s][c] = M]
  /\ answer' \in (Client \X Outcome) \cup {NoAnswer}
  /\ UNCHANGED <<clients, closed, stage>>

(* Such a step preserves the inductive invariant.                          *)
LEMMA OneTableInv ==
  ASSUME HubInv, NEW s \in Scope, NEW c \in Client, NEW t, NEW M,
         ReplacesTable(s, c, t, M)
  PROVE  HubInv'
<1> USE DEF ReplacesTable
<1>0. rooms \in [Scope -> Tables] /\ mine \in [Scope -> [Client -> SUBSET Room]]
  BY DEF HubInv, HubTypeOK
<1>1. /\ rooms'[s] = t
      /\ \A z \in Scope \ {s} : rooms'[z] = rooms[z]
      /\ mine'[s][c] = M
      /\ \A z \in Scope, d \in Client :
           z # s \/ d # c => mine'[z][d] = mine[z][d]
  BY <1>0
<1>2. HubTypeOK'
  <2>1. rooms' \in [Scope -> Tables]
    BY <1>0 DEF GoodTable
  <2>2. mine' \in [Scope -> [Client -> SUBSET Room]]
    BY <1>0
  <2> QED BY <2>1, <2>2 DEF HubInv, HubTypeOK
<1>3. GoodTables'
  BY <1>1 DEF HubInv, GoodTables
<1>4. Mirrored'
  <2> SUFFICES ASSUME NEW z \in Scope, NEW d \in Client, NEW x \in Room
               PROVE  x \in mine'[z][d] <=> d \in Members(rooms'[z], x)
    BY DEF Mirrored
  <2>1. x \in mine[z][d] <=> d \in Members(rooms[z], x)
    BY DEF HubInv, Mirrored
  <2>2. CASE z # s
    BY <1>1, <2>1, <2>2
  <2>3. CASE z = s /\ d # c
    BY <1>1, <2>1, <2>3
  <2>4. CASE z = s /\ d = c
    BY <1>1, <2>4
  <2> QED BY <2>2, <2>3, <2>4
<1>5. LifecycleAgrees'
  <2> SUFFICES ASSUME NEW d \in Client
               PROVE  /\ d \in clients <=> stage[d] \in {"open", "closing"}
                      /\ d \in closed <=> stage[d] = "closed"
                      /\ stage[d] # "open" => \A z \in Scope : mine'[z][d] = {}
    BY DEF LifecycleAgrees
  <2>1. stage[d] # "open" => d # c /\ \A z \in Scope : mine[z][d] = {}
    BY DEF HubInv, LifecycleAgrees
  <2> QED BY <1>1, <2>1 DEF HubInv, LifecycleAgrees
<1> QED BY <1>2, <1>3, <1>4, <1>5 DEF HubInv

(* joinArea and joinChannel, in each of their five outcomes.               *)
LEMMA JoinInv ==
  ASSUME HubInv, NEW s \in Scope, NEW c \in Client,
         NEW r \in Room \cup {NoTarget}, join(s, c, r)
  PROVE  HubInv'
<1>0. /\ stage[c] = "open" /\ UNCHANGED <<clients, closed, stage>>
      /\ rooms \in [Scope -> Tables] /\ mine \in [Scope -> [Client -> SUBSET Room]]
      /\ GoodTable(rooms[s], MaxRooms[s], MaxClients[s])
      /\ MaxRooms[s] \in Nat /\ MaxClients[s] \in Nat
  BY LimitsNat DEF join, HubInv, HubTypeOK, GoodTables
<1>1. answer' \in (Client \X Outcome) \cup {NoAnswer}
  <2>1. PICK o \in Outcome : answer' = <<c, o>>
    BY DEF join, joinWithoutTarget, joinNoSlot, joinAlready, joinFull,
           joinAdmitted, Returns, Outcome
  <2> QED BY <2>1
<1>2. CASE UNCHANGED <<rooms, mine>>
  <2>1. HubTypeOK'
    BY <1>0, <1>1, <1>2 DEF HubInv, HubTypeOK
  <2>2. GoodTables' /\ Mirrored' /\ LifecycleAgrees'
    BY <1>0, <1>2 DEF HubInv, GoodTables, Mirrored, LifecycleAgrees
  <2> QED BY <2>1, <2>2 DEF HubInv
<1>3. CASE joinFull(s, c, r)
  <2>1. Opened(rooms[s], r) = rooms[s]
    BY <1>0, <1>3, OpenedFull DEF joinFull
  <2>2. rooms' = rooms /\ mine' = mine
    BY <1>0, <1>3, <2>1 DEF joinFull
  <2> QED BY <1>2, <2>2
<1>4. CASE joinAdmitted(s, c, r)
  <2> DEFINE t == Added(rooms[s], c, r)
  <2> DEFINE M == mine[s][c] \cup {r}
  <2>1. r \in Room /\ rooms[s] \in Tables
    BY <1>0, <1>4 DEF joinAdmitted
  <2>2. GoodTable(t, MaxRooms[s], MaxClients[s])
    BY <1>0, <1>4, <2>1, AddedGood DEF joinAdmitted
  <2>3. \A x, d : d \in Members(t, x) <=>
                    d \in Members(rooms[s], x) \/ (x = r /\ d = c)
    BY <2>1, AddedMembers
  <2>4. \A x \in Room : x \in mine[s][c] <=> c \in Members(rooms[s], x)
    BY DEF HubInv, Mirrored
  <2>5. M \in SUBSET Room
    BY <1>0, <2>1
  <2>6. rooms' = [rooms EXCEPT ![s] = t] /\ mine' = [mine EXCEPT ![s][c] = M]
    BY <1>0, <1>4 DEF joinAdmitted
  <2>7. \A x \in Room : /\ c \in Members(t, x) <=> x \in M
                        /\ \A d \in Client \ {c} :
                             d \in Members(t, x) <=> d \in Members(rooms[s], x)
    BY <2>3, <2>4
  <2> HIDE DEF t, M
  <2>8. ReplacesTable(s, c, t, M)
    BY <1>0, <1>1, <2>2, <2>5, <2>6, <2>7 DEF ReplacesTable
  <2> QED BY <2>8, OneTableInv
<1>5. \/ UNCHANGED <<rooms, mine>>
      \/ joinFull(s, c, r)
      \/ joinAdmitted(s, c, r)
  BY DEF join, joinWithoutTarget, joinNoSlot, joinAlready
<1> QED BY <1>2, <1>3, <1>4, <1>5

(* leaveArea and leaveChannel, also of a room that does not exist.         *)
LEMMA LeaveInv ==
  ASSUME HubInv, NEW s \in Scope, NEW c \in Client, NEW r, leave(s, c, r)
  PROVE  HubInv'
<1> DEFINE t == Removed(rooms[s], c, {r})
<1> DEFINE M == mine[s][c] \ ({r} \cap DOMAIN rooms[s])
<1>0. /\ stage[c] = "open" /\ UNCHANGED <<clients, closed, stage, answer>>
      /\ rooms \in [Scope -> Tables] /\ mine \in [Scope -> [Client -> SUBSET Room]]
      /\ rooms[s] \in Tables
      /\ GoodTable(rooms[s], MaxRooms[s], MaxClients[s])
      /\ MaxRooms[s] \in Nat /\ MaxClients[s] \in Nat
      /\ answer' \in (Client \X Outcome) \cup {NoAnswer}
  BY LimitsNat DEF leave, HubInv, HubTypeOK, GoodTables
<1>1. GoodTable(t, MaxRooms[s], MaxClients[s])
  BY <1>0, RemovedGood
<1>2. \A x, d : d \in Members(t, x) <=>
                  d \in Members(rooms[s], x) /\ ~(x \in {r} /\ d = c)
  BY <1>0, RemovedMembers
<1>3. \A x \in Room : x \in mine[s][c] <=> c \in Members(rooms[s], x)
  BY DEF HubInv, Mirrored
<1>4. \A x : x \notin DOMAIN rooms[s] => Members(rooms[s], x) = {}
  BY DEF Members
<1>5. M \in SUBSET Room
  BY <1>0
<1>6. rooms' = [rooms EXCEPT ![s] = t] /\ mine' = [mine EXCEPT ![s][c] = M]
  BY <1>0 DEF leave
<1>7. \A x \in Room : /\ c \in Members(t, x) <=> x \in M
                      /\ \A d \in Client \ {c} :
                           d \in Members(t, x) <=> d \in Members(rooms[s], x)
  BY <1>2, <1>3, <1>4
<1> HIDE DEF t, M
<1>8. ReplacesTable(s, c, t, M)
  BY <1>0, <1>1, <1>5, <1>6, <1>7 DEF ReplacesTable
<1> QED BY <1>8, OneTableInv

(* leaveAll empties both tables of the client and its own copies.          *)
LEMMA LeaveAllInv ==
  ASSUME HubInv, NEW c \in Client, leaveAll(c)
  PROVE  HubInv'
<1>0. /\ stage[c] = "open" /\ UNCHANGED <<clients, closed, answer>>
      /\ stage' = [stage EXCEPT ![c] = "closing"]
      /\ rooms \in [Scope -> Tables] /\ mine \in [Scope -> [Client -> SUBSET Room]]
      /\ stage \in [Client -> Stage]
  BY DEF leaveAll, HubInv, HubTypeOK
<1>1. ASSUME NEW s \in Scope
      PROVE  /\ rooms[s] \in Tables
             /\ rooms'[s] = Removed(rooms[s], c, mine[s][c])
             /\ \A x : x \notin DOMAIN rooms[s] => Members(rooms[s], x) = {}
             /\ \A d \in Client, x \in Room :
                  x \in mine[s][d] <=> d \in Members(rooms[s], x)
             /\ \A d \in Client \ {c} : mine'[s][d] = mine[s][d]
             /\ mine'[s][c] = mine[s][c] \ DOMAIN rooms[s]
             /\ mine[s][c] \in SUBSET Room
  BY <1>0 DEF leaveAll, Members, HubInv, Mirrored
<1>2. ASSUME NEW s \in Scope
      PROVE  /\ GoodTable(rooms'[s], MaxRooms[s], MaxClients[s])
             /\ rooms'[s] \in Tables
  <2>1. GoodTable(rooms[s], MaxRooms[s], MaxClients[s])
    BY DEF HubInv, GoodTables
  <2>2. GoodTable(rooms'[s], MaxRooms[s], MaxClients[s])
    BY <1>1, <2>1, LimitsNat, RemovedGood
  <2> QED BY <2>2 DEF GoodTable
<1>3. ASSUME NEW s \in Scope
      PROVE  mine'[s][c] = {}
  BY <1>1
<1>4. HubTypeOK'
  <2>1. rooms' \in [Scope -> Tables]
    BY <1>2 DEF leaveAll
  <2>2. mine' \in [Scope -> [Client -> SUBSET Room]]
    BY <1>0 DEF leaveAll
  <2> QED BY <1>0, <2>1, <2>2 DEF HubInv, HubTypeOK, Stage
<1>5. GoodTables'
  BY <1>2 DEF GoodTables
<1>6. Mirrored'
  <2> SUFFICES ASSUME NEW s \in Scope, NEW d \in Client, NEW x \in Room
               PROVE  x \in mine'[s][d] <=> d \in Members(rooms'[s], x)
    BY DEF Mirrored
  <2>1. d \in Members(rooms'[s], x) <=>
          d \in Members(rooms[s], x) /\ ~(x \in mine[s][c] /\ d = c)
    BY <1>1, RemovedMembers
  <2>2. CASE d = c
    BY <1>1, <1>3, <2>1, <2>2
  <2>3. CASE d # c
    BY <1>1, <2>1, <2>3
  <2> QED BY <2>2, <2>3
<1>7. LifecycleAgrees'
  <2> SUFFICES ASSUME NEW d \in Client
               PROVE  /\ d \in clients <=> stage'[d] \in {"open", "closing"}
                      /\ d \in closed <=> stage'[d] = "closed"
                      /\ stage'[d] # "open" => \A z \in Scope : mine'[z][d] = {}
    BY <1>0 DEF LifecycleAgrees
  <2>1. CASE d = c
    BY <1>0, <1>3, <2>1 DEF HubInv, LifecycleAgrees
  <2>2. CASE d # c
    BY <1>0, <1>1, <2>2 DEF HubInv, LifecycleAgrees
  <2> QED BY <2>1, <2>2
<1> QED BY <1>4, <1>5, <1>6, <1>7 DEF HubInv

(* When unregister runs, leaveAll has already emptied the memberships, so  *)
(* its loops over both tables find nothing to delete.                      *)
LEMMA UnregisterInv ==
  ASSUME HubInv, NEW c \in Client, unregister(c)
  PROVE  HubInv'
<1>0. /\ stage[c] = "closing" /\ UNCHANGED <<mine, answer>>
      /\ stage' = [stage EXCEPT ![c] = "closed"]
      /\ rooms \in [Scope -> Tables] /\ mine \in [Scope -> [Client -> SUBSET Room]]
      /\ stage \in [Client -> Stage]
  BY DEF unregister, HubInv, HubTypeOK
<1>1. /\ c \in clients
      /\ clients' = clients \ {c}
      /\ closed' = closed \cup {c}
      /\ rooms' = [s \in Scope |->
                    Removed(rooms[s], c, {r \in DOMAIN rooms[s] : c \in rooms[s][r]})]
  BY <1>0 DEF unregister, HubInv, LifecycleAgrees
<1>2. ASSUME NEW s \in Scope
      PROVE  /\ GoodTable(rooms'[s], MaxRooms[s], MaxClients[s])
             /\ rooms'[s] \in Tables
             /\ \A x, d : d \in Members(rooms'[s], x) <=>
                            d \in Members(rooms[s], x) /\ d # c
  <2> DEFINE R == {r \in DOMAIN rooms[s] : c \in rooms[s][r]}
  <2>1. GoodTable(rooms[s], MaxRooms[s], MaxClients[s]) /\ rooms[s] \in Tables
    BY <1>0 DEF HubInv, GoodTables
  <2>2. rooms'[s] = Removed(rooms[s], c, R)
    BY <1>1
  <2>3. GoodTable(rooms'[s], MaxRooms[s], MaxClients[s])
    BY <2>1, <2>2, LimitsNat, RemovedGood
  <2>4. \A x, d : d \in Members(rooms'[s], x) <=>
                    d \in Members(rooms[s], x) /\ ~(x \in R /\ d = c)
    BY <2>1, <2>2, RemovedMembers
  <2>5. \A x : x \notin R => c \notin Members(rooms[s], x)
    BY DEF Members
  <2> QED BY <2>3, <2>4, <2>5 DEF GoodTable
<1>3. \A s \in Scope : mine[s][c] = {}
  BY <1>0 DEF HubInv, LifecycleAgrees
<1>4. HubTypeOK'
  <2>1. rooms' \in [Scope -> Tables]
    BY <1>1, <1>2
  <2> QED BY <1>0, <1>1, <2>1 DEF HubInv, HubTypeOK, Stage
<1>5. GoodTables'
  BY <1>2 DEF GoodTables
<1>6. Mirrored'
  BY <1>0, <1>2, <1>3 DEF HubInv, Mirrored
<1>7. LifecycleAgrees'
  BY <1>0, <1>1, <1>3 DEF HubInv, LifecycleAgrees
<1> QED BY <1>4, <1>5, <1>6, <1>7 DEF HubInv

(* Steps of others leave the invariant alone.                              *)
LEMMA HubStutterInv == HubInv /\ UNCHANGED hubVars => HubInv'
BY DEF HubInv, hubVars, HubTypeOK, GoodTables, Mirrored, LifecycleAgrees

(* Every step of the hub preserves the inductive invariant.                *)
LEMMA HubNextInv == HubInv /\ [HubNext]_hubVars => HubInv'
<1> SUFFICES ASSUME HubInv, HubNext PROVE HubInv'
  BY HubStutterInv
<1>1. PICK c \in Client :
        \/ register(c)
        \/ \E r \in Room \cup {NoTarget} :
             \/ joinArea(c, r)
             \/ joinChannel(c, r)
             \/ leaveArea(c, r)
             \/ leaveChannel(c, r)
        \/ leaveAll(c)
        \/ unregister(c)
  BY DEF HubNext
<1>2. CASE register(c)
  BY <1>2, RegisterInv
<1>3. ASSUME NEW r \in Room \cup {NoTarget}, joinArea(c, r) \/ joinChannel(c, r)
      PROVE  HubInv'
  <2>1. PICK s \in Scope : join(s, c, r)
    BY <1>3 DEF joinArea, joinChannel, Scope
  <2> QED BY <2>1, JoinInv
<1>4. ASSUME NEW r \in Room \cup {NoTarget}, leaveArea(c, r) \/ leaveChannel(c, r)
      PROVE  HubInv'
  <2>1. PICK s \in Scope : leave(s, c, r)
    BY <1>4 DEF leaveArea, leaveChannel, Scope
  <2> QED BY <2>1, LeaveInv
<1>5. CASE leaveAll(c)
  BY <1>5, LeaveAllInv
<1>6. CASE unregister(c)
  BY <1>6, UnregisterInv
<1> QED BY <1>1, <1>2, <1>3, <1>4, <1>5, <1>6

-----------------------------------------------------------------------------
(* What the inductive invariant implies.                                   *)

(* The inductive invariant contains or implies each invariant of the runs. *)
LEMMA HubInvImplies ==
  HubInv => HubTypeOK /\ Mirrored /\ NoEmptyRoom /\ WithinLimits
            /\ LifecycleAgrees /\ MembersCanReceive
<1> SUFFICES ASSUME HubInv
             PROVE  NoEmptyRoom /\ WithinLimits /\ MembersCanReceive
  BY DEF HubInv
<1>1. NoEmptyRoom
  BY DEF HubInv, GoodTables, GoodTable, NoEmptyRoom
<1>2. WithinLimits
  BY DEF HubInv, GoodTables, GoodTable, WithinLimits
<1>3. MembersCanReceive
  <2> SUFFICES ASSUME NEW s \in Scope, NEW r \in DOMAIN rooms[s],
                      NEW c \in rooms[s][r]
               PROVE  c \in clients /\ c \notin closed
    BY DEF MembersCanReceive
  <2>1. rooms[s] \in Tables
    BY DEF HubInv, HubTypeOK
  <2>2. r \in Room /\ c \in Client /\ c \in Members(rooms[s], r)
    BY <2>1, TableFacts DEF Members
  <2>3. r \in mine[s][c]
    BY <2>2 DEF HubInv, Mirrored
  <2> QED BY <2>2, <2>3 DEF HubInv, LifecycleAgrees
<1> QED BY <1>1, <1>2, <1>3

(* The inductive invariant holds in every reachable state of the hub.      *)
THEOREM HubInvariance == HubSpec => []HubInv
BY HubInitInv, HubNextInv, PTL DEF HubSpec

(* Type correctness of the hub.                                            *)
THEOREM HubTypeCorrect == HubSpec => []HubTypeOK
BY HubInvariance, HubInvImplies, PTL

(* The hub's tables and the clients' own copies of their memberships       *)
(* always agree, although every operation updates them separately.         *)
THEOREM HubMirrored == HubSpec => []Mirrored
BY HubInvariance, HubInvImplies, PTL

(* No operation leaves a room without members, so no slot of MAX_AREAS or  *)
(* MAX_CHANNELS is lost.                                                   *)
THEOREM HubNoEmptyRoom == HubSpec => []NoEmptyRoom
BY HubInvariance, HubInvImplies, PTL

(* The four limits of the configuration are respected, whatever they are.  *)
THEOREM HubWithinLimits == HubSpec => []WithinLimits
BY HubInvariance, HubInvImplies, PTL

(* A client is in the hub's map between register and unregister, and never *)
(* a member of anything after leaveAll.                                    *)
LEMMA HubLifecycle == HubSpec => []LifecycleAgrees
BY HubInvariance, HubInvImplies, PTL

(* A member of a room is registered and its queue is open.                 *)
THEOREM HubMembersCanReceive == HubSpec => []MembersCanReceive
BY HubInvariance, HubInvImplies, PTL
=============================================================================
