--------------------------- MODULE PresenceProofs --------------------------
(***************************************************************************)
(* The hub implements Presence for any sets of clients and rooms and any   *)
(* limits.  Under the hub's invariant the rooms of a table are exactly the *)
(* occupied rooms, so the answers of Presence, computed from the           *)
(* membership relation alone, are the answers of the tables.               *)
(***************************************************************************)
EXTENDS HubPresence, HubProofs

(* The refinement mapping, seen through membership.                        *)
LEMMA MemberOf ==
  ASSUME NEW s \in Scope, NEW c \in Client, NEW r \in Room
  PROVE  <<s, c, r>> \in memberOf <=> c \in Members(rooms[s], r)
BY DEF memberOf

(* The occupants of a room are its members in the table.                   *)
LEMMA OccupantsAre ==
  ASSUME HubInv, NEW s \in Scope, NEW r \in Room
  PROVE  P!Occupants(s, r) = Members(rooms[s], r)
<1>1. rooms[s] \in Tables
  BY DEF HubInv, HubTypeOK
<1>2. Members(rooms[s], r) \subseteq Client
  BY <1>1, MembersType
<1> QED BY <1>2, MemberOf DEF P!Occupants

(* The occupied rooms are exactly the rooms of the table: there are no     *)
(* empty ones.                                                             *)
LEMMA OccupiedAre ==
  ASSUME HubInv, NEW s \in Scope
  PROVE  P!Occupied(s) = DOMAIN rooms[s]
<1>1. DOMAIN rooms[s] \subseteq Room /\ \A r \in DOMAIN rooms[s] : rooms[s][r] # {}
  BY TableFacts DEF HubInv, HubTypeOK, GoodTables, GoodTable
<1>2. \A r \in Room : P!Occupants(s, r) # {} <=> r \in DOMAIN rooms[s]
  BY <1>1, OccupantsAre DEF Members
<1> QED BY <1>1, <1>2 DEF P!Occupied

(* Presence counts as the hub does.                                        *)
LEMMA SameCardinality ==
  ASSUME NEW S
  PROVE  P!Cardinality(S) = Cardinality(S)
BY DEF P!Cardinality, Cardinality

(* The two descriptions of a verdict agree.                                *)
LEMMA VerdictsAgree ==
  ASSUME HubInv, NEW s \in Scope, NEW c \in Client, NEW r \in Room
  PROVE  /\ P!TooManyRooms(s, r) <=> NoSlot(rooms[s], r, MaxRooms[s])
         /\ P!RoomFull(s, c, r) <=> /\ c \notin Members(rooms[s], r)
                                    /\ Full(rooms[s], r, MaxClients[s])
<1>1. P!Occupants(s, r) = {} <=> r \notin DOMAIN rooms[s]
  <2>1. r \in DOMAIN rooms[s] => rooms[s][r] # {}
    BY DEF HubInv, GoodTables, GoodTable
  <2> QED BY <2>1, OccupantsAre DEF Members
<1>2. P!TooManyRooms(s, r) <=> NoSlot(rooms[s], r, MaxRooms[s])
  BY <1>1, OccupiedAre, SameCardinality DEF P!TooManyRooms, NoSlot
<1>3. P!RoomFull(s, c, r) <=> /\ c \notin Members(rooms[s], r)
                              /\ Full(rooms[s], r, MaxClients[s])
  BY OccupantsAre, MemberOf, SameCardinality DEF P!RoomFull, Full
<1> QED BY <1>2, <1>3

-----------------------------------------------------------------------------
(* register is Connect.                                                    *)
LEMMA RegisterSim ==
  ASSUME HubInv, NEW c \in Client, register(c)
  PROVE  P!Connect(c)
<1>1. stage \in [Client -> Stage]
  BY DEF HubInv, HubTypeOK
<1>2. memberOf' = memberOf
  BY DEF register, memberOf
<1>3. {x \in Client : stage'[x] # "none"} = {x \in Client : stage[x] # "none"} \cup {c}
  BY <1>1 DEF register
<1> QED BY <1>1, <1>2, <1>3 DEF register, P!Connect

(* How the membership relation of a table changes when the table does.     *)
LEMMA MemberOfChanges ==
  ASSUME HubInv, NEW s \in Scope, NEW t, rooms' = [rooms EXCEPT ![s] = t],
         NEW z \in Scope, NEW d \in Client, NEW x \in Room
  PROVE  <<z, d, x>> \in memberOf' <=>
           IF z = s THEN d \in Members(t, x) ELSE <<z, d, x>> \in memberOf
<1>1. rooms \in [Scope -> Tables]
  BY DEF HubInv, HubTypeOK
<1>2. rooms'[z] = IF z = s THEN t ELSE rooms[z]
  BY <1>1
<1>3. <<z, d, x>> \in memberOf' <=> d \in Members(rooms'[z], x)
  BY DEF memberOf
<1>4. <<z, d, x>> \in memberOf <=> d \in Members(rooms[z], x)
  BY MemberOf
<1> QED BY <1>2, <1>3, <1>4

(* The mapped relation consists of scope, client, room triples.            *)
LEMMA Triples ==
  /\ memberOf \subseteq Scope \X Client \X Room
  /\ memberOf' \subseteq Scope \X Client \X Room
BY DEF memberOf

(* joinArea and joinChannel are Join, with the same verdict.               *)
LEMMA JoinSim ==
  ASSUME HubInv, NEW s \in Scope, NEW c \in Client, NEW r \in Room \cup {NoTarget},
         join(s, c, r)
  PROVE  P!Join(s, c, r)
<1>0. c \in clients /\ UNCHANGED <<clients, stage>>
      /\ rooms[s] \in Tables /\ MaxClients[s] \in Nat /\ rooms \in [Scope -> Tables]
  BY LimitsNat DEF join, HubInv, HubTypeOK, LifecycleAgrees
<1>1. ASSUME UNCHANGED rooms PROVE memberOf' = memberOf
  BY <1>1 DEF memberOf
<1>2. CASE joinWithoutTarget(s, c, r)
  BY <1>0, <1>1, <1>2 DEF joinWithoutTarget, Returns, P!Join, P!Verdict
<1>3. CASE joinNoSlot(s, c, r)
  BY <1>0, <1>1, <1>3, VerdictsAgree DEF joinNoSlot, Returns, P!Join, P!Verdict
<1>4. CASE joinAlready(s, c, r)
  <2>1. r \in Room /\ r # NoTarget /\ <<s, c, r>> \in memberOf
    BY <1>4, MemberOf DEF joinAlready
  <2>2. ~NoSlot(rooms[s], r, MaxRooms[s])
    BY <1>4 DEF joinAlready, NoSlot, Members
  <2>3. P!Verdict(s, c, r) = "ok"
    BY <1>4, <2>1, <2>2, VerdictsAgree DEF joinAlready, P!Verdict
  <2> QED BY <1>0, <1>1, <1>4, <2>1, <2>3 DEF joinAlready, Returns, P!Join
<1>5. CASE joinFull(s, c, r)
  <2>1. rooms' = rooms
    BY <1>0, <1>5, OpenedFull DEF joinFull
  <2>2. P!Verdict(s, c, r) = "full"
    BY <1>5, VerdictsAgree DEF joinFull, P!Verdict
  <2> QED BY <1>0, <1>1, <1>5, <2>1, <2>2 DEF joinFull, Returns, P!Join
<1>6. CASE joinAdmitted(s, c, r)
  <2> DEFINE t == Added(rooms[s], c, r)
  <2>1. r \in Room /\ r # NoTarget
    BY <1>6 DEF joinAdmitted
  <2>2. P!Verdict(s, c, r) = "ok"
    BY <1>6, <2>1, VerdictsAgree DEF joinAdmitted, P!Verdict
  <2>3. rooms' = [rooms EXCEPT ![s] = t]
    BY <1>6 DEF joinAdmitted
  <2>4. \A d, x : d \in Members(t, x) <=>
                    d \in Members(rooms[s], x) \/ (x = r /\ d = c)
    BY <1>0, <2>1, AddedMembers
  <2> HIDE DEF t
  <2>5. ASSUME NEW z \in Scope, NEW d \in Client, NEW x \in Room
        PROVE  <<z, d, x>> \in memberOf' <=>
                 <<z, d, x>> \in memberOf \/ (z = s /\ d = c /\ x = r)
    <3>1. <<z, d, x>> \in memberOf' <=>
            IF z = s THEN d \in Members(t, x) ELSE <<z, d, x>> \in memberOf
      BY <2>3, MemberOfChanges
    <3>2. <<z, d, x>> \in memberOf <=> d \in Members(rooms[z], x)
      BY MemberOf
    <3>3. CASE z = s
      BY <2>4, <3>1, <3>2, <3>3
    <3>4. CASE z # s
      BY <3>1, <3>4
    <3> QED BY <3>3, <3>4
  <2>6. memberOf' = memberOf \cup {<<s, c, r>>}
    BY <2>1, <2>5, Triples
  <2> QED BY <1>0, <1>6, <2>2, <2>6 DEF joinAdmitted, Returns, P!Join
<1> QED BY <1>2, <1>3, <1>4, <1>5, <1>6 DEF join

(* leaveArea and leaveChannel are Leave.                                   *)
LEMMA LeaveSim ==
  ASSUME HubInv, NEW s \in Scope, NEW c \in Client, NEW r \in Room \cup {NoTarget},
         leave(s, c, r)
  PROVE  P!Leave(s, c, r)
<1> DEFINE t == Removed(rooms[s], c, {r})
<1>0. c \in clients /\ UNCHANGED <<clients, stage, answer>>
      /\ rooms[s] \in Tables /\ rooms' = [rooms EXCEPT ![s] = t]
  BY DEF leave, HubInv, HubTypeOK, LifecycleAgrees
<1>1. \A d, x : d \in Members(t, x) <=>
                  d \in Members(rooms[s], x) /\ ~(x \in {r} /\ d = c)
  BY <1>0, RemovedMembers
<1> HIDE DEF t
<1>2. ASSUME NEW z \in Scope, NEW d \in Client, NEW x \in Room
      PROVE  <<z, d, x>> \in memberOf' <=>
               <<z, d, x>> \in memberOf /\ ~(z = s /\ d = c /\ x = r)
  BY <1>0, <1>1, MemberOfChanges, MemberOf
<1>3. memberOf' = memberOf \ {<<s, c, r>>}
  BY <1>2, Triples
<1> QED BY <1>0, <1>3 DEF P!Leave

(* leaveAll is LeaveAll.                                                   *)
LEMMA LeaveAllSim ==
  ASSUME HubInv, NEW c \in Client, leaveAll(c)
  PROVE  P!LeaveAll(c)
<1>0. c \in clients /\ UNCHANGED <<clients, answer>> /\ stage[c] = "open"
      /\ stage' = [stage EXCEPT ![c] = "closing"] /\ stage \in [Client -> Stage]
  BY DEF leaveAll, HubInv, HubTypeOK, LifecycleAgrees
<1>1. {x \in Client : stage'[x] # "none"} = {x \in Client : stage[x] # "none"}
  BY <1>0
<1>2. ASSUME NEW z \in Scope, NEW d \in Client, NEW x \in Room
      PROVE  <<z, d, x>> \in memberOf' <=> <<z, d, x>> \in memberOf /\ d # c
  <2>1. rooms[z] \in Tables /\ rooms'[z] = Removed(rooms[z], c, mine[z][c])
    BY DEF leaveAll, HubInv, HubTypeOK
  <2>2. x \in mine[z][c] <=> c \in Members(rooms[z], x)
    BY DEF HubInv, Mirrored
  <2>3. d \in Members(rooms'[z], x) <=> d \in Members(rooms[z], x) /\ d # c
    BY <2>1, <2>2, RemovedMembers
  <2>4. <<z, d, x>> \in memberOf' <=> d \in Members(rooms'[z], x)
    BY DEF memberOf
  <2> QED BY <2>3, <2>4, MemberOf
<1>3. memberOf' = memberOf \ {m \in memberOf : m[2] = c}
  BY <1>2, Triples
<1> QED BY <1>0, <1>1, <1>3 DEF P!LeaveAll, P!Of

(* unregister is GoOffline: no membership is left by then.                 *)
LEMMA UnregisterSim ==
  ASSUME HubInv, NEW c \in Client, unregister(c)
  PROVE  P!GoOffline(c)
<1>0. c \in clients /\ clients' = clients \ {c} /\ UNCHANGED <<mine, answer>>
      /\ stage[c] = "closing"
      /\ stage' = [stage EXCEPT ![c] = "closed"] /\ stage \in [Client -> Stage]
  BY DEF unregister, HubInv, HubTypeOK, LifecycleAgrees
<1>1. {x \in Client : stage'[x] # "none"} = {x \in Client : stage[x] # "none"}
  BY <1>0
<1>2. HubInv'
  BY UnregisterInv
<1>3. ASSUME NEW z \in Scope, NEW d \in Client, NEW x \in Room
      PROVE  <<z, d, x>> \in memberOf' <=> <<z, d, x>> \in memberOf
  <2>1. x \in mine[z][d] <=> d \in Members(rooms[z], x)
    BY DEF HubInv, Mirrored
  <2>2. x \in mine'[z][d] <=> d \in Members(rooms'[z], x)
    BY <1>2 DEF HubInv, Mirrored
  <2>3. <<z, d, x>> \in memberOf' <=> d \in Members(rooms'[z], x)
    BY DEF memberOf
  <2> QED BY <1>0, <2>1, <2>2, <2>3, MemberOf
<1>4. memberOf' = memberOf
  BY <1>3, Triples
<1>5. {m \in memberOf : m[2] = c} = {}
  <2>1. ASSUME NEW z \in Scope, NEW x \in Room
        PROVE  <<z, c, x>> \notin memberOf
    BY <1>0, MemberOf DEF HubInv, Mirrored, LifecycleAgrees
  <2> QED BY <2>1, Triples
<1> QED BY <1>0, <1>1, <1>4, <1>5 DEF P!GoOffline, P!Of

-----------------------------------------------------------------------------
(* The empty hub is the empty presence.                                    *)
LEMMA InitSim == HubInit => P!Init
<1> SUFFICES ASSUME HubInit PROVE P!Init
  OBVIOUS
<1>1. memberOf = {}
  BY DEF HubInit, memberOf, Members
<1>2. {c \in Client : stage[c] # "none"} = {}
  BY DEF HubInit
<1> QED BY <1>1, <1>2 DEF HubInit, P!Init, NoAnswer

(* Every step of the hub is a step of Presence or a stutter.               *)
LEMMA StepSim == HubInv /\ [HubNext]_hubVars => [P!Next]_P!vars
<1> SUFFICES ASSUME HubInv, [HubNext]_hubVars PROVE [P!Next]_P!vars
  OBVIOUS
<1>1. CASE UNCHANGED hubVars
  BY <1>1 DEF hubVars, P!vars, memberOf, Members
<1>2. ASSUME NEW c \in Client, register(c) PROVE P!Next
  BY <1>2, RegisterSim DEF P!Next
<1>3. ASSUME NEW c \in Client, NEW r \in Room \cup {NoTarget},
             joinArea(c, r) \/ joinChannel(c, r)
      PROVE  P!Next
  <2>1. PICK s \in Scope : join(s, c, r)
    BY <1>3 DEF joinArea, joinChannel, Scope
  <2> QED BY <2>1, JoinSim DEF P!Next
<1>4. ASSUME NEW c \in Client, NEW r \in Room \cup {NoTarget},
             leaveArea(c, r) \/ leaveChannel(c, r)
      PROVE  P!Next
  <2>1. PICK s \in Scope : leave(s, c, r)
    BY <1>4 DEF leaveArea, leaveChannel, Scope
  <2> QED BY <2>1, LeaveSim DEF P!Next
<1>5. ASSUME NEW c \in Client, leaveAll(c) PROVE P!Next
  BY <1>5, LeaveAllSim DEF P!Next
<1>6. ASSUME NEW c \in Client, unregister(c) PROVE P!Next
  BY <1>6, UnregisterSim DEF P!Next
<1> QED BY <1>1, <1>2, <1>3, <1>4, <1>5, <1>6 DEF HubNext

(* The hub implements Presence: rooms come and go with their members, and  *)
(* a join is answered as the occupancy says.                               *)
THEOREM HubImplementsPresence == HubSpec => ImplementsPresence
BY InitSim, StepSim, HubInvariance, PTL DEF HubSpec, ImplementsPresence, P!Spec
=============================================================================
