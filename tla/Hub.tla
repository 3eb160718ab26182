-------------------------------- MODULE Hub --------------------------------
(***************************************************************************)
(* The membership tables of server/hub.go.  A Hub holds the registered     *)
(* clients and, for each of the two scopes (areas and channels), a map     *)
(* from the rooms that exist to the set of their members.  Every client    *)
(* keeps a second copy of its own memberships (c.areas, c.channels), which *)
(* inArea and inChannel consult.  Every operation below is one critical    *)
(* section of h.mu and is therefore one action.                            *)
(*                                                                         *)
(* hub.go spells out the area and the channel code separately; the two     *)
(* differ in the limits they read and in nothing else, so the actions take *)
(* the scope as a parameter.                                               *)
(***************************************************************************)
EXTENDS Naturals, FiniteSets

CONSTANTS
  Client,                \* connections; newClient issues each id once
  Room,                  \* non-empty area ids and channel keys
  NoTarget,              \* the empty target ""
  MaxAreas,              \* 0 = unlimited, for all four limits
  MaxClientsPerArea,
  MaxChannels,
  MaxClientsPerChannel

(* config.Validate rejects negative limits.                                *)
ASSUME HubAssumption ==
  /\ NoTarget \notin Room
  /\ MaxAreas \in Nat
  /\ MaxClientsPerArea \in Nat
  /\ MaxChannels \in Nat
  /\ MaxClientsPerChannel \in Nat

VARIABLES
  clients,   \* h.clients
  rooms,     \* h.areas and h.channels: scope -> (room that exists -> members)
  mine,      \* c.areas and c.channels: scope -> client -> rooms it is in
  closed,    \* clients whose send channel has been closed
  stage,     \* how far the goroutine of a client has come in its lifecycle
  answer     \* what the last call of joinArea or joinChannel returned

hubVars == <<clients, rooms, mine, closed, stage, answer>>

Scope == {"area", "channel"}

MaxRooms   == [s \in Scope |-> IF s = "area" THEN MaxAreas ELSE MaxChannels]
MaxClients == [s \in Scope |-> IF s = "area" THEN MaxClientsPerArea
                                             ELSE MaxClientsPerChannel]

(* Outcomes of a join; "ok" stands for the empty error string.             *)
Outcome == {"ok", "target required", "max reached", "full"}
NoAnswer == <<>>

(* The order in which wsHandler and readPump call the hub for one client:  *)
(* register, any number of joins and leaves, leaveAll, unregister.         *)
Stage == {"none", "open", "closing", "closed"}

-----------------------------------------------------------------------------
(* Operations on one table of rooms.                                       *)

(* The members of a room; none when the room does not exist (a nil map).   *)
Members(t, r) == IF r \in DOMAIN t THEN t[r] ELSE {}

(* A new room is refused when the table already holds max of them.         *)
NoSlot(t, r, max) ==
  r \notin DOMAIN t /\ max > 0 /\ Cardinality(DOMAIN t) >= max

(* Broken variant of Full: the 0 = unlimited convention is forgotten.      *)
FullWhenUnlimited(t, r, max) == Cardinality(Members(t, r)) >= max

(* Broken variant of Full: one member too many is let in.                  *)
FullTooLate(t, r, max) == max > 0 /\ Cardinality(Members(t, r)) > max

Full(t, r, max) == max > 0 /\ Cardinality(Members(t, r)) >= max

(* make() of the member set of a room that does not exist yet.             *)
Opened(t, r) == [x \in DOMAIN t \cup {r} |-> Members(t, x)]

Added(t, c, r) == [Opened(t, r) EXCEPT ![r] = @ \cup {c}]

(* Broken variant of Removed: emptied rooms stay in the table.             *)
RemovedKeepingRooms(t, c, R) ==
  [r \in DOMAIN t |-> IF r \in R THEN t[r] \ {c} ELSE t[r]]

(* delete(set, c) in every room of R, then deletion of the emptied ones.   *)
Removed(t, c, R) ==
  [r \in {x \in DOMAIN t : x \in R => t[x] \ {c} # {}}
     |-> IF r \in R THEN t[r] \ {c} ELSE t[r]]

-----------------------------------------------------------------------------
(* The critical sections.                                                  *)

HubInit ==
  /\ clients = {}
  /\ rooms   = [s \in Scope |-> [r \in {} |-> {}]]
  /\ mine    = [s \in Scope |-> [c \in Client |-> {}]]
  /\ closed  = {}
  /\ stage   = [c \in Client |-> "none"]
  /\ answer  = NoAnswer

register(c) ==
  /\ stage[c] = "none"
  /\ clients' = clients \cup {c}
  /\ stage'   = [stage EXCEPT ![c] = "open"]
  /\ UNCHANGED <<rooms, mine, closed, answer>>

Returns(c, outcome) == answer' = <<c, outcome>>

(* The early return before the lock is taken.                              *)
joinWithoutTarget(s, c, r) ==
  /\ r = NoTarget
  /\ Returns(c, "target required")
  /\ UNCHANGED <<rooms, mine>>

joinNoSlot(s, c, r) ==
  /\ r # NoTarget
  /\ NoSlot(rooms[s], r, MaxRooms[s])
  /\ Returns(c, "max reached")
  /\ UNCHANGED <<rooms, mine>>

joinAlready(s, c, r) ==
  /\ r # NoTarget
  /\ c \in Members(rooms[s], r)
  /\ Returns(c, "ok")
  /\ UNCHANGED <<rooms, mine>>

(* The room is put into the table before the member limit is looked at.    *)
joinFull(s, c, r) ==
  /\ r # NoTarget
  /\ ~NoSlot(rooms[s], r, MaxRooms[s])
  /\ c \notin Members(rooms[s], r)
  /\ Full(rooms[s], r, MaxClients[s])
  /\ Returns(c, "full")
  /\ rooms' = [rooms EXCEPT ![s] = Opened(@, r)]
  /\ UNCHANGED mine

(* Broken variant of joinAdmitted: the client's own copy is not updated.   *)
joinAdmittedOneSided(s, c, r) ==
  /\ r # NoTarget
  /\ ~NoSlot(rooms[s], r, MaxRooms[s])
  /\ c \notin Members(rooms[s], r)
  /\ ~Full(rooms[s], r, MaxClients[s])
  /\ Returns(c, "ok")
  /\ rooms' = [rooms EXCEPT ![s] = Added(@, c, r)]
  /\ UNCHANGED mine

(* Broken variant of joinAdmitted: the empty target is taken for a room.   *)
joinAdmittedAnyTarget(s, c, r) ==
  /\ ~NoSlot(rooms[s], r, MaxRooms[s])
  /\ c \notin Members(rooms[s], r)
  /\ ~Full(rooms[s], r, MaxClients[s])
  /\ Returns(c, "ok")
  /\ rooms' = [rooms EXCEPT ![s] = Added(@, c, r)]
  /\ mine'  = [mine EXCEPT ![s][c] = @ \cup {r}]

joinAdmitted(s, c, r) ==
  /\ r # NoTarget
  /\ ~NoSlot(rooms[s], r, MaxRooms[s])
  /\ c \notin Members(rooms[s], r)
  /\ ~Full(rooms[s], r, MaxClients[s])
  /\ Returns(c, "ok")
  /\ rooms' = [rooms EXCEPT ![s] = Added(@, c, r)]
  /\ mine'  = [mine EXCEPT ![s][c] = @ \cup {r}]

join(s, c, r) ==
  /\ stage[c] = "open"
  /\ \/ joinWithoutTarget(s, c, r)
     \/ joinNoSlot(s, c, r)
     \/ joinAlready(s, c, r)
     \/ joinFull(s, c, r)
     \/ joinAdmitted(s, c, r)
  /\ UNCHANGED <<clients, closed, stage>>

joinArea(c, area)   == join("area", c, area)
joinChannel(c, key) == join("channel", c, key)

(* leaveAreaLocked and leaveChannelLocked: nothing happens, not even to    *)
(* the client's own copy, when the room does not exist.                    *)
leave(s, c, r) ==
  /\ stage[c] = "open"
  /\ rooms' = [rooms EXCEPT ![s] = Removed(@, c, {r})]
  /\ mine'  = [mine EXCEPT ![s][c] = @ \ ({r} \cap DOMAIN rooms[s])]
  /\ UNCHANGED <<clients, closed, stage, answer>>

leaveArea(c, area)   == leave("area", c, area)
leaveChannel(c, key) == leave("channel", c, key)

(* The loops over c.areas and c.channels, in one critical section.         *)
leaveAll(c) ==
  /\ stage[c] = "open"
  /\ rooms' = [s \in Scope |-> Removed(rooms[s], c, mine[s][c])]
  /\ mine'  = [s \in Scope |->
                 [mine[s] EXCEPT ![c] = @ \ DOMAIN rooms[s]]]
  /\ stage' = [stage EXCEPT ![c] = "closing"]
  /\ UNCHANGED <<clients, closed, answer>>

(* Broken variant of unregister: the send channel is closed and the client *)
(* forgotten while it is still a member somewhere.                         *)
unregisterOnly(c) ==
  /\ stage[c] \in {"open", "closing"}
  /\ clients' = clients \ {c}
  /\ closed'  = closed \cup {c}
  /\ stage'   = [stage EXCEPT ![c] = "closed"]
  /\ UNCHANGED <<rooms, mine, answer>>

(* The loops of unregister run over every room of both tables.  A second   *)
(* call for the same client would return at once.                          *)
unregister(c) ==
  /\ stage[c] = "closing"
  /\ IF c \in clients
     THEN /\ clients' = clients \ {c}
          /\ rooms'   = [s \in Scope |->
                           Removed(rooms[s], c,
                                   {r \in DOMAIN rooms[s] : c \in rooms[s][r]})]
          /\ closed'  = closed \cup {c}
     ELSE UNCHANGED <<clients, rooms, closed>>
  /\ stage' = [stage EXCEPT ![c] = "closed"]
  /\ UNCHANGED <<mine, answer>>

HubNext ==
  \E c \in Client :
    \/ register(c)
    \/ \E r \in Room \cup {NoTarget} :
         \/ joinArea(c, r)
         \/ joinChannel(c, r)
         \/ leaveArea(c, r)
         \/ leaveChannel(c, r)
    \/ leaveAll(c)
    \/ unregister(c)

HubSpec == HubInit /\ [][HubNext]_hubVars

-----------------------------------------------------------------------------
(* Queries, made under the read lock.                                      *)

getByID(c) == c \in clients
inRoom(s, c, r) == r \in mine[s][c]

(* Broken variant of Recipients: the sender gets its own broadcast.        *)
RecipientsAndSender(s, r, exclude) == Members(rooms[s], r)

(* Who broadcastArea and broadcastChannel deliver to, the sender excluded. *)
Recipients(s, r, exclude) == Members(rooms[s], r) \ {exclude}

-----------------------------------------------------------------------------
Tables == UNION {[R -> SUBSET Client] : R \in SUBSET Room}

(* The values the hub's variables take.                                    *)
HubTypeOK ==
  /\ clients \subseteq Client
  /\ rooms \in [Scope -> Tables]
  /\ mine \in [Scope -> [Client -> SUBSET Room]]
  /\ closed \subseteq Client
  /\ stage \in [Client -> Stage]
  /\ answer \in (Client \X Outcome) \cup {NoAnswer}

(* The two copies of the membership relation agree: inArea and inChannel   *)
(* read c.areas and c.channels, broadcasts read h.areas and h.channels.    *)
Mirrored ==
  \A s \in Scope, c \in Client, r \in Room :
    r \in mine[s][c] <=> c \in Members(rooms[s], r)

(* joinArea creates the room before it looks at the member limit, and      *)
(* three operations remove members; none leaves a room without members     *)
(* behind, which would use up MAX_AREAS or MAX_CHANNELS for ever.          *)
NoEmptyRoom ==
  \A s \in Scope : \A r \in DOMAIN rooms[s] : rooms[s][r] # {}

(* MAX_AREAS, MAX_CHANNELS, MAX_CLIENTS_PER_AREA, MAX_CLIENTS_PER_CHANNEL. *)
WithinLimits ==
  \A s \in Scope :
    /\ MaxRooms[s] > 0 => Cardinality(DOMAIN rooms[s]) <= MaxRooms[s]
    /\ MaxClients[s] > 0 =>
         \A r \in DOMAIN rooms[s] : Cardinality(rooms[s][r]) <= MaxClients[s]

(* Whoever is a member of a room is registered and its send channel is     *)
(* open: a broadcast, which holds the read lock and sends to the members   *)
(* without a further check, cannot send on a closed channel.               *)
MembersCanReceive ==
  \A s \in Scope : \A r \in DOMAIN rooms[s] :
    rooms[s][r] \subseteq clients \ closed
=============================================================================
