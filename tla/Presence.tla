------------------------------ MODULE Presence ------------------------------
(***************************************************************************)
(* What the hub promises, without its tables: who is online, who is in     *)
(* which room, and how a request to join is answered.  A room exists       *)
(* exactly as long as somebody is in it; the answer to a join depends on   *)
(* the occupied rooms and on nothing else; going offline ends every        *)
(* membership; an id that went offline never comes back.                   *)
(***************************************************************************)
EXTENDS Naturals, FiniteSets

CONSTANTS Client, Room, NoTarget, Scope, MaxRooms, MaxClients

VARIABLES online, used, member, reply

vars == <<online, used, member, reply>>

Occupants(s, r) == {c \in Client : <<s, c, r>> \in member}
Occupied(s)     == {r \in Room : Occupants(s, r) # {}}
Of(c)           == {m \in member : m[2] = c}

Init ==
  /\ online = {}
  /\ used = {}
  /\ member = {}
  /\ reply = <<>>

Connect(c) ==
  /\ c \notin used
  /\ used' = used \cup {c}
  /\ online' = online \cup {c}
  /\ UNCHANGED <<member, reply>>

(* The verdict on a request to join, as a function of the occupancy.       *)
TooManyRooms(s, r) ==
  /\ Occupants(s, r) = {}
  /\ MaxRooms[s] > 0
  /\ Cardinality(Occupied(s)) >= MaxRooms[s]

RoomFull(s, c, r) ==
  /\ <<s, c, r>> \notin member
  /\ MaxClients[s] > 0
  /\ Cardinality(Occupants(s, r)) >= MaxClients[s]

Verdict(s, c, r) ==
  IF r = NoTarget THEN "target required"
  ELSE IF TooManyRooms(s, r) THEN "max reached"
  ELSE IF RoomFull(s, c, r) THEN "full"
  ELSE "ok"

Join(s, c, r) ==
  /\ c \in online
  /\ reply' = <<c, Verdict(s, c, r)>>
  /\ member' = IF Verdict(s, c, r) = "ok"
               THEN member \cup {<<s, c, r>>} ELSE member
  /\ UNCHANGED <<online, used>>

Leave(s, c, r) ==
  /\ c \in online
  /\ member' = member \ {<<s, c, r>>}
  /\ UNCHANGED <<online, used, reply>>

(* Memberships end first, presence ends later.                             *)
LeaveAll(c) ==
  /\ c \in online
  /\ member' = member \ Of(c)
  /\ UNCHANGED <<online, used, reply>>

GoOffline(c) ==
  /\ c \in online
  /\ Of(c) = {}
  /\ online' = online \ {c}
  /\ UNCHANGED <<used, member, reply>>

Next ==
  \E c \in Client :
    \/ Connect(c)
    \/ \E s \in Scope, r \in Room \cup {NoTarget} :
         Join(s, c, r) \/ Leave(s, c, r)
    \/ LeaveAll(c)
    \/ GoOffline(c)

Spec == Init /\ [][Next]_vars
=============================================================================
