---------------------------- MODULE HubPresence ----------------------------
(***************************************************************************)
(* The hub's tables implement Presence.  The rooms of a table are hidden;  *)
(* only the membership relation they encode is seen.                       *)
(***************************************************************************)
EXTENDS Hub

memberOf ==
  {m \in Scope \X Client \X Room : m[2] \in Members(rooms[m[1]], m[3])}

P == INSTANCE Presence WITH
       online <- clients,
       used   <- {c \in Client : stage[c] # "none"},
       member <- memberOf,
       reply  <- answer

(* Every behaviour of the hub is, through memberOf, a behaviour of         *)
(* Presence: in particular a join is answered "max reached" or "full"      *)
(* exactly when the occupied rooms say so, whatever the maps contain.      *)
ImplementsPresence == P!Spec
=============================================================================
