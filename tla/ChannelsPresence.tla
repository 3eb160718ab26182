-------------------------- MODULE ChannelsPresence --------------------------
(***************************************************************************)
(* Channels named by a kind and a target implement Presence with these     *)
(* pairs for rooms.  The hub has strings for keys; what a client was told  *)
(* is seen instead.                                                        *)
(***************************************************************************)
EXTENDS Channels

told == {<<"channel", a[1], <<a[2], a[3]>>>> : a \in asked}

Named == INSTANCE Presence WITH
           Room   <- Kind \X Id,
           Scope  <- {"channel"},
           online <- clients,
           used   <- {c \in Client : stage[c] # "none"},
           member <- told,
           reply  <- answer

(* No client can tell that channelKey makes one string of a kind and a     *)
(* target: every request is answered, and MAX_CHANNELS and                 *)
(* MAX_CLIENTS_PER_CHANNEL are counted, as if the pairs were the keys.     *)
(* It holds as long as no kind contains the colon (KindsAreColonFree).     *)
KeysAreInvisible == Named!Spec
=============================================================================
