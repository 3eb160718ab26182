------------------------------ MODULE Channels ------------------------------
(***************************************************************************)
(* How a client names a channel.  A request carries a channel_kind and a   *)
(* target; hub.go files the channel under the single string "kind:target". *)
(* The hub of module Hub sees only those keys; this module drives it with  *)
(* the pairs the clients use and remembers what the clients were told.     *)
(*                                                                         *)
(* A string is a sequence of characters here, because the question is      *)
(* which strings coincide.  Requests for areas change nothing in the table *)
(* of channels and are left out.                                           *)
(***************************************************************************)
EXTENDS Hub, Sequences

CONSTANTS
  Char,     \* characters
  Colon,    \* the separator of channelKey
  Kind,     \* the channel_kinds clients use; "" is one more
  Id,       \* the targets clients use; NoTarget is one more
  Custom    \* ChannelCustom, the kind meant by ""

VARIABLE asked   \* <<client, kind, target>> a client was told it is in

channelsVars == <<hubVars, asked>>

(* Broken variant of channelKey: the separator is missing.                 *)
channelKeyUnseparated(kind, id) == kind \o id

channelKey(kind, id) == kind \o <<Colon>> \o id

ASSUME ChannelsAssumption ==
  /\ Colon \in Char
  /\ NoTarget = <<>>
  /\ Kind \subseteq Seq(Char) \ {<<>>}
  /\ Id \subseteq Seq(Char) \ {<<>>}
  /\ Custom \in Kind
  /\ \A k \in Kind, i \in Id : channelKey(k, i) \in Room

(* No kind contains the separator.  The code does not check this.          *)
KindsAreColonFree == \A k \in Kind : \A n \in DOMAIN k : k[n] # Colon

(* Broken variant of kindOf: a missing kind is taken as it is.             *)
kindAsGiven(k) == k

kindOf(k) == IF k = <<>> THEN Custom ELSE k

-----------------------------------------------------------------------------
ChannelsInit ==
  /\ HubInit
  /\ asked = {}

connect(c) ==
  /\ register(c)
  /\ UNCHANGED asked

(* routeJoin, scope channel; an empty target is refused by joinChannel.    *)
requestJoin(c, k, i) ==
  /\ joinChannel(c, IF i = NoTarget THEN NoTarget ELSE channelKey(kindOf(k), i))
  /\ asked' = IF answer' = <<c, "ok">>
              THEN asked \cup {<<c, kindOf(k), i>>} ELSE asked

(* routeLeave, scope channel: "left" is the answer in every case.          *)
requestLeave(c, k, i) ==
  /\ leaveChannel(c, channelKey(kindOf(k), i))
  /\ asked' = asked \ {<<c, kindOf(k), i>>}

disconnect(c) ==
  /\ leaveAll(c)
  /\ asked' = {a \in asked : a[1] # c}

forget(c) ==
  /\ unregister(c)
  /\ UNCHANGED asked

ChannelsNext ==
  \E c \in Client :
    \/ connect(c)
    \/ \E k \in Kind \cup {<<>>}, i \in Id \cup {NoTarget} :
         requestJoin(c, k, i) \/ requestLeave(c, k, i)
    \/ disconnect(c)
    \/ forget(c)

ChannelsSpec == ChannelsInit /\ [][ChannelsNext]_channelsVars

-----------------------------------------------------------------------------
(* What clients were told names a kind and a target; in particular a       *)
(* request without a kind is answered in the name of the kind "custom".    *)
ChannelsTypeOK == asked \subseteq Client \X Kind \X Id

(* A message sent to a kind and a target reaches the clients that were     *)
(* told they are in that kind and target, and nobody else (README.md,      *)
(* section 5.3: only members of the same kind and target receive).         *)
ExactAudience ==
  \A k \in Kind, i \in Id :
    Members(rooms["channel"], channelKey(k, i))
      = {c \in Client : <<c, k, i>> \in asked}
=============================================================================
