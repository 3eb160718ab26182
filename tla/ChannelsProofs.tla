--------------------------- MODULE ChannelsProofs ---------------------------
(***************************************************************************)
(* channelKey is unambiguous as long as no kind contains the separator,    *)
(* whatever the targets contain, and then the audience of a channel is     *)
(* exact, and the hub with its keys implements Presence with the pairs of  *)
(* kind and target for rooms.  Without that assumption the audience is not *)
(* exact: run channels_colon.                                              *)
(***************************************************************************)
EXTENDS ChannelsPresence, PresenceProofs, SequenceTheorems

(* The key determines the kind and the target: the first colon of the key  *)
(* is the separator.                                                       *)
LEMMA KeyDeterminesBoth ==
  ASSUME NEW k1 \in Seq(Char), NEW k2 \in Seq(Char),
         NEW i1 \in Seq(Char), NEW i2 \in Seq(Char),
         \A n \in DOMAIN k1 : k1[n] # Colon,
         \A n \in DOMAIN k2 : k2[n] # Colon,
         channelKey(k1, i1) = channelKey(k2, i2)
  PROVE  k1 = k2 /\ i1 = i2
<1> DEFINE w1 == channelKey(k1, i1)
           w2 == channelKey(k2, i2)
<1>1. ASSUME NEW k \in Seq(Char), NEW i \in Seq(Char)
      PROVE  /\ Len(channelKey(k, i)) = Len(k) + 1 + Len(i)
             /\ \A n \in 1 .. Len(k) : channelKey(k, i)[n] = k[n]
             /\ channelKey(k, i)[Len(k) + 1] = Colon
             /\ \A n \in 1 .. Len(i) : channelKey(k, i)[Len(k) + 1 + n] = i[n]
  <2>1. Colon \in Char
    BY ChannelsAssumption
  <2>2. /\ k \o <<Colon>> \in Seq(Char)
        /\ Len(k \o <<Colon>>) = Len(k) + 1
        /\ \A n \in 1 .. Len(k) : (k \o <<Colon>>)[n] = k[n]
        /\ (k \o <<Colon>>)[Len(k) + 1] = Colon
    BY <2>1
  <2> QED BY <2>2 DEF channelKey
<1>2. Len(k1) \in Nat /\ Len(k2) \in Nat /\ Len(i1) \in Nat /\ Len(i2) \in Nat
  OBVIOUS
<1>3. ~(Len(k1) < Len(k2))
  <2> SUFFICES ASSUME Len(k1) < Len(k2) PROVE FALSE
    OBVIOUS
  <2>1. Len(k1) + 1 \in 1 .. Len(k2)
    BY <1>2
  <2>2. w2[Len(k1) + 1] = k2[Len(k1) + 1]
    BY <1>1, <2>1
  <2>3. w1[Len(k1) + 1] = Colon
    BY <1>1
  <2> QED BY <2>1, <2>2, <2>3
<1>4. ~(Len(k2) < Len(k1))
  <2> SUFFICES ASSUME Len(k2) < Len(k1) PROVE FALSE
    OBVIOUS
  <2>1. Len(k2) + 1 \in 1 .. Len(k1)
    BY <1>2
  <2>2. w1[Len(k2) + 1] = k1[Len(k2) + 1]
    BY <1>1, <2>1
  <2>3. w2[Len(k2) + 1] = Colon
    BY <1>1
  <2> QED BY <2>1, <2>2, <2>3
<1>5. Len(k1) = Len(k2)
  BY <1>2, <1>3, <1>4
<1>6. Len(i1) = Len(i2)
  <2>1. /\ Len(channelKey(k1, i1)) = Len(k1) + 1 + Len(i1)
        /\ Len(channelKey(k2, i2)) = Len(k2) + 1 + Len(i2)
    BY <1>1
  <2>2. Len(k1) + 1 + Len(i1) = Len(k2) + 1 + Len(i2)
    BY <2>1
  <2> QED BY <1>2, <1>5, <2>2
<1>7. \A n \in 1 .. Len(k1) : k1[n] = k2[n]
  <2> TAKE n \in 1 .. Len(k1)
  <2>1. n \in 1 .. Len(k2)
    BY <1>5
  <2>2. channelKey(k1, i1)[n] = k1[n]
    BY <1>1
  <2>3. channelKey(k2, i2)[n] = k2[n]
    BY <1>1, <2>1
  <2> QED BY <2>2, <2>3
<1>8. \A n \in 1 .. Len(i1) : i1[n] = i2[n]
  <2> TAKE n \in 1 .. Len(i1)
  <2>1. n \in 1 .. Len(i2)
    BY <1>6
  <2>2. channelKey(k1, i1)[Len(k1) + 1 + n] = i1[n]
    BY <1>1
  <2>3. channelKey(k2, i2)[Len(k2) + 1 + n] = i2[n]
    BY <1>1, <2>1
  <2> QED BY <1>5, <2>2, <2>3
<1>9. k1 = k2
  BY <1>5, <1>7, SeqEqual
<1>10. i1 = i2
  BY <1>6, <1>8, SeqEqual
<1> QED BY <1>9, <1>10

(* The same for the kinds and targets the clients use.                     *)
LEMMA KeysDiffer ==
  ASSUME KindsAreColonFree,
         NEW k1 \in Kind, NEW k2 \in Kind,
         NEW i1 \in Id \cup {NoTarget}, NEW i2 \in Id \cup {NoTarget}
  PROVE  channelKey(k1, i1) = channelKey(k2, i2) <=> k1 = k2 /\ i1 = i2
<1>1. /\ k1 \in Seq(Char) /\ k2 \in Seq(Char)
      /\ i1 \in Seq(Char) /\ i2 \in Seq(Char)
  BY ChannelsAssumption, EmptySeq
<1>2. /\ \A n \in DOMAIN k1 : k1[n] # Colon
      /\ \A n \in DOMAIN k2 : k2[n] # Colon
  BY DEF KindsAreColonFree
<1>3. channelKey(k1, i1) = channelKey(k2, i2) => k1 = k2 /\ i1 = i2
  BY <1>1, <1>2, KeyDeterminesBoth
<1> QED BY <1>3

-----------------------------------------------------------------------------
(* ExactAudience as a statement about one client at a time.                *)
Told ==
  \A c \in Client, k \in Kind, i \in Id :
    c \in Members(rooms["channel"], channelKey(k, i)) <=> <<c, k, i>> \in asked

(* The inductive invariant.                                                *)
ChannelsInv == HubInv /\ ChannelsTypeOK /\ Told

(* kindOf yields a kind.                                                   *)
LEMMA KindOfType ==
  ASSUME NEW k \in Kind \cup {<<>>}
  PROVE  kindOf(k) \in Kind
BY ChannelsAssumption DEF kindOf

(* What a granted join and a refused one do to the members of channels.    *)
LEMMA JoinMembers ==
  ASSUME HubInv, NEW c \in Client, NEW r \in Room \cup {NoTarget},
         joinChannel(c, r)
  PROVE  \A d, x : d \in Members(rooms'["channel"], x) <=>
           \/ d \in Members(rooms["channel"], x)
           \/ answer' = <<c, "ok">> /\ d = c /\ x = r
<1> DEFINE t == rooms["channel"]
<1>0. /\ rooms \in [Scope -> Tables] /\ t \in Tables
      /\ "channel" \in Scope /\ MaxClients["channel"] \in Nat
  BY LimitsNat DEF HubInv, HubTypeOK, Scope
<1>1. CASE joinWithoutTarget("channel", c, r) \/ joinNoSlot("channel", c, r)
  <2>1. rooms' = rooms
    BY <1>1 DEF joinWithoutTarget, joinNoSlot
  <2>2. PICK o \in {"target required", "max reached"} : answer' = <<c, o>>
    BY <1>1 DEF joinWithoutTarget, joinNoSlot, Returns
  <2>3. answer' # <<c, "ok">>
    BY <2>2
  <2> QED BY <2>1, <2>3
<1>2. CASE joinAlready("channel", c, r)
  BY <1>2 DEF joinAlready
<1>3. CASE joinFull("channel", c, r)
  <2>1. Opened(t, r) = t
    BY <1>0, <1>3, OpenedFull DEF joinFull
  <2>2. answer' # <<c, "ok">> /\ rooms'["channel"] = t
    BY <1>0, <1>3, <2>1 DEF joinFull, Returns
  <2> QED BY <2>2
<1>4. CASE joinAdmitted("channel", c, r)
  <2>1. /\ r \in Room /\ answer' = <<c, "ok">>
        /\ rooms'["channel"] = Added(t, c, r)
    BY <1>0, <1>4 DEF joinAdmitted, Returns
  <2>2. \A d, x : d \in Members(Added(t, c, r), x) <=>
                    d \in Members(t, x) \/ (x = r /\ d = c)
    BY <1>0, <2>1, AddedMembers
  <2> QED BY <2>1, <2>2
<1> QED BY <1>1, <1>2, <1>3, <1>4 DEF joinChannel, join

(* Granting a request adds the client to the channel it named and to no    *)
(* other.                                                                  *)
LEMMA RequestJoinInv ==
  ASSUME KindsAreColonFree, ChannelsInv, NEW c \in Client,
         NEW k \in Kind \cup {<<>>}, NEW i \in Id \cup {NoTarget},
         requestJoin(c, k, i)
  PROVE  ChannelsInv'
<1> DEFINE kk == kindOf(k)
<1> DEFINE r == IF i = NoTarget THEN NoTarget ELSE channelKey(kk, i)
<1>0. kk \in Kind
  BY KindOfType
<1>1. r \in Room \cup {NoTarget} /\ joinChannel(c, r)
  BY <1>0, ChannelsAssumption DEF requestJoin
<1>2. HubInv'
  BY <1>1, JoinInv DEF ChannelsInv, joinChannel, Scope
<1>3. \A d, x : d \in Members(rooms'["channel"], x) <=>
           \/ d \in Members(rooms["channel"], x)
           \/ answer' = <<c, "ok">> /\ d = c /\ x = r
  BY <1>1, JoinMembers DEF ChannelsInv
<1>4. asked' = IF answer' = <<c, "ok">> THEN asked \cup {<<c, kk, i>>} ELSE asked
  BY DEF requestJoin
<1>5. answer' = <<c, "ok">> => i \in Id
  <2> SUFFICES ASSUME i = NoTarget PROVE answer' # <<c, "ok">>
    OBVIOUS
  <2>1. joinWithoutTarget("channel", c, NoTarget)
    BY <1>1 DEF joinChannel, join, joinNoSlot, joinAlready, joinFull,
                joinAdmitted
  <2> QED BY <2>1 DEF joinWithoutTarget, Returns
<1>6. ChannelsTypeOK'
  BY <1>0, <1>4, <1>5 DEF ChannelsInv, ChannelsTypeOK
<1>7. Told'
  <2> SUFFICES ASSUME NEW d \in Client, NEW k2 \in Kind, NEW i2 \in Id
               PROVE  d \in Members(rooms'["channel"], channelKey(k2, i2))
                        <=> <<d, k2, i2>> \in asked'
    BY DEF Told
  <2>1. d \in Members(rooms["channel"], channelKey(k2, i2))
          <=> <<d, k2, i2>> \in asked
    BY DEF ChannelsInv, Told
  <2>2. CASE answer' # <<c, "ok">>
    BY <1>3, <1>4, <2>1, <2>2
  <2>3. CASE answer' = <<c, "ok">>
    <3>1. i \in Id /\ i # NoTarget /\ r = channelKey(kk, i)
      BY <1>5, <2>3, ChannelsAssumption
    <3>2. channelKey(k2, i2) = r <=> k2 = kk /\ i2 = i
      BY <1>0, <3>1, KeysDiffer
    <3>3. <<d, k2, i2>> \in asked' <=>
            <<d, k2, i2>> \in asked \/ (d = c /\ k2 = kk /\ i2 = i)
      BY <1>4, <2>3
    <3> QED BY <1>3, <2>1, <2>3, <3>2, <3>3
  <2> QED BY <2>2, <2>3
<1> QED BY <1>2, <1>6, <1>7 DEF ChannelsInv

(* Leaving ends the membership that was named and no other.                *)
LEMMA RequestLeaveInv ==
  ASSUME KindsAreColonFree, ChannelsInv, NEW c \in Client,
         NEW k \in Kind \cup {<<>>}, NEW i \in Id \cup {NoTarget},
         requestLeave(c, k, i)
  PROVE  ChannelsInv'
<1> DEFINE kk == kindOf(k)
<1> DEFINE r == channelKey(kk, i)
<1>0. kk \in Kind
  BY KindOfType
<1>1. leave("channel", c, r) /\ "channel" \in Scope
  BY DEF requestLeave, leaveChannel, Scope
<1>2. HubInv'
  BY <1>1, LeaveInv DEF ChannelsInv
<1>3. rooms \in [Scope -> Tables] /\ rooms["channel"] \in Tables
  BY <1>1 DEF ChannelsInv, HubInv, HubTypeOK
<1>4. rooms'["channel"] = Removed(rooms["channel"], c, {r})
  BY <1>1, <1>3 DEF leave
<1>5. \A d, x : d \in Members(rooms'["channel"], x) <=>
                  d \in Members(rooms["channel"], x) /\ ~(x \in {r} /\ d = c)
  BY <1>3, <1>4, RemovedMembers
<1>6. asked' = asked \ {<<c, kk, i>>}
  BY DEF requestLeave
<1>7. ChannelsTypeOK'
  BY <1>6 DEF ChannelsInv, ChannelsTypeOK
<1>8. Told'
  <2> SUFFICES ASSUME NEW d \in Client, NEW k2 \in Kind, NEW i2 \in Id
               PROVE  d \in Members(rooms'["channel"], channelKey(k2, i2))
                        <=> <<d, k2, i2>> \in asked'
    BY DEF Told
  <2>1. d \in Members(rooms["channel"], channelKey(k2, i2))
          <=> <<d, k2, i2>> \in asked
    BY DEF ChannelsInv, Told
  <2>2. channelKey(k2, i2) = r <=> k2 = kk /\ i2 = i
    BY <1>0, KeysDiffer
  <2>3. <<d, k2, i2>> \in asked' <=>
          <<d, k2, i2>> \in asked /\ ~(d = c /\ k2 = kk /\ i2 = i)
    BY <1>6
  <2> QED BY <1>5, <2>1, <2>2, <2>3
<1> QED BY <1>2, <1>7, <1>8 DEF ChannelsInv

(* disconnect ends every membership of the client.                         *)
LEMMA DisconnectInv ==
  ASSUME ChannelsInv, NEW c \in Client, disconnect(c)
  PROVE  ChannelsInv'
<1>1. leaveAll(c) /\ asked' = {a \in asked : a[1] # c}
  BY DEF disconnect
<1>2. HubInv'
  BY <1>1, LeaveAllInv DEF ChannelsInv
<1>3. rooms["channel"] \in Tables
  BY DEF ChannelsInv, HubInv, HubTypeOK, Scope
<1>4. rooms'["channel"] = Removed(rooms["channel"], c, mine["channel"][c])
  BY <1>1 DEF leaveAll, Scope
<1>5. \A d, x : d \in Members(rooms'["channel"], x) <=>
                  d \in Members(rooms["channel"], x)
                    /\ ~(x \in mine["channel"][c] /\ d = c)
  BY <1>3, <1>4, RemovedMembers
<1>6. \A x \in Room : c \in Members(rooms["channel"], x)
                        => x \in mine["channel"][c]
  BY DEF ChannelsInv, HubInv, Mirrored, Scope
<1>7. ChannelsTypeOK'
  BY <1>1 DEF ChannelsInv, ChannelsTypeOK
<1>8. Told'
  <2> SUFFICES ASSUME NEW d \in Client, NEW k \in Kind, NEW i \in Id
               PROVE  d \in Members(rooms'["channel"], channelKey(k, i))
                        <=> <<d, k, i>> \in asked'
    BY DEF Told
  <2>1. d \in Members(rooms["channel"], channelKey(k, i)) <=> <<d, k, i>> \in asked
    BY DEF ChannelsInv, Told
  <2>2. <<d, k, i>> \in asked' <=> <<d, k, i>> \in asked /\ d # c
    BY <1>1
  <2>3. channelKey(k, i) \in Room
    BY ChannelsAssumption
  <2> QED BY <1>5, <1>6, <2>1, <2>2, <2>3
<1> QED BY <1>2, <1>7, <1>8 DEF ChannelsInv

(* When unregister runs the client is in no channel any more.              *)
LEMMA ForgetInv ==
  ASSUME ChannelsInv, NEW c \in Client, forget(c)
  PROVE  ChannelsInv'
<1>1. unregister(c) /\ asked' = asked
  BY DEF forget
<1>2. HubInv'
  BY <1>1, UnregisterInv DEF ChannelsInv
<1>3. \A x \in Room : /\ c \notin Members(rooms["channel"], x)
                      /\ c \notin Members(rooms'["channel"], x)
  <2>1. mine["channel"][c] = {} /\ mine' = mine
    BY <1>1 DEF unregister, ChannelsInv, HubInv, LifecycleAgrees, Scope
  <2> QED BY <1>2, <2>1 DEF ChannelsInv, HubInv, Mirrored, Scope
<1>4. rooms["channel"] \in Tables
  BY DEF ChannelsInv, HubInv, HubTypeOK, Scope
<1>5. \/ rooms' = rooms
      \/ rooms'["channel"] =
           Removed(rooms["channel"], c,
             {r \in DOMAIN rooms["channel"] : c \in rooms["channel"][r]})
  BY <1>1 DEF unregister, Scope
<1>6. \A d, x : d # c => (d \in Members(rooms'["channel"], x)
                            <=> d \in Members(rooms["channel"], x))
  BY <1>4, <1>5, RemovedMembers
<1>7. ChannelsTypeOK'
  BY <1>1 DEF ChannelsInv, ChannelsTypeOK
<1>8. Told'
  <2> SUFFICES ASSUME NEW d \in Client, NEW k \in Kind, NEW i \in Id
               PROVE  d \in Members(rooms'["channel"], channelKey(k, i))
                        <=> <<d, k, i>> \in asked
    BY <1>1 DEF Told
  <2>1. d \in Members(rooms["channel"], channelKey(k, i)) <=> <<d, k, i>> \in asked
    BY DEF ChannelsInv, Told
  <2>2. channelKey(k, i) \in Room
    BY ChannelsAssumption
  <2> QED BY <1>3, <1>6, <2>1, <2>2
<1> QED BY <1>2, <1>7, <1>8 DEF ChannelsInv

(* An empty hub, and nobody was told anything.                             *)
LEMMA ChannelsInitInv == ChannelsInit => ChannelsInv
<1> SUFFICES ASSUME ChannelsInit PROVE ChannelsInv
  OBVIOUS
<1>1. HubInv
  BY HubInitInv DEF ChannelsInit
<1>2. Told
  BY DEF ChannelsInit, HubInit, Scope, Members, Told
<1> QED BY <1>1, <1>2 DEF ChannelsInv, ChannelsInit, ChannelsTypeOK

(* Every step preserves the inductive invariant.                           *)
LEMMA ChannelsNextInv ==
  ASSUME KindsAreColonFree
  PROVE  ChannelsInv /\ [ChannelsNext]_channelsVars => ChannelsInv'
<1> SUFFICES ASSUME ChannelsInv, [ChannelsNext]_channelsVars
             PROVE  ChannelsInv'
  OBVIOUS
<1>1. CASE UNCHANGED channelsVars
  <2>1. HubInv'
    BY <1>1, HubStutterInv DEF channelsVars, ChannelsInv
  <2> QED BY <1>1, <2>1 DEF channelsVars, hubVars, ChannelsInv,
                            ChannelsTypeOK, Told
<1>2. ASSUME NEW c \in Client, connect(c)
      PROVE  ChannelsInv'
  <2>1. HubInv'
    BY <1>2, RegisterInv DEF connect, ChannelsInv
  <2> QED BY <1>2, <2>1 DEF connect, register, ChannelsInv, ChannelsTypeOK, Told
<1>3. ASSUME NEW c \in Client, NEW k \in Kind \cup {<<>>},
             NEW i \in Id \cup {NoTarget},
             requestJoin(c, k, i) \/ requestLeave(c, k, i)
      PROVE  ChannelsInv'
  BY <1>3, RequestJoinInv, RequestLeaveInv
<1>4. ASSUME NEW c \in Client, disconnect(c) \/ forget(c)
      PROVE  ChannelsInv'
  BY <1>4, DisconnectInv, ForgetInv
<1> QED BY <1>1, <1>2, <1>3, <1>4 DEF ChannelsNext

(* If no kind contains a colon, a channel message reaches exactly those    *)
(* who joined that kind and that target, for any targets, limits and       *)
(* number of clients.                                                      *)
THEOREM ExactAudienceIfColonFree ==
  ASSUME KindsAreColonFree
  PROVE  ChannelsSpec => []ExactAudience
<1>1. ChannelsInv => ExactAudience
  <2> SUFFICES ASSUME ChannelsInv, NEW k \in Kind, NEW i \in Id
               PROVE  Members(rooms["channel"], channelKey(k, i))
                        = {c \in Client : <<c, k, i>> \in asked}
    BY DEF ExactAudience
  <2>1. rooms["channel"] \in Tables
    BY DEF ChannelsInv, HubInv, HubTypeOK, Scope
  <2>2. Members(rooms["channel"], channelKey(k, i)) \subseteq Client
    BY <2>1, MembersType
  <2> QED BY <2>2 DEF ChannelsInv, Told
<1> QED BY <1>1, ChannelsInitInv, ChannelsNextInv, PTL DEF ChannelsSpec

-----------------------------------------------------------------------------
(* What clients are told names a kind and a target, colons or not: a join  *)
(* without a target is never granted.                                      *)
THEOREM ChannelsTypeCorrect == ChannelsSpec => []ChannelsTypeOK
<1>1. ChannelsInit => ChannelsTypeOK
  BY DEF ChannelsInit, ChannelsTypeOK
<1>2. ChannelsTypeOK /\ [ChannelsNext]_channelsVars => ChannelsTypeOK'
  <2> SUFFICES ASSUME ChannelsTypeOK, [ChannelsNext]_channelsVars
               PROVE  ChannelsTypeOK'
    OBVIOUS
  <2>1. ASSUME NEW c \in Client, NEW k \in Kind \cup {<<>>},
               NEW i \in Id \cup {NoTarget}, requestJoin(c, k, i)
        PROVE  ChannelsTypeOK'
    <3>1. kindOf(k) \in Kind
      BY KindOfType
    <3>2. CASE i = NoTarget
      <4>1. joinWithoutTarget("channel", c, NoTarget)
        BY <2>1, <3>2 DEF requestJoin, joinChannel, join, joinNoSlot,
                          joinAlready, joinFull, joinAdmitted
      <4>2. answer' # <<c, "ok">>
        BY <4>1 DEF joinWithoutTarget, Returns
      <4> QED BY <2>1, <4>2 DEF requestJoin, ChannelsTypeOK
    <3>3. CASE i \in Id
      BY <2>1, <3>1, <3>3 DEF requestJoin, ChannelsTypeOK
    <3> QED BY <3>2, <3>3
  <2>2. ASSUME NEW c \in Client,
               \/ connect(c) \/ disconnect(c) \/ forget(c)
               \/ \E k \in Kind \cup {<<>>}, i \in Id \cup {NoTarget} :
                    requestLeave(c, k, i)
        PROVE  ChannelsTypeOK'
    <3>1. asked' \subseteq asked
      BY <2>2 DEF connect, disconnect, forget, requestLeave
    <3> QED BY <3>1 DEF ChannelsTypeOK
  <2>3. CASE UNCHANGED channelsVars
    BY <2>3 DEF channelsVars, ChannelsTypeOK
  <2> QED BY <2>1, <2>2, <2>3 DEF ChannelsNext
<1> QED BY <1>1, <1>2, PTL DEF ChannelsSpec

-----------------------------------------------------------------------------
(* Every channel of the hub is filed under the key of a kind and a target. *)
(* Without this the keys could not be counted by counting the pairs.       *)
RoomsAreKeys ==
  \A r \in DOMAIN rooms["channel"] :
    \E k \in Kind, i \in Id : r = channelKey(k, i)

(* The invariant under which keys and pairs correspond.                    *)
NamedInv == ChannelsInv /\ RoomsAreKeys

(* A channel that appears is the one a request with a target named.        *)
LEMMA RoomsAreKeysStep ==
  ASSUME ChannelsInv, ChannelsInv', RoomsAreKeys, [ChannelsNext]_channelsVars
  PROVE  RoomsAreKeys'
<1> DEFINE t == rooms["channel"]
<1>0. t \in Tables /\ "channel" \in Scope
  BY DEF ChannelsInv, HubInv, HubTypeOK, Scope
<1>1. ASSUME NEW c \in Client, NEW k \in Kind \cup {<<>>},
             NEW i \in Id \cup {NoTarget}, requestJoin(c, k, i)
      PROVE  RoomsAreKeys'
  <2> DEFINE r == IF i = NoTarget THEN NoTarget ELSE channelKey(kindOf(k), i)
  <2>1. kindOf(k) \in Kind
    BY KindOfType
  <2>2. r \in Room \cup {NoTarget} /\ joinChannel(c, r)
    BY <1>1, <2>1, ChannelsAssumption DEF requestJoin
  <2>3. \A d, x : d \in Members(rooms'["channel"], x) <=>
                    \/ d \in Members(t, x)
                    \/ answer' = <<c, "ok">> /\ d = c /\ x = r
    BY <2>2, JoinMembers DEF ChannelsInv
  <2>4. rooms'["channel"] \in Tables
        /\ \A x \in DOMAIN rooms'["channel"] : rooms'["channel"][x] # {}
    BY <1>0 DEF ChannelsInv, HubInv, HubTypeOK, GoodTables, GoodTable
  <2>5. ASSUME NEW x \in DOMAIN rooms'["channel"]
        PROVE  x \in DOMAIN t \/ x = r
    <3>1. PICK d : d \in Members(rooms'["channel"], x)
      BY <2>4 DEF Members
    <3> QED BY <2>3, <3>1 DEF Members
  <2>6. NoTarget \notin DOMAIN rooms'["channel"]
    BY <2>4, TableFacts, HubAssumption
  <2>7. ASSUME NEW x \in DOMAIN rooms'["channel"]
        PROVE  \E k2 \in Kind, i2 \in Id : x = channelKey(k2, i2)
    <3>1. CASE x \in DOMAIN t
      BY <3>1 DEF RoomsAreKeys
    <3>2. CASE x = r
      <4>1. i \in Id /\ x = channelKey(kindOf(k), i)
        BY <2>6, <3>2
      <4> QED BY <2>1, <4>1
    <3> QED BY <2>5, <3>1, <3>2
  <2> QED BY <2>7 DEF RoomsAreKeys
<1>2. ASSUME DOMAIN rooms'["channel"] \subseteq DOMAIN t
      PROVE  RoomsAreKeys'
  BY <1>2 DEF RoomsAreKeys
<1>3. ASSUME NEW c \in Client, NEW k, NEW i, requestLeave(c, k, i)
      PROVE  RoomsAreKeys'
  <2>1. rooms'["channel"] = Removed(t, c, {channelKey(kindOf(k), i)})
    BY <1>0, <1>3
       DEF requestLeave, leaveChannel, leave, ChannelsInv, HubInv, HubTypeOK
  <2> QED BY <1>0, <1>2, <2>1, RemovedShape
<1>4. ASSUME NEW c \in Client, disconnect(c)
      PROVE  RoomsAreKeys'
  <2>1. rooms'["channel"] = Removed(t, c, mine["channel"][c])
    BY <1>0, <1>4 DEF disconnect, leaveAll
  <2> QED BY <1>0, <1>2, <2>1, RemovedShape
<1>5. ASSUME NEW c \in Client, forget(c)
      PROVE  RoomsAreKeys'
  <2>1. \/ rooms' = rooms
        \/ rooms'["channel"] =
             Removed(t, c, {r \in DOMAIN t : c \in t[r]})
    BY <1>0, <1>5 DEF forget, unregister
  <2> QED BY <1>0, <1>2, <2>1, RemovedShape
<1>6. CASE UNCHANGED rooms
  BY <1>2, <1>6
<1>7. ASSUME NEW c \in Client, connect(c)
      PROVE  UNCHANGED rooms
  BY <1>7 DEF connect, register
<1> QED BY <1>1, <1>3, <1>4, <1>5, <1>6, <1>7
        DEF ChannelsNext, channelsVars, hubVars

LEMMA NamedInvariance ==
  ASSUME KindsAreColonFree
  PROVE  ChannelsSpec => []NamedInv
<1>1. ChannelsInit => NamedInv
  BY ChannelsInitInv DEF NamedInv, RoomsAreKeys, ChannelsInit, HubInit, Scope
<1>2. NamedInv /\ [ChannelsNext]_channelsVars => NamedInv'
  BY ChannelsNextInv, RoomsAreKeysStep DEF NamedInv
<1> QED BY <1>1, <1>2, PTL DEF ChannelsSpec

-----------------------------------------------------------------------------
(* What told says of a client, a kind and a target.                        *)
LEMMA ToldAre ==
  ASSUME ChannelsTypeOK, NEW c, NEW k, NEW i
  PROVE  <<"channel", c, <<k, i>>>> \in told <=> <<c, k, i>> \in asked
BY DEF told, ChannelsTypeOK

(* What one more entry of asked adds to it.                                *)
LEMMA ToldGrows ==
  ASSUME NEW c, NEW k, NEW i, asked' = asked \cup {<<c, k, i>>}
  PROVE  told' = told \cup {<<"channel", c, <<k, i>>>>}
<1> DEFINE a == <<c, k, i>>
<1>1. a[1] = c /\ a[2] = k /\ a[3] = i
  OBVIOUS
<1> HIDE DEF a
<1>2. told' = told \cup {<<"channel", a[1], <<a[2], a[3]>>>>}
  BY DEF told, a
<1> QED BY <1>1, <1>2

(* Nothing else is in it.                                                  *)
LEMMA ToldType ==
  ASSUME ChannelsTypeOK
  PROVE  told \subseteq {"channel"} \X Client \X (Kind \X Id)
BY DEF told, ChannelsTypeOK

(* The occupants of a pair are the members of its key.                     *)
LEMMA NamedOccupants ==
  ASSUME ChannelsInv, NEW k \in Kind, NEW i \in Id
  PROVE  Named!Occupants("channel", <<k, i>>)
           = Members(rooms["channel"], channelKey(k, i))
<1>1. rooms["channel"] \in Tables
  BY DEF ChannelsInv, HubInv, HubTypeOK, Scope
<1>2. Members(rooms["channel"], channelKey(k, i)) \subseteq Client
  BY <1>1, MembersType
<1>3. \A c \in Client : <<"channel", c, <<k, i>>>> \in told
                          <=> c \in Members(rooms["channel"], channelKey(k, i))
  BY ToldAre DEF ChannelsInv, Told
<1> QED BY <1>2, <1>3 DEF Named!Occupants

(* There are as many occupied pairs as channels in the hub.                *)
LEMMA AsManyPairsAsKeys ==
  ASSUME KindsAreColonFree, NamedInv
  PROVE  Named!Cardinality(Named!Occupied("channel"))
           = Cardinality(DOMAIN rooms["channel"])
<1> DEFINE S == Named!Occupied("channel")
           T == DOMAIN rooms["channel"]
           f == [p \in S |-> channelKey(p[1], p[2])]
<1>1. IsFiniteSet(T) /\ \A r \in T : rooms["channel"][r] # {}
  BY DEF NamedInv, ChannelsInv, HubInv, GoodTables, GoodTable, Scope
<1>2. ASSUME NEW k \in Kind, NEW i \in Id
      PROVE  <<k, i>> \in S <=> channelKey(k, i) \in T
  <2>1. <<k, i>> \in S <=> Named!Occupants("channel", <<k, i>>) # {}
    BY DEF Named!Occupied
  <2> QED BY <1>1, <2>1, NamedOccupants DEF NamedInv, Members
<1>3. S \subseteq Kind \X Id
  BY DEF Named!Occupied
<1>4. \A p \in S : f[p] = channelKey(p[1], p[2]) /\ f[p] \in T
  <2> TAKE p \in S
  <2>1. PICK k \in Kind, i \in Id : p = <<k, i>>
    BY <1>3
  <2> QED BY <1>2, <2>1
<1>5. ASSUME NEW p \in S, NEW q \in S, f[p] = f[q]
      PROVE  p = q
  <2>1. PICK k1 \in Kind, i1 \in Id : p = <<k1, i1>>
    BY <1>3
  <2>2. PICK k2 \in Kind, i2 \in Id : q = <<k2, i2>>
    BY <1>3
  <2>3. channelKey(k1, i1) = channelKey(k2, i2)
    BY <1>4, <1>5, <2>1, <2>2
  <2> QED BY <2>1, <2>2, <2>3, KeysDiffer
<1>6. ASSUME NEW r \in T
      PROVE  \E p \in S : f[p] = r
  <2>1. PICK k \in Kind, i \in Id : r = channelKey(k, i)
    BY DEF NamedInv, RoomsAreKeys
  <2>2. <<k, i>> \in S
    BY <1>2, <2>1
  <2>3. f[<<k, i>>] = channelKey(k, i)
    BY <1>4, <2>2
  <2> QED BY <2>1, <2>2, <2>3
<1>7. f \in [S -> T]
  BY <1>4
<1> HIDE DEF S, T, f
<1>8. f \in Injection(S, T) /\ f \in Surjection(S, T)
  BY <1>5, <1>6, <1>7 DEF Injection, Surjection, IsInjective
<1>9. Cardinality(S) = Cardinality(T)
  BY <1>1, <1>8, FS_Injection
<1>10. Named!Cardinality(S) = Cardinality(S)
  BY DEF Named!Cardinality, Cardinality
<1> QED BY <1>9, <1>10 DEF S, T

(* The empty target is not a pair.                                         *)
LEMMA NoTargetIsNoPair ==
  ASSUME NEW k, NEW i
  PROVE  <<k, i>> # NoTarget
BY ChannelsAssumption

(* A request is judged alike by pairs and by keys.                         *)
LEMMA NamedVerdict ==
  ASSUME KindsAreColonFree, NamedInv,
         NEW c \in Client, NEW k \in Kind, NEW i \in Id
  PROVE  Named!Verdict("channel", c, <<k, i>>)
           = P!Verdict("channel", c, channelKey(k, i))
<1> DEFINE r == channelKey(k, i)
<1>0. /\ r \in Room /\ r # NoTarget /\ <<k, i>> # NoTarget
      /\ "channel" \in Scope /\ HubInv /\ ChannelsInv
  BY ChannelsAssumption, HubAssumption, NoTargetIsNoPair
     DEF NamedInv, ChannelsInv, Scope
<1>1. Named!Occupants("channel", <<k, i>>) = P!Occupants("channel", r)
  BY <1>0, NamedOccupants, OccupantsAre
<1>2. Named!Cardinality(Named!Occupied("channel"))
        = P!Cardinality(P!Occupied("channel"))
  BY <1>0, AsManyPairsAsKeys, OccupiedAre, SameCardinality
<1>3. Named!Cardinality(Named!Occupants("channel", <<k, i>>))
        = P!Cardinality(P!Occupants("channel", r))
  BY <1>1 DEF Named!Cardinality, P!Cardinality
<1>4. <<"channel", c, <<k, i>>>> \in told <=> <<"channel", c, r>> \in memberOf
  BY <1>0, ToldAre, MemberOf DEF ChannelsInv, Told
<1>5. Named!TooManyRooms("channel", <<k, i>>) <=> P!TooManyRooms("channel", r)
  BY <1>1, <1>2 DEF Named!TooManyRooms, P!TooManyRooms
<1>6. Named!RoomFull("channel", c, <<k, i>>) <=> P!RoomFull("channel", c, r)
  BY <1>3, <1>4 DEF Named!RoomFull, P!RoomFull
<1> QED BY <1>0, <1>5, <1>6 DEF Named!Verdict, P!Verdict

-----------------------------------------------------------------------------
(* A request to join is Join of the pair it names, the empty kind standing *)
(* for "custom".                                                           *)
LEMMA RequestJoinSim ==
  ASSUME KindsAreColonFree, NamedInv, NEW c \in Client,
         NEW k \in Kind \cup {<<>>}, NEW i \in Id \cup {NoTarget},
         requestJoin(c, k, i)
  PROVE  Named!Next
<1> DEFINE kk == kindOf(k)
           r == IF i = NoTarget THEN NoTarget ELSE channelKey(kk, i)
           p == IF i = NoTarget THEN NoTarget ELSE <<kk, i>>
<1>0. kk \in Kind /\ "channel" \in Scope /\ HubInv
  BY KindOfType DEF Scope, NamedInv, ChannelsInv
<1>1. r \in Room \cup {NoTarget} /\ join("channel", c, r)
  BY <1>0, ChannelsAssumption DEF requestJoin, joinChannel
<1>2. P!Join("channel", c, r)
  BY <1>0, <1>1, JoinSim
<1>3. /\ c \in clients /\ clients' = clients
      /\ answer' = <<c, P!Verdict("channel", c, r)>>
      /\ stage' = stage
  BY <1>1, <1>2 DEF P!Join, join
<1>4. Named!Verdict("channel", c, p) = P!Verdict("channel", c, r)
  <2>1. CASE i = NoTarget
    BY <2>1 DEF Named!Verdict, P!Verdict
  <2>2. CASE i \in Id /\ i # NoTarget
    BY <1>0, <2>2, NamedVerdict
  <2> QED BY <2>1, <2>2
<1>5. asked' = IF answer' = <<c, "ok">> THEN asked \cup {<<c, kk, i>>} ELSE asked
  BY DEF requestJoin
<1>6. told' = IF Named!Verdict("channel", c, p) = "ok"
              THEN told \cup {<<"channel", c, p>>} ELSE told
  <2>1. CASE Named!Verdict("channel", c, p) # "ok"
    <3>1. answer' # <<c, "ok">>
      BY <1>3, <1>4, <2>1
    <3>2. asked' = asked
      BY <1>5, <3>1
    <3> QED BY <2>1, <3>2 DEF told
  <2>2. CASE Named!Verdict("channel", c, p) = "ok"
    <3>1. asked' = asked \cup {<<c, kk, i>>}
      BY <1>3, <1>4, <1>5, <2>2
    <3>2. i # NoTarget /\ p = <<kk, i>>
      BY <2>2 DEF Named!Verdict
    <3>3. told' = told \cup {<<"channel", c, <<kk, i>>>>}
      BY <3>1, ToldGrows
    <3> QED BY <2>2, <3>2, <3>3
  <2> QED BY <2>1, <2>2
<1>7. p \in (Kind \X Id) \cup {NoTarget}
  BY <1>0
<1> HIDE DEF p
<1>8. Named!Join("channel", c, p)
  BY <1>3, <1>4, <1>6 DEF Named!Join
<1> QED BY <1>7, <1>8 DEF Named!Next

(* A request to leave is Leave of the pair it names; without a target it   *)
(* changes nothing anybody sees.                                           *)
LEMMA RequestLeaveSim ==
  ASSUME NamedInv, NEW c \in Client,
         NEW k \in Kind \cup {<<>>}, NEW i \in Id \cup {NoTarget},
         requestLeave(c, k, i)
  PROVE  Named!Next \/ UNCHANGED Named!vars
<1> DEFINE kk == kindOf(k)
<1>0. /\ kk \in Kind /\ ChannelsTypeOK
      /\ c \in clients /\ UNCHANGED <<clients, stage, answer>>
      /\ asked' = asked \ {<<c, kk, i>>}
  BY KindOfType DEF requestLeave, leaveChannel, leave, NamedInv, ChannelsInv,
                    HubInv, LifecycleAgrees
<1>1. told' = told \ {<<"channel", c, <<kk, i>>>>}
  BY <1>0 DEF told, ChannelsTypeOK
<1>2. CASE i \in Id
  <2>1. Named!Leave("channel", c, <<kk, i>>)
    BY <1>0, <1>1 DEF Named!Leave
  <2> QED BY <1>0, <1>2, <2>1 DEF Named!Next
<1>3. CASE i \notin Id
  <2>1. told' = told
    BY <1>0, <1>1, <1>3, ToldType
  <2> QED BY <1>0, <2>1 DEF Named!vars
<1> QED BY <1>2, <1>3

(* The other three steps.                                                  *)
LEMMA PresenceStepsSim ==
  ASSUME NamedInv, NEW c \in Client,
         connect(c) \/ disconnect(c) \/ forget(c)
  PROVE  Named!Next
<1>0. ChannelsTypeOK /\ ChannelsInv /\ HubInv /\ "channel" \in Scope
  BY DEF NamedInv, ChannelsInv, Scope
<1>1. CASE connect(c)
  <2>1. P!Connect(c) /\ told' = told
    BY <1>0, <1>1, RegisterSim DEF connect, told
  <2>2. Named!Connect(c)
    BY <2>1, <1>1 DEF Named!Connect, P!Connect, connect, register
  <2> QED BY <2>2 DEF Named!Next
<1>2. CASE disconnect(c)
  <2>1. P!LeaveAll(c)
    BY <1>0, <1>2, LeaveAllSim DEF disconnect
  <2>2. told' = told \ {m \in told : m[2] = c}
    BY <1>0, <1>2 DEF disconnect, told, ChannelsTypeOK
  <2>3. Named!LeaveAll(c)
    BY <2>1, <2>2 DEF Named!LeaveAll, Named!Of, P!LeaveAll
  <2> QED BY <2>3 DEF Named!Next
<1>3. CASE forget(c)
  <2>1. P!GoOffline(c) /\ told' = told
    BY <1>0, <1>3, UnregisterSim DEF forget, told
  <2>2. ASSUME NEW k \in Kind, NEW i \in Id
        PROVE  <<"channel", c, <<k, i>>>> \notin told
    <3>1. mine["channel"][c] = {}
      BY <1>0, <1>3 DEF forget, unregister, HubInv, LifecycleAgrees
    <3>2. c \notin Members(rooms["channel"], channelKey(k, i))
      BY <1>0, <3>1, ChannelsAssumption DEF HubInv, Mirrored
    <3> QED BY <1>0, <3>2, ToldAre DEF ChannelsInv, Told
  <2>3. {m \in told : m[2] = c} = {}
    BY <1>0, <2>2, ToldType
  <2>4. Named!GoOffline(c)
    BY <2>1, <2>3 DEF Named!GoOffline, Named!Of, P!GoOffline
  <2> QED BY <2>4 DEF Named!Next
<1> QED BY <1>1, <1>2, <1>3

(* Nobody is told anything at first.                                       *)
LEMMA NamedInitSim == ChannelsInit => Named!Init
<1> SUFFICES ASSUME ChannelsInit PROVE Named!Init
  OBVIOUS
<1>1. told = {}
  BY DEF ChannelsInit, told
<1>2. {c \in Client : stage[c] # "none"} = {}
  BY DEF ChannelsInit, HubInit
<1> QED BY <1>1, <1>2 DEF ChannelsInit, HubInit, Named!Init, NoAnswer

(* Every step is a step of Presence between pairs, or a stutter.           *)
LEMMA NamedStepSim ==
  ASSUME KindsAreColonFree
  PROVE  NamedInv /\ [ChannelsNext]_channelsVars => [Named!Next]_Named!vars
<1> SUFFICES ASSUME NamedInv, [ChannelsNext]_channelsVars
             PROVE  [Named!Next]_Named!vars
  OBVIOUS
<1>1. CASE UNCHANGED channelsVars
  BY <1>1 DEF channelsVars, hubVars, Named!vars, told
<1>2. CASE ChannelsNext
  BY <1>2, RequestJoinSim, RequestLeaveSim, PresenceStepsSim DEF ChannelsNext
<1> QED BY <1>1, <1>2

(* If no kind contains a colon, clients see channels named by a kind and a *)
(* target and never the keys: joins are answered, and both limits counted, *)
(* as Presence does between the pairs.                                     *)
THEOREM KeysStayInvisible ==
  ASSUME KindsAreColonFree
  PROVE  ChannelsSpec => KeysAreInvisible
<1>1. ChannelsSpec => []NamedInv
  BY NamedInvariance
<1>2. NamedInv /\ [ChannelsNext]_channelsVars => [Named!Next]_Named!vars
  BY NamedStepSim
<1> QED BY <1>1, <1>2, NamedInitSim, PTL
        DEF ChannelsSpec, KeysAreInvisible, Named!Spec
=============================================================================
