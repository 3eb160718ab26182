----------------------------- MODULE MCChannels -----------------------------
(* Short kinds and targets chosen to collide if anything can.              *)
EXTENDS ChannelsPresence, TLC

EmptyTarget == <<>>

(* No kind holds a colon; "p" "qx" and "pq" "x" differ by the separator.   *)
PlainKinds == {<<"p">>, <<"p", "q">>}
Targets    == {<<"x">>, <<"q", "x">>, <<"q", ":", "x">>}

(* "p" with "q:x" and "p:q" with "x" have the same key.                    *)
ColonKinds == {<<"p">>, <<"p", ":", "q">>}

Keys == {channelKey(k, i) : k \in Kind, i \in Id}

PKind == <<"p">>

ClientSymmetry == Permutations(Client)
=============================================================================
