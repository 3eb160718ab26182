------------------------------ MODULE MCRelay ------------------------------
(* Sets of inbound frames for the relay's runs, one area each.             *)
EXTENDS Relay, TLC

inbound(type, scope, target, to) ==
  [type |-> type, scope |-> scope, target |-> target, to |-> to]

(* Membership traffic: joins, leaves and messages.                         *)
RoomFrames ==
  {inbound(t, "", r, NoTarget) : t \in {"join", "leave", "send"}, r \in Room}

(* Whispers to every client.                                               *)
WhisperFrames == {inbound("whisper", "", NoTarget, c) : c \in Client}

(* Frames that are refused or answered on the spot.                        *)
LocalFrames ==
  {inbound("garbage", "", NoTarget, NoTarget),
   inbound("ping", "", NoTarget, NoTarget),
   inbound("join", "bad", NoTarget, NoTarget),
   inbound("join", "", NoTarget, NoTarget)}

AllFrames == RoomFrames \cup WhisperFrames \cup LocalFrames

ClientSymmetry == Permutations(Client)
=============================================================================
