---------------------------- MODULE RelayProofs ----------------------------
(***************************************************************************)
(* Proofs about Relay, for any number of connections, any frames, any      *)
(* queue length.  First: whatever the goroutines do, they call the hub in  *)
(* the order Hub assumes, so no guard of Hub ever holds a goroutine up,    *)
(* and what is proved of Hub holds in the running server.  Then: what      *)
(* holds across the unlocked gaps of the handlers.                         *)
(***************************************************************************)
EXTENDS Relay, PresenceProofs

(* Where a goroutine is tells how far the hub has got with its client.     *)
Located ==
  \A c \in Client :
    /\ pc[c] = "idle" <=> stage[c] = "none"
    /\ pc[c] = "unregister" <=> stage[c] = "closing"
    /\ pc[c] \in {"close", "done"} <=> stage[c] = "closed"

(* The frames a goroutine holds are there when it needs them.              *)
Carried ==
  \A c \in Client :
    /\ pc[c] = "route" => msg[c] \in Envelope
    /\ pc[c] \in {"reply", "broadcast", "deliver", "whisper", "echo"} =>
         out[c] \in Frame
    /\ \/ pc[c] \in {"broadcast", "deliver"}
       \/ pc[c] = "reply" /\ out[c].type \in {"joined", "left"}
       \/ pc[c] = "echo" /\ out[c].type = "message"
       => out[c].scope \in Scope
    /\ pc[c] = "whisper" => msg[c].to \in Client /\ out[c].type = "whisper"

(* The disconnect is reported before the memberships are given up.         *)
Reported ==
  \A c \in Client :
    pc[c] \in {"leaveAll", "unregister", "close", "done"} =>
      posted[c] = "disconnect"

RelayInv ==
  /\ HubInv
  /\ RelayTypeOK
  /\ Located
  /\ Carried
  /\ Reported
  /\ BroadcastReachesMembers
  /\ SenderStaysMember

-----------------------------------------------------------------------------
(* Frames.                                                                 *)

(* A frame without a room is a frame.                                      *)
LEMMA PlainType ==
  ASSUME RelayTypeOK, NEW c \in Client, NEW type \in OutType
  PROVE  plain(type, c) \in Frame
<1>1. reads[c] \in Nat
  BY RelayAssumption DEF RelayTypeOK
<1> QED BY <1>1 DEF plain, Frame

(* A frame about the room of the current request is a frame, and its scope *)
(* is one of the two.                                                      *)
LEMMA FrameType ==
  ASSUME RelayTypeOK, NEW c \in Client, NEW type \in OutType,
         msg[c] \in Envelope, msg[c].scope # "bad"
  PROVE  frame(type, c) \in Frame /\ frame(type, c).scope \in Scope
<1>1. reads[c] \in Nat
  BY RelayAssumption DEF RelayTypeOK
<1>2. msg[c].scope \in Scope \cup {"", "bad"} /\ msg[c].target \in Room \cup {NoTarget}
  BY DEF Envelope
<1>3. scopeOf(msg[c]) \in Scope
  BY <1>2 DEF scopeOf, Scope
<1> QED BY <1>1, <1>2, <1>3 DEF frame, Frame

(* A queue keeps its type and its bound.                                   *)
LEMMA EnqueuedType ==
  ASSUME NEW q \in Seq(Frame), Len(q) <= SendBuf, NEW f \in Frame
  PROVE  enqueued(q, f) \in Seq(Frame) /\ Len(enqueued(q, f)) <= SendBuf
BY RelayAssumption DEF enqueued

(* Taking a frame off a queue keeps the type and the bound.                *)
LEMMA TailType ==
  ASSUME NEW q \in Seq(Frame), Len(q) <= SendBuf, q # <<>>
  PROVE  Tail(q) \in Seq(Frame) /\ Len(Tail(q)) <= SendBuf
BY RelayAssumption

(* trySend keeps the type and the bound of every queue and moves only the  *)
(* goroutine that called it.                                               *)
LEMMA TrySendType ==
  ASSUME RelayTypeOK, NEW c \in Client, NEW d \in Client, NEW f \in Frame,
         NEW next \in PC, trySend(c, d, f, next)
  PROVE  /\ queue' \in [Client -> Seq(Frame)]
         /\ \A x \in Client : Len(queue'[x]) <= SendBuf
         /\ pc' \in [Client -> PC]
         /\ pc'[c] \in {next, "defer"}
         /\ \A x \in Client \ {c} : pc'[x] = pc[x]
<1>1. CASE d \in closed
  BY <1>1 DEF trySend, goto, RelayTypeOK, PC
<1>2. CASE d \notin closed
  <2>1. enqueued(queue[d], f) \in Seq(Frame) /\ Len(enqueued(queue[d], f)) <= SendBuf
    BY EnqueuedType DEF RelayTypeOK
  <2>2. queue' = [queue EXCEPT ![d] = enqueued(queue[d], f)]
    BY <1>2 DEF trySend
  <2>3. pc' = [pc EXCEPT ![c] = next]
    BY <1>2 DEF trySend, goto
  <2> HIDE DEF enqueued
  <2> QED BY <2>1, <2>2, <2>3 DEF RelayTypeOK
<1> QED BY <1>1, <1>2

-----------------------------------------------------------------------------
(* The actions that touch the hub, and the calls they make.                *)
HubCall(c) ==
  \/ Accept(c) \/ LeaveAll(c) \/ Unregister(c) \/ routeJoin(c) \/ routeLeave(c)

(* Each of the five calls of the hub is a step of HubNext.                 *)
LEMMA HubCallStep ==
  ASSUME RelayInv, NEW c \in Client, HubCall(c)
  PROVE  HubNext
<1>1. CASE Accept(c)
  BY <1>1 DEF Accept, HubNext
<1>2. CASE LeaveAll(c)
  BY <1>2 DEF LeaveAll, HubNext
<1>3. CASE Unregister(c)
  BY <1>3 DEF Unregister, HubNext
<1>4. ASSUME msg[c].scope # "bad", pc[c] = "route"
      PROVE  scopeOf(msg[c]) \in Scope /\ msg[c].target \in Room \cup {NoTarget}
  <2>1. msg[c] \in Envelope
    BY <1>4 DEF RelayInv, Carried
  <2>2. msg[c].scope \in Scope \cup {"", "bad"} /\ msg[c].target \in Room \cup {NoTarget}
    BY <2>1 DEF Envelope
  <2> QED BY <1>4, <2>2 DEF scopeOf, Scope
<1>5. CASE routeJoin(c)
  <2>1. PICK s \in Scope, r \in Room \cup {NoTarget} : join(s, c, r)
    BY <1>4, <1>5 DEF routeJoin, routing
  <2>2. joinArea(c, r) \/ joinChannel(c, r)
    BY <2>1 DEF joinArea, joinChannel, Scope
  <2> QED BY <2>2 DEF HubNext
<1>6. CASE routeLeave(c)
  <2>1. PICK s \in Scope, r \in Room \cup {NoTarget} : leave(s, c, r)
    BY <1>4, <1>6 DEF routeLeave, routing
  <2>2. leaveArea(c, r) \/ leaveChannel(c, r)
    BY <2>1 DEF leaveArea, leaveChannel, Scope
  <2> QED BY <2>2 DEF HubNext
<1> QED BY <1>1, <1>2, <1>3, <1>5, <1>6 DEF HubCall

(* Every other action leaves the hub alone.                                *)
Quiet(c) ==
  \/ Welcome(c) \/ ReadMessage(c) \/ ReadError(c) \/ Disconnect(c) \/ Close(c)
  \/ routeLocal(c) \/ routeSend(c) \/ routeWhisper(c)
  \/ Reply(c) \/ Broadcast(c) \/ (\E d \in Client : Deliver(c, d))
  \/ Delivered(c) \/ Whisper(c) \/ Echo(c)
  \/ WriteFrame(c) \/ WriteFails(c) \/ PingFails(c) \/ QueueClosed(c)
  \/ ConnFails(c)

(* The other actions leave the hub alone.                                  *)
LEMMA QuietStep ==
  ASSUME NEW c \in Client, Quiet(c)
  PROVE  UNCHANGED hubVars
BY DEF Quiet, Welcome, ReadMessage, ReadError, Disconnect, Close, routeLocal,
       routeSend, routeWhisper, Reply, Broadcast, Deliver, Delivered, Whisper,
       Echo, WriteFrame, WriteFails, PingFails, QueueClosed, ConnFails,
       writerReturns

(* Every step is a call of the hub or a quiet step, of one connection.     *)
LEMMA NextSplits ==
  ASSUME RelayNext
  PROVE  \E c \in Client : HubCall(c) \/ Quiet(c)
BY DEF RelayNext, ReaderStep, WriterStep, HubCall, Quiet

(* So every step of the relay is a step of the hub or a stutter.           *)
LEMMA RelayHubStep ==
  RelayInv /\ [RelayNext \/ AllGone]_vars => [HubNext]_hubVars
<1> SUFFICES ASSUME RelayInv, [RelayNext \/ AllGone]_vars PROVE [HubNext]_hubVars
  OBVIOUS
<1>1. CASE RelayNext
  BY <1>1, NextSplits, HubCallStep, QuietStep
<1>2. CASE AllGone \/ UNCHANGED vars
  BY <1>2 DEF AllGone, vars
<1> QED BY <1>1, <1>2

-----------------------------------------------------------------------------
(* Types.                                                                  *)

(* The initial state satisfies the inductive invariant.                    *)
LEMMA RelayInitInv == RelayInit => RelayInv
<1> SUFFICES ASSUME RelayInit PROVE RelayInv
  OBVIOUS
<1>1. HubInv
  BY HubInitInv DEF RelayInit
<1>2. RelayTypeOK
  BY RelayAssumption DEF RelayInit, RelayTypeOK, PC
<1>3. Located
  BY DEF RelayInit, HubInit, Located
<1>4. Carried /\ Reported /\ BroadcastReachesMembers /\ SenderStaysMember
  BY DEF RelayInit, Carried, Reported, BroadcastReachesMembers, SenderStaysMember
<1> QED BY <1>1, <1>2, <1>3, <1>4 DEF RelayInv

(* The calls of the hub preserve type correctness.                         *)
LEMMA HubCallTypes ==
  ASSUME RelayInv, NEW c \in Client, HubCall(c)
  PROVE  RelayTypeOK'
<1>0. RelayTypeOK
  BY DEF RelayInv
<1>1. CASE Accept(c)
  BY <1>0, <1>1 DEF Accept, goto, RelayTypeOK, PC
<1>2. CASE LeaveAll(c)
  BY <1>0, <1>2 DEF LeaveAll, goto, RelayTypeOK, PC
<1>3. CASE Unregister(c)
  BY <1>0, <1>3 DEF Unregister, goto, RelayTypeOK, PC
<1>4. CASE routeJoin(c) \/ routeLeave(c)
  <2>1. pc[c] = "route" /\ msg[c].scope # "bad"
    BY <1>4 DEF routeJoin, routeLeave, routing
  <2>2. msg[c] \in Envelope
    BY <2>1 DEF RelayInv, Carried
  <2>3. \A type \in OutType : frame(type, c) \in Frame
    BY <1>0, <2>1, <2>2, FrameType
  <2>4. PICK f \in Frame : out' = [out EXCEPT ![c] = f]
    BY <1>4, <2>3 DEF routeJoin, routeLeave, replyWith, OutType
  <2>5. /\ UNCHANGED <<msg, todo, queue, writer, conn, reads, posted>>
        /\ pc' = [pc EXCEPT ![c] = "reply"]
    BY <1>4 DEF routeJoin, routeLeave, routing, replyWith, goto
  <2>6. /\ pc' \in [Client -> PC]
        /\ out' \in [Client -> Frame \cup {NoFrame}]
    BY <1>0, <2>4, <2>5 DEF RelayTypeOK, PC
  <2> QED BY <1>0, <2>5, <2>6 DEF RelayTypeOK
<1> QED BY <1>1, <1>2, <1>3, <1>4 DEF HubCall

(* The reader's own steps.                                                 *)
LEMMA ReadTypes ==
  ASSUME RelayTypeOK, NEW c \in Client,
         Welcome(c) \/ ReadMessage(c) \/ ReadError(c) \/ Disconnect(c) \/ Close(c)
  PROVE  RelayTypeOK'
<1>1. CASE Welcome(c)
  <2>1. plain("welcome", c) \in Frame /\ "read" \in PC
    BY PlainType DEF OutType, PC
  <2>2. /\ queue' \in [Client -> Seq(Frame)]
        /\ \A x \in Client : Len(queue'[x]) <= SendBuf
        /\ pc' \in [Client -> PC]
    BY <1>1, <2>1, TrySendType DEF Welcome
  <2> QED BY <1>1, <2>2 DEF Welcome, RelayTypeOK
<1>2. CASE ReadMessage(c)
  <2>1. PICK m \in Inbound : msg' = [msg EXCEPT ![c] = m]
    BY <1>2 DEF ReadMessage
  <2>2. reads' \in [Client -> 0 .. MaxReads]
    BY <1>2, RelayAssumption DEF ReadMessage, RelayTypeOK
  <2> QED BY <1>2, <2>1, <2>2, RelayAssumption DEF ReadMessage, goto, RelayTypeOK, PC
<1>3. CASE ReadError(c)
  BY <1>3 DEF ReadError, goto, RelayTypeOK, PC
<1>4. CASE Disconnect(c)
  BY <1>4 DEF Disconnect, goto, RelayTypeOK, PC
<1>5. CASE Close(c)
  BY <1>5 DEF Close, goto, RelayTypeOK, PC
<1> QED BY <1>1, <1>2, <1>3, <1>4, <1>5

(* So do the handlers that do not change the hub.                          *)
LEMMA RouteTypes ==
  ASSUME RelayTypeOK, Carried, NEW c \in Client,
         routeLocal(c) \/ routeSend(c) \/ routeWhisper(c)
  PROVE  RelayTypeOK'
<1>1. msg[c] \in Envelope
  BY DEF Carried, routeLocal, routeSend, routeWhisper, routing
<1>2. \A type \in OutType : plain(type, c) \in Frame
  BY PlainType
<1>3. msg[c].scope # "bad" => \A type \in OutType : frame(type, c) \in Frame
  BY <1>1, FrameType
<1>4. PICK f \in Frame : out' = [out EXCEPT ![c] = f]
  BY <1>2, <1>3 DEF routeLocal, routeSend, routeWhisper, replyWith, OutType
<1>5. pc' \in [Client -> PC]
  BY DEF routeLocal, routeSend, routeWhisper, replyWith, goto, RelayTypeOK, PC
<1> QED BY <1>4, <1>5 DEF routeLocal, routeSend, routeWhisper, routing, RelayTypeOK

(* So do the steps that send or broadcast a frame.                         *)
LEMMA SendTypes ==
  ASSUME HubTypeOK, RelayTypeOK, Carried, NEW c \in Client,
         \/ Reply(c) \/ Broadcast(c) \/ (\E d \in Client : Deliver(c, d))
         \/ Delivered(c) \/ Whisper(c) \/ Echo(c)
  PROVE  RelayTypeOK'
<1>1. pc[c] \in {"reply", "broadcast", "deliver", "whisper", "echo"} =>
        out[c] \in Frame
  BY DEF Carried
<1>2. ASSUME handled(c)
      PROVE  /\ msg' \in [Client -> Envelope \cup {NoMsg}]
             /\ out' \in [Client -> Frame \cup {NoFrame}]
             /\ posted' \in [Client -> {"none", "connect", "routed", "disconnect"}]
  BY <1>2 DEF handled, RelayTypeOK
<1>3. ASSUME NEW d \in Client, NEW next \in PC, out[c] \in Frame,
             trySend(c, d, out[c], next)
      PROVE  /\ queue' \in [Client -> Seq(Frame)]
             /\ \A x \in Client : Len(queue'[x]) <= SendBuf
             /\ pc' \in [Client -> PC]
  BY <1>3, TrySendType
<1>4. CASE Reply(c)
  <2>1. PICK next \in PC : trySend(c, c, out[c], next)
    BY <1>4 DEF Reply, PC
  <2>2. /\ queue' \in [Client -> Seq(Frame)]
        /\ \A x \in Client : Len(queue'[x]) <= SendBuf
        /\ pc' \in [Client -> PC]
    BY <1>1, <1>3, <1>4, <2>1 DEF Reply
  <2>3. CASE out[c].type \in {"joined", "left"}
    <3>1. PICK type \in OutType : out' = [out EXCEPT ![c].type = type]
      BY <1>4, <2>3 DEF Reply, OutType
    <3>2. out' \in [Client -> Frame \cup {NoFrame}]
      BY <1>1, <1>4, <3>1 DEF Reply, RelayTypeOK, Frame
    <3> QED BY <1>4, <2>2, <2>3, <3>2 DEF Reply, RelayTypeOK
  <2>4. CASE out[c].type \notin {"joined", "left"}
    BY <1>2, <1>4, <2>2, <2>4 DEF Reply, RelayTypeOK
  <2> QED BY <2>3, <2>4
<1>5. CASE Broadcast(c)
  <2>1. out[c].scope \in Scope
    BY <1>5 DEF Broadcast, Carried
  <2>2. rooms[out[c].scope] \in Tables
    BY <2>1 DEF HubTypeOK
  <2>3. Recipients(out[c].scope, out[c].target, c) \in SUBSET Client
    BY <2>2, MembersType DEF Recipients
  <2>4. todo' \in [Client -> SUBSET Client]
    BY <1>5, <2>3 DEF Broadcast, RelayTypeOK
  <2> QED BY <1>5, <2>4 DEF Broadcast, goto, RelayTypeOK, PC
<1>6. ASSUME NEW d \in Client, Deliver(c, d) PROVE RelayTypeOK'
  <2>1. /\ queue' \in [Client -> Seq(Frame)]
        /\ \A x \in Client : Len(queue'[x]) <= SendBuf
        /\ pc' \in [Client -> PC]
    BY <1>1, <1>3, <1>6 DEF Deliver, PC
  <2> QED BY <1>6, <2>1 DEF Deliver, RelayTypeOK
<1>7. CASE Delivered(c)
  BY <1>2, <1>7 DEF Delivered, goto, RelayTypeOK, PC
<1>8. CASE Whisper(c)
  <2>1. msg[c].to \in Client
    BY <1>8 DEF Whisper, Carried
  <2>2. /\ queue' \in [Client -> Seq(Frame)]
        /\ \A x \in Client : Len(queue'[x]) <= SendBuf
        /\ pc' \in [Client -> PC]
    BY <1>1, <1>3, <1>8, <2>1 DEF Whisper, PC
  <2> QED BY <1>8, <2>2 DEF Whisper, RelayTypeOK
<1>9. CASE Echo(c)
  <2>1. /\ queue' \in [Client -> Seq(Frame)]
        /\ \A x \in Client : Len(queue'[x]) <= SendBuf
        /\ pc' \in [Client -> PC]
    BY <1>1, <1>3, <1>9 DEF Echo, PC
  <2> QED BY <1>2, <1>9, <2>1 DEF Echo, RelayTypeOK
<1> QED BY <1>4, <1>5, <1>6, <1>7, <1>8, <1>9

(* So do the writer and the failures of the socket.                        *)
LEMMA WriterTypes ==
  ASSUME RelayTypeOK, NEW c \in Client,
         WriteFrame(c) \/ WriteFails(c) \/ PingFails(c) \/ QueueClosed(c) \/ ConnFails(c)
  PROVE  RelayTypeOK'
<1>1. ASSUME queue[c] # <<>>, queue' = [queue EXCEPT ![c] = Tail(queue[c])]
      PROVE  /\ queue' \in [Client -> Seq(Frame)]
             /\ \A x \in Client : Len(queue'[x]) <= SendBuf
  <2>1. Tail(queue[c]) \in Seq(Frame) /\ Len(Tail(queue[c])) <= SendBuf
    BY <1>1, TailType DEF RelayTypeOK
  <2> QED BY <1>1, <2>1 DEF RelayTypeOK
<1>2. ASSUME writerReturns(c)
      PROVE  /\ writer' \in [Client -> {"none", "running", "returned"}]
             /\ conn' \in [Client -> {"none", "open", "dead", "closed"}]
             /\ UNCHANGED <<pc, msg, out, todo, reads, posted>>
  BY <1>2 DEF writerReturns, RelayTypeOK
<1>3. CASE WriteFrame(c)
  BY <1>1, <1>3 DEF WriteFrame, RelayTypeOK
<1>4. CASE WriteFails(c)
  BY <1>1, <1>2, <1>4 DEF WriteFails, RelayTypeOK
<1>5. CASE PingFails(c) \/ QueueClosed(c)
  <2>1. writerReturns(c) /\ UNCHANGED queue
    BY <1>5 DEF PingFails, QueueClosed
  <2> QED BY <1>2, <2>1 DEF RelayTypeOK
<1>6. CASE ConnFails(c)
  BY <1>6 DEF ConnFails, RelayTypeOK
<1> QED BY <1>3, <1>4, <1>5, <1>6

(* So does every step.                                                     *)
LEMMA RelayTypes ==
  ASSUME RelayInv, NEW c \in Client, HubCall(c) \/ Quiet(c)
  PROVE  RelayTypeOK'
<1>1. RelayTypeOK /\ Carried /\ HubTypeOK
  BY DEF RelayInv, HubInv
<1> QED BY <1>1, HubCallTypes, ReadTypes, RouteTypes, SendTypes, WriterTypes DEF Quiet

-----------------------------------------------------------------------------
(* How the goroutines move.                                                *)

(* After trySend the goroutine is at its next step or, if the channel was  *)
(* closed, at its deferred function.                                       *)
LEMMA TrySendMoves ==
  ASSUME RelayTypeOK, NEW c \in Client, NEW d, NEW f, NEW next,
         trySend(c, d, f, next)
  PROVE  /\ pc'[c] = IF d \in closed THEN "defer" ELSE next
         /\ \A x \in Client \ {c} : pc'[x] = pc[x]
BY DEF trySend, goto, RelayTypeOK

(* Where the steps that send one frame start and end.                      *)
LEMMA SingleSends ==
  ASSUME RelayTypeOK, NEW c \in Client,
         Welcome(c) \/ Reply(c) \/ Whisper(c) \/ Echo(c)
  PROVE  /\ pc[c] \in {"welcome", "reply", "whisper", "echo"}
         /\ pc'[c] \in {"read", "broadcast", "echo", "defer"}
<1>1. CASE Welcome(c)
  BY <1>1, TrySendMoves DEF Welcome
<1>2. CASE Reply(c)
  <2>1. trySend(c, c, out[c], "broadcast") \/ trySend(c, c, out[c], "read")
    BY <1>2 DEF Reply
  <2>2. pc'[c] \in {"broadcast", "read", "defer"}
    BY <2>1, TrySendMoves
  <2> QED BY <1>2, <2>2 DEF Reply
<1>3. CASE Whisper(c)
  BY <1>3, TrySendMoves DEF Whisper
<1>4. CASE Echo(c)
  BY <1>4, TrySendMoves DEF Echo
<1> QED BY <1>1, <1>2, <1>3, <1>4

(* A step of one connection's goroutines changes no other connection's     *)
(* local state.                                                            *)
LEMMA Locality ==
  ASSUME RelayTypeOK, NEW c \in Client, HubCall(c) \/ Quiet(c),
         NEW x \in Client \ {c}
  PROVE  /\ pc'[x] = pc[x] /\ msg'[x] = msg[x] /\ out'[x] = out[x]
         /\ todo'[x] = todo[x] /\ posted'[x] = posted[x]
<1> USE DEF RelayTypeOK
<1>1. CASE HubCall(c)
  BY <1>1 DEF HubCall, Accept, LeaveAll, Unregister, routeJoin, routeLeave,
              routing, replyWith, goto
<1>2. CASE \/ ReadMessage(c) \/ ReadError(c) \/ Disconnect(c) \/ Close(c)
           \/ routeLocal(c) \/ routeSend(c) \/ routeWhisper(c)
           \/ Broadcast(c) \/ Delivered(c)
           \/ WriteFrame(c) \/ WriteFails(c) \/ PingFails(c) \/ QueueClosed(c)
           \/ ConnFails(c)
  BY <1>2 DEF ReadMessage, ReadError, Disconnect, Close, routeLocal, routeSend,
              routeWhisper, Broadcast, Delivered, WriteFrame, WriteFails,
              PingFails, QueueClosed, ConnFails, writerReturns, routing,
              replyWith, handled, goto
<1>3. CASE Welcome(c) \/ Reply(c) \/ Whisper(c) \/ Echo(c)
  <2>1. pc'[x] = pc[x]
    BY <1>3, TrySendMoves DEF Welcome, Reply, Whisper, Echo
  <2> QED BY <1>3, <2>1 DEF Welcome, Reply, Whisper, Echo, handled
<1>4. ASSUME NEW d \in Client, Deliver(c, d)
      PROVE  /\ pc'[x] = pc[x] /\ todo'[x] = todo[x]
             /\ UNCHANGED <<msg, out, posted>>
  BY <1>4, TrySendMoves DEF Deliver
<1> QED BY <1>1, <1>2, <1>3, <1>4 DEF Quiet

(* The states of a reader between register and leaveAll.                   *)
Serving == {"welcome", "read", "route", "reply", "broadcast", "deliver",
            "whisper", "echo", "defer"}

(* A quiet step stays put, stays within the serving phase, reports the     *)
(* disconnect, or ends the goroutine.                                      *)
LEMMA QuietMoves ==
  ASSUME RelayTypeOK, NEW c \in Client, Quiet(c)
  PROVE  \/ pc'[c] = pc[c] /\ posted'[c] = posted[c]
         \/ pc[c] \in Serving /\ pc'[c] \in Serving
         \/ pc[c] = "defer" /\ pc'[c] = "leaveAll" /\ posted'[c] = "disconnect"
         \/ pc[c] = "close" /\ pc'[c] = "done" /\ posted'[c] = posted[c]
<1> USE DEF RelayTypeOK
<1>1. CASE \/ ReadMessage(c) \/ ReadError(c) \/ Disconnect(c) \/ Close(c)
           \/ routeLocal(c) \/ routeSend(c) \/ routeWhisper(c)
           \/ Broadcast(c) \/ Delivered(c)
           \/ WriteFrame(c) \/ WriteFails(c) \/ PingFails(c) \/ QueueClosed(c)
           \/ ConnFails(c)
  <2>1. CASE WriteFrame(c) \/ WriteFails(c) \/ PingFails(c) \/ QueueClosed(c)
             \/ ConnFails(c)
    BY <2>1 DEF WriteFrame, WriteFails, PingFails, QueueClosed, ConnFails,
                writerReturns
  <2>2. CASE routeLocal(c) \/ routeSend(c) \/ routeWhisper(c)
    BY <2>2 DEF routeLocal, routeSend, routeWhisper, routing, replyWith, goto,
                Serving
  <2>3. CASE ReadMessage(c) \/ ReadError(c) \/ Broadcast(c) \/ Delivered(c)
    BY <2>3 DEF ReadMessage, ReadError, Broadcast, Delivered, goto, Serving
  <2>4. CASE Disconnect(c)
    BY <2>4 DEF Disconnect, goto
  <2>5. CASE Close(c)
    BY <2>5 DEF Close, goto
  <2> QED BY <1>1, <2>1, <2>2, <2>3, <2>4, <2>5
<1>2. CASE Welcome(c) \/ Reply(c) \/ Whisper(c) \/ Echo(c)
  BY <1>2, SingleSends DEF Serving
<1>3. ASSUME NEW d \in Client, Deliver(c, d)
      PROVE  pc[c] \in Serving /\ pc'[c] \in Serving
  BY <1>3, TrySendMoves DEF Deliver, Serving
<1> QED BY <1>1, <1>2, <1>3 DEF Quiet

(* The program counter keeps agreeing with the stage the hub has recorded, *)
(* and the disconnect stays reported.                                      *)
LEMMA LocatedStep ==
  ASSUME RelayInv, NEW c \in Client, HubCall(c) \/ Quiet(c)
  PROVE  Located' /\ Reported'
<1>0. RelayTypeOK /\ Located /\ Reported /\ stage \in [Client -> Stage]
  BY DEF RelayInv, HubInv, HubTypeOK
<1>1. \A x \in Client \ {c} :
        stage'[x] = stage[x] /\ pc'[x] = pc[x] /\ posted'[x] = posted[x]
  <2>1. \A x \in Client \ {c} : pc'[x] = pc[x] /\ posted'[x] = posted[x]
    BY <1>0, Locality
  <2>2. CASE Quiet(c)
    BY <2>1, <2>2, QuietStep DEF hubVars
  <2>3. CASE HubCall(c)
    BY <1>0, <2>1, <2>3
       DEF HubCall, Accept, LeaveAll, Unregister, routeJoin, routeLeave,
           register, leaveAll, unregister, join, leave
  <2> QED BY <2>2, <2>3
<1>2. /\ pc'[c] = "idle" <=> stage'[c] = "none"
      /\ pc'[c] = "unregister" <=> stage'[c] = "closing"
      /\ pc'[c] \in {"close", "done"} <=> stage'[c] = "closed"
      /\ pc'[c] \in {"leaveAll", "unregister", "close", "done"} =>
           posted'[c] = "disconnect"
  <2>1. CASE Quiet(c)
    <3>1. stage' = stage
      BY <2>1, QuietStep DEF hubVars
    <3> QED BY <1>0, <2>1, <3>1, QuietMoves DEF Located, Reported, Serving
  <2>2. CASE Accept(c)
    BY <1>0, <2>2 DEF Accept, register, goto, RelayTypeOK
  <2>3. CASE LeaveAll(c)
    BY <1>0, <2>3 DEF LeaveAll, leaveAll, goto, RelayTypeOK, Reported
  <2>4. CASE Unregister(c)
    BY <1>0, <2>4 DEF Unregister, unregister, goto, RelayTypeOK, Reported
  <2>5. CASE routeJoin(c) \/ routeLeave(c)
    <3>1. stage' = stage /\ stage[c] = "open" /\ pc'[c] = "reply"
      BY <1>0, <2>5 DEF routeJoin, routeLeave, join, leave, replyWith, goto,
                        RelayTypeOK
    <3> QED BY <3>1
  <2> QED BY <2>1, <2>2, <2>3, <2>4, <2>5 DEF HubCall
<1> QED BY <1>1, <1>2, <1>0 DEF Located, Reported

-----------------------------------------------------------------------------
(* What a goroutine carries.                                               *)
CarriedBy(c) ==
  /\ pc[c] = "route" => msg[c] \in Envelope
  /\ pc[c] \in {"reply", "broadcast", "deliver", "whisper", "echo"} =>
       out[c] \in Frame
  /\ \/ pc[c] \in {"broadcast", "deliver"}
     \/ pc[c] = "reply" /\ out[c].type \in {"joined", "left"}
     \/ pc[c] = "echo" /\ out[c].type = "message"
     => out[c].scope \in Scope
  /\ pc[c] = "whisper" => msg[c].to \in Client /\ out[c].type = "whisper"

(* The goroutine that takes a step holds the frames its next step needs.   *)
LEMMA CarriedOwn ==
  ASSUME RelayInv, NEW c \in Client, HubCall(c) \/ Quiet(c)
  PROVE  CarriedBy(c)'
<1>0. RelayTypeOK /\ CarriedBy(c) /\ RelayTypeOK'
  BY RelayTypes DEF RelayInv, Carried, CarriedBy
<1>1. CASE pc'[c] = pc[c] /\ msg'[c] = msg[c] /\ out'[c] = out[c]
  BY <1>0, <1>1 DEF CarriedBy
<1>2. CASE pc'[c] \notin {"route", "reply", "broadcast", "deliver", "whisper", "echo"}
  BY <1>2 DEF CarriedBy
<1>3. CASE WriteFrame(c) \/ WriteFails(c) \/ PingFails(c) \/ QueueClosed(c)
           \/ ConnFails(c)
  BY <1>1, <1>3 DEF WriteFrame, WriteFails, PingFails, QueueClosed, ConnFails,
                    writerReturns
<1>4. CASE Accept(c) \/ LeaveAll(c) \/ Unregister(c) \/ ReadError(c)
           \/ Disconnect(c) \/ Close(c)
  BY <1>0, <1>2, <1>4 DEF Accept, LeaveAll, Unregister, ReadError, Disconnect,
                          Close, goto, RelayTypeOK
<1>5. CASE Welcome(c) \/ Echo(c)
  BY <1>0, <1>2, <1>5, TrySendMoves DEF Welcome, Echo
<1>6. CASE ReadMessage(c)
  BY <1>0, <1>6, RelayAssumption DEF ReadMessage, goto, RelayTypeOK, CarriedBy
<1>7. ASSUME pc[c] = "route"
      PROVE  /\ msg[c] \in Envelope
             /\ \A type \in OutType : plain(type, c) \in Frame
             /\ plain("error", c).type = "error" /\ plain("pong", c).type = "pong"
             /\ plain("whisper", c).type = "whisper"
             /\ \A type \in OutType : frame(type, c).type = type
             /\ msg[c].scope # "bad" =>
                  \A type \in OutType : frame(type, c) \in Frame
                                         /\ frame(type, c).scope \in Scope
  BY <1>0, <1>7, PlainType, FrameType DEF CarriedBy, plain, frame
<1>8. ASSUME NEW f \in Frame, replyWith(c, f),
             f.type \in {"joined", "left"} => f.scope \in Scope
      PROVE  CarriedBy(c)'
  BY <1>0, <1>8 DEF replyWith, goto, RelayTypeOK, CarriedBy
<1>9. CASE routeJoin(c) \/ routeLeave(c)
  <2>1. pc[c] = "route" /\ msg[c].scope # "bad"
    BY <1>9 DEF routeJoin, routeLeave, routing
  <2>2. PICK type \in {"joined", "error", "left"} : replyWith(c, frame(type, c))
    BY <1>9 DEF routeJoin, routeLeave
  <2>3. type \in OutType
    BY DEF OutType
  <2> QED BY <1>7, <1>8, <2>1, <2>2, <2>3
<1>10. CASE routeLocal(c)
  <2>1. pc[c] = "route"
    BY <1>10 DEF routeLocal, routing
  <2>2. PICK type \in {"error", "pong"} : replyWith(c, plain(type, c))
    BY <1>10 DEF routeLocal
  <2>3. plain(type, c) \in Frame /\ plain(type, c).type \notin {"joined", "left"}
    BY <1>7, <2>1 DEF OutType
  <2> QED BY <1>8, <2>2, <2>3
<1>11. CASE routeSend(c)
  <2>1. pc[c] = "route" /\ msg[c].scope # "bad" /\ "message" \in OutType /\ "error" \in OutType
    BY <1>11 DEF routeSend, routing, OutType
  <2>2. CASE replyWith(c, frame("error", c))
    BY <1>7, <1>8, <2>1, <2>2
  <2>3. CASE out' = [out EXCEPT ![c] = frame("message", c)] /\ goto(c, "broadcast")
    <3>1. out'[c] = frame("message", c) /\ pc'[c] = "broadcast"
      BY <1>0, <2>3 DEF goto, RelayTypeOK
    <3> QED BY <1>7, <2>1, <3>1 DEF CarriedBy
  <2> QED BY <1>11, <2>2, <2>3 DEF routeSend
<1>12. CASE routeWhisper(c)
  <2>1. pc[c] = "route" /\ msg[c].to # NoTarget /\ "whisper" \in OutType /\ "error" \in OutType
    BY <1>12 DEF routeWhisper, routing, OutType
  <2>2. msg[c].to \in Client
    BY <1>7, <2>1 DEF Envelope
  <2>3. CASE replyWith(c, plain("error", c))
    BY <1>7, <1>8, <2>1, <2>3
  <2>4. CASE out' = [out EXCEPT ![c] = plain("whisper", c)] /\ goto(c, "whisper")
    <3>1. out'[c] = plain("whisper", c) /\ pc'[c] = "whisper" /\ msg'[c] = msg[c]
      BY <1>0, <1>12, <2>4 DEF goto, RelayTypeOK, routeWhisper, routing
    <3> QED BY <1>7, <2>1, <2>2, <3>1 DEF CarriedBy
  <2> QED BY <1>12, <2>3, <2>4 DEF routeWhisper
<1>13. CASE Reply(c)
  <2>1. pc[c] = "reply" /\ out[c] \in Frame
    BY <1>0, <1>13 DEF Reply, CarriedBy
  <2>2. CASE out[c].type \in {"joined", "left"}
    <3>1. pc'[c] \in {"broadcast", "defer"}
      BY <1>0, <1>13, <2>2, TrySendMoves DEF Reply
    <3>2. PICK type \in OutType : out' = [out EXCEPT ![c].type = type]
      BY <1>13, <2>2 DEF Reply, OutType
    <3>3. out'[c] \in Frame /\ out'[c].scope = out[c].scope
      BY <1>0, <2>1, <3>2 DEF RelayTypeOK, Frame
    <3> QED BY <1>0, <2>1, <2>2, <3>1, <3>3 DEF CarriedBy
  <2>3. CASE out[c].type \notin {"joined", "left"}
    BY <1>0, <1>2, <1>13, <2>3, TrySendMoves DEF Reply
  <2> QED BY <2>2, <2>3
<1>14. CASE Broadcast(c)
  BY <1>0, <1>14 DEF Broadcast, goto, RelayTypeOK, CarriedBy
<1>15. ASSUME NEW d \in Client, Deliver(c, d)
       PROVE  CarriedBy(c)'
  <2>1. pc'[c] \in {"deliver", "defer"} /\ pc[c] = "deliver" /\ out' = out
    BY <1>0, <1>15, TrySendMoves DEF Deliver
  <2> QED BY <1>0, <2>1 DEF CarriedBy
<1>16. CASE Delivered(c)
  <2>1. CASE out[c].type = "message"
    BY <1>0, <1>16, <2>1 DEF Delivered, goto, RelayTypeOK, CarriedBy
  <2>2. CASE out[c].type # "message"
    <3>1. pc'[c] = "read"
      BY <1>0, <1>16, <2>2 DEF Delivered, goto, RelayTypeOK
    <3> QED BY <1>2, <3>1
  <2> QED BY <2>1, <2>2
<1>17. CASE Whisper(c)
  <2>1. pc'[c] \in {"echo", "defer"} /\ pc[c] = "whisper" /\ out' = out
    BY <1>0, <1>17, TrySendMoves DEF Whisper
  <2> QED BY <1>0, <2>1 DEF CarriedBy
<1> QED BY <1>3, <1>4, <1>5, <1>6, <1>9, <1>10, <1>11, <1>12, <1>13, <1>14,
           <1>15, <1>16, <1>17 DEF HubCall, Quiet

(* And so do all the others, whose frames are not touched.                 *)
LEMMA CarriedStep ==
  ASSUME RelayInv, NEW c \in Client, HubCall(c) \/ Quiet(c)
  PROVE  Carried'
<1>1. CarriedBy(c)'
  BY CarriedOwn
<1>2. ASSUME NEW x \in Client \ {c}
      PROVE  CarriedBy(x)'
  <2>1. pc'[x] = pc[x] /\ msg'[x] = msg[x] /\ out'[x] = out[x]
    BY <1>2, Locality DEF RelayInv
  <2>2. CarriedBy(x)
    BY <1>2 DEF RelayInv, Carried, CarriedBy
  <2> QED BY <2>1, <2>2 DEF CarriedBy
<1>3. \A x \in Client : CarriedBy(x)'
  BY <1>1, <1>2
<1> QED BY <1>3 DEF CarriedBy, Carried

-----------------------------------------------------------------------------
(* The gaps between the critical sections.                                 *)

(* A hub call that changes the rooms or the clients waits for the readers; *)
(* a join without a target changes neither.                                *)
LEMMA HubCallExcludes ==
  ASSUME NEW c \in Client, HubCall(c)
  PROVE  NoReaders \/ UNCHANGED <<rooms, mine, clients, closed>>
<1>1. CASE Accept(c) \/ LeaveAll(c) \/ Unregister(c) \/ routeLeave(c)
  BY <1>1 DEF Accept, LeaveAll, Unregister, routeLeave
<1>2. CASE routeJoin(c)
  BY <1>2 DEF routeJoin, join, joinWithoutTarget, joinNoSlot, joinAlready,
              joinFull, joinAdmitted
<1> QED BY <1>1, <1>2 DEF HubCall

(* Nobody but its own reader changes what a client is a member of.         *)
LEMMA MembershipLocal ==
  ASSUME RelayInv, NEW c \in Client, HubCall(c),
         NEW s \in Scope, NEW x \in Client \ {c}
  PROVE  mine'[s][x] = mine[s][x]
<1>0. mine \in [Scope -> [Client -> SUBSET Room]]
  BY DEF RelayInv, HubInv, HubTypeOK
<1>1. CASE Accept(c) \/ Unregister(c)
  BY <1>1 DEF Accept, Unregister, register, unregister
<1>2. CASE LeaveAll(c)
  BY <1>0, <1>2 DEF LeaveAll, leaveAll
<1>3. CASE routeJoin(c)
  <2>1. PICK z, r : join(z, c, r)
    BY <1>3 DEF routeJoin
  <2>2. CASE UNCHANGED mine
    BY <2>2
  <2>3. CASE joinAdmitted(z, c, r)
    BY <1>0, <2>3 DEF joinAdmitted
  <2> QED BY <2>1, <2>2, <2>3
          DEF join, joinWithoutTarget, joinNoSlot, joinAlready, joinFull
<1>4. CASE routeLeave(c)
  <2>1. PICK z, r : leave(z, c, r)
    BY <1>4 DEF routeLeave
  <2> QED BY <1>0, <2>1 DEF leave
<1> QED BY <1>1, <1>2, <1>3, <1>4 DEF HubCall

(* Which steps start or continue a broadcast.                              *)
LEMMA DeliverMoves ==
  ASSUME RelayTypeOK, NEW c \in Client, HubCall(c) \/ Quiet(c), pc'[c] = "deliver"
  PROVE  \/ Broadcast(c) /\ out'[c] = out[c]
            /\ todo'[c] = Recipients(out[c].scope, out[c].target, c)
         \/ /\ pc[c] = "deliver" /\ out'[c] = out[c]
            /\ todo'[c] \subseteq todo[c]
            /\ UNCHANGED hubVars
<1> USE DEF RelayTypeOK
<1>1. CASE Broadcast(c)
  BY <1>1 DEF Broadcast
<1>2. ASSUME NEW d \in Client, Deliver(c, d)
      PROVE  /\ pc[c] = "deliver" /\ out'[c] = out[c] /\ todo'[c] \subseteq todo[c]
             /\ UNCHANGED hubVars
  BY <1>2 DEF Deliver
<1>3. CASE WriteFrame(c) \/ WriteFails(c) \/ PingFails(c) \/ QueueClosed(c)
           \/ ConnFails(c)
  BY <1>3 DEF WriteFrame, WriteFails, PingFails, QueueClosed, ConnFails,
              writerReturns
<1>4. ~(HubCall(c) \/ ReadMessage(c) \/ ReadError(c) \/ Disconnect(c) \/ Close(c)
        \/ routeLocal(c) \/ routeSend(c) \/ routeWhisper(c) \/ Delivered(c))
  BY DEF HubCall, Accept, LeaveAll, Unregister, routeJoin, routeLeave, ReadMessage,
         ReadError, Disconnect, Close, routeLocal, routeSend, routeWhisper,
         Delivered, replyWith, goto
<1>5. ~(Welcome(c) \/ Reply(c) \/ Whisper(c) \/ Echo(c))
  BY SingleSends
<1> QED BY <1>1, <1>2, <1>3, <1>4, <1>5 DEF Quiet

(* While a broadcast holds the read lock no membership changes, and its    *)
(* own steps only shorten the list of those it has yet to visit.           *)
LEMMA BroadcastStep ==
  ASSUME RelayInv, NEW c \in Client, HubCall(c) \/ Quiet(c)
  PROVE  BroadcastReachesMembers'
<1> DEFINE Reaches(x) ==
      todo[x] \subseteq
        Recipients(out[x].scope, out[x].target, x) \cap (clients \ closed)
<1> SUFFICES ASSUME NEW x \in Client, pc'[x] = "deliver"
             PROVE  Reaches(x)'
  BY DEF BroadcastReachesMembers
<1>0. RelayTypeOK /\ HubInv
  BY DEF RelayInv
<1>1. pc[x] = "deliver" => Reaches(x)
  BY DEF RelayInv, BroadcastReachesMembers
<1>2. ASSUME pc[x] = "deliver", out'[x] = out[x], todo'[x] \subseteq todo[x],
             UNCHANGED <<rooms, clients, closed>>
      PROVE  Reaches(x)'
  BY <1>1, <1>2 DEF Recipients
<1>3. CASE x # c
  <2>1. pc[x] = "deliver" /\ out'[x] = out[x] /\ todo'[x] = todo[x]
    BY <1>0, <1>3, Locality
  <2>2. UNCHANGED <<rooms, clients, closed>>
    <3>1. CASE Quiet(c)
      BY <3>1, QuietStep DEF hubVars
    <3>2. CASE HubCall(c)
      BY <2>1, <3>2, HubCallExcludes DEF NoReaders
    <3> QED BY <3>1, <3>2
  <2> QED BY <1>2, <2>1, <2>2
<1>4. CASE x = c
  <2>1. CASE Broadcast(c)
    <3>1. /\ out' = out /\ UNCHANGED hubVars
          /\ todo'[c] = Recipients(out[c].scope, out[c].target, c)
          /\ out[c].scope \in Scope
      BY <1>0, <2>1 DEF Broadcast, RelayTypeOK, RelayInv, Carried
    <3>2. Recipients(out[c].scope, out[c].target, c) \subseteq clients \ closed
      <4>1. MembersCanReceive
        BY <1>0, HubInvImplies
      <4> QED BY <3>1, <4>1 DEF MembersCanReceive, Recipients, Members
    <3> QED BY <1>4, <3>1, <3>2 DEF hubVars, Recipients
  <2>2. CASE ~Broadcast(c)
    <3>1. /\ pc[c] = "deliver" /\ out'[c] = out[c] /\ todo'[c] \subseteq todo[c]
          /\ UNCHANGED hubVars
      BY <1>0, <1>4, <2>2, DeliverMoves
    <3> QED BY <1>2, <1>4, <3>1 DEF hubVars
  <2> QED BY <2>1, <2>2
<1> QED BY <1>3, <1>4

(* A frame of type message is in flight.                                   *)
Sending(c) ==
  pc[c] \in {"broadcast", "deliver", "echo"} /\ out[c].type = "message"

(* Which steps start or continue the sending of a message.                 *)
LEMMA SendingMoves ==
  ASSUME RelayInv, NEW c \in Client, HubCall(c) \/ Quiet(c), Sending(c)'
  PROVE  /\ UNCHANGED hubVars
         /\ \/ Sending(c) /\ out'[c] = out[c]
            \/ inRoom(out'[c].scope, c, out'[c].target)
<1>0. RelayTypeOK /\ CarriedBy(c)
  BY DEF RelayInv, Carried, CarriedBy
<1>1. ~HubCall(c)
  BY <1>0 DEF HubCall, Accept, LeaveAll, Unregister, routeJoin, routeLeave,
              replyWith, goto, RelayTypeOK, Sending
<1>2. UNCHANGED hubVars
  BY <1>1, QuietStep
<1>3. CASE routeSend(c)
  <2>1. out'[c] = frame("message", c)
    BY <1>0, <1>3 DEF routeSend, replyWith, goto, RelayTypeOK, Sending
  <2>2. inRoom(scopeOf(msg[c]), c, msg[c].target)
    BY <1>0, <1>3 DEF routeSend, replyWith, goto, RelayTypeOK, Sending
  <2>3. out'[c].scope = scopeOf(msg[c]) /\ out'[c].target = msg[c].target
    BY <2>1 DEF frame
  <2> QED BY <1>2, <2>2, <2>3
<1>4. CASE WriteFrame(c) \/ WriteFails(c) \/ PingFails(c) \/ QueueClosed(c)
           \/ ConnFails(c)
  BY <1>2, <1>4 DEF WriteFrame, WriteFails, PingFails, QueueClosed, ConnFails,
                    writerReturns, Sending
<1>5. CASE Broadcast(c)
  BY <1>2, <1>5 DEF Broadcast, Sending
<1>6. ASSUME NEW d \in Client, Deliver(c, d)
      PROVE  Sending(c) /\ out'[c] = out[c]
  BY <1>6 DEF Deliver, Sending
<1>7. CASE Delivered(c)
  <2>1. out[c].type = "message"
    BY <1>0, <1>7 DEF Delivered, goto, RelayTypeOK, Sending
  <2> QED BY <1>2, <1>7, <2>1 DEF Delivered, Sending
<1>8. ~(\/ ReadMessage(c) \/ ReadError(c) \/ Disconnect(c) \/ Close(c)
        \/ routeLocal(c))
  BY <1>0 DEF ReadMessage, ReadError, Disconnect, Close, routeLocal, replyWith,
              goto, RelayTypeOK, Sending
<1>9. ~routeWhisper(c)
  BY <1>0 DEF routeWhisper, replyWith, goto, RelayTypeOK, Sending
<1>10. ~(Welcome(c) \/ Echo(c))
  BY <1>0, TrySendMoves DEF Welcome, Echo, Sending
<1>11. ~Reply(c)
  <2> SUFFICES ASSUME Reply(c) PROVE FALSE
    OBVIOUS
  <2>1. CASE out[c].type \in {"joined", "left"}
    <3>1. out[c] \in Frame
      BY <1>0 DEF Reply, CarriedBy
    <3>2. PICK type \in {"system joined", "system left"} :
            out' = [out EXCEPT ![c].type = type]
      BY <2>1 DEF Reply
    <3>3. out'[c].type = type
      BY <1>0, <3>1, <3>2 DEF RelayTypeOK, Frame
    <3> QED BY <3>3 DEF Sending
  <2>2. CASE out[c].type \notin {"joined", "left"}
    BY <1>0, <2>2, TrySendMoves DEF Reply, Sending
  <2> QED BY <2>1, <2>2
<1>12. ~Whisper(c)
  BY <1>0 DEF Whisper, CarriedBy, Sending
<1> QED BY <1>1, <1>2, <1>3, <1>4, <1>5, <1>6, <1>7, <1>8, <1>9, <1>10, <1>11,
           <1>12 DEF Quiet

(* Only the goroutine of a client changes that client's memberships, and   *)
(* it changes none while it relays a message.                              *)
LEMMA SenderStep ==
  ASSUME RelayInv, NEW c \in Client, HubCall(c) \/ Quiet(c)
  PROVE  SenderStaysMember'
<1> SUFFICES ASSUME NEW x \in Client, Sending(x)'
             PROVE  out'[x].target \in mine'[out'[x].scope][x]
  BY DEF SenderStaysMember, Sending, inRoom
<1>0. RelayTypeOK /\ Carried
  BY DEF RelayInv
<1>1. Sending(x) => out[x].target \in mine[out[x].scope][x] /\ out[x].scope \in Scope
  BY <1>0 DEF RelayInv, SenderStaysMember, Sending, inRoom, Carried
<1>2. CASE x = c
  BY <1>1, <1>2, SendingMoves DEF hubVars, inRoom
<1>3. CASE x # c
  <2>1. Sending(x) /\ out'[x] = out[x]
    BY <1>0, <1>3, Locality DEF Sending
  <2>2. CASE Quiet(c)
    BY <1>1, <2>1, <2>2, QuietStep DEF hubVars
  <2>3. CASE HubCall(c)
    BY <1>1, <1>3, <2>1, <2>3, MembershipLocal
  <2> QED BY <2>2, <2>3
<1> QED BY <1>2, <1>3

-----------------------------------------------------------------------------
(* Every step of the relay preserves the inductive invariant.              *)
LEMMA RelayNextInv == RelayInv /\ [RelayNext \/ AllGone]_vars => RelayInv'
<1> SUFFICES ASSUME RelayInv, [RelayNext \/ AllGone]_vars PROVE RelayInv'
  OBVIOUS
<1>1. CASE RelayNext
  <2>1. PICK c \in Client : HubCall(c) \/ Quiet(c)
    BY <1>1, NextSplits
  <2>2. HubInv'
    BY RelayHubStep, HubNextInv DEF RelayInv
  <2> QED BY <2>1, <2>2, RelayTypes, LocatedStep, CarriedStep, BroadcastStep, SenderStep
          DEF RelayInv
<1>2. CASE AllGone \/ UNCHANGED vars
  <2>1. UNCHANGED hubVars /\ UNCHANGED relayVars
    BY <1>2 DEF AllGone, vars
  <2>2. HubInv'
    BY <2>1, HubStutterInv DEF RelayInv
  <2>3. RelayTypeOK' /\ Located' /\ Reported'
    BY <2>1 DEF RelayInv, hubVars, relayVars, RelayTypeOK, Located, Reported
  <2>4. Carried' /\ BroadcastReachesMembers' /\ SenderStaysMember'
    BY <2>1 DEF RelayInv, hubVars, relayVars, Carried, BroadcastReachesMembers,
                SenderStaysMember, Recipients, Members, inRoom
  <2> QED BY <2>2, <2>3, <2>4 DEF RelayInv
<1> QED BY <1>1, <1>2

(* The relay's inductive invariant holds in every reachable state.         *)
THEOREM RelayInvariance == RelaySpec => []RelayInv
BY RelayInitInv, RelayNextInv, PTL DEF RelaySpec

(* Type correctness of the relay; no send queue exceeds sendBufSize.       *)
THEOREM RelayTypeCorrect == RelaySpec => []RelayTypeOK
BY RelayInvariance, PTL DEF RelayInv

(* At every call of the hub the client is where Hub wants it: no order of  *)
(* calls the goroutines can produce is shut out by a guard of Hub.         *)
THEOREM HubIsCalledInOrder == RelaySpec => []HubCallsInOrder
<1>1. ASSUME RelayInv, NEW c \in Client
      PROVE  /\ pc[c] = "idle" => stage[c] = "none"
             /\ pc[c] \in {"route", "leaveAll"} => stage[c] = "open"
             /\ pc[c] = "unregister" => stage[c] = "closing"
             /\ pc[c] \in {"unregister", "close", "done"} =>
                  \A s \in Scope : mine[s][c] = {}
  <2>1. /\ stage[c] \in Stage
        /\ stage[c] # "open" => \A s \in Scope : mine[s][c] = {}
        /\ pc[c] = "idle" <=> stage[c] = "none"
        /\ pc[c] = "unregister" <=> stage[c] = "closing"
        /\ pc[c] \in {"close", "done"} <=> stage[c] = "closed"
    BY <1>1 DEF RelayInv, Located, HubInv, HubTypeOK, LifecycleAgrees
  <2> QED BY <2>1 DEF Stage
<1>2. RelayInv => HubCallsInOrder
  BY <1>1 DEF HubCallsInOrder
<1> QED BY <1>2, RelayInvariance, PTL

(* The relay changes the hub's state by the hub's operations only, so what *)
(* is proved of HubSpec carries over.                                      *)
LEMMA RelayImplementsHub == RelaySpec => HubSpec
<1>1. RelayInit => HubInit
  BY DEF RelayInit
<1>2. RelayInv /\ [RelayNext \/ AllGone]_vars => [HubNext]_hubVars
  BY RelayHubStep
<1> QED BY <1>1, <1>2, RelayInvariance, PTL DEF RelaySpec, HubSpec

(* So the relay keeps the promises of Presence: whatever the goroutines    *)
(* do and wherever they panic, joins are answered as the occupied rooms    *)
(* say, and who goes offline has left every room before.                   *)
THEOREM RelayImplementsPresence == RelaySpec => ImplementsPresence
BY RelayImplementsHub, HubImplementsPresence

(* A broadcast in progress only ever sends to members whose queue is open, *)
(* whatever the other goroutines do meanwhile: it cannot panic.            *)
THEOREM BroadcastsReachMembers == RelaySpec => []BroadcastReachesMembers
BY RelayInvariance, PTL DEF RelayInv

(* The membership check of routeSend is still true when the message is     *)
(* broadcast and echoed.                                                   *)
THEOREM SendersStayMembers == RelaySpec => []SenderStaysMember
BY RelayInvariance, PTL DEF RelayInv

(* No reader goroutine ends, by error or by panic, with its client still   *)
(* known to the hub, its queue open, or its disconnect unreported.         *)
THEOREM NoClientLeaks == RelaySpec => []NoLeakedClient
<1>1. RelayInv => NoLeakedClient
  BY DEF RelayInv, Located, Reported, HubInv, LifecycleAgrees, NoLeakedClient
<1> QED BY <1>1, RelayInvariance, PTL

-----------------------------------------------------------------------------
(* What a broadcast does from its first to its last step.                  *)
Completes(c) ==
  /\ pc[c] # "deliver" /\ pc'[c] = "deliver" =>
       todo'[c] = {d \in Client \ {c} : inRoom(out[c].scope, d, out[c].target)}
  /\ pc[c] = "deliver" =>
       /\ UNCHANGED <<rooms, mine>>
       /\ pc'[c] # "deliver" => todo[c] = {}
       /\ pc'[c] = "deliver" => out'[c] = out[c]
       /\ \A d \in todo[c] \ todo'[c] : queue'[d] = enqueued(queue[d], out[c])

(* The members a broadcast finds are those who say of themselves that they *)
(* are in the room; the empty target is the room of nobody.                *)
LEMMA RecipientsAreMembers ==
  ASSUME HubInv, NEW s \in Scope, NEW r \in Room \cup {NoTarget}, NEW c
  PROVE  Recipients(s, r, c) = {d \in Client \ {c} : inRoom(s, d, r)}
<1>1. rooms[s] \in Tables /\ \A d \in Client : mine[s][d] \subseteq Room
  BY DEF HubInv, HubTypeOK
<1>2. Members(rooms[s], r) \subseteq Client
  BY <1>1, MembersType
<1>3. CASE r \in Room
  BY <1>2, <1>3 DEF HubInv, Mirrored, Recipients, inRoom
<1>4. CASE r \notin Room
  <2>1. Members(rooms[s], r) = {}
    BY <1>1, <1>4, TableFacts DEF Members
  <2> QED BY <1>1, <1>4, <2>1 DEF Recipients, inRoom
<1> QED BY <1>3, <1>4

(* What the goroutines of c do while it is visiting members.               *)
LEMMA WhileDelivering ==
  ASSUME RelayInv, NEW c \in Client, HubCall(c) \/ Quiet(c), pc[c] = "deliver"
  PROVE  \/ UNCHANGED <<pc, out, todo>>
         \/ Delivered(c)
         \/ \E d \in todo[c] \ closed : Deliver(c, d)
<1>1. CASE Delivered(c)
  BY <1>1
<1>2. ASSUME NEW d \in Client, Deliver(c, d)
      PROVE  d \in todo[c] \ closed
  BY <1>2 DEF Deliver, RelayInv, BroadcastReachesMembers
<1>3. CASE WriteFrame(c) \/ WriteFails(c) \/ PingFails(c) \/ QueueClosed(c)
           \/ ConnFails(c)
  BY <1>3 DEF WriteFrame, WriteFails, PingFails, QueueClosed, ConnFails,
              writerReturns
<1>4. ~(\/ HubCall(c) \/ Welcome(c) \/ ReadMessage(c) \/ ReadError(c)
        \/ Disconnect(c) \/ Close(c)
        \/ routeLocal(c) \/ routeSend(c) \/ routeWhisper(c)
        \/ Reply(c) \/ Broadcast(c) \/ Whisper(c) \/ Echo(c))
  <2>1. Located
    BY DEF RelayInv
  <2> QED BY <2>1 DEF HubCall, Accept, LeaveAll, Unregister, routeJoin, routeLeave,
         Welcome, ReadMessage, ReadError, Disconnect, Close, routeLocal, routeSend,
         routeWhisper, routing, Reply, Broadcast, Whisper, Echo
<1> QED BY <1>1, <1>2, <1>3, <1>4 DEF Quiet

LEMMA CompletesStep ==
  ASSUME RelayInv, NEW c \in Client, HubCall(c) \/ Quiet(c), NEW x \in Client
  PROVE  Completes(x)
<1>0. RelayTypeOK
  BY DEF RelayInv
<1>1. pc[x] = "deliver" => UNCHANGED <<rooms, mine>>
  BY HubCallExcludes, QuietStep DEF NoReaders, hubVars
<1>2. CASE x # c
  <2>1. pc'[x] = pc[x] /\ out'[x] = out[x] /\ todo'[x] = todo[x]
    BY <1>0, <1>2, Locality
  <2> QED BY <1>1, <2>1 DEF Completes
<1>3. CASE x = c /\ pc[c] # "deliver"
  <2> SUFFICES ASSUME pc'[c] = "deliver"
               PROVE  todo'[c] = {d \in Client \ {c} :
                                    inRoom(out[c].scope, d, out[c].target)}
    BY <1>3 DEF Completes
  <2>1. /\ Broadcast(c)
        /\ todo'[c] = Recipients(out[c].scope, out[c].target, c)
    BY <1>0, <1>3, DeliverMoves
  <2>2. out[c].scope \in Scope /\ out[c].target \in Room \cup {NoTarget}
    BY <2>1 DEF Broadcast, RelayInv, Carried, Frame
  <2> QED BY <2>1, <2>2, RecipientsAreMembers DEF RelayInv
<1>4. CASE x = c /\ pc[c] = "deliver"
  <2>1. CASE UNCHANGED <<pc, out, todo>>
    BY <1>1, <1>4, <2>1 DEF Completes
  <2>2. CASE Delivered(c)
    BY <1>0, <1>1, <1>4, <2>2 DEF Delivered, goto, RelayTypeOK, Completes
  <2>3. ASSUME NEW d \in todo[c] \ closed, Deliver(c, d) PROVE Completes(c)
    <3>1. d \in Client
      BY <1>0 DEF RelayTypeOK
    <3>2. /\ pc' = [pc EXCEPT ![c] = "deliver"]
          /\ queue' = [queue EXCEPT ![d] = enqueued(queue[d], out[c])]
          /\ out' = out /\ todo' = [todo EXCEPT ![c] = @ \ {d}]
      BY <2>3 DEF Deliver, trySend, goto
    <3>3. /\ pc'[c] = "deliver" /\ out'[c] = out[c]
          /\ queue'[d] = enqueued(queue[d], out[c])
          /\ todo[c] \ todo'[c] \subseteq {d}
      BY <1>0, <3>1, <3>2 DEF RelayTypeOK
    <3> QED BY <1>1, <1>4, <3>3 DEF Completes
  <2> QED BY <1>4, <2>1, <2>2, <2>3, WhileDelivering
<1> QED BY <1>2, <1>3, <1>4

(* For any number of clients: a broadcast is offered to everyone who was   *)
(* in the room when it began, nothing cuts it short, and the memberships   *)
(* are the same from its first step to its last.                           *)
THEOREM BroadcastsComplete == RelaySpec => BroadcastCompletes
<1>1. RelayInv /\ [RelayNext \/ AllGone]_vars => [\A c \in Client : Completes(c)]_vars
  <2> SUFFICES ASSUME RelayInv, RelayNext PROVE \A c \in Client : Completes(c)
    BY DEF AllGone
  <2>1. PICK c \in Client : HubCall(c) \/ Quiet(c)
    BY NextSplits
  <2> QED BY <2>1, CompletesStep
<1> QED BY <1>1, RelayInvariance, PTL DEF RelaySpec, BroadcastCompletes, Completes

-----------------------------------------------------------------------------
(* How a handler can be torn off.                                          *)

(* A goroutine that turns to its deferred function had a read error or     *)
(* whispered to a closed queue.                                            *)
LEMMA PanicStep ==
  ASSUME RelayInv, NEW c \in Client, HubCall(c) \/ Quiet(c),
         pc[c] # "defer", pc'[c] = "defer"
  PROVE  \/ pc[c] = "read"
         \/ pc[c] = "whisper" /\ msg[c].to \in closed
<1>0. RelayTypeOK /\ Located
  BY DEF RelayInv
<1>1. pc[c] \in Serving => c \notin closed
  BY DEF RelayInv, Located, HubInv, LifecycleAgrees, Serving
<1>2. ~(\/ HubCall(c) \/ ReadMessage(c) \/ Disconnect(c) \/ Close(c)
        \/ routeLocal(c) \/ routeSend(c) \/ routeWhisper(c)
        \/ Broadcast(c) \/ Delivered(c)
        \/ WriteFrame(c) \/ WriteFails(c) \/ PingFails(c) \/ QueueClosed(c)
        \/ ConnFails(c))
  BY <1>0 DEF HubCall, Accept, LeaveAll, Unregister, routeJoin, routeLeave,
         ReadMessage, Disconnect, Close, routeLocal, routeSend, routeWhisper,
         Broadcast, Delivered, WriteFrame, WriteFails, PingFails, QueueClosed,
         ConnFails, writerReturns, replyWith, goto, RelayTypeOK
<1>3. CASE ReadError(c)
  BY <1>3 DEF ReadError
<1>4. ~(Welcome(c) \/ Reply(c) \/ Echo(c))
  <2>1. ASSUME NEW f, NEW next, next # "defer", trySend(c, c, f, next) PROVE c \in closed
    BY <1>0, <2>1, TrySendMoves
  <2>2. pc[c] \in {"welcome", "reply", "echo"} => c \notin closed
    BY <1>1 DEF Serving
  <2> QED BY <2>1, <2>2 DEF Welcome, Reply, Echo
<1>5. CASE Whisper(c)
  BY <1>0, <1>5, TrySendMoves DEF Whisper
<1>6. ~(\E d \in Client : Deliver(c, d))
  <2> SUFFICES ASSUME NEW d \in Client, Deliver(c, d) PROVE FALSE
    OBVIOUS
  <2>1. d \notin closed
    BY DEF Deliver, RelayInv, BroadcastReachesMembers
  <2> QED BY <1>0, <2>1, TrySendMoves DEF Deliver
<1> QED BY <1>2, <1>3, <1>4, <1>5, <1>6 DEF Quiet

(* For any number of clients, any frames and any queue length: the panic   *)
(* of a whisper to a leaving peer is the only one there is.                *)
THEOREM WhispersAlonePanic == RelaySpec => OnlyWhispersPanic
<1> DEFINE Torn(c) == pc[c] # "defer" /\ pc'[c] = "defer" =>
                        \/ pc[c] = "read"
                        \/ pc[c] = "whisper" /\ msg[c].to \in closed
<1>1. RelayInv /\ [RelayNext \/ AllGone]_vars => [\A c \in Client : Torn(c)]_vars
  <2> SUFFICES ASSUME RelayInv, RelayNext, NEW x \in Client PROVE Torn(x)
    BY DEF AllGone
  <2>1. PICK c \in Client : HubCall(c) \/ Quiet(c)
    BY NextSplits
  <2>2. x # c => pc'[x] = pc[x]
    BY <2>1, Locality DEF RelayInv
  <2> QED BY <2>1, <2>2, PanicStep
<1> QED BY <1>1, RelayInvariance, PTL DEF RelaySpec, OnlyWhispersPanic

-----------------------------------------------------------------------------
(* Notices.                                                                *)

(* From the answer to a join or leave up to the end of the notice about    *)
(* it, the membership is as announced.                                     *)
Announced(c) ==
  LET there == inRoom(out[c].scope, c, out[c].target) IN
  /\ pc[c] = "reply" /\ out[c].type = "joined" => there
  /\ pc[c] = "reply" /\ out[c].type = "left" => ~there
  /\ pc[c] \in {"broadcast", "deliver"} /\ out[c].type = "system joined" => there
  /\ pc[c] \in {"broadcast", "deliver"} /\ out[c].type = "system left" => ~there

(* A join that is answered with success has made its client a member.      *)
LEMMA JoinAnnounced ==
  ASSUME RelayInv, NEW c \in Client, routeJoin(c)
  PROVE  Announced(c)'
<1> DEFINE s == scopeOf(msg[c])
           r == msg[c].target
<1>0. RelayTypeOK /\ HubTypeOK /\ Mirrored
  BY HubInvImplies DEF RelayInv, HubInv
<1>1. s \in Scope /\ r \in Room \cup {NoTarget}
  <2>1. msg[c] \in Envelope /\ msg[c].scope # "bad"
    BY DEF RelayInv, Carried, routeJoin, routing
  <2> QED BY <2>1 DEF Envelope, scopeOf, Scope
<1>2. join(s, c, r)
  BY DEF routeJoin
<1>3. pc'[c] = "reply"
      /\ out'[c] = IF answer' = <<c, "ok">> THEN frame("joined", c) ELSE frame("error", c)
  BY <1>0 DEF routeJoin, replyWith, goto, RelayTypeOK
<1>4. \A type : /\ frame(type, c).scope = s /\ frame(type, c).target = r
                /\ frame(type, c).type = type
  BY DEF frame
<1> HIDE DEF s, r
<1>5. CASE answer' = <<c, "ok">>
  <2>1. r \in mine'[s][c]
    <3>1. CASE joinAlready(s, c, r)
      BY <1>0, <1>1, <3>1 DEF joinAlready, Mirrored
    <3>2. CASE joinAdmitted(s, c, r)
      BY <1>0, <1>1, <3>2 DEF joinAdmitted, HubTypeOK
    <3>3. ~(joinWithoutTarget(s, c, r) \/ joinNoSlot(s, c, r) \/ joinFull(s, c, r))
      BY <1>5 DEF joinWithoutTarget, joinNoSlot, joinFull, Returns
    <3> QED BY <1>2, <3>1, <3>2, <3>3 DEF join
  <2> QED BY <1>3, <1>4, <1>5, <2>1 DEF Announced, inRoom
<1>6. CASE answer' # <<c, "ok">>
  BY <1>3, <1>4, <1>6 DEF Announced
<1> QED BY <1>5, <1>6

(* After a leave the client is not a member, whether it was one or not.    *)
LEMMA LeaveAnnounced ==
  ASSUME RelayInv, NEW c \in Client, routeLeave(c)
  PROVE  Announced(c)'
<1> DEFINE s == scopeOf(msg[c])
           r == msg[c].target
<1>0. RelayTypeOK /\ HubTypeOK /\ Mirrored
  BY HubInvImplies DEF RelayInv, HubInv
<1>1. s \in Scope
  <2>1. msg[c] \in Envelope /\ msg[c].scope # "bad"
    BY DEF RelayInv, Carried, routeLeave, routing
  <2> QED BY <2>1 DEF Envelope, scopeOf, Scope
<1>2. leave(s, c, r)
  BY DEF routeLeave
<1>3. pc'[c] = "reply" /\ out'[c] = frame("left", c)
  BY <1>0 DEF routeLeave, replyWith, goto, RelayTypeOK
<1>4. out'[c].scope = s /\ out'[c].target = r /\ out'[c].type = "left"
  BY <1>3 DEF frame
<1> HIDE DEF s, r
<1>5. r \in mine[s][c] => r \in DOMAIN rooms[s]
  BY <1>0, <1>1 DEF Mirrored, Members, HubTypeOK
<1>6. mine'[s][c] = mine[s][c] \ ({r} \cap DOMAIN rooms[s])
  BY <1>0, <1>1, <1>2 DEF leave, HubTypeOK
<1> QED BY <1>3, <1>4, <1>5, <1>6 DEF Announced, inRoom

(* The goroutine that takes a step.                                        *)
LEMMA AnnouncedOwn ==
  ASSUME RelayInv, NEW c \in Client, HubCall(c) \/ Quiet(c), Announced(c)
  PROVE  Announced(c)'
<1>0. RelayTypeOK /\ CarriedBy(c)
  BY DEF RelayInv, Carried, CarriedBy
<1>1. CASE pc'[c] \notin {"reply", "broadcast", "deliver"}
  BY <1>1 DEF Announced
<1>2. CASE pc'[c] = pc[c] /\ out'[c] = out[c] /\ UNCHANGED hubVars
  BY <1>2 DEF Announced, hubVars, inRoom
<1>3. CASE HubCall(c)
  <2>1. CASE Accept(c) \/ LeaveAll(c) \/ Unregister(c)
    BY <1>0, <1>1, <2>1 DEF Accept, LeaveAll, Unregister, goto, RelayTypeOK
  <2> QED BY <1>3, <2>1, JoinAnnounced, LeaveAnnounced DEF HubCall
<1>4. CASE WriteFrame(c) \/ WriteFails(c) \/ PingFails(c) \/ QueueClosed(c)
           \/ ConnFails(c)
  <2>1. UNCHANGED hubVars
    BY <1>4, QuietStep DEF Quiet
  <2> QED BY <1>2, <1>4, <2>1
          DEF WriteFrame, WriteFails, PingFails, QueueClosed, ConnFails, writerReturns
<1>5. CASE ReadMessage(c) \/ ReadError(c) \/ Disconnect(c) \/ Close(c)
  BY <1>0, <1>1, <1>5 DEF ReadMessage, ReadError, Disconnect, Close, goto, RelayTypeOK
<1>6. CASE Welcome(c) \/ Whisper(c) \/ Echo(c)
  BY <1>0, <1>1, <1>6, TrySendMoves DEF Welcome, Whisper, Echo
<1>7. ASSUME out'[c].type \in {"error", "pong", "message"}
      PROVE  Announced(c)'
  BY <1>7 DEF Announced
<1>8. CASE routeLocal(c)
  <2>1. PICK type \in {"error", "pong"} : replyWith(c, plain(type, c))
    BY <1>8 DEF routeLocal
  <2>2. out'[c] = plain(type, c)
    BY <1>0, <2>1 DEF replyWith, RelayTypeOK
  <2>3. plain(type, c).type = type
    BY DEF plain
  <2> QED BY <1>7, <2>2, <2>3
<1>9. CASE routeSend(c)
  <2>1. PICK type \in {"error", "message"} : out' = [out EXCEPT ![c] = frame(type, c)]
    BY <1>9 DEF routeSend, replyWith
  <2>2. out'[c] = frame(type, c)
    BY <1>0, <2>1 DEF RelayTypeOK
  <2> QED BY <1>7, <2>2 DEF frame
<1>10. CASE routeWhisper(c)
  <2>1. CASE replyWith(c, plain("error", c))
    <3>1. out'[c] = plain("error", c)
      BY <1>0, <2>1 DEF replyWith, RelayTypeOK
    <3>2. plain("error", c).type = "error"
      BY DEF plain
    <3> QED BY <1>7, <3>1, <3>2
  <2>2. CASE goto(c, "whisper")
    BY <1>0, <1>1, <2>2 DEF goto, RelayTypeOK
  <2> QED BY <1>10, <2>1, <2>2 DEF routeWhisper
<1>11. CASE Reply(c)
  <2>1. pc[c] = "reply" /\ out[c] \in Frame /\ UNCHANGED hubVars
    BY <1>0, <1>11 DEF Reply, CarriedBy
  <2>2. CASE out[c].type \in {"joined", "left"}
    <3>1. pc'[c] \in {"broadcast", "defer"}
      BY <1>0, <1>11, <2>2, TrySendMoves DEF Reply
    <3>2. out' = [out EXCEPT ![c].type =
                    IF @ = "joined" THEN "system joined" ELSE "system left"]
      BY <1>11, <2>2 DEF Reply
    <3>3. /\ out'[c].scope = out[c].scope /\ out'[c].target = out[c].target
          /\ out'[c].type = IF out[c].type = "joined" THEN "system joined"
                                                      ELSE "system left"
      BY <1>0, <2>1, <3>2 DEF RelayTypeOK, Frame
    <3>4. mine' = mine
      BY <2>1 DEF hubVars
    <3> QED BY <2>1, <2>2, <3>1, <3>3, <3>4 DEF Announced, inRoom
  <2>3. CASE out[c].type \notin {"joined", "left"}
    BY <1>0, <1>1, <1>11, <2>3, TrySendMoves DEF Reply
  <2> QED BY <2>2, <2>3
<1>12. CASE Broadcast(c)
  <2>1. pc[c] = "broadcast" /\ pc'[c] = "deliver" /\ out' = out /\ mine' = mine
    BY <1>0, <1>12 DEF Broadcast, goto, RelayTypeOK, hubVars
  <2> QED BY <2>1 DEF Announced, inRoom
<1>13. ASSUME NEW d \in Client, Deliver(c, d) PROVE Announced(c)'
  <2>1. pc[c] = "deliver" /\ pc'[c] \in {"deliver", "defer"} /\ out' = out /\ mine' = mine
    BY <1>0, <1>13, TrySendMoves DEF Deliver, hubVars
  <2> QED BY <2>1 DEF Announced, inRoom
<1>14. CASE Delivered(c)
  <2>1. goto(c, "echo") \/ goto(c, "read")
    BY <1>14 DEF Delivered
  <2> QED BY <1>0, <1>1, <2>1 DEF goto, RelayTypeOK
<1> QED BY <1>3, <1>4, <1>5, <1>6, <1>8, <1>9, <1>10, <1>11, <1>12, <1>13, <1>14
        DEF Quiet

AllAnnounced == \A c \in Client : Announced(c)

(* Nobody else's step makes an announcement untrue.                        *)
LEMMA AnnouncedStep ==
  RelayInv /\ AllAnnounced /\ [RelayNext \/ AllGone]_vars => AllAnnounced'
<1> SUFFICES ASSUME RelayInv, AllAnnounced, [RelayNext \/ AllGone]_vars
             PROVE  AllAnnounced'
  OBVIOUS
<1>1. ASSUME NEW c \in Client, HubCall(c) \/ Quiet(c), NEW x \in Client
      PROVE  Announced(x)'
  <2>1. Announced(x)
    BY DEF AllAnnounced
  <2>2. CASE x = c
    BY <1>1, <2>1, <2>2, AnnouncedOwn
  <2>3. CASE x # c
    <3>1. pc'[x] = pc[x] /\ out'[x] = out[x]
      BY <1>1, <2>3, Locality DEF RelayInv
    <3>2. (\/ pc[x] \in {"broadcast", "deliver"}
           \/ pc[x] = "reply" /\ out[x].type \in {"joined", "left"})
          => out[x].scope \in Scope
      BY DEF RelayInv, Carried
    <3>3. \A s \in Scope : mine'[s][x] = mine[s][x]
      <4>1. CASE Quiet(c)
        BY <4>1, QuietStep DEF hubVars
      <4>2. CASE HubCall(c)
        BY <1>1, <2>3, <4>2, MembershipLocal
      <4> QED BY <1>1, <4>1, <4>2
    <3>4. CASE \/ pc[x] \in {"broadcast", "deliver"}
               \/ pc[x] = "reply" /\ out[x].type \in {"joined", "left"}
      <4> DEFINE s == out[x].scope
                 r == out[x].target
                 type == out[x].type
      <4>1. /\ out'[x].scope = s /\ out'[x].target = r /\ out'[x].type = type
            /\ mine'[s][x] = mine[s][x]
        <5>1. s \in Scope
          BY <3>2, <3>4
        <5>2. mine'[s][x] = mine[s][x]
          BY <3>3, <5>1
        <5> QED BY <3>1, <5>2
      <4>2. /\ pc[x] = "reply" /\ type = "joined" => r \in mine[s][x]
            /\ pc[x] = "reply" /\ type = "left" => r \notin mine[s][x]
            /\ pc[x] \in {"broadcast", "deliver"} /\ type = "system joined" => r \in mine[s][x]
            /\ pc[x] \in {"broadcast", "deliver"} /\ type = "system left" => r \notin mine[s][x]
        BY <2>1 DEF Announced, inRoom
      <4> HIDE DEF s, r, type
      <4> QED BY <3>1, <4>1, <4>2 DEF Announced, inRoom
    <3>5. CASE ~(\/ pc[x] \in {"broadcast", "deliver"}
                 \/ pc[x] = "reply" /\ out[x].type \in {"joined", "left"})
      BY <3>1, <3>5 DEF Announced
    <3> QED BY <3>4, <3>5
  <2> QED BY <2>2, <2>3
<1>2. CASE RelayNext
  BY <1>1, <1>2, NextSplits DEF AllAnnounced
<1>3. CASE AllGone \/ UNCHANGED vars
  <2>1. UNCHANGED hubVars /\ UNCHANGED relayVars
    BY <1>3 DEF AllGone, vars
  <2> QED BY <2>1 DEF AllAnnounced, Announced, hubVars, relayVars, inRoom
<1> QED BY <1>2, <1>3

(* A notice that somebody joined or left is true for as long as it is      *)
(* being sent, although it is sent after the critical section it reports.  *)
THEOREM NoticesStayTrue == RelaySpec => []NoticesAreTrue
<1>1. RelayInit => AllAnnounced
  BY DEF RelayInit, AllAnnounced, Announced
<1>2. AllAnnounced => NoticesAreTrue
  BY DEF AllAnnounced, Announced, NoticesAreTrue
<1> QED BY <1>1, <1>2, AnnouncedStep, RelayInvariance, PTL DEF RelaySpec

-----------------------------------------------------------------------------
(* Events.                                                                 *)

(* What has been posted for a client, by where its reader is.              *)
PostedFits(c) ==
  /\ posted[c] = "none" <=> pc[c] \in {"idle", "welcome"}
  /\ posted[c] = "disconnect" <=> pc[c] \in {"leaveAll", "unregister", "close", "done"}

AllPostedFit == \A c \in Client : PostedFits(c)

(* How the reader moves when it posts, and between which places otherwise. *)
LEMMA PostsMove ==
  ASSUME RelayTypeOK, NEW c \in Client, HubCall(c) \/ Quiet(c)
  PROVE  \/ /\ posted'[c] = posted[c]
            /\ \/ pc'[c] = pc[c]
               \/ {pc[c], pc'[c]} \subseteq {"idle", "welcome"}
               \/ {pc[c], pc'[c]} \subseteq Serving \ {"welcome"}
               \/ {pc[c], pc'[c]} \subseteq {"leaveAll", "unregister", "close", "done"}
         \/ pc[c] = "welcome" /\ pc'[c] \in {"read", "defer"} /\ posted'[c] = "connect"
         \/ /\ {pc[c], pc'[c]} \subseteq Serving \ {"welcome"}
            /\ posted'[c] = "routed"
         \/ pc[c] = "defer" /\ pc'[c] = "leaveAll" /\ posted'[c] = "disconnect"
<1> USE DEF RelayTypeOK
<1>1. CASE Welcome(c)
  BY <1>1, TrySendMoves DEF Welcome
<1>2. CASE Disconnect(c)
  BY <1>2 DEF Disconnect, goto
<1>3. CASE Accept(c) \/ LeaveAll(c) \/ Unregister(c) \/ Close(c)
  BY <1>3 DEF Accept, LeaveAll, Unregister, Close, goto
<1>4. CASE routeJoin(c) \/ routeLeave(c) \/ routeLocal(c) \/ routeSend(c) \/ routeWhisper(c)
  BY <1>4 DEF routeJoin, routeLeave, routeLocal, routeSend, routeWhisper, routing,
              replyWith, goto, Serving
<1>5. CASE ReadMessage(c) \/ ReadError(c) \/ Broadcast(c)
  BY <1>5 DEF ReadMessage, ReadError, Broadcast, goto, Serving
<1>6. CASE WriteFrame(c) \/ WriteFails(c) \/ PingFails(c) \/ QueueClosed(c)
           \/ ConnFails(c)
  BY <1>6 DEF WriteFrame, WriteFails, PingFails, QueueClosed, ConnFails, writerReturns
<1>7. ASSUME handled(c) \/ UNCHANGED posted
      PROVE  posted'[c] \in {posted[c], "routed"}
  BY <1>7 DEF handled
<1>8. CASE Reply(c) \/ Whisper(c) \/ Echo(c)
  <2>1. {pc[c], pc'[c]} \subseteq Serving \ {"welcome"}
    BY <1>8, SingleSends DEF Serving, Reply, Whisper, Echo
  <2>2. handled(c) \/ UNCHANGED posted
    BY <1>8 DEF Reply, Whisper, Echo
  <2> QED BY <1>7, <2>1, <2>2
<1>9. ASSUME NEW d \in Client, Deliver(c, d)
      PROVE  posted' = posted /\ {pc[c], pc'[c]} \subseteq Serving \ {"welcome"}
  BY <1>9, TrySendMoves DEF Deliver, Serving
<1>10. CASE Delivered(c)
  <2>1. {pc[c], pc'[c]} \subseteq Serving \ {"welcome"}
    BY <1>10 DEF Delivered, goto, Serving
  <2>2. handled(c) \/ UNCHANGED posted
    BY <1>10 DEF Delivered
  <2> QED BY <1>7, <2>1, <2>2
<1> QED BY <1>1, <1>2, <1>3, <1>4, <1>5, <1>6, <1>8, <1>9, <1>10 DEF HubCall, Quiet

(* The webhook hears of every client "connect" first and "disconnect"      *)
(* last, on every path through the handlers, the panic included.           *)
THEOREM EventsAreBracketed == RelaySpec => EventsBracketed
<1> DEFINE Bracketed(c) ==
      posted'[c] # posted[c] =>
        /\ posted[c] # "disconnect"
        /\ posted[c] = "none" <=> posted'[c] = "connect"
<1>1. RelayInit => AllPostedFit
  BY DEF RelayInit, AllPostedFit, PostedFits
<1>2. ASSUME RelayInv, AllPostedFit, NEW c \in Client, HubCall(c) \/ Quiet(c)
      PROVE  \A x \in Client : PostedFits(x)' /\ Bracketed(x)
  <2>1. PostedFits(c)' /\ Bracketed(c)
    <3>1. PostedFits(c) /\ RelayTypeOK
      BY <1>2 DEF AllPostedFit, RelayInv
    <3> QED BY <1>2, <3>1, PostsMove DEF PostedFits, Serving
  <2>2. ASSUME NEW x \in Client \ {c} PROVE PostedFits(x)' /\ Bracketed(x)
    <3>1. pc'[x] = pc[x] /\ posted'[x] = posted[x] /\ PostedFits(x)
      BY <1>2, Locality DEF RelayInv, AllPostedFit
    <3> QED BY <3>1 DEF PostedFits
  <2> QED BY <2>1, <2>2
<1>3. RelayInv /\ AllPostedFit /\ [RelayNext \/ AllGone]_vars
        => AllPostedFit' /\ [\A c \in Client : Bracketed(c)]_vars
  <2> SUFFICES ASSUME RelayInv, AllPostedFit, [RelayNext \/ AllGone]_vars
               PROVE  AllPostedFit' /\ [\A c \in Client : Bracketed(c)]_vars
    OBVIOUS
  <2>1. CASE RelayNext
    <3>1. PICK c \in Client : HubCall(c) \/ Quiet(c)
      BY <2>1, NextSplits
    <3> QED BY <1>2, <3>1 DEF AllPostedFit
  <2>2. CASE AllGone \/ UNCHANGED vars
    <3>1. UNCHANGED vars
      BY <2>2 DEF AllGone
    <3> QED BY <3>1 DEF AllPostedFit, PostedFits, vars, relayVars
  <2> QED BY <2>1, <2>2
<1> QED BY <1>1, <1>3, RelayInvariance, PTL DEF RelaySpec, EventsBracketed

-----------------------------------------------------------------------------
(* Order.                                                                  *)

(* What a handler sends carries the number of its request; "left" is only  *)
(* ever an answer.                                                         *)
Stamped(c) ==
  /\ pc[c] \in {"reply", "broadcast", "deliver", "whisper", "echo"} =>
       out[c].src = c /\ out[c].n = reads[c]
  /\ pc[c] \in {"broadcast", "deliver", "whisper", "echo"} => out[c].type # "left"
  /\ pc[c] = "whisper" => out[c].scope = ""

(* A frame of the current request of s may yet enter the queue of d.       *)
CanSend(s, d) ==
  \/ pc[s] \in {"idle", "welcome", "route", "reply", "whisper"}
  \/ pc[s] = "broadcast" /\ (d # s \/ out[s].type = "message")
  \/ pc[s] = "deliver" /\ (d \in todo[s] \/ (d = s /\ out[s].type = "message"))
  \/ pc[s] = "echo" /\ d = s

(* Only a whisper to oneself is in the queue before another frame of the   *)
(* same request can follow.                                                *)
Fits(f, d) ==
  /\ f.n <= reads[f.src]
  /\ f.n = reads[f.src] /\ CanSend(f.src, d) =>
       pc[f.src] = "echo" /\ f = out[f.src] /\ Twice(f, d)

(* Until it asks for something else, a client that was told it has left is *)
(* not a member.                                                           *)
Kept(f, d) ==
  f.type = "left" =>
    /\ f.src = d /\ f.scope \in Scope
    /\ f.n = reads[d] => ~inRoom(f.scope, d, f.target)

OrderInv ==
  /\ \A c \in Client : Stamped(c)
  /\ \A d \in Client : \A i \in DOMAIN queue[d] :
       Fits(queue[d][i], d) /\ Kept(queue[d][i], d)
  /\ PerSenderOrder
  /\ LeftIsLast

(* Where a goroutine has to be to send the next frame of a request.        *)
LEMMA CanSendMoves ==
  ASSUME RelayInv, NEW c \in Client, HubCall(c) \/ Quiet(c),
         NEW d \in Client, CanSend(c, d)'
  PROVE  \/ ReadMessage(c)
         \/ /\ CanSend(c, d)
            /\ pc[c] = "echo" => pc'[c] = "echo" /\ out'[c] = out[c]
<1> USE DEF CanSend
<1>0. RelayTypeOK /\ CarriedBy(c)
  BY DEF RelayInv, Carried, CarriedBy
<1> USE DEF RelayTypeOK
<1>1. CASE Accept(c) \/ LeaveAll(c) \/ Unregister(c) \/ ReadError(c)
           \/ Disconnect(c) \/ Close(c)
  BY <1>0, <1>1 DEF Accept, LeaveAll, Unregister, ReadError, Disconnect, Close, goto
<1>2. CASE routeJoin(c) \/ routeLeave(c) \/ routeLocal(c) \/ routeSend(c)
           \/ routeWhisper(c)
  BY <1>2 DEF routeJoin, routeLeave, routeLocal, routeSend, routeWhisper, routing
<1>3. CASE WriteFrame(c) \/ WriteFails(c) \/ PingFails(c) \/ QueueClosed(c)
           \/ ConnFails(c)
  BY <1>3 DEF WriteFrame, WriteFails, PingFails, QueueClosed, ConnFails, writerReturns
<1>4. CASE Welcome(c) \/ Echo(c)
  <2>1. pc'[c] \in {"read", "defer"}
    BY <1>0, <1>4, TrySendMoves DEF Welcome, Echo
  <2> QED BY <2>1
<1>5. CASE Reply(c)
  BY <1>5 DEF Reply
<1>6. CASE Whisper(c)
  BY <1>6 DEF Whisper
<1>7. CASE Broadcast(c)
  <2>1. c \notin todo'[c] /\ out' = out /\ pc[c] = "broadcast" /\ pc'[c] = "deliver"
    BY <1>0, <1>7 DEF Broadcast, Recipients, goto
  <2> QED BY <2>1
<1>8. ASSUME NEW x \in Client, Deliver(c, x)
      PROVE  CanSend(c, d) /\ pc[c] = "deliver"
  <2>1. /\ pc[c] = "deliver" /\ out' = out /\ todo'[c] \subseteq todo[c]
        /\ pc'[c] \in {"deliver", "defer"}
    BY <1>0, <1>8, TrySendMoves DEF Deliver
  <2> QED BY <2>1
<1>9. CASE Delivered(c)
  <2>1. /\ pc[c] = "deliver"
        /\ pc'[c] = "read" \/ (pc'[c] = "echo" /\ out[c].type = "message")
    BY <1>0, <1>9 DEF Delivered, goto
  <2> QED BY <2>1
<1> QED BY <1>1, <1>2, <1>3, <1>4, <1>5, <1>6, <1>7, <1>8, <1>9 DEF HubCall, Quiet

(* Only the next request of a client changes its number.                   *)
LEMMA ReadsMove ==
  ASSUME RelayInv, NEW c \in Client, HubCall(c) \/ Quiet(c)
  PROVE  /\ \A x \in Client \ {c} : reads'[x] = reads[x]
         /\ \/ reads'[c] = reads[c] /\ ~ReadMessage(c)
            \/ ReadMessage(c) /\ reads'[c] = reads[c] + 1
<1>0. RelayTypeOK
  BY DEF RelayInv
<1>1. CASE ReadMessage(c)
  BY <1>0, <1>1 DEF ReadMessage, RelayTypeOK
<1>2. CASE ~ReadMessage(c)
  <2>1. reads' = reads
    BY <1>2 DEF HubCall, Quiet, Accept, LeaveAll, Unregister, routeJoin, routeLeave,
                routing, ReadError, Disconnect, Close, routeLocal, routeSend,
                routeWhisper, Welcome, Reply, Broadcast, Deliver, Delivered, Whisper,
                Echo, WriteFrame, WriteFails, PingFails, QueueClosed, ConnFails,
                writerReturns
  <2> QED BY <1>2, <2>1
<1> QED BY <1>1, <1>2

(* The frame of a handler stays stamped.                                   *)
LEMMA StampedStep ==
  ASSUME RelayInv, NEW c \in Client, HubCall(c) \/ Quiet(c),
         \A x \in Client : Stamped(x)
  PROVE  \A x \in Client : Stamped(x)'
<1>0. RelayTypeOK /\ CarriedBy(c) /\ Stamped(c)
  BY DEF RelayInv, Carried, CarriedBy
<1>1. ASSUME NEW x \in Client \ {c} PROVE Stamped(x)'
  <2>1. pc'[x] = pc[x] /\ out'[x] = out[x] /\ reads'[x] = reads[x] /\ Stamped(x)
    BY <1>0, Locality, ReadsMove
  <2> QED BY <2>1 DEF Stamped
<1>2. Stamped(c)'
  <2>1. CASE pc'[c] \notin {"reply", "broadcast", "deliver", "whisper", "echo"}
    BY <2>1 DEF Stamped
  <2>2. CASE /\ out'[c] = out[c] /\ reads'[c] = reads[c]
             /\ pc[c] \in {"reply", "broadcast", "deliver", "whisper", "echo"}
             /\ pc'[c] # "reply" => pc[c] # "reply"
             /\ pc'[c] = "whisper" => pc[c] = "whisper"
    BY <1>0, <2>2 DEF Stamped
  <2>3. CASE HubCall(c) /\ ~routeJoin(c) /\ ~routeLeave(c)
    BY <1>0, <2>1, <2>3 DEF HubCall, Accept, LeaveAll, Unregister, goto, RelayTypeOK
  <2>4. ASSUME reads' = reads, out'[c].src = c, out'[c].n = reads[c],
               pc'[c] = "reply" \/ out'[c].type \in {"message", "whisper"},
               pc'[c] = "whisper" => out'[c].scope = ""
        PROVE  Stamped(c)'
    BY <2>4 DEF Stamped
  <2>5. CASE routeJoin(c)
    <3>1. PICK type \in OutType : replyWith(c, frame(type, c))
      BY <2>5 DEF routeJoin, OutType
    <3>2. out'[c] = frame(type, c) /\ pc'[c] = "reply" /\ reads' = reads
      BY <1>0, <2>5, <3>1 DEF routeJoin, routing, replyWith, goto, RelayTypeOK
    <3>3. out'[c].src = c /\ out'[c].n = reads[c]
      BY <3>2 DEF frame
    <3> QED BY <2>4, <3>2, <3>3
  <2>6. CASE routeLeave(c)
    <3>1. PICK type \in OutType : replyWith(c, frame(type, c))
      BY <2>6 DEF routeLeave, OutType
    <3>2. out'[c] = frame(type, c) /\ pc'[c] = "reply" /\ reads' = reads
      BY <1>0, <2>6, <3>1 DEF routeLeave, routing, replyWith, goto, RelayTypeOK
    <3>3. out'[c].src = c /\ out'[c].n = reads[c]
      BY <3>2 DEF frame
    <3> QED BY <2>4, <3>2, <3>3
  <2>7. CASE routeLocal(c)
    <3>1. PICK type \in OutType : replyWith(c, plain(type, c))
      BY <2>7 DEF routeLocal, OutType
    <3>2. out'[c] = plain(type, c) /\ pc'[c] = "reply" /\ reads' = reads
      BY <1>0, <2>7, <3>1 DEF routeLocal, routing, replyWith, goto, RelayTypeOK
    <3>3. PICK g : g = plain(type, c)
      OBVIOUS
    <3>4. g.src = c /\ g.n = reads[c]
      <4>1. plain(type, c).src = c /\ plain(type, c).n = reads[c]
        BY DEF plain
      <4> QED BY <3>3, <4>1
    <3>5. out'[c] = g
      BY <3>2, <3>3
    <3> QED BY <2>4, <3>2, <3>4, <3>5
  <2>8. CASE routeSend(c)
    <3>1. PICK type \in OutType :
            /\ out' = [out EXCEPT ![c] = frame(type, c)]
            /\ pc'[c] = "reply" \/ type = "message"
      BY <1>0, <2>8 DEF routeSend, replyWith, goto, RelayTypeOK, OutType
    <3>2. out'[c] = frame(type, c) /\ reads' = reads
      BY <1>0, <2>8, <3>1 DEF routeSend, routing, RelayTypeOK
    <3>3. out'[c].src = c /\ out'[c].n = reads[c] /\ out'[c].type = type
      BY <3>2 DEF frame
    <3>4. pc'[c] = "whisper" => out'[c].scope = ""
      BY <1>0, <2>8, <3>2 DEF routeSend, replyWith, goto, plain, RelayTypeOK
    <3> QED BY <2>4, <3>1, <3>2, <3>3, <3>4
  <2>9. CASE routeWhisper(c)
    <3>1. PICK type \in OutType :
            /\ out' = [out EXCEPT ![c] = plain(type, c)]
            /\ pc'[c] = "reply" \/ type = "whisper"
      BY <1>0, <2>9 DEF routeWhisper, replyWith, goto, RelayTypeOK, OutType
    <3>2. out'[c] = plain(type, c) /\ reads' = reads
      BY <1>0, <2>9, <3>1 DEF routeWhisper, routing, RelayTypeOK
    <3>3. PICK g : g = plain(type, c)
      OBVIOUS
    <3>4. g.src = c /\ g.n = reads[c] /\ g.type = type /\ g.scope = ""
      <4>1. /\ plain(type, c).src = c /\ plain(type, c).n = reads[c]
            /\ plain(type, c).type = type /\ plain(type, c).scope = ""
        BY DEF plain
      <4> QED BY <3>3, <4>1
    <3>5. out'[c] = g
      BY <3>2, <3>3
    <3>6. pc'[c] = "reply" \/ type \in {"message", "whisper"}
      BY <3>1
    <3>7. reads' = reads
      BY <3>2
    <3> QED BY <2>4, <3>4, <3>5, <3>6, <3>7
  <2>10. CASE ReadMessage(c) \/ ReadError(c) \/ Disconnect(c) \/ Close(c)
    BY <1>0, <2>1, <2>10 DEF ReadMessage, ReadError, Disconnect, Close, goto, RelayTypeOK
  <2>11. CASE Welcome(c) \/ Echo(c)
    BY <1>0, <2>1, <2>11, TrySendMoves DEF Welcome, Echo
  <2>12. CASE Reply(c)
    <3>1. CASE out[c].type \in {"joined", "left"}
      <4>1. PICK type \in {"system joined", "system left"} :
              out' = [out EXCEPT ![c].type = type]
        BY <2>12, <3>1 DEF Reply
      <4>2. out[c] \in Frame /\ pc[c] = "reply" /\ reads' = reads
        BY <1>0, <2>12 DEF Reply, CarriedBy
      <4>3. out'[c].src = out[c].src /\ out'[c].n = out[c].n /\ out'[c].type = type
        BY <1>0, <4>1, <4>2 DEF RelayTypeOK, Frame
      <4>4. pc'[c] # "whisper"
        <5>1. trySend(c, c, out[c], "broadcast")
          BY <2>12, <3>1 DEF Reply
        <5>2. pc'[c] \in {"broadcast", "defer"}
          BY <1>0, <5>1, TrySendMoves
        <5> QED BY <5>2
      <4> QED BY <1>0, <4>2, <4>3, <4>4 DEF Stamped
    <3>2. CASE out[c].type \notin {"joined", "left"}
      BY <1>0, <2>1, <2>12, <3>2, TrySendMoves DEF Reply
    <3> QED BY <3>1, <3>2
  <2>13. CASE Broadcast(c)
    BY <1>0, <2>2, <2>13 DEF Broadcast, goto, RelayTypeOK
  <2>14. ASSUME NEW d \in Client, Deliver(c, d) PROVE Stamped(c)'
    <3>1. /\ pc[c] = "deliver" /\ pc'[c] \in {"deliver", "defer"}
          /\ out' = out /\ reads' = reads
      BY <1>0, <2>14, TrySendMoves DEF Deliver
    <3> QED BY <2>2, <3>1
  <2>15. CASE Delivered(c)
    BY <1>0, <2>1, <2>2, <2>15 DEF Delivered, goto, RelayTypeOK
  <2>16. CASE Whisper(c)
    <3>1. /\ pc[c] = "whisper" /\ pc'[c] \in {"echo", "defer"}
          /\ out' = out /\ reads' = reads
      BY <1>0, <2>16, TrySendMoves DEF Whisper
    <3> QED BY <2>2, <3>1
  <2>17. CASE WriteFrame(c) \/ WriteFails(c) \/ PingFails(c) \/ QueueClosed(c)
              \/ ConnFails(c)
    <3>1. pc' = pc /\ out' = out /\ reads' = reads
      BY <2>17 DEF WriteFrame, WriteFails, PingFails, QueueClosed, ConnFails,
                   writerReturns
    <3> QED BY <1>0, <3>1 DEF Stamped
  <2> QED BY <2>3, <2>5, <2>6, <2>7, <2>8, <2>9, <2>10, <2>11, <2>12, <2>13, <2>14,
             <2>15, <2>16, <2>17 DEF HubCall, Quiet
<1> QED BY <1>1, <1>2

(* c puts f into the queue of d.                                           *)
Sends(c, d, f) ==
  /\ f \in Frame /\ f.src = c /\ f.n = reads[c]
  /\ queue' = [queue EXCEPT ![d] = Append(@, f)]
  /\ UNCHANGED hubVars
  /\ CanSend(c, d)
  /\ pc[c] = "echo" => f = out[c]
  /\ CanSend(c, d)' => pc'[c] = "echo" /\ f = out'[c] /\ Twice(f, d)
  /\ f.type = "left" => d = c /\ f.scope \in Scope /\ ~inRoom(f.scope, c, f.target)
  /\ d = c \/ f.scope = "" \/ inRoom(f.scope, d, f.target)

(* The writer takes the first frame.                                       *)
Takes(c) ==
  queue[c] # <<>> /\ queue' = [queue EXCEPT ![c] = Tail(@)]

(* A frame that is sent is enqueued or dropped.                            *)
LEMMA TrySendQueues ==
  ASSUME RelayTypeOK, NEW c \in Client, NEW d \in Client, NEW f, NEW next,
         trySend(c, d, f, next)
  PROVE  \/ queue' = queue
         \/ pc'[c] = next /\ queue' = [queue EXCEPT ![d] = Append(@, f)]
<1>1. CASE d \in closed
  BY <1>1 DEF trySend
<1>2. CASE d \notin closed
  <2>1. pc'[c] = next /\ queue' = [queue EXCEPT ![d] = enqueued(queue[d], f)]
    BY <1>2 DEF trySend, goto, RelayTypeOK
  <2>2. CASE Len(queue[d]) < SendBuf
    BY <2>1, <2>2 DEF enqueued
  <2>3. CASE ~(Len(queue[d]) < SendBuf)
    BY <2>1, <2>3 DEF enqueued, RelayTypeOK
  <2> QED BY <2>2, <2>3
<1> QED BY <1>1, <1>2

(* What a step does to the queues.                                         *)
LEMMA QueueMoves ==
  ASSUME RelayInv, AllAnnounced, \A x \in Client : Stamped(x),
         NEW c \in Client, HubCall(c) \/ Quiet(c)
  PROVE  queue' = queue \/ Takes(c) \/ \E d \in Client : \E f : Sends(c, d, f)
<1>0. RelayTypeOK /\ CarriedBy(c) /\ Stamped(c) /\ Announced(c)
  BY DEF RelayInv, Carried, CarriedBy, AllAnnounced
<1>1. CASE HubCall(c) \/ ReadMessage(c) \/ ReadError(c) \/ Disconnect(c) \/ Close(c)
           \/ routeLocal(c) \/ routeSend(c) \/ routeWhisper(c)
           \/ Broadcast(c) \/ Delivered(c) \/ PingFails(c) \/ QueueClosed(c)
           \/ ConnFails(c)
  BY <1>1 DEF HubCall, Accept, LeaveAll, Unregister, routeJoin, routeLeave, ReadMessage,
              ReadError, Disconnect, Close, routeLocal, routeSend, routeWhisper, routing,
              Broadcast, Delivered, PingFails, QueueClosed, ConnFails
<1>2. CASE WriteFrame(c) \/ WriteFails(c)
  BY <1>2 DEF WriteFrame, WriteFails, Takes
<1>3. CASE Quiet(c) /\ queue' # queue
  <2>0. UNCHANGED hubVars
    BY <1>3, QuietStep
  <2>1. CASE Welcome(c)
    <3> DEFINE f == plain("welcome", c)
    <3>1. pc'[c] = "read" /\ queue' = [queue EXCEPT ![c] = Append(@, f)]
      BY <1>0, <1>3, <2>1, TrySendQueues DEF Welcome
    <3>2. f \in Frame /\ f.src = c /\ f.n = reads[c] /\ f.type = "welcome"
      <4>1. f \in Frame
        BY <1>0, PlainType DEF OutType
      <4> QED BY <4>1 DEF plain
    <3>3. pc[c] = "welcome"
      BY <2>1 DEF Welcome
    <3> HIDE DEF f
    <3>4. Sends(c, c, f)
      BY <2>0, <3>1, <3>2, <3>3 DEF Sends, CanSend
    <3> QED BY <3>4
  <2>2. CASE Reply(c)
    <3>0. pc[c] = "reply" /\ out[c] \in Frame /\ out[c].src = c /\ out[c].n = reads[c]
      BY <1>0, <2>2 DEF Reply, CarriedBy, Stamped
    <3>1. CASE out[c].type \in {"joined", "left"}
      <4>1. pc'[c] = "broadcast" /\ queue' = [queue EXCEPT ![c] = Append(@, out[c])]
        <5>1. trySend(c, c, out[c], "broadcast")
          BY <2>2, <3>1 DEF Reply
        <5> QED BY <1>0, <1>3, <5>1, TrySendQueues
      <4>2. PICK type \in {"system joined", "system left"} :
              out' = [out EXCEPT ![c].type = type]
        BY <2>2, <3>1 DEF Reply
      <4>3. out'[c].type # "message"
        BY <1>0, <3>0, <4>2 DEF RelayTypeOK, Frame
      <4>4. CanSend(c, c) /\ ~CanSend(c, c)'
        BY <3>0, <4>1, <4>3 DEF CanSend
      <4>5. out[c].type = "left" =>
              out[c].scope \in Scope /\ ~inRoom(out[c].scope, c, out[c].target)
        BY <1>0, <3>0 DEF CarriedBy, Announced
      <4>6. Sends(c, c, out[c])
        BY <2>0, <3>0, <4>1, <4>4, <4>5 DEF Sends
      <4> QED BY <4>6
    <3>2. CASE out[c].type \notin {"joined", "left"}
      <4>1. pc'[c] = "read" /\ queue' = [queue EXCEPT ![c] = Append(@, out[c])]
        <5>1. trySend(c, c, out[c], "read")
          BY <2>2, <3>2 DEF Reply
        <5> QED BY <1>0, <1>3, <5>1, TrySendQueues
      <4>2. Sends(c, c, out[c])
        BY <2>0, <3>0, <3>2, <4>1 DEF Sends, CanSend
      <4> QED BY <4>2
    <3> QED BY <3>1, <3>2
  <2>3. ASSUME NEW d \in Client, Deliver(c, d)
        PROVE  Sends(c, d, out[c])
    <3>0. /\ pc[c] = "deliver" /\ out[c] \in Frame /\ out[c].src = c
          /\ out[c].n = reads[c] /\ out[c].type # "left" /\ out[c].scope \in Scope
      BY <1>0, <2>3 DEF Deliver, CarriedBy, Stamped
    <3>1. pc'[c] = "deliver" /\ queue' = [queue EXCEPT ![d] = Append(@, out[c])]
      BY <1>0, <1>3, <2>3, TrySendQueues DEF Deliver
    <3>2. d \in todo[c] /\ d \notin todo'[c]
      BY <1>0, <2>3 DEF Deliver, RelayTypeOK
    <3>3. d \in Recipients(out[c].scope, out[c].target, c)
      BY <3>0, <3>2 DEF RelayInv, BroadcastReachesMembers
    <3>4. d # c
      BY <3>3 DEF Recipients
    <3>5. inRoom(out[c].scope, d, out[c].target)
      <4>1. d \in Members(rooms[out[c].scope], out[c].target)
        BY <3>3 DEF Recipients
      <4>2. out[c].target \in Room
        BY <3>0, <4>1 DEF RelayInv, HubInv, HubTypeOK, Tables, Members
      <4> QED BY <3>0, <4>1, <4>2 DEF RelayInv, HubInv, Mirrored, inRoom
    <3>6. CanSend(c, d) /\ ~CanSend(c, d)'
      BY <3>0, <3>1, <3>2, <3>4 DEF CanSend
    <3> QED BY <2>0, <3>0, <3>1, <3>5, <3>6 DEF Sends
  <2>4. CASE Whisper(c)
    <3>0. /\ pc[c] = "whisper" /\ out[c] \in Frame /\ out[c].src = c
          /\ out[c].n = reads[c] /\ out[c].type = "whisper" /\ out[c].scope = ""
          /\ msg[c].to \in Client
      BY <1>0, <2>4 DEF Whisper, CarriedBy, Stamped
    <3>4. PICK d \in Client : d = msg[c].to
      BY <3>0
    <3>1. pc'[c] = "echo" /\ queue' = [queue EXCEPT ![d] = Append(@, out[c])]
      <4>1. trySend(c, d, out[c], "echo") /\ d \in Client
        BY <2>4, <3>4 DEF Whisper
      <4>2. \/ queue' = queue
            \/ pc'[c] = "echo" /\ queue' = [queue EXCEPT ![d] = Append(@, out[c])]
        BY <1>0, <4>1, TrySendQueues
      <4> QED BY <1>3, <4>2
    <3>2. out' = out
      BY <2>4 DEF Whisper
    <3>3. Sends(c, d, out[c])
      BY <2>0, <3>0, <3>1, <3>2 DEF Sends, CanSend, Twice
    <3> QED BY <3>0, <3>3
  <2>5. CASE Echo(c)
    <3>0. /\ pc[c] = "echo" /\ out[c] \in Frame /\ out[c].src = c
          /\ out[c].n = reads[c] /\ out[c].type # "left"
      BY <1>0, <2>5 DEF Echo, CarriedBy, Stamped
    <3>1. pc'[c] = "read" /\ queue' = [queue EXCEPT ![c] = Append(@, out[c])]
      BY <1>0, <1>3, <2>5, TrySendQueues DEF Echo
    <3>2. Sends(c, c, out[c])
      BY <2>0, <3>0, <3>1 DEF Sends, CanSend
    <3> QED BY <3>2
  <2> QED BY <1>1, <1>2, <1>3, <2>1, <2>2, <2>3, <2>4, <2>5 DEF Quiet
<1> QED BY <1>1, <1>2, <1>3

(* The members of a room are only changed by their own requests, and only  *)
(* a join adds to what a client is a member of.                            *)
LEMMA MembershipShrinks ==
  ASSUME RelayInv, NEW c \in Client, HubCall(c) \/ Quiet(c), ~routeJoin(c),
         NEW s \in Scope, NEW x \in Client
  PROVE  mine'[s][x] \subseteq mine[s][x]
<1>0. mine \in [Scope -> [Client -> SUBSET Room]]
  BY DEF RelayInv, HubInv, HubTypeOK
<1>1. CASE Quiet(c)
  BY <1>1, QuietStep DEF hubVars
<1>2. CASE HubCall(c)
  <2>1. CASE Accept(c) \/ Unregister(c)
    BY <2>1 DEF Accept, Unregister, register, unregister
  <2>2. CASE LeaveAll(c)
    BY <1>0, <2>2 DEF LeaveAll, leaveAll
  <2>3. CASE routeLeave(c)
    <3>1. PICK z, r : leave(z, c, r)
      BY <2>3 DEF routeLeave
    <3> QED BY <1>0, <3>1 DEF leave
  <2> QED BY <1>2, <2>1, <2>2, <2>3 DEF HubCall
<1> QED BY <1>1, <1>2

(* What was true of a frame in a queue stays true.                         *)
LEMMA FrameStays ==
  ASSUME RelayInv, NEW c \in Client, HubCall(c) \/ Quiet(c),
         NEW d \in Client, NEW f \in Frame, Fits(f, d), Kept(f, d)
  PROVE  Fits(f, d)' /\ Kept(f, d)'
<1>0. RelayTypeOK /\ f.src \in Client /\ f.n \in Nat
      /\ reads \in [Client -> Nat]
  <2>1. RelayTypeOK
    BY DEF RelayInv
  <2>2. reads \in [Client -> Nat]
    BY <2>1, RelayAssumption DEF RelayTypeOK
  <2> QED BY <2>1, <2>2 DEF Frame
<1>1. reads[f.src] <= reads'[f.src]
  BY <1>0, ReadsMove
<1>2. reads'[f.src] \in Nat
  BY <1>0, ReadsMove
<1>3. Fits(f, d)'
  <2>1. f.n <= reads'[f.src]
    BY <1>0, <1>1, <1>2 DEF Fits
  <2>2. ASSUME f.n = reads'[f.src], CanSend(f.src, d)'
        PROVE  pc'[f.src] = "echo" /\ f = out'[f.src] /\ Twice(f, d)
    <3>1. reads'[f.src] = reads[f.src]
      BY <1>0, <1>1, <1>2, <2>2 DEF Fits
    <3>2. CASE f.src # c
      <4>1. CanSend(f.src, d)
        BY <1>0, <2>2, <3>2, Locality DEF CanSend
      <4>2. pc[f.src] = "echo" /\ f = out[f.src] /\ Twice(f, d)
        BY <2>2, <3>1, <4>1 DEF Fits
      <4> QED BY <1>0, <3>2, <4>2, Locality
    <3>3. CASE f.src = c
      <4>1. ~ReadMessage(c)
        BY <1>0, <3>1, <3>3, ReadsMove
      <4>2. CanSend(c, d) /\ (pc[c] = "echo" => pc'[c] = "echo" /\ out'[c] = out[c])
        BY <2>2, <3>3, <4>1, CanSendMoves
      <4> QED BY <2>2, <3>1, <3>3, <4>2 DEF Fits
    <3> QED BY <3>2, <3>3
  <2> QED BY <2>1, <2>2 DEF Fits
<1>4. Kept(f, d)'
  <2> SUFFICES ASSUME f.type = "left"
               PROVE  /\ f.src = d /\ f.scope \in Scope
                      /\ f.n = reads'[d] => f.target \notin mine'[f.scope][d]
    BY DEF Kept, inRoom
  <2>1. f.src = d /\ f.scope \in Scope
    BY DEF Kept
  <2>2. ASSUME f.n = reads'[d] PROVE f.target \notin mine'[f.scope][d]
    <3>1. reads'[d] = reads[d]
      BY <1>0, <1>1, <1>2, <2>1, <2>2 DEF Fits
    <3>2. f.target \notin mine[f.scope][d]
      BY <2>2, <3>1 DEF Kept, inRoom
    <3>3. CASE routeJoin(c) /\ d # c
      <4>1. HubCall(c)
        BY <3>3 DEF HubCall
      <4> QED BY <2>1, <3>2, <3>3, <4>1, MembershipLocal
    <3>4. ~(routeJoin(c) /\ d = c)
      BY <2>1, <2>2, <3>1 DEF routeJoin, routing, CanSend, Fits
    <3>5. CASE ~routeJoin(c)
      BY <2>1, <3>2, <3>5, MembershipShrinks
    <3> QED BY <3>3, <3>4, <3>5
  <2> QED BY <2>1, <2>2
<1> QED BY <1>3, <1>4

(* A frame of a queue was there before the step, or the step has put it at *)
(* the end.                                                                *)
LEMMA Places ==
  ASSUME RelayTypeOK, NEW c \in Client,
         queue' = queue \/ Takes(c) \/ \E x \in Client : \E f : Sends(c, x, f),
         NEW d \in Client, NEW j \in DOMAIN queue'[d]
  PROVE  \/ \E m \in DOMAIN queue[d] :
              /\ queue'[d][j] = queue[d][m]
              /\ \A i \in DOMAIN queue'[d] : i < j =>
                   \E k \in DOMAIN queue[d] : k < m /\ queue'[d][i] = queue[d][k]
         \/ /\ Sends(c, d, queue'[d][j])
            /\ \A i \in DOMAIN queue'[d] : i < j =>
                 \E k \in DOMAIN queue[d] : queue'[d][i] = queue[d][k]
<1>0. queue \in [Client -> Seq(Frame)] /\ queue[d] \in Seq(Frame)
  BY DEF RelayTypeOK
<1>1. CASE queue'[d] = queue[d]
  BY <1>1
<1>2. CASE queue[d] # <<>> /\ queue'[d] = Tail(queue[d])
  <2>1. /\ DOMAIN queue'[d] = 1 .. Len(queue[d]) - 1
        /\ \A i \in DOMAIN queue'[d] : queue'[d][i] = queue[d][i + 1]
    BY <1>0, <1>2
  <2>2. \A i \in DOMAIN queue'[d] : i + 1 \in DOMAIN queue[d]
    BY <1>0, <2>1
  <2>3. \A i \in DOMAIN queue'[d] : i < j => i + 1 < j + 1
    BY <1>0, <2>1
  <2> QED BY <2>1, <2>2, <2>3
<1>3. ASSUME NEW f, Sends(c, d, f)
      PROVE  \/ \E m \in DOMAIN queue[d] :
                  /\ queue'[d][j] = queue[d][m]
                  /\ \A i \in DOMAIN queue'[d] : i < j =>
                       \E k \in DOMAIN queue[d] : k < m /\ queue'[d][i] = queue[d][k]
             \/ /\ queue'[d][j] = f
                /\ \A i \in DOMAIN queue'[d] : i < j =>
                     \E k \in DOMAIN queue[d] : queue'[d][i] = queue[d][k]
  <2>0. f \in Frame /\ queue'[d] = Append(queue[d], f)
    BY <1>0, <1>3 DEF Sends
  <2>1. /\ DOMAIN queue'[d] = 1 .. Len(queue[d]) + 1
        /\ queue'[d][Len(queue[d]) + 1] = f
        /\ \A i \in DOMAIN queue[d] : queue'[d][i] = queue[d][i]
        /\ DOMAIN queue[d] = 1 .. Len(queue[d]) /\ Len(queue[d]) \in Nat
    BY <1>0, <2>0
  <2>2. \A i \in DOMAIN queue'[d] : i < j => i \in DOMAIN queue[d]
    BY <2>1
  <2>3. CASE j \in DOMAIN queue[d]
    BY <2>1, <2>2, <2>3
  <2>4. CASE j \notin DOMAIN queue[d]
    <3>1. j = Len(queue[d]) + 1
      BY <2>1, <2>4
    <3> QED BY <2>1, <2>2, <3>1
  <2> QED BY <2>3, <2>4
<1>4. CASE Takes(c)
  BY <1>0, <1>1, <1>2, <1>4 DEF Takes
<1>5. ASSUME NEW x \in Client, NEW f, Sends(c, x, f), x # d
      PROVE  queue'[d] = queue[d]
  BY <1>0, <1>5 DEF Sends
<1> QED BY <1>1, <1>3, <1>4, <1>5

(* Every step of a connection preserves the order of all queues.           *)
LEMMA OrderStep ==
  ASSUME RelayInv, AllAnnounced, OrderInv, NEW c \in Client, HubCall(c) \/ Quiet(c)
  PROVE  OrderInv'
<1>0. RelayTypeOK /\ RelayTypeOK' /\ reads \in [Client -> Nat]
  BY RelayTypes, RelayAssumption DEF RelayInv, RelayTypeOK
<1>1. (\A x \in Client : Stamped(x)) /\ (\A x \in Client : Stamped(x)')
  BY StampedStep DEF OrderInv
<1>2. queue' = queue \/ Takes(c) \/ \E d \in Client : \E f : Sends(c, d, f)
  BY <1>1, QueueMoves
<1>3. \A d \in Client : /\ queue[d] \in Seq(Frame) /\ queue'[d] \in Seq(Frame)
                        /\ \A i \in DOMAIN queue[d] : queue[d][i] \in Frame
                        /\ \A i \in DOMAIN queue'[d] : queue'[d][i] \in Frame
  BY <1>0 DEF RelayTypeOK
<1>4. ASSUME NEW d \in Client, NEW g \in Frame, NEW i \in DOMAIN queue[d], g = queue[d][i]
      PROVE  Fits(g, d) /\ Kept(g, d)
  BY <1>4 DEF OrderInv, Fits, Kept
<1>5. ASSUME NEW d \in Client, NEW g \in Frame, Sends(c, d, g)
      PROVE  /\ Fits(g, d)' /\ Kept(g, d)'
             /\ g.type = "left" => d = c /\ g.scope \in Scope
  <2>1. ~ReadMessage(c)
    BY <1>5 DEF Sends, ReadMessage, CanSend
  <2>2. reads'[c] = reads[c] /\ reads[c] \in Nat
    BY <1>0, <2>1, ReadsMove
  <2>3. mine' = mine /\ g.src = c /\ g.n = reads[c]
    BY <1>5 DEF Sends, hubVars
  <2>4. Fits(g, d)'
    <3>1. CanSend(g.src, d)' <=> CanSend(c, d)'
      BY <2>3
    <3>2. CanSend(c, d)' => pc'[c] = "echo" /\ g = out'[c] /\ Twice(g, d)
      BY <1>5 DEF Sends
    <3> QED BY <2>2, <2>3, <3>1, <3>2 DEF Fits
  <2> QED BY <1>5, <2>2, <2>3, <2>4 DEF Sends, Kept, inRoom
<1>6. ASSUME NEW d \in Client, NEW j \in DOMAIN queue'[d]
      PROVE  (Fits(queue[d][j], d) /\ Kept(queue[d][j], d))'
  <2>1. PICK g \in Frame : g = queue'[d][j]
    BY <1>3
  <2>2. (\E m \in DOMAIN queue[d] : g = queue[d][m]) \/ Sends(c, d, g)
    BY <1>0, <1>2, <2>1, Places
  <2>3. Fits(g, d)' /\ Kept(g, d)'
    BY <1>4, <1>5, <2>2, FrameStays
  <2> QED BY <2>1, <2>3 DEF Fits, Kept
<1>7. PerSenderOrder'
  <2> SUFFICES ASSUME NEW d \in Client, NEW i \in DOMAIN queue'[d],
                      NEW j \in DOMAIN queue'[d], i < j,
                      queue'[d][i].src = queue'[d][j].src
               PROVE  \/ queue'[d][i].n < queue'[d][j].n
                      \/ queue'[d][i] = queue'[d][j] /\ Twice(queue'[d][i], d)
    BY DEF PerSenderOrder, Twice
  <2>1. CASE \E k, m \in DOMAIN queue[d] :
               k < m /\ queue'[d][i] = queue[d][k] /\ queue'[d][j] = queue[d][m]
    BY <2>1 DEF OrderInv, PerSenderOrder
  <2>2. CASE /\ Sends(c, d, queue'[d][j])
             /\ \E k \in DOMAIN queue[d] : queue'[d][i] = queue[d][k]
    <3>1. PICK g \in Frame, h \in Frame : g = queue'[d][i] /\ h = queue'[d][j]
      BY <1>3
    <3>2. Fits(g, d) /\ Sends(c, d, h) /\ g.src = h.src
      BY <1>4, <2>2, <3>1
    <3>3. /\ g.src = c /\ h.n = reads[c] /\ CanSend(c, d)
          /\ pc[c] = "echo" => h = out[c]
      BY <3>2 DEF Sends
    <3>4. g.n \in Nat /\ reads[c] \in Nat
      BY <1>0 DEF Frame
    <3>5. g.n <= reads[c] /\ (g.n = reads[c] => pc[c] = "echo" /\ g = out[c] /\ Twice(g, d))
      BY <3>2, <3>3 DEF Fits
    <3>6. g.n < h.n \/ (g = h /\ Twice(g, d))
      BY <3>3, <3>4, <3>5
    <3> QED BY <3>1, <3>6
  <2> QED BY <1>0, <1>2, <2>1, <2>2, Places
<1>8. LeftIsLast'
  <2> SUFFICES ASSUME NEW d \in Client, NEW i \in DOMAIN queue'[d],
                      NEW j \in DOMAIN queue'[d], i < j,
                      queue'[d][i].type = "left", queue'[d][i].n = reads'[d],
                      <<queue'[d][j].scope, queue'[d][j].target>> =
                        <<queue'[d][i].scope, queue'[d][i].target>>
               PROVE  queue'[d][j].src = d
    BY DEF LeftIsLast
  <2>0. PICK g \in Frame, h \in Frame : g = queue'[d][i] /\ h = queue'[d][j]
    BY <1>3
  <2>1. ASSUME \E k \in DOMAIN queue[d] : g = queue[d][k]
        PROVE  /\ g.n = reads[d]
               /\ g.scope \in Scope /\ ~inRoom(g.scope, d, g.target)
    <3>1. Fits(g, d) /\ Kept(g, d)
      BY <1>4, <2>1
    <3>2. g.src = d /\ g.n <= reads[d] /\ g.n = reads'[d]
      BY <2>0, <3>1 DEF Fits, Kept
    <3>3. reads'[d] >= reads[d] /\ reads[d] \in Nat /\ reads'[d] \in Nat
      BY <1>0, ReadsMove
    <3>4. g.n = reads[d]
      BY <3>2, <3>3
    <3> QED BY <2>0, <3>1, <3>4 DEF Kept
  <2>2. CASE \E k, m \in DOMAIN queue[d] :
               k < m /\ queue'[d][i] = queue[d][k] /\ queue'[d][j] = queue[d][m]
    BY <2>0, <2>1, <2>2 DEF OrderInv, LeftIsLast
  <2>3. CASE /\ Sends(c, d, queue'[d][j])
             /\ \E k \in DOMAIN queue[d] : queue'[d][i] = queue[d][k]
    <3>1. h.src = c /\ (d = c \/ h.scope = "" \/ inRoom(h.scope, d, h.target))
      BY <2>0, <2>3 DEF Sends
    <3>2. h.scope = g.scope /\ h.target = g.target
      BY <2>0
    <3>3. g.scope \in Scope /\ ~inRoom(g.scope, d, g.target)
      BY <2>0, <2>1, <2>3
    <3>4. d = c
      BY <3>1, <3>2, <3>3 DEF Scope
    <3> QED BY <2>0, <3>1, <3>4
  <2> QED BY <1>0, <1>2, <2>2, <2>3, Places
<1> QED BY <1>1, <1>6, <1>7, <1>8 DEF OrderInv

(* The order holds in every reachable state.                               *)
LEMMA OrderInvariance == RelaySpec => []OrderInv
<1>1. RelayInit => AllAnnounced /\ OrderInv
  BY DEF RelayInit, AllAnnounced, Announced, OrderInv, Stamped, PerSenderOrder, LeftIsLast
<1>2. RelayInv /\ AllAnnounced /\ OrderInv /\ [RelayNext \/ AllGone]_vars => OrderInv'
  <2> SUFFICES ASSUME RelayInv, AllAnnounced, OrderInv, [RelayNext \/ AllGone]_vars
               PROVE  OrderInv'
    OBVIOUS
  <2>1. CASE RelayNext
    BY <2>1, NextSplits, OrderStep
  <2>2. CASE AllGone \/ UNCHANGED vars
    <3>1. UNCHANGED hubVars /\ UNCHANGED relayVars
      BY <2>2 DEF AllGone, vars
    <3>2. /\ pc' = pc /\ out' = out /\ todo' = todo /\ queue' = queue
          /\ reads' = reads /\ mine' = mine
      BY <3>1 DEF hubVars, relayVars
    <3>3. \A s, d : CanSend(s, d)' <=> CanSend(s, d)
      BY <3>2 DEF CanSend
    <3>4. \A f, d : (Fits(f, d)' <=> Fits(f, d)) /\ (Kept(f, d)' <=> Kept(f, d))
      BY <3>2, <3>3 DEF Fits, Kept, inRoom
    <3>5. \A x : Stamped(x)' <=> Stamped(x)
      BY <3>2 DEF Stamped
    <3> QED BY <3>2, <3>4, <3>5 DEF OrderInv, PerSenderOrder, LeftIsLast
  <2> QED BY <2>1, <2>2
<1> QED BY <1>1, <1>2, AnnouncedStep, RelayInvariance, PTL DEF RelaySpec

(* What one client sends another arrives in the order in which it was      *)
(* sent, and at most once, however much a full queue drops in between.     *)
THEOREM SendersKeepOrder == RelaySpec => []PerSenderOrder
BY OrderInvariance, PTL DEF OrderInv

(* After the answer to a leave nothing of that room comes from anybody     *)
(* else, for any number of broadcasts that were under way.                 *)
THEOREM NothingAfterLeft == RelaySpec => []LeftIsLast
BY OrderInvariance, PTL DEF OrderInv
=============================================================================
