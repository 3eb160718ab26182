------------------------------- MODULE Relay -------------------------------
(***************************************************************************)
(* The goroutines of one server process: for every connection the reader   *)
(* (wsHandler, readPump, onReceive, routeInbound) and the writer           *)
(* (writePump), the send queue between them, the socket, and the hub they  *)
(* share.  An action is one critical section of h.mu, one channel          *)
(* operation, or one socket call; what a goroutine does between two of     *)
(* these touches only its own state and is merged into the next one.       *)
(*                                                                         *)
(* h.mu is an RWMutex.  Its write sections are single actions of Hub and   *)
(* wait until no broadcast is under way.  A broadcast holds the read lock  *)
(* over many sends, so it is modelled send by send.  The queries getByID,  *)
(* inArea and inChannel are single actions.                                *)
(*                                                                         *)
(* Left out: log lines, display names and payloads (no decision depends on *)
(* them) and failures of json.Marshal on the server's own values.          *)
(***************************************************************************)
EXTENDS Hub, Sequences

CONSTANTS
  Inbound,   \* the frames the peers may send, records of Envelope
  SendBuf,   \* sendBufSize
  MaxReads   \* bound: frames read from one connection

(* An inbound frame as decoded: "garbage" is a frame that is not JSON,     *)
(* "other" a type routeInbound does not know.  The scope "" means area, as *)
(* in the code; "bad" stands for every scope that is neither.              *)
InType == {"join", "leave", "send", "whisper", "ping", "other", "garbage"}

Envelope == [type   : InType,
             scope  : Scope \cup {"", "bad"},
             target : Room \cup {NoTarget},
             to     : Client \cup {NoTarget}]

ASSUME RelayAssumption ==
  /\ Inbound \subseteq Envelope
  /\ NoTarget \notin Client
  /\ SendBuf \in Nat \ {0}
  /\ MaxReads \in Nat

VARIABLES
  pc,      \* where the reader goroutine of a client is
  msg,     \* the inbound frame the reader is working on
  out,     \* the outbound frame the reader is about to enqueue
  todo,    \* members the current broadcast has not reached yet
  queue,   \* the send channel
  writer,  \* the writer goroutine: not started, running, returned
  conn,    \* the socket: none, open, dead (reads fail), closed
  reads,   \* frames read so far; also numbers them
  posted   \* the event last handed to Webhook.Post for the client

relayVars == <<pc, msg, out, todo, queue, writer, conn, reads, posted>>
vars == <<hubVars, relayVars>>

NoMsg   == [type |-> "none", scope |-> "", target |-> NoTarget, to |-> NoTarget]

OutType == {"welcome", "joined", "left", "message", "whisper", "error", "pong",
            "system joined", "system left"}

(* An outbound frame.  src and n say which frame of which client it        *)
(* answers or relays.                                                      *)
Frame == [type   : OutType,
          scope  : Scope \cup {""},
          target : Room \cup {NoTarget},
          src    : Client,
          n      : Nat]

NoFrame == [type |-> "none", scope |-> "", target |-> NoTarget,
            src |-> NoTarget, n |-> 0]

PC == {"idle", "welcome", "read", "route", "reply", "broadcast", "deliver",
       "whisper", "echo", "defer", "leaveAll", "unregister", "close", "done"}

RelayInit ==
  /\ HubInit
  /\ pc     = [c \in Client |-> "idle"]
  /\ msg    = [c \in Client |-> NoMsg]
  /\ out    = [c \in Client |-> NoFrame]
  /\ todo   = [c \in Client |-> {}]
  /\ queue  = [c \in Client |-> <<>>]
  /\ writer = [c \in Client |-> "none"]
  /\ conn   = [c \in Client |-> "none"]
  /\ reads  = [c \in Client |-> 0]
  /\ posted = [c \in Client |-> "none"]

-----------------------------------------------------------------------------
(* The empty scope is an area.                                             *)
scopeOf(m) == IF m.scope = "" THEN "area" ELSE m.scope

frame(type, c) ==
  [type |-> type, scope |-> scopeOf(msg[c]), target |-> msg[c].target,
   src |-> c, n |-> reads[c]]

(* Frames that carry no room.                                              *)
plain(type, c) ==
  [type |-> type, scope |-> "", target |-> NoTarget, src |-> c, n |-> reads[c]]

(* Broken variant of enqueued: the queue has no limit.                     *)
enqueuedAlways(q, f) == Append(q, f)

(* trySend: the frame is dropped when the queue is full.                   *)
enqueued(q, f) == IF Len(q) < SendBuf THEN Append(q, f) ELSE q

goto(c, next) == pc' = [pc EXCEPT ![c] = next]

(* Broken variant of trySend: the sender waits for room in the queue.      *)
trySendBlocking(c, d, f, next) ==
  /\ d \in closed \/ Len(queue[d]) < SendBuf
  /\ IF d \in closed
     THEN goto(c, "defer") /\ UNCHANGED queue
     ELSE goto(c, next) /\ queue' = [queue EXCEPT ![d] = Append(@, f)]

(* Broken variant of trySend: nothing is deferred, so a panic ends the     *)
(* goroutine without any cleanup.                                          *)
trySendNoDefer(c, d, f, next) ==
  IF d \in closed
  THEN goto(c, "done") /\ UNCHANGED queue
  ELSE goto(c, next) /\ queue' = [queue EXCEPT ![d] = enqueued(@, f)]

(* A send on a closed channel panics; the deferred function of readPump    *)
(* runs and net/http recovers.  Otherwise the goroutine goes on to next.   *)
trySend(c, d, f, next) ==
  IF d \in closed
  THEN goto(c, "defer") /\ UNCHANGED queue
  ELSE goto(c, next) /\ queue' = [queue EXCEPT ![d] = enqueued(@, f)]

(* Broken variant of NoReaders: a broadcast does not hold the read lock    *)
(* while it visits the members.                                            *)
NotLocked == TRUE

(* RWMutex: a writer enters when no broadcast holds the read lock.         *)
NoReaders == \A x \in Client : pc[x] # "deliver"

-----------------------------------------------------------------------------
(* wsHandler.                                                              *)

(* Upgrade, newClient and register.                                        *)
Accept(c) ==
  /\ pc[c] = "idle"
  /\ NoReaders
  /\ register(c)
  /\ conn' = [conn EXCEPT ![c] = "open"]
  /\ goto(c, "welcome")
  /\ UNCHANGED <<msg, out, todo, queue, writer, reads, posted>>

(* Broken variant of Welcome: the webhook is not told of the connection.   *)
WelcomeUnreported(c) ==
  /\ pc[c] = "welcome"
  /\ trySend(c, c, plain("welcome", c), "read")
  /\ writer' = [writer EXCEPT ![c] = "running"]
  /\ UNCHANGED <<hubVars, msg, out, todo, conn, reads, posted>>

(* extOnConnect, the welcome frame, and the start of both pumps.           *)
Welcome(c) ==
  /\ pc[c] = "welcome"
  /\ trySend(c, c, plain("welcome", c), "read")
  /\ posted' = [posted EXCEPT ![c] = "connect"]
  /\ writer' = [writer EXCEPT ![c] = "running"]
  /\ UNCHANGED <<hubVars, msg, out, todo, conn, reads>>

-----------------------------------------------------------------------------
(* readPump and onReceive.                                                 *)

(* Frames that arrived before the socket failed can still be in its read   *)
(* buffer, so ReadMessage may succeed whatever the state of the socket.    *)
ReadMessage(c) ==
  /\ pc[c] = "read"
  /\ reads[c] < MaxReads
  /\ \E m \in Inbound : msg' = [msg EXCEPT ![c] = m]
  /\ reads' = [reads EXCEPT ![c] = @ + 1]
  /\ goto(c, "route")
  /\ UNCHANGED <<hubVars, out, todo, queue, writer, conn, posted>>

(* Broken variant of ReadError: the loop goes on after an error.           *)
ReadErrorIgnored(c) ==
  /\ pc[c] = "read"
  /\ conn[c] # "open"
  /\ UNCHANGED vars

(* ReadMessage returns an error: leave the loop.                           *)
ReadError(c) ==
  /\ pc[c] = "read"
  /\ conn[c] # "open"
  /\ goto(c, "defer")
  /\ UNCHANGED <<hubVars, msg, out, todo, queue, writer, conn, reads, posted>>

(* Broken variant of Disconnect: leaveAll is skipped.                      *)
DisconnectUnregisterFirst(c) ==
  /\ pc[c] = "defer"
  /\ posted' = [posted EXCEPT ![c] = "disconnect"]
  /\ goto(c, "unregister")
  /\ UNCHANGED <<hubVars, msg, out, todo, queue, writer, conn, reads>>

(* The deferred function: extOnDisconnect, leaveAll, unregister, Close.    *)
Disconnect(c) ==
  /\ pc[c] = "defer"
  /\ posted' = [posted EXCEPT ![c] = "disconnect"]
  /\ goto(c, "leaveAll")
  /\ UNCHANGED <<hubVars, msg, out, todo, queue, writer, conn, reads>>

LeaveAll(c) ==
  /\ pc[c] = "leaveAll"
  /\ NoReaders
  /\ leaveAll(c)
  /\ goto(c, "unregister")
  /\ UNCHANGED <<msg, out, todo, queue, writer, conn, reads, posted>>

Unregister(c) ==
  /\ pc[c] = "unregister"
  /\ NoReaders
  /\ unregister(c)
  /\ goto(c, "close")
  /\ UNCHANGED <<msg, out, todo, queue, writer, conn, reads, posted>>

Close(c) ==
  /\ pc[c] = "close"
  /\ conn' = [conn EXCEPT ![c] = "closed"]
  /\ goto(c, "done")
  /\ UNCHANGED <<hubVars, msg, out, todo, queue, writer, reads, posted>>

-----------------------------------------------------------------------------
(* routeInbound.                                                           *)

(* What the handlers of one frame leave alone up to its first reply.       *)
routing(c) ==
  /\ pc[c] = "route"
  /\ UNCHANGED <<msg, todo, queue, writer, conn, reads, posted>>

replyWith(c, f) ==
  /\ out' = [out EXCEPT ![c] = f]
  /\ goto(c, "reply")

IsScoped(m) == m.type \in {"join", "leave", "send"}

(* Frames answered without looking at the hub: not JSON, unknown type, a   *)
(* scope that is neither area nor channel, send without target, whisper    *)
(* without addressee, ping.  A send without target is refused before its   *)
(* scope is looked at.                                                     *)
routeLocal(c) ==
  /\ routing(c)
  /\ \/ /\ \/ msg[c].type \in {"garbage", "other"}
           \/ IsScoped(msg[c]) /\ msg[c].scope = "bad"
           \/ msg[c].type = "send" /\ msg[c].target = NoTarget
           \/ msg[c].type = "whisper" /\ msg[c].to = NoTarget
        /\ replyWith(c, plain("error", c))
     \/ /\ msg[c].type = "ping"
        /\ replyWith(c, plain("pong", c))
  /\ UNCHANGED hubVars

routeJoin(c) ==
  /\ routing(c)
  /\ msg[c].type = "join" /\ msg[c].scope # "bad"
  /\ NoReaders \/ msg[c].target = NoTarget
  /\ join(scopeOf(msg[c]), c, msg[c].target)
  /\ replyWith(c, IF answer' = <<c, "ok">> THEN frame("joined", c)
                                           ELSE frame("error", c))

(* Broken variant of routeLeave: the empty scope is not taken for an area, *)
(* so nothing is left and "left" is replied all the same.                  *)
routeLeaveRawScope(c) ==
  /\ routing(c)
  /\ msg[c].type = "leave" /\ msg[c].scope # "bad"
  /\ NoReaders
  /\ IF msg[c].scope = "" THEN UNCHANGED hubVars
     ELSE leave(msg[c].scope, c, msg[c].target)
  /\ replyWith(c, frame("left", c))

(* No membership is required to leave, and "left" is always the reply.     *)
routeLeave(c) ==
  /\ routing(c)
  /\ msg[c].type = "leave" /\ msg[c].scope # "bad"
  /\ NoReaders
  /\ leave(scopeOf(msg[c]), c, msg[c].target)
  /\ replyWith(c, frame("left", c))

(* Broken variant of routeSend: everybody may send.                        *)
routeSendUnchecked(c) ==
  /\ routing(c)
  /\ msg[c].type = "send" /\ msg[c].scope # "bad" /\ msg[c].target # NoTarget
  /\ out' = [out EXCEPT ![c] = frame("message", c)]
  /\ goto(c, "broadcast")
  /\ UNCHANGED hubVars

(* The membership check; the broadcast is a later critical section.        *)
routeSend(c) ==
  /\ routing(c)
  /\ msg[c].type = "send" /\ msg[c].scope # "bad" /\ msg[c].target # NoTarget
  /\ IF inRoom(scopeOf(msg[c]), c, msg[c].target)
     THEN /\ out' = [out EXCEPT ![c] = frame("message", c)]
          /\ goto(c, "broadcast")
     ELSE replyWith(c, frame("error", c))
  /\ UNCHANGED hubVars

(* getByID; the peer is used after the lock has been released.             *)
routeWhisper(c) ==
  /\ routing(c)
  /\ msg[c].type = "whisper" /\ msg[c].to # NoTarget
  /\ IF getByID(msg[c].to)
     THEN /\ out' = [out EXCEPT ![c] = plain("whisper", c)]
          /\ goto(c, "whisper")
     ELSE replyWith(c, plain("error", c))
  /\ UNCHANGED hubVars

(* The handler of the frame returns, by reaching its end or by a panic.    *)
(* Only in the first case does extOnRouted follow, and only for the types  *)
(* routeInbound knows.                                                     *)
handled(c) ==
  /\ posted' = [posted EXCEPT ![c] =
                  IF pc'[c] = "read" /\ msg[c].type \notin {"garbage", "other"}
                  THEN "routed" ELSE @]
  /\ msg' = [msg EXCEPT ![c] = NoMsg]
  /\ out' = [out EXCEPT ![c] = NoFrame]

(* The reply to the requester; a granted join or a leave goes on with the  *)
(* notice to the other members.                                            *)
Reply(c) ==
  /\ pc[c] = "reply"
  /\ IF out[c].type \in {"joined", "left"}
     THEN /\ trySend(c, c, out[c], "broadcast")
          /\ out' = [out EXCEPT ![c].type =
                       IF @ = "joined" THEN "system joined" ELSE "system left"]
          /\ UNCHANGED <<msg, posted>>
     ELSE /\ trySend(c, c, out[c], "read")
          /\ handled(c)
  /\ UNCHANGED <<hubVars, todo, writer, conn, reads>>

(* broadcastArea, broadcastChannel: RLock, then deliver.                   *)
Broadcast(c) ==
  /\ pc[c] = "broadcast"
  /\ todo' = [todo EXCEPT ![c] = Recipients(out[c].scope, out[c].target, c)]
  /\ goto(c, "deliver")
  /\ UNCHANGED <<hubVars, msg, out, queue, writer, conn, reads, posted>>

(* One iteration of the loop in deliver; the map is visited in any order.  *)
Deliver(c, d) ==
  /\ pc[c] = "deliver"
  /\ d \in todo[c]
  /\ trySend(c, d, out[c], "deliver")
  /\ todo' = [todo EXCEPT ![c] = @ \ {d}]
  /\ UNCHANGED <<hubVars, msg, out, writer, conn, reads, posted>>

(* RUnlock.  A message is echoed to its sender, a notice is not.           *)
Delivered(c) ==
  /\ pc[c] = "deliver"
  /\ todo[c] = {}
  /\ IF out[c].type = "message"
     THEN goto(c, "echo") /\ UNCHANGED <<msg, out, posted>>
     ELSE goto(c, "read") /\ handled(c)
  /\ UNCHANGED <<hubVars, todo, queue, writer, conn, reads>>

(* peer.trySend, outside the lock.                                         *)
Whisper(c) ==
  /\ pc[c] = "whisper"
  /\ trySend(c, msg[c].to, out[c], "echo")
  /\ UNCHANGED <<hubVars, msg, out, todo, writer, conn, reads, posted>>

Echo(c) ==
  /\ pc[c] = "echo"
  /\ trySend(c, c, out[c], "read")
  /\ handled(c)
  /\ UNCHANGED <<hubVars, todo, writer, conn, reads>>

-----------------------------------------------------------------------------
(* writePump and the socket.                                               *)

WriteFrame(c) ==
  /\ writer[c] = "running"
  /\ queue[c] # <<>>
  /\ conn[c] # "closed"
  /\ queue' = [queue EXCEPT ![c] = Tail(@)]
  /\ UNCHANGED <<hubVars, pc, msg, out, todo, writer, conn, reads, posted>>

(* writePump returns; its deferred function closes the socket.             *)
writerReturns(c) ==
  /\ writer' = [writer EXCEPT ![c] = "returned"]
  /\ conn' = [conn EXCEPT ![c] = "closed"]
  /\ UNCHANGED <<hubVars, pc, msg, out, todo, reads, posted>>

WriteFails(c) ==
  /\ writer[c] = "running"
  /\ queue[c] # <<>>
  /\ queue' = [queue EXCEPT ![c] = Tail(@)]
  /\ writerReturns(c)

(* The ticker fires; a ping that succeeds changes nothing.                 *)
PingFails(c) ==
  /\ writer[c] = "running"
  /\ writerReturns(c)
  /\ UNCHANGED queue

(* The queue is closed and drained: the Close frame is written.            *)
QueueClosed(c) ==
  /\ writer[c] = "running"
  /\ c \in closed
  /\ queue[c] = <<>>
  /\ writerReturns(c)
  /\ UNCHANGED queue

(* The peer closes, the pong deadline passes, a frame exceeds the read     *)
(* limit: from now on reads fail, writes may still succeed.                *)
ConnFails(c) ==
  /\ conn[c] = "open"
  /\ conn' = [conn EXCEPT ![c] = "dead"]
  /\ UNCHANGED <<hubVars, pc, msg, out, todo, queue, writer, reads, posted>>

-----------------------------------------------------------------------------
(* What the reader goroutine of c does without waiting for its peer.       *)
ReaderStep(c) ==
  \/ Welcome(c) \/ ReadError(c)
  \/ Disconnect(c) \/ LeaveAll(c) \/ Unregister(c) \/ Close(c)
  \/ routeLocal(c) \/ routeJoin(c) \/ routeLeave(c)
  \/ routeSend(c) \/ routeWhisper(c)
  \/ Reply(c) \/ Broadcast(c) \/ (\E d \in Client : Deliver(c, d))
  \/ Delivered(c) \/ Whisper(c) \/ Echo(c)

(* What the writer goroutine of c must do.                                 *)
WriterStep(c) ==
  WriteFrame(c) \/ WriteFails(c) \/ QueueClosed(c)

RelayNext ==
  \E c \in Client :
    \/ Accept(c)
    \/ ReadMessage(c)
    \/ ReaderStep(c)
    \/ WriterStep(c)
    \/ PingFails(c)
    \/ ConnFails(c)

(* Every connection has come and gone.                                     *)
AllGone ==
  /\ \A c \in Client : pc[c] = "done" /\ writer[c] = "returned"
  /\ UNCHANGED vars

RelaySpec == RelayInit /\ [][RelayNext \/ AllGone]_vars

(* The Go scheduler runs every goroutine that can run, and RWMutex lets a  *)
(* waiting writer in before readers that come after it.  The access log is *)
(* written within these steps (extension.go, Access), so the assumption    *)
(* includes that a log sink returns.                                       *)
ReadersRun == \A c \in Client : WF_vars(ReaderStep(c))

(* A socket write returns within writeWait.  A ping on a closed socket     *)
(* fails, and one is sent every pingPeriod.                                *)
WritersRun == \A c \in Client :
                /\ WF_vars(WriterStep(c))
                /\ WF_vars(conn[c] = "closed" /\ PingFails(c))

-----------------------------------------------------------------------------
(* The values the relay's variables take; a queue never exceeds sendBufSize. *)
RelayTypeOK ==
  /\ pc \in [Client -> PC]
  /\ msg \in [Client -> Envelope \cup {NoMsg}]
  /\ out \in [Client -> Frame \cup {NoFrame}]
  /\ todo \in [Client -> SUBSET Client]
  /\ queue \in [Client -> Seq(Frame)]
  /\ \A c \in Client : Len(queue[c]) <= SendBuf
  /\ writer \in [Client -> {"none", "running", "returned"}]
  /\ conn \in [Client -> {"none", "open", "dead", "closed"}]
  /\ reads \in [Client -> 0 .. MaxReads]
  /\ posted \in [Client -> {"none", "connect", "routed", "disconnect"}]

(* A broadcast visits the members one by one while others join, leave and  *)
(* disconnect.  Whoever it has yet to visit is still a member of the room  *)
(* and can still receive, so deliver never sends on a closed channel and   *)
(* never delivers to somebody who has left.                                *)
BroadcastReachesMembers ==
  \A c \in Client :
    pc[c] = "deliver" =>
      todo[c] \subseteq
        Recipients(out[c].scope, out[c].target, c) \cap (clients \ closed)

(* A broadcast is meant for exactly those who are in the room when it      *)
(* begins, its sender excepted, and it does not end before the last of     *)
(* them was offered the frame: no panic cuts it short, and who leaves the  *)
(* loop's set has the frame in its queue, unless that was full.  Nobody's  *)
(* membership changes while it is under way (broadcastArea,                *)
(* broadcastChannel, deliver).                                             *)
BroadcastCompletes ==
  [][\A c \in Client :
       /\ pc[c] # "deliver" /\ pc'[c] = "deliver" =>
            todo'[c] = {d \in Client \ {c} : inRoom(out[c].scope, d, out[c].target)}
       /\ pc[c] = "deliver" =>
            /\ UNCHANGED <<rooms, mine>>
            /\ pc'[c] # "deliver" => todo[c] = {}
            /\ pc'[c] = "deliver" => out'[c] = out[c]
            /\ \A d \in todo[c] \ todo'[c] : queue'[d] = enqueued(queue[d], out[c])]_vars

(* routeSend checks the membership of the sender and releases the lock     *)
(* before it broadcasts.  The answer stays true until the frame has been   *)
(* echoed: only a member's message is relayed.                             *)
SenderStaysMember ==
  \A c \in Client :
    pc[c] \in {"broadcast", "deliver", "echo"} /\ out[c].type = "message" =>
      inRoom(out[c].scope, c, out[c].target)

(* A frame that can be delivered twice: a whisper to oneself.              *)
Twice(f, c) == f.type = "whisper" /\ f.src = c

(* A client sees what one other client sent in the order in which it was   *)
(* sent, each frame at most once, whatever was dropped in between.         *)
PerSenderOrder ==
  \A c \in Client : \A i, j \in DOMAIN queue[c] :
    i < j /\ queue[c][i].src = queue[c][j].src =>
      \/ queue[c][i].n < queue[c][j].n
      \/ queue[c][i] = queue[c][j] /\ Twice(queue[c][i], c)

(* After the answer to its leave request a client gets nothing more of     *)
(* that room from anybody, although broadcasts that include it may be on   *)
(* their way when it asks (routeLeave, leaveArea, deliver); until it asks  *)
(* for something else, that is.                                            *)
LeftIsLast ==
  \A c \in Client : \A i, j \in DOMAIN queue[c] :
    /\ i < j
    /\ queue[c][i].type = "left" /\ queue[c][i].n = reads[c]
    /\ <<queue[c][j].scope, queue[c][j].target>> =
         <<queue[c][i].scope, queue[c][i].target>>
    => queue[c][j].src = c

(* joinArea, leaveArea and the notice about them are separate critical     *)
(* sections.  What a notice says is still true when the broadcast reaches  *)
(* the last member (routeJoin, routeLeave).                                *)
NoticesAreTrue ==
  \A c \in Client : pc[c] \in {"broadcast", "deliver"} =>
    /\ out[c].type = "system joined" => inRoom(out[c].scope, c, out[c].target)
    /\ out[c].type = "system left" => ~inRoom(out[c].scope, c, out[c].target)

(* Every way out of readPump, the panic included, reports the disconnect   *)
(* and gives the client's place up: no goroutine ends while the hub still  *)
(* knows its client, and the webhook hears of everyone who is gone.        *)
NoLeakedClient ==
  \A c \in Client :
    pc[c] = "done" => c \in closed /\ c \notin clients /\ posted[c] = "disconnect"

(* At every call of the hub its client is where the call expects it:       *)
(* register once, joins and leaves and leaveAll while it is registered,    *)
(* unregister after leaveAll; and whatever a handler was doing when its    *)
(* goroutine turned to the deferred function, from leaveAll on the client  *)
(* is in no room (wsHandler, readPump).                                    *)
HubCallsInOrder ==
  \A c \in Client :
    /\ pc[c] = "idle" => stage[c] = "none"
    /\ pc[c] \in {"route", "leaveAll"} => stage[c] = "open"
    /\ pc[c] = "unregister" => stage[c] = "closing"
    /\ pc[c] \in {"unregister", "close", "done"} =>
         \A s \in Scope : mine[s][c] = {}

(* Nothing but a whisper to a peer that has gone tears a handler off       *)
(* before its end: welcome, replies and echoes find the own queue open,    *)
(* for only the own goroutine closes it, and broadcasts find every queue   *)
(* open, for they hold the lock (trySend, unregister).                     *)
OnlyWhispersPanic ==
  [][\A c \in Client : pc[c] # "defer" /\ pc'[c] = "defer" =>
       \/ pc[c] = "read"
       \/ pc[c] = "whisper" /\ msg[c].to \in closed]_vars

(* The webhook hears of a client first "connect" and last "disconnect".    *)
EventsBracketed ==
  [][\A c \in Client : posted'[c] # posted[c] =>
       /\ posted[c] # "disconnect"
       /\ posted[c] = "none" <=> posted'[c] = "connect"]_vars

(* A handler that has begun comes to its end, even if no writer ever takes *)
(* a frame off its queue: only the readers are assumed to run.  A slow     *)
(* client costs frames, never progress (README.md, section 4.1).           *)
HandlersFinish ==
  ReadersRun =>
    \A c \in Client :
      pc[c] \notin {"idle", "read", "done"} ~> pc[c] \in {"read", "done"}

(* Once a socket has failed, both goroutines of the connection end and the *)
(* client is unregistered.                                                 *)
TornDown ==
  ReadersRun /\ WritersRun =>
    \A c \in Client :
      conn[c] \in {"dead", "closed"} ~>
        pc[c] = "done" /\ writer[c] = "returned" /\ c \notin clients

(* A whisper to an addressee that has gone offline is answered with "peer  *)
(* not found" (README.md, section 6).  getByID and peer.trySend are not    *)
(* one critical section.                                                   *)
WhisperPeerOnline ==
  \A c \in Client : pc[c] = "whisper" => msg[c].to \notin closed

(* The welcome frame is the first frame of a connection (README.md, the    *)
(* client examples read it before anything else).                          *)
WelcomeIsFirst ==
  \A c \in Client : pc[c] = "welcome" => queue[c] = <<>>
=============================================================================
