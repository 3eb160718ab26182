----------------------------- MODULE Heartbeat -----------------------------
(***************************************************************************)
(* The clock of one connection (server/client.go): readPump gives up when  *)
(* no pong has been read for pongWait, writePump sends a ping every        *)
(* pingPeriod, unless it is still writing something else, and a write may  *)
(* take up to writeWait.                                                   *)
(*                                                                         *)
(* Time passes in units, one Tick at a time.  What a goroutine does as     *)
(* soon as it can holds up the clock (Urgent).  The peer is alive as long  *)
(* as it takes what is written within MaxWrite and answers every ping      *)
(* within MaxDelay; then it is lost without a word: data may still come,   *)
(* pongs do not, writes return, block or fail.                             *)
(*                                                                         *)
(* The queue and the steps of the teardown are in Relay; here a frame can  *)
(* be ready at any time, and the deferred function of a goroutine is one   *)
(* step.                                                                   *)
(***************************************************************************)
EXTENDS Naturals

CONSTANTS
  pongWait, pingPeriod, writeWait,
  MaxWrite,   \* longest write to a peer that is alive
  MaxDelay,   \* longest time from a ping written to its pong read
  MaxBusy,    \* longest time the reader spends on what one read returned
  MaxPassed   \* bound: frames select prefers in a row to a waiting tick

ASSUME HeartbeatAssumption ==
  /\ pongWait \in Nat \ {0} /\ pingPeriod \in Nat \ {0}
  /\ writeWait \in Nat
  /\ MaxWrite \in Nat /\ MaxWrite < writeWait
  /\ MaxDelay \in Nat /\ MaxBusy \in Nat /\ MaxPassed \in Nat

VARIABLES
  alive,     \* the peer takes writes and answers pings
  deadFor,   \* how long it has been lost
  reader,    \* readPump: in ReadMessage, busy in onReceive, left
  busy,      \* how long the reader has been in onReceive
  readLeft,  \* time left until the read deadline
  writer,    \* writePump: in select, writing a frame or a ping, returned
  writeAge,  \* how long the current write has taken
  tickLeft,  \* time left until the ticker fires
  tick,      \* a tick waits in ticker.C, which holds one
  passed,    \* frames taken since it waits
  flight,    \* ages of the pings whose pong has not been read
  conn       \* the socket: open or closed

peerVars   == <<alive, deadFor>>
readerVars == <<reader, busy, readLeft>>
writerVars == <<writer, writeAge>>
tickVars   == <<tickLeft, tick, passed>>
vars == <<peerVars, readerVars, writerVars, tickVars, flight, conn>>

Init ==
  /\ alive = TRUE /\ deadFor = 0
  /\ reader = "reading" /\ busy = 0 /\ readLeft = pongWait
  /\ writer = "select" /\ writeAge = 0
  /\ tickLeft = pingPeriod /\ tick = FALSE /\ passed = 0
  /\ flight = {}
  /\ conn = "open"

Writing == writer \in {"frame", "ping"}

Ended == reader = "left" /\ writer = "returned"

-----------------------------------------------------------------------------
(* readPump.                                                               *)

(* Broken variant of FrameRead: data extends the read deadline, too.       *)
FrameReadExtends ==
  /\ reader = "reading" /\ readLeft > 0 /\ conn = "open"
  /\ reader' = "busy" /\ busy' = 0
  /\ readLeft' = pongWait
  /\ UNCHANGED <<peerVars, writerVars, tickVars, flight, conn>>

(* ReadMessage returns data.  The deadline stays where it is, and is not   *)
(* looked at again before the next read of the socket.                     *)
FrameRead ==
  /\ reader = "reading" /\ readLeft > 0 /\ conn = "open"
  /\ reader' = "busy" /\ busy' = 0
  /\ UNCHANGED <<peerVars, readLeft, writerVars, tickVars, flight, conn>>

FramesHandled ==
  /\ reader = "busy"
  /\ reader' = "reading" /\ busy' = 0
  /\ UNCHANGED <<peerVars, readLeft, writerVars, tickVars, flight, conn>>

(* Broken variant of PongRead: the pong adds to the time that was left.    *)
PongReadAdds ==
  \E a \in flight :
    /\ reader = "busy" \/ (reader = "reading" /\ readLeft > 0)
    /\ readLeft' = readLeft + pongWait
    /\ flight' = flight \ {a}
    /\ UNCHANGED <<peerVars, reader, busy, writerVars, tickVars, conn>>

(* The pong handler runs inside ReadMessage.  A pong that came with the    *)
(* data being handled is read whether the deadline has passed or not.      *)
PongRead ==
  \E a \in flight :
    /\ reader = "busy" \/ (reader = "reading" /\ readLeft > 0)
    /\ readLeft' = pongWait
    /\ flight' = flight \ {a}
    /\ UNCHANGED <<peerVars, reader, busy, writerVars, tickVars, conn>>

(* Broken variant of ReadFails: the socket and the queue stay open.        *)
ReadFailsOnly ==
  /\ reader = "reading"
  /\ readLeft = 0 \/ conn = "closed" \/ ~alive
  /\ reader' = "left"
  /\ UNCHANGED <<peerVars, busy, readLeft, writerVars, tickVars, flight, conn>>

(* The deadline has passed, the writer has closed the socket, or the loss  *)
(* of the peer shows; the reader closes the queue and the socket.          *)
ReadFails ==
  /\ reader = "reading"
  /\ readLeft = 0 \/ conn = "closed" \/ ~alive
  /\ reader' = "left"
  /\ conn' = "closed"
  /\ UNCHANGED <<peerVars, busy, readLeft, writerVars, tickVars, flight>>

-----------------------------------------------------------------------------
(* writePump.                                                              *)

(* select takes any case that is ready.                                    *)
TakeFrame ==
  /\ writer = "select"
  /\ tick => passed < MaxPassed
  /\ writer' = "frame" /\ writeAge' = 0
  /\ passed' = IF tick THEN passed + 1 ELSE 0
  /\ UNCHANGED <<peerVars, readerVars, tickLeft, tick, flight, conn>>

TakeTick ==
  /\ writer = "select"
  /\ tick
  /\ writer' = "ping" /\ writeAge' = 0
  /\ tick' = FALSE /\ passed' = 0
  /\ UNCHANGED <<peerVars, readerVars, tickLeft, flight, conn>>

Written ==
  /\ Writing /\ conn = "open"
  /\ writer' = "select" /\ writeAge' = 0
  /\ flight' = IF writer = "ping" /\ alive THEN flight \cup {0} ELSE flight
  /\ UNCHANGED <<peerVars, readerVars, tickVars, conn>>

writerReturns ==
  /\ writer' = "returned"
  /\ conn' = "closed"
  /\ UNCHANGED <<peerVars, readerVars, writeAge, tickVars, flight>>

(* The write deadline has passed, the socket is closed, or the loss of the *)
(* peer shows.                                                             *)
WriteFails ==
  /\ Writing
  /\ writeAge = writeWait \/ conn = "closed" \/ ~alive
  /\ writerReturns

(* The reader has closed the queue.                                        *)
QueueClosed ==
  /\ writer = "select" /\ reader = "left" /\ conn = "closed"
  /\ writerReturns

-----------------------------------------------------------------------------
(* The peer and the clock.                                                 *)

(* Pongs that are on their way already may still arrive.                   *)
PeerLost ==
  /\ alive /\ ~Ended
  /\ alive' = FALSE
  /\ flight' \in SUBSET flight
  /\ UNCHANGED <<deadFor, readerVars, writerVars, tickVars, conn>>

(* Something happens before any more time passes.                          *)
Urgent ==
  \/ reader = "reading" /\ (readLeft = 0 \/ conn = "closed")
  \/ reader = "busy" /\ busy = MaxBusy
  \/ reader # "left" /\ MaxDelay \in flight
  \/ writer = "select" /\ (tick \/ conn = "closed")
  \/ Writing /\ conn = "closed"
  \/ Writing /\ writeAge = IF alive THEN MaxWrite ELSE writeWait

(* Broken variant of TickerRuns: a tick nobody waits for is lost.          *)
TickerRunsUnbuffered ==
  IF tickLeft = 1
  THEN tickLeft' = pingPeriod /\ tick' = (tick \/ writer = "select")
  ELSE tickLeft' = tickLeft - 1 /\ UNCHANGED tick

(* time.Ticker keeps its period, and one tick for a slow receiver.         *)
TickerRuns ==
  IF tickLeft = 1
  THEN tickLeft' = pingPeriod /\ tick' = TRUE
  ELSE tickLeft' = tickLeft - 1 /\ UNCHANGED tick

Tick ==
  /\ ~Urgent /\ ~Ended
  /\ deadFor' = IF alive \/ reader = "left" THEN deadFor ELSE deadFor + 1
  /\ busy' = IF reader = "busy" THEN busy + 1 ELSE busy
  /\ readLeft' = IF readLeft = 0 THEN 0 ELSE readLeft - 1
  /\ writeAge' = IF Writing THEN writeAge + 1 ELSE writeAge
  /\ IF writer = "returned" THEN UNCHANGED <<tickLeft, tick>> ELSE TickerRuns
  /\ flight' = IF reader = "left" THEN flight ELSE {a + 1 : a \in flight}
  /\ UNCHANGED <<alive, reader, writer, passed, conn>>

ReaderStep == FrameRead \/ FramesHandled \/ PongRead \/ ReadFails
WriterStep == TakeFrame \/ TakeTick \/ Written \/ WriteFails \/ QueueClosed

Next == ReaderStep \/ WriterStep \/ PeerLost \/ Tick

Stopped == Ended /\ UNCHANGED vars

Spec == Init /\ [][Next \/ Stopped]_vars

(* Time passes and goroutines run.  A select that is offered frames and a  *)
(* tick for ever takes the tick at last (MaxPassed), and nothing is        *)
(* assumed about the peer.                                                 *)
Fairness ==
  /\ WF_vars(Tick)
  /\ WF_vars(FramesHandled) /\ WF_vars(PongRead) /\ WF_vars(ReadFails)
  /\ WF_vars(WriterStep)

FairSpec == Spec /\ Fairness

-----------------------------------------------------------------------------
(* Type correctness: no deadline is further away than its constant, no     *)
(* write outlasts writeWait, no ping is unanswered for longer than the     *)
(* peer may take (client.go, the constants and SetReadDeadline).           *)
HeartbeatTypeOK ==
  /\ alive \in BOOLEAN /\ deadFor \in Nat
  /\ reader \in {"reading", "busy", "left"}
  /\ busy \in 0 .. MaxBusy
  /\ readLeft \in 0 .. pongWait
  /\ writer \in {"select", "frame", "ping", "returned"}
  /\ writeAge \in 0 .. writeWait
  /\ tickLeft \in 1 .. pingPeriod
  /\ tick \in BOOLEAN /\ passed \in 0 .. MaxPassed
  /\ flight \subseteq 0 .. MaxDelay
  /\ conn \in {"open", "closed"}

(* A peer that answers every ping and takes every write is never           *)
(* disconnected by the clock: a ping always goes out early enough for its  *)
(* pong to be read before the deadline, wherever a tick falls between the  *)
(* writes of other frames.  This is so within the bounds MaxWrite,         *)
(* MaxDelay and MaxPassed; select itself promises no MaxPassed (readPump,  *)
(* writePump).                                                             *)
LivePeerKept == alive => reader # "left" /\ writer # "returned"

(* A peer that is lost is given up within a bounded time, even if data     *)
(* keeps coming from it: only pongs move the read deadline (readPump).     *)
DeadPeerDropped ==
  ~alive /\ reader # "left" => deadFor <= MaxDelay + pongWait + MaxBusy

(* The loss of the peer ends both goroutines, whichever of them notices    *)
(* it: the writer tells the reader through the socket, the reader tells    *)
(* the writer through the queue and the socket.                            *)
PeerLossEnds == ~alive ~> Ended

(* What the comment on pongWait says, that it is the time the server waits *)
(* for a pong: a connection whose peer is alive is given up only while a   *)
(* ping is unanswered.                                                     *)
AskedBeforeDropped == alive /\ reader = "left" => flight # {}

=============================================================================
