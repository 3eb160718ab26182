-------------------------- MODULE HeartbeatProofs --------------------------
(***************************************************************************)
(* The clock of a connection for all deadlines and periods.  A lost peer   *)
(* is given up in time whatever the constants are; a peer that is alive is *)
(* kept if the ping period leaves a margin for what can delay a ping: the  *)
(* write under way when the tick comes, MaxPassed writes that select       *)
(* prefers, the ping itself, and the way there and back (Margin).          *)
(***************************************************************************)
EXTENDS Heartbeat, Integers, TLAPS

Margin == pingPeriod + (MaxPassed + 2) * MaxWrite + MaxDelay < pongWait

(* The longest time until the next ping is certain to be written.          *)
Due ==
  IF writer = "ping" THEN MaxWrite - writeAge
  ELSE IF ~tick THEN tickLeft + (MaxPassed + 2) * MaxWrite
  ELSE (MaxPassed - passed + 1) * MaxWrite
       + IF writer = "frame" THEN MaxWrite - writeAge ELSE 0

(* Some pong will be read before the deadline.                             *)
Timely ==
  \/ \E a \in flight : readLeft > MaxDelay - a
  \/ readLeft > Due + MaxDelay

(* While the peer is alive nobody gives up.                                *)
Kept ==
  alive => /\ reader # "left" /\ writer # "returned" /\ conn = "open"
           /\ Writing => writeAge <= MaxWrite
           /\ ~tick => passed = 0
           /\ Timely

(* A pong that is still on its way was sent before the loss; after that    *)
(* nothing moves the deadline.                                             *)
Expiring ==
  ~alive /\ reader # "left" =>
    /\ \A a \in flight : deadFor <= a
    /\ \/ deadFor + readLeft <= MaxDelay + pongWait
       \/ /\ readLeft = 0
          /\ deadFor <= MaxDelay + pongWait
                        + IF reader = "busy" THEN busy ELSE MaxBusy

(* What has not happened is counted as zero, and a peer that is alive      *)
(* takes a write within MaxWrite.                                          *)
Counted ==
  /\ alive => deadFor = 0 /\ writeAge <= MaxWrite
  /\ reader # "busy" => busy = 0

TypeInv == HeartbeatTypeOK /\ Counted

-----------------------------------------------------------------------------
LEMMA InitTypeInv == Init => TypeInv
<1> SUFFICES ASSUME Init PROVE TypeInv
  OBVIOUS
<1>1. alive \in BOOLEAN /\ tick \in BOOLEAN
  BY DEF Init
<1>2. /\ readLeft \in 0 .. pongWait /\ busy \in 0 .. MaxBusy
      /\ writeAge \in 0 .. writeWait /\ passed \in 0 .. MaxPassed
      /\ tickLeft \in 1 .. pingPeriod
  BY HeartbeatAssumption DEF Init
<1>3. Counted
  BY HeartbeatAssumption DEF Init, Counted
<1> QED BY <1>1, <1>2, <1>3 DEF Init, HeartbeatTypeOK, TypeInv

LEMMA NextTypeInv == TypeInv /\ [Next \/ Stopped]_vars => TypeInv'
<1> SUFFICES ASSUME TypeInv, [Next \/ Stopped]_vars
             PROVE  TypeInv'
  OBVIOUS
<1> USE HeartbeatAssumption DEF TypeInv, HeartbeatTypeOK, Counted
<1>1. CASE FrameRead
  BY <1>1 DEF FrameRead, peerVars, writerVars, tickVars
<1>2. CASE FramesHandled
  BY <1>2 DEF FramesHandled, peerVars, writerVars, tickVars
<1>3. CASE PongRead
  BY <1>3 DEF PongRead, peerVars, writerVars, tickVars
<1>4. CASE ReadFails
  BY <1>4 DEF ReadFails, peerVars, writerVars, tickVars
<1>5. CASE TakeFrame
  BY <1>5 DEF TakeFrame, peerVars, readerVars
<1>6. CASE TakeTick
  <2>1. tick' \in BOOLEAN
    BY <1>6 DEF TakeTick
  <2> QED BY <1>6, <2>1 DEF TakeTick, peerVars, readerVars
<1>7. CASE Written
  BY <1>7 DEF Written, Writing, peerVars, readerVars, tickVars
<1>8. CASE WriteFails
  BY <1>8 DEF WriteFails, writerReturns, peerVars, readerVars, tickVars
<1>9. CASE QueueClosed
  BY <1>9 DEF QueueClosed, writerReturns, peerVars, readerVars, tickVars
<1>10. CASE PeerLost
  <2>1. alive' \in BOOLEAN /\ ~alive'
    BY <1>10 DEF PeerLost
  <2> QED BY <1>10, <2>1 DEF PeerLost, readerVars, writerVars, tickVars
<1>11. CASE Tick
  <2> USE <1>11 DEF Tick
  <2>1. /\ busy' \in 0 .. MaxBusy /\ readLeft' \in 0 .. pongWait
        /\ reader' # "busy" => busy' = 0
    BY DEF Urgent
  <2>2. writeAge' \in 0 .. writeWait /\ (alive' => writeAge' <= MaxWrite)
    <3>1. CASE alive
      BY <3>1 DEF Urgent
    <3>2. CASE ~alive
      BY <3>2 DEF Urgent
    <3> QED BY <3>1, <3>2
  <2>3. tickLeft' \in 1 .. pingPeriod
    BY DEF TickerRuns
  <2>4. tick' \in BOOLEAN
    <3>1. CASE writer # "returned" /\ tickLeft = 1
      BY <3>1 DEF TickerRuns
    <3>2. CASE ~(writer # "returned" /\ tickLeft = 1)
      <4>1. tick' = tick
        BY <3>2, Zenon DEF TickerRuns
      <4> QED BY <4>1, Zenon
    <3> QED BY <3>1, <3>2
  <2>5. flight' \subseteq 0 .. MaxDelay
    <3>1. CASE reader = "left"
      BY <3>1
    <3>2. CASE reader # "left"
      <4>1. MaxDelay \notin flight
        BY <3>2 DEF Urgent
      <4>2. \A a \in flight : a + 1 \in 0 .. MaxDelay
        BY <4>1
      <4>3. flight' = {a + 1 : a \in flight}
        BY <3>2
      <4> QED BY <4>2, <4>3
    <3> QED BY <3>1, <3>2
  <2>6. deadFor' \in Nat /\ (alive' => deadFor' = 0)
    <3>1. CASE alive
      BY <3>1
    <3>2. CASE ~alive
      BY <3>2
    <3> QED BY <3>1, <3>2
  <2> QED BY <2>1, <2>2, <2>3, <2>4, <2>5, <2>6
<1>12. CASE UNCHANGED vars
  BY <1>12 DEF vars, peerVars, readerVars, writerVars, tickVars
<1> QED
  BY <1>1, <1>2, <1>3, <1>4, <1>5, <1>6, <1>7, <1>8, <1>9, <1>10, <1>11, <1>12
  DEF Next, ReaderStep, WriterStep, Stopped

(* Every behaviour of the clock is well-typed: deadlines, write times and  *)
(* unanswered pings stay within their constants.                           *)
THEOREM HeartbeatTypeCorrect == Spec => []HeartbeatTypeOK
<1>1. TypeInv => HeartbeatTypeOK
  BY DEF TypeInv
<1> QED BY InitTypeInv, NextTypeInv, <1>1, PTL DEF Spec

-----------------------------------------------------------------------------
DropInv == TypeInv /\ Expiring

LEMMA NextExpiring == DropInv /\ [Next \/ Stopped]_vars => Expiring'
<1> SUFFICES ASSUME DropInv, [Next \/ Stopped]_vars
             PROVE  Expiring'
  OBVIOUS
<1> USE HeartbeatAssumption DEF DropInv, TypeInv, HeartbeatTypeOK, Counted, Expiring
<1>1. CASE FrameRead
  BY <1>1 DEF FrameRead, peerVars
<1>2. CASE FramesHandled
  BY <1>2 DEF FramesHandled, peerVars
<1>3. CASE PongRead
  BY <1>3 DEF PongRead, peerVars
<1>4. CASE ReadFails
  BY <1>4 DEF ReadFails
<1>5. CASE WriterStep
  BY <1>5 DEF WriterStep, TakeFrame, TakeTick, Written, WriteFails, QueueClosed,
              writerReturns, peerVars, readerVars
<1>6. CASE PeerLost
  BY <1>6 DEF PeerLost, readerVars
<1>7. CASE Tick
  <2> SUFFICES ASSUME ~alive', reader' # "left"
               PROVE  /\ \A a \in flight' : deadFor' <= a
                      /\ \/ deadFor' + readLeft' <= MaxDelay + pongWait
                         \/ /\ readLeft' = 0
                            /\ deadFor' <= MaxDelay + pongWait
                                  + IF reader' = "busy" THEN busy' ELSE MaxBusy
    OBVIOUS
  <2>1. ~alive /\ reader # "left" /\ reader' = reader /\ deadFor' = deadFor + 1
    BY <1>7 DEF Tick
  <2>2. \A a \in flight' : deadFor' <= a
    <3>1. flight' = {a + 1 : a \in flight}
      BY <1>7, <2>1 DEF Tick
    <3> QED BY <2>1, <3>1
  <2>3. CASE readLeft > 0 /\ deadFor + readLeft <= MaxDelay + pongWait
    BY <1>7, <2>1, <2>2, <2>3 DEF Tick
  <2>4. CASE readLeft = 0
    <3>1. reader = "busy" /\ busy' = busy + 1 /\ readLeft' = 0
      BY <1>7, <2>1, <2>4 DEF Tick, Urgent
    <3>2. deadFor <= MaxDelay + pongWait + busy
      BY <2>1, <2>4, <3>1
    <3> QED BY <2>1, <2>2, <3>1, <3>2
  <2> QED BY <2>1, <2>3, <2>4
<1>8. CASE UNCHANGED vars
  BY <1>8 DEF vars, peerVars, readerVars
<1> QED
  BY <1>1, <1>2, <1>3, <1>4, <1>5, <1>6, <1>7, <1>8 DEF Next, ReaderStep, Stopped

(* A lost peer is given up within MaxDelay + pongWait + MaxBusy, for every *)
(* choice of the constants: data does not move the read deadline, and the  *)
(* last pong cannot come later than MaxDelay after the loss.               *)
THEOREM DeadPeersDropped == Spec => []DeadPeerDropped
<1>1. Init => DropInv
  BY InitTypeInv DEF Init, DropInv, Expiring
<1>2. DropInv /\ [Next \/ Stopped]_vars => DropInv'
  BY NextTypeInv, NextExpiring DEF DropInv
<1>3. DropInv => DeadPeerDropped
  BY HeartbeatAssumption
  DEF DropInv, TypeInv, HeartbeatTypeOK, Counted, Expiring, DeadPeerDropped
<1> QED BY <1>1, <1>2, <1>3, PTL DEF Spec

-----------------------------------------------------------------------------
KeptInv == TypeInv /\ Kept

(* What the proof needs to know of products with MaxWrite.                 *)
LEMMA Products ==
  /\ \A k \in Nat : k * MaxWrite \in Nat
  /\ \A k \in Nat : (k + 1) * MaxWrite = k * MaxWrite + MaxWrite
  /\ \A j, k \in Nat : j <= k => j * MaxWrite <= k * MaxWrite
<1>1. \A k \in Nat : k * MaxWrite \in Nat
  BY HeartbeatAssumption
<1>2. \A k \in Nat : (k + 1) * MaxWrite = k * MaxWrite + MaxWrite
  BY HeartbeatAssumption
<1>3. ASSUME NEW j \in Nat, NEW k \in Nat, j <= k
      PROVE  j * MaxWrite <= k * MaxWrite
  <2>1. k - j \in Nat /\ (k - j) * MaxWrite \in Nat
    BY <1>1, <1>3
  <2>2. k * MaxWrite = j * MaxWrite + (k - j) * MaxWrite
    BY HeartbeatAssumption, <1>3
  <2> QED BY <1>1, <2>1, <2>2
<1> QED BY <1>1, <1>2, <1>3

(* A ping is never further away than one period and the longest queue of   *)
(* writes before it.                                                       *)
LEMMA DueBounded ==
  ASSUME TypeInv, alive, Writing => writeAge <= MaxWrite
  PROVE  Due \in Nat /\ Due <= pingPeriod + (MaxPassed + 2) * MaxWrite
<1> DEFINE k == MaxPassed - passed
<1> USE HeartbeatAssumption DEF TypeInv, HeartbeatTypeOK
<1>1. k \in Nat /\ k <= MaxPassed
  OBVIOUS
<1>2. /\ (k + 1) * MaxWrite \in Nat
      /\ (k + 1) * MaxWrite + MaxWrite <= (MaxPassed + 2) * MaxWrite
      /\ MaxWrite <= (MaxPassed + 2) * MaxWrite
      /\ (MaxPassed + 2) * MaxWrite \in Nat
  <2>1. (MaxPassed + 2) * MaxWrite = (MaxPassed + 1) * MaxWrite + MaxWrite
    BY Products, (MaxPassed + 1) + 1 = MaxPassed + 2
  <2>2. (k + 1) * MaxWrite <= (MaxPassed + 1) * MaxWrite
    BY <1>1, Products
  <2>3. (k + 1) * MaxWrite \in Nat /\ (MaxPassed + 1) * MaxWrite \in Nat
    BY <1>1, Products
  <2> QED BY <2>1, <2>2, <2>3
<1>3. CASE writer = "ping"
  BY <1>2, <1>3 DEF Due, Writing
<1>4. CASE writer # "ping" /\ ~tick
  BY <1>2, <1>4 DEF Due
<1>5. CASE writer # "ping" /\ tick
  <2>1. Due = (k + 1) * MaxWrite + IF writer = "frame" THEN MaxWrite - writeAge ELSE 0
    BY <1>5 DEF Due
  <2> HIDE DEF k
  <2> QED BY <1>2, <1>5, <2>1 DEF Writing
<1> QED BY <1>3, <1>4, <1>5

(* What a step leaves of Kept when it does not touch the writer's clock.   *)
LEMMA SameDue ==
  ASSUME UNCHANGED <<writerVars, tickVars>>
  PROVE  Due' = Due
BY DEF Due, writerVars, tickVars

LEMMA NextKept ==
  ASSUME Margin, KeptInv, [Next \/ Stopped]_vars, alive'
  PROVE  Kept'
<1> USE HeartbeatAssumption DEF KeptInv, TypeInv, HeartbeatTypeOK
<1>1. alive
  BY DEF Next, ReaderStep, WriterStep, Stopped, FrameRead, FramesHandled, PongRead,
         ReadFails, TakeFrame, TakeTick, Written, WriteFails, QueueClosed,
         writerReturns, PeerLost, Tick, vars, peerVars
<1>2. /\ reader # "left" /\ writer # "returned" /\ conn = "open"
      /\ Writing => writeAge <= MaxWrite
      /\ ~tick => passed = 0
      /\ Timely
  BY <1>1 DEF Kept
<1>3. Due \in Nat /\ Due <= pingPeriod + (MaxPassed + 2) * MaxWrite
  BY <1>1, <1>2, DueBounded
<1>4. readLeft > 0
  BY <1>2, <1>3 DEF Timely
<1>5. ASSUME FrameRead \/ FramesHandled PROVE Kept'
  <2>1. /\ reader' # "left"
        /\ UNCHANGED <<peerVars, readLeft, writerVars, tickVars, flight, conn>>
    BY <1>5 DEF FrameRead, FramesHandled
  <2>2. Timely'
    BY <1>2, <2>1, SameDue DEF Timely
  <2> QED BY <1>2, <2>1, <2>2 DEF Kept, Writing, writerVars, tickVars
<1>6. ASSUME PongRead PROVE Kept'
  <2>1. readLeft' = pongWait /\ UNCHANGED <<peerVars, reader, writerVars, tickVars, conn>>
    BY <1>6 DEF PongRead
  <2>2. (MaxPassed + 2) * MaxWrite \in Nat
    BY Products
  <2>3. readLeft' > Due' + MaxDelay
    BY <1>3, <2>1, <2>2, SameDue DEF Margin
  <2> QED BY <1>2, <2>1, <2>3 DEF Kept, Timely, Writing, writerVars, tickVars
<1>7. ~ReadFails
  BY <1>1, <1>2, <1>4 DEF ReadFails
<1>8. ASSUME TakeFrame PROVE Kept'
  <2>1. Due' = Due
    <3>1. CASE tick
      <4> DEFINE k == MaxPassed - passed
      <4>1. k \in Nat /\ k - 1 \in Nat /\ (k - 1) + 1 = k
        BY <1>8, <3>1 DEF TakeFrame
      <4>2. (k + 1) * MaxWrite = k * MaxWrite + MaxWrite
        BY <4>1, Products
      <4>3. Due = (k + 1) * MaxWrite
        BY <1>8, <3>1, <4>1, Products DEF TakeFrame, Due
      <4>4. MaxPassed - passed' + 1 = k
        BY <1>8, <3>1 DEF TakeFrame
      <4>5. Due' = k * MaxWrite + MaxWrite
        BY <1>8, <3>1, <4>4 DEF TakeFrame, Due
      <4> QED BY <4>2, <4>3, <4>5
    <3>2. CASE ~tick
      BY <1>8, <3>2 DEF TakeFrame, Due
    <3> QED BY <3>1, <3>2
  <2>2. Timely'
    BY <1>2, <1>8, <2>1 DEF Timely, TakeFrame, readerVars
  <2> QED BY <1>2, <1>8, <2>2 DEF Kept, Writing, TakeFrame, readerVars
<1>9. ASSUME TakeTick PROVE Kept'
  <2> DEFINE k == MaxPassed - passed
  <2>1. Due' = MaxWrite
    BY <1>9 DEF TakeTick, Due
  <2>2. Due = (k + 1) * MaxWrite
    BY <1>9, Products DEF TakeTick, Due
  <2>3. k \in Nat /\ (k + 1) * MaxWrite = k * MaxWrite + MaxWrite /\ k * MaxWrite \in Nat
    BY Products
  <2>4. Due' <= Due
    BY <2>1, <2>2, <2>3
  <2>5. Timely'
    BY <1>2, <1>3, <1>9, <2>1, <2>4 DEF Timely, TakeTick, readerVars
  <2> QED BY <1>2, <1>9, <2>5 DEF Kept, Writing, TakeTick, readerVars
<1>10. ASSUME Written PROVE Kept'
  <2>1. Timely'
    <3>1. CASE writer = "ping"
      <4>1. Due >= 0 /\ readLeft' = readLeft /\ flight' = flight \cup {0}
        BY <1>1, <1>3, <1>10, <3>1 DEF Written, readerVars
      <4>2. CASE readLeft > Due + MaxDelay
        <5>1. 0 \in flight' /\ readLeft' > MaxDelay - 0
          BY <1>3, <4>1, <4>2
        <5> QED BY <5>1 DEF Timely
      <4>3. CASE \E a \in flight : readLeft > MaxDelay - a
        BY <4>1, <4>3 DEF Timely
      <4> QED BY <1>2, <4>2, <4>3 DEF Timely
    <3>2. CASE writer # "ping"
      <4>1. writer = "frame" /\ writer' = "select" /\ UNCHANGED <<flight, readLeft, tickVars>>
        BY <1>10, <3>2 DEF Written, Writing, readerVars
      <4>2. Due' <= Due
        <5> DEFINE p == (MaxPassed - passed + 1) * MaxWrite
        <5>1. p \in Nat
          BY Products, MaxPassed - passed + 1 \in Nat
        <5>2. CASE tick
          <6>1. Due = p + (MaxWrite - writeAge) /\ Due' = p + 0
            BY <4>1, <5>2 DEF Due, tickVars
          <6> HIDE DEF p
          <6> QED BY <1>2, <4>1, <5>1, <6>1 DEF Writing
        <5>3. CASE ~tick
          <6>1. Due = tickLeft + (MaxPassed + 2) * MaxWrite /\ Due' = Due
            BY <4>1, <5>3 DEF Due, tickVars
          <6> QED BY <1>3, <6>1
        <5> QED BY <5>2, <5>3
      <4>3. Due' \in Int
        <5>1. CASE tick
          BY <4>1, <5>1, Products DEF Due, tickVars
        <5>2. CASE ~tick
          BY <4>1, <5>2, Products DEF Due, tickVars
        <5> QED BY <5>1, <5>2
      <4>4. CASE readLeft > Due + MaxDelay
        <5>1. readLeft' > Due' + MaxDelay
          <6> DEFINE d == Due
                     e == Due'
          <6>1. d \in Nat /\ e \in Int /\ e <= d /\ readLeft > d + MaxDelay
            BY <1>3, <4>2, <4>3, <4>4
          <6> HIDE DEF d, e
          <6>2. readLeft > e + MaxDelay
            BY <6>1
          <6> QED BY <4>1, <6>2 DEF e
        <5> QED BY <5>1 DEF Timely
      <4>5. CASE \E a \in flight : readLeft > MaxDelay - a
        BY <4>1, <4>5 DEF Timely
      <4> QED BY <1>2, <4>4, <4>5 DEF Timely
    <3> QED BY <3>1, <3>2
  <2> QED BY <1>2, <1>10, <2>1 DEF Kept, Writing, Written, readerVars, tickVars
<1>11. ~WriteFails /\ ~QueueClosed
  BY <1>1, <1>2 DEF WriteFails, QueueClosed
<1>12. ~PeerLost
  BY DEF PeerLost
<1>13. ASSUME Tick PROVE Kept'
  <2> USE <1>13 DEF Tick
  <2>1. readLeft' = readLeft - 1 /\ flight' = {a + 1 : a \in flight}
    BY <1>2, <1>4
  <2>2. Writing' => writeAge' <= MaxWrite
    BY <1>1, <1>2 DEF Urgent, Writing
  <2>3. CASE \E a \in flight : readLeft > MaxDelay - a
    <3>1. PICK a \in flight : readLeft > MaxDelay - a
      BY <2>3
    <3>2. a + 1 \in flight' /\ readLeft' > MaxDelay - (a + 1)
      BY <2>1, <3>1
    <3>3. Timely'
      BY <3>2 DEF Timely
    <3> QED BY <1>2, <2>2, <3>3 DEF Kept, TickerRuns
  <2>4. CASE readLeft > Due + MaxDelay
    <3>1. Due' \in Int /\ Due' <= Due - 1
      <4> DEFINE p == (MaxPassed - passed + 1) * MaxWrite
      <4>1. p \in Nat
        BY Products, MaxPassed - passed + 1 \in Nat
      <4>2. CASE writer = "ping"
        BY <4>2, <1>3 DEF Due, Writing
      <4>3. CASE writer # "ping" /\ tick
        <5>1. writer = "frame" /\ writeAge' = writeAge + 1
          BY <1>2, <4>3 DEF Urgent, Writing
        <5>2. tick'
          BY <1>2, <4>3 DEF TickerRuns
        <5>3. Due = p + (MaxWrite - writeAge) /\ Due' = p + (MaxWrite - writeAge')
          BY <4>3, <5>1, <5>2 DEF Due
        <5> HIDE DEF p
        <5> QED BY <4>1, <5>1, <5>3
      <4>4. CASE writer # "ping" /\ ~tick /\ tickLeft # 1
        <5>1. ~tick' /\ tickLeft' = tickLeft - 1
          BY <1>2, <4>4 DEF TickerRuns
        <5>2. /\ Due = tickLeft + (MaxPassed + 2) * MaxWrite
              /\ Due' = tickLeft - 1 + (MaxPassed + 2) * MaxWrite
          BY <4>4, <5>1 DEF Due
        <5>3. (MaxPassed + 2) * MaxWrite \in Nat
          BY Products
        <5> QED BY <5>2, <5>3
      <4>5. CASE writer # "ping" /\ ~tick /\ tickLeft = 1
        <5>1. tick' /\ passed = 0 /\ passed' = 0
          BY <1>2, <4>5 DEF TickerRuns
        <5>2. Due = 1 + (MaxPassed + 2) * MaxWrite
          BY <4>5 DEF Due
        <5>3. Due' = (MaxPassed + 1) * MaxWrite
                     + IF writer = "frame" THEN MaxWrite - writeAge' ELSE 0
          BY <4>5, <5>1 DEF Due
        <5>4. /\ (MaxPassed + 2) * MaxWrite = (MaxPassed + 1) * MaxWrite + MaxWrite
              /\ (MaxPassed + 1) * MaxWrite \in Nat
          BY Products, (MaxPassed + 1) + 1 = MaxPassed + 2
        <5>5. writeAge' \in Nat
          OBVIOUS
        <5> QED BY <5>2, <5>3, <5>4, <5>5
      <4> QED BY <4>2, <4>3, <4>4, <4>5
    <3>2. Timely'
      <4> DEFINE d == Due
                 e == Due'
      <4>1. d \in Nat /\ e \in Int /\ e <= d - 1 /\ readLeft > d + MaxDelay
        BY <1>3, <2>4, <3>1
      <4> HIDE DEF d, e
      <4>2. readLeft - 1 > e + MaxDelay
        BY <4>1
      <4> QED BY <2>1, <4>2 DEF e, Timely
    <3>3. ~tick' => passed' = 0
      <4>1. ~tick' => ~tick
        BY <1>2 DEF TickerRuns
      <4> QED BY <1>2, <4>1
    <3> QED BY <1>2, <2>2, <3>2, <3>3 DEF Kept
  <2> QED BY <1>2, <2>3, <2>4 DEF Timely
<1>14. CASE UNCHANGED vars
  <2>1. Timely'
    BY <1>2, <1>14, SameDue DEF Timely, vars, readerVars
  <2> QED BY <1>2, <1>14, <2>1 DEF Kept, Writing, vars, readerVars, writerVars, tickVars
<1> QED
  BY <1>5, <1>6, <1>7, <1>8, <1>9, <1>10, <1>11, <1>12, <1>13, <1>14
  DEF Next, ReaderStep, WriterStep, Stopped

(* With the margin a peer that is alive is never given up: at any time     *)
(* there is a ping whose pong will be read before the deadline, or one     *)
(* that will be written early enough for it.                               *)
THEOREM LivePeersKept ==
  ASSUME Margin
  PROVE  Spec => []LivePeerKept
<1>1. Init => KeptInv
  <2> SUFFICES ASSUME Init PROVE KeptInv
    OBVIOUS
  <2>1. Due = pingPeriod + (MaxPassed + 2) * MaxWrite
    BY DEF Init, Due
  <2>2. Timely
    BY <2>1, Products, HeartbeatAssumption DEF Init, Timely, Margin
  <2> QED BY InitTypeInv, <2>2 DEF Init, KeptInv, Kept, Writing
<1>2. KeptInv /\ [Next \/ Stopped]_vars => KeptInv'
  <2> SUFFICES ASSUME KeptInv, [Next \/ Stopped]_vars PROVE Kept'
    BY NextTypeInv DEF KeptInv
  <2>1. CASE alive'
    BY <2>1, NextKept
  <2>2. CASE ~alive'
    BY <2>2 DEF Kept
  <2> QED BY <2>1, <2>2
<1>3. KeptInv => LivePeerKept
  BY DEF KeptInv, Kept, LivePeerKept
<1> QED BY <1>1, <1>2, <1>3, PTL DEF Spec

=============================================================================
