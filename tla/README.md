# Formal specification of ws-server

ws-server is a WebSocket relay written in Go. Clients connect, join *areas* and *channels*, send
messages to them and whisper to each other; the server keeps no data beyond the connections and
reports every event to webhooks. This directory holds TLA+ models of it, TLC runs that check them
on small instances, and TLAPS proofs for all instances.

## 1. The system

| Part | Source | State | Operations |
|------|--------|-------|------------|
| Hub | `server/hub.go` | `clients`; `areas`, `channels`: room → set of members; one RWMutex `mu` | register, unregister, join/leave (area, channel), leaveAll, getByID, inArea/inChannel, broadcast |
| Client, reader | `server/client.go`, `route.go` | memberships `areas`, `channels` (a second copy, guarded by `hub.mu`), `name` | readPump, onReceive, routeInbound and one handler per frame type |
| Client, writer | `server/client.go` | the send channel (256 frames) | writePump: frames, pings, Close frame |
| Accept path | `server/server.go` | the upgrader | wsHandler: upgrade, register, welcome, start of the pumps; health; origin check |
| Heartbeat | `server/client.go` | read deadline, ticker, write deadline | pong handler, ping, the two ends of a connection |
| Hooks | `server/extension.go` | none | extOnConnect, extOnDisconnect, extOnRouted: access log and webhook |
| Webhook | `server/webhook.go` | URL list, `http.Client` without timeout | Post, deliver, logResult |
| Configuration | `config/` | the process environment; the configuration record | LoadFile, Load, LoadLog, Validate, SetListenAddr, ParseWebhookURLs |
| Logging | `logging/` | two files and a database behind one mutex; what is on disk | newLogger, System, Access, Close, migrate |

**Interaction.** Every connection has two goroutines. The *reader* is the HTTP handler itself: it
calls the hub and puts frames into the send channels of its own and of other clients. The *writer*
takes frames off one send channel and writes them to the socket. They share the socket (either may
close it) and the send channel (the reader closes it, through `unregister`). The hub is shared by
all readers. Webhook deliveries run in goroutines of their own and share nothing. A process loads
its configuration, applies `-addr`, opens its log sinks and serves; every goroutine writes through
the one logger. Only the log files and the log database outlive it.

**What is hard about it.**

* Membership is kept twice, once in the hub's tables and once in each client, and is changed by six
  operations.
* `unregister` closes a channel to which other goroutines send. A send on a closed channel panics.
* Handlers look something up under the lock and use the answer after releasing it (`routeSend`,
  `routeWhisper`).
* A broadcast holds the read lock over many sends while writers of the lock wait.
* Queues overflow, sockets fail at any point, and a panic in a handler leaves through the deferred
  function of `readPump`.
* A connection is torn down by two goroutines that learn of the end in different ways.
* A ping waits for whatever the writer is writing, while the read deadline runs; only pongs move it.
* `newLogger` opens up to three sinks in seven steps, each of which can fail or be the last of the
  process; the next start finds what was left. `Close` races with goroutines that log.
* The environment is at the same time a source of the configuration and where the file is loaded to.
* A room is created before the member limit is looked at; 0 means unlimited.

**What makes each part correct.**

* Hub: both copies agree, no empty rooms, limits, only reachable clients are members, nobody comes
  back after leaving; seen from outside, a plain membership relation (`Presence`).
* Connections: no send on a closed channel, only a member's message is relayed, frames of one sender
  keep their order, slow clients cost frames and never progress, every connection ends completely.
* Channel naming: a kind and a target name one channel.
* Webhook: one true result per event and URL, no URL left out.
* Heartbeat: a peer that answers is kept, a lost one is given up in bounded time.
* Configuration: the order of the sources, the same result when loaded again, and what the other
  parts take for granted of a configuration that was accepted.
* Logging: no open sink is left behind or missing, nothing is written to a closed one, what was logged
  stays, a start is never refused because of how an earlier one ended.

## 2. Modules

| Module | Content |
|--------|---------|
| `Presence` | Abstract specification: who is online, who is in which room, how a join is answered |
| `Hub` | The tables of `hub.go`, one action per critical section |
| `HubPresence`, `ChannelsPresence` | The refinement mappings to `Presence`: from the tables of `Hub`, and from pairs of kind and target |
| `Journal` | Abstract specification: what callers see of a logger, every call taking effect at one instant |
| `LoggerJournal` | The refinement mapping from `Logger` to `Journal` |
| `Relay` | Readers, writers, queues, sockets, the RWMutex; extends `Hub` and calls its actions |
| `Channels` | `channelKey` and the default kind, driving the channel table of `Hub` |
| `Webhook` | `Post` and `deliver` with receivers that answer, refuse, or stay silent |
| `Heartbeat` | One connection against the clock: deadlines, ticker, a peer that is alive and then lost |
| `Logger` | The sinks, the mutex, the callers, the disk; ends and further starts of the process |
| `Config` | The environment file, the conversions and checks of `config/`, as operators |
| `Startup` | Composes `Config` and `Logger`: from environment, file and `-addr` to a running logger, again and again |
| `MCHub`, `MCRelay`, `MCChannels`, `MCStartup` | Definitions for the runs: symmetry, sets of frames, strings, ways to start |
| `HubProofs`, `PresenceProofs`, `RelayProofs`, `ChannelsProofs`, `WebhookProofs`, `HeartbeatProofs`, `LoggerProofs`, `StartupProofs` | Theorems |

### Correspondence to the code

*Hub.* `rooms["area"]`/`rooms["channel"]` are `h.areas`/`h.channels`; a function whose domain is the
set of rooms that exist, so that a room that is in the map without members is different from one
that is absent. `mine` is `c.areas`/`c.channels`. `closed` records `close(c.send)`. The area and
channel halves of `hub.go` are the same code with different limits; the actions take the scope.
`joinArea` is split into one disjunct per return statement. `stage` is history: how far the
goroutine of a client has got (register, joins and leaves, leaveAll, unregister). Its guards state
the order in which `wsHandler` and `readPump` call the hub. They are not an assumption about the
server: `HubCallsInOrder`, checked by `relay_all` and proved as `HubIsCalledInOrder`, says that at every
call the client is in the stage the guard asks for, so that no guard ever rules out what a goroutine
would do; `HandlersFinish`, `TornDown` and the deadlock check of the `relay_*` runs agree. The answers "max areas reached",
"max channels reached" are one value, as are "area is full" and "channel is full"; the error of
`joinChannel` for an empty kind cannot occur because `routeJoin` replaces an empty kind first.

*Relay.* The grain is one action per critical section of `h.mu`, per channel operation, per socket
call. `pc` is the position of the reader:

| `pc` | Where in the code |
|------|-------------------|
| `idle`, `welcome` | wsHandler before register; before the welcome frame |
| `read`, `route` | readPump at ReadMessage; routeInbound with a frame in `msg` |
| `reply` | before `c.reply(...)` or `c.replyError(...)` with the frame in `out` |
| `broadcast`, `deliver` | before `RLock` in broadcastArea/broadcastChannel; in the loop of deliver |
| `whisper`, `echo` | before `peer.trySend`; before the final `c.trySend` |
| `defer`, `leaveAll`, `unregister`, `close`, `done` | the deferred function of readPump, step by step |

A broadcast holds the read lock from `Broadcast` to `Delivered`, one `Deliver` per member, in any
order (Go's map order). The write sections wait for `NoReaders`. `trySend` has three outcomes:
enqueued, dropped (queue full), panic (channel closed), and the panic goes to `defer`. `posted` is
the last event given to `Webhook.Post`. Frames carry `src` and `n`, which frame of whom they answer
or relay, so that properties can speak about order. `conn` distinguishes a *dead* socket (reads
fail) from a *closed* one; a frame already in the read buffer can still be read after either, and a
write can succeed on a dead one.

*Channels.* Strings are sequences of characters, because the question is which strings coincide.
`asked` records what the clients were told by `joined` and `left`. `ChannelsPresence` reads it as the
membership relation of `Presence` with pairs of kind and target for rooms: if `KeysAreInvisible` holds,
no client can tell that the hub files channels under one string, not even by counting.

*Webhook.* `at[e]` is the loop variable of `deliver` for event `e`. Arrival at the receiver and its
answer are separate actions of the environment, so that a failure can be reported for a request that
did arrive. Deliveries of different events interleave freely: the receivers can see the events of
one client in any order, and nothing in the repository promises otherwise.

*Heartbeat.* Time passes in units, one `Tick` each. Whatever a goroutine does as soon as it can is in
`Urgent` and holds the clock up; what may take time has a bound there: a write `MaxWrite` to a live
peer and `writeWait` to any, a pong `MaxDelay`, the handling of one read `MaxBusy`. `select` picks any
case that is ready, so a waiting tick can be passed over, at most `MaxPassed` times. `ticker.C` holds
one tick. A pong that sits in the read buffer behind data is read whether the deadline has passed or
not. The deferred functions are one step each; `Relay` has their steps, with a socket and writes that
may fail at any time, which covers whatever `Heartbeat` lets the clock do.

*Logger.* `step` is the position in `newLogger`, `openDB` and `migrate` included: connect, two tables,
two indexes, two files. `handles` are the open files and connections, `fields` the ones the logger
refers to; a leak is a difference between them. `schema` and `stored` are on disk and survive `Exit`,
which can come between any two steps. A statement or a write takes effect or fails as a whole. There
is one file per kind of log and one database per driver; `fault` says that something outside the
program failed during this start, so that `StartsAgain` can blame the rest on the program. An entry
is its caller and the number of the call. In `LoggerJournal` a log call takes effect when it writes or
sees that the logger is closed, and `Close` when it sets `l.closed`; opening is not seen before it is over.

*Config.* Which strings are numbers, URL lists, absolute paths, or change under `ToLower` is given by
four constants: the rules that decide are the code's, the spelling is not. The file is a sequence of
comments, assignments and malformed lines. `env` after `LoadFile` is what `os.Setenv` left.

*Startup.* `Boot` is `Load`, `SetListenAddr` and the call of `logging.New`. `cmd/ws-server` makes these
calls; its source is not in the repository, so their order is taken from its README, sections 2 and 3.
A refused configuration ends the process before it has touched anything, which is no step at all.

## 3. Runs

| Run | Bounds | Shows |
|-----|--------|-------|
| `hub` | 3 clients, 2 rooms per scope; areas limited to 1 room of 2 members, channels unlimited | All hub invariants and `ImplementsPresence` |
| `relay_rooms` | 2 connections, 1 area, frames join/leave/send, 2 reads each, queues of 2 | Broadcasts only reach members with open queues; only members' messages are relayed; every broadcast is offered to all it was due to and no membership changes under it (`BroadcastCompletes`); order per sender; nothing of a room follows its `left`; join and leave notices are true |
| `relay_all` | 2 connections, every frame type, 1 read each, queues of 1 | The hub is called in order and who has left stays out (`HubCallsInOrder`); only a whisper to a leaving peer panics (`OnlyWhispersPanic`); no leaked client on any path, connect first and disconnect last, handlers finish, sockets are torn down; no deadlock |
| `channels` | 3 clients, 2 kinds, 3 targets chosen to collide, at most 2 channels of 2 clients | Exact audience if no kind holds a colon, and `KeysAreInvisible` |
| `webhook` | 3 events, 3 URLs, one malformed | One true log entry per event and URL, and every URL served |
| `heartbeat` | the code's 60, 54 and 10 s, one unit each; writes up to 1, pongs up to 2 | A live peer is kept, a lost one is given up in time, its loss ends both goroutines; no deadlock |
| `startup` | 2 callers of 2 calls, 2 starts, 31 ways to start (14 are accepted) | Sinks, schema and log entries over failures and restarts; `ImplementsJournal`; precedence of the sources for every variable, the log and `Extra` included; a sound configuration |
| `relay_whisper`, `relay_welcome`, `channels_colon`, `webhook_silent`, `heartbeat_slow` | as small as the case needs | Violations, see section 5 |

**Why the bounds suffice.** Three clients are a full area of two and one that is refused; two rooms
with one allowed give the refusal of a room; the unlimited table exercises 0. In the relay, two
connections are a sender and a receiver, each of which may leave or fail at any step of the other,
and two reads allow every pair of join, leave and send. Queues of two hold two frames whose order
can be wrong; queues of one overflow at once. The proofs do not depend on any of these bounds.
In `startup` two callers are one that logs and one that closes, twice each, so that each also calls a
closed logger; the second start finds what the first left at any of its steps, with the same modes
or others. The ways to start set each kind of value (absent, blank, good, refused) by the OS, the
file or both, with duplicate and malformed lines. In `channels` three clients and two places make both
limits refuse somebody. `heartbeat` uses the constants of `client.go` as they
are; whatever else the proofs say holds for all of them. `LivePeerKept` depends on `MaxPassed`: Go's
`select` picks at random among the ready cases and promises no bound, so a live peer is kept as long as a
waiting tick is passed over once at most; a second time would use up the margin of `Margin`.
`MaxReads`, `MaxPosts`, `MaxCalls`, `MaxStarts` and `MaxPassed` are bounds of the models, not of the code. Clients are symmetric and
symmetry is used wherever no liveness property is checked.

**Deadlock** is checked in the relay and heartbeat runs: `AllGone` and `Stopped` are their only terminal
states. It is off for `hub` and `channels` (client ids are not reused, so every run ends), for the
webhook runs (they end when all events are delivered) and for `startup` (a process may end for good).

**Fairness.** `HandlersFinish` assumes only that readers run (`ReadersRun`): weak fairness of what a
reader can do without its peer. Go's scheduler gives it, and Go's RWMutex keeps new readers out
while a writer waits. Handlers write the access log synchronously (`extension.go`, `Access`), so
`ReadersRun` also assumes that a write to a log sink returns; an insert has no timeout, so a database
that never answers would stop every reader. The writers are deliberately left unfair there: if every writer stopped,
handlers would still finish. `TornDown` also assumes `WritersRun`: a write returns within
`writeWait`, and a ping on a closed socket fails at the latest after `pingPeriod`. Nothing is assumed
about peers: reading a frame is never fair. In `Webhook` the delivery goroutines run, and every
receiver outside `Silent` answers or refuses. In `Heartbeat` time passes and both goroutines run;
`PeerLossEnds` needs nothing from the peer. In `Logger` a waiting goroutine gets the mutex at last
(strong fairness of `Lock`: Go's mutex hands over to a waiter it has starved for 1 ms) and what its
holder does returns; the code sets no limit on how long an insert may take, so that part is an
assumption about the sinks. Nothing says that callers call or that the process goes on.

## 4. Proofs

All constants are arbitrary in the proofs, subject to the named assumptions `HubAssumption` (limits
are natural numbers, as `config.Validate` demands; the empty target is no room), `RelayAssumption`
(the queue has at least one place; frames are well-typed), `ChannelsAssumption`,
`WebhookAssumption`, `HeartbeatAssumption` (a live peer takes writes in less than `writeWait`),
`LoggerAssumption`, `ConfigAssumption` and `StartupAssumption` (a file is a sequence of lines).

* **Hub.** The inductive invariant is `HubInv`: types, `Mirrored`, `LifecycleAgrees` (registration,
  closed queues and the end of all memberships follow the stage of the client), and each table
  *good* (finite, no empty room, within its limits). `NoEmptyRoom` is needed for the limit on
  rooms, finiteness for counting, and `Mirrored` with `LifecycleAgrees` together give
  `MembersCanReceive`: a closed client has no memberships of its own, so it is in no table. The key
  lemma for refused joins is `OpenedFull`: a full room has members, so it existed before.
  Theorems: `HubTypeCorrect`, `HubMirrored`, `HubNoEmptyRoom`, `HubWithinLimits`,
  `HubMembersCanReceive`.
* **Presence.** `HubImplementsPresence`: with `memberOf` as the refinement mapping every step of the
  hub is a step of `Presence` or a stutter. It uses that occupied rooms and existing rooms are the
  same thing.
* **Relay.** The inductive invariant `RelayInv` adds to
  `HubInv` the types, `Located` (the position of the reader determines the stage of its client),
  `Carried` (a handler holds the frame its next step needs), `Reported` (the disconnect is reported
  before the memberships go), and the two properties proper, `BroadcastReachesMembers` and
  `SenderStaysMember`. The first holds because no membership changes while somebody is at
  `deliver`; the second because only the reader of a client changes its memberships. Theorems:
  `RelayTypeCorrect`, `BroadcastsReachMembers`, `SendersStayMembers`, `NoClientLeaks`. `HubIsCalledInOrder`
  follows from `Located` and `LifecycleAgrees`: what the guards of `Hub` ask of `stage` holds by where the
  goroutine is. `WhispersAlonePanic`: a goroutine that is serving a client has that client's queue open
  (`Located`, `LifecycleAgrees`), and the queues a broadcast visits are open (`BroadcastReachesMembers`);
  only the whisper is left.
  `NoticesStayTrue` adds `Announced` (a handler on its way to its notice has done what the notice
  says, and only its own reader could undo it), `EventsAreBracketed` adds `PostedFits` (what was
  reported last fits the position of the reader).
  `SendersKeepOrder` and `NothingAfterLeft` rest on `OrderInv`: a frame in a queue is from an earlier
  request of its sender, or from the current one when the handler cannot put another frame into that
  queue any more (`CanSend`, `Fits`), except for the two copies of a whisper to oneself; and a client
  that was told `left` is not a member until its next request (`Kept`), so no broadcast that starts
  later visits it and none that is under way did when it left.
  `RelayImplementsPresence`: the running server is a plain membership relation. The lemma
  `RelayImplementsHub` carries the refinement of `Presence` over; by itself it says no more than that the
  goroutines change the hub through the hub's operations, since `Relay` is built from the actions of `Hub`.
  `BroadcastsComplete`: when a broadcast begins its recipients are the members according to both copies
  (`Mirrored`), `BroadcastReachesMembers` excludes the panic that could end it before the last of them,
  and the write sections, which alone change memberships, wait for it (`HubCallExcludes`, `CompletesStep`).
* **Channels.** `ExactAudienceIfColonFree`: under `KindsAreColonFree` the key determines the kind and
  the target (`KeyDeterminesBoth`: the first colon is the separator), whatever the targets contain.
  `ChannelsTypeCorrect` needs no such assumption. `KeysStayInvisible` adds `RoomsAreKeys` (every channel
  of the hub is filed under the key of some pair); then `channelKey` is a bijection between the occupied
  pairs and the channels of the table (`AsManyPairsAsKeys`), `MAX_CHANNELS` counts the same of both, and
  each request gets the verdict of `Presence`.
* **Webhook.** `WebhookTypeCorrect`, `LogIsTrue`.
* **Heartbeat.** `HeartbeatTypeCorrect`; `DeadPeersDropped`, for any constants, by the invariant
  `Expiring` (the time a peer has been lost plus what is left of the deadline never grows beyond
  `MaxDelay` + `pongWait`); `LivePeersKept` under the assumption `Margin`: `pingPeriod` +
  (`MaxPassed` + 2) `MaxWrite` + `MaxDelay` < `pongWait`. Its invariant `Timely` accounts for the time
  until the next pong: the ticker, the write it may have to wait for, the frames `select` may prefer,
  the ping itself, the answer. With the code's constants the margin is 6 s.
* **Logger.** `LoggerInv` adds to the types `MutexHeld` (who is past `Lock` holds the mutex, and only
  the holder), `StepFits` and `HandlesFit` (what is open is what the steps so far have opened, and what
  the modes need once all are done), `SchemaFits` (the tables and indexes whose steps are over are
  there), `Found` (what the holder saw of `closed` is still so) and `StartsAgain`. Theorems:
  `LoggerTypeCorrect`, one each for the four safety invariants, and `LogsOnlyGrow`. `LoggerIsJournal`
  is the refinement: with `Requested` (whoever is under way has called something) the step of a caller
  that decides its call is the one step of `Journal`, and every other step of opening, locking and closing
  is not seen. It uses `Found` and `MutexHeld`: a write finds the logger open because its caller is inside.
* **Startup.** `StartupImplementsLogger`: with the configurations `Load` accepts every step is one of
  `LoggerSpec`, because `Validate` lets only known modes and drivers through; `SinksAreSafe` and
  `StartupImplementsJournal` carry the results about the logger over; `ConfigIsSound`.
  `PrecedenceIsFollowed` (every known variable, those of the log, and `Extra`) and
  `ReloadChangesNothing` look into the loop over the lines of the file:
  `LoadFileLoop` characterises it by its start and its step, and `FileIsRead` says what it has done after
  any number of lines (each name not in the environment has the value of its first line). `FileIsRereadInVain`
  says that a second reading skips every line. The library's induction takes a predicate, which the
  provers cannot instantiate, so `SetInduction` states induction for a *set* of numbers; it is proved from
  the pigeonhole principle of the finite-set theorems.

**Only model-checked:** the liveness properties `HandlersFinish`, `TornDown`, `EveryUrlServed`,
`PeerLossEnds` and `CallsReturn`: the prover does not treat fairness. Every invariant and every action
property of the passing runs is a theorem.

## 5. Findings

* **Whisper to a client that is just leaving** (`relay_whisper`). `routeWhisper` finds the peer under
  the lock and sends after releasing it. If the peer unregisters in between, the send hits a closed
  channel; the panic runs the sender's deferred function and the sender is disconnected instead of
  getting `peer not found`. Broadcasts do not have this problem, and the model shows the panic does
  no further harm: `NoLeakedClient`, `EventsBracketed` and `TornDown` hold with it, and it is the only
  panic there is (`OnlyWhispersPanic`).
* **Welcome need not come first** (`relay_welcome`). The client is registered before its welcome frame
  is queued, so a whisper can precede it, or fill the queue so that the welcome is dropped.
* **Channel keys collide** (`channels_colon`). A kind may be any string; kind `p` with target `q:x` is
  the same channel as kind `p:q` with target `x`.
* **A silent webhook receiver starves the others** (`webhook_silent`). The URLs are visited one after
  the other without a timeout, so a receiver that never answers keeps the event from the later URLs
  and no result is logged.

* **A slow but live client is cut off without having been asked** (`heartbeat_slow`). A frame may take
  up to `writeWait`, 10 s, to write, and the ping waits for it; but between the ping and the read
  deadline there are only `pongWait` - `pingPeriod` = 6 s. A connection that takes 9 s for one frame ends
  although no ping was unanswered, and although data from the client was read all the time: only pongs
  move the deadline. The comment calls `pongWait` the time the server waits for a pong.

## 6. Not modelled

* Payloads, display names, log texts, timestamps: no decision depends on them.
* Failures of `json.Marshal` on the server's own values.
* Upgrade, health, origin check and the mux (stateless).
* The lexical side of the configuration: quotes, blanks, the form of names, JSON. It is given as
  constants of `Config`. `ExtraString` and `ExtraInt`, which nothing calls.
* The text of a log line and `rebind`, which rewrites placeholders. Two server processes that migrate
  one database at the same time: the repository does not say that they may share one.
* `cmd/ws-server`, which the project's README mentions, is not part of the repository. It is assumed to
  call `Load`, `-addr` and `New` in the order that README gives.
* Crash and restart of the relay itself: it persists nothing, so a restart is its initial state. What
  the log sinks keep is in `Logger`.
* That deliveries of one client's events arrive in order, and a bound on their number: the code promises
  neither.

## 7. Plan

1. `ConnFails` and `PingFails` of `Relay` as an abstraction of `Heartbeat`, by a refinement mapping that
   forgets the clock.
2. A logger that is closed while the relay's readers still report: today the two meet only in that
   both allow any order.
3. `rebind` and `checkOrigin` against reference definitions over short strings.
4. The safety half of `HandlersFinish`: a measure that every step of a handler decreases.
