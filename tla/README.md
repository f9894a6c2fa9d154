# Lurkspire server: models, checks and proofs

Lurkspire is the server of a 30 Hz arena game written in Go. Clients talk framed
TCP to a gateway; the gateway keeps sessions, accounts, friends and a directory
of battle rooms; each room is one goroutine that owns its players and runs the
fight. This directory holds TLA+ models of the parts of it whose correctness
depends on order, concurrency or long histories, TLC configurations that check
them, and TLAPS proofs of their safety properties for every value of the
constants.

Paths below are relative to the repository. `PROJECT.json` maps every definition
that models code to the lines it models.

## 1. The system

| component | state | operations | talks to |
|---|---|---|---|
| **Room** (`internal/room/room.go`) | players, the notice latches `hadPlayers`/`emptied`, callbacks, `pendingEvents`, `settled`, tick | `AddPlayer`, `RemovePlayer`, `SetOffline`, `HandleInput`, `SetPlayerEquip`, `SetBroadcast`, `SetOnEmpty`, `StateSnapshot`, `Stop`, and the ticker | everything through channels into `Room.loop`; callbacks back into the gateway |
| **Combat** (`internal/room/combat.go`) | per player hit points, block bar, cooldowns, lock charges, death timer, score | `ApplyShot/Sword/Dash/Lock`, `TickCombat` | called by the room's loop only |
| **Movement check** (`internal/room/validation.go`) | position, first-report flag, violation counter | `CheckMove` | called by the room's loop on every report |
| **Room manager** (`internal/room/room.go`) | table of rooms by name, under a mutex | `CreateRoom`, `GetRoom`, `DestroyRoom` | called by hub handlers and reapers |
| **Hub** (`internal/gateway/hub.go`) | `online` table, `roomSessions` routes, registry | `OnLogin`, `OnDisconnect`, `Join`, `Leave`, broadcast, friends, bag | sessions, rooms, lobby service |
| **Room registry** (`internal/gateway/rooms.go`) | listed names and their metadata | `add`, `remove`, `has`, `list` | hub |
| **Session** (`internal/gateway/session.go`) | identity, `Room` under `roomMu`, write queue | `Serve`/`handle`, `Send`, `writeLoop`, `Close` | hub |
| **Server** (`internal/gateway/server.go`) | set of sessions | accept, heartbeat watchdog, `Close` | sessions |
| **Lobby and store** (`internal/lobby`, `internal/store`, `db/schema.sql`) | users, equipment, friends table; an in-memory and a MySQL implementation | register, login, token, friend operations | hub |
| **Protocol** (`internal/protocol`) | none beyond the reader's buffer | frame and body codecs | all |

How they interact, and what makes it hard:

* *A room is a sequential process with several mailboxes.* Joins and departures
  are rendezvous; `onlineCh` is buffered, drops when full, and is **not** ordered
  with respect to the joins; the `select` takes ready cases in any order.
* *The hub is called from many goroutines*: one handler per session, the watchdog
  or any sender that closes a session, and a goroutine started by each `onEmpty`
  callback. Each of its compound operations (`Join`, `Leave`, `OnDisconnect`, the
  reaper) takes several locks one after the other and is atomic in none of them.
* *Identity is ambiguous in time*: an account may have two sessions (a
  reconnection whose old connection has not closed yet), and a room name may
  belong to two rooms one after the other.
* *A frame batches what happened in it*: hits wait in `pendingEvents`, deaths are
  marked and announced at the next tick, if somebody listens.
* *Notifications race logins*: a friend application is both stored and pushed; so
  is a friendship.

What each component owes the others:

* a room never overfills, evicts only players in grace and evicts them in the
  end, and reports each emptiness exactly once;
* combat never counts a death twice, announces every death once, keeps the
  scoreboard balanced and lets no dead player score;
* an honest client's moves are accepted, but after losses the tolerance does
  not cover;
* the directory never runs two rooms under one name or loses one; a session that
  has joined stays seated in a running room and is routed; a closed session
  leaves nothing behind; the online table shows live sessions;
* applications and friendships reach the session of the other side; friendship
  needs consent and does not end by itself; what clients were told last about
  friends and rooms is so;
* store, room and client agree about what a player wears;
* a name belongs to one user, and a session to whoever gave the password;
* a send never blocks, keeps the newest frame and never closes a connection by
  itself; a dead peer's session is closed in the end; closing the server closes
  every session;
* what is written to a connection is what is read from it.

## 2. Modules

| module | models | composition |
|---|---|---|
| `Seats` | what a room promises the gateway: seats that are held or in grace, one notice per occupancy | abstract specification |
| `Room` | membership half of `Room.loop`: one action per `select` case and per caller | implements `Seats` (property `ImplementsSeats`, theorem `RoomImplementsSeats`) |
| `Combat` | fighting half of `Room.loop`, `combat.go`, `broadcastTick`, settlement | its evictions are any that `Room` may make |
| `Movement` | `validation.go`, the input queue, respawn; an honest client | its deaths are any that `Combat` may make |
| `Hub` | handlers, closers, room loops, reapers, manager, registry, online table | each of its rooms behaves as `Seats` (property `EachRoomSeats`) |
| `Friends` | friend store and handlers, with login and close | shares only the online table with `Hub` |
| `Presence` | online pushes, friend lists, room lists | reads the tables that `Hub` writes |
| `Bag` | equipment in the store, in the room and at the client | its joins and leaves are any that `Hub` may make |
| `Accounts` | registration, login, tokens, both stores' `CreateUser` | before `Hub`'s `Login` |
| `Server` | accept loop, watchdog, `Server.Close`; reader, writer, queue and `Close` of a session | its sends are any that the other modules make |
| `Bodies`, `Wire` | body layouts with encoders and decoders; frames over a byte stream | `Wire` extends `Bodies` |
| `RoomProofs`, `HubProofs`, `CombatProofs`, `ServerProofs`, `FriendsProofs`, `PresenceProofs`, `AccountsProofs`, `BagProofs` | theorems about the module of that name; `RoomProofs` also about `Movement` | each extends what it is about |
| `MC...` | the finite instances | |

### Room and Seats

`players`, `online`, `offlineTicks` are the map of `Player`s and two of its
fields; `hadPlayers`, `emptied`, `onEmpty`, `onlineCh`, `stopped` are the fields
of `Room` of those names. `AddPlayer` (with `Rejoin` and `Enter`),
`RemovePlayer`, `ApplyOffline`, `RegisterOnEmpty` and `Tick` are the cases of the
`select`; `SetOffline` and `SetOnEmpty` are the callers' buffered sends; `Stop` is
`DestroyRoom`, which only the empty callback reaches. `conn` is the gateway's
belief, the one session per account that has joined. `late`, `missed`, `fills`
and `notices` are history. `Seats` forgets the clock, the mailbox and the callback:
`held` is who is seated and online, `grace` who is seated and offline, `owed`
whether an occupancy has not been reported yet.

### Combat

`p[u]` is the `Player` record of `u`. `Input` is the whole of `handleInputMsg` for
an accepted report: the guard button is stored, one of fire, sword and dash is
applied, then the lock shot on what the first one left. `Tick` is the whole ticker
case: `TickCombat`, the evictions, then `broadcastTick`. Geometry is abstracted:
a shot reaches at most one living other player, a sweep any set of them; which
ones is left open, so whatever holds here holds for every map and position. A
report that `CheckMove` rejects returns before any of this state and is no step.
`announced`, `respawns`, `heard`, `pastScore` and `pastDeaths` (what each account
took along when it left), `hits` and `departures` are history.

### Movement

Places are points of a line, so the two thresholds of `CheckMove` become one; what
matters is how far apart two adopted reports are. The client is outside the
repository: it moves at most `Step` per report and obeys the respawn it is told
of. `inputs` is the socket and `inputCh` together. `HandleInput` is
`handleInputMsg` up to `ApplyInput`; a lost report is one that `Room.HandleInput`
dropped or that a client that was away never made. `lost` and `walked` keep book
of the client's own way since its last report that was not lost; they and
`behind` are history, which no guard reads.

Nothing is assumed of the limit but that one step is within it. The fastest run is
25.6 m/s (validation.go:26), at 30 Hz 0.8533 m in a frame, and `MaxHorzStep` is 1.7:
two such steps, 1.7067 m, are too far. The comment at validation.go:15 speaks of a
tolerance of twice a step and a metre on top; the constants below it have neither.
The item that raises the running speed (schema.sql:43) may make a step longer.

### Hub

Each call that takes a lock or crosses a channel is its own step: `Join` is
`CreateRoom`, `AddPlayer`, `Register`, `SetRoom`, `Confirm`; `Leave` is
`LeaveClearRoom`, `RemovePlayer`, `Unroute`; `Close` is `Close`, `CloseClearRoom`,
`SetOffline`, `CloseUnroute`, `Logout`, `HangUp`; the reaper is `ReapCheck`, `ReapUnroute`,
`ReapUnlist`, `ReapDestroy`. `pc` and `closer` say where a session's handler and
its `Close` stand, so the two interleave freely. Rooms are numbered at creation,
so that two rooms that bore one name are different values, as their pointers are;
`manager` is the table by name. `destroyed` is a closed stop channel, `stopped` a
loop that has returned: the `select` may serve other cases in between. A call into
a stopped room never returns (the channels are unbuffered and nobody reads them),
which is the absence of a step. Between `Logout` and `HangUp` the session is off the
table and its connection still open, so its handler goes on taking frames.
`SetOffline` always delivers here; that a full mailbox drops it is in `Room`.
`BattleInput` and `HandleInput` are the two reads of `Session.Room`, with and without
its lock. If the session's own `Close` clears it in between, the handler goes to
the label `panic`; no property is about that, see section 3.

The history variables `raced`, `moved`, `overlapped` and `disturbed` name the
exact circumstances in which the code does not keep its promise; the invariants
say that it keeps it in all others (section 3, "Where the code falls short").

### Friends and Presence

In `Friends`, `row` is the friends table; `Backend` chooses the store, whose two
implementations differ in `RejectFriend` only. A query, a look at the online
table and a send are separate steps. `Close` takes the session off the online
table and `Shut` closes the connection; in between the handler takes frames.

`told` is the list of friends that a client was sent last: a list is a refresh, so
it replaces the one before. Two handlers may send lists to one session, its own and
that of whoever has accepted its application, and not in the order in which they
read them: `older` has the handlers whose list in hand has been read again since,
`outrun` the sessions that got such a list last.

`seen` is the application bar of a client. At the login it is sent whole
(`SendPending`), afterwards entry by entry (`Push`), and a push may come before a bar
that was read without it. The client is not in the repository, and nothing there
says what it does then. The model assumes that it keeps the entry that was
pushed; a client that put the bar in its place would lose an application from
sight until the next login, and `ApplicationDelivered` says nothing about it.

In `Presence` friendships are fixed and rooms are their sets of sessions.
`todo`/`told` is `broadcastOnline` under way, one friend at a time; `unread`/`list`
is `SendFriendList` under way, at the login (`OnLogin`) or because the client has
asked (`AskFriends`); a worker's `body` is a room list that has been built and not
been sent, to all or to the one that asked (`AskRooms`). `sees` and `rooms` are what
each client has been sent last. `room` is `Session.Room`, set by a step of its own
(`SetRoom`), and `Close` (`Disconnect`, `GoOffline`) may come before, inside and after
a login and a join. A reaper looks, takes the name off and destroys (`ReapCheck`,
`Reap`, `DestroyRoom`), and a join may come anywhere between. `crossed`, `mixed` and
`outdated` name the circumstances in which a client is shown what is not so.

Three things stay abstract in `Presence`. The list that an acceptance sends to the
other side (hub.go:354-356) is in `Friends`, since friendships do not change here.
`Read` is one step, though `buildRoomListBody` (rooms.go:92-117) goes from name to name;
a room that changes in the meantime is announced afterwards. And a name has the
sessions of the room that bears it now, and one reaper; `Hub` tells two rooms of one
name apart.

### Bag

`equipID` is the store, `bonus` the room's `BlockMax`, `shown` the client's bag.
`Join`, `ReadEquip`, `SetPlayerEquip` are the end of `Hub.Join`; `Equip`,
`CheckItem`, `SetEquip`, `SetPlayerEquip`, `SendBagList` are `handleBagEquip`. Any
call to the store may fail, and a write whose answer is lost may have been done.
`loose` and `misled` are history: whose handlers overlapped, or met a failure.

### Accounts

`backend` is chosen in `Init`, so one run has both stores: `CreateUser` is the one
critical section of `MemStore`, `LookForAccount`, `LookForNick` and `Insert` are the
three statements of `MySQLStore`, the last one against the unique keys of
`schema.sql`. A token is the pair that is signed. `VerifyOwn` is `handleLogin`
asking `Verify` for the uid it has just signed. `troubled`, `beaten` and `proved`
are history.

### Server

`stage` is where a connection's life stands, `table` is `Server.sessions`,
`closed` is set first and `shut` last in `Close`; between the two `OnDisconnect`
takes its time. Frames are numbered as they are enqueued. A `Send` is one step if
there is room, else three (`Send`, `Drop`, `SendAgain`), which other senders and
the writer may come between. A silent peer neither sends nor takes a write; a
write to it may end or not. A peer that is up may also send what is no frame (a
wrong magic, a body that is too long, frame.go:53-58): the reader ends as at a lost
connection (`ReadFails`). A handler may get stuck for ever (`Receive`), as in a
call to a stopped room. `crowded`, `ejected` and `slipped` are history.

### Bodies and Wire

A byte has `Radix` values, 256 in the code, and five in the run so that every
counter can wrap. A layout is the sequence of the kinds of a body's fields; one
encoder and one decoder serve all layouts, since those of the code are written
field by field in the same way. Where they differ, the model follows: the online
flag of a friend may be missing (`GetFlag`), and the length that `DecodeFriendList`
then computes leads it past the end of the body, where it panics (`Panic`,
lobby.go:224 and 229); `DecodeInput` and `DecodeHit` return zeros instead of refusing
(`Unrefusing`), list counts are one byte, `JoinOK`'s name has one byte of length.
Bodies without a decoder in the repository are decoded as the layout says, as the
client has to. There is one layout for each message id, which is not quite the
code: `sendErr` (session.go:285) puts the body of a `RegResp` under `MsgLoginResp`; both
layouts are among those checked. `ReadHeader`, `ReadBody` and `ReadEnd` are
`FrameReader.Next` on what has arrived.

## 3. Runs

| run | shows |
|---|---|
| `room` | three accounts, two seats: grace clock, one notice per occupancy, connected players online unless their join overtook their own offline message, lost connections noticed unless the mailbox was full; refines `Seats`; an offline player is resolved and an empty room reported in the end |
| `combat` | duels with a sweeping weapon and the lock shot in one report, and three players of whom one swing kills several: life cycle, each kill scored, deaths announced exactly once, a balanced scoreboard, no score from the bench |
| `hub` | three sessions of two accounts, a one-seat room, two incarnations of its name, two reapers, one close at any point: one room per name, quiet sessions seated, closed sessions gone, online table right, every room behaves as `Seats` |
| `room_mailbox` (violation) | a full mailbox throws an offline message away; the player keeps its seat for ever, marked online |
| `hub_takeover` (violation) | a stale connection's close puts the reconnected player in grace; it is evicted while connected |
| `friends` | applications are delivered across logins; the list of friends sent last has every friend, unless lists overtook each other; friendship needs consent and lasts; no application is stored between friends |
| `presence` | friends and rooms are shown as they are, once nothing is on its way and but for the crossings that are named |
| `server` | queues keep the newest frame, one sender never closes a session, shutdown closes all; a dead peer's session is closed and gives its goroutines back |
| `accounts` | names unique and answers true in either store, sessions only for those who gave the password in time |
| `bag` | store, room and client agree at rest, and repair what an overlap or failure has left |
| `movement` | an honest report is rejected only if one was lost before it and the player has gone further than the limit since, or if a respawn was crossed, or after another rejection |
| `wire` | frames and values arrive as sent, a cut body is never taken for a whole one, and at which cuts a decoder panics, everything is read in the end |

### Where the code falls short

The run `room_mailbox` is a finding: the comment at room.go:205 says of the offline
message that a full `onlineCh` does not take that a later disconnection or the
eviction makes up for it. Neither does: a session disconnects once, and the
eviction skips players that are marked online (room.go:320). `LossNoticed`, in
the run `room`, says that this is the only way to lose a disconnection.

The run `hub_takeover` is a finding: README.md of the repository promises 30
seconds of grace to whoever reconnects (src/README.md:44), and hub.go:67 applies
the disconnect of the old connection to the account, whichever connection is in
the room. The other circumstances are carved out of the properties, most of them by
a history variable that can be removed to see TLC's counterexample:

| circumstance | what happens |
|---|---|
| `Hub.disturbed` | a join between the reaper's second look (hub.go:400) and `DestroyRoom` (407) enters a room that is destroyed under it |
| `Hub.raced` | `Close` between the registration of the route and `setRoom` (hub.go:412-414), or before `OnLogin`, finds nothing to undo: the route and seat, or the entry in the online table, stay |
| `Hub.moved` | `BattleJoin` (session.go:169) from inside a room leaves seat and route in the first one |
| `Hub.overlapped` | two sessions of one account: the older one's end takes the newer one off the table (hub.go:76) and puts it in grace (67) |
| `Hub`'s label `panic` | the session's own `Close` between the test of session.go:188 and the second reading at 191, which does not take `roomMu` (the comment at session.go:24 says that the mutex protects the field against these readers), leaves a nil room for `HandleInput`: the process panics. No run is about it: nobody else writes the field, so that nothing but this could be said |
| `Room.missed` | `SetOffline` (room.go:203) drops the message of a full `onlineCh` |
| `Room.late` | a rejoin served before the account's older offline message |
| `Friends.overlapped` | two sessions of one account: one may accept while the other one has tested for friends and not stored its application yet (hub.go:321-328); and a list may go to the older of them |
| `Friends.outrun` | a handler that has accepted sends a list to the other side while that side's own handler has an older one in hand; if the older one goes out last, the client is left without the friend, although hub.go:343 says that both sides are refreshed, until it is sent another list |
| `Combat.heard` | events of frames before the first `SetBroadcast` wait for it |
| `Presence.crossed` | a push about a friend that comes after the friend was looked up and before the list is sent is undone by the list (hub.go:137) |
| `Presence.mixed` | the pushes of two sessions of one account, or of one that logs in and closes at a time, change places (hub.go:53) |
| `Presence.outdated` | lists of rooms overtake each other (rooms.go:69); disconnects and failed creations are followed by none (hub.go:69, 254) |
| `Server.slipped` | a connection between `Accept` and the table when `Server.Close` takes its snapshot is not closed by it |
| `Server.crowded` | two senders at one full queue: the session may be closed although its peer is only slow |
| `Accounts` uid 0 | `handleLogin` ignores `Verify`'s error (session.go:246) and logs in nobody |
| `Bag.loose` | two sessions of one account leave the room with an older item; a failed lookup is a bonus of 0 |
| `Movement.behind` | a report from before the respawn that arrives after it is adopted without a test (room.go:372), and the next one from the spawn point is too far away |
| `Movement.lost`, `walked` | one report lost at full running speed is enough: the next is 1.7067 m away. A rejected report does not move the player, so the distance only grows: all later ones are rejected until it comes back or dies |
| `Bodies.Panic` | a list of friends cut before the online byte of a friend that is not the last makes `DecodeFriendList` panic (lobby.go:229 computes a length of one more than is there, 224 slices with it). The server only encodes this list; the decoder is called by tests and by clients that use the package |
| `EmptyRoomReported`'s `onEmpty = "set"` | if a room is entered and left and a tick comes before the callback is registered (hub.go:398), `emptied` is latched and nobody is told (room.go:330): the room is reaped only after it was populated again |

The Death message carries the first event of the frame that names the victim
(room.go:260-265), which need not be the killer's; `DeathsAnnounced` is about the
message being sent once, not about its shooter.

### Bounds, and why they are enough

* `room`: 3 accounts for 2 seats (the smallest full room with a competitor),
  grace of 2 ticks (one that counts and one that expires), mailbox of 2 (it
  can hold two accounts, or one twice, and overflow), `MaxFills` 2 (populated,
  emptied and populated again: the latches are re-armed once). `notices` is
  bounded by the property itself. `room_mailbox` is the same instance.
* `combat`: three players, since two must be left to die by one swing. `MaxHP` 2,
  damage 2 (sweep) and 3 (lock), halved by a block, give kills in one and in two
  hits, and clamping; the bar pays for one block; `MaxHits` 3 allows a double kill
  and one more; `MaxDepartures` 1 lets a participant leave with its score;
  `RespawnTicks` 2 and cooldown 1 let respawns and attacks overlap with frames.
  `SettleScore` 2 is within reach of three hits. While all three are there nobody
  blocks or fires the lock (the constraint `MCBrawl`), which duels between any two
  of them do. Players are interchangeable, hence the symmetry; every property of
  the run is an invariant or an action property, for which it is sound.
* `hub`: one name (all races are about a shared name), `MaxRooms` 2 so that a
  reaper of the first meets the second, `MaxReapers` 2 so that two of them
  overlap, three sessions, two of one account, so that a lost connection is
  replaced against a competitor, `MaxVisits` 2 so that two enter, or one comes
  back, `MaxCloses` 1. One seat makes `AddPlayer` fail and `handleRoomCreate`
  delist. `hub_takeover` has two sessions of one account and a third visit.
* `friends`: two accounts (a friendship has two ends), one of them with two
  sessions, which are symmetric; `MaxRequests` 3 covers apply, accept, reject and a
  crossed pair, or an acceptance and a list asked for at the same time;
  `MaxCloses` 1: an account goes and comes back, its stale session closes under the
  newer one, or the other account goes for good. Two closes (3.7 million states)
  were checked as well.
* `presence`: two friends, three sessions, one room. `MaxEvents` 4 counts logins,
  closes, entries and requests for a list: two logins and any two of an entry, a
  close, a second login and a request; leaving, failing and reaping are not counted.
  Each of `crossed`, `mixed` and `outdated` is needed already there: without it TLC
  finds a counterexample. The two sessions of one account are symmetric.
* `server`: one connection: sessions share nothing but `Server.closed`, the
  accept loop and the two lists that are closed one after the other, and a close
  that takes for ever would hold up a list only if `OnDisconnect` did. Two
  senders, a queue of two (128 in the code) and three frames fill it, overflow it
  and let two senders meet there; `IdleLimit` 1.
* `accounts`: two clients and two of each name, four requests (register, log in,
  reconnect, and a rival), one fault, TTL 1 and two ticks: a token is fresh, at
  its last moment, and too old.
* `bag`: one account with two sessions, an item with a bonus, one without and
  none; six requests and two faults, enough to break the agreement and repair it.
* `movement`: a line of five places with a spawn point at each end, so that no
  step leads from one to the other; a step of 2 and a limit of 3, so that, as in the
  code, one step is within the limit and two may not be; three reports under way,
  three lives.
* `wire`: one message of each layout opens a stream and one of three shorter ones
  follows; radix 5 makes lists of five and scores of 25 wrap; pieces of 1, 5 and
  12 bytes cut headers and bodies everywhere.

`CHECK_DEADLOCK FALSE`: a stopped room with nobody connected, a closed
connection, a stream that has been read, a handler blocked in a stopped room and
spent bounds all end a run. `Combat` always ticks and is checked for deadlock.

### Fairness

* `Room`: `WF(ApplyOffline)` and `WF(RegisterOnEmpty)`: Go's `select` chooses
  uniformly among ready cases, so one that stays ready is taken. `WF(Tick)`: the
  ticker is ready every 1/TickHz second. Nothing forces players to join, leave or
  disconnect, and nothing forces `SetOnEmpty` or `Stop`.
* `Server`: goroutines that can go on do, the clock and the watchdog's ticker go
  on, and a peer that is up takes what is written. Nothing makes a silent peer do
  anything, a reset come or a peer send what is no frame, nothing forces a frame to
  be sent or the server to be closed, and a stuck handler stays stuck.
* `Wire`: TCP delivers what was written as long as the connection lasts, and the
  reader is a loop.

The other specifications state safety only and have no fairness.

## 4. Proofs

`RoomProofs` proves, with TLAPS, for every finite set of accounts, room size in
1..8, positive grace period and mailbox capacity, and every number of occupancies
(`RoomAssumption`, all of it normalised or constant in `NewRoom`):

* `TypeCorrect`, `NeverOverfull`, `GraceClockSound`, `OneNoticePerOccupancy`,
  `OnlyOvertakenGoOffline`, `LostConnectionNoticed`: the invariants of the run
  `room`, the types, and that the room never has more players than seats;
* `RoomImplementsSeats`: every step of the loop is a step of `Seats` or leaves
  `held`, `grace` and `owed` as they are.

The inductive invariant `RoomInv` is the conjunction of those six and two more.
`NoticePerOccupancy` is not inductive: nothing in it says that a room with an
unreported occupancy has reported fewer times than it was populated; `Latches`
says so in terms of `hadPlayers` and `emptied`. `ConnectedOnline` is not
inductive: an offline message of a connected player might be waiting; `Mailbox`
says that only players in `late` have one. Each conjunct is proved preserved by a
lemma of its own, action by action (`TypeStep`, `CapacityStep`, `ClockStep`,
`NoticeStep`, `ConnStep`, `LossStep`), using the others as hypotheses; `RosterSize` collects
what is needed about cardinalities. The refinement proof (`SeatsInit`,
`SeatsStep`) maps `Enter` to `Take`, `Rejoin` to `Resume`, `RemovePlayer` to `Free`,
`ApplyOffline` to `Lapse` or a stutter, `Tick` to `Sweep`, the rest to stutters.

`HubProofs` proves every property of the run `hub` for any finite sets of accounts
and sessions, any set of names and every bound (`HubAssumption`). It has two
inductive invariants.

* `DirectoryInv` is about the manager's table alone, and gives `NameHasOneRoom`
  (`OneRoomPerName`): reapers that destroy by name, handlers that create and loops
  that lag behind never give a name two rooms that were not told to stop, nor make
  the table lose one that runs. It adds to the property that the table leads from
  a name to a room that bears it (`Named`), that a handler about to create has a
  name (`HandlerType`), and a reaper a room that exists (`ReaperType`). Only
  `CreateRoom` and `ReapDestroy` touch the table (`DirectoryFrame`), each in one
  step, as under the manager's lock.
* `HubInv` is about the sessions, and gives the rest. Its parts need each other:
  - *accounts*: a handler at work has logged in (`Identified`), the online table
    leads to sessions of that account (`Enlisted`), of two sessions of an account
    that did not overlap one is through with everything (`Apart`), and the table
    shows the other (`Shown`). Offline messages are of accounts that have logged
    in and no more than there are sessions whose `Close` has got that far
    (`LapseOrigin`, `LapseCount`); a session that is alone and still in its room
    has none against it (`NoLapse`). These give `HubTypeCorrect` and
    `OnlineTableRight`;
  - *places*: from the moment a reaper has decided, a room that nobody entered
    since has no seats (`Vacant`); a session that is not closing has in its room
    what its handler has done so far (`Quiet`); `Leave` and `Close` hand the room
    from the session to the job, the closer and the loop, and at no point does a
    route or a seat belong to none of them (`Leaving`, `Routed`, `Accounted`).
    These give `QuietSessionsSeated` and `ClosedSessionsReleased`.

`HubSeats` is the refinement: each step of the hub is, for each room, a step of
`Seats` or leaves its seats alone (`SeatsStep`). With `RoomImplementsSeats` the two
halves of the program meet at one abstract specification: what the loop does is
what the gateway counts on.

`CombatProofs` proves what the run `combat` checks, for any finite set of accounts
and any damage, cooldown and limit (`CombatAssumption`):

* `CombatTypeCorrect`: nothing underflows or passes its maximum;
* `LivesAddUp` (`LifeCycle`), which is inductive with the types: nothing hits the
  dead, so a death is counted once;
* `DeathAnnouncedOnce`: `DeathsAnnounced` is not inductive, since a mark that has
  outlived its death would swallow the next one. `Marks` says that a marked player
  is still dead: as long as frames with events are heard, the frame that
  announces comes before the respawn;
* `OnlyTheLivingScore` (`NoPosthumousScore`). An input is up to three changes of the
  table of players; `Outcome` says what each of them keeps, `OutcomeChain` that two
  in a row keep it too, which is the part that needs the shooter to be alive
  between the blade and the lock shot;
* `KillsMatchDeaths` (`ScoreboardBalances`): as many kills as deaths, over all
  accounts. The two totals are cardinalities of sets of points (`Points`), not
  sums: an attack adds one set of points to the shooter (`PointsOfOne`) and one
  point to each victim (`PointsOfEach`), and finite sets that are disjoint add up,
  for which no induction over the victims is needed. `BalanceInv` adds `Absent`:
  who is not in the room has no points but those that `Forget` has kept.

The second part of `RoomProofs`, about `Movement`, proves `HonestReportsAccepted`
(`HonestAccepted`) for every line of places, spawn points, queue and number of
lives, and for every tolerance of at least one step (`MovementAssumption`), which
the code has at every horizontal speed up to 51 m/s. The room compares with the last report
it adopted, the client moves from the last one it made, so the invariant follows
the chain between them: reports are of lives in order (`LivesInOrder`); who has lost
none has gone no further than a step (`Fresh`); each report is no further from the
one before than what was walked in between, unless that was too far to be counted
(`Chained`, `Within`); and so is the first from the room's position (`Tracked`), unless
a report from before the respawn has used up the exemption. `WithinGrows` is the
triangle inequality this rests on. How much of the tolerance a loss uses up is what
was walked during it, whatever else is under way.

`FriendsProofs` proves the properties of the run `friends` for any sets of accounts
and sessions:

* `FriendshipNeedsConsent` (`Consented`): `Consent` says that a pending row was asked
  for and a row that says friend was agreed to by the other side, whichever
  handlers interleave;
* `ApplicationsReach` and `FriendshipsReach`: at rest nothing is undelivered.
  `Applications` says where an application is until then: with the handler that
  made it, or in the bar a login is about to send. `Friendships` says of a friend
  that the list a client was sent last has it, or that another list is to follow
  (`Due`), which is not inductive: the list that follows might lack it. So of every
  list in hand that nobody has read again since (`Newest`) it says that it has the
  friend, or that yet another is to be read; lists that have been overtaken
  (`Overtaken`) make the session `outrun` when they are sent last. This rests on the order
  in the code, by which a login enters the online table before it reads, and an
  invitation is stored before the table is read;
* `FriendshipsLast` (`FriendsStay`) for `Backend = "mysql"`: with `MemStore` it is
  false, since its `RejectFriend` does not look at the status;
* `FriendsAreNotAsked` (`NoneAppliesToFriend`): `Strangers` says that what an
  invitation has tested holds until it is stored. Only the applicant's own
  handlers could make it false, and of those there is one (`Apart`), unless two of
  its sessions overlap.

`PresenceProofs` proves the properties of the run `presence`, for any friendships,
sessions and rooms (`PresenceAssumption`: friendship is symmetric, and handlers
and reapers are different goroutines). The two halves of `Presence` have an
invariant each, and a step of one leaves the other alone (`RoomsUntouched`,
`LookupsUntouched`):

* `FriendsShown` (`FriendsSeen`): `Informed` says that a session in the table is
  right about a friend, or a push about the friend is on its way to it, or one was
  undone by its list. What is right depends on how far its login is, or the list it
  has asked for: the friend is still to be looked up, or is in the list as in the
  table, or is shown so. A push that arrives is right because, as long as the pushes about a user do not mix, all
  of them say what the table says (`PushesAgree`), and a push reaches whoever is in
  the table because it goes to every friend (`Aimed`, `StartPushEffect`);
* `RoomListsReach` (`RoomsSeen`): a client whose list of rooms was not outdated by
  something that nobody announces has the rooms as they are, or is about to get
  them, or somebody is about to read them for all (`Fresh`). Lists that overtake
  each other are excluded by `outdated` until one goes out alone, which is the
  step that makes `Fresh` true again (`ReadStep`).

`AccountsProofs` proves the properties of the run `accounts`, for any clients, names
and TTL, and any number of failing calls:

* `AnswersTrue` (`RegistrationsTrue`): names are unique, and what a client is told
  about its registration is so. `LooksHold` says that what `CreateUser` has not
  found is still not there, unless another registration has come between, in
  which case the unique keys refuse the insertion;
* `SessionsOfOwners` (`OwnerLogsIn`): `TokensVouched` says that each token carries the
  uid whose password its holder gave and the time it did so; renewing does not
  extend it.

`BagProofs` proves `EquipmentAgrees` (`EquipAgrees`) for any accounts, sessions and
items and any number of failures: one handler at a time is at work for an account
that is not `loose` (`OneHandler`), it carries what the store has (`Carries`), and
where nobody carries anything, room and store agree (`Agreed`), and so do store and
client (`Told`).

`ServerProofs` proves the four safety properties of the run `server` for any
non-empty set of connections, any set of senders, every positive capacity and
every idle limit (`ServerAssumption`), which matters more than elsewhere, since
the run has one connection and a queue of two:

* `TypeCorrect`, from lemmas about what `Head`, `Tail` and `Append` do to a queue
  (`QueueFacts`, `TailEnd`, `QueueSteps`), one for each group of variables;
* `LoneSenderNeverEjects`: `EjectedOnlyIfCrowded` is not inductive, since it does
  not say what a `Send` under way finds when it tries again. `Crowding` says that
  two of them at one queue have crowded it, `Made` that a lone one still has the
  place it made: the writer only makes more of them (`SendStep`, split into
  `SendBegins`, `SendDrops`, `SendEnds` and the writer);
* `NewestFrameKept`: `Fresh` says where the newest frame is in terms of the
  queue's end, with the one case in which it may be gone (capacity one, and a
  `Send` that is about to put in a newer one);
* `ShutdownComplete`: `Dropped` adds to the property the sessions that
  `Server.Close` still has on its list; `Left` says that a session off the table
  has been closed, which is why the snapshot misses only the new ones.

Each of these invariants was model-checked on the instance of its run before it
was proved.

Only model-checked, and why:

* liveness (`OfflineResolved`, `EmptyRoomReported`, `DeadPeerClosed`,
  `ClosedReleased`, `AllRead`): it rests on fairness, beyond the prover;
* `FramesAsSent`, `ValuesAsSent` and `CutBodiesNotTaken`: encoders, decoders and
  integers of several bytes are folds over layouts, and the prover has no
  induction over data.

`ReconnectedKeepsSeat` and `LostPlayerGoes`, the properties of `hub_takeover` and
`room_mailbox`, are false.

## 5. Not modelled, and why

* Geometry (`raycast`, boxes, arcs, map tables): no state; `Combat` covers every
  outcome.
* Wording of messages, logging, configuration and start-up (`cmd/gateway`).
* Password hashing and signatures: library calls.
* `syncRoomNames` and `broadcastToRoom`: they read tables and send; a frame that
  is sent has its life in `Server`.
* Failing queries of the friends table: the handlers log and go on. Failures are
  in `Accounts` and `Bag`.
* A doubled entry in `FriendIDs` when two users have applied to each other and both
  accept: `FriendIDs` is a set there. `NoneAppliesToFriend` says that a friend is
  not applied to later.
* `DrainEvents`, `IsSuspicious`, `SpeedFor`: called by tests only; nobody is
  kicked for violations.

## 6. Plan

Done: everything in section 2, and the proofs of section 4. Next:

1. Those lemmas about `Bodies` that need no induction, such as what one field
   takes from the front of a body.
2. `FriendIDs` as a sequence, to say when a friend is listed twice.
