--------------------------------- MODULE Hub ---------------------------------
(***************************************************************************)
(* The gateway's room directory: gateway/hub.go (Join, Leave,              *)
(* OnDisconnect, OnLogin, the onEmpty goroutine), the parts of session.go  *)
(* and rooms.go it is made of, and the Manager of room/room.go.            *)
(*                                                                         *)
(* The processes are: one handler goroutine per session (Session.Serve),   *)
(* one closer per session (whichever goroutine runs Session.Close first:   *)
(* the handler itself, the watchdog or a sender), one loop per room, and   *)
(* the reapers, the goroutines that onEmpty starts.  Every call that takes *)
(* a lock or crosses a channel is a step of its own, so any of them may    *)
(* come between two calls of another.                                      *)
(*                                                                         *)
(* A room is numbered when it is created: two rooms that bear the same     *)
(* name one after the other are different rooms here, as their pointers    *)
(* are in the code.  Inside, a room is what Seats.tla says: held, grace    *)
(* and owed; Room.tla shows that the loop implements it.  A call into a    *)
(* stopped room blocks for ever, as in the code.  Dropped SetOffline       *)
(* messages are in Room.tla, not here.                                     *)
(***************************************************************************)
EXTENDS Naturals, Sequences, FiniteSets

CONSTANTS Users,        (* account ids                                      *)
          Sessions,     (* connections                                      *)
          Names,        (* room names                                       *)
          Acct,         (* [Sessions -> Users]: the account each logs in to *)
          MaxPlayers,   (* seats of a room                                  *)
          Nobody,       (* no session in the online table                   *)
          MaxRooms,     (* bound: rooms created in a run                    *)
          MaxReapers,   (* bound: goroutines started by onEmpty in a run    *)
          MaxVisits,    (* bound: times a session asks for a room in a run  *)
          MaxCloses     (* bound: connections closed in a run               *)

ASSUME HubAssumption ==
  /\ IsFiniteSet(Users) /\ IsFiniteSet(Sessions)
  /\ Acct \in [Sessions -> Users]
  /\ Nobody \notin Sessions
  /\ MaxPlayers \in 1..8
  /\ MaxRooms \in Nat
  /\ MaxReapers \in Nat
  /\ MaxVisits \in Nat
  /\ MaxCloses \in Nat

Rooms == 1..MaxRooms

VARIABLES
  created,     (* number of rooms created so far                            *)
  nameOf,      (* the name each room was created with                       *)
  destroyed,   (* rooms whose stop channel is closed                        *)
  stopped,     (* rooms whose loop has returned                             *)
  held, grace, owed,  (* the state of each room, as in Seats.tla            *)
  lapses,      (* SetOffline messages of each account pending in each room  *)
  onEmpty,     (* Room.onEmpty of each room: "nil", "queued" or "set"       *)
  manager,     (* Manager.rooms: the room of each name, 0 if none           *)
  registry,    (* Hub.roomRegistry: the names that are listed               *)
  routed,      (* rooms that are keys of Hub.roomSessions                   *)
  routes,      (* Hub.roomSessions of each room                             *)
  reapers,     (* the goroutines of onEmpty: [room, pc]                     *)
  online,      (* Hub.online                                                *)
  loggedIn,    (* Session.LoggedIn                                          *)
  sRoom,       (* Session.Room, 0 for nil                                   *)
  pc,          (* where each handler stands                                 *)
  job,         (* what it is working on: [creating, name, room]             *)
  closer,      (* where each Close stands                                   *)
  closing,     (* the room that OnDisconnect read, 0 for nil                *)
  raced,       (* history: sessions that entered a room while they were     *)
               (* closing, or the online table when they were closed        *)
  visits,      (* history: requests to enter a room                         *)
  moved,       (* history: sessions that entered a room without leaving the *)
               (* one they were in                                          *)
  overlapped,  (* history: sessions that shared their account with another  *)
               (* one that was not over yet                                 *)
  disturbed    (* history: rooms entered after a reaper of the same name    *)
               (* had found its room empty, or the other way round          *)

roomVars == <<created, nameOf, destroyed, stopped, held, grace, owed, lapses,
              onEmpty>>
hubVars == <<manager, registry, routed, routes, reapers, online>>
sessionVars == <<loggedIn, sRoom, pc, job, closer, closing>>
history == <<raced, visits, moved, overlapped, disturbed>>
vars == <<roomVars, hubVars, sessionVars, history>>

NoJob == [creating |-> FALSE, name |-> "none", room |-> 0]

Init ==
  /\ created = 0
  /\ nameOf = [r \in Rooms |-> "none"]
  /\ destroyed = {}
  /\ stopped = {}
  /\ held = [r \in Rooms |-> {}]
  /\ grace = [r \in Rooms |-> {}]
  /\ owed = [r \in Rooms |-> FALSE]
  /\ lapses = [r \in Rooms |-> [u \in Users |-> 0]]
  /\ onEmpty = [r \in Rooms |-> "nil"]
  /\ manager = [n \in Names |-> 0]
  /\ registry = {}
  /\ routed = {}
  /\ routes = [r \in Rooms |-> {}]
  /\ reapers = <<>>
  /\ online = [u \in Users |-> Nobody]
  /\ loggedIn = {}
  /\ sRoom = [s \in Sessions |-> 0]
  /\ pc = [s \in Sessions |-> "idle"]
  /\ job = [s \in Sessions |-> NoJob]
  /\ closer = [s \in Sessions |-> "none"]
  /\ closing = [s \in Sessions |-> 0]
  /\ raced = {}
  /\ visits = 0
  /\ moved = {}
  /\ overlapped = {}
  /\ disturbed = {}

Goto(s, label) == pc' = [pc EXCEPT ![s] = label]

Finish(s) == Goto(s, "idle") /\ job' = [job EXCEPT ![s] = NoJob]

(* Close is past the online table.                                         *)
LoggedOut(s) == closer[s] \in {"hangup", "done"}

(* A handler takes another frame while the connection is open; the closer  *)
(* hangs up last.                                                          *)
Listening(s) == pc[s] = "idle" /\ closer[s] # "done"

Authed(s) == Listening(s) /\ s \in loggedIn

(* Nothing of a closed session is under way any more.                      *)
Over(s) ==
  /\ closer[s] = "done"
  /\ pc[s] = "idle"
  /\ s \notin raced \cup moved
  /\ \A r \in Rooms : lapses[r][Acct[s]] = 0

-----------------------------------------------------------------------------
(* Login and reconnection.  handleLogin and handleReconnect end alike: the *)
(* session gets its identity, then OnLogin enters it in the online table.  *)
Login(s) ==
  /\ Listening(s)
  /\ s \notin loggedIn
  /\ loggedIn' = loggedIn \cup {s}
  /\ Goto(s, "present")
  /\ LET others == {t \in loggedIn : Acct[t] = Acct[s] /\ ~Over(t)}
     IN overlapped' = IF others = {} THEN overlapped
                                     ELSE overlapped \cup others \cup {s}
  /\ UNCHANGED <<roomVars, hubVars, sRoom, job, closer, closing, raced, visits,
                 moved, disturbed>>

OnLogin(s) ==
  /\ pc[s] = "present"
  /\ online' = [online EXCEPT ![Acct[s]] = s]
  /\ raced' = IF LoggedOut(s) THEN raced \cup {s} ELSE raced
  /\ Goto(s, "idle")
  /\ UNCHANGED <<roomVars, manager, registry, routed, routes, reapers,
                 loggedIn, sRoom, job, closer, closing, visits, moved,
                 overlapped, disturbed>>

-----------------------------------------------------------------------------
(* The three ways into a room.                                             *)

Begin(s, creating, n) ==
  /\ visits < MaxVisits
  /\ visits' = visits + 1
  /\ Goto(s, "create")
  /\ job' = [job EXCEPT ![s] = [creating |-> creating, name |-> n,
                                 room |-> 0]]
  /\ UNCHANGED <<roomVars, manager, routed, routes, reapers, online, loggedIn,
                 sRoom, closer, closing, raced, moved, overlapped, disturbed>>

(* MsgRoomCreate: not from inside a room, and only for a name that is not  *)
(* listed yet.                                                             *)
RoomCreate(s, n) ==
  /\ Authed(s)
  /\ sRoom[s] = 0
  /\ n \notin registry
  /\ registry' = registry \cup {n}
  /\ Begin(s, TRUE, n)

(* MsgRoomJoin: not from inside a room, and only for a name that is listed.*)
RoomJoin(s, n) ==
  /\ Authed(s)
  /\ sRoom[s] = 0
  /\ n \in registry
  /\ UNCHANGED registry
  /\ Begin(s, FALSE, n)

(* MsgBattleJoin: from anywhere, listing the name if need be.              *)
BattleJoin(s, n) ==
  /\ Authed(s)
  /\ registry' = registry \cup {n}
  /\ Begin(s, FALSE, n)

-----------------------------------------------------------------------------
(* Hub.Join, call by call.                                                 *)

(* Manager.CreateRoom: the room of that name, made if there is none.       *)
CreateRoom(s) ==
  /\ pc[s] = "create"
  /\ LET n == job[s].name
     IN IF manager[n] # 0
        THEN /\ job' = [job EXCEPT ![s].room = manager[n]]
             /\ UNCHANGED <<created, nameOf, manager>>
        ELSE /\ created < MaxRooms
             /\ created' = created + 1
             /\ nameOf' = [nameOf EXCEPT ![created'] = n]
             /\ manager' = [manager EXCEPT ![n] = created']
             /\ job' = [job EXCEPT ![s].room = created']
  /\ Goto(s, "add")
  /\ UNCHANGED <<destroyed, stopped, held, grace, owed, lapses, onEmpty,
                 registry, routed, routes, reapers, online, loggedIn, sRoom,
                 closer, closing, history>>

Seated(r) == held[r] \cup grace[r]

(* A reaper of that name has already found its room empty, or is done.     *)
Condemned(r) ==
  \/ r \in destroyed
  \/ \E i \in 1..Len(reapers) :
       /\ nameOf[reapers[i].room] = nameOf[r]
       /\ reapers[i].pc \in {"unroute", "unlist", "destroy"}

(* Mutant: the full-room test is off by one.                               *)
HasSeatOneTooMany(u, r) ==
  u \in Seated(r) \/ Cardinality(Seated(r)) <= MaxPlayers

HasSeat(u, r) == u \in Seated(r) \/ Cardinality(Seated(r)) < MaxPlayers

(* Room.AddPlayer: back to the seat it has, or a free one; ErrRoomFull     *)
(* otherwise, and then handleRoomCreate takes its listing back.            *)
AddPlayer(s) ==
  /\ pc[s] = "add"
  /\ LET r == job[s].room
         u == Acct[s]
     IN /\ r \notin stopped
        /\ \/ /\ HasSeat(u, r)
              /\ held' = [held EXCEPT ![r] = @ \cup {u}]
              /\ grace' = [grace EXCEPT ![r] = @ \ {u}]
              /\ owed' = [owed EXCEPT ![r] = @ \/ u \notin Seated(r)]
              /\ disturbed' = IF Condemned(r) THEN disturbed \cup {r}
                                              ELSE disturbed
              /\ Goto(s, "register")
              /\ job' = [job EXCEPT ![s].creating = FALSE]
           \/ /\ ~HasSeat(u, r)
              /\ ~job[s].creating
              /\ Finish(s)
              /\ UNCHANGED <<held, grace, owed, disturbed>>
           \/ /\ ~HasSeat(u, r)
              /\ job[s].creating
              /\ Goto(s, "delist")
              /\ UNCHANGED <<held, grace, owed, disturbed, job>>
  /\ UNCHANGED <<created, nameOf, destroyed, stopped, lapses, onEmpty, hubVars,
                 loggedIn, sRoom, closer, closing, raced, visits, moved,
                 overlapped>>

(* handleRoomCreate's error path.                                          *)
Delist(s) ==
  /\ pc[s] = "delist"
  /\ registry' = registry \ {job[s].name}
  /\ Finish(s)
  /\ UNCHANGED <<roomVars, manager, routed, routes, reapers, online, loggedIn,
                 sRoom, closer, closing, history>>

Register(s) ==
  /\ pc[s] = "register"
  /\ LET r == job[s].room
     IN /\ routes' = [routes EXCEPT ![r] = @ \cup {s}]
        /\ routed' = routed \cup {r}
        /\ onEmpty' = IF r \notin routed /\ onEmpty[r] = "nil"
                      THEN [onEmpty EXCEPT ![r] = "queued"] ELSE onEmpty
  /\ Goto(s, "enter")
  /\ UNCHANGED <<created, nameOf, destroyed, stopped, held, grace, owed,
                 lapses, manager, registry, reapers, online, loggedIn, sRoom,
                 job, closer, closing, history>>

(* Session.setRoom.                                                        *)
SetRoom(s) ==
  /\ pc[s] = "enter"
  /\ sRoom' = [sRoom EXCEPT ![s] = job[s].room]
  /\ raced' = IF closer[s] # "none" THEN raced \cup {s} ELSE raced
  /\ moved' = IF sRoom[s] \notin {0, job[s].room} THEN moved \cup {s}
                                                 ELSE moved
  /\ Goto(s, "confirm")
  /\ UNCHANGED <<roomVars, hubVars, loggedIn, job, closer, closing, visits,
                 overlapped, disturbed>>

(* SetPlayerEquip and the snapshots: three round trips to the loop.        *)
Confirm(s) ==
  /\ pc[s] = "confirm"
  /\ job[s].room \notin stopped
  /\ Finish(s)
  /\ UNCHANGED <<roomVars, hubVars, loggedIn, sRoom, closer, closing, history>>

-----------------------------------------------------------------------------
(* MsgBattleInput: the room is read under its lock and tested, then read   *)
(* again without it; a nil there is a panic (of the whole process; here    *)
(* the handler just stays at it).                                          *)

BattleInput(s) ==
  /\ Authed(s)
  /\ sRoom[s] # 0
  /\ Goto(s, "input")
  /\ UNCHANGED <<roomVars, hubVars, loggedIn, sRoom, job, closer, closing,
                 history>>

HandleInput(s) ==
  /\ pc[s] = "input"
  /\ Goto(s, IF sRoom[s] = 0 THEN "panic" ELSE "idle")
  /\ UNCHANGED <<roomVars, hubVars, loggedIn, sRoom, job, closer, closing,
                 history>>

-----------------------------------------------------------------------------
(* Hub.Leave, call by call.                                                *)

Leave(s) ==
  /\ Authed(s)
  /\ sRoom[s] # 0
  /\ job' = [job EXCEPT ![s].room = sRoom[s]]
  /\ Goto(s, "leave")
  /\ UNCHANGED <<roomVars, hubVars, loggedIn, sRoom, closer, closing, history>>

LeaveClearRoom(s) ==
  /\ pc[s] = "leave"
  /\ sRoom' = [sRoom EXCEPT ![s] = 0]
  /\ Goto(s, "remove")
  /\ UNCHANGED <<roomVars, hubVars, loggedIn, job, closer, closing, history>>

RemovePlayer(s) ==
  /\ pc[s] = "remove"
  /\ LET r == job[s].room
     IN /\ r \notin stopped
        /\ held' = [held EXCEPT ![r] = @ \ {Acct[s]}]
        /\ grace' = [grace EXCEPT ![r] = @ \ {Acct[s]}]
  /\ Goto(s, "unroute")
  /\ UNCHANGED <<created, nameOf, destroyed, stopped, owed, lapses, onEmpty,
                 hubVars, loggedIn, sRoom, job, closer, closing, history>>

Unroute(s) ==
  /\ pc[s] = "unroute"
  /\ routes' = [routes EXCEPT ![job[s].room] = @ \ {s}]
  /\ Finish(s)
  /\ UNCHANGED <<roomVars, manager, registry, routed, reapers, online,
                 loggedIn, sRoom, closer, closing, history>>

-----------------------------------------------------------------------------
(* Session.Close and Hub.OnDisconnect, call by call.  Close runs once, in  *)
(* any goroutine, at any moment of the handler.                            *)

(* Mutant: a session that is in no room is taken out of it all the same.   *)
CloseUnchecked(s) ==
  /\ closer[s] = "none"
  /\ Cardinality({t \in Sessions : closer[t] # "none"}) < MaxCloses
  /\ closing' = [closing EXCEPT ![s] = sRoom[s]]
  /\ closer' = [closer EXCEPT ![s] = "clear"]
  /\ UNCHANGED <<roomVars, hubVars, loggedIn, sRoom, pc, job, history>>

Close(s) ==
  /\ closer[s] = "none"
  /\ Cardinality({t \in Sessions : closer[t] # "none"}) < MaxCloses
  /\ closing' = [closing EXCEPT ![s] = sRoom[s]]
  /\ closer' = [closer EXCEPT ![s] = IF sRoom[s] = 0 THEN "logout"
                                                     ELSE "clear"]
  /\ UNCHANGED <<roomVars, hubVars, loggedIn, sRoom, pc, job, history>>

CloseClearRoom(s) ==
  /\ closer[s] = "clear"
  /\ sRoom' = [sRoom EXCEPT ![s] = 0]
  /\ closer' = [closer EXCEPT ![s] = "offline"]
  /\ UNCHANGED <<roomVars, hubVars, loggedIn, pc, job, closing, history>>

SetOffline(s) ==
  /\ closer[s] = "offline"
  /\ lapses' = IF closing[s] \in stopped THEN lapses
               ELSE [lapses EXCEPT ![closing[s]][Acct[s]] = @ + 1]
  /\ closer' = [closer EXCEPT ![s] = "unroute"]
  /\ UNCHANGED <<created, nameOf, destroyed, stopped, held, grace, owed,
                 onEmpty, hubVars, loggedIn, sRoom, pc, job, closing, history>>

(* Mutant: the routing table keeps the session.                            *)
CloseWithoutUnroute(s) ==
  /\ closer[s] = "unroute"
  /\ closer' = [closer EXCEPT ![s] = "logout"]
  /\ UNCHANGED <<roomVars, hubVars, loggedIn, sRoom, pc, job, closing,
                 history>>

CloseUnroute(s) ==
  /\ closer[s] = "unroute"
  /\ routes' = [routes EXCEPT ![closing[s]] = @ \ {s}]
  /\ closer' = [closer EXCEPT ![s] = "logout"]
  /\ UNCHANGED <<roomVars, manager, registry, routed, reapers, online,
                 loggedIn, sRoom, pc, job, closing, history>>

(* Mutant: only a session that was in a room is logged out.                *)
LogoutFromRoomOnly(s) ==
  /\ closer[s] = "logout"
  /\ online' = IF s \in loggedIn /\ closing[s] # 0
               THEN [online EXCEPT ![Acct[s]] = Nobody] ELSE online
  /\ closer' = [closer EXCEPT ![s] = "hangup"]
  /\ closing' = [closing EXCEPT ![s] = 0]
  /\ UNCHANGED <<roomVars, manager, registry, routed, routes, reapers,
                 loggedIn, sRoom, pc, job, history>>

(* The online table loses the account, whichever session it points to.     *)
Logout(s) ==
  /\ closer[s] = "logout"
  /\ online' = IF s \in loggedIn THEN [online EXCEPT ![Acct[s]] = Nobody]
                                 ELSE online
  /\ closer' = [closer EXCEPT ![s] = "hangup"]
  /\ closing' = [closing EXCEPT ![s] = 0]
  /\ UNCHANGED <<roomVars, manager, registry, routed, routes, reapers,
                 loggedIn, sRoom, pc, job, history>>

(* conn.Close: the handler's next read fails.                              *)
HangUp(s) ==
  /\ closer[s] = "hangup"
  /\ closer' = [closer EXCEPT ![s] = "done"]
  /\ UNCHANGED <<roomVars, hubVars, loggedIn, sRoom, pc, job, closing,
                 history>>

-----------------------------------------------------------------------------
(* The room's loop, as Seats.tla has it.                                   *)

Alive(r) == r <= created /\ r \notin stopped

(* select may serve other cases before it takes the closed stop channel;   *)
(* nobody reads the channels after that.                                   *)
LoopReturns(r) ==
  /\ r \in destroyed \ stopped
  /\ stopped' = stopped \cup {r}
  /\ lapses' = [lapses EXCEPT ![r] = [u \in Users |-> 0]]
  /\ UNCHANGED <<created, nameOf, destroyed, held, grace, owed, onEmpty,
                 hubVars, sessionVars, history>>

Lapse(r, u) ==
  /\ Alive(r)
  /\ lapses[r][u] > 0
  /\ lapses' = [lapses EXCEPT ![r][u] = @ - 1]
  /\ IF u \in Seated(r)
     THEN /\ held' = [held EXCEPT ![r] = @ \ {u}]
          /\ grace' = [grace EXCEPT ![r] = @ \cup {u}]
     ELSE UNCHANGED <<held, grace>>
  /\ UNCHANGED <<created, nameOf, destroyed, stopped, owed, onEmpty, hubVars,
                 sessionVars, history>>

RegisterOnEmpty(r) ==
  /\ Alive(r)
  /\ onEmpty[r] = "queued"
  /\ onEmpty' = [onEmpty EXCEPT ![r] = "set"]
  /\ UNCHANGED <<created, nameOf, destroyed, stopped, held, grace, owed,
                 lapses, hubVars, sessionVars, history>>

(* A tick that drops players whose grace is over or finds nobody left: the *)
(* callback, if it is there, starts a reaper.                              *)
Sweep(r) ==
  /\ Alive(r)
  /\ \E gone \in SUBSET grace[r] :
       LET empty == held[r] \cup (grace[r] \ gone) = {} /\ owed[r]
           call == empty /\ onEmpty[r] = "set"
       IN /\ gone # {} \/ empty
          /\ call => Len(reapers) < MaxReapers
          /\ grace' = [grace EXCEPT ![r] = @ \ gone]
          /\ owed' = [owed EXCEPT ![r] = @ /\ ~empty]
          /\ reapers' = IF call
                        THEN Append(reapers, [room |-> r, pc |-> "check"])
                        ELSE reapers
  /\ UNCHANGED <<created, nameOf, destroyed, stopped, held, lapses, onEmpty,
                 manager, registry, routed, routes, online, sessionVars,
                 history>>

-----------------------------------------------------------------------------
(* The reaper, call by call.                                               *)

Advance(i, label) == reapers' = [reapers EXCEPT ![i].pc = label]

(* Mutant: there is no second look.                                        *)
StillEmptyAssumed(r) == TRUE

StillEmpty(r) == Seated(r) = {}

(* StateSnapshot: nothing is done if somebody is there again.              *)
ReapCheck(i) ==
  /\ reapers[i].pc = "check"
  /\ reapers[i].room \notin stopped
  /\ LET r == reapers[i].room
     IN /\ Advance(i, IF StillEmpty(r) THEN "unroute" ELSE "over")
        /\ disturbed' = IF StillEmpty(r) /\ manager[nameOf[r]] \notin {0, r}
                        THEN disturbed \cup {manager[nameOf[r]]} ELSE disturbed
  /\ UNCHANGED <<roomVars, manager, registry, routed, routes, online,
                 sessionVars, raced, visits, moved, overlapped>>

ReapUnroute(i) ==
  /\ reapers[i].pc = "unroute"
  /\ routed' = routed \ {reapers[i].room}
  /\ routes' = [routes EXCEPT ![reapers[i].room] = {}]
  /\ Advance(i, "unlist")
  /\ UNCHANGED <<roomVars, manager, registry, online, sessionVars, history>>

ReapUnlist(i) ==
  /\ reapers[i].pc = "unlist"
  /\ registry' = registry \ {nameOf[reapers[i].room]}
  /\ Advance(i, "destroy")
  /\ UNCHANGED <<roomVars, manager, routed, routes, online, sessionVars,
                 history>>

(* Mutant: the manager's table keeps the room it stops.                    *)
ReapDestroyKeepsEntry(i) ==
  /\ reapers[i].pc = "destroy"
  /\ destroyed' = destroyed \cup ({manager[nameOf[reapers[i].room]]} \ {0})
  /\ Advance(i, "over")
  /\ UNCHANGED <<created, nameOf, stopped, held, grace, owed, lapses, onEmpty,
                 manager, registry, routed, routes, online, sessionVars,
                 history>>

(* Manager.DestroyRoom goes by name: it stops the room that bears it now.  *)
ReapDestroy(i) ==
  /\ reapers[i].pc = "destroy"
  /\ LET n == nameOf[reapers[i].room]
     IN /\ destroyed' = destroyed \cup ({manager[n]} \ {0})
        /\ manager' = [manager EXCEPT ![n] = 0]
  /\ Advance(i, "over")
  /\ UNCHANGED <<created, nameOf, stopped, held, grace, owed, lapses, onEmpty,
                 registry, routed, routes, online, sessionVars, history>>

-----------------------------------------------------------------------------
Handler(s) ==
  \/ Login(s) \/ OnLogin(s)
  \/ \E n \in Names : RoomCreate(s, n) \/ RoomJoin(s, n) \/ BattleJoin(s, n)
  \/ CreateRoom(s) \/ AddPlayer(s) \/ Delist(s) \/ Register(s) \/ SetRoom(s)
  \/ Confirm(s) \/ BattleInput(s) \/ HandleInput(s)
  \/ Leave(s) \/ LeaveClearRoom(s) \/ RemovePlayer(s) \/ Unroute(s)

Closer(s) ==
  \/ Close(s) \/ CloseClearRoom(s) \/ SetOffline(s) \/ CloseUnroute(s)
  \/ Logout(s) \/ HangUp(s)

Loop(r) ==
  \/ \E u \in Users : Lapse(r, u)
  \/ LoopReturns(r) \/ RegisterOnEmpty(r) \/ Sweep(r)

Reaper(i) ==
  ReapCheck(i) \/ ReapUnroute(i) \/ ReapUnlist(i) \/ ReapDestroy(i)

Next ==
  \/ \E s \in Sessions : Handler(s) \/ Closer(s)
  \/ \E r \in Rooms : Loop(r)
  \/ \E i \in 1..Len(reapers) : Reaper(i)

Spec == Init /\ [][Next]_vars

-----------------------------------------------------------------------------
(* Properties.                                                             *)

(* Every variable stays in its range; a room's callback is registered only *)
(* for a room that exists, and a handler works on one that was created.    *)
TypeOK ==
  /\ created \in 0..MaxRooms
  /\ nameOf \in [Rooms -> Names \cup {"none"}]
  /\ destroyed \subseteq 1..created /\ stopped \subseteq destroyed
  /\ held \in [Rooms -> SUBSET Users] /\ grace \in [Rooms -> SUBSET Users]
  /\ owed \in [Rooms -> BOOLEAN]
  /\ lapses \in [Rooms -> [Users -> 0..Cardinality(Sessions)]]
  /\ onEmpty \in [Rooms -> {"nil", "queued", "set"}]
  /\ manager \in [Names -> 0..created] /\ registry \subseteq Names
  /\ routed \subseteq 1..created /\ routes \in [Rooms -> SUBSET Sessions]
  /\ Len(reapers) <= MaxReapers
  /\ online \in [Users -> Sessions \cup {Nobody}]
  /\ loggedIn \subseteq Sessions
  /\ visits \in 0..MaxVisits
  /\ sRoom \in [Sessions -> 0..created]
  /\ \A s \in Sessions :
       /\ job[s].room \in 0..created
       /\ pc[s] \in {"add", "register", "enter", "confirm", "leave", "remove",
                    "unroute"} => job[s].room # 0
       /\ closer[s] \in {"clear", "offline", "unroute"} => closing[s] # 0

(* The manager's table and the running rooms agree: whatever creators and  *)
(* reapers do, a name never has two rooms that were not told to stop, and  *)
(* no room runs that the table has lost.                                   *)
OneRoomPerName ==
  \A r \in 1..created : r \notin destroyed <=> manager[nameOf[r]] = r

(* Neither the handler nor Close is at work.                               *)
AtRest(s) == pc[s] = "idle" /\ closer[s] = "none"

(* A session at rest believes what the room believes.  Once Join has       *)
(* returned, and as long as the session neither leaves nor closes, its     *)
(* room runs, the room holds its seat, and it gets the broadcasts; unless  *)
(* a reaper that had already decided was at work when the room was entered,*)
(* or the account is shared with another session.                          *)
QuietSessionSeated ==
  \A s \in Sessions \ overlapped :
    LET r == sRoom[s]
    IN AtRest(s) /\ r \notin {0} \cup disturbed
       => r \notin destroyed /\ Acct[s] \in held[r] /\ s \in routes[r]

(* What Close leaves behind: no route, no room, and no seat that is held   *)
(* without an offline message on its way; wherever the handler stood when  *)
(* Close ran, except in Join before setRoom, and unless BattleJoin took    *)
(* the session from one room to another.                                   *)
GoneSessionsReleased ==
  \A s \in Sessions \ (raced \cup moved) :
    closer[s] = "done" /\ pc[s] = "idle"
    => /\ sRoom[s] = 0
       /\ \A r \in Rooms :
            /\ s \notin routes[r]
            /\ s \notin overlapped /\ r \notin stopped /\ Acct[s] \in held[r]
               => lapses[r][Acct[s]] > 0
                  \/ \E t \in loggedIn \ {s} : Acct[t] = Acct[s]

(* The online table is right about an account that is used by one session  *)
(* at a time: a session at rest is in it, and an entry is a session that   *)
(* has logged in to the account and is not closed, unless Close overtook   *)
(* OnLogin.                                                                *)
Presence ==
  \A s \in loggedIn \ (overlapped \cup raced) :
    /\ AtRest(s) => online[Acct[s]] = s
    /\ online[Acct[s]] = s /\ pc[s] = "idle" => ~LoggedOut(s)

(* Room r, as Seats.tla sees it.                                           *)
Seat(r) == INSTANCE Seats WITH held <- held[r], grace <- grace[r],
                               owed <- owed[r]

(* Whatever the gateway does around them, the rooms' seats change as       *)
(* Seats.tla says; so what Room.tla implements is what the hub relies on.  *)
EachRoomSeats ==
  /\ \A r \in Rooms : Seat(r)!Init
  /\ [][\A r \in Rooms : [Seat(r)!Next]_(Seat(r)!vars)]_vars

(* What the grace period promises: a player whose connection is in the     *)
(* room is not evicted.                                                    *)
ReconnectedKeepsSeat ==
  [][\A s \in Sessions, r \in Rooms :
       AtRest(s) /\ sRoom[s] = r /\ Acct[s] \in grace[r] /\ UNCHANGED pc
       => Acct[s] \in grace'[r] \cup held'[r]]_vars
=============================================================================
