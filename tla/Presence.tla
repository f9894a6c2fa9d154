------------------------------ MODULE Presence ------------------------------
(***************************************************************************)
(* What the lobby shows: who of one's friends is online (Hub.OnLogin,      *)
(* OnDisconnect, broadcastOnline, SendFriendList) and which rooms there    *)
(* are (gateway/rooms.go and the handlers that change them).  The hub      *)
(* pushes changes and sends lists from many goroutines, and holds no lock  *)
(* between reading what it tells and telling it.                           *)
(*                                                                         *)
(* Send puts a frame into the session's queue at once, so what a client    *)
(* will have seen is what was sent to it last (Server.tla: the queue keeps *)
(* its order).  Rooms are their names and their sets of sessions; Hub.tla  *)
(* has the rest of them.  What is left out: friends are fixed here, so the *)
(* list that handleFriendAccept sends to the other side is in Friends.tla; *)
(* the numbers in a list of rooms are read at one moment, though another   *)
(* goroutine may change them while buildRoomListBody goes from name to     *)
(* name, which it announces afterwards; and of two rooms of one name one   *)
(* after the other a name has the sessions of the one it bears now, and    *)
(* one reaper.                                                             *)
(***************************************************************************)
EXTENDS Naturals, FiniteSets

CONSTANTS Users,      (* account ids                                         *)
          Sessions,   (* connections, each used once                         *)
          Acct,       (* [Sessions -> Users]                                 *)
          Friends,    (* [Users -> SUBSET Users], symmetric                  *)
          Rooms,      (* room names                                          *)
          Nobody,     (* no session                                          *)
          MaxEvents   (* bound: logins, closes, rooms and lists asked for    *)

ASSUME PresenceAssumption ==
  /\ Acct \in [Sessions -> Users]
  /\ Friends \in [Users -> SUBSET Users]
  /\ \A u, v \in Users : v \in Friends[u] <=> u \in Friends[v]
  /\ Nobody \notin Sessions \cup Rooms /\ Sessions \cap Rooms = {}
  /\ MaxEvents \in Nat

Workers == Sessions \cup Rooms   \* handlers of sessions, reapers of rooms

VARIABLES
  online,    (* Hub.online: a session or Nobody for each user                *)
  registry,  (* rooms of the registry                                        *)
  routes,    (* the sessions of each room, roomSessions                      *)
  at,        (* where each worker stands; "new" before OnLogin               *)
  closing,   (* where Close stands: "not yet", "table" or "done"             *)
  wanted,    (* the room a session creates or joins                          *)
  room,      (* Session.Room                                                 *)
  todo,      (* friends still to be told that the session's account is on    *)
             (* (TRUE) or off (FALSE) line                                   *)
  told,      (* the session sessionOf has found for that, or Nobody          *)
  unread,    (* friends still to be looked up for the list of a session      *)
  list,      (* those found online                                           *)
  body,      (* the list of rooms that a worker has read                     *)
  sees,      (* friends each client believes to be online                    *)
  rooms,     (* the list of rooms each client has                            *)
  events,    (* history: logins, closes, rooms and lists asked for           *)
  used,      (* history: rooms that somebody has been in                     *)
  crossed,   (* history: <<session, friend>>: a push about the friend was    *)
             (* sent after the friend was looked up for the list, and before *)
             (* the list was sent                                            *)
  mixed,     (* history: users about whom two goroutines were pushing at a   *)
             (* time, until one pushes alone                                 *)
  outdated   (* history: sessions whose list of rooms need not be right:     *)
             (* rooms changed and nobody told, or two lists were on their    *)
             (* way at a time; until one goes out alone                      *)

friendly == <<todo, told, unread, list, sees, crossed, mixed>>
roomy == <<registry, routes, wanted, room, body, rooms, used, outdated>>
vars == <<online, at, closing, events, friendly, roomy>>

Listing == [r \in registry |-> Cardinality(routes[r])]

Init ==
  /\ online = [u \in Users |-> Nobody]
  /\ registry = {} /\ routes = [r \in Rooms |-> {}]
  /\ at = [g \in Workers |-> IF g \in Sessions THEN "new" ELSE "idle"]
  /\ closing = [s \in Sessions |-> "not yet"]
  /\ wanted = [s \in Sessions |-> Nobody]
  /\ room = [s \in Sessions |-> Nobody]
  /\ todo = [on \in BOOLEAN |-> [s \in Sessions |-> {}]]
  /\ told = [on \in BOOLEAN |-> [s \in Sessions |-> Nobody]]
  /\ unread = [s \in Sessions |-> {}] /\ list = [s \in Sessions |-> {}]
  /\ body = [g \in Workers |-> <<>>]
  /\ sees = [s \in Sessions |-> {}]
  /\ rooms = [s \in Sessions |-> <<>>]
  /\ events = 0 /\ used = {}
  /\ crossed = {} /\ mixed = {} /\ outdated = {}

Goto(g, label) == at' = [at EXCEPT ![g] = label]

Happens == events < MaxEvents /\ events' = events + 1

(* Close has also told the friends, and the connection is closed.          *)
Closed(s) ==
  closing[s] = "done" /\ todo[FALSE][s] = {} /\ told[FALSE][s] = Nobody

(* The handler takes a frame as long as the connection is open.            *)
Listening(s) == at[s] = "idle" /\ ~Closed(s)

(* Looking up friends for a list, at the login or on request.              *)
Reading(s) == at[s] \in {"login", "ask"}

-----------------------------------------------------------------------------
(* broadcastOnline.                                                        *)

Pushing(u) == \E on \in BOOLEAN, s \in Sessions :
                Acct[s] = u /\ (todo[on][s] # {} \/ told[on][s] # Nobody)

StartPush(s, on) ==
  /\ todo' = [todo EXCEPT ![on][s] = Friends[Acct[s]]]
  /\ mixed' = IF Pushing(Acct[s]) THEN mixed \cup {Acct[s]}
                                  ELSE mixed \ {Acct[s]}

(* sessionOf: a friend that is not in the table is passed over.            *)
LookUp(s, on, f) ==
  /\ f \in todo[on][s] /\ told[on][s] = Nobody
  /\ todo' = [todo EXCEPT ![on][s] = @ \ {f}]
  /\ told' = [told EXCEPT ![on][s] = online[f]]
  /\ UNCHANGED <<online, at, closing, events, unread, list, sees, crossed,
                 mixed, roomy>>

Tell(s, on) ==
  LET t == told[on][s]
      u == Acct[s]
  IN /\ t # Nobody
     /\ told' = [told EXCEPT ![on][s] = Nobody]
     /\ IF closing[t] # "not yet" THEN UNCHANGED <<sees, crossed>>
        ELSE /\ sees' = [sees EXCEPT ![t] = IF on THEN @ \cup {u} ELSE @ \ {u}]
             /\ crossed' = IF Reading(t) /\ u \notin unread[t]
                           THEN crossed \cup {<<t, u>>}
                           ELSE crossed \ {<<t, u>>}
     /\ UNCHANGED <<online, at, closing, events, todo, unread, list, mixed,
                    roomy>>

-----------------------------------------------------------------------------
(* Coming and going.                                                       *)

(* Mutant: only the list is sent, and no friend is told.                   *)
OnLoginQuietly(s) ==
  /\ at[s] = "new" /\ Happens
  /\ online' = [online EXCEPT ![Acct[s]] = s]
  /\ Goto(s, "login")
  /\ unread' = [unread EXCEPT ![s] = Friends[Acct[s]]]
  /\ UNCHANGED <<closing, todo, told, list, sees, crossed, mixed, roomy>>

(* The first session of an account tells its friends.  Close, in another   *)
(* goroutine, may have come first, or have come to its end.                *)
OnLogin(s) ==
  /\ at[s] = "new" /\ Happens
  /\ online' = [online EXCEPT ![Acct[s]] = s]
  /\ Goto(s, "login")
  /\ unread' = [unread EXCEPT ![s] = Friends[Acct[s]]]
  /\ IF online[Acct[s]] = Nobody THEN StartPush(s, TRUE)
                                 ELSE UNCHANGED <<todo, mixed>>
  /\ UNCHANGED <<closing, told, list, sees, crossed, roomy>>

(* MsgFriendList and MsgRoomList: the client asks for a list.              *)
AskFriends(s) ==
  /\ Listening(s)
  /\ Happens
  /\ Goto(s, "ask")
  /\ unread' = [unread EXCEPT ![s] = Friends[Acct[s]]]
  /\ UNCHANGED <<online, closing, todo, told, list, sees, crossed, mixed,
                 roomy>>

AskRooms(s) ==
  /\ Listening(s)
  /\ Happens
  /\ Goto(s, "read own")
  /\ UNCHANGED <<online, closing, friendly, roomy>>

(* SendFriendList; at the login when the friends are told: each is looked  *)
(* up, then the list is sent.                                              *)
ReadFriend(s, f) ==
  /\ Reading(s) /\ f \in unread[s]
  /\ todo[TRUE][s] = {} /\ told[TRUE][s] = Nobody
  /\ unread' = [unread EXCEPT ![s] = @ \ {f}]
  /\ list' = IF online[f] # Nobody THEN [list EXCEPT ![s] = @ \cup {f}]
                                   ELSE list
  /\ crossed' = crossed \ {<<s, f>>}
  /\ UNCHANGED <<online, at, closing, events, todo, told, sees, mixed, roomy>>

SendFriendList(s) ==
  /\ Reading(s) /\ unread[s] = {}
  /\ sees' = IF closing[s] = "not yet" THEN [sees EXCEPT ![s] = list[s]]
                                       ELSE sees
  /\ list' = [list EXCEPT ![s] = {}]
  /\ Goto(s, IF at[s] = "login" THEN "read own" ELSE "idle")
  /\ UNCHANGED <<online, closing, events, todo, told, unread, crossed, mixed,
                 roomy>>

(* Close and OnDisconnect, first half: out of the room, and nobody is      *)
(* told.  The session is closed: it gets nothing any more.                 *)
Disconnect(s) ==
  /\ closing[s] = "not yet"
  /\ Happens
  /\ closing' = [closing EXCEPT ![s] = "table"]
  /\ routes' = [r \in Rooms |-> IF r = room[s] THEN routes[r] \ {s}
                                               ELSE routes[r]]
  /\ room' = [room EXCEPT ![s] = Nobody]
  /\ outdated' = IF routes' = routes THEN outdated ELSE Sessions
  /\ sees' = [sees EXCEPT ![s] = {}] /\ rooms' = [rooms EXCEPT ![s] = <<>>]
  /\ crossed' = {x \in crossed : x[1] # s}
  /\ UNCHANGED <<online, at, todo, told, unread, list, mixed, registry, wanted,
                 body, used>>

(* Second half: out of the table, whichever session is there, if this one  *)
(* has logged in, which handleLogin notes before it calls OnLogin.         *)
GoOffline(s) ==
  /\ closing[s] = "table"
  /\ closing' = [closing EXCEPT ![s] = "done"]
  /\ \/ at[s] = "new" /\ UNCHANGED <<online, todo, mixed>>
     \/ /\ online' = [online EXCEPT ![Acct[s]] = Nobody]
        /\ StartPush(s, FALSE)
  /\ UNCHANGED <<at, events, told, unread, list, sees, crossed, roomy>>

-----------------------------------------------------------------------------
(* The list of rooms.  A worker at "read" or "send" has one on its way to  *)
(* all; at "read own" or "answer", at the end of OnLogin, to its session.  *)

OnItsWay(g) == at[g] \in {"read", "send", "answer"}

(* buildRoomListBody.                                                      *)
Read(g) ==
  /\ at[g] \in {"read", "read own"}
  /\ Goto(g, IF at[g] = "read" THEN "send" ELSE "answer")
  /\ body' = [body EXCEPT ![g] = Listing]
  /\ LET reached == IF at[g] = "read" THEN Sessions ELSE {g}
     IN outdated' = IF \E h \in Workers \ {g} : OnItsWay(h)
                    THEN outdated \cup Sessions ELSE outdated \ reached
  /\ UNCHANGED <<online, closing, events, friendly, registry, routes, wanted,
                 room, rooms, used>>

(* To the sessions of the table, or to one's own.  The frames go out one   *)
(* by one, but what a client has in the end depends only on the order of   *)
(* those that it gets: taking them as one step loses no order.             *)
SendRoomList(g) ==
  /\ at[g] \in {"send", "answer"}
  /\ LET targets == IF at[g] = "send" THEN {online[u] : u \in Users} ELSE {g}
     IN rooms' = [t \in Sessions |->
                    IF t \in targets /\ closing[t] = "not yet" THEN body[g]
                                                               ELSE rooms[t]]
  /\ Goto(g, "idle")
  /\ body' = [body EXCEPT ![g] = <<>>]
  /\ UNCHANGED <<online, closing, events, friendly, registry, routes, wanted,
                 room, used, outdated>>

-----------------------------------------------------------------------------
(* What changes the rooms.                                                 *)

(* The rooms change here, and are not yet being read for that.             *)
Changing(g) == at[g] \in {"create", "enter", "destroy"}

(* handleRoomCreate, handleRoomJoin and BattleJoin, the last also from     *)
(* inside a room: the name goes into the registry, the session into the    *)
(* room.  When that fails handleRoomCreate takes the name out again,       *)
(* BattleJoin leaves it, and nobody is told.                               *)
Enter(s, r) ==
  /\ Listening(s)
  /\ Happens
  /\ wanted' = [wanted EXCEPT ![s] = r]
  /\ registry' = registry \cup {r}
  /\ Goto(s, IF r \in registry THEN "join" ELSE "create")
  /\ UNCHANGED <<online, closing, friendly, routes, room, body, rooms, used,
                 outdated>>

(* Hub.Join up to the routing table, then setRoom; Close may come before,  *)
(* between and after.                                                      *)
Join(s) ==
  /\ at[s] \in {"join", "create"}
  /\ routes' = [routes EXCEPT ![wanted[s]] = @ \cup {s}]
  /\ used' = used \cup {wanted[s]}
  /\ Goto(s, "enter")
  /\ UNCHANGED <<online, closing, events, friendly, registry, wanted, room,
                 body, rooms, outdated>>

SetRoom(s) ==
  /\ at[s] = "enter"
  /\ room' = [room EXCEPT ![s] = wanted[s]]
  /\ wanted' = [wanted EXCEPT ![s] = Nobody]
  /\ Goto(s, "read")
  /\ UNCHANGED <<online, closing, events, friendly, registry, routes, body,
                 rooms, used, outdated>>

JoinFails(s) ==
  /\ at[s] \in {"join", "create"}
  /\ Goto(s, "idle")
  /\ \/ UNCHANGED registry
     \/ at[s] = "create" /\ registry' = registry \ {wanted[s]}
  /\ wanted' = [wanted EXCEPT ![s] = Nobody]
  /\ outdated' = IF at[s] = "create" THEN Sessions ELSE outdated
  /\ UNCHANGED <<online, closing, events, friendly, routes, room, body, rooms,
                 used>>

(* Mutant: whoever leaves tells nobody.                                    *)
LeaveQuietly(s) ==
  /\ Listening(s) /\ room[s] # Nobody
  /\ routes' = [routes EXCEPT ![room[s]] = @ \ {s}]
  /\ room' = [room EXCEPT ![s] = Nobody]
  /\ UNCHANGED <<online, at, closing, events, friendly, registry, wanted, body,
                 rooms, used, outdated>>

Leave(s) ==
  /\ Listening(s) /\ room[s] # Nobody
  /\ routes' = [routes EXCEPT ![room[s]] = @ \ {s}]
  /\ room' = [room EXCEPT ![s] = Nobody]
  /\ Goto(s, "read")
  /\ UNCHANGED <<online, closing, events, friendly, registry, wanted, body,
                 rooms, used, outdated>>

(* The reaper of a room that it has found empty: the sessions of the room, *)
(* its name in the registry, then the room itself.  Somebody may join at   *)
(* any moment of that.                                                     *)
ReapCheck(r) ==
  /\ at[r] = "idle" /\ r \in used /\ routes[r] = {}
  /\ Goto(r, "reap")
  /\ UNCHANGED <<online, closing, events, friendly, roomy>>

Reap(r) ==
  /\ at[r] = "reap"
  /\ routes' = [routes EXCEPT ![r] = {}]
  /\ registry' = registry \ {r}
  /\ Goto(r, "destroy")
  /\ UNCHANGED <<online, closing, events, friendly, wanted, room, body, rooms,
                 used, outdated>>

DestroyRoom(r) ==
  /\ at[r] = "destroy"
  /\ routes' = [routes EXCEPT ![r] = {}]
  /\ used' = used \ {r}
  /\ Goto(r, "read")
  /\ UNCHANGED <<online, closing, events, friendly, registry, wanted, room,
                 body, rooms, outdated>>

-----------------------------------------------------------------------------
Next ==
  \/ \E s \in Sessions :
       \/ OnLogin(s) \/ AskFriends(s) \/ AskRooms(s) \/ SendFriendList(s)
       \/ Disconnect(s) \/ GoOffline(s)
       \/ \E on \in BOOLEAN : Tell(s, on) \/ \E f \in Users : LookUp(s, on, f)
       \/ \E f \in Users : ReadFriend(s, f)
       \/ Join(s) \/ SetRoom(s) \/ JoinFails(s) \/ Leave(s)
       \/ \E r \in Rooms : Enter(s, r)
  \/ \E g \in Workers : Read(g) \/ SendRoomList(g)
  \/ \E r \in Rooms : ReapCheck(r) \/ Reap(r) \/ DestroyRoom(r)

Spec == Init /\ [][Next]_vars

-----------------------------------------------------------------------------
(* Properties.                                                             *)

Settled(s) ==
  /\ online[Acct[s]] = s /\ closing[s] = "not yet"
  /\ at[s] \notin {"new", "login", "read own"}

(* When no push about a friend is on its way, a client that has its lists  *)
(* shows the friend as the table has it: a friend that logs in or goes     *)
(* while a list is put together is in the list or in a push.  Except that  *)
(* a push between reading and sending the list is undone by the list, and  *)
(* that the pushes of two sessions of one account, or of a session that    *)
(* logs in and closes at a time, may change places.                        *)
FriendsSeen ==
  \A s \in Sessions : Settled(s) /\ ~Reading(s) =>
    \A f \in Friends[Acct[s]] :
      Pushing(f) \/ f \in mixed \/ <<s, f>> \in crossed
      \/ (f \in sees[s] <=> online[f] # Nobody)

(* When no list is on its way every client has the rooms and the numbers   *)
(* there are; but for what disconnecting and failing to create change, and *)
(* for lists that overtake each other, until a list goes out alone.        *)
RoomsSeen ==
  \A s \in Sessions \ outdated :
    Settled(s) /\ (\A g \in Workers : ~OnItsWay(g) /\ ~Changing(g)) =>
      rooms[s] = Listing
=============================================================================
