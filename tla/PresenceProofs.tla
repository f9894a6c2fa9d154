--------------------------- MODULE PresenceProofs ---------------------------
(***************************************************************************)
(* Proofs about Presence.tla, for every set of accounts, sessions and      *)
(* rooms and every symmetric friendship: what a client shows of its        *)
(* friends and of the rooms is what there is, but for what the properties  *)
(* except.                                                                 *)
(*                                                                         *)
(* Both invariants follow what is on its way to a client.  For the rooms:  *)
(* whoever will read them again for all, else what the lists under way     *)
(* say, else what the client has (Fresh).  For a friend: a push that will  *)
(* come (Coming), else what the client has or is about to get (Right); and *)
(* a push says what the table says (PushesAgree).                          *)
(***************************************************************************)
EXTENDS Presence, TLAPS

Places == {"new", "login", "ask", "read own", "answer", "idle", "join",
           "create", "enter", "read", "send", "reap", "destroy"}

(* Whoever stands here has changed the rooms, or will, and then reads them *)
(* for all.                                                                *)
Due == {"read", "create", "enter", "destroy"}

RoomsType ==
  /\ at \in [Workers -> Places]
  /\ online \in [Users -> Sessions \cup {Nobody}]
  /\ closing \in [Sessions -> {"not yet", "table", "done"}]
  /\ body = [g \in Workers |-> body[g]]
  /\ outdated \subseteq Sessions

(* Workers whose list of rooms the client of s is about to get.            *)
Carriers(s) ==
  {g \in Workers : at[g] = "send" \/ (g = s /\ at[g] = "answer")}

(* The rooms are about to be read for all or to change once more, or what  *)
(* s is about to get, if anything, and else what it has, is as they are.   *)
Fresh(s) ==
  \/ \E g \in Workers : at[g] \in Due
  \/ /\ \A g \in Carriers(s) : body[g] = Listing
     /\ Carriers(s) = {} => rooms[s] = Listing

RoomsInv ==
  /\ RoomsType
  /\ \A s \in Sessions \ outdated : Settled(s) => Fresh(s)

(* Whoever stands here has neither rooms to read for all nor a list of     *)
(* them to send.                                                           *)
Apart(label) == label \notin Due \cup {"send", "answer"}

(* A step that leaves the rooms, and the lists that are on their way.      *)
LEMMA RoomsUntouched ==
  ASSUME RoomsInv, UNCHANGED roomy, at' \in [Workers -> Places],
         online' \in [Users -> Sessions \cup {Nobody}],
         closing' \in [Sessions -> {"not yet", "table", "done"}],
         \A g \in Workers :
           at'[g] = at[g] \/ (Apart(at[g]) /\ Apart(at'[g])),
         \A s \in Sessions : Settled(s)' => Settled(s)
  PROVE  RoomsInv'
<1>1. /\ registry' = registry /\ routes' = routes /\ body' = body
      /\ rooms' = rooms /\ outdated' = outdated
  BY DEF roomy
<1>2. Listing' = Listing
  BY <1>1 DEF Listing
<1>3. RoomsType'
  BY <1>1 DEF RoomsInv, RoomsType
<1>4. ASSUME NEW s \in Sessions
      PROVE  Carriers(s)' = Carriers(s)
  BY DEF Carriers, Apart
<1>5. ASSUME NEW s \in Sessions, Fresh(s)
      PROVE  Fresh(s)'
  <2>1. CASE \E g \in Workers : at[g] \in Due
    <3>1. PICK g \in Workers : at[g] \in Due
      BY <2>1
    <3>2. at'[g] = at[g]
      BY <3>1 DEF Apart
    <3> QED BY <3>1, <3>2 DEF Fresh
  <2>2. CASE /\ \A g \in Carriers(s) : body[g] = Listing
             /\ Carriers(s) = {} => rooms[s] = Listing
    BY <1>1, <1>2, <1>4, <2>2 DEF Fresh
  <2> QED BY <1>5, <2>1, <2>2 DEF Fresh
<1> QED BY <1>1, <1>3, <1>5 DEF RoomsInv

(* Someone reads the rooms next, and for everyone.                         *)
LEMMA RoomsToBeRead ==
  ASSUME RoomsType', NEW g \in Workers, at'[g] \in Due
  PROVE  RoomsInv'
BY DEF RoomsInv, Fresh

(* buildRoomListBody.                                                      *)
LEMMA ReadStep ==
  ASSUME RoomsInv, NEW g \in Workers, Read(g)
  PROVE  RoomsInv'
<1> DEFINE place == IF at[g] = "read" THEN "send" ELSE "answer"
           reached == IF at[g] = "read" THEN Sessions ELSE {g}
<1>1. /\ at' = [at EXCEPT ![g] = place] /\ at[g] \in {"read", "read own"}
      /\ body' = [body EXCEPT ![g] = Listing]
      /\ outdated' = IF \E h \in Workers \ {g} : OnItsWay(h)
                     THEN outdated \cup Sessions ELSE outdated \ reached
      /\ UNCHANGED <<online, closing, registry, routes, rooms>>
  BY DEF Read, Goto
<1>2. Listing' = Listing
  BY <1>1 DEF Listing
<1>3. /\ at'[g] = place /\ body'[g] = Listing
      /\ \A h \in Workers : h # g => at'[h] = at[h]
  BY <1>1 DEF RoomsInv, RoomsType
<1>4. RoomsType'
  BY <1>1 DEF RoomsInv, RoomsType, Places
<1> SUFFICES ASSUME NEW s \in Sessions, s \notin outdated', Settled(s)',
                    \A h \in Workers : at'[h] \notin Due
             PROVE  /\ \A h \in Carriers(s)' : body'[h] = Listing
                    /\ Carriers(s)' = {} => rooms'[s] = Listing
  BY <1>2, <1>4 DEF RoomsInv, Fresh
<1>5. /\ \A h \in Workers \ {g} : ~OnItsWay(h)
      /\ s \notin outdated \/ s \in reached
  BY <1>1
<1>6. \A h \in Workers : h # g => h \notin Carriers(s)'
  BY <1>3, <1>5 DEF Carriers, OnItsWay
<1>7. \A h \in Carriers(s)' : body'[h] = Listing
  BY <1>3, <1>6 DEF Carriers
<1>8. CASE at[g] = "read" \/ s = g
  <2>1. g \in Carriers(s)'
    BY <1>1, <1>3, <1>8 DEF Carriers
  <2> QED BY <1>7, <2>1
<1>9. CASE at[g] # "read" /\ s # g
  <2>1. s \in Workers /\ at'[s] = at[s] /\ s \notin outdated
    BY <1>3, <1>5, <1>9 DEF Workers
  <2>2. Settled(s)
    BY <1>1, <2>1 DEF Settled
  <2>3. \A h \in Workers : at[h] \notin Due
    BY <1>1, <1>3, <1>9 DEF Due
  <2>4. Carriers(s) = {}
    BY <1>1, <1>5, <1>9 DEF Carriers, OnItsWay
  <2>5. rooms[s] = Listing
    BY <2>1, <2>2, <2>3, <2>4 DEF RoomsInv, Fresh
  <2> QED BY <1>1, <1>7, <2>5
<1> QED BY <1>8, <1>9

(* broadcastRoomList and the answer to the login.                          *)
LEMMA SendRoomListStep ==
  ASSUME RoomsInv,
         NEW g \in Workers, SendRoomList(g)
  PROVE  RoomsInv'
<1> USE PresenceAssumption
<1> DEFINE targets == IF at[g] = "send" THEN {online[u] : u \in Users}
                                        ELSE {g}
<1>1. /\ at' = [at EXCEPT ![g] = "idle"] /\ at[g] \in {"send", "answer"}
      /\ body' = [body EXCEPT ![g] = <<>>]
      /\ rooms' = [t \in Sessions |->
                     IF t \in targets /\ closing[t] = "not yet" THEN body[g]
                                                                ELSE rooms[t]]
      /\ UNCHANGED <<online, closing, registry, routes, outdated>>
  BY DEF SendRoomList, Goto
<1>2. Listing' = Listing
  BY <1>1 DEF Listing
<1>3. /\ at'[g] = "idle"
      /\ \A h \in Workers : h # g => at'[h] = at[h] /\ body'[h] = body[h]
  BY <1>1 DEF RoomsInv, RoomsType
<1>4. RoomsType'
  BY <1>1 DEF RoomsInv, RoomsType, Places
<1> SUFFICES ASSUME NEW s \in Sessions, s \notin outdated', Settled(s)',
                    \A h \in Workers : at'[h] \notin Due
             PROVE  /\ \A h \in Carriers(s)' : body'[h] = Listing
                    /\ Carriers(s)' = {} => rooms'[s] = Listing
  BY <1>2, <1>4 DEF RoomsInv, Fresh
<1>5. s \in Workers /\ Acct[s] \in Users
  BY DEF Workers, PresenceAssumption
<1>6. Settled(s)
  BY <1>1, <1>3, <1>5 DEF Settled
<1>7. \A h \in Workers : at[h] \notin Due
  BY <1>1, <1>3 DEF Due
<1>8. /\ \A h \in Carriers(s) : body[h] = Listing
      /\ Carriers(s) = {} => rooms[s] = Listing
  BY <1>1, <1>6, <1>7 DEF RoomsInv, Fresh
<1>9. Carriers(s)' = Carriers(s) \ {g}
  BY <1>3 DEF Carriers
<1>10. \A h \in Carriers(s)' : body'[h] = Listing
  BY <1>3, <1>8, <1>9 DEF Carriers
<1>11. CASE g \in Carriers(s)
  <2>1. s \in targets /\ closing[s] = "not yet"
    BY <1>5, <1>6, <1>11 DEF Carriers, Settled
  <2>2. rooms'[s] = body[g]
    BY <1>1, <2>1
  <2> QED BY <1>8, <1>10, <1>11, <2>2
<1>12. CASE g \notin Carriers(s)
  <2>1. s \notin targets
    BY <1>1, <1>12 DEF Carriers
  <2>2. rooms'[s] = rooms[s]
    BY <1>1, <2>1
  <2> QED BY <1>8, <1>9, <1>10, <1>12, <2>2
<1> QED BY <1>11, <1>12

(* Entering a room there is changes none, creating one is announced later. *)
LEMMA EnterStep ==
  ASSUME RoomsInv,
         NEW s \in Sessions, NEW r \in Rooms, Enter(s, r)
  PROVE  RoomsInv'
<1> USE PresenceAssumption
<1> DEFINE place == IF r \in registry THEN "join" ELSE "create"
<1>1. /\ at' = [at EXCEPT ![s] = place] /\ at[s] = "idle" /\ s \in Workers
      /\ registry' = registry \cup {r}
      /\ UNCHANGED <<online, closing, routes, body, rooms, outdated>>
  BY DEF Enter, Goto, Workers, Listening
<1>2. RoomsType'
  BY <1>1 DEF RoomsInv, RoomsType, Places
<1>3. CASE r \in registry
  <2>1. Listing' = Listing
    BY <1>1, <1>3 DEF Listing
  <2>2. at'[s] = "join" /\ \A h \in Workers : h # s => at'[h] = at[h]
    BY <1>1, <1>3 DEF RoomsInv, RoomsType
  <2>3. ASSUME NEW t \in Sessions
        PROVE  /\ Carriers(t)' = Carriers(t)
               /\ Settled(t)' => Settled(t)
               /\ Fresh(t) => Fresh(t)'
    <3>1. t \in Workers
      BY DEF Workers
    <3>2. Carriers(t)' = Carriers(t)
      BY <1>1, <2>2 DEF Carriers
    <3>3. \A g \in Workers : at[g] \in Due
                                 => at'[g] \in Due
      BY <1>1, <2>2 DEF Due
    <3>4. Settled(t)' => Settled(t)
      BY <1>1, <2>2, <3>1 DEF Settled
    <3> QED BY <1>1, <2>1, <3>2, <3>3, <3>4 DEF Fresh
  <2> QED BY <1>1, <1>2, <2>3 DEF RoomsInv
<1>4. CASE r \notin registry
  <2>1. at'[s] = "create"
    BY <1>1, <1>4 DEF RoomsInv, RoomsType
  <2> QED BY <1>1, <1>2, <2>1, RoomsToBeRead DEF Due
<1> QED BY <1>3, <1>4

(* When it fails, everyone is outdated if a room came and went.            *)
LEMMA JoinFailsStep ==
  ASSUME RoomsInv, NEW s \in Sessions, JoinFails(s)
  PROVE  RoomsInv'
<1> USE PresenceAssumption
<1>1. /\ at' = [at EXCEPT ![s] = "idle"] /\ at[s] \in {"join", "create"}
      /\ s \in Workers
      /\ registry' = registry \/ at[s] = "create"
      /\ outdated' = IF at[s] = "create" THEN Sessions ELSE outdated
      /\ UNCHANGED <<online, closing, routes, body, rooms>>
  BY DEF JoinFails, Goto, Workers
<1>2. RoomsType'
  BY <1>1 DEF RoomsInv, RoomsType, Places
<1>3. CASE at[s] = "create"
  BY <1>1, <1>2, <1>3 DEF RoomsInv
<1>4. CASE at[s] = "join"
  <2>1. Listing' = Listing
    BY <1>1, <1>4 DEF Listing
  <2>2. at'[s] = "idle" /\ \A h \in Workers : h # s => at'[h] = at[h]
    BY <1>1 DEF RoomsInv, RoomsType
  <2>3. ASSUME NEW t \in Sessions
        PROVE  /\ Settled(t)' => Settled(t)
               /\ Fresh(t) => Fresh(t)'
    <3>1. t \in Workers
      BY DEF Workers
    <3>2. Carriers(t)' = Carriers(t)
      BY <1>4, <2>2 DEF Carriers
    <3>3. \A g \in Workers : at[g] \in Due
                                 => at'[g] \in Due
      BY <1>4, <2>2 DEF Due
    <3>4. Settled(t)' => Settled(t)
      BY <1>1, <1>4, <2>2, <3>1 DEF Settled
    <3> QED BY <1>1, <2>1, <3>2, <3>3, <3>4 DEF Fresh
  <2> QED BY <1>1, <1>2, <1>4, <2>3 DEF RoomsInv
<1> QED BY <1>1, <1>3, <1>4

(* Joining, leaving and reaping go on to tell everyone.                    *)
LEMMA RoomChangeSteps ==
  ASSUME RoomsInv,
         \/ \E s \in Sessions : Join(s) \/ SetRoom(s) \/ Leave(s)
         \/ \E r \in Rooms : Reap(r) \/ DestroyRoom(r)
  PROVE  RoomsInv'
<1>1. PICK g \in Workers, place \in {"enter", "read", "destroy"} :
        /\ at' = [at EXCEPT ![g] = place]
        /\ UNCHANGED <<body, outdated, online, closing>>
  BY DEF Join, SetRoom, Leave, Reap, DestroyRoom, Goto, Workers
<1>2. RoomsType' /\ at'[g] = place
  BY <1>1 DEF RoomsInv, RoomsType, Places
<1> QED BY <1>2, RoomsToBeRead DEF Due

(* A close that leaves a room outdates everyone; another one nobody.       *)
LEMMA DisconnectStep ==
  ASSUME RoomsInv, NEW s \in Sessions, Disconnect(s)
  PROVE  RoomsInv'
<1>1. /\ closing' = [closing EXCEPT ![s] = "table"]
      /\ outdated' = IF routes' = routes THEN outdated ELSE Sessions
      /\ rooms' = [rooms EXCEPT ![s] = <<>>]
      /\ UNCHANGED <<online, at, registry, body>>
  BY DEF Disconnect
<1>2. RoomsType'
  BY <1>1 DEF RoomsInv, RoomsType
<1>3. CASE routes' # routes
  BY <1>1, <1>2, <1>3 DEF RoomsInv
<1>4. CASE routes' = routes
  <2>1. Listing' = Listing
    BY <1>1, <1>4 DEF Listing
  <2>2. ASSUME NEW t \in Sessions, Settled(t)'
        PROVE  Settled(t) /\ t # s
    BY <1>1, <2>2 DEF Settled, RoomsInv, RoomsType
  <2>3. ASSUME NEW t \in Sessions, t # s, Fresh(t)
        PROVE  Fresh(t)'
    <3>1. rooms'[t] = rooms[t] /\ Carriers(t)' = Carriers(t)
      BY <1>1, <2>3 DEF Carriers
    <3> QED BY <1>1, <2>1, <2>3, <3>1 DEF Fresh
  <2> QED BY <1>1, <1>2, <1>4, <2>2, <2>3 DEF RoomsInv
<1> QED BY <1>3, <1>4

(* A worker that has nothing to do turns to something else.                *)
LEMMA MovesApart ==
  ASSUME RoomsInv,
         NEW g \in Workers, NEW place \in {"ask", "read own", "reap"},
         at[g] = "idle", at' = [at EXCEPT ![g] = place],
         UNCHANGED <<online, closing>>, UNCHANGED roomy
  PROVE  RoomsInv'
<1>1. /\ at \in [Workers -> Places] /\ Sessions \subseteq Workers
      /\ online \in [Users -> Sessions \cup {Nobody}]
      /\ closing \in [Sessions -> {"not yet", "table", "done"}]
  BY DEF RoomsInv, RoomsType, Workers
<1>2. at' \in [Workers -> Places]
  BY <1>1 DEF Places
<1>3. at'[g] = place /\ \A h \in Workers : h # g => at'[h] = at[h]
  BY <1>1
<1>4. ASSUME NEW s \in Sessions, Settled(s)'
      PROVE  Settled(s)
  BY <1>1, <1>3, <1>4 DEF Settled
<1> QED BY <1>1, <1>2, <1>3, <1>4, RoomsUntouched DEF Apart, Due

(* The steps about friends touch no room and no list of rooms.             *)
LEMMA FriendlySteps ==
  ASSUME RoomsInv,
         \E s \in Sessions :
           \/ OnLogin(s) \/ AskFriends(s) \/ SendFriendList(s)
           \/ GoOffline(s)
           \/ \E on \in BOOLEAN : Tell(s, on)
                                  \/ \E f \in Users : LookUp(s, on, f)
           \/ \E f \in Users : ReadFriend(s, f)
  PROVE  RoomsInv'
<1> USE PresenceAssumption
<1>0. /\ at \in [Workers -> Places] /\ Sessions \subseteq Workers
      /\ online \in [Users -> Sessions \cup {Nobody}]
      /\ closing \in [Sessions -> {"not yet", "table", "done"}]
      /\ Acct \in [Sessions -> Users] /\ Nobody \notin Sessions
  BY DEF RoomsInv, RoomsType, Workers, PresenceAssumption
<1>1. ASSUME NEW s \in Sessions, OnLogin(s)
      PROVE  RoomsInv'
  <2>1. /\ at' = [at EXCEPT ![s] = "login"] /\ at[s] = "new"
        /\ online' = [online EXCEPT ![Acct[s]] = s]
        /\ UNCHANGED closing /\ UNCHANGED roomy
    BY <1>1 DEF OnLogin, Goto
  <2>2. at' \in [Workers -> Places]
    BY <1>0, <2>1 DEF Places
  <2>3. at'[s] = "login" /\ \A h \in Workers : h # s => at'[h] = at[h]
    BY <1>0, <2>1
  <2>4. ASSUME NEW t \in Sessions, Settled(t)'
        PROVE  Settled(t)
    <3>1. t # s
      BY <2>3, <2>4 DEF Settled
    <3>2. online'[Acct[t]] = t => online[Acct[t]] = t
      BY <1>0, <2>1, <3>1
    <3> QED BY <1>0, <2>1, <2>3, <2>4, <3>1, <3>2 DEF Settled
  <2> QED BY <1>0, <2>1, <2>2, <2>3, <2>4, RoomsUntouched DEF Apart, Due
<1>2. ASSUME NEW s \in Sessions, SendFriendList(s)
      PROVE  RoomsInv'
  <2> DEFINE place == IF at[s] = "login" THEN "read own" ELSE "idle"
  <2>1. /\ at' = [at EXCEPT ![s] = place] /\ at[s] \in {"login", "ask"}
        /\ UNCHANGED <<online, closing>> /\ UNCHANGED roomy
    BY <1>2 DEF SendFriendList, Reading, Goto
  <2>2. at' \in [Workers -> Places]
    BY <1>0, <2>1 DEF Places
  <2>3. at'[s] = place /\ \A h \in Workers : h # s => at'[h] = at[h]
    BY <1>0, <2>1
  <2>4. ASSUME NEW t \in Sessions, Settled(t)'
        PROVE  Settled(t)
    BY <1>0, <2>1, <2>3, <2>4 DEF Settled
  <2> QED BY <1>0, <2>1, <2>2, <2>3, <2>4, RoomsUntouched DEF Apart, Due
<1>3. ASSUME NEW s \in Sessions, GoOffline(s)
      PROVE  RoomsInv'
  <2>1. /\ closing' = [closing EXCEPT ![s] = "done"]
        /\ closing[s] = "table"
        /\ online' = online \/ online' = [online EXCEPT ![Acct[s]] = Nobody]
        /\ UNCHANGED at /\ UNCHANGED roomy
    BY <1>3 DEF GoOffline
  <2>2. ASSUME NEW t \in Sessions, Settled(t)'
        PROVE  Settled(t)
    <3>1. closing'[t] = "not yet" => closing[t] = "not yet"
      BY <1>0, <2>1
    <3>2. online'[Acct[t]] = t => online[Acct[t]] = t
      BY <1>0, <2>1
    <3> QED BY <2>1, <2>2, <3>1, <3>2 DEF Settled
  <2> QED BY <1>0, <2>1, <2>2, RoomsUntouched
<1>4. ASSUME NEW s \in Sessions, NEW on \in BOOLEAN, NEW f \in Users,
             LookUp(s, on, f) \/ ReadFriend(s, f)
      PROVE  RoomsInv'
  <2>1. UNCHANGED <<at, online, closing>> /\ UNCHANGED roomy
    BY <1>4 DEF LookUp, ReadFriend
  <2>2. \A t \in Sessions : Settled(t)' => Settled(t)
    BY <2>1 DEF Settled
  <2> QED BY <1>0, <2>1, <2>2, RoomsUntouched
<1>5. ASSUME NEW s \in Sessions, NEW on \in BOOLEAN, Tell(s, on)
      PROVE  RoomsInv'
  <2>1. UNCHANGED <<at, online, closing>> /\ UNCHANGED roomy
    BY <1>5 DEF Tell
  <2>2. \A t \in Sessions : Settled(t)' => Settled(t)
    BY <2>1 DEF Settled
  <2> QED BY <1>0, <2>1, <2>2, RoomsUntouched
<1>6. ASSUME NEW s \in Sessions, AskFriends(s)
      PROVE  RoomsInv'
  <2>1. /\ at' = [at EXCEPT ![s] = "ask"] /\ at[s] = "idle"
        /\ UNCHANGED <<online, closing>> /\ UNCHANGED roomy
    BY <1>6 DEF AskFriends, Listening, Goto
  <2> QED BY <1>0, <2>1, MovesApart
<1> QED BY <1>1, <1>2, <1>3, <1>4, <1>5, <1>6

(* Asking for the rooms, and finding a room empty, change none.            *)
LEMMA PreparingSteps ==
  ASSUME RoomsInv,
         \/ \E s \in Sessions : AskRooms(s)
         \/ \E r \in Rooms : ReapCheck(r)
  PROVE  RoomsInv'
<1>1. PICK g \in Workers, place \in {"read own", "reap"} :
        /\ at' = [at EXCEPT ![g] = place] /\ at[g] = "idle"
        /\ UNCHANGED <<online, closing>> /\ UNCHANGED roomy
  BY DEF AskRooms, ReapCheck, Listening, Goto, Workers
<1> QED BY <1>1, MovesApart

(* Each step keeps the invariant.                                          *)
LEMMA RoomsStep ==
  ASSUME RoomsInv, [Next]_(vars)
  PROVE  RoomsInv'
<1> USE PresenceAssumption
<1>1. CASE UNCHANGED vars
  <2>1. UNCHANGED <<at, online, closing>> /\ UNCHANGED roomy
    BY <1>1 DEF vars
  <2>2. \A t \in Sessions : Settled(t)' => Settled(t)
    BY <2>1 DEF Settled
  <2> QED BY <2>1, <2>2, RoomsUntouched DEF RoomsInv, RoomsType
<1>2. CASE Next
  BY <1>2, FriendlySteps, RoomChangeSteps, PreparingSteps, DisconnectStep,
     EnterStep, JoinFailsStep, ReadStep, SendRoomListStep DEF Next
<1> QED BY <1>1, <1>2

(* Whoever is logged in, was told of every change and has no list on its   *)
(* way has the rooms as they are: no interleaving of handlers and reapers  *)
(* but those that RoomsSeen names leaves a client with an old list.        *)
THEOREM RoomListsReach == Spec => []RoomsSeen
<1> USE PresenceAssumption
<1>1. Init => RoomsInv
  <2> SUFFICES ASSUME Init PROVE RoomsInv
    OBVIOUS
  <2>1. RoomsType
    BY DEF Init, RoomsType, Places
  <2>2. \A s \in Sessions : ~Settled(s)
    BY DEF Init, Settled, Workers
  <2> QED BY <2>1, <2>2 DEF RoomsInv
<1>2. RoomsInv /\ [Next]_(vars) => RoomsInv'
  BY RoomsStep
<1>3. RoomsInv => RoomsSeen
  <2> SUFFICES ASSUME RoomsInv, NEW s \in Sessions \ outdated, Settled(s),
                      \A g \in Workers : ~OnItsWay(g) /\ ~Changing(g)
               PROVE  rooms[s] = Listing
    BY DEF RoomsSeen
  <2>1. \A g \in Workers : at[g] \notin Due
    BY DEF OnItsWay, Changing, Due
  <2>2. Carriers(s) = {}
    BY DEF Carriers, OnItsWay
  <2> QED BY <2>1, <2>2 DEF RoomsInv, Fresh
<1> QED BY <1>1, <1>2, <1>3, PTL DEF Spec

-----------------------------------------------------------------------------
(* Who is seen online.                                                     *)

LookupsType ==
  /\ at \in [Workers -> Places]
  /\ online \in [Users -> Sessions \cup {Nobody}]
  /\ closing \in [Sessions -> {"not yet", "table", "done"}]
  /\ todo \in [BOOLEAN -> [Sessions -> SUBSET Users]]
  /\ told \in [BOOLEAN -> [Sessions -> Sessions \cup {Nobody}]]
  /\ unread \in [Sessions -> SUBSET Users]
  /\ list \in [Sessions -> SUBSET Users]
  /\ sees \in [Sessions -> SUBSET Users]
  /\ mixed \subseteq Users

(* The list of friends holds only those that have been looked up.          *)
Lists ==
  \A s \in Sessions : /\ ~Reading(s) => list[s] = {}
                      /\ list[s] \cap unread[s] = {}

(* Session t has told some friends of f and not yet all.                   *)
PushOf(f, t, on) ==
  Acct[t] = f /\ (todo[on][t] # {} \/ told[on][t] # Nobody)

(* While the pushes about f do not mix, they say what the table says.      *)
PushesAgree ==
  \A f \in Users \ mixed, t \in Sessions, on \in BOOLEAN :
    PushOf(f, t, on) => (on <=> online[f] # Nobody)

(* Only friends are told.                                                  *)
Aimed ==
  \A on \in BOOLEAN, t \in Sessions : todo[on][t] \subseteq Friends[Acct[t]]

(* A push about f is on its way to s.                                      *)
Coming(s, f) ==
  \E on \in BOOLEAN, t \in Sessions :
    Acct[t] = f /\ (Acct[s] \in todo[on][t] \/ told[on][t] = s)

Tabled(s) == online[Acct[s]] = s /\ closing[s] = "not yet" /\ at[s] # "new"

(* What s has, or is about to be sent in its list, is right about f.       *)
Right(s, f) ==
  IF Reading(s)
  THEN f \in unread[s] \/ (f \in list[s] <=> online[f] # Nobody)
  ELSE f \in sees[s] <=> online[f] # Nobody

(* A session in the table is right about every friend, or will be told.    *)
Informed ==
  \A s \in Sessions : Tabled(s) =>
    \A f \in Friends[Acct[s]] \ mixed :
      <<s, f>> \in crossed \/ Coming(s, f) \/ Right(s, f)

PresenceInv == LookupsType /\ Lists /\ Aimed /\ PushesAgree /\ Informed

(* What the table holds, and what the constants are.                       *)
LEMMA PresenceTypes ==
  ASSUME LookupsType
  PROVE  /\ \A s \in Sessions :
              /\ Acct[s] \in Users /\ s \in Workers /\ s # Nobody
              /\ Friends[Acct[s]] \subseteq Users
              /\ unread[s] \subseteq Users /\ list[s] \subseteq Users
              /\ sees[s] \subseteq Users
         /\ \A u, v \in Users : v \in Friends[u] <=> u \in Friends[v]
         /\ \A on \in BOOLEAN, t \in Sessions :
              /\ todo[on][t] \subseteq Users
              /\ told[on][t] \in Sessions \cup {Nobody}
<1> USE PresenceAssumption
<1>1. \A s \in Sessions : /\ Acct[s] \in Users /\ s # Nobody
                         /\ Friends[Acct[s]] \subseteq Users
  BY DEF PresenceAssumption
<1>2. \A s \in Sessions : s \in Workers
  BY DEF Workers
<1>3. \A s \in Sessions : /\ unread[s] \subseteq Users
                         /\ list[s] \subseteq Users /\ sees[s] \subseteq Users
  BY DEF LookupsType
<1>4. \A u, v \in Users : v \in Friends[u] <=> u \in Friends[v]
  BY DEF PresenceAssumption
<1>5. ASSUME NEW on \in BOOLEAN, NEW t \in Sessions
      PROVE  /\ todo[on][t] \subseteq Users
             /\ told[on][t] \in Sessions \cup {Nobody}
  <2>1. /\ todo[on] \in [Sessions -> SUBSET Users]
        /\ told[on] \in [Sessions -> Sessions \cup {Nobody}]
    BY DEF LookupsType
  <2> QED BY <2>1
<1> QED BY <1>1, <1>2, <1>3, <1>4, <1>5

(* A step that tells nobody anything and leaves the table.                 *)
LEMMA SamePushes ==
  ASSUME PushesAgree, Aimed, UNCHANGED <<todo, told, online, mixed>>
  PROVE  PushesAgree' /\ Aimed'
<1>1. \A f \in Users, t \in Sessions, on \in BOOLEAN :
        PushOf(f, t, on)' <=> PushOf(f, t, on)
  BY DEF PushOf
<1>2. PushesAgree'
  BY <1>1, Zenon DEF PushesAgree
<1> QED BY <1>2 DEF Aimed

(* A step that changes only where handlers stand, after their login.       *)
LEMMA LookupsUntouched ==
  ASSUME PresenceInv,
         UNCHANGED friendly, UNCHANGED online,
         at' \in [Workers -> Places],
         closing' \in [Sessions -> {"not yet", "table", "done"}],
         \A s \in Sessions :
           /\ at'[s] = at[s] \/ (at[s] \notin {"new", "login", "ask"}
                                 /\ at'[s] \notin {"new", "login", "ask"})
           /\ closing'[s] = "not yet" => closing[s] = "not yet"
  PROVE  PresenceInv'
<1> USE PresenceAssumption
<1>1. /\ todo' = todo /\ told' = told /\ unread' = unread /\ list' = list
      /\ sees' = sees /\ crossed' = crossed /\ mixed' = mixed
      /\ online' = online
  BY DEF friendly
<1>2. LookupsType'
  BY <1>1 DEF PresenceInv, LookupsType
<1>3. Lists'
  BY <1>1 DEF PresenceInv, Lists, Reading
<1>4. PushesAgree' /\ Aimed'
  BY <1>1, SamePushes DEF PresenceInv
<1>5. ASSUME NEW s \in Sessions, Tabled(s)'
      PROVE  Tabled(s)
  BY <1>1, <1>5 DEF Tabled
<1>6. ASSUME NEW s \in Sessions, NEW f \in Users
      PROVE  /\ Coming(s, f)' = Coming(s, f)
             /\ Right(s, f) => Right(s, f)'
  BY <1>1 DEF Coming, Right, Reading
<1>7. Informed'
  <2> SUFFICES ASSUME NEW s \in Sessions, Tabled(s)',
                      NEW f \in Friends[Acct[s]] \ mixed
               PROVE  <<s, f>> \in crossed \/ Coming(s, f)' \/ Right(s, f)'
    BY <1>1 DEF Informed
  <2>1. f \in Users
    BY PresenceTypes DEF PresenceInv
  <2> QED BY <1>5, <1>6, <2>1 DEF PresenceInv, Informed
<1> QED BY <1>2, <1>3, <1>4, <1>7 DEF PresenceInv

(* sessionOf: what is looked up is now on its way.                         *)
LEMMA LookUpStep ==
  ASSUME PresenceInv, NEW t \in Sessions,
         NEW on \in BOOLEAN, NEW u \in Users, LookUp(t, on, u)
  PROVE  PresenceInv'
<1> USE PresenceAssumption
<1>1. /\ u \in todo[on][t] /\ told[on][t] = Nobody
      /\ todo' = [todo EXCEPT ![on][t] = @ \ {u}]
      /\ told' = [told EXCEPT ![on][t] = online[u]]
      /\ UNCHANGED <<online, at, closing, unread, list, sees, crossed, mixed>>
  BY DEF LookUp
<1>2. LookupsType'
  <2>1. [todo[on] EXCEPT ![t] = @ \ {u}] \in [Sessions -> SUBSET Users]
    <3>1. todo[on] \in [Sessions -> SUBSET Users]
      BY DEF PresenceInv, LookupsType
    <3> QED BY <3>1
  <2>2. todo' = [todo EXCEPT ![on] = [todo[on] EXCEPT ![t] = @ \ {u}]]
    BY <1>1
  <2>3. todo' \in [BOOLEAN -> [Sessions -> SUBSET Users]]
    BY <2>1, <2>2 DEF PresenceInv, LookupsType
  <2>4. [told[on] EXCEPT ![t] = online[u]]
          \in [Sessions -> Sessions \cup {Nobody}]
    BY DEF PresenceInv, LookupsType
  <2>5. told' = [told EXCEPT ![on] = [told[on] EXCEPT ![t] = online[u]]]
    BY <1>1
  <2>6. told' \in [BOOLEAN -> [Sessions -> Sessions \cup {Nobody}]]
    BY <2>4, <2>5 DEF PresenceInv, LookupsType
  <2> QED BY <1>1, <2>3, <2>6 DEF PresenceInv, LookupsType
<1>3. Lists'
  BY <1>1 DEF PresenceInv, Lists, Reading
<1>4. /\ todo'[on][t] = todo[on][t] \ {u} /\ told'[on][t] = online[u]
      /\ \A k \in BOOLEAN, r \in Sessions : k # on \/ r # t =>
           todo'[k][r] = todo[k][r] /\ told'[k][r] = told[k][r]
  BY <1>1 DEF PresenceInv, LookupsType
<1>5. ASSUME NEW f \in Users, NEW r \in Sessions, NEW k \in BOOLEAN,
             PushOf(f, r, k)'
      PROVE  PushOf(f, r, k)
  BY <1>1, <1>4, <1>5 DEF PushOf
<1>6. PushesAgree'
  BY <1>1, <1>5 DEF PresenceInv, PushesAgree
<1>7. ASSUME NEW s \in Sessions, Tabled(s), NEW f \in Users, Coming(s, f)
      PROVE  Coming(s, f)'
  <2>1. PICK k \in BOOLEAN, r \in Sessions :
          Acct[r] = f /\ (Acct[s] \in todo[k][r] \/ told[k][r] = s)
    BY <1>7 DEF Coming
  <2>2. CASE k # on \/ r # t
    BY <1>4, <2>1, <2>2 DEF Coming
  <2>3. CASE k = on /\ r = t
    <3>1. Acct[s] \in todo[on][t]
      BY <1>1, <2>1, <2>3, PresenceTypes DEF PresenceInv
    <3>2. Acct[s] \in todo'[on][t] \/ told'[on][t] = s
      BY <1>4, <1>7, <3>1 DEF Tabled
    <3> QED BY <2>1, <2>3, <3>2 DEF Coming
  <2> QED BY <2>2, <2>3
<1>8. Informed'
  <2> SUFFICES ASSUME NEW s \in Sessions, Tabled(s),
                      NEW f \in Friends[Acct[s]] \ mixed
               PROVE  <<s, f>> \in crossed \/ Coming(s, f)' \/ Right(s, f)
    BY <1>1 DEF Informed, Tabled, Right, Reading
  <2>1. f \in Users
    BY PresenceTypes DEF PresenceInv
  <2> QED BY <1>7, <2>1 DEF PresenceInv, Informed
<1>9. Aimed'
  <2>1. \A k \in BOOLEAN, r \in Sessions : todo'[k][r] \subseteq todo[k][r]
    BY <1>4
  <2> QED BY <2>1 DEF PresenceInv, Aimed
<1> QED BY <1>2, <1>3, <1>6, <1>8, <1>9 DEF PresenceInv

(* A push that arrives is right, but for a list that undoes it.            *)
LEMMA TellStep ==
  ASSUME PresenceInv, NEW t \in Sessions,
         NEW on \in BOOLEAN, Tell(t, on)
  PROVE  PresenceInv'
<1> USE PresenceAssumption
<1> DEFINE r == told[on][t]
           u == Acct[t]
<1>1. /\ r # Nobody
      /\ told' = [told EXCEPT ![on][t] = Nobody]
      /\ closing[r] # "not yet" => UNCHANGED <<sees, crossed>>
      /\ closing[r] = "not yet" =>
           /\ sees' = [sees EXCEPT ![r] = IF on THEN @ \cup {u} ELSE @ \ {u}]
           /\ crossed' = IF Reading(r) /\ u \notin unread[r]
                         THEN crossed \cup {<<r, u>>}
                         ELSE crossed \ {<<r, u>>}
      /\ UNCHANGED <<online, at, closing, todo, unread, list, mixed>>
  BY DEF Tell
<1>2. r \in Sessions /\ u \in Users /\ sees[r] \subseteq Users
  BY <1>1, PresenceTypes DEF PresenceInv
<1> HIDE DEF r, u
<1>3. closing[r] = "not yet" =>
        \E v \in SUBSET Users :
          /\ sees' = [sees EXCEPT ![r] = v]
          /\ u \in v <=> on
          /\ \A f \in Users \ {u} : f \in v <=> f \in sees[r]
  <2>1. CASE on
    <3>1. sees[r] \cup {u} \in SUBSET Users
      BY <1>2
    <3> QED BY <1>1, <2>1, <3>1
  <2>2. CASE ~on
    <3>1. sees[r] \ {u} \in SUBSET Users
      BY <1>2
    <3> QED BY <1>1, <2>2, <3>1
  <2> QED BY <2>1, <2>2
<1>4. /\ sees' \in [Sessions -> SUBSET Users]
      /\ closing[r] = "not yet" => (u \in sees'[r] <=> on)
      /\ \A s \in Sessions, f \in Users :
           ~(s = r /\ f = u) => (f \in sees'[s] <=> f \in sees[s])
  <2>1. CASE closing[r] # "not yet"
    BY <1>1, <2>1 DEF PresenceInv, LookupsType
  <2>2. CASE closing[r] = "not yet"
    <3>1. PICK v \in SUBSET Users :
            /\ sees' = [sees EXCEPT ![r] = v]
            /\ u \in v <=> on
            /\ \A f \in Users \ {u} : f \in v <=> f \in sees[r]
      BY <1>3, <2>2
    <3>2. sees' \in [Sessions -> SUBSET Users] /\ sees'[r] = v
          /\ \A s \in Sessions : s # r => sees'[s] = sees[s]
      BY <1>2, <3>1 DEF PresenceInv, LookupsType
    <3>3. ASSUME NEW s \in Sessions, NEW f \in Users, ~(s = r /\ f = u)
          PROVE  f \in sees'[s] <=> f \in sees[s]
      BY <3>1, <3>2, <3>3
    <3> QED BY <3>1, <3>2, <3>3
  <2> QED BY <2>1, <2>2
<1>5. LookupsType'
  <2>1. sees' \in [Sessions -> SUBSET Users]
    BY <1>4
  <2>2. [told[on] EXCEPT ![t] = Nobody]
          \in [Sessions -> Sessions \cup {Nobody}]
    BY DEF PresenceInv, LookupsType
  <2>3. told' = [told EXCEPT ![on] = [told[on] EXCEPT ![t] = Nobody]]
    BY <1>1
  <2>4. told' \in [BOOLEAN -> [Sessions -> Sessions \cup {Nobody}]]
    BY <2>2, <2>3 DEF PresenceInv, LookupsType
  <2> QED BY <1>1, <2>1, <2>4 DEF PresenceInv, LookupsType
<1>6. Lists'
  BY <1>1 DEF PresenceInv, Lists, Reading
<1>7. /\ told'[on][t] = Nobody
      /\ \A k \in BOOLEAN, x \in Sessions : k # on \/ x # t =>
           told'[k][x] = told[k][x]
  BY <1>1 DEF PresenceInv, LookupsType
<1>8. ASSUME NEW f \in Users, NEW x \in Sessions, NEW k \in BOOLEAN,
             PushOf(f, x, k)'
      PROVE  PushOf(f, x, k)
  BY <1>1, <1>7, <1>8 DEF PushOf
<1>9. PushesAgree'
  BY <1>1, <1>8 DEF PresenceInv, PushesAgree
<1>10. u \notin mixed => (on <=> online[u] # Nobody)
  BY <1>1, <1>2 DEF PresenceInv, PushesAgree, PushOf, r, u
<1>11. Informed'
  <2> SUFFICES ASSUME NEW s \in Sessions, Tabled(s),
                      NEW f \in Friends[Acct[s]] \ mixed
               PROVE  <<s, f>> \in crossed' \/ Coming(s, f)' \/ Right(s, f)'
    BY <1>1 DEF Informed, Tabled
  <2>1. f \in Users /\ (<<s, f>> \in crossed \/ Coming(s, f) \/ Right(s, f))
    BY PresenceTypes DEF PresenceInv, Informed
  <2>2. CASE s = r /\ f = u
    <3>1. closing[r] = "not yet"
      BY <2>2 DEF Tabled
    <3>2. CASE Reading(r)
      <4>1. CASE u \notin unread[r]
        BY <1>1, <2>2, <3>1, <3>2, <4>1
      <4>2. CASE u \in unread[r]
        BY <1>1, <2>2, <3>2, <4>2 DEF Right, Reading
      <4> QED BY <4>1, <4>2
    <3>3. CASE ~Reading(r)
      <4>1. u \in sees'[r] <=> on
        BY <1>4, <3>1
      <4>2. u \in sees'[r] <=> online[u] # Nobody
        BY <1>10, <2>2, <4>1, Zenon
      <4> QED BY <1>1, <2>2, <3>3, <4>2 DEF Right, Reading
    <3> QED BY <3>2, <3>3
  <2>3. CASE ~(s = r /\ f = u)
    <3>1. <<s, f>> \in crossed => <<s, f>> \in crossed'
      BY <1>1, <2>3
    <3>2. f \in sees'[s] <=> f \in sees[s]
      BY <1>4, <2>1, <2>3
    <3>3. Right(s, f) => Right(s, f)'
      BY <1>1, <3>2 DEF Right, Reading
    <3>4. ASSUME Coming(s, f)
          PROVE  Coming(s, f)'
      <4>1. PICK k \in BOOLEAN, x \in Sessions :
              Acct[x] = f /\ (Acct[s] \in todo[k][x] \/ told[k][x] = s)
        BY <3>4 DEF Coming
      <4>2. told[k][x] = s => k # on \/ x # t
        BY <2>3, <4>1 DEF r, u
      <4>3. todo'[k][x] = todo[k][x]
        BY <1>1
      <4>4. told[k][x] = s => told'[k][x] = s
        BY <1>7, <4>2
      <4> QED BY <4>1, <4>3, <4>4 DEF Coming
    <3> QED BY <2>1, <3>1, <3>3, <3>4
  <2> QED BY <2>2, <2>3
<1>12. Aimed'
  BY <1>1 DEF PresenceInv, Aimed
<1> QED BY <1>5, <1>6, <1>9, <1>11, <1>12 DEF PresenceInv

(* A push starts when the account comes or goes: it goes to all friends,   *)
(* and unless another one about the account is under way it says the truth.*)
LEMMA StartPushEffect ==
  ASSUME PresenceInv,
         NEW s \in Sessions, NEW on \in BOOLEAN, StartPush(s, on),
         told' = told,
         online' \in [Users -> Sessions \cup {Nobody}],
         online'[Acct[s]] # Nobody <=> on,
         \A v \in Users : v # Acct[s] => online'[v] = online[v]
  PROVE  /\ todo' \in [BOOLEAN -> [Sessions -> SUBSET Users]]
         /\ mixed' \subseteq Users /\ mixed \subseteq mixed' \cup {Acct[s]}
         /\ PushesAgree' /\ Aimed'
         /\ \A x \in Sessions, f \in Users :
              Coming(x, f) \/ (f = Acct[s] /\ f \in Friends[Acct[x]])
                => Coming(x, f)'
<1> USE PresenceAssumption
<1> DEFINE u == Acct[s]
<1>1. /\ todo' = [todo EXCEPT ![on][s] = Friends[u]]
      /\ mixed' = IF Pushing(u) THEN mixed \cup {u} ELSE mixed \ {u}
  BY DEF StartPush
<1>2. u \in Users /\ Friends[u] \in SUBSET Users /\ mixed \subseteq Users
  BY PresenceTypes DEF PresenceInv, LookupsType
<1> HIDE DEF u
<1>3. todo' \in [BOOLEAN -> [Sessions -> SUBSET Users]]
  <2>1. todo[on] \in [Sessions -> SUBSET Users]
    BY DEF PresenceInv, LookupsType
  <2>2. [todo[on] EXCEPT ![s] = Friends[u]] \in [Sessions -> SUBSET Users]
    BY <1>2, <2>1
  <2>3. todo' = [todo EXCEPT ![on] = [todo[on] EXCEPT ![s] = Friends[u]]]
    BY <1>1
  <2> QED BY <2>2, <2>3 DEF PresenceInv, LookupsType
<1>4. /\ todo'[on][s] = Friends[u]
      /\ \A k \in BOOLEAN, x \in Sessions : k # on \/ x # s =>
           todo'[k][x] = todo[k][x]
  BY <1>1 DEF PresenceInv, LookupsType
<1>5. mixed' \subseteq Users /\ mixed \subseteq mixed' \cup {u}
  BY <1>1, <1>2
<1>6. PushesAgree'
  <2> SUFFICES ASSUME NEW f \in Users, f \notin mixed', NEW t \in Sessions,
                      NEW k \in BOOLEAN, PushOf(f, t, k)'
               PROVE  k <=> online'[f] # Nobody
    BY DEF PushesAgree
  <2>1. CASE f = u
    <3>1. ~Pushing(u)
      BY <1>1, <2>1
    <3>2. ~PushOf(u, t, k)
      <4>1. Pushing(u) <=> \E j \in BOOLEAN, x \in Sessions :
                               /\ Acct[x] = u
                               /\ todo[j][x] # {} \/ told[j][x] # Nobody
        BY DEF Pushing
      <4> QED BY <3>1, <4>1 DEF PushOf
    <3>3. k = on
      BY <1>4, <2>1, <3>2 DEF PushOf
    <3> QED BY <2>1, <3>3, Zenon DEF u
  <2>2. CASE f # u
    <3>1. f \notin mixed
      BY <1>5, <2>2
    <3>2. t # s
      BY <2>2 DEF PushOf, u
    <3>3. PushOf(f, t, k)
      BY <1>4, <3>2 DEF PushOf
    <3>4. k <=> online[f] # Nobody
      <4>1. PushesAgree
        BY DEF PresenceInv
      <4> QED BY <3>1, <3>3, <4>1 DEF PushesAgree
    <3>5. online'[f] = online[f]
      BY <2>2 DEF u
    <3> QED BY <3>4, <3>5, Zenon
  <2> QED BY <2>1, <2>2
<1>7. ASSUME NEW x \in Sessions, NEW f \in Users,
             Coming(x, f) \/ (f = u /\ f \in Friends[Acct[x]])
      PROVE  Coming(x, f)'
  <2>1. CASE f = u /\ f \in Friends[Acct[x]]
    <3>1. Acct[x] \in Friends[u]
      BY <2>1, PresenceTypes DEF PresenceInv
    <3>2. Acct[x] \in todo'[on][s] /\ Acct[s] = f
      BY <1>4, <2>1, <3>1 DEF u
    <3> QED BY <3>2 DEF Coming
  <2>2. CASE Coming(x, f)
    <3>1. PICK k \in BOOLEAN, t \in Sessions :
            Acct[t] = f /\ (Acct[x] \in todo[k][t] \/ told[k][t] = x)
      BY <2>2 DEF Coming
    <3>2. CASE told[k][t] = x
      BY <3>1, <3>2 DEF Coming
    <3>3. CASE Acct[x] \in todo[k][t] /\ (k # on \/ t # s)
      <4>1. Acct[x] \in todo'[k][t]
        BY <1>4, <3>3
      <4> QED BY <3>1, <4>1 DEF Coming
    <3>4. CASE Acct[x] \in todo[k][t] /\ k = on /\ t = s
      <4>1. Acct[x] \in Friends[u]
        BY <3>1, <3>4 DEF PresenceInv, Aimed, u
      <4>2. Acct[x] \in todo'[on][s]
        BY <1>4, <4>1
      <4> QED BY <3>1, <3>4, <4>2 DEF Coming
    <3> QED BY <3>1, <3>2, <3>3, <3>4
  <2> QED BY <1>7, <2>1, <2>2
<1>8. Aimed'
  <2>1. ASSUME NEW k \in BOOLEAN, NEW t \in Sessions
        PROVE  todo'[k][t] \subseteq Friends[Acct[t]]
    BY <1>4 DEF PresenceInv, Aimed, u
  <2> QED BY <2>1 DEF Aimed
<1> QED BY <1>3, <1>5, <1>6, <1>7, <1>8 DEF u

(* Who is not concerned by a step stays informed, unless the friend comes  *)
(* or goes, and then a push is on its way.                                 *)
LEMMA StaysInformed ==
  ASSUME PresenceInv, NEW x \in Sessions, Tabled(x),
         at'[x] = at[x], unread'[x] = unread[x], list'[x] = list[x],
         sees'[x] = sees[x], NEW f \in Friends[Acct[x]],
         <<x, f>> \in crossed => <<x, f>> \in crossed',
         Coming(x, f) => Coming(x, f)',
         Coming(x, f)' \/ (f \notin mixed
                            /\ (online'[f] # Nobody <=> online[f] # Nobody))
  PROVE  <<x, f>> \in crossed' \/ Coming(x, f)' \/ Right(x, f)'
<1> USE PresenceAssumption
<1> SUFFICES ASSUME ~Coming(x, f)'
             PROVE  <<x, f>> \in crossed' \/ Right(x, f)'
  OBVIOUS
<1>1. <<x, f>> \in crossed \/ Right(x, f)
  BY DEF PresenceInv, Informed
<1>2. Right(x, f) => Right(x, f)'
  BY DEF Right, Reading
<1> QED BY <1>1, <1>2

(* The first session of an account pushes, a takeover changes nothing.     *)
LEMMA OnLoginStep ==
  ASSUME PresenceInv, NEW s \in Sessions, OnLogin(s)
  PROVE  PresenceInv'
<1> USE PresenceAssumption
<1> DEFINE u == Acct[s]
<1>1. /\ at[s] = "new"
      /\ online' = [online EXCEPT ![u] = s]
      /\ at' = [at EXCEPT ![s] = "login"]
      /\ unread' = [unread EXCEPT ![s] = Friends[u]]
      /\ IF online[u] = Nobody THEN StartPush(s, TRUE)
                              ELSE UNCHANGED <<todo, mixed>>
      /\ UNCHANGED <<closing, told, list, sees, crossed>>
  BY DEF OnLogin, Goto
<1>2. /\ u \in Users /\ s \in Workers /\ s # Nobody
      /\ Friends[u] \in SUBSET Users
  BY PresenceTypes DEF PresenceInv
<1> HIDE DEF u
<1>3. /\ online' \in [Users -> Sessions \cup {Nobody}] /\ online'[u] = s
      /\ \A v \in Users : v # u => online'[v] = online[v]
      /\ at' \in [Workers -> Places] /\ at'[s] = "login"
      /\ \A x \in Sessions : x # s => at'[x] = at[x]
      /\ unread' \in [Sessions -> SUBSET Users]
      /\ unread'[s] = Friends[u]
      /\ \A x \in Sessions : x # s => unread'[x] = unread[x]
  BY <1>1, <1>2 DEF PresenceInv, LookupsType, Places, Workers
<1>4. /\ todo' \in [BOOLEAN -> [Sessions -> SUBSET Users]]
      /\ mixed' \subseteq Users /\ PushesAgree' /\ Aimed'
      /\ \A x \in Sessions, f \in Users : Coming(x, f) => Coming(x, f)'
      /\ \A x \in Sessions : \A f \in Friends[Acct[x]] \ mixed' :
           Coming(x, f)' \/ (f \notin mixed
                              /\ (online'[f] # Nobody <=> online[f] # Nobody))
  <2>1. CASE online[u] = Nobody
    <3>1. StartPush(s, TRUE)
      BY <1>1, <2>1
    <3>2. /\ todo' \in [BOOLEAN -> [Sessions -> SUBSET Users]]
          /\ mixed' \subseteq Users /\ mixed \subseteq mixed' \cup {u}
          /\ PushesAgree' /\ Aimed'
          /\ \A x \in Sessions, f \in Users :
               Coming(x, f) \/ (f = u /\ f \in Friends[Acct[x]])
                 => Coming(x, f)'
      BY <1>1, <1>2, <1>3, <3>1, StartPushEffect DEF u
    <3>3. ASSUME NEW x \in Sessions, NEW f \in Friends[Acct[x]] \ mixed'
          PROVE  Coming(x, f)'
                 \/ (f \notin mixed
                     /\ (online'[f] # Nobody <=> online[f] # Nobody))
      <4>1. f \in Users
        BY PresenceTypes DEF PresenceInv
      <4> QED BY <1>3, <3>2, <4>1
    <3> QED BY <3>2, <3>3
  <2>2. CASE online[u] # Nobody
    <3>1. todo' = todo /\ mixed' = mixed /\ told' = told
      BY <1>1, <2>2
    <3>2. \A f \in Users : online'[f] # Nobody <=> online[f] # Nobody
      BY <1>2, <1>3, <2>2
    <3>3. PushesAgree'
      <4>1. \A f \in Users, t \in Sessions, on \in BOOLEAN :
              PushOf(f, t, on)' <=> PushOf(f, t, on)
        BY <3>1 DEF PushOf
      <4> QED BY <3>1, <3>2, <4>1, Zenon DEF PresenceInv, PushesAgree
    <3>4. \A x \in Sessions, f \in Users : Coming(x, f) => Coming(x, f)'
      BY <3>1 DEF Coming
    <3>5. \A x \in Sessions : Friends[Acct[x]] \subseteq Users
      BY PresenceTypes DEF PresenceInv
    <3> QED BY <3>1, <3>2, <3>3, <3>4, <3>5
            DEF PresenceInv, LookupsType, Aimed
  <2> QED BY <2>1, <2>2
<1>5. LookupsType'
  BY <1>1, <1>3, <1>4 DEF PresenceInv, LookupsType
<1>6. Lists'
  <2>1. list' = list /\ list[s] = {}
    BY <1>1 DEF PresenceInv, Lists, Reading
  <2>2. ASSUME NEW x \in Sessions
        PROVE  /\ ~Reading(x)' => list'[x] = {}
               /\ list'[x] \cap unread'[x] = {}
    <3>1. CASE x = s
      BY <1>3, <2>1, <3>1
    <3>2. CASE x # s
      BY <1>3, <2>1, <3>2 DEF PresenceInv, Lists, Reading
    <3> QED BY <3>1, <3>2
  <2> QED BY <2>2 DEF Lists
<1>7. Informed'
  <2> SUFFICES ASSUME NEW x \in Sessions, Tabled(x)',
                      NEW f \in Friends[Acct[x]] \ mixed'
               PROVE  <<x, f>> \in crossed' \/ Coming(x, f)' \/ Right(x, f)'
    BY DEF Informed
  <2>1. f \in Users /\ Acct[x] \in Users
    BY PresenceTypes DEF PresenceInv
  <2>2. CASE x = s
    BY <1>3, <2>2 DEF Right, Reading, u
  <2>3. CASE x # s
    <3>1. Acct[x] # u
      BY <1>3, <2>3 DEF Tabled
    <3>2. Tabled(x)
      BY <1>1, <1>3, <2>1, <2>3, <3>1 DEF Tabled
    <3>3. /\ at'[x] = at[x] /\ unread'[x] = unread[x] /\ list'[x] = list[x]
          /\ sees'[x] = sees[x] /\ crossed' = crossed
      BY <1>1, <1>3, <2>3
    <3>4. Coming(x, f) => Coming(x, f)'
      BY <1>4, <2>1
    <3>5. Coming(x, f)' \/ (f \notin mixed
                             /\ (online'[f] # Nobody <=> online[f] # Nobody))
      BY <1>4
    <3> QED BY <3>2, <3>3, <3>4, <3>5, StaysInformed
  <2> QED BY <2>2, <2>3
<1> QED BY <1>4, <1>5, <1>6, <1>7 DEF PresenceInv

(* Whoever goes out of the table tells all friends.                        *)
LEMMA GoOfflineStep ==
  ASSUME PresenceInv, NEW s \in Sessions, GoOffline(s)
  PROVE  PresenceInv'
<1> USE PresenceAssumption
<1> DEFINE u == Acct[s]
<1>1. /\ closing[s] = "table" /\ closing' = [closing EXCEPT ![s] = "done"]
      /\ \/ UNCHANGED <<online, todo, mixed>>
         \/ online' = [online EXCEPT ![u] = Nobody] /\ StartPush(s, FALSE)
      /\ UNCHANGED <<at, told, unread, list, sees, crossed>>
  BY DEF GoOffline
<1>2. /\ u \in Users /\ s # Nobody
      /\ closing' \in [Sessions -> {"not yet", "table", "done"}]
      /\ at' \in [Workers -> Places]
      /\ \A x \in Sessions : closing'[x] = "not yet" => closing[x] = "not yet"
  BY <1>1, PresenceTypes DEF PresenceInv, LookupsType
<1> HIDE DEF u
<1>3. CASE UNCHANGED <<online, todo, mixed>>
  <2>1. UNCHANGED friendly /\ UNCHANGED online
    BY <1>1, <1>3 DEF friendly
  <2>2. \A x \in Sessions : at'[x] = at[x]
    BY <1>1
  <2> QED BY <1>2, <2>1, <2>2, LookupsUntouched
<1>4. CASE online' = [online EXCEPT ![u] = Nobody] /\ StartPush(s, FALSE)
  <2>1. /\ online' \in [Users -> Sessions \cup {Nobody}] /\ online'[u] = Nobody
        /\ \A v \in Users : v # u => online'[v] = online[v]
    BY <1>1, <1>2, <1>4 DEF PresenceInv, LookupsType
  <2>2. /\ todo' \in [BOOLEAN -> [Sessions -> SUBSET Users]]
        /\ mixed' \subseteq Users /\ mixed \subseteq mixed' \cup {u}
        /\ PushesAgree' /\ Aimed'
        /\ \A x \in Sessions, f \in Users :
             Coming(x, f) \/ (f = u /\ f \in Friends[Acct[x]])
               => Coming(x, f)'
    BY <1>1, <1>4, <2>1, StartPushEffect DEF u
  <2>3. LookupsType'
    BY <1>1, <1>2, <2>1, <2>2 DEF PresenceInv, LookupsType
  <2>4. Lists'
    BY <1>1 DEF PresenceInv, Lists, Reading
  <2>5. Informed'
    <3> SUFFICES ASSUME NEW x \in Sessions, Tabled(x)',
                        NEW f \in Friends[Acct[x]] \ mixed'
                 PROVE  <<x, f>> \in crossed' \/ Coming(x, f)' \/ Right(x, f)'
      BY DEF Informed
    <3>1. f \in Users /\ Acct[x] \in Users /\ x # Nobody
      BY PresenceTypes DEF PresenceInv
    <3>2. Tabled(x)
      BY <1>1, <1>2, <2>1, <3>1 DEF Tabled
    <3>3. /\ at'[x] = at[x] /\ unread'[x] = unread[x] /\ list'[x] = list[x]
          /\ sees'[x] = sees[x] /\ crossed' = crossed
      BY <1>1
    <3>4. Coming(x, f) => Coming(x, f)'
      BY <2>2, <3>1
    <3>5. Coming(x, f)' \/ (f \notin mixed
                             /\ (online'[f] # Nobody <=> online[f] # Nobody))
      BY <2>1, <2>2, <3>1
    <3> QED BY <3>2, <3>3, <3>4, <3>5, StaysInformed
  <2> QED BY <2>2, <2>3, <2>4, <2>5 DEF PresenceInv
<1> QED BY <1>1, <1>3, <1>4

(* SendFriendList: what is looked up goes into the list.                   *)
LEMMA ReadFriendStep ==
  ASSUME PresenceInv, NEW s \in Sessions,
         NEW f \in Users, ReadFriend(s, f)
  PROVE  PresenceInv'
<1> USE PresenceAssumption
<1>1. /\ Reading(s) /\ f \in unread[s]
      /\ unread' = [unread EXCEPT ![s] = @ \ {f}]
      /\ list' = IF online[f] # Nobody THEN [list EXCEPT ![s] = @ \cup {f}]
                                      ELSE list
      /\ crossed' = crossed \ {<<s, f>>}
      /\ UNCHANGED <<online, at, closing, todo, told, sees, mixed>>
  BY DEF ReadFriend
<1>2. /\ unread' \in [Sessions -> SUBSET Users]
      /\ unread'[s] = unread[s] \ {f}
      /\ \A x \in Sessions : x # s => unread'[x] = unread[x]
  <2>1. unread[s] \ {f} \in SUBSET Users
    BY PresenceTypes DEF PresenceInv
  <2> QED BY <1>1, <2>1 DEF PresenceInv, LookupsType
<1>3. /\ list' \in [Sessions -> SUBSET Users]
      /\ list'[s] = IF online[f] # Nobody THEN list[s] \cup {f} ELSE list[s]
      /\ \A x \in Sessions : x # s => list'[x] = list[x]
  <2>1. list[s] \cup {f} \in SUBSET Users
    BY PresenceTypes DEF PresenceInv
  <2> QED BY <1>1, <2>1 DEF PresenceInv, LookupsType
<1>4. LookupsType'
  BY <1>1, <1>2, <1>3 DEF PresenceInv, LookupsType
<1>5. Lists'
  BY <1>1, <1>2, <1>3 DEF PresenceInv, Lists, Reading
<1>6. PushesAgree' /\ Aimed'
  BY <1>1, SamePushes DEF PresenceInv
<1>7. Informed'
  <2> SUFFICES ASSUME NEW x \in Sessions, Tabled(x)',
                      NEW g \in Friends[Acct[x]] \ mixed'
               PROVE  <<x, g>> \in crossed' \/ Coming(x, g)' \/ Right(x, g)'
    BY DEF Informed
  <2>1. Tabled(x) /\ g \in Friends[Acct[x]] \ mixed
    BY <1>1 DEF Tabled
  <2>2. <<x, g>> \in crossed \/ Coming(x, g) \/ Right(x, g)
    BY <2>1 DEF PresenceInv, Informed
  <2>3. Coming(x, g) => Coming(x, g)'
    BY <1>1 DEF Coming
  <2>4. CASE x = s /\ g = f
    <3>1. f \notin list[s]
      BY <1>1 DEF PresenceInv, Lists
    <3>2. f \in list'[s] <=> online'[f] # Nobody
      BY <1>1, <1>3, <3>1
    <3> QED BY <1>1, <2>4, <3>2 DEF Right, Reading
  <2>5. CASE ~(x = s /\ g = f)
    <3>1. /\ g \in unread'[x] <=> g \in unread[x]
          /\ g \in list'[x] <=> g \in list[x]
      BY <1>2, <1>3, <2>5
    <3>2. Right(x, g) => Right(x, g)'
      BY <1>1, <3>1 DEF Right, Reading
    <3>3. <<x, g>> \in crossed => <<x, g>> \in crossed'
      BY <1>1, <2>5
    <3> QED BY <2>2, <2>3, <3>2, <3>3
  <2> QED BY <2>4, <2>5
<1> QED BY <1>4, <1>5, <1>6, <1>7 DEF PresenceInv

(* The list is sent: what was right in it is right at the client.          *)
LEMMA SendFriendListStep ==
  ASSUME PresenceInv, NEW s \in Sessions,
         SendFriendList(s)
  PROVE  PresenceInv'
<1> USE PresenceAssumption
<1>1. /\ Reading(s) /\ unread[s] = {}
      /\ sees' = IF closing[s] = "not yet" THEN [sees EXCEPT ![s] = list[s]]
                                           ELSE sees
      /\ list' = [list EXCEPT ![s] = {}]
      /\ at' = [at EXCEPT ![s] = IF at[s] = "login" THEN "read own"
                                                    ELSE "idle"]
      /\ UNCHANGED <<online, closing, todo, told, unread, crossed, mixed>>
  BY DEF SendFriendList, Goto
<1>2. /\ list[s] \in SUBSET Users /\ s \in Workers
  BY PresenceTypes DEF PresenceInv
<1>3. /\ sees' \in [Sessions -> SUBSET Users]
      /\ closing[s] = "not yet" => sees'[s] = list[s]
      /\ \A x \in Sessions : x # s => sees'[x] = sees[x]
  BY <1>1, <1>2 DEF PresenceInv, LookupsType
<1>4. /\ list' \in [Sessions -> SUBSET Users] /\ list'[s] = {}
      /\ \A x \in Sessions : x # s => list'[x] = list[x]
  BY <1>1 DEF PresenceInv, LookupsType
<1>5. /\ at' \in [Workers -> Places] /\ at'[s] \in {"read own", "idle"}
      /\ \A x \in Sessions : x # s => at'[x] = at[x]
  BY <1>1, <1>2 DEF PresenceInv, LookupsType, Places, Workers
<1>6. LookupsType'
  BY <1>1, <1>3, <1>4, <1>5 DEF PresenceInv, LookupsType
<1>7. Lists'
  BY <1>1, <1>4, <1>5 DEF PresenceInv, Lists, Reading
<1>8. PushesAgree' /\ Aimed'
  BY <1>1, SamePushes DEF PresenceInv
<1>9. Informed'
  <2> SUFFICES ASSUME NEW x \in Sessions, Tabled(x)',
                      NEW g \in Friends[Acct[x]] \ mixed'
               PROVE  <<x, g>> \in crossed' \/ Coming(x, g)' \/ Right(x, g)'
    BY DEF Informed
  <2>1. Tabled(x) /\ g \in Friends[Acct[x]] \ mixed
    BY <1>1, <1>5 DEF Tabled, Reading
  <2>2. <<x, g>> \in crossed \/ Coming(x, g) \/ Right(x, g)
    BY <2>1 DEF PresenceInv, Informed
  <2>3. Coming(x, g) => Coming(x, g)'
    BY <1>1 DEF Coming
  <2>4. Right(x, g) => Right(x, g)'
    <3>1. CASE x = s
      BY <1>1, <1>3, <1>5, <2>1, <3>1 DEF Right, Tabled, Reading
    <3>2. CASE x # s
      BY <1>1, <1>3, <1>4, <1>5, <3>2 DEF Right, Reading
    <3> QED BY <3>1, <3>2
  <2> QED BY <1>1, <2>2, <2>3, <2>4
<1> QED BY <1>6, <1>7, <1>8, <1>9 DEF PresenceInv

(* Nothing has been looked up yet for a list that is asked for.            *)
LEMMA AskFriendsStep ==
  ASSUME PresenceInv, NEW s \in Sessions, AskFriends(s)
  PROVE  PresenceInv'
<1> USE PresenceAssumption
<1>1. /\ at[s] = "idle" /\ at' = [at EXCEPT ![s] = "ask"]
      /\ unread' = [unread EXCEPT ![s] = Friends[Acct[s]]]
      /\ UNCHANGED <<online, closing, todo, told, list, sees, crossed, mixed>>
  BY DEF AskFriends, Listening, Goto
<1>2. /\ at' \in [Workers -> Places] /\ at'[s] = "ask"
      /\ unread' \in [Sessions -> SUBSET Users]
      /\ unread'[s] = Friends[Acct[s]]
      /\ \A x \in Sessions : x # s => at'[x] = at[x] /\ unread'[x] = unread[x]
  BY <1>1, PresenceTypes DEF PresenceInv, LookupsType, Places, Workers
<1>3. LookupsType'
  BY <1>1, <1>2 DEF PresenceInv, LookupsType
<1>4. Lists'
  <2>1. list' = list /\ list[s] = {}
    BY <1>1 DEF PresenceInv, Lists, Reading
  <2>2. ASSUME NEW x \in Sessions
        PROVE  (~Reading(x)' => list'[x] = {}) /\ list'[x] \cap unread'[x] = {}
    <3>1. CASE x = s
      BY <2>1, <3>1
    <3>2. CASE x # s
      BY <1>2, <2>1, <3>2 DEF PresenceInv, Lists, Reading
    <3> QED BY <3>1, <3>2
  <2> QED BY <2>2 DEF Lists
<1>5. PushesAgree' /\ Aimed'
  BY <1>1, SamePushes DEF PresenceInv
<1>6. Informed'
  <2> SUFFICES ASSUME NEW x \in Sessions, Tabled(x)',
                      NEW g \in Friends[Acct[x]] \ mixed'
               PROVE  <<x, g>> \in crossed' \/ Coming(x, g)' \/ Right(x, g)'
    BY DEF Informed
  <2>1. CASE x = s
    BY <1>2, <2>1 DEF Right, Reading
  <2>2. CASE x # s
    <3>1. Tabled(x) /\ g \in Friends[Acct[x]] \ mixed
      BY <1>1, <1>2, <2>2 DEF Tabled
    <3>2. <<x, g>> \in crossed \/ Coming(x, g) \/ Right(x, g)
      BY <3>1 DEF PresenceInv, Informed
    <3>3. Coming(x, g) => Coming(x, g)'
      BY <1>1 DEF Coming
    <3>4. Right(x, g) => Right(x, g)'
      BY <1>1, <1>2, <2>2 DEF Right, Reading
    <3> QED BY <1>1, <3>2, <3>3, <3>4
  <2> QED BY <2>1, <2>2
<1> QED BY <1>3, <1>4, <1>5, <1>6 DEF PresenceInv

(* OnDisconnect: a closed session need not be told anything.               *)
LEMMA ClosedStep ==
  ASSUME PresenceInv, NEW s \in Sessions,
         Disconnect(s)
  PROVE  PresenceInv'
<1> USE PresenceAssumption
<1>1. /\ closing' = [closing EXCEPT ![s] = "table"]
      /\ sees' = [sees EXCEPT ![s] = {}]
      /\ crossed' = {x \in crossed : x[1] # s}
      /\ UNCHANGED <<online, at, todo, told, unread, list, mixed>>
  BY DEF Disconnect
<1>2. /\ closing' \in [Sessions -> {"not yet", "table", "done"}]
      /\ closing'[s] = "table"
      /\ \A x \in Sessions : x # s => closing'[x] = closing[x]
      /\ sees' \in [Sessions -> SUBSET Users]
      /\ \A x \in Sessions : x # s => sees'[x] = sees[x]
  BY <1>1 DEF PresenceInv, LookupsType
<1>3. LookupsType'
  BY <1>1, <1>2 DEF PresenceInv, LookupsType
<1>4. Lists'
  BY <1>1 DEF PresenceInv, Lists, Reading
<1>5. PushesAgree' /\ Aimed'
  BY <1>1, SamePushes DEF PresenceInv
<1>6. Informed'
  <2> SUFFICES ASSUME NEW x \in Sessions, Tabled(x)',
                      NEW g \in Friends[Acct[x]] \ mixed'
               PROVE  <<x, g>> \in crossed' \/ Coming(x, g)' \/ Right(x, g)'
    BY DEF Informed
  <2>1. x # s /\ Tabled(x)
    BY <1>1, <1>2 DEF Tabled
  <2>2. <<x, g>> \in crossed => <<x, g>> \in crossed'
    BY <1>1, <2>1
  <2>3. /\ at'[x] = at[x] /\ unread'[x] = unread[x] /\ list'[x] = list[x]
        /\ sees'[x] = sees[x]
    BY <1>1, <1>2, <2>1
  <2>4. Coming(x, g) => Coming(x, g)'
    BY <1>1 DEF Coming
  <2>5. g \notin mixed /\ (online'[g] # Nobody <=> online[g] # Nobody)
    BY <1>1
  <2> QED BY <2>1, <2>2, <2>3, <2>4, <2>5, StaysInformed
<1> QED BY <1>3, <1>4, <1>5, <1>6 DEF PresenceInv

(* Every step keeps the lists of friends right.                            *)
LEMMA PresenceStep ==
  ASSUME PresenceInv, Next
  PROVE  PresenceInv'
<1> USE PresenceAssumption
<1> USE DEF PresenceInv
<1>1. /\ at \in [Workers -> Places]
      /\ closing \in [Sessions -> {"not yet", "table", "done"}]
  BY DEF LookupsType
<1>2. ASSUME NEW s \in Sessions
      PROVE  /\ OnLogin(s) => PresenceInv'
             /\ AskFriends(s) => PresenceInv'
             /\ SendFriendList(s) => PresenceInv'
             /\ Disconnect(s) => PresenceInv'
             /\ GoOffline(s) => PresenceInv'
  BY OnLoginStep, AskFriendsStep, SendFriendListStep, ClosedStep, GoOfflineStep
<1>3. ASSUME NEW s \in Sessions, NEW on \in BOOLEAN, Tell(s, on)
      PROVE  PresenceInv'
  BY <1>3, TellStep
<1>4. ASSUME NEW s \in Sessions, NEW on \in BOOLEAN, NEW f \in Users,
             LookUp(s, on, f)
      PROVE  PresenceInv'
  BY <1>4, LookUpStep
<1>5. ASSUME NEW s \in Sessions, NEW f \in Users, ReadFriend(s, f)
      PROVE  PresenceInv'
  BY <1>5, ReadFriendStep
<1>6. ASSUME NEW g \in Workers, NEW label \in Places \ {"new", "login", "ask"},
             at[g] \notin {"new", "login", "ask"}, Goto(g, label),
             UNCHANGED friendly, UNCHANGED <<online, closing>>
      PROVE  PresenceInv'
  <2>1. at' \in [Workers -> Places]
    BY <1>1, <1>6 DEF Goto
  <2>2. \A s \in Sessions :
          /\ at'[s] = at[s] \/ (at[s] \notin {"new", "login", "ask"}
                                /\ at'[s] \notin {"new", "login", "ask"})
          /\ closing'[s] = "not yet" => closing[s] = "not yet"
    BY <1>1, <1>6 DEF Goto, Workers
  <2> QED BY <1>1, <1>6, <2>1, <2>2, LookupsUntouched
<1>7. ASSUME NEW s \in Sessions
      PROVE  /\ Join(s) => PresenceInv'
             /\ JoinFails(s) => PresenceInv'
             /\ Leave(s) => PresenceInv'
             /\ SetRoom(s) => PresenceInv'
             /\ AskRooms(s) => PresenceInv'
  <2>1. s \in Workers
    BY DEF Workers
  <2>2. CASE Join(s)
    BY <1>6, <2>1, <2>2 DEF Join, Places
  <2>3. CASE JoinFails(s)
    BY <1>6, <2>1, <2>3 DEF JoinFails, Places
  <2>4. CASE Leave(s)
    BY <1>6, <2>1, <2>4 DEF Leave, Listening, Places
  <2>5. CASE SetRoom(s)
    BY <1>6, <2>1, <2>5 DEF SetRoom, Places
  <2>6. CASE AskRooms(s)
    BY <1>6, <2>1, <2>6 DEF AskRooms, Listening, Places
  <2> QED BY <2>2, <2>3, <2>4, <2>5, <2>6
<1>8. ASSUME NEW s \in Sessions, NEW r \in Rooms, Enter(s, r)
      PROVE  PresenceInv'
  <2>1. PICK label \in {"join", "create"} : Goto(s, label)
    BY <1>8 DEF Enter
  <2>2. s \in Workers /\ label \in Places \ {"new", "login", "ask"}
    BY DEF Workers, Places
  <2> QED BY <1>6, <1>8, <2>1, <2>2 DEF Enter, Listening
<1>9. ASSUME NEW g \in Workers, Read(g)
      PROVE  PresenceInv'
  <2>1. PICK label \in {"send", "answer"} : Goto(g, label)
    BY <1>9 DEF Read
  <2>2. label \in Places \ {"new", "login", "ask"}
    BY DEF Places
  <2> QED BY <1>6, <1>9, <2>1, <2>2 DEF Read
<1>10. ASSUME NEW g \in Workers, SendRoomList(g)
       PROVE  PresenceInv'
  BY <1>6, <1>10 DEF SendRoomList, Places
<1>11. ASSUME NEW r \in Rooms
       PROVE  /\ ReapCheck(r) => PresenceInv'
              /\ Reap(r) => PresenceInv'
              /\ DestroyRoom(r) => PresenceInv'
  <2>1. r \in Workers
    BY DEF Workers
  <2>2. CASE ReapCheck(r)
    BY <1>6, <2>1, <2>2 DEF ReapCheck, Places
  <2>3. CASE Reap(r)
    BY <1>6, <2>1, <2>3 DEF Reap, Places
  <2>4. CASE DestroyRoom(r)
    BY <1>6, <2>1, <2>4 DEF DestroyRoom, Places
  <2> QED BY <2>2, <2>3, <2>4
<1> QED
  BY <1>2, <1>3, <1>4, <1>5, <1>7, <1>8, <1>9, <1>10, <1>11 DEF Next

LEMMA PresenceInit ==
  ASSUME Init
  PROVE  PresenceInv
<1> USE PresenceAssumption
<1> USE DEF Init
<1>1. /\ at \in [Workers -> Places]
      /\ \A s \in Sessions : at[s] = "new"
  BY DEF Places, Workers
<1>2. LookupsType
  BY <1>1 DEF LookupsType
<1>3. Lists /\ Aimed /\ PushesAgree
  BY DEF Lists, Aimed, PushesAgree, PushOf
<1>4. Informed
  BY <1>1 DEF Informed, Tabled
<1> QED BY <1>2, <1>3, <1>4 DEF PresenceInv

(* What a client shows of its friends: when no push about a friend is on   *)
(* its way the friend is shown as the table has it, but for pushes that    *)
(* mixed and for lists that undid a push (Hub.OnLogin, OnDisconnect,       *)
(* broadcastOnline, SendFriendList).                                       *)
THEOREM FriendsShown == Spec => []FriendsSeen
<1> USE PresenceAssumption
<1>1. Init => PresenceInv
  BY PresenceInit
<1>2. PresenceInv /\ [Next]_(vars) => PresenceInv'
  <2>1. CASE Next
    BY <2>1, PresenceStep
  <2>2. CASE UNCHANGED vars
    BY <2>2, LookupsUntouched
       DEF vars, PresenceInv, LookupsType
  <2> QED BY <2>1, <2>2
<1>3. PresenceInv => FriendsSeen
  <2> SUFFICES ASSUME PresenceInv, NEW s \in Sessions, Settled(s), ~Reading(s),
                      NEW f \in Friends[Acct[s]],
                      ~Pushing(f), f \notin mixed, <<s, f>> \notin crossed
               PROVE  f \in sees[s] <=> online[f] # Nobody
    BY DEF FriendsSeen
  <2>1. Tabled(s)
    BY DEF Settled, Tabled
  <2>2. ~Coming(s, f)
    <3>1. s # Nobody
      BY PresenceTypes DEF PresenceInv
    <3> QED BY <3>1 DEF Pushing, Coming
  <2>3. Right(s, f)
    BY <2>1, <2>2 DEF PresenceInv, Informed
  <2> QED BY <2>1, <2>3 DEF Right
<1> QED BY <1>1, <1>2, <1>3, PTL DEF Spec
=============================================================================
