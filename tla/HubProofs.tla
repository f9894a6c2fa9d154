------------------------------ MODULE HubProofs ------------------------------
(***************************************************************************)
(* Proofs about Hub.tla, for every set of accounts, sessions and names and *)
(* every bound.                                                            *)
(*                                                                         *)
(* First the directory: the manager's table and the running rooms agree.   *)
(* Creators go through the table and reapers go through it by name, each   *)
(* in one step under the manager's lock; so nothing needs to be known      *)
(* about where the others stand, but that a handler which is about to      *)
(* create has a name, and a reaper a room with a name.                     *)
(*                                                                         *)
(* Then accounts: who may be at work on an account when another session    *)
(* of it is (Apart), what the online table shows (Shown) and which offline *)
(* messages can be pending (NoLapse).  Then places: which rooms a reaper   *)
(* has given up (Vacant), what a session that is not closing has in its    *)
(* room (Quiet), and how Leave and Close hand the room on from the session *)
(* to the loop (Leaving, Routed, Accounted).  The invariants that the runs *)
(* check follow from these, and last the step that each room's seats take  *)
(* is one of Seats.tla.                                                    *)
(***************************************************************************)
EXTENDS Hub, FiniteSetTheorems, SequenceTheorems, TLAPS

(* What the manager's lock protects, and the bookkeeping of rooms.         *)
directory == <<created, nameOf, destroyed, manager>>

DirectoryType ==
  /\ created \in 0..MaxRooms
  /\ nameOf \in [Rooms -> Names \cup {"none"}]
  /\ destroyed \subseteq 1..created
  /\ manager \in [Names -> 0..created]

(* Every room that was created has a name, and the table leads from a name *)
(* to a room that bears it.                                                *)
Named ==
  /\ \A r \in 1..created : nameOf[r] \in Names
  /\ \A n \in Names : manager[n] # 0 => nameOf[manager[n]] = n

Labels == {"idle", "present", "create", "add", "delist", "register", "enter",
           "confirm", "input", "panic", "leave", "remove", "unroute"}

Job == [creating : BOOLEAN, name : Names \cup {"none"}, room : Nat]

HandlerType ==
  /\ pc \in [Sessions -> Labels]
  /\ job \in [Sessions -> Job]
  /\ sRoom \in [Sessions -> Nat]
  /\ \A s \in Sessions : pc[s] = "create" => job[s].name \in Names

Reapers ==
  [room : Nat, pc : {"check", "unroute", "unlist", "destroy", "over"}]

ReaperType ==
  /\ reapers \in Seq(Reapers)
  /\ \A i \in 1..Len(reapers) : reapers[i].room \in 1..created

DirectoryInv == /\ DirectoryType
                /\ Named
                /\ OneRoomPerName
                /\ HandlerType
                /\ ReaperType

(* It holds before anything is created.                                    *)
LEMMA DirectoryInit == Init => DirectoryInv
<1> SUFFICES ASSUME Init PROVE DirectoryInv
  OBVIOUS
<1>1. DirectoryType /\ Named /\ OneRoomPerName
  BY HubAssumption DEF HubAssumption, Init, DirectoryType, Named,
                       OneRoomPerName, Rooms
<1>2. HandlerType
  <2>1. pc \in [Sessions -> Labels] /\ job \in [Sessions -> Job]
    BY DEF Init, Labels, Job, NoJob
  <2>2. sRoom \in [Sessions -> Nat]
    BY DEF Init
  <2>3. \A s \in Sessions : pc[s] # "create"
    BY DEF Init
  <2>4. QED
    BY <2>1, <2>2, <2>3 DEF HandlerType
<1>3. ReaperType
  BY DEF Init, ReaperType
<1>4. QED
  BY <1>1, <1>2, <1>3 DEF DirectoryInv

-----------------------------------------------------------------------------
(* Only two calls touch the directory.                                     *)
LEMMA DirectoryFrame ==
  ASSUME Next
  PROVE  \/ \E s \in Sessions : CreateRoom(s)
         \/ \E i \in 1..Len(reapers) : ReapDestroy(i)
         \/ UNCHANGED directory
<1> USE DEF directory, roomVars, hubVars
<1>1. ASSUME NEW s \in Sessions, Handler(s)
      PROVE  CreateRoom(s) \/ UNCHANGED directory
  <2>1. CASE Login(s) \/ OnLogin(s)
    BY <2>1 DEF Login, OnLogin
  <2>2. ASSUME NEW n \in Names,
               RoomCreate(s, n) \/ RoomJoin(s, n) \/ BattleJoin(s, n)
        PROVE  UNCHANGED directory
    BY <2>2 DEF RoomCreate, RoomJoin, BattleJoin, Begin
  <2>3. CASE AddPlayer(s) \/ Delist(s) \/ Register(s)
    BY <2>3 DEF AddPlayer, Delist, Register
  <2>4. CASE SetRoom(s) \/ Confirm(s) \/ BattleInput(s) \/ HandleInput(s)
    BY <2>4 DEF SetRoom, Confirm, BattleInput, HandleInput
  <2>5. CASE Leave(s) \/ LeaveClearRoom(s) \/ RemovePlayer(s) \/ Unroute(s)
    BY <2>5 DEF Leave, LeaveClearRoom, RemovePlayer, Unroute
  <2>6. QED
    BY <1>1, <2>1, <2>2, <2>3, <2>4, <2>5 DEF Handler
<1>2. ASSUME NEW s \in Sessions, Closer(s)
      PROVE  UNCHANGED directory
  BY <1>2 DEF Closer, Close, CloseClearRoom, SetOffline, CloseUnroute,
              Logout, HangUp
<1>3. ASSUME NEW r \in Rooms, Loop(r)
      PROVE  UNCHANGED <<created, nameOf, destroyed, manager>>
  BY <1>3 DEF Loop, Lapse, LoopReturns, RegisterOnEmpty, Sweep
<1>4. ASSUME NEW i \in 1..Len(reapers), Reaper(i)
      PROVE  ReapDestroy(i) \/ UNCHANGED directory
  BY <1>4 DEF Reaper, ReapCheck, ReapUnroute, ReapUnlist
<1>5. QED
  BY <1>1, <1>2, <1>3, <1>4 DEF Next

(* CreateRoom gives the name it misses a room of its own, and DestroyRoom  *)
(* takes a room out of the table when it stops it.                         *)
LEMMA DirectoryStep ==
  ASSUME DirectoryInv, [Next]_vars
  PROVE  DirectoryType' /\ Named' /\ OneRoomPerName'
<1> USE HubAssumption DEF HubAssumption, DirectoryInv, Rooms
<1>1. ASSUME NEW s \in Sessions, CreateRoom(s)
      PROVE  DirectoryType' /\ Named' /\ OneRoomPerName'
  <2> DEFINE n == job[s].name
  <2>1. n \in Names
    BY <1>1 DEF CreateRoom, HandlerType
  <2>2. CASE manager[n] # 0
    BY <1>1, <2>2 DEF CreateRoom, DirectoryType, Named, OneRoomPerName
  <2>3. CASE manager[n] = 0
    <3> HIDE DEF n
    <3>1. /\ created < MaxRooms
          /\ created' = created + 1
          /\ nameOf' = [nameOf EXCEPT ![created + 1] = n]
          /\ manager' = [manager EXCEPT ![n] = created + 1]
          /\ destroyed' = destroyed
      BY <1>1, <2>3 DEF CreateRoom, n
    <3>2. DirectoryType'
      BY <2>1, <3>1 DEF DirectoryType
    <3>3. /\ nameOf'[created'] = n
          /\ manager'[n] = created'
          /\ \A r \in 1..created : nameOf'[r] = nameOf[r]
          /\ \A m \in Names \ {n} : manager'[m] = manager[m]
          /\ 1..created' = (1..created) \cup {created'}
      BY <2>1, <3>1 DEF DirectoryType
    <3>4. Named'
      BY <2>1, <3>1, <3>3 DEF DirectoryType, Named
    <3>5. OneRoomPerName'
      BY <2>1, <2>3, <3>1, <3>3 DEF DirectoryType, Named, OneRoomPerName
    <3>6. QED
      BY <3>2, <3>4, <3>5
  <2>4. QED
    BY <2>2, <2>3
<1>2. ASSUME NEW i \in 1..Len(reapers), ReapDestroy(i)
      PROVE  DirectoryType' /\ Named' /\ OneRoomPerName'
  <2>1. PICK n \in Names : n = nameOf[reapers[i].room]
    BY DEF ReaperType, Named
  <2>2. /\ destroyed' = destroyed \cup ({manager[n]} \ {0})
        /\ manager' = [manager EXCEPT ![n] = 0]
        /\ UNCHANGED <<created, nameOf>>
    BY <1>2, <2>1 DEF ReapDestroy
  <2>3. manager[n] \in 0..created /\ created \in 0..MaxRooms
    BY DEF DirectoryType
  <2>4. DirectoryType'
    <3>1. destroyed' \subseteq 1..created'
      <4>1. {manager[n]} \ {0} \subseteq 1..created
        BY <2>3
      <4>2. destroyed \subseteq 1..created
        BY DEF DirectoryType
      <4>3. QED
        BY <2>2, <4>1, <4>2
    <3>2. manager' \in [Names -> 0..created']
      BY <2>2, <2>3 DEF DirectoryType
    <3>3. QED
      BY <2>2, <3>1, <3>2 DEF DirectoryType
  <2>5. Named'
    BY <2>2, <2>3 DEF DirectoryType, Named
  <2>6. OneRoomPerName'
    BY <2>2, <2>3 DEF DirectoryType, Named, OneRoomPerName
  <2>7. QED
    BY <2>4, <2>5, <2>6
<1>3. CASE UNCHANGED directory
  BY <1>3 DEF directory, DirectoryType, Named, OneRoomPerName
<1>4. CASE UNCHANGED vars
  BY <1>4, <1>3 DEF vars, roomVars, hubVars, directory
<1>5. QED
  BY <1>1, <1>2, <1>3, <1>4, DirectoryFrame

-----------------------------------------------------------------------------
(* What a handler's step does to what the invariant says of handlers, when *)
(* it is not the beginning of a visit.                                     *)
Moves(s) ==
  /\ \E l \in Labels \ {"create"} : Goto(s, l)
  /\ \/ job' = job
     \/ job' = [job EXCEPT ![s] = NoJob]
     \/ job' = [job EXCEPT ![s].creating = FALSE]
     \/ \E r \in Nat : job' = [job EXCEPT ![s].room = r]
  /\ \/ sRoom' = sRoom
     \/ \E r \in Nat : sRoom' = [sRoom EXCEPT ![s] = r]

(* Such a step leaves every handler with a label and a job.                *)
LEMMA MovesKeepType ==
  ASSUME NEW s \in Sessions, HandlerType, Moves(s)
  PROVE  HandlerType'
<1> USE DEF HandlerType
<1>1. PICK l \in Labels \ {"create"} : Goto(s, l)
  BY DEF Moves
<1>2. /\ pc' \in [Sessions -> Labels]
      /\ pc'[s] # "create"
      /\ \A t \in Sessions \ {s} : pc'[t] = pc[t]
  BY <1>1 DEF Goto
<1>3. /\ job' \in [Sessions -> Job]
      /\ \A t \in Sessions \ {s} : job'[t] = job[t]
  <2>1. CASE job' = job
    BY <2>1
  <2>2. CASE job' = [job EXCEPT ![s] = NoJob]
    BY <2>2 DEF Job, NoJob
  <2>3. CASE job' = [job EXCEPT ![s].creating = FALSE]
    BY <2>3 DEF Job
  <2>4. CASE \E r \in Nat : job' = [job EXCEPT ![s].room = r]
    BY <2>4 DEF Job
  <2>5. QED
    BY <2>1, <2>2, <2>3, <2>4 DEF Moves
<1>4. sRoom' \in [Sessions -> Nat]
  BY DEF Moves
<1>5. QED
  BY <1>2, <1>3, <1>4

(* A handler's job is made by Begin, which names a room of the table; no   *)
(* other step leads to CreateRoom.                                         *)
LEMMA BeginKeepsType ==
  ASSUME NEW s \in Sessions, NEW c \in BOOLEAN, NEW n \in Names,
         HandlerType, Begin(s, c, n)
  PROVE  HandlerType'
<1> USE DEF HandlerType, Begin
<1>1. /\ pc' \in [Sessions -> Labels]
      /\ \A t \in Sessions \ {s} : pc'[t] = pc[t]
  BY DEF Goto, Labels
<1>2. /\ job' \in [Sessions -> Job]
      /\ job'[s].name = n
      /\ \A t \in Sessions \ {s} : job'[t] = job[t]
  BY DEF Job
<1>3. QED
  BY <1>1, <1>2

(* Every handler's step is of one of the two kinds; closers only clear     *)
(* rooms.                                                                  *)
LEMMA HandlerStep ==
  ASSUME DirectoryInv, [Next]_vars
  PROVE  HandlerType'
<1>0. HandlerType
  BY DEF DirectoryInv
<1>1. ASSUME NEW s \in Sessions, Handler(s) PROVE HandlerType'
  <2> USE DEF Moves, Labels, Finish
  <2>1. CASE Login(s) \/ OnLogin(s)
    BY <1>0, <2>1, MovesKeepType DEF Login, OnLogin
  <2>2. ASSUME NEW n \in Names,
               RoomCreate(s, n) \/ RoomJoin(s, n) \/ BattleJoin(s, n)
        PROVE  HandlerType'
    BY <1>0, <2>2, BeginKeepsType DEF RoomCreate, RoomJoin, BattleJoin
  <2>3. CASE CreateRoom(s)
    <3>1. \E r \in Nat : job' = [job EXCEPT ![s].room = r]
      <4>1. job[s].name \in Names /\ created + 1 \in Nat
        BY <1>0, <2>3, HubAssumption
        DEF CreateRoom, HandlerType, DirectoryInv, DirectoryType, HubAssumption
      <4>2. manager[job[s].name] \in Nat
        BY <4>1 DEF DirectoryInv, DirectoryType
      <4>3. QED
        BY <2>3, <4>1, <4>2 DEF CreateRoom
    <3>2. QED
      BY <1>0, <2>3, <3>1, MovesKeepType DEF CreateRoom
  <2>4. CASE AddPlayer(s)
    BY <1>0, <2>4, MovesKeepType DEF AddPlayer
  <2>5. CASE Delist(s) \/ Register(s) \/ Confirm(s)
    BY <1>0, <2>5, MovesKeepType DEF Delist, Register, Confirm
  <2>6. CASE SetRoom(s)
    <3>1. job[s].room \in Nat
      BY <1>0 DEF HandlerType, Job
    <3>2. QED
      BY <1>0, <2>6, <3>1, MovesKeepType DEF SetRoom
  <2>7. CASE BattleInput(s) \/ HandleInput(s)
    BY <1>0, <2>7, MovesKeepType DEF BattleInput, HandleInput
  <2>8. CASE Leave(s)
    <3>1. sRoom[s] \in Nat
      BY <1>0 DEF HandlerType
    <3>2. QED
      BY <1>0, <2>8, <3>1, MovesKeepType DEF Leave
  <2>9. CASE LeaveClearRoom(s) \/ RemovePlayer(s) \/ Unroute(s)
    BY <1>0, <2>9, MovesKeepType DEF LeaveClearRoom, RemovePlayer, Unroute
  <2>10. QED
    BY <1>1, <2>1, <2>2, <2>3, <2>4, <2>5, <2>6, <2>7, <2>8, <2>9 DEF Handler
<1>2. CASE UNCHANGED <<pc, job>> /\ sRoom' \in [Sessions -> Nat]
  BY <1>0, <1>2 DEF HandlerType
<1>3. ASSUME NEW s \in Sessions, Closer(s) PROVE HandlerType'
  <2>1. sRoom' = sRoom \/ sRoom' = [sRoom EXCEPT ![s] = 0]
    BY <1>3 DEF Closer, Close, CloseClearRoom, SetOffline, CloseUnroute,
                Logout, HangUp, sessionVars
  <2>2. UNCHANGED <<pc, job>>
    BY <1>3 DEF Closer, Close, CloseClearRoom, SetOffline, CloseUnroute,
                Logout, HangUp, sessionVars
  <2>3. QED
    BY <1>0, <1>2, <2>1, <2>2 DEF HandlerType
<1>4. CASE UNCHANGED sessionVars
  BY <1>0, <1>2, <1>4 DEF sessionVars, HandlerType
<1>5. ASSUME NEW r \in Rooms, Loop(r) PROVE UNCHANGED sessionVars
  BY <1>5 DEF Loop, Lapse, LoopReturns, RegisterOnEmpty, Sweep
<1>6. ASSUME NEW i \in 1..Len(reapers), Reaper(i) PROVE UNCHANGED sessionVars
  BY <1>6 DEF Reaper, ReapCheck, ReapUnroute, ReapUnlist, ReapDestroy
<1>7. CASE UNCHANGED vars
  BY <1>4, <1>7 DEF vars
<1>8. QED
  BY <1>1, <1>3, <1>4, <1>5, <1>6, <1>7 DEF Next

(* Reapers are started for rooms that exist, and stay with their room.     *)
LEMMA ReaperStep ==
  ASSUME DirectoryInv, [Next]_vars
  PROVE  ReaperType'
<1> USE DEF ReaperType
<1>0. ReaperType /\ created \in Nat
  BY HubAssumption DEF DirectoryInv, DirectoryType, HubAssumption
<1>1. CASE reapers' = reapers /\ created' \in {created, created + 1}
  BY <1>0, <1>1
<1>2. ASSUME NEW s \in Sessions, Handler(s)
      PROVE  reapers' = reapers /\ created' \in {created, created + 1}
  <2> USE DEF hubVars, roomVars
  <2>1. CASE Login(s) \/ OnLogin(s)
    BY <2>1 DEF Login, OnLogin
  <2>2. ASSUME NEW n \in Names,
               RoomCreate(s, n) \/ RoomJoin(s, n) \/ BattleJoin(s, n)
        PROVE  UNCHANGED <<reapers, created>>
    BY <2>2 DEF RoomCreate, RoomJoin, BattleJoin, Begin
  <2>3. CASE CreateRoom(s)
    BY <2>3 DEF CreateRoom
  <2>4. CASE AddPlayer(s) \/ Delist(s) \/ Register(s)
    BY <2>4 DEF AddPlayer, Delist, Register
  <2>5. CASE SetRoom(s) \/ Confirm(s) \/ BattleInput(s) \/ HandleInput(s)
    BY <2>5 DEF SetRoom, Confirm, BattleInput, HandleInput
  <2>6. CASE Leave(s) \/ LeaveClearRoom(s) \/ RemovePlayer(s) \/ Unroute(s)
    BY <2>6 DEF Leave, LeaveClearRoom, RemovePlayer, Unroute
  <2>7. QED
    BY <1>2, <2>1, <2>2, <2>3, <2>4, <2>5, <2>6 DEF Handler
<1>3. ASSUME NEW s \in Sessions, Closer(s)
      PROVE  reapers' = reapers /\ created' \in {created, created + 1}
  BY <1>3 DEF Closer, Close, CloseClearRoom, SetOffline, CloseUnroute,
              Logout, HangUp,
              hubVars, roomVars
<1>4. ASSUME NEW r \in Rooms, Loop(r) PROVE ReaperType'
  <2>1. CASE Sweep(r)
    <3>1. created' = created /\ r \in 1..created
      BY <1>0, <2>1 DEF Sweep, Alive, Rooms
    <3>2. reapers' \in {reapers, Append(reapers, [room |-> r, pc |-> "check"])}
      BY <2>1 DEF Sweep
    <3>3. PICK q \in Reapers : q = [room |-> r, pc |-> "check"]
      <4>1. [room |-> r, pc |-> "check"] \in Reapers
        BY DEF Reapers, Rooms
      <4>2. QED
        BY <4>1
    <3>4. CASE reapers' = Append(reapers, q)
      <4>0. reapers \in Seq(Reapers)
        BY <1>0
      <4>1. /\ reapers' \in Seq(Reapers) /\ Len(reapers') = Len(reapers) + 1
            /\ \A i \in 1..Len(reapers) : reapers'[i] = reapers[i]
            /\ reapers'[Len(reapers) + 1] = q
        BY <3>4, <4>0, AppendProperties
      <4>2. q.room \in 1..created
        BY <3>1, <3>3
      <4>3. QED
        BY <1>0, <3>1, <4>1, <4>2
    <3>5. QED
      BY <1>0, <3>1, <3>2, <3>3, <3>4
  <2>2. CASE ~Sweep(r)
    BY <1>0, <1>1, <1>4, <2>2 DEF Loop, Lapse, LoopReturns, RegisterOnEmpty,
                                  hubVars
  <2>3. QED
    BY <2>1, <2>2
<1>5. ASSUME NEW i \in 1..Len(reapers), Reaper(i) PROVE ReaperType'
  <2>1. PICK label \in {"unroute", "unlist", "destroy", "over"} :
                                                       Advance(i, label)
    BY <1>5 DEF Reaper, ReapCheck, ReapUnroute, ReapUnlist, ReapDestroy
  <2>2. created' = created
    BY <1>5 DEF Reaper, ReapCheck, ReapUnroute, ReapUnlist, ReapDestroy,
                roomVars
  <2>3. /\ reapers' \in Seq(Reapers)
        /\ Len(reapers') = Len(reapers)
        /\ \A j \in 1..Len(reapers) : reapers'[j].room = reapers[j].room
    <3>1. PICK q \in Reapers : q = [reapers[i] EXCEPT !.pc = label]
      <4>1. reapers[i] \in Reapers
        BY <1>0
      <4>2. [reapers[i] EXCEPT !.pc = label] \in Reapers
        BY <4>1 DEF Reapers
      <4>3. QED
        BY <4>2
    <3>2. q.room = reapers[i].room
      BY <1>0, <3>1 DEF Reapers
    <3>3. reapers' = [reapers EXCEPT ![i] = q]
      BY <2>1, <3>1 DEF Advance
    <3>4. QED
      BY <1>0, <3>2, <3>3
  <2>4. QED
    BY <1>0, <2>2, <2>3
<1>6. CASE UNCHANGED vars
  BY <1>1, <1>6 DEF vars, hubVars, roomVars
<1>7. QED
  BY <1>1, <1>2, <1>3, <1>4, <1>5, <1>6 DEF Next

-----------------------------------------------------------------------------
(* The directory's invariant is inductive.                                 *)
THEOREM DirectoryInvariant == Spec => []DirectoryInv
<1>1. DirectoryInv /\ [Next]_vars => DirectoryInv'
  BY DirectoryStep, HandlerStep, ReaperStep DEF DirectoryInv
<1>2. QED
  BY DirectoryInit, <1>1, PTL DEF Spec

(* A name never has two rooms that were not told to stop, and no room runs *)
(* that the manager's table has lost: for any number of sessions, names    *)
(* and reapers, and although DestroyRoom goes by name.                     *)
THEOREM NameHasOneRoom == Spec => []OneRoomPerName
<1>1. DirectoryInv => OneRoomPerName
  BY DEF DirectoryInv
<1>2. QED
  BY DirectoryInvariant, <1>1, PTL

-----------------------------------------------------------------------------
(* The rest of the state.  Of a job, what matters is that its room exists. *)
Closers ==
  {"none", "clear", "offline", "unroute", "logout", "hangup", "done"}

Placed == {"add", "register", "enter", "confirm", "leave", "remove",
           "unroute"}

RoomsType ==
  /\ stopped \subseteq destroyed
  /\ held \in [Rooms -> SUBSET Users] /\ grace \in [Rooms -> SUBSET Users]
  /\ owed \in [Rooms -> BOOLEAN]
  /\ lapses \in [Rooms -> [Users -> Nat]]
  /\ onEmpty \in [Rooms -> {"nil", "queued", "set"}]

TablesType ==
  /\ registry \subseteq Names
  /\ routed \subseteq 1..created /\ routes \in [Rooms -> SUBSET Sessions]
  /\ Len(reapers) <= MaxReapers
  /\ online \in [Users -> Sessions \cup {Nobody}]
  /\ loggedIn \subseteq Sessions
  /\ visits \in 0..MaxVisits

SessionsType ==
  /\ sRoom \in [Sessions -> 0..created]
  /\ closer \in [Sessions -> Closers]
  /\ closing \in [Sessions -> 0..created]
  /\ \A s \in Sessions :
       /\ job[s].room \in 0..created
       /\ pc[s] \in Placed => job[s].room # 0
       /\ closer[s] \in {"clear", "offline", "unroute"} => closing[s] # 0

HubType == DirectoryInv /\ RoomsType /\ TablesType /\ SessionsType

(* A seat is taken by an account, and only a closer that is in a room adds *)
(* an offline message.                                                     *)
LEMMA RoomsStep ==
  ASSUME HubType, [Next]_vars
  PROVE  RoomsType'
<1> USE DEF HubType, RoomsType, roomVars, hubVars, sessionVars
<1>1. ASSUME NEW s \in Sessions, Handler(s) PROVE RoomsType'
  <2>1. CASE Login(s) \/ OnLogin(s)
    BY <2>1 DEF Login, OnLogin
  <2>2. ASSUME NEW n \in Names,
               RoomCreate(s, n) \/ RoomJoin(s, n) \/ BattleJoin(s, n)
        PROVE  RoomsType'
    BY <2>2 DEF RoomCreate, RoomJoin, BattleJoin, Begin
  <2>3. CASE CreateRoom(s)
    BY <2>3 DEF CreateRoom
  <2>4. CASE AddPlayer(s)
    <3>1. UNCHANGED <<stopped, destroyed, lapses, onEmpty>>
      BY <2>4 DEF AddPlayer
    <3>2. CASE UNCHANGED <<held, grace, owed>>
      BY <3>1, <3>2
    <3>3. ASSUME NEW r, NEW u \in Users,
                 held' = [held EXCEPT ![r] = @ \cup {u}],
                 grace' = [grace EXCEPT ![r] = @ \ {u}],
                 owed' = [owed EXCEPT ![r] = @ \/ u \notin Seated(r)]
          PROVE  RoomsType'
      <4>1. held' \in [Rooms -> SUBSET Users]
        BY <3>3
      <4>2. grace' \in [Rooms -> SUBSET Users]
        BY <3>3
      <4>3. owed' \in [Rooms -> BOOLEAN]
        BY <3>3
      <4>4. QED
        BY <3>1, <4>1, <4>2, <4>3
    <3>4. Acct[s] \in Users
      BY HubAssumption DEF HubAssumption
    <3>5. QED
      BY <2>4, <3>2, <3>3, <3>4 DEF AddPlayer
  <2>5. CASE Delist(s) \/ SetRoom(s) \/ Confirm(s) \/ BattleInput(s)
             \/ HandleInput(s)
    BY <2>5 DEF Delist, SetRoom, Confirm, BattleInput, HandleInput
  <2>6. CASE Register(s)
    BY <2>6 DEF Register
  <2>7. CASE Leave(s) \/ LeaveClearRoom(s) \/ Unroute(s)
    BY <2>7 DEF Leave, LeaveClearRoom, Unroute
  <2>8. CASE RemovePlayer(s)
    BY <2>8 DEF RemovePlayer
  <2>9. QED
    BY <1>1, <2>1, <2>2, <2>3, <2>4, <2>5, <2>6, <2>7, <2>8 DEF Handler
<1>2. ASSUME NEW s \in Sessions, Closer(s) PROVE RoomsType'
  <2>1. CASE SetOffline(s)
    <3>1. Acct[s] \in Users
      BY HubAssumption DEF HubAssumption
    <3>2. CASE UNCHANGED lapses
      BY <2>1, <3>2 DEF SetOffline
    <3>3. CASE lapses' = [lapses EXCEPT ![closing[s]][Acct[s]] = @ + 1]
      <4>1. closing[s] \in Rooms
        BY <2>1, HubAssumption
        DEF SetOffline, SessionsType, DirectoryInv, DirectoryType, Rooms,
            HubAssumption
      <4>2. lapses' \in [Rooms -> [Users -> Nat]]
        BY <3>1, <3>3, <4>1
      <4>3. UNCHANGED <<stopped, destroyed, held, grace, owed, onEmpty>>
        BY <2>1 DEF SetOffline
      <4>4. QED
        BY <4>2, <4>3
    <3>4. QED
      BY <2>1, <3>2, <3>3 DEF SetOffline
  <2>2. CASE ~SetOffline(s)
    BY <1>2, <2>2 DEF Closer, Close, CloseClearRoom, CloseUnroute,
                      Logout, HangUp
  <2>3. QED
    BY <2>1, <2>2
<1>3. ASSUME NEW r \in Rooms, Loop(r) PROVE RoomsType'
  <2>1. ASSUME NEW u \in Users, Lapse(r, u) PROVE RoomsType'
    <3>1. lapses' \in [Rooms -> [Users -> Nat]]
      BY <2>1 DEF Lapse
    <3>2. /\ held' \in [Rooms -> SUBSET Users]
          /\ grace' \in [Rooms -> SUBSET Users]
      <4>1. CASE u \in Seated(r)
        <5>1. /\ held' = [held EXCEPT ![r] = held[r] \ {u}]
              /\ grace' = [grace EXCEPT ![r] = grace[r] \cup {u}]
          BY <2>1, <4>1 DEF Lapse
        <5>2. QED
          BY <5>1
      <4>2. CASE u \notin Seated(r)
        BY <2>1, <4>2 DEF Lapse
      <4>3. QED
        BY <4>1, <4>2
    <3>3. UNCHANGED <<stopped, destroyed, owed, onEmpty>>
      BY <2>1 DEF Lapse
    <3>4. QED
      BY <3>1, <3>2, <3>3
  <2>2. CASE LoopReturns(r)
    BY <2>2 DEF LoopReturns
  <2>3. CASE RegisterOnEmpty(r)
    BY <2>3 DEF RegisterOnEmpty
  <2>4. CASE Sweep(r)
    BY <2>4 DEF Sweep
  <2>5. QED
    BY <1>3, <2>1, <2>2, <2>3, <2>4 DEF Loop
<1>4. ASSUME NEW i \in 1..Len(reapers), Reaper(i) PROVE RoomsType'
  BY <1>4 DEF Reaper, ReapCheck, ReapUnroute, ReapUnlist, ReapDestroy
<1>5. CASE UNCHANGED vars
  BY <1>5 DEF vars
<1>6. QED
  BY <1>1, <1>2, <1>3, <1>4, <1>5 DEF Next

(* A route leads to a session, and Sweep starts no more reapers than the   *)
(* bound.                                                                  *)
LEMMA TablesStep ==
  ASSUME HubType, [Next]_vars
  PROVE  TablesType'
<1> USE DEF HubType, TablesType, roomVars, hubVars, sessionVars, history
<1>0. created \in Nat
  BY HubAssumption DEF DirectoryInv, DirectoryType, HubAssumption
<1>1. ASSUME NEW s \in Sessions, Handler(s) PROVE TablesType'
  <2>1. CASE Login(s) \/ OnLogin(s)
    BY <2>1, HubAssumption DEF Login, OnLogin, HubAssumption
  <2>2. ASSUME NEW n \in Names,
               RoomCreate(s, n) \/ RoomJoin(s, n) \/ BattleJoin(s, n)
        PROVE  TablesType'
    <3>1. visits' \in 0..MaxVisits
      BY <2>2, HubAssumption
      DEF RoomCreate, RoomJoin, BattleJoin, Begin, HubAssumption
    <3>2. registry' \subseteq Names
      BY <2>2 DEF RoomCreate, RoomJoin, BattleJoin
    <3>3. UNCHANGED <<created, routed, routes, reapers, online, loggedIn>>
      BY <2>2 DEF RoomCreate, RoomJoin, BattleJoin, Begin
    <3>4. QED
      BY <3>1, <3>2, <3>3
  <2>3. CASE CreateRoom(s)
    BY <1>0, <2>3 DEF CreateRoom
  <2>4. CASE AddPlayer(s) \/ Delist(s)
    BY <2>4 DEF AddPlayer, Delist
  <2>5. CASE SetRoom(s) \/ Confirm(s) \/ BattleInput(s) \/ HandleInput(s)
    BY <2>5 DEF SetRoom, Confirm, BattleInput, HandleInput
  <2>6. CASE Register(s)
    <3>1. job[s].room \in 1..created
      BY <2>6 DEF Register, SessionsType, Placed
    <3>2. QED
      BY <2>6, <3>1 DEF Register
  <2>7. CASE Leave(s) \/ LeaveClearRoom(s) \/ RemovePlayer(s)
    BY <2>7 DEF Leave, LeaveClearRoom, RemovePlayer
  <2>8. CASE Unroute(s)
    BY <2>8 DEF Unroute
  <2>9. QED
    BY <1>1, <2>1, <2>2, <2>3, <2>4, <2>5, <2>6, <2>7, <2>8 DEF Handler
<1>2. ASSUME NEW s \in Sessions, Closer(s) PROVE TablesType'
  BY <1>2 DEF Closer, Close, CloseClearRoom, SetOffline, CloseUnroute,
              Logout, HangUp
<1>3. ASSUME NEW r \in Rooms, Loop(r) PROVE TablesType'
  <2>1. CASE Sweep(r)
    <3>1. Len(reapers') <= MaxReapers
      BY <2>1, HubAssumption
      DEF Sweep, DirectoryInv, ReaperType, HubAssumption
    <3>2. QED
      BY <2>1, <3>1 DEF Sweep
  <2>2. CASE ~Sweep(r)
    BY <1>3, <2>2 DEF Loop, Lapse, LoopReturns, RegisterOnEmpty
  <2>3. QED
    BY <2>1, <2>2
<1>4. ASSUME NEW i \in 1..Len(reapers), Reaper(i) PROVE TablesType'
  <2>1. Len(reapers') = Len(reapers)
    BY <1>4 DEF Reaper, ReapCheck, ReapUnroute, ReapUnlist, ReapDestroy,
                Advance, DirectoryInv, ReaperType
  <2>2. QED
    BY <1>4, <2>1
    DEF Reaper, ReapCheck, ReapUnroute, ReapUnlist, ReapDestroy
<1>5. CASE UNCHANGED vars
  BY <1>5 DEF vars
<1>6. QED
  BY <1>1, <1>2, <1>3, <1>4, <1>5 DEF Next

(* Rooms are created one at a time and never forgotten.                    *)
LEMMA CreatedGrows ==
  ASSUME HubType, [Next]_vars
  PROVE  /\ created \in Nat /\ created' \in {created, created + 1}
         /\ 1..created \subseteq Rooms
<1>1. created \in Nat /\ created <= MaxRooms
  BY HubAssumption DEF HubType, DirectoryInv, DirectoryType, HubAssumption
<1>2. created' \in {created, created + 1}
  <2>1. CASE UNCHANGED vars
    BY <2>1 DEF vars, roomVars
  <2>2. CASE \E s \in Sessions : CreateRoom(s)
    BY <2>2 DEF CreateRoom
  <2>3. CASE UNCHANGED directory
    BY <2>3 DEF directory
  <2>4. CASE \E i \in 1..Len(reapers) : ReapDestroy(i)
    BY <2>4 DEF ReapDestroy
  <2>5. QED
    BY <2>1, <2>2, <2>3, <2>4, DirectoryFrame
<1>3. QED
  BY <1>1, <1>2, HubAssumption DEF Rooms, HubAssumption

(* A handler and a closer work on their own session.                       *)
LEMMA HandlerFrame ==
  ASSUME HubType, NEW s \in Sessions, Handler(s)
  PROVE  /\ UNCHANGED <<closer, closing>>
         /\ overlapped \subseteq overlapped'
         /\ loggedIn \subseteq loggedIn'
         /\ raced \subseteq raced' /\ moved \subseteq moved'
         /\ \A t \in Sessions \ {s} :
              /\ pc'[t] = pc[t] /\ job'[t] = job[t] /\ sRoom'[t] = sRoom[t]
              /\ t \in loggedIn' <=> t \in loggedIn
              /\ t \in raced' <=> t \in raced
              /\ t \in moved' <=> t \in moved
<1> USE DEF HubType, DirectoryInv, HandlerType, roomVars, hubVars,
            sessionVars, history, Goto, Finish
<1>1. CASE Login(s) \/ OnLogin(s)
  BY <1>1 DEF Login, OnLogin
<1>2. ASSUME NEW n \in Names,
             RoomCreate(s, n) \/ RoomJoin(s, n) \/ BattleJoin(s, n)
      PROVE  /\ UNCHANGED <<closer, closing, sRoom, overlapped, loggedIn,
                            raced, moved>>
             /\ \A t \in Sessions \ {s} : /\ pc'[t] = pc[t]
                                          /\ job'[t] = job[t]
  BY <1>2 DEF RoomCreate, RoomJoin, BattleJoin, Begin
<1>3. CASE CreateRoom(s)
  BY <1>3 DEF CreateRoom
<1>4. CASE AddPlayer(s)
  BY <1>4 DEF AddPlayer
<1>5. CASE Delist(s) \/ Register(s) \/ Confirm(s)
  BY <1>5 DEF Delist, Register, Confirm
<1>6. CASE SetRoom(s)
  BY <1>6 DEF SetRoom
<1>7. CASE BattleInput(s) \/ HandleInput(s)
  BY <1>7 DEF BattleInput, HandleInput
<1>8. CASE Leave(s) \/ LeaveClearRoom(s)
  BY <1>8 DEF Leave, LeaveClearRoom
<1>9. CASE RemovePlayer(s) \/ Unroute(s)
  BY <1>9 DEF RemovePlayer, Unroute
<1>10. QED
  BY <1>1, <1>2, <1>3, <1>4, <1>5, <1>6, <1>7, <1>8, <1>9 DEF Handler

(* What a closer leaves alone, and that all it can do to a room is to      *)
(* clear it.                                                               *)
LEMMA CloserFrame ==
  ASSUME HubType, NEW s \in Sessions, Closer(s)
  PROVE  /\ UNCHANGED <<created, nameOf, destroyed, stopped, held, grace,
                        reapers, loggedIn, pc, job, history>>
         /\ \A t \in Sessions \ {s} :
              /\ closer'[t] = closer[t] /\ closing'[t] = closing[t]
              /\ sRoom'[t] = sRoom[t]
         /\ sRoom'[s] \in {0, sRoom[s]}
<1> USE DEF HubType, SessionsType, roomVars, hubVars, sessionVars, history
<1>1. CASE Close(s)
  BY <1>1 DEF Close
<1>2. CASE CloseClearRoom(s)
  BY <1>2 DEF CloseClearRoom
<1>3. CASE SetOffline(s)
  BY <1>3 DEF SetOffline
<1>4. CASE CloseUnroute(s) \/ Logout(s) \/ HangUp(s)
  BY <1>4 DEF CloseUnroute, Logout, HangUp
<1>5. QED
  BY <1>1, <1>2, <1>3, <1>4 DEF Closer

(* Loops and reapers leave the sessions and the online table alone.        *)
LEMMA OthersFrame ==
  ASSUME \/ \E r \in Rooms : Loop(r)
         \/ \E i \in 1..Len(reapers) : Reaper(i)
  PROVE  UNCHANGED <<created, nameOf, sessionVars, raced, visits, moved,
                     overlapped, online>>
<1> USE DEF roomVars, hubVars, sessionVars, history
<1>1. ASSUME NEW r \in Rooms, Loop(r)
      PROVE  UNCHANGED <<created, nameOf, sessionVars, history, online>>
  BY <1>1 DEF Loop, Lapse, LoopReturns, RegisterOnEmpty, Sweep
<1>2. ASSUME NEW i \in 1..Len(reapers), Reaper(i)
      PROVE  UNCHANGED <<created, nameOf, sessionVars, raced, visits, moved,
                         overlapped, online>>
  BY <1>2 DEF Reaper, ReapCheck, ReapUnroute, ReapUnlist, ReapDestroy
<1>3. QED
  BY <1>1, <1>2

(* A job's room and a session's come from the table and from each other.   *)
LEMMA SessionsStep ==
  ASSUME HubType, [Next]_vars
  PROVE  SessionsType'
<1> USE DEF HubType, SessionsType, sessionVars
<1>0. 0..created \subseteq 0..created'
  BY CreatedGrows
<1>1. ASSUME NEW s \in Sessions, Handler(s) PROVE SessionsType'
  <2> DEFINE Own == /\ sRoom'[s] \in 0..created'
                    /\ job'[s].room \in 0..created'
                    /\ pc'[s] \in Placed => job'[s].room # 0
  <2>1. /\ sRoom' \in [Sessions -> Nat] /\ DOMAIN sRoom' = Sessions
        /\ created \in Nat
    BY HandlerStep, CreatedGrows DEF HandlerType
  <2>2. /\ sRoom[s] \in 0..created' /\ job[s].room \in 0..created'
        /\ pc[s] \in Placed => job[s].room # 0
        /\ 0 \in 0..created'
    BY <1>0, CreatedGrows
  <2>3. /\ pc \in [Sessions -> Labels] /\ job \in [Sessions -> Job]
        /\ sRoom \in [Sessions -> Nat]
    BY DEF DirectoryInv, HandlerType
  <2>4. Own
    <3> USE DEF Placed, Goto, Finish, NoJob, Job
    <3>1. CASE Login(s) \/ OnLogin(s) \/ Register(s)
      BY <2>2, <2>3, <3>1 DEF Login, OnLogin, Register
    <3>2. ASSUME NEW n \in Names,
                 RoomCreate(s, n) \/ RoomJoin(s, n) \/ BattleJoin(s, n)
          PROVE  Own
      <4>1. pc'[s] = "create" /\ job'[s].room = 0 /\ sRoom' = sRoom
        BY <2>3, <3>2 DEF RoomCreate, RoomJoin, BattleJoin, Begin
      <4>2. QED
        BY <2>2, <4>1
    <3>3. CASE CreateRoom(s)
      <4>1. sRoom' = sRoom /\ job[s].name \in Names
        BY <3>3 DEF CreateRoom, DirectoryInv, HandlerType
      <4>2. job'[s].room \in 1..created'
        BY <2>1, <2>3, <3>3, <4>1
        DEF CreateRoom, DirectoryInv, DirectoryType
      <4>3. QED
        BY <2>2, <4>1, <4>2
    <3>4. CASE AddPlayer(s)
      <4>1. sRoom' = sRoom /\ job[s].room # 0
        BY <2>2, <3>4 DEF AddPlayer
      <4>2. \/ job' = [job EXCEPT ![s].creating = FALSE]
            \/ job' = [job EXCEPT ![s] = NoJob] /\ Goto(s, "idle")
            \/ job' = job
        BY <3>4 DEF AddPlayer
      <4>3. \/ job'[s].room = job[s].room
            \/ job'[s].room = 0 /\ pc'[s] = "idle"
        BY <2>3, <4>2
      <4>4. QED
        BY <2>2, <4>1, <4>3
    <3>5. CASE Delist(s) \/ Confirm(s) \/ Unroute(s)
      <4>1. sRoom' = sRoom /\ job'[s].room = 0 /\ pc'[s] = "idle"
        BY <2>3, <3>5 DEF Delist, Confirm, Unroute
      <4>2. QED
        BY <2>2, <4>1
    <3>6. CASE SetRoom(s)
      BY <2>2, <2>3, <3>6 DEF SetRoom
    <3>7. CASE BattleInput(s) \/ HandleInput(s)
      BY <2>2, <2>3, <3>7 DEF BattleInput, HandleInput
    <3>8. CASE Leave(s)
      BY <2>2, <2>3, <3>8 DEF Leave
    <3>9. CASE LeaveClearRoom(s)
      BY <2>1, <2>2, <2>3, <3>9 DEF LeaveClearRoom
    <3>10. CASE RemovePlayer(s)
      BY <2>2, <2>3, <3>10 DEF RemovePlayer
    <3>11. QED
      BY <1>1, <3>1, <3>2, <3>3, <3>4, <3>5, <3>6, <3>7, <3>8, <3>9, <3>10
      DEF Handler
  <2>5. QED
    BY <1>0, <1>1, <2>1, <2>4, HandlerFrame
<1>2. ASSUME NEW s \in Sessions, Closer(s) PROVE SessionsType'
  <2> USE DEF Closers, DirectoryInv, DirectoryType
  <2>1. UNCHANGED <<created, pc, job>>
    BY <1>2, CloserFrame
  <2>2. CASE Close(s)
    BY <2>1, <2>2 DEF Close
  <2>3. CASE CloseClearRoom(s)
    BY <2>1, <2>3, HubAssumption DEF CloseClearRoom, HubAssumption
  <2>4. CASE SetOffline(s)
    BY <2>1, <2>4 DEF SetOffline
  <2>5. CASE CloseUnroute(s)
    BY <2>1, <2>5 DEF CloseUnroute
  <2>6. CASE Logout(s) \/ HangUp(s)
    BY <2>1, <2>6, HubAssumption DEF Logout, HangUp, HubAssumption
  <2>7. QED
    BY <1>2, <2>2, <2>3, <2>4, <2>5, <2>6 DEF Closer
<1>3. CASE UNCHANGED <<created, sessionVars>>
  BY <1>3
<1>4. QED
  BY <1>1, <1>2, <1>3, OthersFrame DEF Next, vars, roomVars

-----------------------------------------------------------------------------
(* Whoever is at something, or in a room, has logged in.                   *)
Identified ==
  \A s \in Sessions :
    /\ pc[s] # "idle" \/ sRoom[s] # 0 => s \in loggedIn
    /\ closer[s] \in {"clear", "offline", "unroute"} => s \in loggedIn

Enlisted ==
  \A u \in Users : online[u] # Nobody =>
    online[u] \in loggedIn /\ Acct[online[u]] = u

(* A session that is closed and whose handler has come to its end does     *)
(* nothing any more; Over adds that nothing of it is pending in a room.    *)
Ended(s) == closer[s] = "done" /\ pc[s] = "idle" /\ s \notin raced \cup moved

Rivals(s, t) ==
  s # t /\ Acct[s] = Acct[t] /\ s \in loggedIn /\ t \in loggedIn

(* Two sessions of an account have overlapped, or one of them has ended.   *)
Apart ==
  \A s, t \in Sessions :
    Rivals(s, t) /\ s \notin overlapped => Ended(s) \/ Ended(t)

(* Only a login is done by a session that has not logged in, and nothing   *)
(* by one that has ended.                                                  *)
LEMMA HandlerActs ==
  ASSUME Identified, NEW s \in Sessions, Handler(s)
  PROVE  /\ s \in loggedIn'
         /\ s \notin loggedIn => Login(s)
         /\ ~(closer[s] = "done" /\ pc[s] = "idle")
<1> USE DEF Identified, sessionVars, Listening, Authed
<1>1. CASE Login(s)
  BY <1>1 DEF Login
<1>2. CASE OnLogin(s)
  BY <1>2 DEF OnLogin
<1>3. ASSUME NEW n \in Names,
             RoomCreate(s, n) \/ RoomJoin(s, n) \/ BattleJoin(s, n)
      PROVE  /\ s \in loggedIn /\ UNCHANGED loggedIn
             /\ ~(closer[s] = "done" /\ pc[s] = "idle")
  BY <1>3 DEF RoomCreate, RoomJoin, BattleJoin, Begin
<1>4. CASE CreateRoom(s) \/ AddPlayer(s) \/ Delist(s) \/ Register(s)
  BY <1>4 DEF CreateRoom, AddPlayer, Delist, Register
<1>5. CASE SetRoom(s) \/ Confirm(s) \/ BattleInput(s) \/ HandleInput(s)
  BY <1>5 DEF SetRoom, Confirm, BattleInput, HandleInput
<1>6. CASE Leave(s) \/ LeaveClearRoom(s) \/ RemovePlayer(s) \/ Unroute(s)
  BY <1>6 DEF Leave, LeaveClearRoom, RemovePlayer, Unroute
<1>7. QED
  BY <1>1, <1>2, <1>3, <1>4, <1>5, <1>6 DEF Handler

(* A handler that is at something has logged in: Login comes first, and    *)
(* Close finds no room before.                                             *)
LEMMA IdentifiedStep ==
  ASSUME HubType, Identified, [Next]_vars
  PROVE  Identified'
<1> USE DEF Identified
<1>1. ASSUME NEW s \in Sessions, Handler(s) PROVE Identified'
  BY <1>1, HandlerFrame, HandlerActs
<1>2. ASSUME NEW s \in Sessions, Closer(s) PROVE Identified'
  <2>1. closer'[s] \in {"clear", "offline", "unroute"} => s \in loggedIn
    BY <1>2 DEF Closer, Close, CloseClearRoom, SetOffline, CloseUnroute,
                Logout, HangUp, HubType, SessionsType
  <2>2. QED
    BY <1>2, <2>1, CloserFrame
<1>3. QED
  BY <1>1, <1>2, OthersFrame DEF Next, vars, sessionVars

(* Who has an entry in the online table, and who puts it there.            *)
LEMMA OnlineFrame ==
  ASSUME NEW s \in Sessions
  PROVE  /\ Handler(s) => OnLogin(s) \/ UNCHANGED online
         /\ Closer(s) => Logout(s) \/ UNCHANGED online
<1> USE DEF hubVars
<1>1. ASSUME Handler(s) PROVE OnLogin(s) \/ UNCHANGED online
  <2>1. ASSUME NEW n \in Names,
               RoomCreate(s, n) \/ RoomJoin(s, n) \/ BattleJoin(s, n)
        PROVE  UNCHANGED online
    BY <2>1 DEF RoomCreate, RoomJoin, BattleJoin, Begin
  <2>2. CASE Login(s) \/ CreateRoom(s) \/ AddPlayer(s) \/ Delist(s)
    BY <2>2 DEF Login, CreateRoom, AddPlayer, Delist
  <2>3. CASE Register(s) \/ SetRoom(s) \/ Confirm(s)
    BY <2>3 DEF Register, SetRoom, Confirm
  <2>4. CASE BattleInput(s) \/ HandleInput(s) \/ Leave(s)
    BY <2>4 DEF BattleInput, HandleInput, Leave
  <2>5. CASE LeaveClearRoom(s) \/ RemovePlayer(s) \/ Unroute(s)
    BY <2>5 DEF LeaveClearRoom, RemovePlayer, Unroute
  <2>6. QED
    BY <1>1, <2>1, <2>2, <2>3, <2>4, <2>5 DEF Handler
<1>2. ASSUME Closer(s) PROVE Logout(s) \/ UNCHANGED online
  BY <1>2 DEF Closer, Close, CloseClearRoom, SetOffline, CloseUnroute, HangUp
<1>3. QED
  BY <1>1, <1>2

(* What is noted of a session is not forgotten.                            *)
LEMMA LoggedInGrows ==
  ASSUME HubType, [Next]_vars
  PROVE  loggedIn \subseteq loggedIn' /\ overlapped \subseteq overlapped'
         /\ raced \subseteq raced' /\ moved \subseteq moved'
BY HandlerFrame, CloserFrame, OthersFrame
DEF Next, vars, sessionVars, history

(* OnLogin enters a session under its own account, Logout takes the entry  *)
(* out.                                                                    *)
LEMMA EnlistedStep ==
  ASSUME HubType, Identified, Enlisted, [Next]_vars
  PROVE  Enlisted'
<1> USE DEF Enlisted
<1>1. loggedIn \subseteq loggedIn'
  BY LoggedInGrows
<1>2. online \in [Users -> Sessions \cup {Nobody}] /\ Nobody \notin Sessions
  BY HubAssumption DEF HubType, TablesType, HubAssumption
<1>3. ASSUME NEW s \in Sessions, OnLogin(s) PROVE Enlisted'
  BY <1>1, <1>2, <1>3 DEF OnLogin, Identified
<1>4. ASSUME NEW s \in Sessions, Logout(s) PROVE Enlisted'
  BY <1>1, <1>2, <1>4 DEF Logout
<1>5. CASE UNCHANGED online
  BY <1>1, <1>5
<1>6. QED
  BY <1>3, <1>4, <1>5, OnlineFrame, OthersFrame DEF Next, vars, hubVars

(* What has ended stays so: the handler gets no more frames.               *)
LEMMA EndedStays ==
  ASSUME HubType, Identified, [Next]_vars, NEW t \in Sessions, Ended(t)
  PROVE  Ended(t)'
<1> USE DEF Ended
<1>1. ASSUME NEW s \in Sessions, Handler(s) PROVE Ended(t)'
  BY <1>1, HandlerFrame, HandlerActs
<1>2. ASSUME NEW s \in Sessions, Closer(s) PROVE Ended(t)'
  <2>1. s # t
    BY <1>2 DEF Closer, Close, CloseClearRoom, SetOffline, CloseUnroute,
                Logout, HangUp
  <2>2. QED
    BY <1>2, <2>1, CloserFrame DEF history
<1>3. QED
  BY <1>1, <1>2, OthersFrame DEF Next, vars, sessionVars, history

(* Nothing else makes a session one of its account's.                      *)
LEMMA OnlyLoginAdds ==
  ASSUME HubType, Identified, [Next]_vars
  PROVE  loggedIn' = loggedIn \/ \E s \in Sessions : Login(s)
<1>1. ASSUME NEW s \in Sessions, Handler(s), ~Login(s)
      PROVE  loggedIn' = loggedIn
  <2>1. s \in loggedIn
    BY <1>1, HandlerActs
  <2>2. loggedIn \subseteq Sessions /\ loggedIn' \subseteq Sessions
    BY TablesStep DEF HubType, TablesType
  <2>3. QED
    BY <1>1, <2>1, <2>2, HandlerFrame
<1>2. QED
  BY <1>1, CloserFrame, OthersFrame DEF Next, vars, sessionVars

(* Login notes the rivals that are not over, and those that are stay so.   *)
LEMMA ApartStep ==
  ASSUME HubType, Identified, Apart, [Next]_vars
  PROVE  Apart'
<1> SUFFICES ASSUME NEW s \in Sessions, NEW t \in Sessions, Rivals(s, t)',
                    s \notin overlapped'
             PROVE  Ended(s)' \/ Ended(t)'
  BY DEF Apart
<1>1. s # t /\ Acct[s] = Acct[t] /\ s \in loggedIn' /\ t \in loggedIn'
  BY DEF Rivals
<1>2. CASE s \in loggedIn /\ t \in loggedIn
  BY <1>1, <1>2, EndedStays, LoggedInGrows DEF Apart, Rivals
<1>3. ASSUME NEW n \in Sessions, Login(n), n \in {s, t}
      PROVE  Ended(s)' \/ Ended(t)'
  <2>1. /\ loggedIn' = loggedIn \cup {n} /\ n \notin loggedIn
        /\ \A m \in loggedIn : Acct[m] = Acct[n] /\ ~Over(m) =>
             m \in overlapped' /\ n \in overlapped'
    BY <1>3 DEF Login
  <2>2. CASE n = s
    BY <1>1, <2>1, <2>2, EndedStays DEF Over, Ended
  <2>3. CASE n = t
    BY <1>1, <2>1, <2>3, EndedStays DEF Over, Ended
  <2>4. QED
    BY <1>3, <2>2, <2>3
<1>4. QED
  <2>1. ASSUME NEW n \in Sessions, Login(n), n \notin {s, t}
        PROVE  s \in loggedIn /\ t \in loggedIn
    BY <1>1, <2>1 DEF Login
  <2>2. QED
    BY <1>1, <1>2, <1>3, <2>1, OnlyLoginAdds

-----------------------------------------------------------------------------
(* The online table.                                                       *)
Shown ==
  \A s \in Sessions \ raced :
    /\ s \in loggedIn \ overlapped /\ ~LoggedOut(s) /\ pc[s] # "present"
         => online[Acct[s]] = s
    /\ LoggedOut(s) => online[Acct[s]] # s

(* Only OnLogin and Logout write the table; those of a rival come when the *)
(* other session has ended or been noted.                                  *)
LEMMA ShownStep ==
  ASSUME HubType, Identified, Enlisted, Apart, Shown, [Next]_vars
  PROVE  Shown'
<1> SUFFICES ASSUME NEW s \in Sessions, s \notin raced'
             PROVE  /\ /\ s \in loggedIn' \ overlapped'
                       /\ ~LoggedOut(s)' /\ pc'[s] # "present"
                       => online'[Acct[s]] = s
                    /\ LoggedOut(s)' => online'[Acct[s]] # s
  BY DEF Shown
<1>0. /\ s \notin raced
      /\ s \notin overlapped' => s \notin overlapped
  BY LoggedInGrows
<1>1. /\ s \in loggedIn \ overlapped /\ ~LoggedOut(s)
         /\ pc[s] # "present" => online[Acct[s]] = s
      /\ LoggedOut(s) => online[Acct[s]] # s
  BY <1>0 DEF Shown
<1>2. /\ Acct \in [Sessions -> Users] /\ Nobody \notin Sessions
      /\ online \in [Users -> Sessions \cup {Nobody}]
      /\ closer \in [Sessions -> Closers]
  BY HubAssumption DEF HubAssumption, HubType, TablesType, SessionsType
<1>3. ASSUME NEW t \in Sessions, Acct[t] = Acct[s], t # s, t \in loggedIn,
             s \in loggedIn, s \notin overlapped
      PROVE  Ended(s) \/ Ended(t)
  BY <1>3 DEF Apart, Rivals
<1>4. ASSUME NEW t \in Sessions \ {s}, Acct[t] = Acct[s], t \in loggedIn,
             OnLogin(t) \/ Logout(t)
      PROVE  /\ s \in loggedIn \ overlapped => LoggedOut(s)
             /\ online'[Acct[s]] # s
  <2>1. ~Ended(t)
    BY <1>4 DEF OnLogin, Logout, Ended
  <2>2. online'[Acct[s]] \in {t, Nobody}
    BY <1>2, <1>4 DEF OnLogin, Logout
  <2>3. QED
    BY <1>2, <1>3, <1>4, <2>1, <2>2 DEF Ended, LoggedOut
<1>5. CASE /\ pc'[s] = pc[s] /\ closer'[s] = closer[s]
           /\ s \in loggedIn' <=> s \in loggedIn
           /\ \/ UNCHANGED online
              \/ \E t \in Sessions \ {s} : OnLogin(t) \/ Logout(t)
  <2>1. CASE online'[Acct[s]] = online[Acct[s]]
    BY <1>0, <1>1, <1>5, <2>1 DEF LoggedOut
  <2>2. ASSUME NEW t \in Sessions \ {s}, OnLogin(t) \/ Logout(t),
               online'[Acct[s]] # online[Acct[s]]
        PROVE  Acct[t] = Acct[s] /\ t \in loggedIn
    BY <1>2, <2>2 DEF OnLogin, Logout, Identified
  <2>3. QED
    BY <1>0, <1>4, <1>5, <2>1, <2>2 DEF LoggedOut
<1>6. CASE Handler(s)
  <2>1. UNCHANGED closer
    BY <1>6, HandlerFrame
  <2>2. CASE OnLogin(s)
    BY <1>2, <2>1, <2>2 DEF OnLogin, LoggedOut
  <2>3. CASE Login(s)
    <3>1. pc'[s] = "present" /\ UNCHANGED online
      BY <2>3 DEF Login, Goto, HubType, DirectoryInv, HandlerType, hubVars
    <3>2. QED
      BY <1>1, <2>1, <3>1 DEF LoggedOut
  <2>4. CASE ~OnLogin(s) /\ ~Login(s)
    <3>1. UNCHANGED online /\ s \in loggedIn
      BY <1>6, <2>4, HandlerActs, OnlineFrame DEF OnLogin, Logout
    <3>2. pc[s] # "present"
      BY <1>6, <2>4
      DEF Handler, RoomCreate, RoomJoin, BattleJoin, CreateRoom, AddPlayer,
          Delist, Register, SetRoom, Confirm, BattleInput, HandleInput, Leave,
          LeaveClearRoom, RemovePlayer, Unroute, Authed, Listening
    <3>3. QED
      BY <1>0, <1>1, <2>1, <3>1, <3>2 DEF LoggedOut
  <2>5. QED
    BY <2>2, <2>3, <2>4
<1>7. CASE Closer(s)
  <2>1. UNCHANGED <<pc, loggedIn>>
    BY <1>7, CloserFrame
  <2>2. CASE Logout(s)
    <3>1. closer'[s] = "hangup" /\ online'[Acct[s]] # s
      BY <1>2, <2>2 DEF Logout, Enlisted
    <3>2. QED
      BY <3>1 DEF LoggedOut
  <2>3. CASE ~Logout(s)
    <3>1. LoggedOut(s)' = LoggedOut(s) /\ UNCHANGED online
      BY <1>2, <1>7, <2>3
      DEF Closer, Close, CloseClearRoom, SetOffline, CloseUnroute, HangUp,
          hubVars, LoggedOut
    <3>2. QED
      BY <1>0, <1>1, <2>1, <3>1
  <2>4. QED
    BY <2>2, <2>3
<1>8. ASSUME NEW t \in Sessions \ {s}, Handler(t) \/ Closer(t)
      PROVE  /\ pc'[s] = pc[s] /\ closer'[s] = closer[s]
             /\ s \in loggedIn' <=> s \in loggedIn
             /\ UNCHANGED online \/ OnLogin(t) \/ Logout(t)
  BY <1>8, HandlerFrame, CloserFrame, OnlineFrame
<1>9. CASE UNCHANGED <<pc, closer, loggedIn, online>>
  BY <1>5, <1>9
<1>10. QED
  BY <1>5, <1>6, <1>7, <1>8, <1>9, OthersFrame
  DEF Next, vars, sessionVars, hubVars

-----------------------------------------------------------------------------
(* Offline messages.  Those of an account come from sessions of it that    *)
(* have reached SetOffline, one each; so there is none for a session that  *)
(* has not and that shares its account with none that is not over.         *)
LapseOrigin ==
  \A r \in Rooms, u \in Users :
    lapses[r][u] > 0 => \E t \in loggedIn : Acct[t] = u

NoLapse ==
  \A s \in loggedIn \ overlapped :
    closer[s] \in {"none", "clear", "offline"} =>
      \A r \in Rooms : lapses[r][Acct[s]] = 0

Released == {s \in Sessions :
               closer[s] \in {"unroute", "logout", "hangup", "done"}}

LapseCount ==
  \A r \in Rooms, u \in Users : lapses[r][u] <= Cardinality(Released)

LapseInv == LapseOrigin /\ NoLapse /\ LapseCount

(* Who changes what is pending, and how.                                   *)
LEMMA LapsesFrame ==
  ASSUME HubType, [Next]_vars
  PROVE  \/ \A r \in Rooms, u \in Users : lapses'[r][u] <= lapses[r][u]
         \/ \E s \in Sessions :
              /\ SetOffline(s) /\ closing[s] \in Rooms
              /\ lapses' = [lapses EXCEPT ![closing[s]][Acct[s]] = @ + 1]
<1>0. /\ lapses \in [Rooms -> [Users -> Nat]]
      /\ lapses' \in [Rooms -> [Users -> Nat]]
  BY RoomsStep DEF HubType, RoomsType
<1> USE DEF roomVars
<1>1. ASSUME NEW s \in Sessions, Handler(s) PROVE UNCHANGED lapses
  <2>1. ASSUME NEW n \in Names,
               RoomCreate(s, n) \/ RoomJoin(s, n) \/ BattleJoin(s, n)
        PROVE  UNCHANGED lapses
    BY <2>1 DEF RoomCreate, RoomJoin, BattleJoin, Begin
  <2>2. CASE Login(s) \/ OnLogin(s) \/ CreateRoom(s) \/ AddPlayer(s)
    BY <2>2 DEF Login, OnLogin, CreateRoom, AddPlayer
  <2>3. CASE Delist(s) \/ Register(s) \/ SetRoom(s) \/ Confirm(s)
    BY <2>3 DEF Delist, Register, SetRoom, Confirm
  <2>4. CASE BattleInput(s) \/ HandleInput(s) \/ Leave(s)
    BY <2>4 DEF BattleInput, HandleInput, Leave
  <2>5. CASE LeaveClearRoom(s) \/ RemovePlayer(s) \/ Unroute(s)
    BY <2>5 DEF LeaveClearRoom, RemovePlayer, Unroute
  <2>6. QED
    BY <1>1, <2>1, <2>2, <2>3, <2>4, <2>5 DEF Handler
<1>2. ASSUME NEW s \in Sessions, Closer(s), ~SetOffline(s)
      PROVE  UNCHANGED lapses
  BY <1>2 DEF Closer, Close, CloseClearRoom, CloseUnroute, Logout, HangUp
<1>3. ASSUME NEW s \in Sessions, SetOffline(s)
      PROVE  /\ closing[s] \in Rooms
             /\ \/ UNCHANGED lapses
                \/ lapses' = [lapses EXCEPT ![closing[s]][Acct[s]] = @ + 1]
  <2>1. closing[s] \in 1..created
    BY <1>3, CreatedGrows DEF SetOffline, HubType, SessionsType
  <2>2. QED
    BY <1>3, <2>1, CreatedGrows DEF SetOffline
<1>4. ASSUME NEW q \in Rooms, Loop(q)
      PROVE  \A r \in Rooms, u \in Users : lapses'[r][u] <= lapses[r][u]
  <2>1. ASSUME NEW v \in Users, Lapse(q, v)
        PROVE  \A r \in Rooms, u \in Users : lapses'[r][u] <= lapses[r][u]
    <3>1. lapses' = [lapses EXCEPT ![q][v] = @ - 1]
      BY <2>1 DEF Lapse
    <3>2. QED
      BY <1>0, <3>1
  <2>2. CASE LoopReturns(q)
    BY <1>0, <2>2 DEF LoopReturns
  <2>3. CASE RegisterOnEmpty(q) \/ Sweep(q)
    BY <1>0, <2>3 DEF RegisterOnEmpty, Sweep
  <2>4. QED
    BY <1>4, <2>1, <2>2, <2>3 DEF Loop
<1>5. ASSUME NEW i \in 1..Len(reapers), Reaper(i) PROVE UNCHANGED lapses
  BY <1>5 DEF Reaper, ReapCheck, ReapUnroute, ReapUnlist, ReapDestroy
<1>6. CASE UNCHANGED lapses
  BY <1>0, <1>6
<1>7. QED
  BY <1>1, <1>2, <1>3, <1>4, <1>5, <1>6 DEF Next, vars

(* SetOffline is done by a session that has logged in.                     *)
LEMMA LapseOriginStep ==
  ASSUME HubType, Identified, LapseOrigin, [Next]_vars
  PROVE  LapseOrigin'
<1>0. /\ lapses \in [Rooms -> [Users -> Nat]]
      /\ lapses' \in [Rooms -> [Users -> Nat]]
      /\ Acct \in [Sessions -> Users]
  BY RoomsStep, HubAssumption DEF HubType, RoomsType, HubAssumption
<1>1. loggedIn \subseteq loggedIn'
  BY LoggedInGrows
<1>2. CASE \A r \in Rooms, u \in Users : lapses'[r][u] <= lapses[r][u]
  BY <1>0, <1>1, <1>2 DEF LapseOrigin
<1>3. ASSUME NEW s \in Sessions, SetOffline(s), closing[s] \in Rooms,
             lapses' = [lapses EXCEPT ![closing[s]][Acct[s]] = @ + 1]
      PROVE  LapseOrigin'
  <2>1. s \in loggedIn'
    BY <1>1, <1>3 DEF SetOffline, Identified
  <2>2. \A r \in Rooms, u \in Users \ {Acct[s]} : lapses'[r][u] = lapses[r][u]
    BY <1>0, <1>3
  <2>3. QED
    BY <1>1, <2>1, <2>2 DEF LapseOrigin
<1>4. QED
  BY <1>2, <1>3, LapsesFrame

(* A rival that is not over is noted, and one that is has no SetOffline    *)
(* left to do.                                                             *)
LEMMA NoLapseStep ==
  ASSUME HubType, Identified, Apart, LapseOrigin, NoLapse, [Next]_vars
  PROVE  NoLapse'
<1> SUFFICES ASSUME NEW s \in loggedIn', s \notin overlapped',
                    closer'[s] \in {"none", "clear", "offline"},
                    NEW r \in Rooms
             PROVE  lapses'[r][Acct[s]] = 0
  BY DEF NoLapse
<1>0. /\ lapses \in [Rooms -> [Users -> Nat]]
      /\ lapses' \in [Rooms -> [Users -> Nat]]
      /\ Acct \in [Sessions -> Users]
      /\ s \in Sessions /\ s \notin overlapped
      /\ loggedIn \subseteq Sessions
  BY RoomsStep, TablesStep, LoggedInGrows, HubAssumption
  DEF HubType, RoomsType, TablesType, HubAssumption
<1>1. closer[s] \in {"none", "clear", "offline"}
  <2>1. ASSUME NEW t \in Sessions, Closer(t)
        PROVE  closer[s] \in {"none", "clear", "offline"}
    <3>1. CASE t # s
      BY <1>0, <2>1, <3>1, CloserFrame
    <3>2. CASE t = s
      BY <1>0, <2>1, <3>2
      DEF Closer, Close, CloseClearRoom, SetOffline, CloseUnroute,
          Logout, HangUp,
          HubType, SessionsType
    <3>3. QED
      BY <3>1, <3>2
  <2>2. QED
    BY <2>1, HandlerFrame, OthersFrame DEF Next, vars, sessionVars
<1>2. lapses[r][Acct[s]] = 0
  <2>1. CASE s \in loggedIn
    BY <1>0, <1>1, <2>1 DEF NoLapse
  <2>2. CASE s \notin loggedIn
    <3>1. PICK n \in Sessions : Login(n)
      BY <2>2, OnlyLoginAdds
    <3>2. n = s
      BY <2>2, <3>1 DEF Login
    <3>3. \A t \in loggedIn : Acct[t] = Acct[s] => Over(t)
      BY <3>1, <3>2 DEF Login
    <3>4. ASSUME lapses[r][Acct[s]] > 0 PROVE FALSE
      BY <1>0, <3>3, <3>4 DEF LapseOrigin, Over
    <3>5. QED
      BY <1>0, <3>4
  <2>3. QED
    BY <2>1, <2>2
<1>3. CASE lapses'[r][Acct[s]] <= lapses[r][Acct[s]]
  BY <1>0, <1>2, <1>3
<1>4. ASSUME NEW t \in Sessions, SetOffline(t), closing[t] \in Rooms,
             lapses' = [lapses EXCEPT ![closing[t]][Acct[t]] = @ + 1]
      PROVE  lapses'[r][Acct[s]] = 0
  <2>1. CASE Acct[t] # Acct[s]
    BY <1>0, <1>2, <1>4, <2>1
  <2>2. CASE t = s
    BY <1>0, <1>4, <2>2 DEF SetOffline, HubType, SessionsType
  <2>3. CASE Acct[t] = Acct[s] /\ t # s
    <3>1. t \in loggedIn /\ s \in loggedIn
      BY <1>4 DEF SetOffline, Identified, sessionVars
    <3>2. Ended(s) \/ Ended(t)
      BY <1>0, <2>3, <3>1 DEF Apart, Rivals
    <3>3. QED
      BY <1>1, <1>4, <3>2 DEF Ended, SetOffline
  <2>4. QED
    BY <2>1, <2>2, <2>3
<1>5. QED
  BY <1>0, <1>3, <1>4, LapsesFrame

(* A session comes to SetOffline once, and is counted from then on.        *)
LEMMA LapseCountStep ==
  ASSUME HubType, LapseCount, [Next]_vars
  PROVE  LapseCount'
<1>0. /\ lapses \in [Rooms -> [Users -> Nat]]
      /\ lapses' \in [Rooms -> [Users -> Nat]]
      /\ Acct \in [Sessions -> Users]
      /\ IsFiniteSet(Sessions)
      /\ closer \in [Sessions -> Closers]
  BY RoomsStep, HubAssumption
  DEF HubType, RoomsType, SessionsType, HubAssumption
<1>1. Released \subseteq Released'
  <2>1. ASSUME NEW s \in Sessions, Closer(s) PROVE Released \subseteq Released'
    BY <1>0, <2>1 DEF Released, Closer, Close, CloseClearRoom, SetOffline,
                      CloseUnroute, Logout, HangUp
  <2>2. CASE UNCHANGED closer
    BY <2>2 DEF Released
  <2>3. QED
    BY <2>1, <2>2, HandlerFrame, OthersFrame DEF Next, vars, sessionVars
<1>2. /\ IsFiniteSet(Released) /\ IsFiniteSet(Released')
      /\ Cardinality(Released) \in Nat /\ Cardinality(Released') \in Nat
  <2>1. Released \subseteq Sessions /\ Released' \subseteq Sessions
    BY DEF Released
  <2>2. QED
    BY <1>0, <2>1, FS_Subset, FS_CardinalityType
<1>3. Cardinality(Released) <= Cardinality(Released')
  BY <1>1, <1>2, FS_Subset
<1>4. CASE \A r \in Rooms, u \in Users : lapses'[r][u] <= lapses[r][u]
  BY <1>0, <1>2, <1>3, <1>4 DEF LapseCount
<1>5. ASSUME NEW s \in Sessions, SetOffline(s), closing[s] \in Rooms,
             lapses' = [lapses EXCEPT ![closing[s]][Acct[s]] = @ + 1]
      PROVE  LapseCount'
  <2>1. s \notin Released /\ s \in Released'
    BY <1>0, <1>5 DEF SetOffline, Released
  <2>2. Cardinality(Released \cup {s}) = Cardinality(Released) + 1
    BY <1>2, <2>1, FS_AddElement
  <2>3. Cardinality(Released \cup {s}) <= Cardinality(Released')
    BY <1>1, <1>2, <2>1, FS_Subset
  <2>4. \A r \in Rooms, u \in Users : lapses'[r][u] <= lapses[r][u] + 1
    BY <1>0, <1>5
  <2>5. QED
    BY <1>0, <1>2, <2>2, <2>3, <2>4 DEF LapseCount
<1>6. QED
  BY <1>4, <1>5, LapsesFrame

-----------------------------------------------------------------------------
(* Seats and routes: which calls change them.                              *)
LEMMA SeatsFrame ==
  ASSUME Next
  PROVE  \/ UNCHANGED <<held, grace>>
         \/ \E s \in Sessions : AddPlayer(s) \/ RemovePlayer(s)
         \/ \E r \in Rooms, u \in Users : Lapse(r, u)
         \/ \E r \in Rooms : Sweep(r) /\ UNCHANGED held
<1> USE DEF roomVars
<1>1. ASSUME NEW s \in Sessions, Handler(s), ~AddPlayer(s), ~RemovePlayer(s)
      PROVE  UNCHANGED <<held, grace>>
  <2>1. ASSUME NEW n \in Names,
               RoomCreate(s, n) \/ RoomJoin(s, n) \/ BattleJoin(s, n)
        PROVE  UNCHANGED <<held, grace>>
    BY <2>1 DEF RoomCreate, RoomJoin, BattleJoin, Begin
  <2>2. CASE Login(s) \/ OnLogin(s) \/ CreateRoom(s) \/ Delist(s)
    BY <2>2 DEF Login, OnLogin, CreateRoom, Delist
  <2>3. CASE Register(s) \/ SetRoom(s) \/ Confirm(s) \/ BattleInput(s)
    BY <2>3 DEF Register, SetRoom, Confirm, BattleInput
  <2>4. CASE HandleInput(s) \/ Leave(s) \/ LeaveClearRoom(s) \/ Unroute(s)
    BY <2>4 DEF HandleInput, Leave, LeaveClearRoom, Unroute
  <2>5. QED
    BY <1>1, <2>1, <2>2, <2>3, <2>4 DEF Handler
<1>2. ASSUME NEW s \in Sessions, Closer(s) PROVE UNCHANGED <<held, grace>>
  BY <1>2 DEF Closer, Close, CloseClearRoom, SetOffline, CloseUnroute,
              Logout, HangUp
<1>3. ASSUME NEW r \in Rooms, Loop(r)
      PROVE  \/ UNCHANGED <<held, grace>>
             \/ \E u \in Users : Lapse(r, u)
             \/ Sweep(r) /\ UNCHANGED held
  BY <1>3 DEF Loop, LoopReturns, RegisterOnEmpty, Sweep
<1>4. ASSUME NEW i \in 1..Len(reapers), Reaper(i)
      PROVE  UNCHANGED <<held, grace>>
  BY <1>4 DEF Reaper, ReapCheck, ReapUnroute, ReapUnlist, ReapDestroy
<1>5. QED
  BY <1>1, <1>2, <1>3, <1>4 DEF Next

(* Routes are written by Join and Leave, Close and the reaper.             *)
LEMMA RoutesFrame ==
  ASSUME Next
  PROVE  \/ UNCHANGED routes
         \/ \E s \in Sessions : Register(s) \/ Unroute(s) \/ CloseUnroute(s)
         \/ \E i \in 1..Len(reapers) : ReapUnroute(i)
<1> USE DEF hubVars
<1>1. ASSUME NEW s \in Sessions, Handler(s), ~Register(s), ~Unroute(s)
      PROVE  UNCHANGED routes
  <2>1. ASSUME NEW n \in Names,
               RoomCreate(s, n) \/ RoomJoin(s, n) \/ BattleJoin(s, n)
        PROVE  UNCHANGED routes
    BY <2>1 DEF RoomCreate, RoomJoin, BattleJoin, Begin
  <2>2. CASE Login(s) \/ OnLogin(s) \/ CreateRoom(s) \/ AddPlayer(s)
    BY <2>2 DEF Login, OnLogin, CreateRoom, AddPlayer
  <2>3. CASE Delist(s) \/ SetRoom(s) \/ Confirm(s) \/ BattleInput(s)
    BY <2>3 DEF Delist, SetRoom, Confirm, BattleInput
  <2>4. CASE HandleInput(s) \/ Leave(s) \/ LeaveClearRoom(s)
             \/ RemovePlayer(s)
    BY <2>4 DEF HandleInput, Leave, LeaveClearRoom, RemovePlayer
  <2>5. QED
    BY <1>1, <2>1, <2>2, <2>3, <2>4 DEF Handler
<1>2. ASSUME NEW s \in Sessions, Closer(s), ~CloseUnroute(s)
      PROVE  UNCHANGED routes
  BY <1>2 DEF Closer, Close, CloseClearRoom, SetOffline, Logout, HangUp
<1>3. ASSUME NEW r \in Rooms, Loop(r) PROVE UNCHANGED routes
  BY <1>3 DEF Loop, Lapse, LoopReturns, RegisterOnEmpty, Sweep
<1>4. ASSUME NEW i \in 1..Len(reapers), Reaper(i), ~ReapUnroute(i)
      PROVE  UNCHANGED routes
  BY <1>4 DEF Reaper, ReapCheck, ReapUnlist, ReapDestroy
<1>5. QED
  BY <1>1, <1>2, <1>3, <1>4 DEF Next

(* The note of disturbed rooms is only added to, by AddPlayer and by       *)
(* ReapCheck.                                                              *)
LEMMA DisturbedGrows ==
  ASSUME [Next]_vars
  PROVE  disturbed \subseteq disturbed'
<1> USE DEF history
<1>1. ASSUME NEW s \in Sessions, Handler(s)
      PROVE  disturbed \subseteq disturbed'
  <2>1. ASSUME NEW n \in Names,
               RoomCreate(s, n) \/ RoomJoin(s, n) \/ BattleJoin(s, n)
        PROVE  UNCHANGED disturbed
    BY <2>1 DEF RoomCreate, RoomJoin, BattleJoin, Begin
  <2>2. CASE Login(s) \/ OnLogin(s) \/ CreateRoom(s) \/ AddPlayer(s)
    BY <2>2 DEF Login, OnLogin, CreateRoom, AddPlayer
  <2>3. CASE Delist(s) \/ Register(s) \/ SetRoom(s) \/ Confirm(s)
    BY <2>3 DEF Delist, Register, SetRoom, Confirm
  <2>4. CASE BattleInput(s) \/ HandleInput(s) \/ Leave(s)
    BY <2>4 DEF BattleInput, HandleInput, Leave
  <2>5. CASE LeaveClearRoom(s) \/ RemovePlayer(s) \/ Unroute(s)
    BY <2>5 DEF LeaveClearRoom, RemovePlayer, Unroute
  <2>6. QED
    BY <1>1, <2>1, <2>2, <2>3, <2>4, <2>5 DEF Handler
<1>2. ASSUME NEW s \in Sessions, Closer(s) PROVE UNCHANGED disturbed
  BY <1>2 DEF Closer, Close, CloseClearRoom, SetOffline, CloseUnroute,
              Logout, HangUp
<1>3. ASSUME NEW r \in Rooms, Loop(r) PROVE UNCHANGED disturbed
  BY <1>3 DEF Loop, Lapse, LoopReturns, RegisterOnEmpty, Sweep
<1>4. ASSUME NEW i \in 1..Len(reapers), Reaper(i)
      PROVE  disturbed \subseteq disturbed'
  BY <1>4 DEF Reaper, ReapCheck, ReapUnroute, ReapUnlist, ReapDestroy
<1>5. QED
  BY <1>1, <1>2, <1>3, <1>4 DEF Next, vars

(* A room is empty until it is made, and empty again from the moment a     *)
(* reaper of its name has looked, unless it is noted as disturbed.         *)
Vacant ==
  \A r \in Rooms :
    /\ r > created => Seated(r) = {}
    /\ r <= created /\ Condemned(r) => Seated(r) = {} \/ r \in disturbed

(* How the reapers' list changes.                                          *)
LEMMA ReapersFrame ==
  ASSUME HubType, Next
  PROVE  \/ UNCHANGED reapers
         \/ \E q \in Reapers : /\ reapers' = Append(reapers, q)
                               /\ q.pc = "check"
         \/ \E i \in 1..Len(reapers), q \in Reapers :
              /\ Reaper(i)
              /\ reapers' = [reapers EXCEPT ![i] = q]
              /\ q.room = reapers[i].room
              /\ q.pc \in {"unroute", "unlist", "destroy"} =>
                   \/ reapers[i].pc \in {"unroute", "unlist"}
                   \/ ReapCheck(i) /\ StillEmpty(q.room)
<1> USE DEF hubVars
<1>0. reapers \in Seq(Reapers)
  BY DEF HubType, DirectoryInv, ReaperType
<1>1. ASSUME NEW s \in Sessions, Handler(s) PROVE UNCHANGED reapers
  <2>1. ASSUME NEW n \in Names,
               RoomCreate(s, n) \/ RoomJoin(s, n) \/ BattleJoin(s, n)
        PROVE  UNCHANGED reapers
    BY <2>1 DEF RoomCreate, RoomJoin, BattleJoin, Begin
  <2>2. CASE Login(s) \/ OnLogin(s) \/ CreateRoom(s) \/ AddPlayer(s)
    BY <2>2 DEF Login, OnLogin, CreateRoom, AddPlayer
  <2>3. CASE Delist(s) \/ Register(s) \/ SetRoom(s) \/ Confirm(s)
    BY <2>3 DEF Delist, Register, SetRoom, Confirm
  <2>4. CASE BattleInput(s) \/ HandleInput(s) \/ Leave(s)
    BY <2>4 DEF BattleInput, HandleInput, Leave
  <2>5. CASE LeaveClearRoom(s) \/ RemovePlayer(s) \/ Unroute(s)
    BY <2>5 DEF LeaveClearRoom, RemovePlayer, Unroute
  <2>6. QED
    BY <1>1, <2>1, <2>2, <2>3, <2>4, <2>5 DEF Handler
<1>2. ASSUME NEW s \in Sessions, Closer(s) PROVE UNCHANGED reapers
  BY <1>2, CloserFrame
<1>3. ASSUME NEW r \in Rooms, Loop(r)
      PROVE  \/ UNCHANGED reapers
             \/ \E q \in Reapers : /\ reapers' = Append(reapers, q)
                                   /\ q.pc = "check"
  <2>1. CASE Sweep(r)
    <3>1. [room |-> r, pc |-> "check"] \in Reapers
      BY DEF Reapers, Rooms
    <3>2. QED
      BY <2>1, <3>1 DEF Sweep
  <2>2. CASE ~Sweep(r)
    BY <1>3, <2>2 DEF Loop, Lapse, LoopReturns, RegisterOnEmpty
  <2>3. QED
    BY <2>1, <2>2
<1>4. ASSUME NEW i \in 1..Len(reapers), Reaper(i)
      PROVE  \E q \in Reapers :
               /\ reapers' = [reapers EXCEPT ![i] = q]
               /\ q.room = reapers[i].room
               /\ q.pc \in {"unroute", "unlist", "destroy"} =>
                    \/ reapers[i].pc \in {"unroute", "unlist"}
                    \/ ReapCheck(i) /\ StillEmpty(q.room)
  <2>1. PICK label \in {"unroute", "unlist", "destroy", "over"} :
               /\ Advance(i, label)
               /\ label \in {"unroute", "unlist", "destroy"} =>
                    \/ reapers[i].pc \in {"unroute", "unlist"}
                    \/ ReapCheck(i) /\ StillEmpty(reapers[i].room)
    <3>1. CASE ReapCheck(i)
      BY <3>1 DEF ReapCheck
    <3>2. CASE ReapUnroute(i) \/ ReapUnlist(i) \/ ReapDestroy(i)
      BY <3>2 DEF ReapUnroute, ReapUnlist, ReapDestroy
    <3>3. QED
      BY <1>4, <3>1, <3>2 DEF Reaper
  <2>2. reapers[i] \in Reapers
    BY <1>0
  <2>3. PICK q \in Reapers : q = [reapers[i] EXCEPT !.pc = label]
    <3>1. [reapers[i] EXCEPT !.pc = label] \in Reapers
      BY <2>2 DEF Reapers
    <3>2. QED
      BY <3>1
  <2>4. q.room = reapers[i].room /\ q.pc = label
    BY <2>2, <2>3 DEF Reapers
  <2>5. reapers' = [reapers EXCEPT ![i] = q]
    BY <2>1, <2>3 DEF Advance
  <2>6. QED
    BY <2>1, <2>4, <2>5
<1>5. QED
  BY <1>1, <1>2, <1>3, <1>4 DEF Next

(* A room is condemned by a reaper that finds it empty, or by one that     *)
(* finds its namesake empty and then this one is noted.                    *)
LEMMA CondemnedStep ==
  ASSUME HubType, [Next]_vars, NEW r \in Rooms, r <= created, Condemned(r)'
  PROVE  Condemned(r) \/ Seated(r) = {} \/ r \in disturbed'
<1>0. /\ r \in 1..created /\ created \in Nat
      /\ reapers \in Seq(Reapers)
      /\ \A i \in 1..Len(reapers) : reapers[i].room \in 1..created
  BY CreatedGrows DEF Rooms, HubType, DirectoryInv, ReaperType
<1>1. \A q \in 1..created : nameOf'[q] = nameOf[q]
  <2>1. CASE \E s \in Sessions : CreateRoom(s)
    <3>1. \/ UNCHANGED nameOf
          \/ \E n : nameOf' = [nameOf EXCEPT ![created + 1] = n]
      BY <2>1 DEF CreateRoom
    <3>2. /\ nameOf \in [Rooms -> Names \cup {"none"}]
          /\ 1..created \subseteq Rooms
      BY CreatedGrows DEF HubType, DirectoryInv, DirectoryType
    <3>3. QED
      BY <1>0, <3>1, <3>2
  <2>2. CASE \E i \in 1..Len(reapers) : ReapDestroy(i)
    BY <2>2 DEF ReapDestroy
  <2>3. CASE UNCHANGED directory \/ UNCHANGED vars
    BY <2>3 DEF directory, vars, roomVars
  <2>4. QED
    BY <2>1, <2>2, <2>3, DirectoryFrame
<1>2. CASE r \in destroyed'
  <2>1. CASE r \in destroyed
    BY <2>1 DEF Condemned
  <2>2. ASSUME NEW i \in 1..Len(reapers), ReapDestroy(i), r \notin destroyed
        PROVE  Condemned(r)
    <3>1. nameOf[reapers[i].room] \in Names
      BY <1>0 DEF HubType, DirectoryInv, Named
    <3>2. r = manager[nameOf[reapers[i].room]] /\ r # 0
      BY <1>0, <1>2, <2>2 DEF ReapDestroy
    <3>3. nameOf[reapers[i].room] = nameOf[r]
      BY <3>1, <3>2 DEF HubType, DirectoryInv, Named
    <3>4. reapers[i].pc = "destroy"
      BY <2>2 DEF ReapDestroy
    <3>5. QED
      BY <3>3, <3>4 DEF Condemned
  <2>3. CASE UNCHANGED destroyed
    BY <1>2, <2>1, <2>3
  <2>4. QED
    BY <2>1, <2>2, <2>3, DirectoryFrame
    DEF CreateRoom, directory, vars, roomVars
<1>3. ASSUME NEW i \in 1..Len(reapers'),
             nameOf'[reapers'[i].room] = nameOf'[r],
             reapers'[i].pc \in {"unroute", "unlist", "destroy"}
      PROVE  Condemned(r) \/ Seated(r) = {} \/ r \in disturbed'
  <2>1. ASSUME i \in 1..Len(reapers), reapers'[i] = reapers[i]
        PROVE  Condemned(r)
    BY <1>0, <1>1, <1>3, <2>1 DEF Condemned
  <2>2. ASSUME NEW q \in Reapers, q.pc = "check",
               reapers' = Append(reapers, q)
        PROVE  Condemned(r)
    <3>1. /\ Len(reapers') = Len(reapers) + 1
          /\ \A j \in 1..Len(reapers) : reapers'[j] = reapers[j]
          /\ reapers'[Len(reapers) + 1] = q
      BY <1>0, <2>2, AppendProperties
    <3>2. i # Len(reapers) + 1
      BY <1>3, <2>2, <3>1
    <3>3. i \in 1..Len(reapers)
      BY <1>0, <3>1, <3>2
    <3>4. QED
      BY <2>1, <3>1, <3>3
  <2>3. ASSUME NEW j \in 1..Len(reapers), NEW q \in Reapers,
               reapers' = [reapers EXCEPT ![j] = q],
               q.room = reapers[j].room,
               q.pc \in {"unroute", "unlist", "destroy"} =>
                 \/ reapers[j].pc \in {"unroute", "unlist"}
                 \/ ReapCheck(j) /\ StillEmpty(q.room)
        PROVE  Condemned(r) \/ Seated(r) = {} \/ r \in disturbed'
    <3>1. i \in 1..Len(reapers) /\ (i # j => reapers'[i] = reapers[i])
      BY <1>0, <2>3
    <3>2. CASE i = j
      <4>1. reapers'[i] = q
        BY <1>0, <2>3, <3>2
      <4>2. q.room \in 1..created /\ nameOf[q.room] = nameOf[r]
        BY <1>0, <1>1, <1>3, <2>3, <4>1
      <4>3. CASE reapers[j].pc \in {"unroute", "unlist"}
        BY <2>3, <4>2, <4>3 DEF Condemned
      <4>4. CASE ReapCheck(j) /\ StillEmpty(q.room)
        <5>1. CASE r = q.room
          BY <4>4, <5>1 DEF StillEmpty
        <5>2. CASE r \in destroyed
          BY <5>2 DEF Condemned
        <5>3. CASE r # q.room /\ r \notin destroyed
          <6>1. manager[nameOf[q.room]] = r
            BY <1>0, <4>2, <5>3 DEF HubType, DirectoryInv, OneRoomPerName
          <6>2. r \in disturbed'
            BY <1>0, <2>3, <4>2, <4>4, <5>3, <6>1 DEF ReapCheck
          <6>3. QED
            BY <6>2
        <5>4. QED
          BY <5>1, <5>2, <5>3
      <4>5. QED
        BY <1>3, <2>3, <4>1, <4>3, <4>4
    <3>3. QED
      BY <2>1, <3>1, <3>2
  <2>4. CASE UNCHANGED reapers
    BY <1>3, <2>1, <2>4
  <2>5. QED
    BY <2>2, <2>3, <2>4, ReapersFrame DEF vars, hubVars
<1>4. QED
  BY <1>2, <1>3 DEF Condemned

(* Only AddPlayer fills a room, and notes the condemned one it fills.      *)
LEMMA VacantStep ==
  ASSUME HubType, Vacant, [Next]_vars
  PROVE  Vacant'
<1>0. /\ created \in Nat /\ created' \in {created, created + 1}
      /\ held \in [Rooms -> SUBSET Users] /\ grace \in [Rooms -> SUBSET Users]
  BY CreatedGrows DEF HubType, RoomsType
<1> SUFFICES ASSUME NEW r \in Rooms
             PROVE  /\ r > created' => Seated(r)' = {}
                    /\ r <= created' /\ Condemned(r)' =>
                         Seated(r)' = {} \/ r \in disturbed'
  BY DEF Vacant
<1>1. r \in Nat
  BY DEF Rooms
<1>2. \/ Seated(r)' \subseteq Seated(r)
      \/ /\ r <= created
         /\ Condemned(r) => r \in disturbed'
         /\ Condemned(r)' => Condemned(r)
  <2>1. ASSUME NEW s \in Sessions, AddPlayer(s)
        PROVE  \/ Seated(r)' \subseteq Seated(r)
               \/ /\ r <= created
                  /\ Condemned(r) => r \in disturbed'
                  /\ Condemned(r)' => Condemned(r)
    <3>1. job[s].room \in 1..created
      BY <2>1 DEF AddPlayer, HubType, SessionsType, Placed
    <3>2. UNCHANGED <<destroyed, nameOf, reapers>>
      BY <2>1 DEF AddPlayer, hubVars
    <3>3. CASE r = job[s].room
      <4>1. Condemned(r)' => Condemned(r)
        BY <3>2 DEF Condemned
      <4>2. \/ UNCHANGED <<held, grace>>
            \/ Condemned(r) => r \in disturbed'
        BY <2>1, <3>3 DEF AddPlayer
      <4>3. QED
        BY <3>1, <3>3, <4>1, <4>2 DEF Seated
    <3>4. CASE r # job[s].room
      <4>1. held'[r] = held[r] /\ grace'[r] = grace[r]
        BY <1>0, <2>1, <3>4 DEF AddPlayer
      <4>2. QED
        BY <4>1 DEF Seated
    <3>5. QED
      BY <3>3, <3>4
  <2>2. ASSUME NEW s \in Sessions, RemovePlayer(s)
        PROVE  Seated(r)' \subseteq Seated(r)
    BY <1>0, <2>2 DEF RemovePlayer, Seated
  <2>3. ASSUME NEW q \in Rooms, NEW u \in Users, Lapse(q, u)
        PROVE  Seated(r)' \subseteq Seated(r)
    BY <1>0, <2>3 DEF Lapse, Seated
  <2>4. ASSUME NEW q \in Rooms, Sweep(q), UNCHANGED held
        PROVE  Seated(r)' \subseteq Seated(r)
    BY <1>0, <2>4 DEF Sweep, Seated
  <2>5. CASE UNCHANGED <<held, grace>>
    BY <2>5 DEF Seated
  <2>6. QED
    BY <2>1, <2>2, <2>3, <2>4, <2>5, SeatsFrame DEF vars, roomVars
<1>3. disturbed \subseteq disturbed'
  BY DisturbedGrows
<1>4. CASE Seated(r)' \subseteq Seated(r)
  <2>1. CASE r > created
    BY <1>4, <2>1 DEF Vacant
  <2>2. CASE r <= created
    BY <1>0, <1>1, <1>3, <1>4, <2>2, CondemnedStep DEF Vacant
  <2>3. QED
    BY <1>0, <1>1, <2>1, <2>2
<1>5. CASE /\ r <= created
           /\ Condemned(r) => r \in disturbed'
           /\ Condemned(r)' => Condemned(r)
  BY <1>0, <1>1, <1>5
<1>6. QED
  BY <1>2, <1>4, <1>5

-----------------------------------------------------------------------------
(* The calls that neither enter nor leave a room.                          *)
Inside == {"register", "enter", "leave", "remove", "unroute"}

Enters(s) == AddPlayer(s) \/ Register(s) \/ SetRoom(s)

Leaves(s) ==
  Leave(s) \/ LeaveClearRoom(s) \/ RemovePlayer(s) \/ Unroute(s)

(* They leave rooms and routes alone.                                      *)
LEMMA ElsewhereFrame ==
  ASSUME HubType, NEW s \in Sessions, Handler(s), ~Enters(s), ~Leaves(s)
  PROVE  /\ UNCHANGED <<stopped, held, grace, lapses, routes, sRoom>>
         /\ pc'[s] \notin Inside
<1> USE DEF HubType, DirectoryInv, HandlerType, roomVars, hubVars, Inside,
            Goto, Finish
<1>1. CASE Login(s) \/ OnLogin(s)
  BY <1>1 DEF Login, OnLogin
<1>2. ASSUME NEW n \in Names,
             RoomCreate(s, n) \/ RoomJoin(s, n) \/ BattleJoin(s, n)
      PROVE  /\ UNCHANGED <<stopped, held, grace, lapses, routes, sRoom>>
             /\ pc'[s] \notin Inside
  BY <1>2 DEF RoomCreate, RoomJoin, BattleJoin, Begin
<1>3. CASE CreateRoom(s) \/ Delist(s) \/ Confirm(s)
  BY <1>3 DEF CreateRoom, Delist, Confirm
<1>4. CASE BattleInput(s) \/ HandleInput(s)
  BY <1>4 DEF BattleInput, HandleInput
<1>5. QED
  BY <1>1, <1>2, <1>3, <1>4 DEF Handler, Enters, Leaves

(* What the steps into and out of a room do to the session that takes them.*)
LEMMA EntersAct ==
  ASSUME HubType, NEW s \in Sessions, Enters(s)
  PROVE  /\ AddPlayer(s) =>
              /\ pc[s] = "add" /\ UNCHANGED sRoom
              /\ pc'[s] \in {"register", "idle", "delist"}
              /\ pc'[s] = "register" =>
                   /\ job'[s].room = job[s].room
                   /\ held' = [held EXCEPT ![job[s].room] = @ \cup {Acct[s]}]
         /\ Register(s) =>
              /\ pc[s] = "register" /\ pc'[s] = "enter"
              /\ job' = job /\ UNCHANGED sRoom
              /\ routes' = [routes EXCEPT ![job[s].room] = @ \cup {s}]
         /\ SetRoom(s) =>
              /\ pc[s] = "enter" /\ pc'[s] = "confirm"
              /\ job' = job /\ sRoom'[s] = job[s].room
<1> USE DEF HubType, DirectoryInv, HandlerType, Goto, Finish, sessionVars,
            history
<1>1. ASSUME AddPlayer(s)
      PROVE  /\ pc[s] = "add" /\ UNCHANGED sRoom
             /\ pc'[s] \in {"register", "idle", "delist"}
             /\ pc'[s] = "register" =>
                  /\ job'[s].room = job[s].room
                  /\ held' = [held EXCEPT ![job[s].room] = @ \cup {Acct[s]}]
  BY <1>1 DEF AddPlayer, Job
<1>2. ASSUME Register(s)
      PROVE  /\ pc[s] = "register" /\ pc'[s] = "enter"
             /\ job' = job /\ UNCHANGED sRoom
             /\ routes' = [routes EXCEPT ![job[s].room] = @ \cup {s}]
  BY <1>2 DEF Register
<1>3. ASSUME SetRoom(s)
      PROVE  /\ pc[s] = "enter" /\ pc'[s] = "confirm"
             /\ job' = job /\ sRoom'[s] = job[s].room
  BY <1>3 DEF SetRoom
<1>4. QED
  BY <1>1, <1>2, <1>3

(* And those out of it.                                                    *)
LEMMA LeavesAct ==
  ASSUME HubType, NEW s \in Sessions, Leaves(s)
  PROVE  /\ Leave(s) =>
              /\ pc[s] = "idle" /\ pc'[s] = "leave"
              /\ job'[s].room = sRoom[s] /\ UNCHANGED sRoom
         /\ LeaveClearRoom(s) =>
              /\ pc[s] = "leave" /\ pc'[s] = "remove"
              /\ job' = job /\ sRoom'[s] = 0
         /\ RemovePlayer(s) =>
              /\ pc[s] = "remove" /\ pc'[s] = "unroute"
              /\ job' = job /\ UNCHANGED sRoom
              /\ held' = [held EXCEPT ![job[s].room] = @ \ {Acct[s]}]
         /\ Unroute(s) =>
              /\ pc[s] = "unroute" /\ pc'[s] = "idle" /\ UNCHANGED sRoom
              /\ routes' = [routes EXCEPT ![job[s].room] = @ \ {s}]
<1> USE DEF HubType, DirectoryInv, HandlerType, Goto, Finish, sessionVars,
            history
<1>1. ASSUME Leave(s)
      PROVE  /\ pc[s] = "idle" /\ pc'[s] = "leave"
             /\ job'[s].room = sRoom[s] /\ UNCHANGED sRoom
  BY <1>1 DEF Leave, Authed, Listening, Job
<1>2. ASSUME LeaveClearRoom(s)
      PROVE  /\ pc[s] = "leave" /\ pc'[s] = "remove"
             /\ job' = job /\ sRoom'[s] = 0
  BY <1>2 DEF LeaveClearRoom
<1>3. ASSUME RemovePlayer(s)
      PROVE  /\ pc[s] = "remove" /\ pc'[s] = "unroute"
             /\ job' = job /\ UNCHANGED sRoom
             /\ held' = [held EXCEPT ![job[s].room] = @ \ {Acct[s]}]
  BY <1>3 DEF RemovePlayer
<1>4. ASSUME Unroute(s)
      PROVE  /\ pc[s] = "unroute" /\ pc'[s] = "idle" /\ UNCHANGED sRoom
             /\ routes' = [routes EXCEPT ![job[s].room] = @ \ {s}]
  BY <1>4 DEF Unroute
<1>5. QED
  BY <1>1, <1>2, <1>3, <1>4

-----------------------------------------------------------------------------
(* A session whose connection is open and that shares its account with no  *)
(* other: its room holds its seat, and routes to it, from the moment Join  *)
(* has got that far until Leave clears the room.                           *)
Kept(s, r) == r \in disturbed \/ Acct[s] \in held[r]

KeptRoute(s, r) == r \in disturbed \/ s \in routes[r]

Quiet ==
  \A s \in Sessions \ overlapped : closer[s] = "none" =>
    /\ sRoom[s] # 0 => Kept(s, sRoom[s]) /\ KeptRoute(s, sRoom[s])
    /\ pc[s] \in {"register", "enter"} => Kept(s, job[s].room)
    /\ pc[s] = "enter" => KeptRoute(s, job[s].room)
    /\ pc[s] \in {"remove", "unroute"} => sRoom[s] = 0

(* Nobody else takes the seat: a rival's RemovePlayer would be that of a   *)
(* session that is over, an offline message that of a closed one, and a    *)
(* sweep only drops seats in grace.                                        *)
LEMMA SeatKept ==
  ASSUME HubType, Identified, Apart, NoLapse, [Next]_vars,
         NEW s \in loggedIn, s \notin overlapped, closer[s] = "none",
         ~RemovePlayer(s), NEW r \in 1..created, Kept(s, r)
  PROVE  Kept(s, r)'
<1>0. /\ held \in [Rooms -> SUBSET Users] /\ grace \in [Rooms -> SUBSET Users]
      /\ Acct \in [Sessions -> Users]
      /\ s \in Sessions /\ r \in Rooms
  BY CreatedGrows, HubAssumption
  DEF HubType, RoomsType, TablesType, HubAssumption
<1>1. disturbed \subseteq disturbed'
  BY DisturbedGrows
<1>2. CASE r \in disturbed
  BY <1>1, <1>2 DEF Kept
<1>3. CASE Acct[s] \in held[r]
  <2>1. ASSUME NEW t \in Sessions, AddPlayer(t) PROVE Acct[s] \in held'[r]
    <3>1. \/ UNCHANGED held
          \/ held' = [held EXCEPT ![job[t].room] = @ \cup {Acct[t]}]
      BY <2>1 DEF AddPlayer
    <3>2. QED
      BY <1>0, <1>3, <3>1
  <2>2. ASSUME NEW t \in Sessions, RemovePlayer(t) PROVE Acct[s] \in held'[r]
    <3>1. t # s /\ t \in loggedIn /\ ~Ended(t)
      BY <2>2 DEF RemovePlayer, Identified, Ended
    <3>2. Acct[t] # Acct[s]
      BY <1>0, <3>1 DEF Apart, Rivals, Ended
    <3>3. held' = [held EXCEPT ![job[t].room] = @ \ {Acct[t]}]
      BY <2>2 DEF RemovePlayer
    <3>4. QED
      BY <1>0, <1>3, <3>2, <3>3
  <2>3. ASSUME NEW q \in Rooms, NEW u \in Users, Lapse(q, u)
        PROVE  Acct[s] \in held'[r]
    <3>1. lapses[r][Acct[s]] = 0
      BY <1>0 DEF NoLapse
    <3>2. ~(q = r /\ u = Acct[s])
      BY <2>3, <3>1 DEF Lapse
    <3>3. \/ UNCHANGED held
          \/ held' = [held EXCEPT ![q] = @ \ {u}]
      BY <2>3 DEF Lapse
    <3>4. QED
      BY <1>0, <1>3, <3>2, <3>3
  <2>4. QED
    BY <1>3, <2>1, <2>2, <2>3, SeatsFrame DEF Kept, vars, roomVars
<1>4. QED
  BY <1>2, <1>3 DEF Kept

(* Nobody else takes the route: a reaper does it to an empty room only.    *)
LEMMA RouteKept ==
  ASSUME HubType, Vacant, [Next]_vars,
         NEW s \in Sessions, closer[s] = "none", ~Unroute(s),
         NEW r \in 1..created, Kept(s, r), KeptRoute(s, r)
  PROVE  KeptRoute(s, r)'
<1>0. routes \in [Rooms -> SUBSET Sessions] /\ r \in Rooms
  BY CreatedGrows DEF HubType, TablesType
<1>1. disturbed \subseteq disturbed'
  BY DisturbedGrows
<1>2. CASE r \in disturbed
  BY <1>1, <1>2 DEF KeptRoute
<1>3. CASE Acct[s] \in held[r] /\ s \in routes[r] /\ r \notin disturbed
  <2>1. ASSUME NEW t \in Sessions,
               Register(t) \/ Unroute(t) \/ CloseUnroute(t)
        PROVE  s \in routes'[r]
    <3>1. CASE Register(t)
      BY <1>0, <1>3, <3>1 DEF Register
    <3>2. CASE Unroute(t) \/ CloseUnroute(t)
      <4>1. t # s
        BY <3>2 DEF CloseUnroute
      <4>2. \E q : routes' = [routes EXCEPT ![q] = @ \ {t}]
        BY <3>2 DEF Unroute, CloseUnroute
      <4>3. QED
        BY <1>0, <1>3, <4>1, <4>2
    <3>3. QED
      BY <2>1, <3>1, <3>2
  <2>2. ASSUME NEW i \in 1..Len(reapers), ReapUnroute(i)
        PROVE  s \in routes'[r]
    <3>1. reapers[i].room # r
      <4>1. SUFFICES ASSUME reapers[i].room = r PROVE FALSE
        OBVIOUS
      <4>2. Condemned(r)
        BY <2>2, <4>1 DEF Condemned, ReapUnroute
      <4>3. Seated(r) = {}
        <5>1. created \in Nat
          BY CreatedGrows
        <5>2. QED
          BY <1>0, <1>3, <4>2, <5>1 DEF Vacant
      <4>4. QED
        BY <1>3, <4>3 DEF Seated
    <3>2. routes' = [routes EXCEPT ![reapers[i].room] = {}]
      BY <2>2 DEF ReapUnroute
    <3>3. QED
      BY <1>0, <1>3, <3>1, <3>2
  <2>3. QED
    BY <1>3, <2>1, <2>2, RoutesFrame DEF KeptRoute, vars, hubVars
<1>4. QED
  BY <1>2, <1>3 DEF Kept, KeptRoute

(* Each call of Join hands the claim on, and Leave gives the room up       *)
(* first.                                                                  *)
LEMMA QuietStep ==
  ASSUME HubType, Identified, Apart, NoLapse, Vacant, Quiet, [Next]_vars
  PROVE  Quiet'
<1> SUFFICES ASSUME NEW s \in Sessions, s \notin overlapped',
                    closer'[s] = "none", NEW r
             PROVE  /\ r = sRoom'[s] /\ r # 0 =>
                         Kept(s, r)' /\ KeptRoute(s, r)'
                    /\ pc'[s] \in {"register", "enter"} /\ r = job'[s].room =>
                         Kept(s, r)'
                    /\ pc'[s] = "enter" /\ r = job'[s].room =>
                         KeptRoute(s, r)'
                    /\ pc'[s] \in {"remove", "unroute"} => sRoom'[s] = 0
  BY DEF Quiet, Kept, KeptRoute
<1>0. /\ held \in [Rooms -> SUBSET Users]
      /\ routes \in [Rooms -> SUBSET Sessions]
      /\ Acct \in [Sessions -> Users]
      /\ s \notin overlapped
      /\ 1..created \subseteq Rooms
  BY CreatedGrows, LoggedInGrows, HubAssumption
  DEF HubType, RoomsType, TablesType, HubAssumption
<1>1. /\ sRoom[s] # 0 => sRoom[s] \in 1..created
      /\ pc[s] \in Placed => job[s].room \in 1..created
  BY DEF HubType, SessionsType
<1>2. closer[s] = "none" /\ ~Closer(s)
  <2>1. ~Closer(s)
    BY DEF Closer, Close, CloseClearRoom, SetOffline, CloseUnroute,
           Logout, HangUp,
           HubType, SessionsType
  <2>2. ASSUME NEW t \in Sessions, Closer(t) PROVE closer[s] = "none"
    BY <2>1, <2>2, CloserFrame
  <2>3. QED
    BY <2>1, <2>2, HandlerFrame, OthersFrame DEF Next, vars, sessionVars
<1>3. /\ sRoom[s] # 0 => Kept(s, sRoom[s]) /\ KeptRoute(s, sRoom[s])
      /\ pc[s] \in {"register", "enter"} => Kept(s, job[s].room)
      /\ pc[s] = "enter" => KeptRoute(s, job[s].room)
      /\ pc[s] \in {"remove", "unroute"} => sRoom[s] = 0
  BY <1>0, <1>2 DEF Quiet
<1>4. pc[s] # "idle" \/ sRoom[s] # 0 => s \in loggedIn
  BY DEF Identified
<1>5. CASE Handler(s)
  <2>1. CASE AddPlayer(s)
    <3>1. /\ pc[s] = "add" /\ UNCHANGED sRoom
          /\ pc'[s] \in {"register", "idle", "delist"}
          /\ pc'[s] = "register" =>
               /\ job'[s].room = job[s].room
               /\ held' = [held EXCEPT ![job[s].room] = @ \cup {Acct[s]}]
      BY <2>1, EntersAct DEF Enters
    <3>2. ~RemovePlayer(s) /\ ~Unroute(s)
      BY <3>1 DEF RemovePlayer, Unroute
    <3>3. pc'[s] = "register" /\ r = job'[s].room => Kept(s, r)'
      BY <1>0, <1>1, <3>1 DEF Kept, Placed
    <3>4. r = sRoom[s] /\ r # 0 => Kept(s, r)' /\ KeptRoute(s, r)'
      BY <1>0, <1>1, <1>2, <1>3, <1>4, <3>2, SeatKept, RouteKept
    <3>5. QED
      BY <3>1, <3>3, <3>4
  <2>2. CASE Register(s)
    <3>1. /\ pc[s] = "register" /\ pc'[s] = "enter"
          /\ job' = job /\ UNCHANGED sRoom
          /\ routes' = [routes EXCEPT ![job[s].room] = @ \cup {s}]
      BY <2>2, EntersAct DEF Enters
    <3>2. ~RemovePlayer(s) /\ ~Unroute(s)
      BY <3>1 DEF RemovePlayer, Unroute
    <3>3. r = job[s].room => KeptRoute(s, r)'
      BY <1>0, <1>1, <3>1 DEF KeptRoute, Placed
    <3>4. r = job[s].room => Kept(s, r)'
      BY <1>0, <1>1, <1>2, <1>3, <1>4, <3>1, <3>2, SeatKept DEF Placed
    <3>5. r = sRoom[s] /\ r # 0 => Kept(s, r)' /\ KeptRoute(s, r)'
      BY <1>0, <1>1, <1>2, <1>3, <1>4, <3>2, SeatKept, RouteKept
    <3>6. QED
      BY <3>1, <3>3, <3>4, <3>5
  <2>3. CASE SetRoom(s)
    <3>1. /\ pc[s] = "enter" /\ pc'[s] = "confirm"
          /\ job' = job /\ sRoom'[s] = job[s].room
      BY <2>3, EntersAct DEF Enters
    <3>2. ~RemovePlayer(s) /\ ~Unroute(s)
      BY <3>1 DEF RemovePlayer, Unroute
    <3>3. r = job[s].room => Kept(s, r)' /\ KeptRoute(s, r)'
      BY <1>0, <1>1, <1>2, <1>3, <1>4, <3>1, <3>2, SeatKept, RouteKept
      DEF Placed
    <3>4. QED
      BY <3>1, <3>3
  <2>4. CASE LeaveClearRoom(s)
    BY <2>4, LeavesAct DEF Leaves
  <2>5. CASE RemovePlayer(s)
    BY <1>3, <2>5, LeavesAct DEF Leaves
  <2>6. CASE Unroute(s)
    BY <1>3, <2>6, LeavesAct DEF Leaves
  <2>7. CASE Leave(s)
    <3>1. /\ pc[s] = "idle" /\ pc'[s] = "leave" /\ UNCHANGED sRoom
      BY <2>7, LeavesAct DEF Leaves
    <3>2. ~RemovePlayer(s) /\ ~Unroute(s)
      BY <3>1 DEF RemovePlayer, Unroute
    <3>3. r = sRoom[s] /\ r # 0 => Kept(s, r)' /\ KeptRoute(s, r)'
      BY <1>0, <1>1, <1>2, <1>3, <1>4, <3>2, SeatKept, RouteKept
    <3>4. QED
      BY <3>1, <3>3
  <2>8. CASE ~Enters(s) /\ ~Leaves(s)
    <3>1. UNCHANGED sRoom /\ pc'[s] \notin Inside
      BY <1>5, <2>8, ElsewhereFrame
    <3>2. r = sRoom[s] /\ r # 0 => Kept(s, r)' /\ KeptRoute(s, r)'
      BY <1>0, <1>1, <1>2, <1>3, <1>4, <2>8, SeatKept, RouteKept DEF Leaves
    <3>3. QED
      BY <3>1, <3>2 DEF Inside
  <2>9. QED
    BY <2>1, <2>2, <2>3, <2>4, <2>5, <2>6, <2>7, <2>8 DEF Enters, Leaves
<1>6. CASE ~Handler(s)
  <2>1. /\ pc'[s] = pc[s] /\ job'[s] = job[s] /\ sRoom'[s] = sRoom[s]
    BY <1>2, <1>6, HandlerFrame, CloserFrame, OthersFrame
    DEF Next, vars, sessionVars
  <2>2. ~RemovePlayer(s) /\ ~Unroute(s)
    BY <1>6 DEF Handler
  <2>3. r = sRoom[s] /\ r # 0 => Kept(s, r)' /\ KeptRoute(s, r)'
    BY <1>0, <1>1, <1>2, <1>3, <1>4, <2>2, SeatKept, RouteKept
  <2>4. pc[s] \in {"register", "enter"} /\ r = job[s].room => Kept(s, r)'
    BY <1>0, <1>1, <1>2, <1>3, <1>4, <2>2, SeatKept DEF Placed
  <2>5. pc[s] = "enter" /\ r = job[s].room => KeptRoute(s, r)'
    BY <1>0, <1>1, <1>2, <1>3, <2>2, RouteKept DEF Placed
  <2>6. QED
    BY <1>3, <2>1, <2>3, <2>4, <2>5
<1>7. QED
  BY <1>5, <1>6

-----------------------------------------------------------------------------
(* Leave and Close, each between its own calls, against the other.  A      *)
(* session that does not enter a room while it is closing has none once    *)
(* either of them has cleared it.                                          *)
Leaving ==
  \A s \in Sessions \ raced :
    /\ pc[s] = "leave" => sRoom[s] \in {0, job[s].room}
    /\ closer[s] = "clear" => sRoom[s] \in {0, closing[s]}
    /\ closer[s] \in {"offline", "unroute", "logout", "hangup", "done"}
         => sRoom[s] = 0

(* The room that Leave and Close have read is the session's or none.       *)
LEMMA LeavingStep ==
  ASSUME HubType, Leaving, [Next]_vars
  PROVE  Leaving'
<1> SUFFICES ASSUME NEW s \in Sessions, s \notin raced'
             PROVE  /\ pc'[s] = "leave" => sRoom'[s] \in {0, job'[s].room}
                    /\ closer'[s] = "clear" => sRoom'[s] \in {0, closing'[s]}
                    /\ closer'[s] \in {"offline", "unroute", "logout",
                                      "hangup", "done"}
                         => sRoom'[s] = 0
  BY DEF Leaving
<1>1. /\ pc[s] = "leave" => sRoom[s] \in {0, job[s].room}
      /\ closer[s] = "clear" => sRoom[s] \in {0, closing[s]}
      /\ closer[s] \in {"offline", "unroute", "logout", "hangup", "done"}
           => sRoom[s] = 0
  BY LoggedInGrows DEF Leaving
<1>2. /\ closer \in [Sessions -> Closers] /\ sRoom \in [Sessions -> 0..created]
      /\ closing \in [Sessions -> 0..created]
  BY DEF HubType, SessionsType
<1>3. CASE Handler(s)
  <2>1. UNCHANGED <<closer, closing>>
    BY <1>3, HandlerFrame
  <2>2. CASE AddPlayer(s)
    BY <1>1, <2>1, <2>2, EntersAct DEF Enters
  <2>3. CASE Register(s)
    BY <1>1, <2>1, <2>3, EntersAct DEF Enters
  <2>4. CASE SetRoom(s)
    <3>1. closer[s] = "none"
      BY <2>4 DEF SetRoom
    <3>2. QED
      BY <2>1, <2>4, <3>1, EntersAct DEF Enters
  <2>5. CASE Leave(s)
    BY <1>1, <2>1, <2>5, LeavesAct DEF Leaves
  <2>6. CASE LeaveClearRoom(s)
    BY <1>1, <2>1, <2>6, LeavesAct DEF Leaves
  <2>7. CASE RemovePlayer(s)
    BY <1>1, <2>1, <2>7, LeavesAct DEF Leaves
  <2>8. CASE Unroute(s)
    BY <1>1, <2>1, <2>8, LeavesAct DEF Leaves
  <2>9. CASE ~Enters(s) /\ ~Leaves(s)
    BY <1>1, <1>3, <2>1, <2>9, ElsewhereFrame DEF Inside
  <2>10. QED
    BY <2>2, <2>3, <2>4, <2>5, <2>6, <2>7, <2>8, <2>9 DEF Enters, Leaves
<1>4. CASE Closer(s)
  <2>1. UNCHANGED <<pc, job>> /\ sRoom'[s] \in {0, sRoom[s]}
    BY <1>4, CloserFrame
  <2>2. CASE Close(s)
    BY <1>1, <1>2, <2>1, <2>2 DEF Close
  <2>3. CASE CloseClearRoom(s)
    BY <1>1, <1>2, <2>1, <2>3 DEF CloseClearRoom
  <2>4. CASE SetOffline(s)
    BY <1>1, <1>2, <2>1, <2>4 DEF SetOffline
  <2>5. CASE CloseUnroute(s)
    BY <1>1, <1>2, <2>1, <2>5 DEF CloseUnroute
  <2>6. CASE Logout(s) \/ HangUp(s)
    BY <1>1, <1>2, <2>1, <2>6 DEF Logout, HangUp
  <2>7. QED
    BY <1>4, <2>2, <2>3, <2>4, <2>5, <2>6 DEF Closer
<1>5. CASE ~Handler(s) /\ ~Closer(s)
  <2>1. /\ pc'[s] = pc[s] /\ job'[s] = job[s] /\ sRoom'[s] = sRoom[s]
        /\ closer'[s] = closer[s] /\ closing'[s] = closing[s]
    BY <1>5, HandlerFrame, CloserFrame, OthersFrame
    DEF Next, vars, sessionVars
  <2>2. QED
    BY <1>1, <2>1
<1>6. QED
  BY <1>3, <1>4, <1>5

(* Where a route of a session comes from, unless it has raced or moved.    *)
Expects(s, r) ==
  \/ sRoom[s] = r
  \/ pc[s] \in {"enter", "remove", "unroute"} /\ job[s].room = r
  \/ closer[s] \in {"offline", "unroute"} /\ closing[s] = r

Routed ==
  \A s \in Sessions \ (raced \cup moved), r \in Rooms :
    s \in routes[r] => Expects(s, r)

(* Only its own Join adds a route of a session.                            *)
LEMMA RouteAdded ==
  ASSUME HubType, [Next]_vars, NEW s \in Sessions, NEW r \in Rooms,
         s \in routes'[r]
  PROVE  s \in routes[r] \/ Register(s)
<1>0. routes \in [Rooms -> SUBSET Sessions]
  BY DEF HubType, TablesType
<1>1. ASSUME NEW t \in Sessions, Register(t) \/ Unroute(t) \/ CloseUnroute(t)
      PROVE  s \in routes[r] \/ Register(s)
  <2>1. CASE Register(t)
    <3>1. routes' = [routes EXCEPT ![job[t].room] = @ \cup {t}]
      BY <2>1 DEF Register
    <3>2. s \in routes[r] \/ s = t
      BY <1>0, <3>1
    <3>3. QED
      BY <2>1, <3>2
  <2>2. CASE CloseUnroute(t) \/ Unroute(t)
    <3>1. \E q : routes' = [routes EXCEPT ![q] = @ \ {t}]
      BY <2>2 DEF CloseUnroute, Unroute
    <3>2. QED
      BY <1>0, <3>1
  <2>3. QED
    BY <1>1, <2>1, <2>2
<1>2. ASSUME NEW i \in 1..Len(reapers), ReapUnroute(i)
      PROVE  s \in routes[r]
  <2>1. \E q : routes' = [routes EXCEPT ![q] = {}]
    BY <1>2 DEF ReapUnroute
  <2>2. QED
    BY <1>0, <2>1
<1>3. QED
  BY <1>1, <1>2, RoutesFrame DEF vars, hubVars

(* Join, Leave and Close each keep a reason for the route until it is      *)
(* gone.                                                                   *)
LEMMA RoutedStep ==
  ASSUME HubType, Leaving, Routed, [Next]_vars
  PROVE  Routed'
<1> SUFFICES ASSUME NEW s \in Sessions, s \notin raced' \cup moved',
                    NEW r \in Rooms, s \in routes'[r]
             PROVE  Expects(s, r)'
  BY DEF Routed
<1> USE DEF Expects
<1>0. /\ routes \in [Rooms -> SUBSET Sessions]
      /\ closer \in [Sessions -> Closers]
      /\ s \notin raced \cup moved
      /\ r # 0
  BY LoggedInGrows DEF HubType, SessionsType, TablesType, Rooms
<1>1. /\ pc[s] = "leave" => sRoom[s] \in {0, job[s].room}
      /\ closer[s] = "clear" => sRoom[s] \in {0, closing[s]}
  BY <1>0 DEF Leaving
<1>2. s \in routes[r] => Expects(s, r)
  BY <1>0 DEF Routed
<1>3. CASE Handler(s)
  <2>1. UNCHANGED <<closer, closing>>
    BY <1>3, HandlerFrame
  <2>2. s \in routes[r] \/ Register(s)
    BY RouteAdded
  <2>3. CASE AddPlayer(s)
    BY <1>2, <2>1, <2>2, <2>3, EntersAct DEF Enters, AddPlayer, Register
  <2>4. CASE Register(s)
    <3>1. /\ pc[s] = "register" /\ pc'[s] = "enter"
          /\ job' = job /\ UNCHANGED sRoom
          /\ routes' = [routes EXCEPT ![job[s].room] = @ \cup {s}]
      BY <2>4, EntersAct DEF Enters
    <3>2. s \in routes[r] \/ r = job[s].room
      BY <1>0, <3>1
    <3>3. QED
      BY <1>2, <2>1, <3>1, <3>2
  <2>5. CASE SetRoom(s)
    <3>1. /\ pc[s] = "enter" /\ pc'[s] = "confirm"
          /\ job' = job /\ sRoom'[s] = job[s].room
      BY <2>5, EntersAct DEF Enters
    <3>2. sRoom[s] \in {0, job[s].room}
      BY <1>0, <2>5 DEF SetRoom
    <3>3. s \in routes[r]
      BY <2>2, <3>1 DEF Register
    <3>4. QED
      BY <1>0, <1>2, <2>1, <3>1, <3>2, <3>3
  <2>6. CASE Leave(s)
    <3>1. pc[s] = "idle" /\ UNCHANGED sRoom
      BY <2>6, LeavesAct DEF Leaves
    <3>2. QED
      BY <1>2, <2>1, <2>2, <3>1 DEF Register
  <2>7. CASE LeaveClearRoom(s)
    <3>1. /\ pc[s] = "leave" /\ pc'[s] = "remove"
          /\ job' = job /\ sRoom'[s] = 0
      BY <2>7, LeavesAct DEF Leaves
    <3>2. QED
      BY <1>0, <1>1, <1>2, <2>1, <2>2, <3>1 DEF Register
  <2>8. CASE RemovePlayer(s)
    <3>1. /\ pc[s] = "remove" /\ pc'[s] = "unroute"
          /\ job' = job /\ UNCHANGED sRoom
      BY <2>8, LeavesAct DEF Leaves
    <3>2. QED
      BY <1>2, <2>1, <2>2, <3>1 DEF Register
  <2>9. CASE Unroute(s)
    <3>1. /\ pc[s] = "unroute" /\ UNCHANGED sRoom
          /\ routes' = [routes EXCEPT ![job[s].room] = @ \ {s}]
      BY <2>9, LeavesAct DEF Leaves
    <3>2. r # job[s].room
      BY <1>0, <3>1
    <3>3. QED
      BY <1>2, <2>1, <2>2, <3>1, <3>2 DEF Register
  <2>10. CASE ~Enters(s) /\ ~Leaves(s)
    <3>1. UNCHANGED <<routes, sRoom>>
      BY <1>3, <2>10, ElsewhereFrame
    <3>2. pc[s] \notin {"enter", "remove", "unroute"}
      BY <1>3, <2>10
      DEF Handler, Enters, Leaves, Login, OnLogin, RoomCreate, RoomJoin,
          BattleJoin, CreateRoom, Delist, Confirm, BattleInput, HandleInput,
          Authed, Listening
    <3>3. QED
      BY <1>2, <2>1, <3>1, <3>2
  <2>11. QED
    BY <2>3, <2>4, <2>5, <2>6, <2>7, <2>8, <2>9, <2>10 DEF Enters, Leaves
<1>4. CASE Closer(s)
  <2>1. UNCHANGED <<pc, job>> /\ sRoom'[s] \in {0, sRoom[s]}
    BY <1>4, CloserFrame
  <2>2. CASE Close(s)
    BY <1>0, <1>2, <2>1, <2>2 DEF Close, hubVars
  <2>3. CASE CloseClearRoom(s)
    BY <1>0, <1>1, <1>2, <2>1, <2>3 DEF CloseClearRoom, hubVars
  <2>4. CASE SetOffline(s)
    BY <1>0, <1>2, <2>1, <2>4 DEF SetOffline, hubVars
  <2>5. CASE CloseUnroute(s)
    BY <1>0, <1>2, <2>1, <2>5 DEF CloseUnroute
  <2>6. CASE Logout(s) \/ HangUp(s)
    BY <1>0, <1>2, <2>1, <2>6 DEF Logout, HangUp, hubVars
  <2>7. QED
    BY <1>4, <2>2, <2>3, <2>4, <2>5, <2>6 DEF Closer
<1>5. CASE ~Handler(s) /\ ~Closer(s)
  <2>1. /\ pc'[s] = pc[s] /\ job'[s] = job[s] /\ sRoom'[s] = sRoom[s]
        /\ closer'[s] = closer[s] /\ closing'[s] = closing[s]
    BY <1>5, HandlerFrame, CloserFrame, OthersFrame
    DEF Next, vars, sessionVars
  <2>2. s \in routes[r]
    BY <1>5, RouteAdded DEF Handler
  <2>3. QED
    BY <1>2, <2>1, <2>2
<1>6. QED
  BY <1>3, <1>4, <1>5

(* Why a seat is held, as long as no other session uses the account.       *)
Alone(s) == \A t \in loggedIn \ {s} : Acct[t] # Acct[s]

Claims(s, r) ==
  \/ sRoom[s] = r
  \/ pc[s] \in {"register", "enter", "remove"} /\ job[s].room = r
  \/ closer[s] = "offline" /\ closing[s] = r
  \/ lapses[r][Acct[s]] > 0

Accounted ==
  \A s \in Sessions \ (raced \cup moved), r \in Rooms \ stopped :
    Alone(s) /\ Acct[s] \in held[r] => Claims(s, r)

(* Only a session of the account takes a seat for it.                      *)
LEMMA SeatAdded ==
  ASSUME HubType, [Next]_vars, NEW u \in Users, NEW r \in Rooms,
         u \in held'[r]
  PROVE  \/ u \in held[r] /\ ~Lapse(r, u)
         \/ \E s \in Sessions : AddPlayer(s) /\ Acct[s] = u
<1>0. held \in [Rooms -> SUBSET Users]
  BY DEF HubType, RoomsType
<1>1. ASSUME NEW s \in Sessions, AddPlayer(s)
      PROVE  u \in held[r] \/ Acct[s] = u
  <2>1. \/ UNCHANGED held
        \/ held' = [held EXCEPT ![job[s].room] = @ \cup {Acct[s]}]
    BY <1>1 DEF AddPlayer
  <2>2. QED
    BY <1>0, <2>1
<1>2. ASSUME NEW s \in Sessions, RemovePlayer(s) PROVE u \in held[r]
  BY <1>0, <1>2 DEF RemovePlayer
<1>3. ASSUME NEW q \in Rooms, NEW v \in Users, Lapse(q, v)
      PROVE  u \in held[r]
  BY <1>0, <1>3 DEF Lapse
<1>4. ASSUME Lapse(r, u), u \in held[r] PROVE FALSE
  BY <1>0, <1>4 DEF Lapse, Seated
<1>5. QED
  BY <1>1, <1>2, <1>3, <1>4, SeatsFrame DEF vars, roomVars

(* A message that is pending stays so until the loop takes it.             *)
LEMMA LapseStays ==
  ASSUME HubType, [Next]_vars, NEW u \in Users, NEW r \in Rooms \ stopped',
         ~Lapse(r, u), lapses[r][u] > 0
  PROVE  lapses'[r][u] > 0
<1>0. lapses \in [Rooms -> [Users -> Nat]]
  BY DEF HubType, RoomsType
<1> USE DEF roomVars
<1>1. ASSUME NEW s \in Sessions, Handler(s) PROVE UNCHANGED lapses
  <2>1. CASE Enters(s) \/ Leaves(s)
    BY <2>1 DEF Enters, Leaves, AddPlayer, Register, SetRoom, Leave,
                LeaveClearRoom, RemovePlayer, Unroute
  <2>2. QED
    BY <1>1, <2>1, ElsewhereFrame
<1>2. ASSUME NEW s \in Sessions, Closer(s)
      PROVE  \/ UNCHANGED lapses
             \/ lapses' = [lapses EXCEPT ![closing[s]][Acct[s]] = @ + 1]
  BY <1>2 DEF Closer, Close, CloseClearRoom, SetOffline, CloseUnroute,
              Logout, HangUp
<1>3. ASSUME NEW q, NEW v \in Users,
             lapses' = [lapses EXCEPT ![q][v] = @ + 1]
      PROVE  lapses'[r][u] > 0
  BY <1>0, <1>3
<1>4. Acct \in [Sessions -> Users]
  BY HubAssumption DEF HubAssumption
<1>5. ASSUME NEW q \in Rooms, Loop(q) PROVE lapses'[r][u] = lapses[r][u]
  <2>1. ASSUME NEW v \in Users, Lapse(q, v)
        PROVE  lapses'[r][u] = lapses[r][u]
    <3>1. ~(q = r /\ v = u)
      BY <2>1
    <3>2. lapses' = [lapses EXCEPT ![q][v] = @ - 1]
      BY <2>1 DEF Lapse
    <3>3. QED
      BY <1>0, <3>1, <3>2
  <2>2. CASE LoopReturns(q)
    BY <1>0, <2>2 DEF LoopReturns
  <2>3. CASE RegisterOnEmpty(q) \/ Sweep(q)
    BY <2>3 DEF RegisterOnEmpty, Sweep
  <2>4. QED
    BY <1>5, <2>1, <2>2, <2>3 DEF Loop
<1>6. ASSUME NEW i \in 1..Len(reapers), Reaper(i) PROVE UNCHANGED lapses
  BY <1>6 DEF Reaper, ReapCheck, ReapUnroute, ReapUnlist, ReapDestroy
<1>7. QED
  BY <1>1, <1>2, <1>3, <1>4, <1>5, <1>6 DEF Next, vars

(* They keep a reason for the seat, and a closed session's message lasts   *)
(* until the loop has marked the player offline.                           *)
LEMMA AccountedStep ==
  ASSUME HubType, Identified, Leaving, Accounted, [Next]_vars
  PROVE  Accounted'
<1> SUFFICES ASSUME NEW s \in Sessions, s \notin raced' \cup moved',
                    NEW r \in Rooms, r \notin stopped',
                    Alone(s)', Acct[s] \in held'[r]
             PROVE  Claims(s, r)'
  BY DEF Accounted
<1>0. /\ closer \in [Sessions -> Closers]
      /\ s \notin raced \cup moved
      /\ r # 0
      /\ Acct[s] \in Users
      /\ loggedIn \subseteq Sessions
  BY LoggedInGrows, HubAssumption
  DEF HubType, SessionsType, TablesType, Rooms, HubAssumption
<1>1. /\ pc[s] = "leave" => sRoom[s] \in {0, job[s].room}
      /\ closer[s] = "clear" => sRoom[s] \in {0, closing[s]}
  BY <1>0 DEF Leaving
<1>2. Alone(s)
  BY LoggedInGrows DEF Alone
<1>3. r \notin stopped
  <2>1. ASSUME NEW t \in Sessions, Handler(t) PROVE UNCHANGED stopped
    <3>1. CASE Enters(t) \/ Leaves(t)
      BY <3>1 DEF Enters, Leaves, AddPlayer, Register, SetRoom, Leave,
                  LeaveClearRoom, RemovePlayer, Unroute, roomVars
    <3>2. QED
      BY <2>1, <3>1, ElsewhereFrame
  <2>2. ASSUME NEW q \in Rooms, Loop(q) PROVE stopped \subseteq stopped'
    BY <2>2 DEF Loop, Lapse, LoopReturns, RegisterOnEmpty, Sweep
  <2>3. ASSUME NEW i \in 1..Len(reapers), Reaper(i) PROVE UNCHANGED stopped
    BY <2>3 DEF Reaper, ReapCheck, ReapUnroute, ReapUnlist, ReapDestroy,
                roomVars
  <2>4. QED
    BY <2>1, <2>2, <2>3, CloserFrame DEF Next, vars, roomVars
<1>4. \/ Acct[s] \in held[r] /\ ~Lapse(r, Acct[s])
      \/ AddPlayer(s)
  <2>1. ASSUME NEW t \in Sessions, AddPlayer(t), Acct[t] = Acct[s]
        PROVE  t = s
    <3>1. t \in loggedIn
      BY <2>1 DEF AddPlayer, Identified
    <3>2. QED
      BY <1>2, <2>1, <3>1 DEF Alone
  <2>2. QED
    BY <1>0, <2>1, SeatAdded
<1>5. Acct[s] \in held[r] => Claims(s, r)
  BY <1>0, <1>2, <1>3 DEF Accounted
<1>6. ~Lapse(r, Acct[s]) /\ lapses[r][Acct[s]] > 0 => lapses'[r][Acct[s]] > 0
  BY <1>0, LapseStays
<1> USE DEF Claims
<1>7. CASE AddPlayer(s)
  <2>1. UNCHANGED <<closer, closing, lapses, sRoom>>
    BY <1>7 DEF AddPlayer
  <2>2. pc[s] = "add"
    BY <1>7 DEF AddPlayer
  <2>3. CASE UNCHANGED held
    BY <1>5, <2>1, <2>2, <2>3
  <2>4. CASE held' # held
    <3>1. Goto(s, "register")
      BY <1>7, <2>4 DEF AddPlayer
    <3>2. pc'[s] = "register"
      BY <3>1 DEF Goto, HubType, DirectoryInv, HandlerType
    <3>3. /\ job'[s].room = job[s].room
          /\ held' = [held EXCEPT ![job[s].room] = @ \cup {Acct[s]}]
      BY <1>7, <3>2, EntersAct DEF Enters
    <3>4. r = job[s].room \/ Acct[s] \in held[r]
      BY <3>3 DEF HubType, RoomsType
    <3>5. QED
      BY <1>5, <2>1, <2>2, <3>2, <3>3, <3>4
  <2>5. QED
    BY <2>3, <2>4
<1>8. CASE /\ ~AddPlayer(s)
           /\ Acct[s] \in held[r] /\ ~Lapse(r, Acct[s])
  <2>1. /\ Claims(s, r)
        /\ lapses[r][Acct[s]] > 0 => lapses'[r][Acct[s]] > 0
    BY <1>5, <1>6, <1>8
  <2>2. CASE Handler(s)
    <3>1. UNCHANGED <<closer, closing>>
      BY <2>2, HandlerFrame
    <3>2. CASE Register(s)
      BY <2>1, <3>1, <3>2, EntersAct DEF Enters
    <3>3. CASE SetRoom(s)
      <4>1. /\ pc[s] = "enter" /\ pc'[s] = "confirm"
            /\ job' = job /\ sRoom'[s] = job[s].room
        BY <3>3, EntersAct DEF Enters
      <4>2. sRoom[s] \in {0, job[s].room}
        BY <1>0, <3>3 DEF SetRoom
      <4>3. QED
        BY <1>0, <2>1, <3>1, <4>1, <4>2
    <3>4. CASE Leave(s)
      BY <2>1, <3>1, <3>4, LeavesAct DEF Leaves
    <3>5. CASE LeaveClearRoom(s)
      <4>1. /\ pc[s] = "leave" /\ pc'[s] = "remove"
            /\ job' = job /\ sRoom'[s] = 0
        BY <3>5, LeavesAct DEF Leaves
      <4>2. QED
        BY <1>0, <1>1, <2>1, <3>1, <4>1
    <3>6. CASE RemovePlayer(s)
      <4>1. /\ pc[s] = "remove" /\ UNCHANGED sRoom
            /\ held' = [held EXCEPT ![job[s].room] = @ \ {Acct[s]}]
        BY <3>6, LeavesAct DEF Leaves
      <4>2. r # job[s].room
        BY <4>1 DEF HubType, RoomsType
      <4>3. QED
        BY <2>1, <3>1, <4>1, <4>2
    <3>7. CASE Unroute(s)
      BY <2>1, <3>1, <3>7, LeavesAct DEF Leaves
    <3>8. CASE ~Enters(s) /\ ~Leaves(s)
      <4>1. UNCHANGED sRoom
        BY <2>2, <3>8, ElsewhereFrame
      <4>2. pc[s] \notin {"register", "enter", "remove"}
        BY <2>2, <3>8
        DEF Handler, Enters, Leaves, Login, OnLogin, RoomCreate, RoomJoin,
            BattleJoin, CreateRoom, Delist, Confirm, BattleInput,
            HandleInput, Authed, Listening
      <4>3. QED
        BY <2>1, <3>1, <4>1, <4>2
    <3>9. QED
      BY <1>8, <3>2, <3>3, <3>4, <3>5, <3>6, <3>7, <3>8 DEF Enters, Leaves
  <2>3. CASE Closer(s)
    <3>1. UNCHANGED <<pc, job>>
      BY <2>3, CloserFrame
    <3>2. CASE Close(s)
      BY <1>0, <2>1, <3>1, <3>2 DEF Close
    <3>3. CASE CloseClearRoom(s)
      BY <1>0, <1>1, <2>1, <3>1, <3>3 DEF CloseClearRoom
    <3>4. CASE SetOffline(s)
      <4>1. UNCHANGED sRoom
        BY <3>4 DEF SetOffline
      <4>2. closing[s] = r => lapses'[r][Acct[s]] > 0
        BY <1>0, <1>3, <3>4 DEF SetOffline, HubType, RoomsType
      <4>3. QED
        BY <2>1, <3>1, <3>4, <4>1, <4>2 DEF SetOffline
    <3>5. CASE CloseUnroute(s) \/ Logout(s) \/ HangUp(s)
      BY <1>0, <2>1, <3>1, <3>5 DEF CloseUnroute, Logout, HangUp
    <3>6. QED
      BY <2>3, <3>2, <3>3, <3>4, <3>5 DEF Closer
  <2>4. CASE ~Handler(s) /\ ~Closer(s)
    <3>1. /\ pc'[s] = pc[s] /\ job'[s] = job[s] /\ sRoom'[s] = sRoom[s]
          /\ closer'[s] = closer[s] /\ closing'[s] = closing[s]
      BY <2>4, HandlerFrame, CloserFrame, OthersFrame
      DEF Next, vars, sessionVars
    <3>2. QED
      BY <2>1, <3>1
  <2>5. QED
    BY <2>2, <2>3, <2>4
<1>9. QED
  BY <1>4, <1>7, <1>8

-----------------------------------------------------------------------------
(* All of it together is inductive.                                        *)
AccountInv == Identified /\ Enlisted /\ Apart /\ Shown /\ LapseInv

PlaceInv == /\ Vacant
            /\ Quiet
            /\ Leaving
            /\ Routed
            /\ Accounted

HubInv == HubType /\ AccountInv /\ PlaceInv

(* It holds at the start.                                                  *)
LEMMA HubInit == Init => HubInv
<1> SUFFICES ASSUME Init PROVE HubInv
  OBVIOUS
<1> USE DEF Init
<1>1. HubType
  <2>1. DirectoryInv
    BY DirectoryInit
  <2>2. RoomsType
    BY DEF RoomsType
  <2>3. TablesType
    BY HubAssumption DEF TablesType, HubAssumption
  <2>4. SessionsType
    BY DEF SessionsType, Closers, Placed, NoJob
  <2>5. QED
    BY <2>1, <2>2, <2>3, <2>4 DEF HubType
<1>2. AccountInv
  <2>1. Identified /\ Enlisted /\ Apart /\ Shown
    BY DEF Identified, Enlisted, Apart, Rivals, Shown, LoggedOut
  <2>2. LapseOrigin /\ NoLapse
    BY DEF LapseOrigin, NoLapse
  <2>3. LapseCount
    <3>1. IsFiniteSet(Released)
      BY FS_Subset, HubAssumption DEF Released, HubAssumption
    <3>2. Cardinality(Released) \in Nat
      BY <3>1, FS_CardinalityType
    <3>3. QED
      BY <3>2 DEF LapseCount
  <2>4. QED
    BY <2>1, <2>2, <2>3 DEF AccountInv, LapseInv
<1>3. PlaceInv
  <2>1. Vacant
    BY DEF Vacant, Seated, Condemned
  <2>2. Quiet /\ Leaving
    BY DEF Quiet, Leaving
  <2>3. Routed /\ Accounted
    BY DEF Routed, Accounted
  <2>4. QED
    BY <2>1, <2>2, <2>3 DEF PlaceInv
<1>4. QED
  BY <1>1, <1>2, <1>3 DEF HubInv

(* Rooms, tables and sessions, what is known of accounts and of places:    *)
(* one inductive invariant, since the parts need each other.               *)
THEOREM HubInvariant == Spec => []HubInv
<1>1. ASSUME HubInv, [Next]_vars PROVE HubInv'
  <2>1. HubType'
    BY <1>1, DirectoryStep, HandlerStep, ReaperStep, RoomsStep, TablesStep,
       SessionsStep DEF HubInv, HubType, DirectoryInv
  <2>2. AccountInv'
    BY <1>1, IdentifiedStep, EnlistedStep, ApartStep, ShownStep,
       LapseOriginStep, NoLapseStep, LapseCountStep
    DEF HubInv, AccountInv, LapseInv
  <2>3. PlaceInv'
    BY <1>1, VacantStep, QuietStep, LeavingStep, RoutedStep, AccountedStep
    DEF HubInv, AccountInv, LapseInv, PlaceInv
  <2>4. QED
    BY <2>1, <2>2, <2>3 DEF HubInv
<1>2. QED
  BY HubInit, <1>1, PTL DEF Spec

(* Every variable stays in its range; in particular no more offline        *)
(* messages of an account are pending in a room than there are sessions    *)
(* whose Close has got that far.                                           *)
THEOREM HubTypeCorrect == Spec => []TypeOK
<1>1. HubInv => TypeOK
  <2> SUFFICES ASSUME HubInv PROVE TypeOK
    OBVIOUS
  <2> USE DEF HubInv, HubType
  <2>1. lapses \in [Rooms -> [Users -> 0..Cardinality(Sessions)]]
    <3>1. Released \subseteq Sessions /\ IsFiniteSet(Sessions)
      BY HubAssumption DEF Released, HubAssumption
    <3>2. /\ IsFiniteSet(Released)
          /\ Cardinality(Released) <= Cardinality(Sessions)
          /\ Cardinality(Released) \in Nat /\ Cardinality(Sessions) \in Nat
      BY <3>1, FS_Subset, FS_CardinalityType
    <3>3. lapses \in [Rooms -> [Users -> Nat]]
      BY DEF RoomsType
    <3>4. \A r \in Rooms, u \in Users : lapses[r][u] <= Cardinality(Released)
      BY DEF AccountInv, LapseInv, LapseCount
    <3>5. \A r \in Rooms, u \in Users :
            lapses[r][u] \in 0..Cardinality(Sessions)
      BY <3>2, <3>3, <3>4
    <3>6. QED
      BY <3>3, <3>5
  <2>2. QED
    BY <2>1 DEF TypeOK, DirectoryInv, DirectoryType, RoomsType, TablesType,
                SessionsType, Placed
<1>2. QED
  BY HubInvariant, <1>1, PTL

(* The online table is right about an account that one session at a time   *)
(* uses.                                                                   *)
THEOREM OnlineTableRight == Spec => []Presence
<1>1. HubInv => Presence
  BY DEF HubInv, AccountInv, HubType, TablesType, Shown, Presence, AtRest,
         LoggedOut
<1>2. QED
  BY HubInvariant, <1>1, PTL

(* A session at rest believes what its room believes: the room runs, holds *)
(* its seat and routes to it, unless a reaper had already decided.         *)
THEOREM QuietSessionsSeated == Spec => []QuietSessionSeated
<1>1. HubInv => QuietSessionSeated
  <2> SUFFICES ASSUME HubInv, NEW s \in Sessions, s \notin overlapped,
                      AtRest(s), sRoom[s] \notin {0} \cup disturbed
               PROVE  /\ sRoom[s] \notin destroyed
                      /\ Acct[s] \in held[sRoom[s]] /\ s \in routes[sRoom[s]]
    BY DEF QuietSessionSeated
  <2>1. Acct[s] \in held[sRoom[s]] /\ s \in routes[sRoom[s]]
    BY DEF HubInv, PlaceInv, Quiet, Kept, KeptRoute, AtRest
  <2>2. sRoom[s] \in Rooms /\ sRoom[s] <= created
    BY HubAssumption DEF HubInv, HubType, SessionsType, DirectoryInv,
                         DirectoryType, Rooms, HubAssumption
  <2>3. ASSUME sRoom[s] \in destroyed PROVE FALSE
    <3>1. Condemned(sRoom[s])
      BY <2>3 DEF Condemned
    <3>2. Seated(sRoom[s]) = {}
      BY <2>2, <3>1 DEF HubInv, PlaceInv, Vacant
    <3>3. QED
      BY <2>1, <3>2 DEF Seated
  <2>4. QED
    BY <2>1, <2>3
<1>2. QED
  BY HubInvariant, <1>1, PTL

(* What Close leaves behind: no room, no route, and no seat without an     *)
(* offline message on its way; wherever the handler stood, unless it was   *)
(* in Join before setRoom or BattleJoin took it from one room to another.  *)
THEOREM ClosedSessionsReleased == Spec => []GoneSessionsReleased
<1>1. HubInv => GoneSessionsReleased
  <2> SUFFICES ASSUME HubInv, NEW s \in Sessions, s \notin raced \cup moved,
                      closer[s] = "done", pc[s] = "idle"
               PROVE  /\ sRoom[s] = 0
                      /\ \A r \in Rooms :
                           /\ s \notin routes[r]
                           /\ r \notin stopped /\ Acct[s] \in held[r] =>
                                \/ lapses[r][Acct[s]] > 0
                                \/ \E t \in loggedIn \ {s} : Acct[t] = Acct[s]
    BY DEF GoneSessionsReleased
  <2>1. sRoom[s] = 0
    BY DEF HubInv, PlaceInv, Leaving
  <2>2. ASSUME NEW r \in Rooms PROVE ~Expects(s, r)
    BY <2>1 DEF Expects, Rooms
  <2>3. ASSUME NEW r \in Rooms, Claims(s, r) PROVE lapses[r][Acct[s]] > 0
    BY <2>1, <2>3 DEF Claims, Rooms
  <2>4. QED
    BY <2>1, <2>2, <2>3 DEF HubInv, PlaceInv, Routed, Accounted, Alone
<1>2. QED
  BY HubInvariant, <1>1, PTL

-----------------------------------------------------------------------------
(* The rooms' seats change as Seats.tla says.                              *)
LEMMA SameCardinality ==
  ASSUME NEW r, NEW S PROVE Seat(r)!Cardinality(S) = Cardinality(S)
BY DEF Cardinality, Seat!Cardinality

(* AddPlayer is Take or Resume, RemovePlayer is Free; the rest of the hub  *)
(* does not touch the seats.                                               *)
LEMMA SeatsStep ==
  ASSUME HubType, [Next]_vars, NEW r \in Rooms
  PROVE  [Seat(r)!Next]_(Seat(r)!vars)
<1>0. /\ held \in [Rooms -> SUBSET Users] /\ grace \in [Rooms -> SUBSET Users]
      /\ owed \in [Rooms -> BOOLEAN]
      /\ Acct \in [Sessions -> Users]
      /\ 1..created \subseteq Rooms
  BY CreatedGrows, HubAssumption DEF HubType, RoomsType, HubAssumption
<1> SUFFICES ASSUME ~UNCHANGED <<held[r], grace[r], owed[r]>>
             PROVE  Seat(r)!Next
  BY DEF Seat!vars
<1>1. ASSUME NEW s \in Sessions, AddPlayer(s) PROVE Seat(r)!Next
  <2>1. r = job[s].room
    BY <1>0, <1>1 DEF AddPlayer
  <2>2. /\ HasSeat(Acct[s], r)
        /\ held'[r] = held[r] \cup {Acct[s]}
        /\ grace'[r] = grace[r] \ {Acct[s]}
        /\ owed'[r] = (owed[r] \/ Acct[s] \notin Seated(r))
    BY <1>0, <1>1, <2>1 DEF AddPlayer
  <2>3. CASE Acct[s] \in Seated(r)
    <3>1. Seat(r)!Resume(Acct[s])
      BY <1>0, <2>2, <2>3 DEF Seat!Resume, Seat!Seated, Seated
    <3>2. QED
      BY <1>0, <3>1 DEF Seat!Next
  <2>4. CASE Acct[s] \notin Seated(r)
    <3>1. /\ Acct[s] \notin held[r] \cup grace[r]
          /\ Cardinality(held[r] \cup grace[r]) < MaxPlayers
      BY <2>2, <2>4 DEF Seated, HasSeat
    <3>2. owed'[r] = TRUE
      BY <2>2, <2>4
    <3>3. grace'[r] = grace[r]
      BY <2>2, <3>1
    <3>4. Seat(r)!Take(Acct[s])
      BY <2>2, <3>1, <3>2, <3>3, SameCardinality DEF Seat!Take, Seat!Seated
    <3>5. QED
      BY <1>0, <3>4 DEF Seat!Next
  <2>5. QED
    BY <2>3, <2>4
<1>2. ASSUME NEW s \in Sessions, RemovePlayer(s) PROVE Seat(r)!Next
  <2>1. r = job[s].room
    BY <1>0, <1>2 DEF RemovePlayer
  <2>2. /\ held'[r] = held[r] \ {Acct[s]}
        /\ grace'[r] = grace[r] \ {Acct[s]}
        /\ owed'[r] = owed[r]
    BY <1>0, <1>2, <2>1 DEF RemovePlayer
  <2>3. Seat(r)!Free(Acct[s])
    BY <1>0, <2>2 DEF Seat!Free, Seat!Seated
  <2>4. QED
    BY <1>0, <2>3 DEF Seat!Next
<1>3. ASSUME NEW q \in Rooms, NEW u \in Users, Lapse(q, u)
      PROVE  Seat(r)!Next
  <2>1. q = r /\ u \in Seated(r)
    BY <1>0, <1>3 DEF Lapse
  <2>2. /\ held'[r] = held[r] \ {u}
        /\ grace'[r] = grace[r] \cup {u}
        /\ owed'[r] = owed[r]
    BY <1>0, <1>3, <2>1 DEF Lapse
  <2>3. Seat(r)!Lapse(u)
    BY <2>1, <2>2 DEF Seat!Lapse, Seat!Seated, Seated
  <2>4. QED
    BY <2>3 DEF Seat!Next
<1>4. ASSUME NEW q \in Rooms, Sweep(q) PROVE Seat(r)!Next
  <2>1. q = r
    BY <1>0, <1>4 DEF Sweep
  <2>2. PICK gone \in SUBSET grace[r] :
          LET empty == held[r] \cup (grace[r] \ gone) = {} /\ owed[r]
          IN  /\ grace' = [grace EXCEPT ![r] = @ \ gone]
              /\ owed' = [owed EXCEPT ![r] = @ /\ ~empty]
              /\ held' = held
    BY <1>4, <2>1 DEF Sweep
  <2>3. held'[r] = held[r] /\ grace'[r] = grace[r] \ gone
    BY <1>0, <2>2
  <2>4. owed'[r] = (owed[r] /\ held'[r] \cup grace'[r] # {})
    BY <1>0, <2>2, <2>3
  <2>5. Seat(r)!Sweep
    BY <2>3, <2>4 DEF Seat!Sweep
  <2>6. QED
    BY <2>5 DEF Seat!Next
<1>5. CASE UNCHANGED <<held, grace, owed>>
  BY <1>5
<1>6. ASSUME Next
      PROVE  \/ UNCHANGED <<held, grace, owed>>
             \/ \E s \in Sessions : AddPlayer(s) \/ RemovePlayer(s)
             \/ \E q \in Rooms, u \in Users : Lapse(q, u)
             \/ \E q \in Rooms : Sweep(q)
  <2>1. ASSUME NEW s \in Sessions, Handler(s), ~AddPlayer(s), ~RemovePlayer(s)
        PROVE  UNCHANGED owed
    <3> USE DEF roomVars
    <3>1. ASSUME NEW n \in Names,
                 RoomCreate(s, n) \/ RoomJoin(s, n) \/ BattleJoin(s, n)
          PROVE  UNCHANGED owed
      BY <3>1 DEF RoomCreate, RoomJoin, BattleJoin, Begin
    <3>2. CASE Login(s) \/ OnLogin(s) \/ CreateRoom(s) \/ Delist(s)
      BY <3>2 DEF Login, OnLogin, CreateRoom, Delist
    <3>3. CASE Register(s) \/ SetRoom(s) \/ Confirm(s) \/ BattleInput(s)
      BY <3>3 DEF Register, SetRoom, Confirm, BattleInput
    <3>4. CASE HandleInput(s) \/ Leave(s) \/ LeaveClearRoom(s) \/ Unroute(s)
      BY <3>4 DEF HandleInput, Leave, LeaveClearRoom, Unroute
    <3>5. QED
      BY <2>1, <3>1, <3>2, <3>3, <3>4 DEF Handler
  <2>2. ASSUME NEW s \in Sessions, Closer(s) PROVE UNCHANGED owed
    BY <2>2 DEF Closer, Close, CloseClearRoom, SetOffline, CloseUnroute,
                Logout, HangUp, roomVars
  <2>3. ASSUME NEW q \in Rooms, Loop(q), ~Sweep(q) PROVE UNCHANGED owed
    BY <2>3 DEF Loop, Lapse, LoopReturns, RegisterOnEmpty
  <2>4. ASSUME NEW i \in 1..Len(reapers), Reaper(i) PROVE UNCHANGED owed
    BY <2>4 DEF Reaper, ReapCheck, ReapUnroute, ReapUnlist, ReapDestroy,
                roomVars
  <2>5. QED
    BY <1>6, <2>1, <2>2, <2>3, <2>4, SeatsFrame DEF Next
<1>7. QED
  BY <1>1, <1>2, <1>3, <1>4, <1>5, <1>6 DEF vars, roomVars

(* Whatever the gateway does around them, each room's seats behave as      *)
(* Seats.tla promises, which is what Room.tla's loop implements.           *)
THEOREM HubSeats == Spec => EachRoomSeats
<1>1. Init => \A r \in Rooms : Seat(r)!Init
  BY DEF Init, Seat!Init
<1>2. ASSUME HubInv, [Next]_vars
      PROVE  \A r \in Rooms : [Seat(r)!Next]_(Seat(r)!vars)
  BY <1>2, SeatsStep DEF HubInv
<1>3. HubInv /\ [Next]_vars
        => [\A r \in Rooms : [Seat(r)!Next]_(Seat(r)!vars)]_vars
  BY <1>2
<1>4. QED
  BY HubInvariant, <1>1, <1>3, PTL DEF Spec, EachRoomSeats
=============================================================================
