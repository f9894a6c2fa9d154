----------------------------- MODULE RoomProofs -----------------------------
(***************************************************************************)
(* Proofs about Room.tla, for every set of accounts, room size, grace      *)
(* period and mailbox capacity, and in the second part about Movement.tla, *)
(* what the same room does with the reports of one player, for every line, *)
(* step and tolerance and any number of reports under way and of lives.    *)
(*                                                                         *)
(* The inductive invariant of the first is RoomInv: the invariants that    *)
(* the runs check, strengthened by Latches (what the two notice latches    *)
(* say of the occupancy counters) and Mailbox (a session that overtook     *)
(* nothing has no offline message waiting).                                *)
(***************************************************************************)
EXTENDS Room, Movement, FiniteSetTheorems, SequenceTheorems, TLAPS

Latches ==
  /\ players # {} => hadPlayers /\ ~emptied
  /\ hadPlayers /\ ~emptied => notices < fills

Mailbox == \A u \in conn \ late : ~Pending(u)

RoomInv == /\ TypeOK
           /\ Capacity
           /\ GraceClock
           /\ NoticePerOccupancy
           /\ Latches
           /\ ConnectedOnline
           /\ Mailbox
           /\ LossNoticed

(* A finite set that loses members does not grow, and one that gains a     *)
(* member grows by at most one.                                            *)
LEMMA RosterSize ==
  ASSUME NEW S \in SUBSET Users
  PROVE  /\ Cardinality(S) \in Nat
         /\ \A T \in SUBSET S : Cardinality(T) <= Cardinality(S)
         /\ \A u \in Users : Cardinality(S \cup {u}) <= Cardinality(S) + 1
<1>1. IsFiniteSet(S)
  BY FS_Subset, RoomAssumption DEF RoomAssumption
<1>2. Cardinality(S) \in Nat
  BY <1>1, FS_CardinalityType
<1>3. \A T \in SUBSET S : Cardinality(T) <= Cardinality(S)
  BY <1>1, FS_Subset
<1>4. \A u \in Users : Cardinality(S \cup {u}) <= Cardinality(S) + 1
  BY <1>1, <1>2, FS_AddElement
<1>5. QED
  BY <1>2, <1>3, <1>4

(* The variables keep their types, whatever the select does; onlineCh      *)
(* stays within its capacity.                                              *)
LEMMA TypeInit == Init => TypeOK
<1> SUFFICES ASSUME Init PROVE TypeOK
  OBVIOUS
<1> USE RoomAssumption DEF RoomAssumption, Init
<1>1. /\ players \subseteq Users
      /\ conn \subseteq Users
      /\ late \subseteq Users
      /\ missed \subseteq Users
  OBVIOUS
<1>2. /\ online \in [Users -> BOOLEAN]
      /\ offlineTicks \in [Users -> Nat]
  OBVIOUS
<1>3. /\ hadPlayers \in BOOLEAN
      /\ emptied \in BOOLEAN
      /\ stopped \in BOOLEAN
      /\ onEmpty \in {"nil", "queued", "set"}
  OBVIOUS
<1>4. onlineCh \in Seq(Users) /\ Len(onlineCh) <= OnlineCap
  OBVIOUS
<1>5. fills \in 0..MaxFills /\ notices \in Nat
  OBVIOUS
<1>6. QED
  BY <1>1, <1>2, <1>3, <1>4, <1>5 DEF TypeOK

(* SetOffline: the message is sent, or it is remembered in missed.         *)
LEMMA OfflineMessage ==
  ASSUME NEW u \in Users, SetOffline(u)
  PROVE  \/ /\ Len(onlineCh) < OnlineCap
            /\ onlineCh' = Append(onlineCh, u) /\ missed' = missed
         \/ onlineCh' = onlineCh /\ missed' = missed \cup {u}
BY DEF SetOffline

LEMMA TypeStep == TypeOK /\ [Next]_vars => TypeOK'
<1> SUFFICES ASSUME TypeOK, [Next]_vars PROVE TypeOK'
  OBVIOUS
<1> USE RoomAssumption DEF RoomAssumption, TypeOK, roster, latches
<1>1. ASSUME NEW u \in Users, AddPlayer(u) PROVE TypeOK'
  <2>1. CASE Rejoin(u)
    BY <1>1, <2>1 DEF AddPlayer, Rejoin
  <2>2. CASE Enter(u)
    <3>1. fills' \in 0..MaxFills
      BY <1>1, <2>2 DEF Enter
    <3>2. /\ players' \subseteq Users
          /\ online' \in [Users -> BOOLEAN]
          /\ offlineTicks' \in [Users -> Nat]
          /\ hadPlayers' \in BOOLEAN
          /\ emptied' \in BOOLEAN
      BY <1>1, <2>2 DEF Enter
    <3>3. /\ conn' \subseteq Users
          /\ late' \subseteq Users /\ missed' \subseteq Users
      BY <1>1 DEF AddPlayer
    <3>4. QED
      BY <1>1, <3>1, <3>2, <3>3 DEF AddPlayer
  <2>3. QED BY <1>1, <2>1, <2>2 DEF AddPlayer
<1>2. ASSUME NEW u \in Users, RemovePlayer(u) PROVE TypeOK'
  BY <1>2 DEF RemovePlayer, Drop
<1>3. ASSUME NEW u \in Users, SetOffline(u) PROVE TypeOK'
  <2>1. /\ onlineCh' \in Seq(Users) /\ Len(onlineCh') <= OnlineCap
        /\ missed' \subseteq Users
    <3>1. CASE /\ Len(onlineCh) < OnlineCap
               /\ onlineCh' = Append(onlineCh, u) /\ missed' = missed
      BY <3>1
    <3>2. CASE onlineCh' = onlineCh /\ missed' = missed \cup {u}
      BY <3>2
    <3> QED BY <1>3, <3>1, <3>2, OfflineMessage
  <2> QED BY <1>3, <2>1 DEF SetOffline
<1>4. CASE ApplyOffline
  BY <1>4 DEF ApplyOffline
<1>5. CASE Tick
  BY <1>5 DEF Tick, Drop, Clock, Offline, Overdue
<1>6. CASE SetOnEmpty
  BY <1>6 DEF SetOnEmpty
<1>7. CASE RegisterOnEmpty
  BY <1>7 DEF RegisterOnEmpty
<1>8. CASE Stop
  BY <1>8 DEF Stop
<1>9. CASE UNCHANGED vars
  BY <1>9 DEF vars
<1>10. QED
  BY <1>1, <1>2, <1>3, <1>4, <1>5, <1>6, <1>7, <1>8, <1>9 DEF Next

-----------------------------------------------------------------------------
(* Seats: only Enter adds a player, and only below MaxPlayers.             *)
LEMMA CapacityStep ==
  TypeOK /\ Capacity /\ [Next]_vars => Capacity'
<1> SUFFICES ASSUME TypeOK, Capacity, [Next]_vars PROVE Capacity'
  OBVIOUS
<1>0. /\ Cardinality(players) \in Nat
      /\ \A T \in SUBSET players : Cardinality(T) <= Cardinality(players)
      /\ \A T \in SUBSET players : Cardinality(T) \in Nat
      /\ \A u \in Users :
           Cardinality(players \cup {u}) <= Cardinality(players) + 1
      /\ \A u \in Users : Cardinality(players \cup {u}) \in Nat
  <2>1. \A S \in SUBSET Users : Cardinality(S) \in Nat
    BY RosterSize
  <2>2. players \in SUBSET Users
    BY DEF TypeOK
  <2>3. QED
    BY <2>1, <2>2, RosterSize
<1>1. CASE \E u \in Users : Enter(u)
  BY <1>0, <1>1, RoomAssumption DEF Enter, Capacity, RoomAssumption
<1>2. CASE players' \subseteq players
  BY <1>0, <1>2, RoomAssumption DEF Capacity, RoomAssumption
<1>3. (\E u \in Users : Enter(u)) \/ players' \subseteq players
  BY DEF Next, AddPlayer, Rejoin, RemovePlayer, SetOffline, ApplyOffline, Tick,
         Drop, SetOnEmpty, RegisterOnEmpty, Stop, vars, roster
<1>4. QED
  BY <1>1, <1>2, <1>3

(* The clock: every action that makes a player online or removes it resets *)
(* its counter, and Tick removes a player before its counter can reach the *)
(* limit.                                                                  *)
LEMMA ClockStep == TypeOK /\ GraceClock /\ [Next]_vars => GraceClock'
<1> SUFFICES ASSUME TypeOK, GraceClock, [Next]_vars PROVE GraceClock'
  OBVIOUS
<1> USE RoomAssumption DEF RoomAssumption, TypeOK, GraceClock, Offline
<1>1. ASSUME NEW u \in Users, AddPlayer(u) PROVE GraceClock'
  <2>1. CASE Rejoin(u)
    BY <1>1, <2>1 DEF Rejoin
  <2>2. CASE Enter(u)
    BY <1>1, <2>2 DEF Enter
  <2>3. QED BY <1>1, <2>1, <2>2 DEF AddPlayer
<1>2. ASSUME NEW u \in Users, RemovePlayer(u) PROVE GraceClock'
  BY <1>2 DEF RemovePlayer, Drop
<1>3. CASE ApplyOffline
  BY <1>3 DEF ApplyOffline
<1>4. CASE Tick
  BY <1>4 DEF Tick, Drop, Clock, Overdue
<1>5. CASE UNCHANGED roster
  BY <1>5 DEF roster
<1>6. QED
  BY <1>1, <1>2, <1>3, <1>4, <1>5
     DEF Next, SetOffline, SetOnEmpty, RegisterOnEmpty, Stop, vars, roster

(* The notices: a notice needs the emptied latch open and closes it, and   *)
(* only a newcomer opens it again, which starts a new occupancy when the   *)
(* room was empty.                                                         *)
LEMMA NoticeStep ==
  TypeOK /\ NoticePerOccupancy /\ Latches /\ [Next]_vars
    => NoticePerOccupancy' /\ Latches'
<1> SUFFICES ASSUME TypeOK, NoticePerOccupancy, Latches, [Next]_vars
             PROVE  NoticePerOccupancy' /\ Latches'
  OBVIOUS
<1> USE RoomAssumption DEF RoomAssumption, TypeOK, NoticePerOccupancy, Latches
<1>1. ASSUME NEW u \in Users, AddPlayer(u)
      PROVE  NoticePerOccupancy' /\ Latches'
  <2>1. CASE Rejoin(u)
    BY <1>1, <2>1 DEF AddPlayer, Rejoin, latches
  <2>2. CASE Enter(u)
    <3>1. notices' = notices /\ players' # {} /\ hadPlayers' /\ ~emptied'
      BY <1>1, <2>2 DEF AddPlayer, Enter
    <3>2. notices < fills'
      <4>1. CASE players = {}
        BY <2>2, <4>1 DEF Enter
      <4>2. CASE players # {}
        BY <2>2, <4>2 DEF Enter
      <4>3. QED BY <4>1, <4>2
    <3>3. fills' \in Nat
      BY <2>2 DEF Enter
    <3>4. notices' <= fills' /\ notices' < fills'
      BY <3>1, <3>2, <3>3
    <3>5. NoticePerOccupancy'
      BY <3>4
    <3>6. Latches'
      BY <3>1, <3>4
    <3>7. QED BY <3>5, <3>6
  <2>3. QED BY <1>1, <2>1, <2>2 DEF AddPlayer
<1>2. ASSUME NEW u \in Users, RemovePlayer(u)
      PROVE  NoticePerOccupancy' /\ Latches'
  BY <1>2 DEF RemovePlayer, Drop, latches
<1>3. CASE Tick
  <2>1. players' \subseteq players
    BY <1>3 DEF Tick, Drop
  <2>2. CASE players' = {} /\ hadPlayers /\ ~emptied
    <3>1. emptied' /\ players' = {} /\ fills' = fills
      BY <1>3, <2>2 DEF Tick
    <3>2. notices' \in {notices, notices + 1}
      BY <1>3 DEF Tick
    <3>3. NoticePerOccupancy'
      BY <2>2, <3>1, <3>2
    <3>4. Latches'
      BY <3>1
    <3>5. QED BY <3>3, <3>4
  <2>3. CASE ~(players' = {} /\ hadPlayers /\ ~emptied)
    BY <1>3, <2>1, <2>3 DEF Tick
  <2>4. QED BY <2>2, <2>3
<1>4. CASE UNCHANGED <<players, latches, fills, notices>>
  BY <1>4 DEF latches
<1>5. QED
  BY <1>1, <1>2, <1>3, <1>4
     DEF Next, SetOffline, ApplyOffline, SetOnEmpty, RegisterOnEmpty, Stop,
         vars, roster, latches

(* The sessions: a join marks the player online, and the only message that *)
(* can undo it later is one that was already waiting, which late records.  *)
LEMMA ConnStep ==
  TypeOK /\ ConnectedOnline /\ Mailbox /\ [Next]_vars
    => ConnectedOnline' /\ Mailbox'
<1> SUFFICES ASSUME TypeOK, ConnectedOnline, Mailbox, [Next]_vars
             PROVE  ConnectedOnline' /\ Mailbox'
  OBVIOUS
<1> USE DEF TypeOK, ConnectedOnline, Mailbox, Pending
<1>1. ASSUME NEW u \in Users, AddPlayer(u)
      PROVE  ConnectedOnline' /\ Mailbox'
  <2>1. online' = [online EXCEPT ![u] = TRUE] /\ u \in players'
        /\ players \subseteq players'
    BY <1>1 DEF AddPlayer, Rejoin, Enter
  <2>2. onlineCh' = onlineCh /\ conn' = conn \cup {u}
    BY <1>1 DEF AddPlayer
  <2>3. CASE Pending(u)
    <3>1. late' = late \cup {u}
      BY <1>1, <2>3 DEF AddPlayer
    <3>2. QED BY <2>1, <2>2, <3>1
  <2>4. CASE ~Pending(u)
    <3>1. late' = late \ {u}
      BY <1>1, <2>4 DEF AddPlayer
    <3>2. QED BY <2>1, <2>2, <2>4, <3>1
  <2>5. QED BY <2>3, <2>4
<1>2. ASSUME NEW u \in Users, RemovePlayer(u)
      PROVE  ConnectedOnline' /\ Mailbox'
  BY <1>2 DEF RemovePlayer, Drop
<1>3. ASSUME NEW u \in Users, SetOffline(u)
      PROVE  ConnectedOnline' /\ Mailbox'
  <2>1. \A v \in Users : Pending(v)' => Pending(v) \/ v = u
    <3>1. CASE onlineCh' = Append(onlineCh, u)
      BY <3>1
    <3>2. CASE onlineCh' = onlineCh
      BY <3>2
    <3> QED BY <1>3, <3>1, <3>2, OfflineMessage
  <2>2. QED BY <1>3, <2>1 DEF SetOffline, roster
<1>4. CASE ApplyOffline
  <2>1. \A v \in Users : Pending(v)' => Pending(v)
    BY <1>4 DEF ApplyOffline
  <2>2. Pending(Head(onlineCh)) /\ Head(onlineCh) \in Users
    BY <1>4 DEF ApplyOffline
  <2>3. QED BY <1>4, <2>1, <2>2 DEF ApplyOffline
<1>5. CASE Tick
  BY <1>5 DEF Tick, Drop, Clock, Offline, Overdue
<1>6. CASE UNCHANGED <<players, online, onlineCh, conn, late>>
  BY <1>6
<1>7. QED
  BY <1>1, <1>2, <1>3, <1>4, <1>5, <1>6
     DEF Next, SetOnEmpty, RegisterOnEmpty, Stop, vars, roster

(* The lost connections: a message stays in the mailbox until the loop has *)
(* read it, and one that finds no place is remembered in missed.           *)
LEMMA LossStep ==
  TypeOK /\ LossNoticed /\ [Next]_vars => LossNoticed'
<1> SUFFICES ASSUME TypeOK, LossNoticed, [Next]_vars,
                    NEW v \in players' \ (conn' \cup missed'), online'[v]
             PROVE  Pending(v)'
  BY DEF LossNoticed
<1> USE DEF TypeOK, LossNoticed, Pending
<1>1. ASSUME NEW u \in Users, AddPlayer(u) PROVE Pending(v)'
  <2>1. v # u /\ v \in players \ (conn \cup missed) /\ online[v]
    BY <1>1 DEF AddPlayer, Rejoin, Enter
  <2> QED BY <1>1, <2>1 DEF AddPlayer
<1>2. ASSUME NEW u \in Users, RemovePlayer(u) PROVE Pending(v)'
  <2>1. v # u /\ v \in players \ (conn \cup missed) /\ online[v]
    BY <1>2 DEF RemovePlayer, Drop
  <2> QED BY <1>2, <2>1 DEF RemovePlayer
<1>3. ASSUME NEW u \in Users, SetOffline(u) PROVE Pending(v)'
  <2>1. CASE v = u
    <3>1. onlineCh' = Append(onlineCh, u)
      BY <1>3, <2>1, OfflineMessage
    <3>2. /\ Len(onlineCh') = Len(onlineCh) + 1
          /\ onlineCh'[Len(onlineCh) + 1] = u
      BY <3>1
    <3> QED BY <2>1, <3>2
  <2>2. CASE v # u
    <3>1. Pending(v)
      BY <1>3, <2>2 DEF SetOffline, roster
    <3>2. CASE onlineCh' = Append(onlineCh, u)
      BY <3>1, <3>2
    <3>3. CASE onlineCh' = onlineCh
      BY <3>1, <3>3
    <3> QED BY <1>3, <3>2, <3>3, OfflineMessage
  <2> QED BY <2>1, <2>2
<1>4. CASE ApplyOffline
  <2>1. v # Head(onlineCh) /\ Pending(v)
    BY <1>4 DEF ApplyOffline
  <2>2. PICK i \in 1..Len(onlineCh) : onlineCh[i] = v
    BY <2>1
  <2>3. i # 1 /\ onlineCh' = Tail(onlineCh) /\ onlineCh # <<>>
    BY <1>4, <2>1, <2>2 DEF ApplyOffline
  <2>4. i - 1 \in 1..Len(onlineCh') /\ onlineCh'[i - 1] = v
    BY <2>2, <2>3
  <2> QED BY <2>4
<1>5. CASE Tick
  BY <1>5 DEF Tick, Drop
<1>6. CASE UNCHANGED <<players, online, onlineCh, conn, missed>>
  BY <1>6
<1> QED
  BY <1>1, <1>2, <1>3, <1>4, <1>5, <1>6
     DEF Next, SetOnEmpty, RegisterOnEmpty, Stop, vars, roster

-----------------------------------------------------------------------------
LEMMA RoomInvInit == Init => RoomInv
<1> SUFFICES ASSUME Init PROVE RoomInv
  OBVIOUS
<1>1. TypeOK
  BY TypeInit
<1>2. Capacity
  BY FS_EmptySet, RoomAssumption DEF Init, Capacity, RoomAssumption
<1>3. GraceClock /\ NoticePerOccupancy /\ Latches
  BY RoomAssumption
     DEF RoomAssumption, Init, GraceClock, Offline, NoticePerOccupancy, Latches
<1>4. ConnectedOnline /\ Mailbox /\ LossNoticed
  BY DEF Init, ConnectedOnline, Mailbox, LossNoticed
<1>5. QED
  BY <1>1, <1>2, <1>3, <1>4 DEF RoomInv

LEMMA RoomInvStep == RoomInv /\ [Next]_vars => RoomInv'
  BY TypeStep, CapacityStep, ClockStep, NoticeStep, ConnStep, LossStep
  DEF RoomInv

(* The inductive invariant holds in every reachable state.                 *)
THEOREM RoomInvariant == Spec => []RoomInv
  BY RoomInvInit, RoomInvStep, PTL DEF Spec

(* Type correctness of the room, for every capacity of onlineCh.           *)
THEOREM TypeCorrect == Spec => []TypeOK
<1>1. RoomInv => TypeOK
  BY DEF RoomInv
<1>2. QED BY <1>1, RoomInvariant, PTL

(* The room never seats more than MaxPlayers.                              *)
THEOREM NeverOverfull == Spec => []Capacity
<1>1. RoomInv => Capacity
  BY DEF RoomInv
<1>2. QED BY <1>1, RoomInvariant, PTL

(* The grace clock runs for offline players only and is bounded.           *)
THEOREM GraceClockSound == Spec => []GraceClock
<1>1. RoomInv => GraceClock
  BY DEF RoomInv
<1>2. QED BY <1>1, RoomInvariant, PTL

(* At most one empty notice per occupancy, none while it goes on.          *)
THEOREM OneNoticePerOccupancy == Spec => []NoticePerOccupancy
<1>1. RoomInv => NoticePerOccupancy
  BY DEF RoomInv
<1>2. QED BY <1>1, RoomInvariant, PTL

(* A session in the room has an online player unless it overtook its own   *)
(* offline message.                                                        *)
THEOREM OnlyOvertakenGoOffline == Spec => []ConnectedOnline
<1>1. RoomInv => ConnectedOnline
  BY DEF RoomInv
<1>2. QED BY <1>1, RoomInvariant, PTL

(* A lost connection is noticed, unless the mailbox was full.              *)
THEOREM LostConnectionNoticed == Spec => []LossNoticed
<1>1. RoomInv => LossNoticed
  BY DEF RoomInv
<1>2. QED BY <1>1, RoomInvariant, PTL

-----------------------------------------------------------------------------
(* Refinement.  Held and Offline are the two halves of the roster; each    *)
(* action of the loop is one action of Seats on them, or changes neither.  *)
Held == {u \in players : online[u]}

(* Seats counts with the same Cardinality.                                 *)
LEMMA SameCardinality ==
  ASSUME NEW S PROVE Abstract!Cardinality(S) = Cardinality(S)
  BY DEF Cardinality, Abstract!Cardinality

LEMMA SeatsInit == Init => Abstract!Init
  BY DEF Init, Abstract!Init, Offline

LEMMA SeatsStep ==
  RoomInv /\ [Next]_vars => [Abstract!Next]_(Abstract!vars)
<1> SUFFICES ASSUME RoomInv, [Next]_vars
             PROVE  Abstract!Next \/ UNCHANGED Abstract!vars
  BY DEF Abstract!vars
<1> USE DEF RoomInv, TypeOK, Offline
<1>1. ASSUME NEW u \in Users, AddPlayer(u) PROVE Abstract!Next
  <2>1. CASE Rejoin(u)
    <3>1. Abstract!Resume(u)
      BY <1>1, <2>1 DEF Rejoin, Abstract!Resume, Abstract!Seated, latches
    <3>2. QED BY <3>1 DEF Abstract!Next
  <2>2. CASE Enter(u)
    <3>1. Abstract!Seated = players
      BY DEF Abstract!Seated
    <3>2. Abstract!Cardinality(Abstract!Seated) < MaxPlayers
      BY <2>2, <3>1, SameCardinality DEF Enter
    <3>3. Abstract!Take(u)
      BY <1>1, <2>2, <3>1, <3>2 DEF Enter, Abstract!Take
    <3>4. QED BY <3>3 DEF Abstract!Next
  <2>3. QED BY <1>1, <2>1, <2>2 DEF AddPlayer
<1>2. ASSUME NEW u \in Users, RemovePlayer(u)
      PROVE  Abstract!Next \/ UNCHANGED Abstract!vars
  <2>1. CASE u \in players
    <3>1. Abstract!Free(u)
      BY <1>2, <2>1
      DEF RemovePlayer, Drop, Abstract!Free, Abstract!Seated, latches
    <3>2. QED BY <3>1 DEF Abstract!Next
  <2>2. CASE u \notin players
    <3>1. players' = players /\ UNCHANGED <<hadPlayers, emptied>>
      BY <1>2, <2>2 DEF RemovePlayer, Drop, latches
    <3>2. \A v \in players : online'[v] = online[v]
      BY <1>2, <2>2 DEF RemovePlayer, Drop
    <3>3. Held' = Held /\ Offline' = Offline
      BY <3>1, <3>2 DEF Held
    <3>4. QED BY <3>1, <3>3 DEF Abstract!vars, Held
  <2>3. QED BY <2>1, <2>2
<1>3. CASE ApplyOffline
  <2>1. PICK u \in Users : u = Head(onlineCh)
    BY <1>3 DEF ApplyOffline
  <2>2. CASE u \in players
    <3>1. Abstract!Lapse(u)
      BY <1>3, <2>1, <2>2
      DEF ApplyOffline, Abstract!Lapse, Abstract!Seated, latches
    <3>2. QED BY <2>1, <3>1 DEF Abstract!Next
  <2>3. CASE u \notin players
    BY <1>3, <2>1, <2>3 DEF ApplyOffline, Abstract!vars, latches
  <2>4. QED BY <2>2, <2>3
<1>4. CASE Tick
  <2>1. Overdue \in SUBSET Offline
    BY DEF Overdue
  <2>2. /\ players' = players \ Overdue
        /\ \A u \in players' : online'[u] = online[u]
    BY <1>4 DEF Tick, Drop
  <2>3. Offline' = Offline \ Overdue
    BY <2>2
  <2>4. Held' = Held
    BY <2>1, <2>2 DEF Held
  <2>5. Held \cup Offline' = players'
    BY <2>2, <2>3, <2>4 DEF Held
  <2>6. (hadPlayers /\ ~emptied)' = (hadPlayers /\ ~emptied /\ players' # {})
    BY <1>4 DEF Tick
  <2>7. Abstract!Sweep
    BY <2>1, <2>3, <2>4, <2>5, <2>6 DEF Abstract!Sweep, Held
  <2>8. QED BY <2>7 DEF Abstract!Next
<1>5. CASE UNCHANGED <<players, online, hadPlayers, emptied>>
  BY <1>5 DEF Abstract!vars
<1>6. QED
  BY <1>1, <1>2, <1>3, <1>4, <1>5
     DEF Next, SetOffline, SetOnEmpty, RegisterOnEmpty, Stop, vars, roster,
          latches

(* The loop of room.go implements the abstract room, for every value of    *)
(* the constants.                                                          *)
THEOREM RoomImplementsSeats == Spec => ImplementsSeats
<1>1. Init => Abstract!Init
  BY SeatsInit
<1>2. RoomInv /\ [Next]_vars => [Abstract!Next]_(Abstract!vars)
  BY SeatsStep
<1>3. QED
  BY <1>1, <1>2, RoomInvariant, PTL DEF Spec, ImplementsSeats, Abstract!Spec

-----------------------------------------------------------------------------
(* Movement.tla: when the room rejects a report of an honest client, one   *)
(* was lost before it and the player has gone further than MaxStep since,  *)
(* or a report sent before the respawn used up the exemption.              *)
(*                                                                         *)
(* The room compares a report with the last one it adopted; the client     *)
(* made its steps from the last one it sent.  Between the two lie the      *)
(* reports on their way.  So the invariant follows the chain from Player.X *)
(* through these to the client: each link is no longer than what was       *)
(* walked there, as long as that is counted, and it is all of one life,    *)
(* unless the respawn cut it.                                              *)

(* Reports, and what the variables are.                                    *)
Inputs == [at : Int, life : Nat, lost : BOOLEAN, walked : Nat]

MoveType ==
  /\ at \in Int /\ life \in Nat /\ lost \in BOOLEAN /\ walked \in Nat
  /\ inputs \in Seq(Inputs)
  /\ pos \in Int /\ suspicious \in Nat /\ lives \in Nat
  /\ dead \in BOOLEAN /\ firstReport \in BOOLEAN /\ behind \in BOOLEAN
  /\ states \in Seq(Places)

(* The client lives in the past, and so do, in order, its reports.         *)
LivesInOrder ==
  /\ life + Len(states) = lives
  /\ \A i \in 1..Len(inputs) : inputs[i].life <= life
  /\ \A i, j \in 1..Len(inputs) : i < j => inputs[i].life <= inputs[j].life

(* Who has lost no report has gone no further than one step.               *)
Fresh ==
  /\ ~lost => walked = 0
  /\ \A i \in 1..Len(inputs) : ~inputs[i].lost => inputs[i].walked <= Step

(* No further than what was walked, if that was not too far to be counted. *)
Within(a, b, w) == w <= MaxStep => Distance(a, b) <= w

(* From one report on its way to the next, and from the last to the        *)
(* client, as long as it is the same life.                                 *)
Chained ==
  /\ \A i, j \in 1..Len(inputs) :
       j = i + 1 /\ inputs[i].life = inputs[j].life
       => Within(inputs[i].at, inputs[j].at, inputs[j].walked)
  /\ \A i \in 1..Len(inputs) :
       i = Len(inputs) /\ inputs[i].life = life
       => Within(inputs[i].at, at, walked)

(* The place the room has is that of the last report, of this life.        *)
Settled ==
  ~firstReport /\ ~behind /\ suspicious = 0 /\ MaxSuspicious # 0

(* From there to the first report on its way, or to the client.            *)
Tracked ==
  Settled =>
    /\ \A i \in 1..Len(inputs) : i = 1 =>
         /\ inputs[i].life = lives
         /\ Within(pos, inputs[i].at, inputs[i].walked)
    /\ inputs = <<>> =>
         /\ life = lives
         /\ Within(pos, at, walked)

MoveInv == MoveType /\ LivesInOrder /\ Fresh /\ Chained /\ Tracked

(* Where the client gets by one more move is within what it has walked     *)
(* then.                                                                   *)
LEMMA WithinGrows ==
  ASSUME walked \in Nat, at \in Int, NEW a \in Int, NEW x \in Int,
         Within(a, at, walked)
  PROVE  Within(a, x, Farther(x)) /\ Farther(x) \in Nat
<1>1. Distance(at, x) \in Nat /\ Distance(a, x) \in Nat
      /\ Distance(a, at) \in Nat
  BY DEF Distance
<1>2. Distance(a, x) <= Distance(a, at) + Distance(at, x)
  BY DEF Distance
<1>3. MaxStep \in Nat
  BY MovementAssumption DEF MovementAssumption
<1>4. CASE walked + Distance(at, x) > MaxStep
  BY <1>1, <1>3, <1>4 DEF Farther, Within
<1>5. CASE ~(walked + Distance(at, x) > MaxStep)
  BY <1>1, <1>2, <1>3, <1>5 DEF Farther, Within
<1>6. QED
  BY <1>4, <1>5

(* What is on its way is a report.                                         *)
LEMMA InputFields ==
  ASSUME inputs \in Seq(Inputs), NEW i \in 1..Len(inputs)
  PROVE  /\ inputs[i].at \in Int /\ inputs[i].life \in Nat
         /\ inputs[i].lost \in BOOLEAN /\ inputs[i].walked \in Nat
<1>1. inputs[i] \in Inputs
  BY ElementOfSeq
<1>2. QED
  BY <1>1 DEF Inputs

(* The player appears where the client is told, in its first life.         *)
LEMMA ChainStarts == MoveInit => MoveInv
<1> SUFFICES ASSUME MoveInit PROVE MoveInv
  OBVIOUS
<1> USE MovementAssumption DEF MovementAssumption, MoveInit
<1>1. MoveType
  <2>1. at \in Int /\ pos \in Int
    OBVIOUS
  <2>2. inputs \in Seq(Inputs) /\ states \in Seq(Places)
    BY EmptySeq
  <2>3. life \in Nat /\ lives \in Nat /\ suspicious \in Nat
        /\ lost \in BOOLEAN /\ walked \in Nat
    OBVIOUS
  <2>4. dead \in BOOLEAN /\ firstReport \in BOOLEAN /\ behind \in BOOLEAN
    OBVIOUS
  <2>5. QED
    BY <2>1, <2>2, <2>3, <2>4 DEF MoveType
<1>2. LivesInOrder /\ Fresh /\ Chained /\ Tracked
  BY DEF LivesInOrder, Fresh, Chained, Tracked, Settled
<1>3. QED
  BY <1>1, <1>2 DEF MoveInv

(* The client's steps: a report that is sent makes a link of the chain,    *)
(* one that is lost makes the next link longer.                            *)
LEMMA ReportStep ==
  ASSUME MoveInv, NEW kept \in BOOLEAN, Report(kept)
  PROVE  MoveInv'
<1> USE MovementAssumption DEF MovementAssumption
<1>0. MoveType /\ LivesInOrder /\ Fresh /\ Chained /\ Tracked
  BY DEF MoveInv
<1>1. PICK x \in Places :
        /\ Distance(at, x) <= Step
        /\ at' = x
        /\ inputs' = IF kept
                     THEN Append(inputs, [at |-> x, life |-> life,
                                          lost |-> lost,
                                          walked |-> Farther(x)])
                     ELSE inputs
        /\ walked' = IF kept THEN 0 ELSE Farther(x)
  BY DEF Report
<1>2. /\ lost' = ~kept
      /\ UNCHANGED <<life, pos, dead, firstReport, suspicious, lives, behind,
                     states>>
  BY DEF Report, player
<1>3. x \in Int /\ at \in Int /\ pos \in Int /\ walked \in Nat
      /\ lost \in BOOLEAN /\ Step \in Nat /\ life \in Nat
      /\ inputs \in Seq(Inputs)
  BY <1>0 DEF MoveType
<1>4. Farther(x) \in Nat
  BY <1>3 DEF Farther, Distance
<1>5. \A a \in Int : Within(a, at, walked) => Within(a, x, Farther(x))
  BY <1>3, WithinGrows
<1>6. \A i \in 1..Len(inputs) : inputs[i].at \in Int
  BY <1>3, InputFields
<1>7. CASE kept
  <2>1. PICK q \in Inputs : q = [at |-> x, life |-> life, lost |-> lost,
                                 walked |-> Farther(x)]
    <3>1. [at |-> x, life |-> life, lost |-> lost, walked |-> Farther(x)]
            \in Inputs
      BY <1>3, <1>4 DEF Inputs
    <3>2. QED
      BY <3>1
  <2>2. q.at = x /\ q.life = life /\ q.lost = lost /\ q.walked = Farther(x)
    BY <2>1
  <2>3. /\ inputs' \in Seq(Inputs) /\ Len(inputs') = Len(inputs) + 1
        /\ \A i \in 1..Len(inputs) : inputs'[i] = inputs[i]
        /\ inputs'[Len(inputs) + 1] = q
        /\ inputs' # <<>>
    <3>1. inputs' = Append(inputs, q)
      BY <1>1, <1>7, <2>1
    <3>2. QED
      BY <1>3, <3>1, AppendProperties
  <2>4. walked' = 0 /\ lost' = FALSE
    BY <1>1, <1>2, <1>7
  <2>5. MoveType'
    BY <1>0, <1>1, <1>2, <1>3, <2>3, <2>4 DEF MoveType
  <2>6. \A i \in 1..Len(inputs') : i \in 1..Len(inputs) \/ inputs'[i] = q
    BY <1>3, <2>3
  <2>7. LivesInOrder'
    <3>1. \A i \in 1..Len(inputs') : inputs'[i].life <= life
      BY <1>0, <1>3, <2>2, <2>3, <2>6 DEF LivesInOrder
    <3>2. ASSUME NEW i \in 1..Len(inputs'), NEW j \in 1..Len(inputs'), i < j
          PROVE  inputs'[i].life <= inputs'[j].life
      <4>1. i \in 1..Len(inputs)
        BY <1>3, <2>3, <3>2
      <4>2. QED
        BY <1>0, <2>2, <2>3, <2>6, <3>2, <4>1 DEF LivesInOrder
    <3>3. QED
      BY <1>0, <1>2, <3>1, <3>2 DEF LivesInOrder
  <2>8. Fresh'
    <3>1. ~lost => Farther(x) <= Step
      BY <1>0, <1>1, <1>3 DEF Fresh, Farther, Distance
    <3>2. QED
      BY <1>0, <2>2, <2>3, <2>4, <2>6, <3>1 DEF Fresh
  <2>9. Chained'
    <3>1. ASSUME NEW i \in 1..Len(inputs'), NEW j \in 1..Len(inputs'),
                 j = i + 1, inputs'[i].life = inputs'[j].life
          PROVE  Within(inputs'[i].at, inputs'[j].at, inputs'[j].walked)
      <4>1. CASE j <= Len(inputs)
        <5>1. i \in 1..Len(inputs) /\ j \in 1..Len(inputs)
          BY <1>3, <3>1, <4>1
        <5>2. QED
          BY <1>0, <2>3, <3>1, <5>1 DEF Chained
      <4>2. CASE j = Len(inputs) + 1
        <5>1. i = Len(inputs) /\ i \in 1..Len(inputs) /\ inputs'[j] = q
          BY <1>3, <2>3, <3>1, <4>2
        <5>2. Within(inputs[i].at, at, walked)
          BY <1>0, <2>2, <2>3, <3>1, <5>1 DEF Chained
        <5>3. QED
          BY <1>5, <1>6, <2>2, <2>3, <5>1, <5>2
      <4>3. QED
        BY <1>3, <2>3, <4>1, <4>2
    <3>2. ASSUME NEW i \in 1..Len(inputs'), i = Len(inputs')
          PROVE  Within(inputs'[i].at, at', walked')
      BY <1>1, <1>3, <2>2, <2>3, <2>4, <3>2 DEF Within, Distance
    <3>3. QED
      BY <3>1, <3>2 DEF Chained, Within
  <2>10. Tracked'
    <3>1. SUFFICES ASSUME Settled, NEW i \in 1..Len(inputs'), i = 1
                   PROVE  /\ inputs'[i].life = lives
                          /\ Within(pos, inputs'[i].at, inputs'[i].walked)
      BY <1>2, <2>3 DEF Tracked, Settled, Within
    <3>2. CASE inputs = <<>>
      <4>1. Len(inputs) = 0 /\ inputs'[i] = q
        BY <2>3, <3>1, <3>2
      <4>2. life = lives /\ Within(pos, at, walked)
        BY <1>0, <3>1, <3>2 DEF Tracked
      <4>3. QED
        BY <1>3, <1>5, <2>2, <4>1, <4>2
    <3>3. CASE inputs # <<>>
      <4>1. i \in 1..Len(inputs)
        BY <1>3, <3>1, <3>3, EmptySeq
      <4>2. QED
        BY <1>0, <2>3, <3>1, <4>1 DEF Tracked
    <3>4. QED
      BY <3>2, <3>3
  <2>11. QED
    BY <2>5, <2>7, <2>8, <2>9, <2>10 DEF MoveInv
<1>8. CASE ~kept
  <2>1. inputs' = inputs /\ walked' = Farther(x) /\ lost'
    BY <1>1, <1>2, <1>8
  <2>2. MoveType'
    BY <1>0, <1>1, <1>2, <1>3, <1>4, <2>1 DEF MoveType
  <2>3. LivesInOrder' /\ Fresh'
    BY <1>0, <1>2, <2>1 DEF LivesInOrder, Fresh
  <2>4. \A a \in Int : Within(a, at, walked) => Within(a, at', walked')
    BY <1>1, <1>5, <2>1
  <2>5. Chained'
    <3>1. ASSUME NEW i \in 1..Len(inputs), i = Len(inputs),
                 inputs[i].life = life
          PROVE  Within(inputs[i].at, at', walked')
      <4>1. Within(inputs[i].at, at, walked)
        BY <1>0, <3>1 DEF Chained
      <4>2. QED
        BY <1>6, <2>4, <4>1
    <3>2. QED
      BY <1>0, <1>2, <2>1, <3>1 DEF Chained, Within
  <2>6. Tracked'
    <3>1. SUFFICES ASSUME Settled, inputs = <<>>
                   PROVE  Within(pos, at', walked')
      BY <1>0, <1>2, <2>1 DEF Tracked, Settled, Within
    <3>2. Within(pos, at, walked)
      BY <1>0, <3>1 DEF Tracked
    <3>3. QED
      BY <1>3, <2>4, <3>2
  <2>7. QED
    BY <2>2, <2>3, <2>5, <2>6 DEF MoveInv
<1>9. QED
  BY <1>7, <1>8

(* A client that hears of a new life has reports of older ones under way   *)
(* only; and the room has been in the new one for as long.                 *)
LEMMA HearStep ==
  ASSUME MoveInv, Hear
  PROVE  MoveInv'
<1> USE MovementAssumption DEF MovementAssumption
<1>0. MoveType /\ LivesInOrder /\ Fresh /\ Chained /\ Tracked
  BY DEF MoveInv
<1>1. /\ states # <<>> /\ at' = Head(states) /\ life' = life + 1
      /\ states' = Tail(states)
      /\ lost' = FALSE /\ walked' = 0
      /\ UNCHANGED <<inputs, pos, dead, firstReport, suspicious, lives,
                     behind>>
  BY DEF Hear, player
<1>2. /\ Head(states) \in Places /\ states' \in Seq(Places)
      /\ Len(states') = Len(states) - 1 /\ Len(states) \in Nat \ {0}
      /\ life \in Nat
  BY <1>0, <1>1, HeadTailProperties, EmptySeq DEF MoveType
<1>3. MoveType'
  <2>1. at' \in Int
    <3>1. at' \in Places
      BY <1>1, <1>2
    <3>2. QED
      BY <3>1
  <2>2. lost' \in BOOLEAN /\ walked' \in Nat
    BY <1>1
  <2>3. QED
    BY <1>0, <1>1, <1>2, <2>1, <2>2 DEF MoveType
<1>4. LivesInOrder'
  <2>1. \A i \in 1..Len(inputs) : inputs[i].life \in Nat
    BY <1>0, InputFields DEF MoveType
  <2>2. lives = life' + Len(states')
    BY <1>0, <1>1, <1>2 DEF LivesInOrder
  <2>3. QED
    BY <1>0, <1>1, <1>2, <2>1, <2>2 DEF LivesInOrder
<1>5. Chained'
  <2>1. \A i \in 1..Len(inputs) : inputs[i].life # life'
    BY <1>0, <1>1, <1>2, InputFields DEF LivesInOrder, MoveType
  <2>2. QED
    BY <1>0, <1>1, <2>1 DEF Chained, Within
<1>6. Tracked'
  <2>1. life # lives
    BY <1>0, <1>2 DEF LivesInOrder
  <2>2. QED
    BY <1>0, <1>1, <2>1 DEF Tracked, Settled
<1>7. Fresh'
  BY <1>0, <1>1 DEF Fresh
<1>8. QED
  BY <1>3, <1>4, <1>5, <1>6, <1>7 DEF MoveInv

(* The room takes the oldest report off the chain: adopted, it is where    *)
(* the chain begins from now on; rejected, the player is suspicious.       *)
LEMMA HandleInputStep ==
  ASSUME MoveInv, HandleInput
  PROVE  MoveInv'
<1> USE MovementAssumption DEF MovementAssumption
<1>0. MoveType /\ LivesInOrder /\ Fresh /\ Chained /\ Tracked
  BY DEF MoveInv
<1>1. /\ inputs \in Seq(Inputs) /\ inputs # <<>> /\ inputs' = Tail(inputs)
      /\ UNCHANGED <<at, life, lost, walked, dead, lives, states>>
  BY <1>0 DEF HandleInput, MoveType, client
<1>2. /\ Len(inputs) \in Nat \ {0} /\ Head(inputs) = inputs[1]
      /\ inputs' \in Seq(Inputs) /\ Len(inputs') = Len(inputs) - 1
      /\ \A i \in 1..Len(inputs') : inputs'[i] = inputs[i + 1]
  BY <1>1, EmptySeq, HeadTailProperties
<1>3. \A i \in 1..Len(inputs') :
        i + 1 \in 1..Len(inputs) /\ inputs'[i] = inputs[i + 1]
  BY <1>2
<1>4. /\ inputs[1].at \in Int /\ inputs[1].life \in Nat
      /\ at \in Int /\ pos \in Int /\ lives \in Nat /\ life \in Nat
      /\ 1 \in 1..Len(inputs)
      /\ Len(states) \in Nat
  BY <1>0, <1>1, <1>2, InputFields, EmptySeq DEF MoveType
<1>5. LivesInOrder'
  <2>1. \A i \in 1..Len(inputs') : inputs'[i].life <= life
    BY <1>0, <1>3 DEF LivesInOrder
  <2>2. ASSUME NEW i \in 1..Len(inputs'), NEW j \in 1..Len(inputs'), i < j
        PROVE  inputs'[i].life <= inputs'[j].life
    <3>1. i + 1 < j + 1
      BY <2>2
    <3>2. QED
      BY <1>0, <1>3, <3>1 DEF LivesInOrder
  <2>3. QED
    BY <1>0, <1>1, <2>1, <2>2 DEF LivesInOrder
<1>6. Chained'
  <2>1. ASSUME NEW i \in 1..Len(inputs'), NEW j \in 1..Len(inputs'),
               j = i + 1, inputs'[i].life = inputs'[j].life
        PROVE  Within(inputs'[i].at, inputs'[j].at, inputs'[j].walked)
    <3>1. j + 1 = (i + 1) + 1
      BY <2>1
    <3>2. QED
      BY <1>0, <1>3, <2>1, <3>1 DEF Chained
  <2>2. ASSUME NEW i \in 1..Len(inputs'), i = Len(inputs'),
               inputs'[i].life = life
        PROVE  Within(inputs'[i].at, at, walked)
    <3>1. i + 1 = Len(inputs)
      BY <1>2, <2>2
    <3>2. QED
      BY <1>0, <1>3, <2>2, <3>1 DEF Chained
  <2>3. QED
    BY <1>1, <2>1, <2>2 DEF Chained, Within
<1>7. Fresh'
  BY <1>0, <1>1, <1>3 DEF Fresh
<1>8. CASE CheckMove(Head(inputs))
  <2>1. /\ pos' = inputs[1].at /\ firstReport' = FALSE /\ suspicious' = 0
        /\ behind' = (inputs[1].life # lives)
    BY <1>2, <1>8 DEF HandleInput, ApplyInput
  <2>2. MoveType'
    <3>1. pos' \in Int
      BY <1>4, <2>1
    <3>2. /\ firstReport' \in BOOLEAN /\ behind' \in BOOLEAN
          /\ suspicious' \in Nat
      BY <2>1
    <3>3. QED
      BY <1>0, <1>1, <1>2, <3>1, <3>2 DEF MoveType
  <2>3. ASSUME inputs[1].life = lives
        PROVE  /\ life = lives
               /\ \A i \in 1..Len(inputs) : inputs[i].life = lives
    <3>1. life <= lives
      BY <1>0, <1>4 DEF LivesInOrder
    <3>2. \A i \in 1..Len(inputs) : inputs[i].life \in Nat
      BY <1>1, InputFields
    <3>3. \A i \in 1..Len(inputs) :
            i = 1 \/ inputs[1].life <= inputs[i].life
      BY <1>0, <1>4 DEF LivesInOrder
    <3>4. \A i \in 1..Len(inputs) : inputs[i].life <= life
      BY <1>0 DEF LivesInOrder
    <3>5. QED
      BY <1>4, <2>3, <3>1, <3>2, <3>3, <3>4
  <2>4. SUFFICES ASSUME inputs[1].life = lives
                 PROVE  Tracked'
    BY <1>5, <1>6, <1>7, <2>1, <2>2 DEF MoveInv, Tracked, Settled, Within
  <2>5. ASSUME NEW i \in 1..Len(inputs'), i = 1
        PROVE  /\ inputs'[i].life = lives
               /\ Within(pos', inputs'[i].at, inputs'[i].walked)
    <3>1. 2 \in 1..Len(inputs) /\ inputs'[i] = inputs[2]
      BY <1>3, <2>5
    <3>2. QED
      BY <1>0, <1>4, <2>1, <2>3, <2>4, <3>1 DEF Chained
  <2>6. ASSUME inputs' = <<>>
        PROVE  /\ life = lives
               /\ Within(pos', at, walked)
    <3>1. Len(inputs) = 1
      BY <1>2, <2>6
    <3>2. QED
      BY <1>0, <1>4, <2>1, <2>3, <2>4, <3>1 DEF Chained
  <2>7. QED
    BY <1>1, <2>5, <2>6 DEF Tracked, Within
<1>9. CASE ~CheckMove(Head(inputs))
  <2>1. /\ suspicious' = IF suspicious < MaxSuspicious THEN suspicious + 1
                                                       ELSE suspicious
        /\ UNCHANGED <<pos, firstReport, behind>>
    BY <1>9 DEF HandleInput
  <2>2. suspicious \in Nat
    BY <1>0 DEF MoveType
  <2>3. suspicious' \in Nat /\ (MaxSuspicious # 0 => suspicious' # 0)
    BY <2>1, <2>2
  <2>4. MoveType'
    BY <1>0, <1>1, <1>2, <2>1, <2>3 DEF MoveType
  <2>5. Tracked'
    BY <2>3 DEF Tracked, Settled, Within
  <2>6. QED
    BY <1>5, <1>6, <1>7, <2>4, <2>5 DEF MoveInv
<1>10. QED
  BY <1>8, <1>9

(* A respawn begins a life of which the client has not heard, and exempts  *)
(* the first report that comes.                                            *)
LEMMA RespawnStep ==
  ASSUME MoveInv, NEW sp \in SpawnPoints, Respawn(sp)
  PROVE  MoveInv'
<1> USE MovementAssumption DEF MovementAssumption
<1>0. MoveType /\ LivesInOrder /\ Fresh /\ Chained /\ Tracked
  BY DEF MoveInv
<1>1. /\ dead' = FALSE /\ pos' = sp /\ firstReport' = TRUE
      /\ lives' = lives + 1 /\ behind' = FALSE
      /\ states' = Append(states, sp)
      /\ UNCHANGED <<at, life, lost, walked, inputs, suspicious>>
  BY DEF Respawn, client
<1>2. sp \in Places
  OBVIOUS
<1>3. /\ states' \in Seq(Places) /\ Len(states') = Len(states) + 1
      /\ Len(states) \in Nat /\ life \in Nat /\ sp \in Int
  BY <1>0, <1>1, <1>2, AppendProperties, EmptySeq DEF MoveType
<1>4. MoveType'
  <2>1. pos' \in Int /\ lives' \in Nat
    BY <1>0, <1>1, <1>3 DEF MoveType
  <2>2. QED
    BY <1>0, <1>1, <1>3, <2>1 DEF MoveType
<1>5. LivesInOrder'
  <2>1. life + Len(states') = lives'
    BY <1>0, <1>1, <1>3 DEF LivesInOrder
  <2>2. QED
    BY <1>0, <1>1, <2>1 DEF LivesInOrder
<1>6. Fresh' /\ Chained' /\ Tracked'
  BY <1>0, <1>1 DEF Fresh, Chained, Tracked, Settled, Within
<1>7. QED
  BY <1>4, <1>5, <1>6 DEF MoveInv

(* Nobody is anywhere else for being dead.                                 *)
LEMMA DieStep ==
  ASSUME MoveInv, Die
  PROVE  MoveInv'
<1>1. /\ dead' = TRUE
      /\ UNCHANGED <<at, life, lost, walked, inputs, pos, firstReport,
                     suspicious, lives, behind, states>>
  BY DEF Die, client
<1>2. QED
  BY <1>1
  DEF MoveInv, MoveType, LivesInOrder, Fresh, Chained, Tracked, Settled, Within

-----------------------------------------------------------------------------
(* The invariant is inductive.                                             *)
THEOREM MovementInvariant == MoveSpec => []MoveInv
<1>1. ASSUME MoveInv, [MoveNext]_moveVars PROVE MoveInv'
  <2>1. CASE Send \/ HandleInputDrops
    BY <1>1, <2>1, ReportStep DEF Send, HandleInputDrops
  <2>2. CASE UNCHANGED moveVars
    BY <1>1, <2>2
    DEF moveVars, client, player, MoveInv, MoveType, LivesInOrder, Fresh,
        Chained, Tracked, Settled, Within
  <2>3. QED
    BY <1>1, <2>1, <2>2, HearStep, HandleInputStep, DieStep, RespawnStep
    DEF MoveNext
<1>2. QED
  BY ChainStarts, <1>1, PTL DEF MoveSpec

(* An honest client's report is rejected only when one was lost before it  *)
(* and the player has gone further than MaxStep since, when a report from  *)
(* before the respawn used up the exemption, or when the one before was    *)
(* rejected: for every step and every limit that a single step respects.   *)
THEOREM HonestReportsAccepted == MoveSpec => HonestAccepted
<1>1. ASSUME MoveInv, [MoveNext]_moveVars, suspicious' > suspicious
      PROVE  \/ Head(inputs).lost /\ Head(inputs).walked > MaxStep
             \/ behind \/ suspicious > 0
  <2> USE MovementAssumption DEF MovementAssumption
  <2>1. /\ suspicious \in Nat /\ pos \in Int /\ inputs \in Seq(Inputs)
        /\ behind \in BOOLEAN
    BY <1>1 DEF MoveInv, MoveType
  <2>2. HandleInput /\ ~CheckMove(Head(inputs)) /\ MaxSuspicious # 0
    <3>1. suspicious' # suspicious
      BY <1>1, <2>1
    <3>2. HandleInput
      BY <1>1, <3>1
      DEF MoveNext, moveVars, player, Send, HandleInputDrops, Report, Hear,
          Die, Respawn
    <3>3. CASE CheckMove(Head(inputs))
      BY <1>1, <2>1, <3>2, <3>3 DEF HandleInput
    <3>4. CASE ~CheckMove(Head(inputs))
      BY <1>1, <2>1, <3>2, <3>4 DEF HandleInput
    <3>5. QED
      BY <3>2, <3>3, <3>4
  <2>3. 1 \in 1..Len(inputs) /\ Head(inputs) = inputs[1]
    BY <2>1, <2>2, EmptySeq DEF HandleInput
  <2>4. /\ inputs[1].at \in Int /\ inputs[1].lost \in BOOLEAN
        /\ inputs[1].walked \in Nat
    BY <2>1, <2>3, InputFields
  <2>5. ~firstReport /\ ~(Distance(pos, inputs[1].at) <= MaxStep)
    BY <2>2, <2>3 DEF CheckMove
  <2>6. SUFFICES ASSUME ~behind, suspicious = 0
                 PROVE  inputs[1].lost /\ inputs[1].walked > MaxStep
    BY <2>1, <2>3
  <2>7. Within(pos, inputs[1].at, inputs[1].walked)
    BY <1>1, <2>2, <2>3, <2>5, <2>6 DEF MoveInv, Tracked, Settled
  <2>8. Distance(pos, inputs[1].at) \in Nat
    BY <2>1, <2>4 DEF Distance
  <2>9. inputs[1].walked > MaxStep
    BY <2>4, <2>5, <2>7, <2>8 DEF Within
  <2>10. QED
    BY <1>1, <2>3, <2>4, <2>9 DEF MoveInv, Fresh
<1>2. MoveInv /\ [MoveNext]_moveVars =>
        [suspicious' > suspicious =>
           \/ Head(inputs).lost /\ Head(inputs).walked > MaxStep
           \/ behind
           \/ suspicious > 0]_moveVars
  BY <1>1
<1>3. QED
  BY MovementInvariant, <1>2, PTL DEF MoveSpec, HonestAccepted
=============================================================================
