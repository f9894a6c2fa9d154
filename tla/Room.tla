-------------------------------- MODULE Room --------------------------------
(***************************************************************************)
(* The membership half of one room: internal/room/room.go.  A room is one  *)
(* goroutine, Room.loop, that owns every field of Room and serves its      *)
(* channels with a select: each case of that select is one action here.    *)
(* joinCh and leaveCh are unbuffered, so the sender's call and the loop's  *)
(* case are one step; onlineCh is buffered and SetOffline drops when it is *)
(* full; select takes the ready cases in any order.                        *)
(*                                                                         *)
(* conn is the gateway's side of the story (Hub.Join, Hub.Leave and        *)
(* Hub.OnDisconnect, one session per account here; Hub.tla has several).   *)
(* Combat.tla models the other half of the loop.                           *)
(***************************************************************************)
EXTENDS Naturals, Sequences, FiniteSets

CONSTANTS Users,        (* account ids                                      *)
          MaxPlayers,   (* Config.MaxPlayers, after NewRoom's normalisation *)
          GraceTicks,   (* Config.ReconnectGraceTicks, likewise             *)
          OnlineCap,    (* capacity of onlineCh                             *)
          MaxFills      (* bound: times the empty room is populated         *)

ASSUME RoomAssumption ==
  /\ IsFiniteSet(Users)
  /\ MaxPlayers \in 1..8
  /\ GraceTicks \in Nat \ {0}
  /\ OnlineCap \in Nat \ {0}
  /\ MaxFills \in Nat

VARIABLES
  players,       (* keys of Room.players                                    *)
  online,        (* Player.Online, FALSE for users without a Player         *)
  offlineTicks,  (* Player.OfflineTicks, 0 for users without a Player       *)
  hadPlayers,    (* Room.hadPlayers                                         *)
  emptied,       (* Room.emptied                                            *)
  onEmpty,       (* Room.onEmpty: "nil", "queued" in emptyCh, or "set"      *)
  onlineCh,      (* uids of the pending SetOffline messages                 *)
  stopped,       (* Room.stop is closed                                     *)
  conn,          (* users with a live session that has joined the room      *)
  late,          (* history: users whose join overtook their own pending    *)
                 (* offline message                                         *)
  missed,        (* history: users whose connection was lost while the      *)
                 (* mailbox was full                                        *)
  fills,         (* history: times the empty room was populated             *)
  notices        (* history: calls of the onEmpty callback                  *)

roster == <<players, online, offlineTicks>>
latches == <<hadPlayers, emptied>>
vars == <<players, online, offlineTicks, hadPlayers, emptied, onEmpty,
          onlineCh, stopped, conn, late, missed, fills, notices>>

Init ==
  /\ players = {}
  /\ online = [u \in Users |-> FALSE]
  /\ offlineTicks = [u \in Users |-> 0]
  /\ hadPlayers = FALSE
  /\ emptied = FALSE
  /\ onEmpty = "nil"
  /\ onlineCh = <<>>
  /\ stopped = FALSE
  /\ conn = {}
  /\ late = {}
  /\ missed = {}
  /\ fills = 0
  /\ notices = 0

-----------------------------------------------------------------------------
(* Membership.                                                             *)

(* The roster after the players of gone are deleted from the map.          *)
Drop(gone) ==
  /\ players' = players \ gone
  /\ online' = [u \in Users |-> u \notin gone /\ online[u]]

(* Mutant: a player that comes back is not marked online.                  *)
RejoinForgetsOnline(u) ==
  /\ u \in players
  /\ offlineTicks' = [offlineTicks EXCEPT ![u] = 0]
  /\ UNCHANGED <<players, online, latches, fills>>

(* Mutant: a player that comes back keeps its offline clock.               *)
RejoinKeepsClock(u) ==
  /\ u \in players
  /\ online' = [online EXCEPT ![u] = TRUE]
  /\ UNCHANGED <<players, offlineTicks, latches, fills>>

(* Mutant: a newcomer does not re-arm the empty notice.                    *)
EnterWithoutRearm(u) ==
  /\ u \notin players
  /\ Cardinality(players) < MaxPlayers
  /\ players = {} => fills < MaxFills
  /\ players' = players \cup {u}
  /\ online' = [online EXCEPT ![u] = TRUE]
  /\ offlineTicks' = [offlineTicks EXCEPT ![u] = 0]
  /\ hadPlayers' = TRUE
  /\ fills' = IF players = {} THEN fills + 1 ELSE fills
  /\ UNCHANGED emptied

(* addPlayer finds the Player: back online, nothing else is touched.       *)
Rejoin(u) ==
  /\ u \in players
  /\ online' = [online EXCEPT ![u] = TRUE]
  /\ offlineTicks' = [offlineTicks EXCEPT ![u] = 0]
  /\ UNCHANGED <<players, latches, fills>>

(* Mutant: the capacity test lets one too many in.                         *)
EnterOneTooMany(u) ==
  /\ u \notin players
  /\ Cardinality(players) <= MaxPlayers
  /\ players = {} => fills < MaxFills
  /\ players' = players \cup {u}
  /\ online' = [online EXCEPT ![u] = TRUE]
  /\ offlineTicks' = [offlineTicks EXCEPT ![u] = 0]
  /\ hadPlayers' = TRUE
  /\ emptied' = FALSE
  /\ fills' = IF players = {} THEN fills + 1 ELSE fills

(* addPlayer makes a Player.  A full room answers ErrRoomFull and changes  *)
(* nothing, so that call is no step.                                       *)
Enter(u) ==
  /\ u \notin players
  /\ Cardinality(players) < MaxPlayers
  /\ players = {} => fills < MaxFills
  /\ players' = players \cup {u}
  /\ online' = [online EXCEPT ![u] = TRUE]
  /\ offlineTicks' = [offlineTicks EXCEPT ![u] = 0]
  /\ hadPlayers' = TRUE
  /\ emptied' = FALSE
  /\ fills' = IF players = {} THEN fills + 1 ELSE fills

Pending(u) == \E i \in 1..Len(onlineCh) : onlineCh[i] = u

(* A session that is not in the room joins it: Room.AddPlayer.             *)
AddPlayer(u) ==
  /\ ~stopped
  /\ u \notin conn
  /\ Rejoin(u) \/ Enter(u)
  /\ conn' = conn \cup {u}
  /\ late' = IF Pending(u) THEN late \cup {u} ELSE late \ {u}
  /\ missed' = missed \ {u}
  /\ UNCHANGED <<onEmpty, onlineCh, stopped, notices>>

(* A session leaves the room: Room.RemovePlayer.                           *)
RemovePlayer(u) ==
  /\ ~stopped
  /\ u \in conn
  /\ Drop({u})
  /\ offlineTicks' = [offlineTicks EXCEPT ![u] = 0]
  /\ conn' = conn \ {u}
  /\ UNCHANGED <<latches, onEmpty, onlineCh, stopped, late, missed, fills,
                 notices>>

(* A session's connection is lost: the message goes into onlineCh, or is   *)
(* thrown away when the channel is full.                                   *)
SetOffline(u) ==
  /\ u \in conn
  /\ conn' = conn \ {u}
  /\ IF Len(onlineCh) < OnlineCap
     THEN onlineCh' = Append(onlineCh, u) /\ UNCHANGED missed
     ELSE missed' = missed \cup {u} /\ UNCHANGED onlineCh
  /\ UNCHANGED <<roster, latches, onEmpty, stopped, late, fills, notices>>

(* Mutant: one message wakes the loop, which throws away the others.       *)
ApplyOfflineFlushes ==
  /\ ~stopped
  /\ onlineCh # <<>>
  /\ onlineCh' = <<>>
  /\ LET u == Head(onlineCh)
     IN /\ online' = [online EXCEPT ![u] = FALSE]
        /\ offlineTicks' = [offlineTicks EXCEPT ![u] = 0]
  /\ UNCHANGED <<players, latches, onEmpty, stopped, conn, late, missed, fills,
                 notices>>

(* The loop takes the oldest offline message.                              *)
ApplyOffline ==
  /\ ~stopped
  /\ onlineCh # <<>>
  /\ onlineCh' = Tail(onlineCh)
  /\ LET u == Head(onlineCh)
     IN /\ online' = [online EXCEPT ![u] = FALSE]
        /\ offlineTicks' = [offlineTicks EXCEPT ![u] = 0]
  /\ UNCHANGED <<players, latches, onEmpty, stopped, conn, late, missed, fills,
                 notices>>

-----------------------------------------------------------------------------
(* Time.                                                                   *)

Offline == {u \in players : ~online[u]}

Overdue == {u \in Offline : offlineTicks[u] + 1 >= GraceTicks}

(* Mutant: the clock stands still while nobody is online to watch.         *)
ClockIfWatched(u) ==
  IF u \in Overdue THEN 0
  ELSE IF u \in Offline /\ Offline # players THEN offlineTicks[u] + 1
  ELSE offlineTicks[u]

Clock(u) ==
  IF u \in Overdue THEN 0
  ELSE IF u \in Offline THEN offlineTicks[u] + 1
  ELSE offlineTicks[u]

(* Mutant: the emptied latch is not set, so every tick reports again.      *)
TickReportsAgain ==
  /\ ~stopped
  /\ Drop(Overdue)
  /\ offlineTicks' = [u \in Users |-> Clock(u)]
  /\ notices' = IF players' = {} /\ hadPlayers /\ onEmpty = "set"
                THEN notices + 1 ELSE notices
  /\ notices < MaxFills + 1
  /\ UNCHANGED <<latches, onEmpty, onlineCh, stopped, conn, late, missed,
                 fills>>

(* The loop's ticker case, tickOfflinePlayers: count, drop those beyond    *)
(* the grace period, and report the room empty once per occupancy.         *)
Tick ==
  /\ ~stopped
  /\ Drop(Overdue)
  /\ offlineTicks' = [u \in Users |-> Clock(u)]
  /\ LET empty == players' = {} /\ hadPlayers /\ ~emptied
     IN /\ emptied' = (emptied \/ empty)
        /\ notices' = IF empty /\ onEmpty = "set" THEN notices + 1
                                                  ELSE notices
  /\ UNCHANGED <<hadPlayers, onEmpty, onlineCh, stopped, conn, late, missed,
                 fills>>

-----------------------------------------------------------------------------
(* The empty callback and the end of the room.                             *)

(* Hub.Join registers the callback once its AddPlayer has returned.        *)
SetOnEmpty ==
  /\ hadPlayers
  /\ onEmpty = "nil"
  /\ onEmpty' = "queued"
  /\ UNCHANGED <<roster, latches, onlineCh, stopped, conn, late, missed, fills,
                 notices>>

RegisterOnEmpty ==
  /\ ~stopped
  /\ onEmpty = "queued"
  /\ onEmpty' = "set"
  /\ UNCHANGED <<roster, latches, onlineCh, stopped, conn, late, missed, fills,
                 notices>>

(* Manager.DestroyRoom, reached only from the callback.                    *)
Stop ==
  /\ ~stopped
  /\ notices > 0
  /\ stopped' = TRUE
  /\ UNCHANGED <<roster, latches, onEmpty, onlineCh, conn, late, missed, fills,
                 notices>>

Next ==
  \/ \E u \in Users : AddPlayer(u) \/ RemovePlayer(u) \/ SetOffline(u)
  \/ ApplyOffline
  \/ Tick
  \/ SetOnEmpty
  \/ RegisterOnEmpty
  \/ Stop

(* select chooses uniformly among its ready cases, so one that stays ready *)
(* is taken in the end; the ticker is ready again every 1/TickHz second.   *)
Fairness == WF_vars(ApplyOffline) /\ WF_vars(Tick) /\ WF_vars(RegisterOnEmpty)

Spec == Init /\ [][Next]_vars /\ Fairness

-----------------------------------------------------------------------------
(* Properties.                                                             *)

(* Every variable stays in its range; in particular onlineCh never exceeds *)
(* the capacity NewRoom gives it, so SetOffline never blocks its caller.   *)
TypeOK ==
  /\ players \subseteq Users
  /\ online \in [Users -> BOOLEAN]
  /\ offlineTicks \in [Users -> Nat]
  /\ hadPlayers \in BOOLEAN
  /\ emptied \in BOOLEAN
  /\ onEmpty \in {"nil", "queued", "set"}
  /\ onlineCh \in Seq(Users)
  /\ Len(onlineCh) <= OnlineCap
  /\ stopped \in BOOLEAN
  /\ conn \subseteq Users
  /\ late \subseteq Users /\ missed \subseteq Users
  /\ fills \in 0..MaxFills
  /\ notices \in Nat

(* The room never seats more than Config.MaxPlayers, through any mix of    *)
(* joins, rejoins, evictions and departures.                               *)
Capacity == Cardinality(players) <= MaxPlayers

(* The grace clock runs for offline players only, restarts whenever the    *)
(* player's status is written, and never reaches the limit on a player     *)
(* that is still seated.                                                   *)
GraceClock ==
  \A u \in Users :
    /\ online[u] => u \in players
    /\ u \in players /\ ~online[u] => offlineTicks[u] < GraceTicks
    /\ u \notin Offline => offlineTicks[u] = 0

(* onEmpty is called at most once per occupancy, and never for one that    *)
(* still goes on: an occupied room has reported fewer times than it was    *)
(* populated.                                                              *)
NoticePerOccupancy ==
  /\ notices <= fills
  /\ players # {} => notices < fills

(* A session that is in the room has a live, online Player, unless its own *)
(* join overtook the offline message of the connection it replaces: the    *)
(* order in which select serves joinCh and onlineCh is the only thing that *)
(* can put a connected player in grace.                                    *)
ConnectedOnline == \A u \in conn \ late : u \in players /\ online[u]

(* A player whose connection is lost is in grace, or the loop still has to *)
(* read of it, unless the mailbox was full when it was to be told: nothing *)
(* but that makes a seat that nobody sits in look taken.                   *)
LossNoticed ==
  \A u \in players \ (conn \cup missed) : online[u] => Pending(u)

(* What the comment in SetOffline (room.go:205) says of the message it     *)
(* throws away: a later disconnection or the eviction makes up for it, so  *)
(* whoever has lost the connection does not keep its seat for ever.        *)
LostPlayerGoes ==
  \A u \in Users :
    (u \in players \ conn) ~> (u \notin players \ conn \/ stopped)

(* The refinement mapping.                                                 *)
Abstract == INSTANCE Seats WITH held  <- {u \in players : online[u]},
                                grace <- Offline,
                                owed  <- hadPlayers /\ ~emptied

(* Every step of the loop is a step of the abstract room: only players in  *)
(* grace are dropped by the room, seats are kept on rejoin, and the notice *)
(* is owed exactly while an occupancy has not been reported.               *)
ImplementsSeats == Abstract!Spec

(* An offline player does not stay in the room for ever: it comes back, is *)
(* dropped, or the room ends.                                              *)
OfflineResolved ==
  \A u \in Users :
    (u \in Offline) ~> (u \notin Offline \/ stopped)

(* A room occupied while its callback is registered reports its next       *)
(* emptiness, unless it is populated again and again.                      *)
EmptyRoomReported ==
  \A k \in 0..MaxFills :
    [](players # {} /\ onEmpty = "set" /\ notices = k
         => []<>(players # {}) \/ <>(notices > k \/ stopped))
=============================================================================
