------------------------------ MODULE Movement ------------------------------
(***************************************************************************)
(* Where a player is: room/validation.go (CheckMove, MarkViolation,        *)
(* ApplyInput), the queue before it (Room.HandleInput, handleInputMsg) and *)
(* the places that move a player (addPlayer, the respawn in TickCombat).   *)
(* The client moves and reports where it is; the room adopts a report      *)
(* unless it is too far from the last one it adopted.                      *)
(*                                                                         *)
(* Places are points of a line.  The client, which is not in this          *)
(* repository, is honest: it moves at most Step between two reports,       *)
(* reports in order, goes on reporting while it is dead, and goes to its   *)
(* spawn point when it hears that it lives again.  Values out of range and *)
(* NaN, which CheckMove rejects as well, an honest client does not send.   *)
(*                                                                         *)
(* On the ground the fastest is a wall run of 16 * 1.6 = 25.6 m/s, 0.8533  *)
(* m in a frame of 30 Hz, and MaxHorzStep is 1.7: a little less than two   *)
(* of them (1.7067).  Falling, the two are 2.0 and 4.0.  The tolerance of  *)
(* twice a step and the metre on top that validation.go:15 speaks of are   *)
(* not what the code has, so nothing is assumed here but that a single     *)
(* step is within the limit.                                               *)
(***************************************************************************)
EXTENDS Integers, Sequences

CONSTANTS Places,        (* the line: an interval of Int                     *)
          SpawnPoints,   (* SpawnPoints of spawnpoints.go                    *)
          Step,          (* the furthest one goes in a frame: 0.8533         *)
          MaxStep,       (* MaxHorzStep: 1.7                                 *)
          MaxSuspicious, (* 3                                                *)
          MaxPending,    (* bound: reports under way                         *)
          MaxLives       (* bound: lives of the player                       *)

ASSUME MovementAssumption ==
  /\ Places \subseteq Int /\ SpawnPoints \subseteq Places
  /\ Step \in Nat /\ MaxStep \in Nat /\ Step <= MaxStep
  /\ MaxSuspicious \in Nat /\ MaxPending \in Nat /\ MaxLives \in Nat

VARIABLES
  at,          (* where the client is                                        *)
  life,        (* the life it believes to live, counted from 1               *)
  lost,        (* the last report, of this life, was lost                    *)
  walked,      (* how far it has gone, in this life, since the last report   *)
               (* that was not lost, counted up to MaxStep + 1               *)
  inputs,      (* reports on their way, in the socket or in inputCh: place   *)
               (* and life, and the two above as of the report               *)
  pos,         (* Player.X, Y and Z                                          *)
  dead,        (* Player.Dead                                                *)
  firstReport, (* Player.FirstReport                                         *)
  suspicious,  (* Player.Suspicious, counted up to MaxSuspicious             *)
  lives,       (* history: lives the room has given the player               *)
  states,      (* spawn points the client has not heard of                   *)
  behind       (* history: the report adopted last in this life was sent in  *)
               (* an earlier one                                             *)

client == <<at, life, lost, walked>>
player == <<pos, dead, firstReport, suspicious, lives, behind>>
moveVars == <<client, inputs, player, states>>

Distance(a, b) == IF a < b THEN b - a ELSE a - b

(* walked, after a move to x.                                              *)
Farther(x) == IF walked + Distance(at, x) > MaxStep
              THEN MaxStep + 1
              ELSE walked + Distance(at, x)

(* addPlayer: a spawn point, which the client gets with the answer.        *)
MoveInit ==
  /\ at \in SpawnPoints /\ pos = at
  /\ life = 1 /\ lives = 1
  /\ lost = FALSE /\ walked = 0 /\ inputs = <<>>
  /\ dead = FALSE /\ firstReport = TRUE /\ suspicious = 0
  /\ states = <<>> /\ behind = FALSE

-----------------------------------------------------------------------------
Report(kept) ==
  /\ Len(inputs) < MaxPending
  /\ \E x \in Places :
       /\ Distance(at, x) <= Step
       /\ at' = x
       /\ inputs' = IF kept
                    THEN Append(inputs, [at |-> x, life |-> life,
                                         lost |-> lost,
                                         walked |-> Farther(x)])
                    ELSE inputs
       /\ walked' = IF kept THEN 0 ELSE Farther(x)
  /\ lost' = ~kept
  /\ UNCHANGED <<life, player, states>>

(* HandleInput of a report that finds inputCh full, of its own or of other *)
(* players' reports, drops it.  The reports that are not made while the    *)
(* client is away within the grace period count as dropped, too: a Player  *)
(* that is back is where it was.                                           *)
Send == Report(TRUE)
HandleInputDrops == Report(FALSE)

Hear ==
  /\ states # <<>>
  /\ at' = Head(states) /\ life' = life + 1
  /\ lost' = FALSE /\ walked' = 0
  /\ states' = Tail(states)
  /\ UNCHANGED <<inputs, player>>

-----------------------------------------------------------------------------
(* Mutant: there is no tolerance.                                          *)
CheckMoveTight(r) == firstReport \/ dead \/ Distance(pos, r.at) <= Step

CheckMove(r) == firstReport \/ dead \/ Distance(pos, r.at) <= MaxStep

ApplyInput(r) ==
  /\ pos' = r.at
  /\ firstReport' = FALSE
  /\ behind' = (r.life # lives)

(* handleInputMsg of the oldest report.                                    *)
HandleInput ==
  /\ inputs # <<>>
  /\ inputs' = Tail(inputs)
  /\ IF CheckMove(Head(inputs))
     THEN ApplyInput(Head(inputs)) /\ suspicious' = 0
     ELSE /\ suspicious' = IF suspicious < MaxSuspicious THEN suspicious + 1
                                                         ELSE suspicious
          /\ UNCHANGED <<pos, firstReport, behind>>
  /\ UNCHANGED <<client, dead, lives, states>>

Die ==
  /\ ~dead /\ lives < MaxLives
  /\ dead' = TRUE
  /\ UNCHANGED <<client, inputs, pos, firstReport, suspicious, lives, behind,
                 states>>

(* TickCombat brings the player back, and the frame says where.            *)
Respawn(sp) ==
  /\ dead /\ dead' = FALSE
  /\ pos' = sp /\ firstReport' = TRUE
  /\ lives' = lives + 1 /\ behind' = FALSE
  /\ states' = Append(states, sp)
  /\ UNCHANGED <<client, inputs, suspicious>>

MoveNext ==
  \/ Send \/ HandleInputDrops \/ Hear
  \/ HandleInput \/ Die \/ \E sp \in SpawnPoints : Respawn(sp)

MoveSpec == MoveInit /\ [][MoveNext]_moveVars

-----------------------------------------------------------------------------
(* Properties.                                                             *)

(* The room rejects an honest client's report only when one was lost       *)
(* before it and the player has gone further than MaxStep since the last   *)
(* that was not, or when a report sent before the respawn used up the      *)
(* exemption of the first one; or when it has rejected the one before.     *)
(* The tolerance does make up for what is lost as long as the player does  *)
(* not go further than it in the meantime, whatever else is under way, and *)
(* the exemption for a respawn that no report crosses.                     *)
HonestAccepted ==
  [][suspicious' > suspicious =>
       \/ Head(inputs).lost /\ Head(inputs).walked > MaxStep
       \/ behind
       \/ suspicious > 0]_moveVars
=============================================================================
