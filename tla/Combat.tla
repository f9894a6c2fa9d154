------------------------------- MODULE Combat -------------------------------
(***************************************************************************)
(* The fighting half of one room: internal/room/combat.go and the parts of *)
(* room.go that drive it (handleInputMsg, the ticker case of loop,         *)
(* broadcastTick).  Everything runs in the loop's goroutine, so one case   *)
(* of its select is one action.                                            *)
(*                                                                         *)
(* Geometry is abstracted: whom a weapon reaches is any set of living      *)
(* other players of the size the weapon allows, so positions, walls and    *)
(* angles are left out.  Damage, the block bar, cooldowns, charges, deaths *)
(* and the events waiting for the next frame are all kept.  A report that  *)
(* CheckMove rejects changes none of these, so it is no step here.         *)
(***************************************************************************)
EXTENDS Integers, Sequences, FiniteSets

CONSTANTS
  Uids,             (* account ids                                          *)
  Aimed,            (* button weapons that hit one player: "gun"            *)
  Sweeping,         (* those that hit all in an arc: "sword", "dash"        *)
  MaxHP,            (* hit points of a fresh player: 100                    *)
  Damage,           (* [Weapons -> Nat]: GunDamage, SwordDamage, ...        *)
  Cooldown,         (* [Weapons -> Nat]: ticks, 4, 8, 45 and 30             *)
  BaseBlockMax,     (* block bar without equipment: 100                     *)
  Bonuses,          (* block_max effects an equipment can add               *)
  CombatBlockMin,   (* least bar that blocks: 10                            *)
  BlockCost,        (* bar spent by a blocked hit: 10                       *)
  RespawnTicks,     (* 60                                                   *)
  LockMaxCharges,   (* 3                                                    *)
  LockChargeTicks,  (* LockChargeSeconds at 30 Hz                           *)
  SettleScore,      (* Config.SettleScore, 0 when off                       *)
  SettleTicks,      (* Config.SettleTicks, 0 when off                       *)
  MaxHits,          (* bound: hits landed in a run                          *)
  MaxDepartures     (* bound: players that leave in a run                   *)

Weapons == Aimed \cup Sweeping \cup {"lock"}

ASSUME CombatAssumption ==
  /\ IsFiniteSet(Uids)
  /\ Aimed \cap Sweeping = {}
  /\ {"lock", "none"} \cap (Aimed \cup Sweeping) = {}
  /\ MaxHP \in Nat \ {0}
  /\ Damage \in [Weapons -> Nat \ {0}]
  /\ Cooldown \in [Weapons -> Nat \ {0}]
  /\ BaseBlockMax \in Nat
  /\ Bonuses \subseteq Nat
  /\ CombatBlockMin \in Nat
  /\ BlockCost \in Nat
  /\ RespawnTicks \in Nat \ {0}
  /\ LockMaxCharges \in Nat
  /\ LockChargeTicks \in Nat \ {0}
  /\ SettleScore \in Nat
  /\ SettleTicks \in Nat
  /\ MaxHits \in Nat
  /\ MaxDepartures \in Nat

VARIABLES
  players,        (* keys of Room.players                                   *)
  p,              (* the Player of each key, NewPlayer for the others       *)
  pendingEvents,  (* Room.pendingEvents, one entry per attack that hit      *)
  onBroadcast,    (* Room.onBroadcast is set                                *)
  tick,           (* Room.tick, counted up to SettleTicks                   *)
  settled,        (* Room.settled                                           *)
  heard,          (* history: every frame that had events had a listener    *)
  pastScore,      (* history: the score each account took along whenever it *)
  pastDeaths,     (* left, and the deaths                                   *)
  hits,           (* history: hits landed                                   *)
  departures      (* history: players that left or were evicted             *)

past == <<pastScore, pastDeaths>>
vars == <<players, p, pendingEvents, onBroadcast, tick, settled, heard, past,
          hits, departures>>

(* addPlayer's Player.  announced and respawns are history: how many Death *)
(* messages named this player, how often it respawned.                     *)
NewPlayer ==
  [hp |-> MaxHP, deadTicks |-> 0, score |-> 0, deaths |-> 0,
   block |-> BaseBlockMax, blockMax |-> BaseBlockMax, guard |-> FALSE,
   cd |-> [w \in Weapons |-> 0], charges |-> 0, timer |-> 0,
   justDied |-> FALSE, announced |-> 0, respawns |-> 0]

Init ==
  /\ players = {}
  /\ p = [u \in Uids |-> NewPlayer]
  /\ pendingEvents = <<>>
  /\ onBroadcast = FALSE
  /\ tick = 0
  /\ settled = FALSE
  /\ heard = TRUE
  /\ pastScore = [u \in Uids |-> 0] /\ pastDeaths = [u \in Uids |-> 0]
  /\ hits = 0
  /\ departures = 0

-----------------------------------------------------------------------------
(* One hit (Combat.hit) on a player record q.                              *)

Dead(q) == q.deadTicks > 0

Blocking(q) == q.guard /\ q.block >= CombatBlockMin

Least(a, b) == IF a <= b THEN a ELSE b

(* Mutant: the subtraction is not clamped.                                 *)
DealtUnclamped(q, w) ==
  IF Blocking(q) THEN Damage[w] \div 2 ELSE Damage[w]

Dealt(q, w) ==
  Least(IF Blocking(q) THEN Damage[w] \div 2 ELSE Damage[w], q.hp)

Killed(q, w) == Dealt(q, w) = q.hp

(* The target's bar pays for a block, and a target left without hit points *)
(* dies: it is counted, benched for RespawnTicks and marked JustDied.      *)
Struck(q, w) ==
  LET bar == IF Blocking(q) THEN q.block - Least(BlockCost, q.block)
                            ELSE q.block
      hurt == [q EXCEPT !.hp = @ - Dealt(q, w), !.block = bar]
  IN IF Killed(q, w)
     THEN [hurt EXCEPT !.deaths = @ + 1, !.deadTicks = RespawnTicks,
                       !.justDied = TRUE]
     ELSE hurt

-----------------------------------------------------------------------------
(* An attack of s with weapon w on the set T of players, in the table q.   *)

(* Mutant: the dead may attack.                                            *)
ReadyWhenDead(q, s, w) ==
  /\ q[s].cd[w] = 0
  /\ w = "lock" => q[s].charges > 0

Ready(q, s, w) ==
  /\ ~Dead(q[s])
  /\ q[s].cd[w] = 0
  /\ w = "lock" => q[s].charges > 0

(* Mutant: the dead are not skipped.                                       *)
ReachableDead(q, s, w) ==
  LET others == players \ {s}
  IN IF w \in Sweeping THEN SUBSET others
                      ELSE {{}} \cup {{t} : t \in others}

(* ApplyShot and ApplyLock hit the nearest player, ApplySword and          *)
(* ApplyDash everyone within their arc; the dead are never hit.            *)
Reachable(q, s, w) ==
  LET living == {t \in players \ {s} : ~Dead(q[t])}
  IN IF w \in Sweeping THEN SUBSET living
                      ELSE {{}} \cup {{t} : t \in living}

(* The cooldown and the charge are spent whether or not anyone is hit.     *)
Spend(q, s, w) ==
  [q EXCEPT ![s].cd[w] = Cooldown[w],
            ![s].charges = IF w = "lock" THEN @ - 1 ELSE @]

(* Mutant: a swing that kills several players scores one.                  *)
LandScoresOnce(q, s, w, T) ==
  [u \in Uids |->
     IF u \in T THEN Struck(q[u], w)
     ELSE IF u = s /\ \E t \in T : Killed(q[t], w)
          THEN [q[s] EXCEPT !.score = @ + 1]
          ELSE q[u]]

Land(q, s, w, T) ==
  [u \in Uids |->
     IF u \in T THEN Struck(q[u], w)
     ELSE IF u = s
          THEN [q[s] EXCEPT !.score =
                              @ + Cardinality({t \in T : Killed(q[t], w)})]
          ELSE q[u]]

Attack(q, s, w, T) == Land(Spend(q, s, w), s, w, T)

(* The events of one attack.  Their order is that of a map iteration, but  *)
(* they share their shooter and have different targets.                    *)
Events(s, T) == IF T = {} THEN <<>> ELSE <<[shooter |-> s, targets |-> T]>>

(* The choices of an input with weapon w, or with none; to use one that is *)
(* not ready is to use none.                                               *)
Choices(q, s, w) ==
  IF w \in Weapons THEN {T \in Reachable(q, s, w) : Ready(q, s, w)} ELSE {{}}

After(q, s, w, T) == IF w \in Weapons THEN Attack(q, s, w, T) ELSE q

(* handleInputMsg for a report that CheckMove accepts: the buttons are     *)
(* stored even by a dead player; fire, sword and dash exclude each other,  *)
(* the lock comes on top and sees the first attack's outcome.              *)
Input(u) ==
  /\ u \in players
  /\ \E guard \in BOOLEAN, main \in Aimed \cup Sweeping \cup {"none"},
        lock \in {"none", "lock"} :
       LET p1 == [p EXCEPT ![u].guard = guard]
       IN \E T1 \in Choices(p1, u, main) :
            LET p2 == After(p1, u, main, T1)
            IN \E T2 \in Choices(p2, u, lock) :
                 /\ hits + Cardinality(T1) + Cardinality(T2) <= MaxHits
                 /\ hits' = hits + Cardinality(T1) + Cardinality(T2)
                 /\ p' = After(p2, u, lock, T2)
                 /\ pendingEvents' = pendingEvents \o Events(u, T1)
                                                   \o Events(u, T2)
  /\ UNCHANGED <<players, onBroadcast, tick, settled, heard, past, departures>>

-----------------------------------------------------------------------------
(* Coming, going and equipment.                                            *)

Enter(u) ==
  /\ u \notin players
  /\ players' = players \cup {u}
  /\ p' = [p EXCEPT ![u] = NewPlayer]
  /\ UNCHANGED <<pendingEvents, onBroadcast, tick, settled, heard, past,
                 hits, departures>>

(* The history kept about the players of gone when they are deleted.       *)
Forget(gone) ==
  /\ pastScore' = [u \in Uids |-> pastScore[u]
                                    + (IF u \in gone THEN p[u].score ELSE 0)]
  /\ pastDeaths' = [u \in Uids |-> pastDeaths[u]
                                    + (IF u \in gone THEN p[u].deaths ELSE 0)]
  /\ departures + Cardinality(gone) <= MaxDepartures
  /\ departures' = departures + Cardinality(gone)

Leave(u) ==
  /\ u \in players
  /\ players' = players \ {u}
  /\ p' = [p EXCEPT ![u] = NewPlayer]
  /\ Forget({u})
  /\ UNCHANGED <<pendingEvents, onBroadcast, tick, settled, heard, hits>>

(* applyEquip: the bar is refilled to its new maximum.                     *)
Equip(u) ==
  /\ u \in players
  /\ \E bonus \in Bonuses :
       p' = [p EXCEPT ![u].blockMax = BaseBlockMax + bonus,
                      ![u].block = BaseBlockMax + bonus]
  /\ UNCHANGED <<players, pendingEvents, onBroadcast, tick, settled, heard,
                 past, hits, departures>>

SetBroadcast ==
  /\ ~onBroadcast
  /\ onBroadcast' = TRUE
  /\ UNCHANGED <<players, p, pendingEvents, tick, settled, heard, past,
                 hits, departures>>

-----------------------------------------------------------------------------
(* The frame.                                                              *)

Recharged(q) ==
  IF q.charges >= LockMaxCharges THEN q
  ELSE IF q.timer + 1 >= LockChargeTicks
       THEN [q EXCEPT !.timer = 0, !.charges = @ + 1]
       ELSE [q EXCEPT !.timer = @ + 1]

Respawned(q) ==
  IF q.deadTicks = 0 THEN q
  ELSE IF q.deadTicks > 1 THEN [q EXCEPT !.deadTicks = @ - 1]
  ELSE [q EXCEPT !.deadTicks = 0, !.hp = MaxHP, !.block = q.blockMax,
                 !.respawns = @ + 1]

(* TickCombat for one player.                                              *)
Advanced(q) ==
  LET cooled == [q EXCEPT !.cd = [w \in Weapons |->
                                    IF q.cd[w] > 0 THEN q.cd[w] - 1 ELSE 0]]
  IN Respawned(Recharged(cooled))

(* Some event of the frame names the victim: the first one that does      *)
(* carries its Death message.                                              *)
Named(u) ==
  \E i \in 1..Len(pendingEvents) : u \in pendingEvents[i].targets

(* Mutant: the mark is not cleared.                                        *)
AnnouncedKeepsMark(q, u) ==
  IF q.justDied /\ Named(u) THEN [q EXCEPT !.announced = @ + 1] ELSE q

(* broadcastTick on one player: its Death message, once.                   *)
Announced(q, u) ==
  IF q.justDied /\ Named(u)
  THEN [q EXCEPT !.justDied = FALSE, !.announced = @ + 1]
  ELSE q

SettleReason(q, seated, now) ==
  \/ SettleScore > 0 /\ \E u \in seated : q[u].score >= SettleScore
  \/ SettleTicks > 0 /\ now >= SettleTicks

(* broadcastTick's last part: the settlement, latched.                     *)
Settle(q, seated, now) ==
  IF ~settled /\ SettleReason(q, seated, now)
  THEN settled' = TRUE
  ELSE UNCHANGED settled

(* The ticker case: TickCombat, then the evictions of tickOfflinePlayers   *)
(* (any players here: Room.tla says which), then broadcastTick if someone  *)
(* listens.                                                                *)
Tick ==
  \E gone \in SUBSET players :
    LET left == players \ gone
        q == [u \in Uids |-> IF u \in left THEN Advanced(p[u]) ELSE NewPlayer]
    IN /\ players' = left
       /\ Forget(gone)
       /\ heard' = (heard /\ (onBroadcast \/ pendingEvents = <<>>))
       /\ tick' = Least(tick + 1, SettleTicks)
       /\ IF onBroadcast
          THEN /\ p' = [u \in Uids |-> Announced(q[u], u)]
               /\ pendingEvents' = <<>>
               /\ Settle(q, left, tick')
          ELSE /\ p' = q
               /\ UNCHANGED <<pendingEvents, settled>>
       /\ UNCHANGED <<onBroadcast, hits>>

Next == \/ \E u \in Uids : Input(u) \/ Enter(u) \/ Leave(u) \/ Equip(u)
        \/ SetBroadcast
        \/ Tick

Spec == Init /\ [][Next]_vars

-----------------------------------------------------------------------------
(* Properties.                                                             *)

PlayerType ==
  [hp : 0..MaxHP, deadTicks : 0..RespawnTicks, score : Nat, deaths : Nat,
   block : Nat, blockMax : Nat, guard : BOOLEAN,
   cd : [Weapons -> Nat], charges : 0..LockMaxCharges,
   timer : 0..(LockChargeTicks - 1), justDied : BOOLEAN,
   announced : Nat, respawns : Nat]

Event == [shooter : Uids, targets : SUBSET Uids]

(* Every field stays in its range: hit points never underflow, charges     *)
(* never exceed LockMaxCharges, no bar exceeds what the equipment allows,  *)
(* no cooldown exceeds its weapon's.                                       *)
TypeOK ==
  /\ players \subseteq Uids
  /\ p \in [Uids -> PlayerType]
  /\ \A u \in Uids : /\ p[u].block <= p[u].blockMax
                     /\ \A w \in Weapons : p[u].cd[w] <= Cooldown[w]
  /\ pendingEvents \in Seq(Event)
  /\ onBroadcast \in BOOLEAN
  /\ tick \in 0..SettleTicks
  /\ settled \in BOOLEAN
  /\ heard \in BOOLEAN
  /\ pastScore \in [Uids -> Nat] /\ pastDeaths \in [Uids -> Nat]
  /\ hits \in 0..MaxHits
  /\ departures \in 0..MaxDepartures

(* A player without hit points is exactly one waiting for its respawn, and *)
(* every death it was counted has led to one respawn, or is about to: no   *)
(* attack counts a death twice, and none is missed.                        *)
LifeCycle ==
  \A u \in players :
    /\ p[u].hp = 0 <=> Dead(p[u])
    /\ p[u].deaths = p[u].respawns + (IF Dead(p[u]) THEN 1 ELSE 0)

(* As long as the room had a listener whenever a frame had events (the     *)
(* gateway registers one right after the first join), every death of a     *)
(* player that is still in the room has been announced by one Death        *)
(* message, or its event is waiting for the next frame: a death is neither *)
(* lost nor announced twice.                                               *)
DeathsAnnounced ==
  heard => \A u \in players :
    /\ p[u].deaths = p[u].announced + (IF p[u].justDied THEN 1 ELSE 0)
    /\ p[u].justDied => Named(u)

(* f[u] points for each account u, as a set: the first one, the second...  *)
Points(f) == UNION {{u} \X (1..f[u]) : u \in Uids}

Kills == [u \in Uids |-> pastScore[u] + p[u].score]
Deaths == [u \in Uids |-> pastDeaths[u] + p[u].deaths]

(* Kills and deaths of the scoreboard balance, counting what the players   *)
(* that left took along (the NewPlayer of an absent one adds nothing).     *)
ScoreboardBalances == Cardinality(Points(Kills)) = Cardinality(Points(Deaths))

(* Nobody scores from the bench: a score rises only in a step that finds   *)
(* and leaves its owner alive, and a player that respawns has not lost its *)
(* score.                                                                  *)
NoPosthumousScore ==
  [][\A u \in players \cap players' :
       /\ p'[u].score >= p[u].score
       /\ p'[u].score > p[u].score => ~Dead(p[u]) /\ ~Dead(p'[u])]_vars
=============================================================================
