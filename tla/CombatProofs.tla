---------------------------- MODULE CombatProofs ----------------------------
(***************************************************************************)
(* Proofs about Combat.tla, for every finite set of accounts, every        *)
(* weapon's damage and cooldown, and every number of hits and departures:  *)
(* who lives, who dies, who scores, who is told, and that the scoreboard   *)
(* balances.                                                               *)
(*                                                                         *)
(* One attack is a function on tables of players, and an input makes up to *)
(* three such changes one after the other: the button, one of the weapons, *)
(* and the lock shot on what that has left. So the lemmas say of each      *)
(* change which of a player's promises it keeps (Outcome), that two        *)
(* changes in a row keep them as well (OutcomeChain), and InputStep        *)
(* applies that twice. A frame is the same for every player by itself      *)
(* (AdvancedFits).                                                         *)
(***************************************************************************)
EXTENDS Combat, FiniteSetTheorems, TLAPS

(* A player in its type, with no bar and no cooldown beyond its bound.     *)
Fit(x) ==
  /\ x \in PlayerType
  /\ x.block <= x.blockMax
  /\ \A w \in Weapons : x.cd[w] <= Cooldown[w]

(* LifeCycle for one player.                                               *)
Cycle(x) ==
  /\ x.hp = 0 <=> Dead(x)
  /\ x.deaths = x.respawns + (IF Dead(x) THEN 1 ELSE 0)

(* Every death is announced or marked, and the mark goes before the player *)
(* comes back: otherwise a second death would find it set and be lost.     *)
Marked(x) ==
  /\ x.deaths = x.announced + (IF x.justDied THEN 1 ELSE 0)
  /\ x.justDied => Dead(x)

(* A table of players, such as p and those that handleInputMsg goes        *)
(* through.                                                                *)
Table(q) == q \in [Uids -> PlayerType] /\ \A u \in Uids : Fit(q[u])

(* The fields of a player that fits.                                       *)
LEMMA FieldTypes ==
  ASSUME NEW x, Fit(x)
  PROVE  /\ x.hp \in 0..MaxHP /\ x.deadTicks \in 0..RespawnTicks
         /\ x.score \in Nat /\ x.deaths \in Nat
         /\ x.block \in Nat /\ x.blockMax \in Nat /\ x.guard \in BOOLEAN
         /\ x.cd \in [Weapons -> Nat] /\ x.charges \in 0..LockMaxCharges
         /\ x.timer \in 0..(LockChargeTicks - 1) /\ x.justDied \in BOOLEAN
         /\ x.announced \in Nat /\ x.respawns \in Nat
BY DEF Fit, PlayerType

(* A hit takes at most what the target has, blocked or not.                *)
LEMMA DealtRange ==
  ASSUME NEW x, Fit(x), NEW w \in Weapons
  PROVE  Dealt(x, w) \in 0..x.hp
<1>1. x.hp \in Nat
  BY FieldTypes, CombatAssumption
<1>2. Damage[w] \in Nat /\ Damage[w] \div 2 \in Nat
  BY CombatAssumption
<1> QED BY <1>1, <1>2 DEF Dealt, Least

(* A target stays in its type, and gains no score.                         *)
LEMMA StruckFit ==
  ASSUME NEW x, Fit(x), NEW w \in Weapons
  PROVE  /\ Fit(Struck(x, w))
         /\ Struck(x, w).score = x.score
<1> DEFINE bar == IF Blocking(x) THEN x.block - Least(BlockCost, x.block)
                                 ELSE x.block
           hurt == [x EXCEPT !.hp = @ - Dealt(x, w), !.block = bar]
<1>1. x.hp - Dealt(x, w) \in 0..MaxHP
  BY DealtRange, FieldTypes, CombatAssumption
<1>2. bar \in Nat /\ bar <= x.block
  BY FieldTypes, CombatAssumption DEF Least
<1>3. bar <= x.blockMax
  BY <1>2, FieldTypes DEF Fit
<1>4. hurt \in PlayerType
  BY <1>1, <1>2 DEF Fit, PlayerType
<1>5. /\ hurt.block = bar /\ hurt.blockMax = x.blockMax /\ hurt.cd = x.cd
      /\ hurt.score = x.score
  BY DEF Fit, PlayerType
<1>6. Fit(hurt) /\ hurt.score = x.score
  BY <1>3, <1>4, <1>5 DEF Fit
<1> DEFINE dead == [hurt EXCEPT !.deaths = @ + 1, !.deadTicks = RespawnTicks,
                                !.justDied = TRUE]
<1> HIDE DEF hurt
<1>7. RespawnTicks \in 0..RespawnTicks /\ hurt.deaths + 1 \in Nat
  BY <1>6, FieldTypes, CombatAssumption
<1>8. dead \in PlayerType
  BY <1>6, <1>7 DEF Fit, PlayerType
<1>9. /\ dead.block = hurt.block /\ dead.blockMax = hurt.blockMax
      /\ dead.cd = hurt.cd /\ dead.score = hurt.score
  BY <1>6 DEF Fit, PlayerType
<1>10. Fit(dead) /\ dead.score = x.score
  BY <1>6, <1>8, <1>9 DEF Fit
<1>11. Struck(x, w) = IF Killed(x, w) THEN dead ELSE hurt
  BY DEF Struck, hurt
<1> QED BY <1>6, <1>10, <1>11

(* What else a hit does to its target.                                     *)
LEMMA StruckFields ==
  ASSUME NEW x, Fit(x), NEW w \in Weapons
  PROVE  /\ Struck(x, w).hp = x.hp - Dealt(x, w)
         /\ Struck(x, w).respawns = x.respawns
         /\ Struck(x, w).announced = x.announced
         /\ Killed(x, w) =>
              /\ Struck(x, w).deaths = x.deaths + 1
              /\ Struck(x, w).deadTicks = RespawnTicks
              /\ Struck(x, w).justDied
         /\ ~Killed(x, w) =>
              /\ Struck(x, w).deaths = x.deaths
              /\ Struck(x, w).deadTicks = x.deadTicks
              /\ Struck(x, w).justDied = x.justDied
BY DEF Fit, PlayerType, Struck

(* A living target keeps its cycle and its mark, whether it dies or not.   *)
LEMMA StruckLives ==
  ASSUME NEW x, Fit(x), NEW w \in Weapons, ~Dead(x), Cycle(x)
  PROVE  /\ Cycle(Struck(x, w))
         /\ Marked(x) => Marked(Struck(x, w))
<1> DEFINE y == Struck(x, w)
<1>1. /\ x.hp \in 0..MaxHP /\ x.deadTicks \in 0..RespawnTicks
      /\ x.deaths \in Nat /\ x.respawns \in Nat /\ x.announced \in Nat
      /\ x.justDied \in BOOLEAN
  BY FieldTypes
<1>2. Dealt(x, w) \in 0..x.hp
  BY DealtRange
<1>3. CASE Killed(x, w)
  <2>1. y.hp = 0 /\ Dead(y) /\ y.deaths = x.deaths + 1 /\ y.justDied
    BY <1>1, <1>2, <1>3, StruckFields, CombatAssumption DEF Killed, Dead
  <2>2. y.respawns = x.respawns /\ y.announced = x.announced
    BY StruckFields
  <2>3. x.deaths = x.respawns
    BY <1>1 DEF Cycle
  <2>4. Marked(x) => x.deaths = x.announced
    BY <1>1 DEF Marked
  <2> QED BY <1>1, <2>1, <2>2, <2>3, <2>4 DEF Cycle, Marked
<1>4. CASE ~Killed(x, w)
  <2>1. y.hp # 0
    BY <1>1, <1>2, <1>4, StruckFields DEF Killed
  <2>2. /\ y.deadTicks = x.deadTicks /\ y.deaths = x.deaths
        /\ y.justDied = x.justDied
        /\ y.respawns = x.respawns /\ y.announced = x.announced
    BY <1>4, StruckFields
  <2> QED BY <2>1, <2>2 DEF Cycle, Marked, Dead
<1> QED BY <1>3, <1>4

-----------------------------------------------------------------------------

(* What one step of an input, by s on the targets T, keeps on the way from *)
(* table q to table r.                                                     *)
Outcome(q, r, s, T) ==
  /\ Table(r)
  /\ \A u \in players :
       /\ Cycle(q[u]) => Cycle(r[u])
       /\ Cycle(q[u]) /\ Marked(q[u]) => Marked(r[u])
       /\ r[u].justDied => q[u].justDied \/ u \in T
       /\ r[u].score >= q[u].score
       /\ r[u].score > q[u].score => ~Dead(q[u]) /\ ~Dead(r[u])
       /\ u = s => r[u].deadTicks = q[u].deadTicks
       /\ u # s => r[u].score = q[u].score

(* Everything about a player but its cooldowns, charges and score.         *)
SameLife(x, y) ==
  /\ y.hp = x.hp /\ y.deadTicks = x.deadTicks /\ y.deaths = x.deaths
  /\ y.justDied = x.justDied /\ y.announced = x.announced
  /\ y.respawns = x.respawns

(* Cooldown and charge are spent; a lock shot has a charge to spend.       *)
LEMMA SpendFits ==
  ASSUME NEW q, Table(q), NEW s \in Uids, NEW w \in Weapons, Ready(q, s, w)
  PROVE  /\ Table(Spend(q, s, w))
         /\ \A u \in Uids : u # s => Spend(q, s, w)[u] = q[u]
         /\ SameLife(q[s], Spend(q, s, w)[s])
         /\ Spend(q, s, w)[s].score = q[s].score
<1> DEFINE r == Spend(q, s, w)
           c == IF w = "lock" THEN q[s].charges - 1 ELSE q[s].charges
           d == [q[s].cd EXCEPT ![w] = Cooldown[w]]
<1>1. Fit(q[s]) /\ q[s] \in PlayerType
  BY DEF Table
<1>2. c \in 0..LockMaxCharges
  BY <1>1, FieldTypes, CombatAssumption DEF Ready
<1>3. d \in [Weapons -> Nat] /\ \A v \in Weapons : d[v] <= Cooldown[v]
  BY <1>1, FieldTypes, CombatAssumption DEF Fit
<1>4. r[s] = [q[s] EXCEPT !.cd = d, !.charges = c]
  BY <1>1 DEF Spend, Table, PlayerType
<1>5. r = [q EXCEPT ![s] = r[s]]
  BY DEF Spend, Table
<1> HIDE DEF r, c, d
<1>6. r[s] \in PlayerType
  BY <1>1, <1>2, <1>3, <1>4 DEF PlayerType
<1>7. /\ r[s].cd = d /\ r[s].block = q[s].block
      /\ r[s].blockMax = q[s].blockMax /\ r[s].score = q[s].score
      /\ SameLife(q[s], r[s])
  BY <1>1, <1>4 DEF PlayerType, SameLife
<1>8. Fit(r[s])
  BY <1>1, <1>3, <1>6, <1>7 DEF Fit
<1>9. \A u \in Uids : u # s => r[u] = q[u]
  BY <1>5 DEF Table
<1>10. Table(r)
  BY <1>5, <1>6, <1>8, <1>9 DEF Table
<1> QED BY <1>7, <1>9, <1>10 DEF r

(* Struck is the fate of the targets, all of them alive; the shooter       *)
(* scores; nobody else is touched.                                         *)
LEMMA AttackOutcome ==
  ASSUME players \subseteq Uids,
         NEW q, Table(q), NEW s \in players, NEW w \in Weapons,
         Ready(q, s, w), NEW T \in Reachable(q, s, w)
  PROVE  Outcome(q, Attack(q, s, w, T), s, T)
<1> DEFINE r == Spend(q, s, w)
           a == Attack(q, s, w, T)
           n == Cardinality({t \in T : Killed(r[t], w)})
<1>1. /\ T \subseteq players \ {s}
      /\ \A t \in T : ~Dead(q[t])
  BY DEF Reachable
<1>2. /\ Table(r) /\ \A u \in Uids : u # s => r[u] = q[u]
      /\ SameLife(q[s], r[s]) /\ r[s].score = q[s].score
  BY SpendFits
<1>3. n \in Nat
  <2>1. IsFiniteSet({t \in T : Killed(r[t], w)})
    <3>1. {t \in T : Killed(r[t], w)} \subseteq Uids
      BY <1>1
    <3> QED BY <3>1, FS_Subset, CombatAssumption
  <2> QED BY <2>1, FS_CardinalityType
<1> HIDE DEF n
<1>4. a = [u \in Uids |-> IF u \in T THEN Struck(r[u], w)
                          ELSE IF u = s THEN [r[s] EXCEPT !.score = @ + n]
                          ELSE r[u]]
  BY DEF Attack, Land, n
<1>5. \A u \in T : /\ a[u] = Struck(q[u], w)
                   /\ Fit(q[u]) /\ Fit(a[u]) /\ a[u].score = q[u].score
  <2> SUFFICES ASSUME NEW u \in T
               PROVE  /\ a[u] = Struck(q[u], w)
                      /\ Fit(q[u]) /\ Fit(a[u]) /\ a[u].score = q[u].score
    OBVIOUS
  <2>1. u \in Uids /\ u # s
    BY <1>1
  <2>2. a[u] = Struck(q[u], w)
    BY <1>2, <1>4, <2>1
  <2> QED BY <2>1, <2>2, StruckFit DEF Table
<1>6. a[s] = [r[s] EXCEPT !.score = @ + n]
  BY <1>1, <1>4
<1>7. r[s] \in PlayerType /\ Fit(r[s]) /\ r[s].score \in Nat
  BY <1>2, FieldTypes DEF Table
<1>8. /\ SameLife(q[s], a[s]) /\ a[s].score = q[s].score + n
      /\ a[s] \in PlayerType
      /\ a[s].block = r[s].block /\ a[s].blockMax = r[s].blockMax
      /\ a[s].cd = r[s].cd
  BY <1>2, <1>3, <1>6, <1>7 DEF SameLife, PlayerType
<1>9. Fit(a[s])
  BY <1>7, <1>8 DEF Fit
<1>10. \A u \in Uids : u # s /\ u \notin T => a[u] = q[u] /\ Fit(a[u])
  BY <1>2, <1>4 DEF Table
<1>11. Table(a)
  <2>1. \A u \in Uids : Fit(a[u])
    BY <1>5, <1>9, <1>10
  <2>2. a = [u \in Uids |-> a[u]]
    BY <1>4
  <2> QED BY <2>1, <2>2 DEF Table, Fit
<1> HIDE DEF a, r
<1>12. ASSUME NEW u \in players
       PROVE  /\ Cycle(q[u]) => Cycle(a[u])
              /\ Cycle(q[u]) /\ Marked(q[u]) => Marked(a[u])
              /\ a[u].justDied => q[u].justDied \/ u \in T
              /\ a[u].score >= q[u].score
              /\ a[u].score > q[u].score => ~Dead(q[u]) /\ ~Dead(a[u])
              /\ u = s => a[u].deadTicks = q[u].deadTicks
              /\ u # s => a[u].score = q[u].score
  <2>1. Fit(q[u]) /\ q[u].score \in Nat
    BY FieldTypes DEF Table
  <2>2. CASE u \in T
    BY <1>1, <1>5, <2>1, <2>2, StruckLives
  <2>3. CASE u = s
    <3>1. SameLife(q[u], a[u]) /\ a[u].score = q[u].score + n
      BY <1>8, <2>3
    <3>2. (Cycle(q[u]) => Cycle(a[u])) /\ (Marked(q[u]) => Marked(a[u]))
      BY <3>1 DEF SameLife, Cycle, Marked, Dead
    <3>3. ~Dead(q[u]) /\ ~Dead(a[u])
      BY <2>3, <3>1 DEF Ready, SameLife, Dead
    <3>4. a[u].score >= q[u].score
      BY <1>3, <2>1, <3>1
    <3>5. a[u].justDied = q[u].justDied /\ a[u].deadTicks = q[u].deadTicks
      BY <3>1 DEF SameLife
    <3> QED BY <2>3, <3>2, <3>3, <3>4, <3>5
  <2>4. CASE u # s /\ u \notin T
    <3>1. a[u] = q[u]
      BY <1>10, <2>4
    <3> QED BY <2>1, <2>4, <3>1
  <2> QED BY <2>2, <2>3, <2>4
<1>13. Outcome(q, a, s, T)
  BY <1>11, <1>12 DEF Outcome
<1> QED BY <1>13 DEF a

(* The button is stored, and nothing else.                                 *)
LEMMA GuardOutcome ==
  ASSUME players \subseteq Uids, NEW q, Table(q), NEW s \in players,
         NEW g \in BOOLEAN
  PROVE  Outcome(q, [q EXCEPT ![s].guard = g], s, {})
<1> DEFINE r == [q EXCEPT ![s].guard = g]
<1>1. q[s] \in PlayerType /\ Fit(q[s])
  BY DEF Table
<1>2. r[s] = [q[s] EXCEPT !.guard = g] /\ \A u \in Uids : u # s => r[u] = q[u]
  BY DEF Table
<1>3. /\ r[s] \in PlayerType /\ SameLife(q[s], r[s])
      /\ r[s].score = q[s].score /\ r[s].cd = q[s].cd
      /\ r[s].block = q[s].block /\ r[s].blockMax = q[s].blockMax
  BY <1>1, <1>2 DEF PlayerType, SameLife
<1>4. Fit(r[s])
  BY <1>1, <1>3 DEF Fit
<1>5. r = [q EXCEPT ![s] = r[s]]
  BY DEF Table
<1>6. r \in [Uids -> PlayerType]
  BY <1>3, <1>5 DEF Table
<1>7. Table(r)
  BY <1>2, <1>4, <1>6 DEF Table
<1> HIDE DEF r
<1>8. \A u \in players : SameLife(q[u], r[u]) /\ r[u].score = q[u].score
  BY <1>2, <1>3 DEF SameLife
<1>9. \A u \in players : q[u].score \in Nat
  BY FieldTypes DEF Table
<1>10. Outcome(q, r, s, {})
  BY <1>7, <1>8, <1>9 DEF Outcome, SameLife, Cycle, Marked, Dead
<1> QED BY <1>10 DEF r

(* The same for an input, where the weapon may be missing.                 *)
LEMMA AfterOutcome ==
  ASSUME players \subseteq Uids,
         NEW q, Table(q), NEW s \in players, NEW w,
         NEW T \in Choices(q, s, w)
  PROVE  /\ Outcome(q, After(q, s, w, T), s, T)
         /\ T \subseteq players
<1>1. CASE w \in Weapons
  <2>1. /\ Ready(q, s, w) /\ T \in Reachable(q, s, w)
        /\ After(q, s, w, T) = Attack(q, s, w, T)
    BY <1>1 DEF Choices, After
  <2>2. T \subseteq players
    BY <2>1 DEF Reachable
  <2> QED BY <1>1, <2>1, <2>2, AttackOutcome
<1>2. CASE w \notin Weapons
  <2>1. T = {} /\ After(q, s, w, T) = q
    BY <1>2 DEF Choices, After
  <2>2. \A u \in players : q[u].score \in Nat
    BY FieldTypes DEF Table
  <2>3. Outcome(q, q, s, T)
    BY <2>2 DEF Outcome
  <2> QED BY <2>1, <2>3
<1> QED BY <1>1, <1>2

(* What two steps by the same shooter keep, both together keep: it cannot  *)
(* have died in between, since no weapon reaches its own shooter.          *)
LEMMA OutcomeChain ==
  ASSUME players \subseteq Uids,
         NEW q, NEW r, NEW x, NEW s \in players, NEW S, NEW T,
         Table(q), Outcome(q, r, s, S), Outcome(r, x, s, T)
  PROVE  Outcome(q, x, s, S \cup T)
<1>1. Table(r) /\ Table(x)
  BY DEF Outcome
<1>2. \A u \in players :
        q[u].score \in Nat /\ r[u].score \in Nat /\ x[u].score \in Nat
  BY <1>1, FieldTypes DEF Table
<1>3. ASSUME NEW u \in players
      PROVE  /\ Cycle(q[u]) => Cycle(x[u])
             /\ Cycle(q[u]) /\ Marked(q[u]) => Marked(x[u])
             /\ x[u].justDied => q[u].justDied \/ u \in S \cup T
  BY DEF Outcome
<1>4. ASSUME NEW u \in players
      PROVE  /\ x[u].score >= q[u].score
             /\ x[u].score > q[u].score => ~Dead(q[u]) /\ ~Dead(x[u])
             /\ u = s => x[u].deadTicks = q[u].deadTicks
             /\ u # s => x[u].score = q[u].score
  <2>1. CASE u = s
    <3>1. r[u].deadTicks = q[u].deadTicks /\ x[u].deadTicks = r[u].deadTicks
      BY <2>1 DEF Outcome
    <3>2. r[u].score >= q[u].score /\ x[u].score >= r[u].score
      BY DEF Outcome
    <3>3. /\ r[u].score > q[u].score => ~Dead(q[u])
          /\ x[u].score > r[u].score => ~Dead(x[u])
      BY DEF Outcome
    <3> QED BY <1>2, <2>1, <3>1, <3>2, <3>3 DEF Dead
  <2>2. CASE u # s
    <3>1. x[u].score = q[u].score
      BY <2>2 DEF Outcome
    <3> QED BY <1>2, <2>2, <3>1
  <2> QED BY <2>1, <2>2
<1> QED BY <1>1, <1>3, <1>4 DEF Outcome

-----------------------------------------------------------------------------

(* Named, for a list of events that is still being made.                   *)
NamedIn(es, u) == \E i \in 1..Len(es) : u \in es[i].targets

(* The events of an attack name its targets and drop nobody's name.        *)
LEMMA EventsName ==
  ASSUME NEW es \in Seq(Event), NEW s \in Uids, NEW T \in SUBSET Uids
  PROVE  /\ es \o Events(s, T) \in Seq(Event)
         /\ \A u \in Uids : NamedIn(es, u) \/ u \in T
                              => NamedIn(es \o Events(s, T), u)
<1>1. CASE T = {}
  <2>1. es \o Events(s, T) = es
    BY <1>1 DEF Events
  <2> QED BY <1>1, <2>1
<1>2. CASE T # {}
  <2> DEFINE e == [shooter |-> s, targets |-> T]
             fs == es \o <<e>>
  <2>1. Events(s, T) = <<e>>
    BY <1>2 DEF Events
  <2>2. e \in Event
    BY DEF Event
  <2>3. fs \in Seq(Event) /\ Len(fs) = Len(es) + 1
    BY <2>2
  <2>4. /\ fs[Len(es) + 1] = e
        /\ \A i \in 1..Len(es) : fs[i] = es[i]
    BY <2>2
  <2>5. Len(es) \in Nat
    OBVIOUS
  <2> HIDE DEF fs
  <2>6. ASSUME NEW u \in Uids, NamedIn(es, u)
        PROVE  NamedIn(fs, u)
    BY <2>3, <2>4, <2>5, <2>6 DEF NamedIn
  <2>7. ASSUME NEW u \in T
        PROVE  NamedIn(fs, u)
    <3>1. Len(es) + 1 \in 1..Len(fs) /\ u \in fs[Len(es) + 1].targets
      BY <2>3, <2>4, <2>5
    <3> QED BY <3>1 DEF NamedIn
  <2> QED BY <2>1, <2>3, <2>6, <2>7 DEF fs
<1> QED BY <1>1, <1>2

(* A player that has just come in.                                         *)
LEMMA NewFits ==
  /\ NewPlayer \in PlayerType /\ Fit(NewPlayer)
  /\ Cycle(NewPlayer) /\ Marked(NewPlayer) /\ ~NewPlayer.justDied
<1>1. NewPlayer \in PlayerType
  BY CombatAssumption DEF NewPlayer, PlayerType
<1>2. Fit(NewPlayer)
  BY <1>1, CombatAssumption DEF Fit, NewPlayer
<1> QED BY <1>1, <1>2, CombatAssumption
        DEF NewPlayer, Cycle, Marked, Dead

(* Recharging moves charges and timer only, within their ranges.           *)
LEMMA RechargedFits ==
  ASSUME NEW x, Fit(x)
  PROVE  /\ Fit(Recharged(x)) /\ SameLife(x, Recharged(x))
         /\ Recharged(x).score = x.score
<1>1. x \in PlayerType /\ x.charges \in 0..LockMaxCharges
      /\ x.timer \in 0..(LockChargeTicks - 1)
  BY FieldTypes DEF Fit
<1>2. CASE x.charges >= LockMaxCharges
  BY <1>2 DEF Recharged, SameLife
<1>3. CASE x.charges < LockMaxCharges /\ x.timer + 1 >= LockChargeTicks
  <2> DEFINE y == [x EXCEPT !.timer = 0, !.charges = @ + 1]
  <2>1. Recharged(x) = y
    BY <1>1, <1>3, CombatAssumption DEF Recharged
  <2>2. x.charges + 1 \in 0..LockMaxCharges /\ 0 \in 0..(LockChargeTicks - 1)
    BY <1>1, <1>3, CombatAssumption
  <2>3. y \in PlayerType /\ SameLife(x, y) /\ y.score = x.score
        /\ y.block = x.block /\ y.blockMax = x.blockMax /\ y.cd = x.cd
    BY <1>1, <2>2 DEF PlayerType, SameLife
  <2> QED BY <2>1, <2>3 DEF Fit
<1>4. CASE x.charges < LockMaxCharges /\ x.timer + 1 < LockChargeTicks
  <2> DEFINE y == [x EXCEPT !.timer = @ + 1]
  <2>1. Recharged(x) = y
    BY <1>1, <1>4, CombatAssumption DEF Recharged
  <2>2. x.timer + 1 \in 0..(LockChargeTicks - 1)
    BY <1>1, <1>4, CombatAssumption
  <2>3. y \in PlayerType /\ SameLife(x, y) /\ y.score = x.score
        /\ y.block = x.block /\ y.blockMax = x.blockMax /\ y.cd = x.cd
    BY <1>1, <2>2 DEF PlayerType, SameLife
  <2> QED BY <2>1, <2>3 DEF Fit
<1> QED BY <1>1, <1>2, <1>3, <1>4, CombatAssumption

(* A death's own part of a life, which a frame does not change.            *)
SameMark(x, y) ==
  /\ y.deaths = x.deaths /\ y.announced = x.announced
  /\ y.justDied = x.justDied /\ y.score = x.score

(* The death timer runs down, and with it the bench is left: hit points    *)
(* and respawn count come together.                                        *)
LEMMA RespawnedFits ==
  ASSUME NEW x, Fit(x)
  PROVE  /\ Fit(Respawned(x)) /\ SameMark(x, Respawned(x))
         /\ Cycle(x) => Cycle(Respawned(x))
<1>1. x \in PlayerType /\ x.deadTicks \in 0..RespawnTicks
      /\ x.deaths \in Nat /\ x.respawns \in Nat /\ x.blockMax \in Nat
  BY FieldTypes DEF Fit
<1>2. CASE x.deadTicks = 0
  BY <1>2 DEF Respawned, SameMark
<1>3. CASE x.deadTicks > 1
  <2> DEFINE y == [x EXCEPT !.deadTicks = @ - 1]
  <2>1. Respawned(x) = y
    BY <1>1, <1>3, CombatAssumption DEF Respawned
  <2>2. x.deadTicks - 1 \in 0..RespawnTicks
    BY <1>1, <1>3, CombatAssumption
  <2>3. y \in PlayerType /\ SameMark(x, y)
        /\ y.block = x.block /\ y.blockMax = x.blockMax /\ y.cd = x.cd
        /\ y.hp = x.hp /\ y.respawns = x.respawns
        /\ y.deadTicks = x.deadTicks - 1
    BY <1>1, <2>2 DEF PlayerType, SameMark
  <2>4. Dead(x) /\ Dead(y)
    BY <1>1, <1>3, <2>3, CombatAssumption DEF Dead
  <2> HIDE DEF y
  <2>5. Cycle(x) => Cycle(y)
    BY <2>3, <2>4 DEF Cycle, SameMark
  <2>6. Fit(y)
    BY <2>3 DEF Fit
  <2> QED BY <2>1, <2>3, <2>5, <2>6
<1>4. CASE x.deadTicks = 1
  <2> DEFINE y == [x EXCEPT !.deadTicks = 0, !.hp = MaxHP,
                            !.block = x.blockMax, !.respawns = @ + 1]
  <2>1. Respawned(x) = y
    BY <1>1, <1>4, CombatAssumption DEF Respawned
  <2>2. 0 \in 0..RespawnTicks /\ MaxHP \in 0..MaxHP
    BY CombatAssumption
  <2>3. y \in PlayerType
    <3> DEFINE x1 == [x EXCEPT !.deadTicks = 0, !.hp = MaxHP]
    <3>1. x1 \in PlayerType /\ x1.respawns = x.respawns
      BY <1>1, <2>2 DEF PlayerType
    <3>2. x1.respawns + 1 \in Nat
      BY <1>1, <3>1
    <3>3. y = [x1 EXCEPT !.block = x.blockMax, !.respawns = @ + 1]
      BY <1>1 DEF PlayerType
    <3> HIDE DEF x1, y
    <3> QED BY <1>1, <3>1, <3>2, <3>3 DEF PlayerType
  <2>4. SameMark(x, y)
        /\ y.block = x.blockMax /\ y.blockMax = x.blockMax /\ y.cd = x.cd
        /\ y.hp = MaxHP /\ y.respawns = x.respawns + 1 /\ y.deadTicks = 0
    BY <1>1 DEF PlayerType, SameMark
  <2>5. Dead(x) /\ ~Dead(y)
    BY <1>4, <2>4 DEF Dead
  <2> HIDE DEF y
  <2>6. Cycle(x) => Cycle(y)
    BY <1>1, <2>4, <2>5, CombatAssumption DEF Cycle, SameMark
  <2>7. Fit(y)
    BY <1>1, <2>3, <2>4 DEF Fit
  <2> QED BY <2>1, <2>4, <2>6, <2>7
<1> QED BY <1>1, <1>2, <1>3, <1>4, CombatAssumption

(* TickCombat for one player: cooldowns, then the two above.               *)
LEMMA AdvancedFits ==
  ASSUME NEW x, Fit(x)
  PROVE  /\ Fit(Advanced(x)) /\ SameMark(x, Advanced(x))
         /\ Cycle(x) => Cycle(Advanced(x))
<1> DEFINE d == [w \in Weapons |-> IF x.cd[w] > 0 THEN x.cd[w] - 1 ELSE 0]
           y == [x EXCEPT !.cd = d]
           z == Recharged(y)
<1>1. x \in PlayerType /\ x.cd \in [Weapons -> Nat]
      /\ \A w \in Weapons : x.cd[w] <= Cooldown[w]
  BY FieldTypes DEF Fit
<1>2. d \in [Weapons -> Nat] /\ \A w \in Weapons : d[w] <= Cooldown[w]
  BY <1>1, CombatAssumption
<1> HIDE DEF d
<1>3. y \in PlayerType /\ SameLife(x, y) /\ y.score = x.score
      /\ y.block = x.block /\ y.blockMax = x.blockMax /\ y.cd = d
  BY <1>1, <1>2 DEF PlayerType, SameLife
<1> HIDE DEF y
<1>4. Fit(y)
  BY <1>2, <1>3 DEF Fit
<1>5. Fit(z) /\ SameLife(y, z) /\ z.score = y.score
  BY <1>4, RechargedFits
<1> HIDE DEF z
<1>6. SameMark(x, z) /\ (Cycle(x) => Cycle(z))
  BY <1>3, <1>5 DEF SameLife, SameMark, Cycle, Dead
<1>7. Fit(Respawned(z)) /\ SameMark(z, Respawned(z))
      /\ (Cycle(z) => Cycle(Respawned(z)))
  BY <1>5, RespawnedFits
<1>8. Advanced(x) = Respawned(z)
  BY DEF Advanced, d, y, z
<1> QED BY <1>6, <1>7, <1>8 DEF SameMark

-----------------------------------------------------------------------------

(* DeathsAnnounced is not inductive: it allows a mark that has outlived    *)
(* its death. Marks does not.                                              *)
Marks ==
  heard => \A u \in players :
    Marked(p[u]) /\ (p[u].justDied => NamedIn(pendingEvents, u))

(* The inductive invariant.                                                *)
CombatInv == TypeOK /\ LifeCycle /\ Marks

(* What TypeOK, LifeCycle and Marks say, in the words of the lemmas.       *)
LEMMA InvWords ==
  /\ TypeOK <=>
       /\ players \subseteq Uids
       /\ Table(p)
       /\ pendingEvents \in Seq(Event)
       /\ onBroadcast \in BOOLEAN
       /\ tick \in 0..SettleTicks
       /\ settled \in BOOLEAN
       /\ heard \in BOOLEAN
       /\ past \in [Uids -> Nat] \X [Uids -> Nat]
       /\ hits \in 0..MaxHits
       /\ departures \in 0..MaxDepartures
  /\ LifeCycle <=> \A u \in players : Cycle(p[u])
<1>1. p \in [Uids -> PlayerType] => \A u \in Uids : p[u] \in PlayerType
  OBVIOUS
<1> QED BY <1>1 DEF TypeOK, LifeCycle, Table, Fit, Cycle, past

(* The step of NoPosthumousScore.                                          *)
ScoredAlive ==
  \A u \in players \cap players' :
    /\ p'[u].score >= p[u].score
    /\ p'[u].score > p[u].score => ~Dead(p[u]) /\ ~Dead(p'[u])

(* handleInputMsg: button, weapon, lock shot.                              *)
LEMMA InputStep ==
  ASSUME CombatInv, NEW u \in Uids, Input(u)
  PROVE  CombatInv' /\ ScoredAlive
<1>1. /\ players \subseteq Uids /\ u \in players /\ Table(p)
      /\ pendingEvents \in Seq(Event) /\ hits \in Nat
  BY InvWords DEF CombatInv, Input
<1>2. PICK g \in BOOLEAN, main \in Aimed \cup Sweeping \cup {"none"},
           lock \in {"none", "lock"} :
        LET p1 == [p EXCEPT ![u].guard = g]
        IN \E T1 \in Choices(p1, u, main) :
             LET p2 == After(p1, u, main, T1)
             IN \E T2 \in Choices(p2, u, lock) :
                  /\ hits + Cardinality(T1) + Cardinality(T2) <= MaxHits
                  /\ hits' = hits + Cardinality(T1) + Cardinality(T2)
                  /\ p' = After(p2, u, lock, T2)
                  /\ pendingEvents' = pendingEvents \o Events(u, T1)
                                                    \o Events(u, T2)
  BY DEF Input
<1> DEFINE p1 == [p EXCEPT ![u].guard = g]
<1>3. PICK T1 \in Choices(p1, u, main) :
        LET p2 == After(p1, u, main, T1)
        IN \E T2 \in Choices(p2, u, lock) :
             /\ hits + Cardinality(T1) + Cardinality(T2) <= MaxHits
             /\ hits' = hits + Cardinality(T1) + Cardinality(T2)
             /\ p' = After(p2, u, lock, T2)
             /\ pendingEvents' = pendingEvents \o Events(u, T1)
                                               \o Events(u, T2)
  BY <1>2
<1> DEFINE p2 == After(p1, u, main, T1)
<1>4. PICK T2 \in Choices(p2, u, lock) :
        /\ hits + Cardinality(T1) + Cardinality(T2) <= MaxHits
        /\ hits' = hits + Cardinality(T1) + Cardinality(T2)
        /\ p' = After(p2, u, lock, T2)
        /\ pendingEvents' = pendingEvents \o Events(u, T1) \o Events(u, T2)
  BY <1>3
<1>5. Outcome(p, p1, u, {})
  BY <1>1, GuardOutcome
<1> HIDE DEF p1
<1>6. Table(p1)
  BY <1>5 DEF Outcome
<1>7. Outcome(p1, p2, u, T1) /\ T1 \subseteq players
  BY <1>1, <1>6, AfterOutcome
<1> HIDE DEF p2
<1>8. Table(p2)
  BY <1>7 DEF Outcome
<1>9. Outcome(p2, p', u, T2) /\ T2 \subseteq players
  BY <1>1, <1>4, <1>8, AfterOutcome
<1>10. Outcome(p, p2, u, {} \cup T1)
  BY <1>1, <1>5, <1>7, OutcomeChain
<1>11. Outcome(p, p', u, ({} \cup T1) \cup T2)
  BY <1>1, <1>9, <1>10, OutcomeChain
<1>12. Cardinality(T1) \in Nat /\ Cardinality(T2) \in Nat
  <2>1. IsFiniteSet(T1) /\ IsFiniteSet(T2)
    BY <1>1, <1>7, <1>9, FS_Subset, CombatAssumption
  <2> QED BY <2>1, FS_CardinalityType
<1>13. hits' \in 0..MaxHits
  BY <1>1, <1>4, <1>12, CombatAssumption
<1> DEFINE es == pendingEvents \o Events(u, T1)
<1>14. es \in Seq(Event)
       /\ \A v \in Uids : NamedIn(pendingEvents, v) \/ v \in T1
                            => NamedIn(es, v)
  BY <1>1, <1>7, EventsName
<1>15. pendingEvents' = es \o Events(u, T2)
  BY <1>4
<1> HIDE DEF es
<1>16. pendingEvents' \in Seq(Event)
       /\ \A v \in Uids : NamedIn(es, v) \/ v \in T2
                            => NamedIn(pendingEvents', v)
  BY <1>1, <1>9, <1>14, <1>15, EventsName
<1>17. players' = players /\ onBroadcast' = onBroadcast /\ tick' = tick
       /\ settled' = settled /\ heard' = heard /\ past' = past
       /\ departures' = departures
  BY DEF Input
<1>18. TypeOK'
  <2>1. Table(p')
    BY <1>11 DEF Outcome
  <2>2. Table(p)'
    BY <2>1 DEF Table, Fit
  <2> QED BY <1>1, <1>13, <1>16, <1>17, <2>2, InvWords
          DEF CombatInv, TypeOK, Table, Fit, past
<1>19. LifeCycle'
  <2>1. \A v \in players : Cycle(p[v])
    BY InvWords DEF CombatInv
  <2>2. \A v \in players : Cycle(p'[v])
    BY <1>11, <2>1 DEF Outcome
  <2> QED BY <1>17, <2>2 DEF LifeCycle, Cycle, Dead
<1>20. Marks'
  <2> SUFFICES ASSUME heard, NEW v \in players
               PROVE  /\ Marked(p'[v])
                      /\ p'[v].justDied => NamedIn(pendingEvents', v)
    BY <1>17 DEF Marks, Marked, Dead, NamedIn
  <2>1. Cycle(p[v])
    BY InvWords DEF CombatInv
  <2>2. Marked(p[v]) /\ (p[v].justDied => NamedIn(pendingEvents, v))
    BY DEF CombatInv, Marks
  <2>3. /\ Marked(p'[v])
        /\ p'[v].justDied => p[v].justDied \/ v \in T1 \/ v \in T2
    BY <1>11, <2>1, <2>2 DEF Outcome
  <2>4. v \in Uids
    BY <1>1
  <2> QED BY <1>14, <1>16, <2>2, <2>3, <2>4
<1>21. ScoredAlive
  BY <1>11, <1>17 DEF ScoredAlive, Outcome
<1> QED BY <1>18, <1>19, <1>20, <1>21 DEF CombatInv

(* Where the events wait and what was heard so far are left alone, it is   *)
(* enough that every player still fits and keeps its cycle and mark.       *)
LEMMA QuietStep ==
  ASSUME CombatInv,
         players' \subseteq Uids, Table(p'),
         \A u \in players' :
           \/ /\ u \in players
              /\ Cycle(p[u]) => Cycle(p'[u])
              /\ SameMark(p[u], p'[u])
              /\ p'[u].deadTicks = p[u].deadTicks
           \/ u \notin players /\ p'[u] = NewPlayer,
         past' \in [Uids -> Nat] \X [Uids -> Nat],
         departures' \in 0..MaxDepartures,
         onBroadcast' \in BOOLEAN,
         UNCHANGED <<pendingEvents, tick, settled, heard, hits>>
  PROVE  CombatInv' /\ ScoredAlive
<1>1. /\ pendingEvents \in Seq(Event) /\ tick \in 0..SettleTicks
      /\ settled \in BOOLEAN /\ heard \in BOOLEAN /\ hits \in 0..MaxHits
      /\ players \subseteq Uids /\ Table(p)
      /\ \A u \in players : Cycle(p[u])
  BY InvWords DEF CombatInv
<1>2. TypeOK'
  BY <1>1 DEF TypeOK, Table, Fit, past
<1>3. ASSUME NEW u \in players'
      PROVE  /\ Cycle(p'[u])
             /\ heard => /\ Marked(p'[u])
                         /\ p'[u].justDied => NamedIn(pendingEvents, u)
  <2>1. CASE u \in players
    <3>1. (Cycle(p[u]) => Cycle(p'[u])) /\ SameMark(p[u], p'[u])
          /\ p'[u].deadTicks = p[u].deadTicks
      BY <2>1
    <3>2. heard => /\ Marked(p[u])
                   /\ p[u].justDied => NamedIn(pendingEvents, u)
      BY <2>1 DEF CombatInv, Marks
    <3> QED BY <1>1, <2>1, <3>1, <3>2 DEF SameMark, Marked, Dead
  <2>2. CASE u \notin players
    BY <2>2, NewFits
  <2> QED BY <2>1, <2>2
<1>4. LifeCycle'
  BY <1>3 DEF LifeCycle, Cycle, Dead
<1>5. Marks'
  BY <1>3 DEF Marks, Marked, Dead, NamedIn
<1>6. ScoredAlive
  <2> SUFFICES ASSUME NEW u \in players, u \in players'
               PROVE  p'[u].score = p[u].score /\ p[u].score \in Nat
    BY DEF ScoredAlive
  <2> QED BY <1>1, FieldTypes DEF SameMark, Table
<1> QED BY <1>2, <1>4, <1>5, <1>6 DEF CombatInv

(* What the histories take over from players that leave.                   *)
LEMMA ForgetTypes ==
  ASSUME CombatInv, NEW gone \in SUBSET players, Forget(gone)
  PROVE  /\ past' \in [Uids -> Nat] \X [Uids -> Nat]
         /\ departures' \in 0..MaxDepartures
<1>1. /\ players \subseteq Uids /\ Table(p)
      /\ pastScore \in [Uids -> Nat] /\ pastDeaths \in [Uids -> Nat]
      /\ departures \in Nat
  BY InvWords DEF CombatInv, past
<1>2. \A u \in Uids : p[u].score \in Nat /\ p[u].deaths \in Nat
  BY <1>1, FieldTypes DEF Table
<1>3. \A u \in Uids :
        /\ pastScore[u] + (IF u \in gone THEN p[u].score ELSE 0) \in Nat
        /\ pastDeaths[u] + (IF u \in gone THEN p[u].deaths ELSE 0) \in Nat
  BY <1>1, <1>2
<1>4. past' \in [Uids -> Nat] \X [Uids -> Nat]
  BY <1>3 DEF Forget, past
<1>5. Cardinality(gone) \in Nat
  BY <1>1, FS_Subset, FS_CardinalityType, CombatAssumption
<1>6. departures' \in 0..MaxDepartures
  BY <1>1, <1>5, CombatAssumption DEF Forget
<1> QED BY <1>4, <1>6

(* A join puts a new player in the place of nobody.                        *)
LEMMA EnterStep ==
  ASSUME CombatInv, NEW u \in Uids, Enter(u)
  PROVE  CombatInv' /\ ScoredAlive
<1>1. /\ players \subseteq Uids /\ Table(p)
      /\ past \in [Uids -> Nat] \X [Uids -> Nat]
      /\ departures \in 0..MaxDepartures /\ onBroadcast \in BOOLEAN
  BY InvWords DEF CombatInv
<1>2. Table(p') /\ p'[u] = NewPlayer /\ \A v \in Uids : v # u => p'[v] = p[v]
  BY <1>1, NewFits DEF Enter, Table
<1>3. \A v \in players' : \/ v \in players /\ p'[v] = p[v]
                          \/ v \notin players /\ p'[v] = NewPlayer
  BY <1>1, <1>2 DEF Enter
<1> QED BY <1>1, <1>2, <1>3, QuietStep DEF Enter, SameMark

(* Who leaves takes its record along; its events may still be waiting.     *)
LEMMA LeaveStep ==
  ASSUME CombatInv, NEW u \in Uids, Leave(u)
  PROVE  CombatInv' /\ ScoredAlive
<1>1. /\ players \subseteq Uids /\ Table(p) /\ onBroadcast \in BOOLEAN
  BY InvWords DEF CombatInv
<1>2. Table(p') /\ \A v \in Uids : v # u => p'[v] = p[v]
  BY <1>1, NewFits DEF Leave, Table
<1>3. \A v \in players' : v \in players /\ p'[v] = p[v]
  BY <1>1, <1>2 DEF Leave
<1>4. /\ past' \in [Uids -> Nat] \X [Uids -> Nat]
        /\ departures' \in 0..MaxDepartures
  BY ForgetTypes DEF Leave
<1> QED BY <1>1, <1>2, <1>3, <1>4, QuietStep DEF Leave, SameMark

(* New equipment refills the bar and touches no life.                      *)
LEMMA EquipStep ==
  ASSUME CombatInv, NEW u \in Uids, Equip(u)
  PROVE  CombatInv' /\ ScoredAlive
<1>1. /\ players \subseteq Uids /\ Table(p)
      /\ past \in [Uids -> Nat] \X [Uids -> Nat]
      /\ departures \in 0..MaxDepartures /\ onBroadcast \in BOOLEAN
  BY InvWords DEF CombatInv
<1>2. PICK bonus \in Bonuses :
        p' = [p EXCEPT ![u].blockMax = BaseBlockMax + bonus,
                       ![u].block = BaseBlockMax + bonus]
  BY DEF Equip
<1> DEFINE b == BaseBlockMax + bonus
           x == [p[u] EXCEPT !.blockMax = b, !.block = b]
<1>3. b \in Nat
  BY CombatAssumption
<1>4. p[u] \in PlayerType /\ Fit(p[u])
  BY <1>1 DEF Table
<1>5. p' = [p EXCEPT ![u] = x]
  BY <1>1, <1>2, <1>4 DEF Table, PlayerType
<1> HIDE DEF b
<1>6. /\ x \in PlayerType /\ SameMark(p[u], x) /\ SameLife(p[u], x)
      /\ x.block = b /\ x.blockMax = b /\ x.cd = p[u].cd
  BY <1>3, <1>4 DEF PlayerType, SameMark, SameLife
<1> HIDE DEF x
<1>7. Fit(x)
  BY <1>3, <1>4, <1>6 DEF Fit
<1>8. Table(p') /\ p'[u] = x /\ \A v \in Uids : v # u => p'[v] = p[v]
  BY <1>1, <1>5, <1>6, <1>7 DEF Table
<1>9. ASSUME NEW v \in players
      PROVE  SameMark(p[v], p'[v]) /\ SameLife(p[v], p'[v])
  BY <1>1, <1>6, <1>8 DEF SameMark, SameLife
<1>10. ASSUME NEW v \in players
       PROVE  /\ Cycle(p[v]) => Cycle(p'[v])
              /\ SameMark(p[v], p'[v])
              /\ p'[v].deadTicks = p[v].deadTicks
  BY <1>9 DEF SameLife, Cycle, Dead
<1> QED BY <1>1, <1>8, <1>10, QuietStep DEF Equip

(* A listener touches no player.                                           *)
LEMMA SetBroadcastStep ==
  ASSUME CombatInv, SetBroadcast
  PROVE  CombatInv' /\ ScoredAlive
<1>1. /\ players \subseteq Uids /\ Table(p)
      /\ past \in [Uids -> Nat] \X [Uids -> Nat]
      /\ departures \in 0..MaxDepartures
  BY InvWords DEF CombatInv
<1> QED BY <1>1, QuietStep DEF SetBroadcast, SameMark

(* The frame: players advance, some are evicted, marks are announced if    *)
(* someone listens; if nobody does and events wait, heard ends.            *)
LEMMA TickStep ==
  ASSUME CombatInv, Tick
  PROVE  CombatInv' /\ ScoredAlive
<1>1. /\ players \subseteq Uids /\ Table(p) /\ onBroadcast \in BOOLEAN
      /\ pendingEvents \in Seq(Event) /\ tick \in 0..SettleTicks
      /\ settled \in BOOLEAN /\ heard \in BOOLEAN /\ hits \in 0..MaxHits
      /\ \A u \in players : Cycle(p[u])
  BY InvWords DEF CombatInv
<1>2. PICK gone \in SUBSET players :
        LET left == players \ gone
            q == [u \in Uids |-> IF u \in left THEN Advanced(p[u])
                                               ELSE NewPlayer]
        IN /\ players' = left
           /\ Forget(gone)
           /\ heard' = (heard /\ (onBroadcast \/ pendingEvents = <<>>))
           /\ tick' = Least(tick + 1, SettleTicks)
           /\ IF onBroadcast
              THEN /\ p' = [u \in Uids |-> Announced(q[u], u)]
                   /\ pendingEvents' = <<>>
                   /\ Settle(q, left, tick')
              ELSE /\ p' = q
                   /\ UNCHANGED <<pendingEvents, settled>>
           /\ UNCHANGED <<onBroadcast, hits>>
  BY DEF Tick
<1> DEFINE left == players \ gone
           q == [u \in Uids |-> IF u \in left THEN Advanced(p[u])
                                              ELSE NewPlayer]
<1>3. /\ players' = left /\ Forget(gone) /\ onBroadcast' = onBroadcast
      /\ heard' = (heard /\ (onBroadcast \/ pendingEvents = <<>>))
      /\ tick' = Least(tick + 1, SettleTicks) /\ hits' = hits
      /\ onBroadcast => /\ p' = [u \in Uids |-> Announced(q[u], u)]
                        /\ pendingEvents' = <<>>
                        /\ Settle(q, left, tick')
      /\ ~onBroadcast => /\ p' = q
                         /\ pendingEvents' = pendingEvents
                         /\ settled' = settled
  BY <1>2
<1>4. left \subseteq Uids /\ left \subseteq players
  BY <1>1
<1>5. \A u \in left : q[u] = Advanced(p[u])
  BY <1>4
<1>6. \A u \in Uids \ left : q[u] = NewPlayer
  OBVIOUS
<1>7. DOMAIN q = Uids /\ q = [u \in Uids |-> q[u]]
  OBVIOUS
<1> HIDE DEF q, left
<1>8. \A u \in left : /\ Fit(q[u]) /\ SameMark(p[u], q[u])
                      /\ Cycle(q[u])
  BY <1>1, <1>4, <1>5, AdvancedFits DEF Table
<1>9. \A u \in Uids : Fit(q[u]) /\ q[u] \in PlayerType
  BY <1>6, <1>8, NewFits DEF Fit
<1>10. ASSUME NEW u \in Uids
       PROVE  /\ Fit(Announced(q[u], u)) /\ Announced(q[u], u) \in PlayerType
              /\ Announced(q[u], u).hp = q[u].hp
              /\ Announced(q[u], u).deadTicks = q[u].deadTicks
              /\ Announced(q[u], u).deaths = q[u].deaths
              /\ Announced(q[u], u).respawns = q[u].respawns
              /\ Announced(q[u], u).score = q[u].score
              /\ q[u].justDied /\ Named(u) =>
                   /\ ~Announced(q[u], u).justDied
                   /\ Announced(q[u], u).announced = q[u].announced + 1
              /\ ~(q[u].justDied /\ Named(u)) =>
                   Announced(q[u], u) = q[u]
  <2> DEFINE y == [q[u] EXCEPT !.justDied = FALSE, !.announced = @ + 1]
  <2>1. q[u] \in PlayerType /\ Fit(q[u]) /\ q[u].announced + 1 \in Nat
    BY <1>9, FieldTypes
  <2>2. y \in PlayerType
    BY <2>1 DEF PlayerType
  <2>3. /\ y.hp = q[u].hp /\ y.deadTicks = q[u].deadTicks
        /\ y.deaths = q[u].deaths /\ y.respawns = q[u].respawns
        /\ y.score = q[u].score /\ ~y.justDied
        /\ y.announced = q[u].announced + 1
        /\ y.block = q[u].block /\ y.blockMax = q[u].blockMax
        /\ y.cd = q[u].cd
    BY <2>1 DEF PlayerType
  <2>4. Fit(y)
    BY <2>1, <2>2, <2>3 DEF Fit
  <2>5. Announced(q[u], u) = IF q[u].justDied /\ Named(u) THEN y ELSE q[u]
    BY DEF Announced
  <2> HIDE DEF y
  <2> QED BY <2>1, <2>2, <2>3, <2>4, <2>5
<1>11. Table(p')
  <2>1. CASE onBroadcast
    BY <1>3, <1>10, <2>1 DEF Table
  <2>2. CASE ~onBroadcast
    BY <1>3, <1>7, <1>9, <2>2 DEF Table
  <2> QED BY <2>1, <2>2
<1>12. ASSUME NEW u \in left
       PROVE  /\ Cycle(p'[u]) /\ p'[u].score = p[u].score
              /\ heard' => Marked(p'[u]) /\ ~p'[u].justDied
  <2>1. /\ u \in Uids /\ u \in players /\ Cycle(q[u]) /\ SameMark(p[u], q[u])
        /\ Fit(q[u])
    BY <1>4, <1>8
  <2>2. heard => /\ Marked(p[u])
                 /\ p[u].justDied => Named(u)
    BY <2>1 DEF CombatInv, Marks, NamedIn, Named
  <2>3. /\ q[u].deaths \in Nat /\ q[u].announced \in Nat
        /\ q[u].justDied \in BOOLEAN
    BY <2>1, FieldTypes
  <2>4. CASE onBroadcast
    <3>1. p'[u] = Announced(q[u], u)
      BY <1>3, <2>1, <2>4
    <3>2. Cycle(p'[u]) /\ p'[u].score = p[u].score
      BY <1>10, <2>1, <3>1 DEF Cycle, Dead, SameMark
    <3>3. heard => (q[u].justDied => Named(u))
      BY <2>1, <2>2 DEF SameMark
    <3>4. heard => q[u].deaths = q[u].announced
                                   + (IF q[u].justDied THEN 1 ELSE 0)
      BY <2>1, <2>2 DEF SameMark, Marked
    <3>5. heard => /\ ~p'[u].justDied
                   /\ p'[u].deaths = p'[u].announced
                   /\ p'[u].announced \in Nat
      BY <1>10, <2>1, <2>3, <3>1, <3>3, <3>4
    <3>6. heard' => heard
      BY <1>3
    <3> QED BY <3>2, <3>5, <3>6 DEF Marked
  <2>5. CASE ~onBroadcast
    <3>1. p'[u] = q[u]
      BY <1>3, <2>5
    <3>2. Cycle(p'[u]) /\ p'[u].score = p[u].score
      BY <2>1, <3>1 DEF SameMark
    <3>3. heard' => heard /\ pendingEvents = <<>>
      BY <1>1, <1>3, <2>5
    <3>4. pendingEvents = <<>> => ~Named(u)
      BY DEF Named
    <3>5. heard' => ~p[u].justDied /\ Marked(p[u])
      BY <2>2, <3>3, <3>4
    <3> QED BY <2>1, <2>3, <3>1, <3>2, <3>5 DEF SameMark, Marked
  <2> QED BY <2>4, <2>5
<1>13. TypeOK'
  <2>1. /\ past' \in [Uids -> Nat] \X [Uids -> Nat]
        /\ departures' \in 0..MaxDepartures
    BY <1>3, ForgetTypes
  <2>2. tick' \in 0..SettleTicks
    BY <1>1, <1>3, CombatAssumption DEF Least
  <2>3. pendingEvents' \in Seq(Event) /\ settled' \in BOOLEAN
        /\ heard' \in BOOLEAN
    <3>1. CASE onBroadcast
      <4>1. Settle(q, left, tick')
        BY <1>3, <3>1
      <4>2. settled' \in BOOLEAN
        BY <1>1, <4>1 DEF Settle
      <4> QED BY <1>1, <1>3, <3>1, <4>2
    <3>2. CASE ~onBroadcast
      BY <1>1, <1>3, <3>2
    <3> QED BY <3>1, <3>2
  <2> QED BY <1>1, <1>3, <1>4, <1>11, <2>1, <2>2, <2>3
         DEF TypeOK, Table, Fit, past
<1>14. LifeCycle'
  BY <1>3, <1>12 DEF LifeCycle, Cycle, Dead
<1>15. Marks'
  BY <1>3, <1>12 DEF Marks, Marked, Dead
<1>16. ScoredAlive
  <2> SUFFICES ASSUME NEW u \in left
               PROVE  p'[u].score = p[u].score /\ p[u].score \in Nat
    BY <1>3 DEF ScoredAlive
  <2> QED BY <1>1, <1>4, <1>12, FieldTypes DEF Table
<1> QED BY <1>13, <1>14, <1>15, <1>16 DEF CombatInv

(* Every step keeps the invariant, and lets none but the living score.     *)
LEMMA CombatStep ==
  ASSUME CombatInv, [Next]_vars
  PROVE  CombatInv' /\ ScoredAlive
<1>1. ASSUME NEW u \in Uids, Input(u)
      PROVE  CombatInv' /\ ScoredAlive
  BY <1>1, InputStep
<1>2. ASSUME NEW u \in Uids, Enter(u)
      PROVE  CombatInv' /\ ScoredAlive
  BY <1>2, EnterStep
<1>3. ASSUME NEW u \in Uids, Leave(u)
      PROVE  CombatInv' /\ ScoredAlive
  BY <1>3, LeaveStep
<1>4. ASSUME NEW u \in Uids, Equip(u)
      PROVE  CombatInv' /\ ScoredAlive
  BY <1>4, EquipStep
<1>5. CASE SetBroadcast
  BY <1>5, SetBroadcastStep
<1>6. CASE Tick
  BY <1>6, TickStep
<1>7. CASE UNCHANGED vars
  <2>1. /\ players \subseteq Uids /\ Table(p)
        /\ past \in [Uids -> Nat] \X [Uids -> Nat]
        /\ departures \in 0..MaxDepartures /\ onBroadcast \in BOOLEAN
    BY InvWords DEF CombatInv
  <2> QED BY <1>7, <2>1, QuietStep DEF vars, SameMark
<1> QED BY <1>1, <1>2, <1>3, <1>4, <1>5, <1>6, <1>7 DEF Next

(* An empty room.                                                          *)
LEMMA CombatInit == Init => CombatInv
<1> SUFFICES ASSUME Init
             PROVE  CombatInv
  OBVIOUS
<1>1. Table(p)
  BY NewFits DEF Init, Table
<1>2. /\ players \subseteq Uids /\ pendingEvents \in Seq(Event)
      /\ onBroadcast \in BOOLEAN /\ tick \in 0..SettleTicks
      /\ settled \in BOOLEAN /\ heard \in BOOLEAN
      /\ pastScore \in [Uids -> Nat] /\ pastDeaths \in [Uids -> Nat]
      /\ hits \in 0..MaxHits /\ departures \in 0..MaxDepartures
  <2>1. pendingEvents \in Seq(Event)
    <3>1. <<>> \in Seq(Event)
      OBVIOUS
    <3> QED BY <3>1 DEF Init
  <2>2. pastScore \in [Uids -> Nat] /\ pastDeaths \in [Uids -> Nat]
    BY DEF Init
  <2>3. tick \in 0..SettleTicks /\ hits \in 0..MaxHits
        /\ departures \in 0..MaxDepartures /\ players \subseteq Uids
    BY CombatAssumption DEF Init
  <2>4. onBroadcast \in BOOLEAN /\ settled \in BOOLEAN /\ heard \in BOOLEAN
    BY DEF Init
  <2> QED BY <2>1, <2>2, <2>3, <2>4
<1>3. players = {}
  BY DEF Init
<1>4. LifeCycle /\ Marks
  BY <1>3 DEF LifeCycle, Marks
<1> QED BY <1>1, <1>2, <1>4, InvWords DEF CombatInv, past

(* The strengthened invariant is inductive.                                *)
THEOREM CombatInvariant == Spec => []CombatInv
<1>1. CombatInv /\ [Next]_vars => CombatInv'
  BY CombatStep
<1> QED BY CombatInit, <1>1, PTL DEF Spec

(* Every field of every player stays in its range: hit points never        *)
(* underflow in Combat.hit, charges never pass LockMaxCharges, no bar what *)
(* the equipment allows, no cooldown its weapon's.                         *)
THEOREM CombatTypeCorrect == Spec => []TypeOK
<1>1. CombatInv => TypeOK
  BY DEF CombatInv
<1> QED BY CombatInvariant, <1>1, PTL

(* A player is without hit points exactly while it waits for its respawn,  *)
(* and hit counts each death once, whichever weapons reach whom.           *)
THEOREM LivesAddUp == Spec => []LifeCycle
<1>1. CombatInv => LifeCycle
  BY DEF CombatInv
<1> QED BY CombatInvariant, <1>1, PTL

(* broadcastTick announces every death of a player that stays exactly      *)
(* once, as long as every frame with events had a listener.                *)
THEOREM DeathAnnouncedOnce == Spec => []DeathsAnnounced
<1>1. CombatInv => DeathsAnnounced
  BY DEF CombatInv, Marks, Marked, DeathsAnnounced, NamedIn, Named
<1> QED BY CombatInvariant, <1>1, PTL

(* In no step does a score fall, and none rises whose owner is dead before *)
(* or after it, the lock shot on top of a blade included.                  *)
THEOREM OnlyTheLivingScore == Spec => NoPosthumousScore
<1>1. CombatInv /\ [Next]_vars => [ScoredAlive]_vars
  BY CombatStep
<1>2. ScoredAlive =>
        \A u \in players \cap players' :
          /\ p'[u].score >= p[u].score
          /\ p'[u].score > p[u].score => ~Dead(p[u]) /\ ~Dead(p'[u])
  BY DEF ScoredAlive
<1> QED BY CombatInvariant, <1>1, <1>2, PTL DEF Spec, NoPosthumousScore
-----------------------------------------------------------------------------
(* The scoreboard.                                                         *)

(* The kills and the deaths when q is the table of the players.            *)
KillsIn(q) == [u \in Uids |-> pastScore[u] + q[u].score]
DeathsIn(q) == [u \in Uids |-> pastDeaths[u] + q[u].deaths]
Even(q) == Cardinality(Points(KillsIn(q))) = Cardinality(Points(DeathsIn(q)))

(* What a point is.                                                        *)
LEMMA PointsAre ==
  ASSUME NEW f \in [Uids -> Nat]
  PROVE  /\ Points(f) \subseteq Uids \X Nat
         /\ \A u \in Uids, i \in Nat : <<u, i>> \in Points(f)
                                          <=> 1 <= i /\ i <= f[u]
BY DEF Points

(* Finitely many accounts with finitely many points each.                  *)
LEMMA PointsFinite ==
  ASSUME NEW f \in [Uids -> Nat]
  PROVE  IsFiniteSet(Points(f)) /\ Cardinality(Points(f)) \in Nat
<1> DEFINE S == {{u} \X (1..f[u]) : u \in Uids}
           h == [u \in Uids |-> {u} \X (1..f[u])]
<1>1. h \in Surjection(Uids, S)
  BY DEF Surjection
<1>2. IsFiniteSet(S)
  BY <1>1, FS_Surjection, CombatAssumption
<1>3. ASSUME NEW u \in Uids
      PROVE  IsFiniteSet({u} \X (1..f[u]))
  <2>1. IsFiniteSet({u})
    BY FS_Singleton
  <2>2. f[u] \in Int /\ 1 \in Int
    OBVIOUS
  <2>3. IsFiniteSet(1..f[u])
    BY <2>2, FS_Interval
  <2> QED BY <2>1, <2>3, FS_Product
<1>4. IsFiniteSet(UNION S)
  BY <1>2, <1>3, FS_UNION
<1> QED BY <1>4, FS_CardinalityType DEF Points

(* D holds the points that g has on top of those of f.                     *)
LEMMA PointsGrow ==
  ASSUME NEW f \in [Uids -> Nat], NEW g \in [Uids -> Nat],
         \A u \in Uids : f[u] <= g[u],
         NEW D \in SUBSET (Uids \X Nat),
         \A u \in Uids, i \in Nat : <<u, i>> \in D <=> f[u] < i /\ i <= g[u]
  PROVE  Cardinality(Points(g)) = Cardinality(Points(f)) + Cardinality(D)
<1>1. Points(f) \subseteq Uids \X Nat /\ Points(g) \subseteq Uids \X Nat
  BY PointsAre
<1>2. \A u \in Uids, i \in Nat :
        /\ <<u, i>> \in Points(f) <=> 1 <= i /\ i <= f[u]
        /\ <<u, i>> \in Points(g) <=> 1 <= i /\ i <= g[u]
  BY PointsAre
<1>3. \A u \in Uids : f[u] \in Nat /\ g[u] \in Nat
  OBVIOUS
<1>4. ASSUME NEW u \in Uids, NEW i \in Nat
      PROVE  /\ <<u, i>> \in Points(g)
                  <=> <<u, i>> \in Points(f) \/ <<u, i>> \in D
             /\ ~(<<u, i>> \in Points(f) /\ <<u, i>> \in D)
  BY <1>2, <1>3
<1>5. Points(g) = Points(f) \cup D /\ Points(f) \cap D = {}
  BY <1>1, <1>4
<1>6. IsFiniteSet(Points(f)) /\ Cardinality(Points(f)) \in Nat
      /\ IsFiniteSet(Points(g))
  BY PointsFinite
<1>7. IsFiniteSet(D) /\ Cardinality(D) \in Nat
  BY <1>5, <1>6, FS_Subset, FS_CardinalityType
<1>8. Cardinality(Points(f) \cup D)
        = Cardinality(Points(f)) + Cardinality(D)
            - Cardinality(Points(f) \cap D)
  BY <1>6, <1>7, FS_Union
<1>9. Cardinality(Points(f) \cap D) = 0
  BY <1>5, FS_EmptySet
<1> QED BY <1>5, <1>6, <1>7, <1>8, <1>9

(* n points for one account.                                               *)
LEMMA PointsOfOne ==
  ASSUME NEW f \in [Uids -> Nat], NEW s \in Uids, NEW n \in Nat
  PROVE  Cardinality(Points([f EXCEPT ![s] = @ + n]))
           = Cardinality(Points(f)) + n
<1> DEFINE g == [f EXCEPT ![s] = @ + n]
           I == (f[s] + 1)..(f[s] + n)
           D == {s} \X I
<1>1. g \in [Uids -> Nat] /\ f[s] \in Nat
  OBVIOUS
<1>2. D \in SUBSET (Uids \X Nat)
  BY <1>1
<1>3. ASSUME NEW u \in Uids, NEW i \in Nat
      PROVE  <<u, i>> \in D <=> f[u] < i /\ i <= g[u]
  BY <1>1
<1>4. \A u \in Uids : f[u] <= g[u]
  BY <1>1
<1> HIDE DEF D, g
<1>5. Cardinality(Points(g)) = Cardinality(Points(f)) + Cardinality(D)
  BY <1>1, <1>2, <1>3, <1>4, PointsGrow
<1>6. IsFiniteSet(I) /\ Cardinality(I) = n
  <2>1. f[s] + 1 \in Int /\ f[s] + n \in Int
    BY <1>1
  <2>2. \A a, b \in Int : /\ IsFiniteSet(a..b)
                         /\ Cardinality(a..b) = IF a > b THEN 0
                                                        ELSE b - a + 1
    BY FS_Interval
  <2>3. /\ IsFiniteSet(I)
        /\ Cardinality(I) = IF f[s] + 1 > f[s] + n
                            THEN 0 ELSE (f[s] + n) - (f[s] + 1) + 1
    BY <2>1, <2>2
  <2>4. (IF f[s] + 1 > f[s] + n THEN 0 ELSE (f[s] + n) - (f[s] + 1) + 1) = n
    BY <1>1
  <2> QED BY <2>3, <2>4
<1> HIDE DEF I
<1>7. Cardinality(D) = n
  <2>1. IsFiniteSet({s}) /\ Cardinality({s}) = 1
    BY FS_Singleton
  <2>2. Cardinality(D) = Cardinality({s}) * Cardinality(I)
    BY <1>6, <2>1, FS_Product DEF D
  <2> QED BY <1>6, <2>1, <2>2
<1> QED BY <1>5, <1>7 DEF g

(* One point for each account of K.                                        *)
LEMMA PointsOfEach ==
  ASSUME NEW f \in [Uids -> Nat], NEW K \in SUBSET Uids
  PROVE  Cardinality(Points([u \in Uids |-> f[u] + (IF u \in K THEN 1
                                                               ELSE 0)]))
           = Cardinality(Points(f)) + Cardinality(K)
<1> DEFINE g == [u \in Uids |-> f[u] + (IF u \in K THEN 1 ELSE 0)]
           D == {<<u, f[u] + 1>> : u \in K}
           h == [u \in K |-> <<u, f[u] + 1>>]
<1>1. g \in [Uids -> Nat] /\ \A u \in Uids : f[u] \in Nat
  OBVIOUS
<1>2. D \in SUBSET (Uids \X Nat)
  BY <1>1
<1>3. ASSUME NEW u \in Uids, NEW i \in Nat
      PROVE  <<u, i>> \in D <=> f[u] < i /\ i <= g[u]
  <2>1. <<u, i>> \in D <=> u \in K /\ i = f[u] + 1
    OBVIOUS
  <2> QED BY <1>1, <2>1
<1>4. \A u \in Uids : f[u] <= g[u]
  BY <1>1
<1>5. h \in Bijection(K, D)
  BY DEF Bijection, Injection, IsInjective, Surjection
<1> HIDE DEF D, g
<1>6. Cardinality(Points(g)) = Cardinality(Points(f)) + Cardinality(D)
  BY <1>1, <1>2, <1>3, <1>4, PointsGrow
<1>7. IsFiniteSet(K)
  BY FS_Subset, CombatAssumption
<1>8. ExistsBijection(K, D)
  BY <1>5 DEF ExistsBijection
<1>9. Cardinality(D) = Cardinality(K)
  BY <1>7, <1>8, FS_Bijection
<1> QED BY <1>6, <1>9 DEF g

(* Kills and deaths of a table are numbers.                                *)
LEMMA TotalsType ==
  ASSUME NEW q, Table(q),
         pastScore \in [Uids -> Nat], pastDeaths \in [Uids -> Nat]
  PROVE  /\ KillsIn(q) \in [Uids -> Nat] /\ DeathsIn(q) \in [Uids -> Nat]
         /\ \A u \in Uids : q[u].score \in Nat /\ q[u].deaths \in Nat
                            /\ pastScore[u] \in Nat /\ pastDeaths[u] \in Nat
<1>1. \A u \in Uids : q[u].score \in Nat /\ q[u].deaths \in Nat
  BY FieldTypes DEF Table
<1> QED BY <1>1 DEF KillsIn, DeathsIn

(* An attack counts the players it kills once for the attacker and once    *)
(* for each of them.                                                       *)
LEMMA AttackEven ==
  ASSUME pastScore \in [Uids -> Nat], pastDeaths \in [Uids -> Nat],
         players \subseteq Uids,
         NEW q, Table(q), NEW s \in players, NEW w \in Weapons,
         Ready(q, s, w), NEW T \in Reachable(q, s, w), Even(q)
  PROVE  Even(Attack(q, s, w, T))
<1> DEFINE r == Spend(q, s, w)
           a == Attack(q, s, w, T)
           K == {t \in T : Killed(r[t], w)}
           n == Cardinality(K)
<1>1. T \subseteq Uids \ {s} /\ s \in Uids
  BY DEF Reachable
<1>2. /\ Table(r) /\ \A u \in Uids : u # s => r[u] = q[u]
      /\ r[s].deaths = q[s].deaths /\ r[s].score = q[s].score
  BY <1>1, SpendFits DEF SameLife
<1>3. n \in Nat
  BY <1>1, FS_Subset, FS_CardinalityType, CombatAssumption
<1>4. K \in SUBSET Uids /\ s \notin K /\ K \subseteq T
      /\ \A t \in T : t \in K <=> Killed(r[t], w)
  BY <1>1
<1>5. a = [u \in Uids |-> IF u \in T THEN Struck(r[u], w)
                          ELSE IF u = s THEN [r[s] EXCEPT !.score = @ + n]
                          ELSE r[u]]
  BY DEF Attack, Land
<1> HIDE DEF n, K, r, a
<1>6. ASSUME NEW u \in Uids
      PROVE  /\ a[u].score = IF u = s THEN q[u].score + n ELSE q[u].score
             /\ u \in K => a[u].deaths = q[u].deaths + 1
             /\ u \notin K => a[u].deaths = q[u].deaths
  <2>1. Fit(r[u]) /\ r[u] \in PlayerType
    BY <1>2 DEF Table
  <2>2. /\ r[u].score = q[u].score /\ r[u].deaths = q[u].deaths
        /\ q[u].score \in Nat /\ q[u].deaths \in Nat
    BY <1>2, TotalsType
  <2>3. CASE u \in T
    <3>1. a[u] = Struck(r[u], w) /\ u # s
      BY <1>1, <1>5, <2>3
    <3>2. a[u].score = r[u].score
      BY <2>1, <3>1, StruckFit
    <3>3. a[u].deaths = IF Killed(r[u], w) THEN r[u].deaths + 1
                                           ELSE r[u].deaths
      BY <2>1, <3>1, StruckFields
    <3> QED BY <1>4, <2>2, <2>3, <3>1, <3>2, <3>3
  <2>4. CASE u = s
    <3>1. a[u] = [r[u] EXCEPT !.score = @ + n]
      BY <1>1, <1>5, <2>4
    <3>2. a[u].score = r[u].score + n /\ a[u].deaths = r[u].deaths
      BY <2>1, <3>1 DEF PlayerType
    <3> QED BY <1>4, <2>2, <2>4, <3>2
  <2>5. CASE u # s /\ u \notin T
    <3>1. a[u] = r[u]
      BY <1>5, <2>5
    <3> QED BY <1>4, <2>2, <2>5, <3>1
  <2> QED BY <2>3, <2>4, <2>5
<1>7. /\ KillsIn(q) \in [Uids -> Nat] /\ DeathsIn(q) \in [Uids -> Nat]
      /\ \A u \in Uids : q[u].score \in Nat /\ q[u].deaths \in Nat
                         /\ pastScore[u] \in Nat /\ pastDeaths[u] \in Nat
  BY TotalsType
<1>8. KillsIn(a) = [KillsIn(q) EXCEPT ![s] = @ + n]
  <2>1. \A u \in Uids : pastScore[u] + a[u].score
                          = IF u = s THEN pastScore[u] + q[u].score + n
                                     ELSE pastScore[u] + q[u].score
    BY <1>3, <1>6, <1>7
  <2> QED BY <1>1, <2>1 DEF KillsIn
<1>9. DeathsIn(a) = [u \in Uids |-> DeathsIn(q)[u] + (IF u \in K THEN 1
                                                                ELSE 0)]
  <2>1. ASSUME NEW u \in Uids
        PROVE  DeathsIn(a)[u] = DeathsIn(q)[u] + (IF u \in K THEN 1 ELSE 0)
    <3>1. DeathsIn(a)[u] = pastDeaths[u] + a[u].deaths
          /\ DeathsIn(q)[u] = pastDeaths[u] + q[u].deaths
      BY DEF DeathsIn
    <3>2. q[u].deaths \in Nat /\ pastDeaths[u] \in Nat
      BY <1>7
    <3>3. CASE u \in K
      <4>1. a[u].deaths = q[u].deaths + 1
        BY <1>6, <3>3
      <4> QED BY <3>1, <3>2, <3>3, <4>1
    <3>4. CASE u \notin K
      <4>1. a[u].deaths = q[u].deaths
        BY <1>6, <3>4
      <4> QED BY <3>1, <3>2, <3>4, <4>1
    <3> QED BY <3>3, <3>4
  <2>2. DeathsIn(a) = [u \in Uids |-> DeathsIn(a)[u]]
    BY DEF DeathsIn
  <2> QED BY <2>1, <2>2
<1>10. Cardinality(Points(KillsIn(a))) = Cardinality(Points(KillsIn(q))) + n
  <2>1. \A f \in [Uids -> Nat], u \in Uids, m \in Nat :
          Cardinality(Points([f EXCEPT ![u] = @ + m]))
            = Cardinality(Points(f)) + m
    BY PointsOfOne
  <2> DEFINE f == KillsIn(q)
  <2>2. f \in [Uids -> Nat] /\ s \in Uids
    BY <1>1, <1>7
  <2>3. KillsIn(a) = [f EXCEPT ![s] = @ + n]
    BY <1>8
  <2> HIDE DEF f
  <2>4. Cardinality(Points(KillsIn(a))) = Cardinality(Points(f)) + n
    BY <1>3, <2>1, <2>2, <2>3
  <2> QED BY <2>4 DEF f
<1>11. Cardinality(Points(DeathsIn(a)))
         = Cardinality(Points(DeathsIn(q))) + n
  BY <1>4, <1>7, <1>9, PointsOfEach DEF n
<1>12. Even(a)
  BY <1>10, <1>11 DEF Even
<1> QED BY <1>12 DEF a

(* The same for an input, where the weapon may be missing.                 *)
LEMMA AfterEven ==
  ASSUME pastScore \in [Uids -> Nat], pastDeaths \in [Uids -> Nat],
         players \subseteq Uids,
         NEW q, Table(q), NEW s \in players, NEW w,
         NEW T \in Choices(q, s, w), Even(q)
  PROVE  Even(After(q, s, w, T))
<1>1. CASE w \in Weapons
  <2>1. /\ Ready(q, s, w) /\ T \in Reachable(q, s, w)
        /\ After(q, s, w, T) = Attack(q, s, w, T)
    BY <1>1 DEF Choices, After
  <2> QED BY <1>1, <2>1, AttackEven
<1>2. CASE w \notin Weapons
  BY <1>2 DEF After
<1> QED BY <1>1, <1>2

(* An attack touches nobody outside the room.                              *)
LEMMA AfterOutside ==
  ASSUME players \subseteq Uids, NEW q, Table(q), NEW s \in players, NEW w,
         NEW T \in Choices(q, s, w), NEW u \in Uids \ players
  PROVE  After(q, s, w, T)[u] = q[u]
<1>1. CASE w \in Weapons
  <2>1. /\ Ready(q, s, w) /\ T \subseteq players
        /\ After(q, s, w, T) = Attack(q, s, w, T)
    BY <1>1 DEF Choices, After, Reachable
  <2>2. Spend(q, s, w)[u] = q[u]
    BY <1>1, <2>1, SpendFits
  <2> QED BY <2>1, <2>2 DEF Attack, Land
<1>2. CASE w \notin Weapons
  BY <1>2 DEF After
<1> QED BY <1>1, <1>2

(* Who is not in the room has no points that Forget has not kept.          *)
Absent == \A u \in Uids \ players : p[u].score = 0 /\ p[u].deaths = 0

(* The inductive invariant of the scoreboard.                              *)
BalanceInv == CombatInv /\ Absent /\ ScoreboardBalances

LEMMA BalanceWords ==
  ASSUME CombatInv
  PROVE  /\ players \subseteq Uids /\ Table(p)
         /\ pastScore \in [Uids -> Nat] /\ pastDeaths \in [Uids -> Nat]
         /\ ScoreboardBalances <=> Even(p)
BY InvWords DEF CombatInv, past, Even, ScoreboardBalances, Kills, Deaths,
                KillsIn, DeathsIn

(* A step that moves no point from one account to another.                 *)
LEMMA SameTotals ==
  ASSUME BalanceInv,
         \A u \in Uids :
           /\ pastScore'[u] + p'[u].score = pastScore[u] + p[u].score
           /\ pastDeaths'[u] + p'[u].deaths = pastDeaths[u] + p[u].deaths,
         \A u \in Uids \ players' : p'[u].score = 0 /\ p'[u].deaths = 0
  PROVE  (Absent /\ ScoreboardBalances)'
<1>1. Kills' = Kills /\ Deaths' = Deaths
  BY DEF Kills, Deaths
<1>2. Points(Kills)' = Points(Kills) /\ Points(Deaths)' = Points(Deaths)
  BY <1>1 DEF Points
<1> QED BY <1>2 DEF BalanceInv, ScoreboardBalances, Absent

(* handleInputMsg: the button, then up to two attacks.                     *)
LEMMA InputBalances ==
  ASSUME BalanceInv, NEW u \in Uids, Input(u)
  PROVE  (Absent /\ ScoreboardBalances)'
<1>1. /\ players \subseteq Uids /\ u \in players /\ Table(p) /\ Even(p)
      /\ pastScore \in [Uids -> Nat] /\ pastDeaths \in [Uids -> Nat]
  BY BalanceWords DEF BalanceInv, Input
<1>2. PICK g \in BOOLEAN, main \in Aimed \cup Sweeping \cup {"none"},
           lock \in {"none", "lock"} :
        LET p1 == [p EXCEPT ![u].guard = g]
        IN \E T1 \in Choices(p1, u, main) :
             LET p2 == After(p1, u, main, T1)
             IN \E T2 \in Choices(p2, u, lock) : p' = After(p2, u, lock, T2)
  BY DEF Input
<1> DEFINE p1 == [p EXCEPT ![u].guard = g]
<1>3. PICK T1 \in Choices(p1, u, main) :
        LET p2 == After(p1, u, main, T1)
        IN \E T2 \in Choices(p2, u, lock) : p' = After(p2, u, lock, T2)
  BY <1>2
<1> DEFINE p2 == After(p1, u, main, T1)
<1>4. PICK T2 \in Choices(p2, u, lock) : p' = After(p2, u, lock, T2)
  BY <1>3
<1>5. /\ Table(p1) /\ \A v \in Uids \ players : p1[v] = p[v]
      /\ \A v \in Uids : p1[v].score = p[v].score
                         /\ p1[v].deaths = p[v].deaths
  <2>1. Table(p1)
    BY <1>1, GuardOutcome DEF Outcome
  <2>2. \A v \in Uids : p1[v] = IF v = u THEN [p[v] EXCEPT !.guard = g]
                                         ELSE p[v]
    BY <1>1 DEF Table
  <2>3. \A v \in Uids : p[v] \in PlayerType
    BY <1>1 DEF Table
  <2> HIDE DEF p1
  <2> QED BY <1>1, <2>1, <2>2, <2>3 DEF PlayerType
<1> HIDE DEF p1
<1>6. Even(p1)
  <2>1. KillsIn(p1) = KillsIn(p) /\ DeathsIn(p1) = DeathsIn(p)
    BY <1>5 DEF KillsIn, DeathsIn
  <2> QED BY <1>1, <2>1 DEF Even
<1>7. Table(p2) /\ Even(p2) /\ \A v \in Uids \ players : p2[v] = p1[v]
  BY <1>1, <1>5, <1>6, AfterOutcome, AfterEven, AfterOutside DEF Outcome
<1> HIDE DEF p2
<1>8. Even(p') /\ \A v \in Uids \ players : p'[v] = p2[v]
  BY <1>1, <1>4, <1>7, AfterEven, AfterOutside
<1>9. players' = players /\ pastScore' = pastScore /\ pastDeaths' = pastDeaths
  BY DEF Input, past
<1>10. Absent'
  BY <1>5, <1>7, <1>8, <1>9 DEF BalanceInv, Absent
<1>11. Kills' = KillsIn(p') /\ Deaths' = DeathsIn(p')
  BY <1>9 DEF Kills, Deaths, KillsIn, DeathsIn
<1>12. ScoreboardBalances'
  BY <1>8, <1>11 DEF Even, ScoreboardBalances, Points
<1> QED BY <1>10, <1>12

(* Points that Forget keeps are those that the table loses.                *)
LEMMA ForgetKeeps ==
  ASSUME BalanceInv, NEW gone \in SUBSET players, Forget(gone),
         players' = players \ gone,
         \A u \in Uids \ players' : p'[u].score = 0 /\ p'[u].deaths = 0,
         \A u \in players' : /\ p'[u].score = p[u].score
                             /\ p'[u].deaths = p[u].deaths
  PROVE  (Absent /\ ScoreboardBalances)'
<1>1. /\ players \subseteq Uids
      /\ \A u \in Uids : p[u].score \in Nat /\ p[u].deaths \in Nat
                         /\ pastScore[u] \in Nat /\ pastDeaths[u] \in Nat
  BY BalanceWords, TotalsType DEF BalanceInv
<1>2. ASSUME NEW u \in Uids
      PROVE  /\ pastScore'[u] + p'[u].score = pastScore[u] + p[u].score
             /\ pastDeaths'[u] + p'[u].deaths = pastDeaths[u] + p[u].deaths
  <2>1. CASE u \in gone
    <3>1. pastScore'[u] = pastScore[u] + p[u].score
          /\ pastDeaths'[u] = pastDeaths[u] + p[u].deaths
      BY <2>1 DEF Forget
    <3>2. p'[u].score = 0 /\ p'[u].deaths = 0
      BY <2>1
    <3> QED BY <1>1, <3>1, <3>2
  <2>2. CASE u \notin gone
    <3>1. pastScore'[u] = pastScore[u] /\ pastDeaths'[u] = pastDeaths[u]
      BY <1>1, <2>2 DEF Forget
    <3>2. p'[u].score = p[u].score /\ p'[u].deaths = p[u].deaths
      BY <2>2 DEF BalanceInv, Absent
    <3> QED BY <3>1, <3>2
  <2> QED BY <2>1, <2>2
<1> QED BY <1>2, SameTotals

(* A frame moves no points but those of the evicted.                       *)
LEMMA TickBalances ==
  ASSUME BalanceInv, Tick
  PROVE  (Absent /\ ScoreboardBalances)'
<1>1. players \subseteq Uids /\ Table(p)
  BY BalanceWords DEF BalanceInv
<1>2. PICK gone \in SUBSET players :
        LET left == players \ gone
            q == [u \in Uids |-> IF u \in left THEN Advanced(p[u])
                                               ELSE NewPlayer]
        IN /\ players' = left
           /\ Forget(gone)
           /\ IF onBroadcast THEN p' = [u \in Uids |-> Announced(q[u], u)]
                             ELSE p' = q
  BY DEF Tick
<1> DEFINE left == players \ gone
           q == [u \in Uids |-> IF u \in left THEN Advanced(p[u])
                                              ELSE NewPlayer]
<1>3. ASSUME NEW u \in Uids
      PROVE  /\ q[u] \in PlayerType
             /\ u \in left => /\ q[u].score = p[u].score
                              /\ q[u].deaths = p[u].deaths
             /\ u \notin left => q[u].score = 0 /\ q[u].deaths = 0
  <2>1. CASE u \in left
    <3>1. Fit(Advanced(p[u])) /\ SameMark(p[u], Advanced(p[u]))
      BY <1>1, AdvancedFits DEF Table
    <3> QED BY <2>1, <3>1 DEF SameMark, Fit
  <2>2. CASE u \notin left
    <3>1. q[u] = NewPlayer /\ NewPlayer \in PlayerType
      BY <2>2, NewFits
    <3>2. NewPlayer.score = 0 /\ NewPlayer.deaths = 0
      BY DEF NewPlayer
    <3> QED BY <2>2, <3>1, <3>2
  <2> QED BY <2>1, <2>2
<1> HIDE DEF q
<1>4. ASSUME NEW u \in Uids
      PROVE  p'[u].score = q[u].score /\ p'[u].deaths = q[u].deaths
  <2>1. Announced(q[u], u).score = q[u].score
        /\ Announced(q[u], u).deaths = q[u].deaths
    BY <1>3 DEF Announced, PlayerType
  <2> QED BY <1>2, <2>1 DEF q
<1> QED BY <1>1, <1>2, <1>3, <1>4, ForgetKeeps

(* Every step keeps the balance.                                           *)
LEMMA BalanceStep ==
  ASSUME BalanceInv, [Next]_vars
  PROVE  BalanceInv'
<1>0. CombatInv'
  BY CombatStep DEF BalanceInv
<1>1. players \subseteq Uids /\ Table(p)
  BY BalanceWords DEF BalanceInv
<1>2. NewPlayer.score = 0 /\ NewPlayer.deaths = 0
  BY DEF NewPlayer
<1> SUFFICES (Absent /\ ScoreboardBalances)'
  BY <1>0 DEF BalanceInv
<1>3. ASSUME NEW u \in Uids, Input(u)
      PROVE  (Absent /\ ScoreboardBalances)'
  BY <1>3, InputBalances
<1>4. ASSUME NEW u \in Uids, Enter(u)
      PROVE  (Absent /\ ScoreboardBalances)'
  <2>1. /\ u \notin players /\ players' = players \cup {u}
        /\ pastScore' = pastScore /\ pastDeaths' = pastDeaths
        /\ p'[u] = NewPlayer /\ \A v \in Uids : v # u => p'[v] = p[v]
    BY <1>1, <1>4 DEF Enter, past, Table
  <2>2. \A v \in Uids : p'[v].score = p[v].score /\ p'[v].deaths = p[v].deaths
    BY <1>2, <2>1 DEF BalanceInv, Absent
  <2> QED BY <2>1, <2>2, SameTotals DEF BalanceInv, Absent
<1>5. ASSUME NEW u \in Uids, Leave(u)
      PROVE  (Absent /\ ScoreboardBalances)'
  <2>1. /\ players' = players \ {u} /\ Forget({u}) /\ u \in players
        /\ p'[u] = NewPlayer /\ \A v \in Uids : v # u => p'[v] = p[v]
    BY <1>1, <1>5 DEF Leave, Table
  <2>2. \A v \in Uids \ players' : p'[v].score = 0 /\ p'[v].deaths = 0
    BY <1>2, <2>1 DEF BalanceInv, Absent
  <2>3. \A v \in players' : p'[v] = p[v]
    BY <1>1, <2>1
  <2> QED BY <2>1, <2>2, <2>3, ForgetKeeps
<1>6. ASSUME NEW u \in Uids, Equip(u)
      PROVE  (Absent /\ ScoreboardBalances)'
  <2>1. PICK b \in Nat : p' = [p EXCEPT ![u].blockMax = b, ![u].block = b]
    <3>1. \A bonus \in Bonuses : BaseBlockMax + bonus \in Nat
      BY CombatAssumption
    <3> QED BY <1>6, <3>1 DEF Equip
  <2>2. \A v \in Uids : p[v] \in PlayerType
    BY <1>1 DEF Table
  <2>3. \A v \in Uids :
          p'[v] = IF v = u THEN [p[v] EXCEPT !.blockMax = b, !.block = b]
                           ELSE p[v]
    BY <1>1, <2>1, <2>2 DEF Table, PlayerType
  <2>4. \A v \in Uids : p'[v].score = p[v].score /\ p'[v].deaths = p[v].deaths
    BY <2>2, <2>3 DEF PlayerType
  <2>5. UNCHANGED <<players, pastScore, pastDeaths>>
    BY <1>6 DEF Equip, past
  <2> QED BY <2>4, <2>5, SameTotals DEF BalanceInv, Absent
<1>7. CASE SetBroadcast
  BY <1>7, SameTotals DEF SetBroadcast, past, BalanceInv, Absent
<1>8. CASE Tick
  BY <1>8, TickBalances
<1>9. CASE UNCHANGED vars
  BY <1>9, SameTotals DEF vars, past, BalanceInv, Absent
<1> QED BY <1>3, <1>4, <1>5, <1>6, <1>7, <1>8, <1>9 DEF Next

(* Combat.hit counts a death where the attack counts a kill: over all      *)
(* accounts, those that have left included, the scoreboard's kills and     *)
(* deaths are as many, however many players one swing kills.               *)
THEOREM KillsMatchDeaths == Spec => []ScoreboardBalances
<1>1. Init => BalanceInv
  <2> SUFFICES ASSUME Init PROVE Absent /\ ScoreboardBalances
    BY CombatInit DEF BalanceInv
  <2>1. NewPlayer.score = 0 /\ NewPlayer.deaths = 0
    BY DEF NewPlayer
  <2>2. \A u \in Uids : p[u].score = 0 /\ p[u].deaths = 0
    BY <2>1 DEF Init
  <2>3. Kills = Deaths
    BY <2>2 DEF Init, Kills, Deaths
  <2> QED BY <2>2, <2>3 DEF Absent, ScoreboardBalances
<1>2. BalanceInv /\ [Next]_vars => BalanceInv'
  BY BalanceStep
<1>3. BalanceInv => ScoreboardBalances
  BY DEF BalanceInv
<1> QED BY <1>1, <1>2, <1>3, PTL DEF Spec

=============================================================================
