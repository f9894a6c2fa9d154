------------------------------ MODULE MCCombat ------------------------------
(* Three players in a room whose numbers are scaled down, keeping          *)
(* their ratios: a blade takes twice what the gun does, a blocked hit      *)
(* half, a full block bar pays for one block.                              *)
EXTENDS Combat, TLC

CONSTANTS a, b, c

MCUids == {a, b, c}
MCSymmetry == Permutations(Uids)

MCDamage ==
  [w \in Weapons |-> CASE w = "lock" -> 3 [] w = "gun" -> 1 [] OTHER -> 2]
MCAimed == {}
MCSweeping == {"sword"}
MCCooldown == [w \in Weapons |-> 1]

(* A bound: while all three are there nobody blocks or locks on.           *)
MCBrawl ==
  players = Uids => \A u \in Uids : ~p[u].guard /\ p[u].cd["lock"] = 0
=============================================================================
