----------------------------- MODULE MCMovement -----------------------------
(* A line of five places with a spawn point at each end.                  *)
EXTENDS Movement, TLC

MCPlaces == 0..4
MCSpawnPoints == {0, 4}
=============================================================================
