------------------------------- MODULE MCBag --------------------------------
(* Two sessions of one account; item 4 adds to the block bar, 1 does not.  *)
(* Accounts share nothing.                                                 *)
EXTENDS Bag, TLC

CONSTANTS u1, s1, s2

MCUsers == {u1}
MCSessions == {s1, s2}
MCAcct == [s \in MCSessions |-> u1]
MCItems == {0, 1, 4}
MCBonus == [i \in MCItems |-> IF i = 4 THEN 10 ELSE 0]
MCSymmetry == Permutations(MCSessions)
=============================================================================
