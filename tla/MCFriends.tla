----------------------------- MODULE MCFriends -----------------------------
(* Two accounts; the first has two connections, one after the other or     *)
(* both at once.                                                           *)
EXTENDS Friends, TLC

CONSTANTS u1, u2, s1, s2, s3

MCUsers == {u1, u2}
MCSessions == {s1, s2, s3}
MCAcct == [s \in Sessions |-> IF s = s2 THEN u2 ELSE u1]

(* The two sessions of the first account may change places.               *)
Twins == Permutations({s1, s3})
=============================================================================
