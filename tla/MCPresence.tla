----------------------------- MODULE MCPresence -----------------------------
(* Two friends, one of which comes back with a second session; one room.   *)
EXTENDS Presence, TLC

CONSTANTS u1, u2, s1, s2, s3, r1

MCUsers == {u1, u2}
MCSessions == {s1, s2, s3}
MCAcct == [s \in MCSessions |-> IF s = s2 THEN u2 ELSE u1]
MCFriends == [u \in MCUsers |-> MCUsers \ {u}]
MCRooms == {r1}
MCSymmetry == Permutations({s1, s3})
=============================================================================
