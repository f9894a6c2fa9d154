------------------------------- MODULE MCHub -------------------------------
(* Three connections of two accounts, or two of one, and two rooms made    *)
(* one after the other under the only room name there is.                  *)
EXTENDS Hub, TLC

CONSTANTS u1, u2, s1, s2, s3, n1

MCUsers == {u1, u2}
MCNames == {n1}
MCTwoSessions == {s1, s2}
MCThreeSessions == {s1, s2, s3}

(* s1 and s3 are connections of one account, s2 of another.                *)
MCAcct == [s \in Sessions |-> IF s = s2 THEN u2 ELSE u1]

MCOneAcct == [s \in Sessions |-> u1]
=============================================================================
