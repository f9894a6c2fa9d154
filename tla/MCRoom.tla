------------------------------- MODULE MCRoom -------------------------------
(* Three accounts compete for two seats; the mailbox holds two messages    *)
(* and the grace period lasts two ticks.                                   *)
EXTENDS Room, TLC

CONSTANTS u1, u2, u3

MCUsers == {u1, u2, u3}
=============================================================================
