------------------------------ MODULE MCServer ------------------------------
(* One connection, which two goroutines send to.  Sessions share nothing   *)
(* but Server.closed and the two lists of sessions to close.               *)
EXTENDS Server, TLC

CONSTANTS c1, p, q

MCConns == {c1}
MCSenders == {p, q}
=============================================================================
