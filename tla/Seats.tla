-------------------------------- MODULE Seats --------------------------------
(***************************************************************************)
(* What a room promises the gateway about its seats, with no clock, no     *)
(* mailbox and no callback plumbing.  A seated player is either held (the  *)
(* loop believes it online) or in grace (marked offline, waiting to come   *)
(* back).  Room.tla implements this specification; Hub.tla builds on it.   *)
(***************************************************************************)
EXTENDS FiniteSets, Naturals

CONSTANTS Users,       (* account ids that may ask for a seat              *)
          MaxPlayers   (* seats of the room                                *)

VARIABLES held,        (* users seated and believed online                 *)
          grace,       (* users seated, marked offline, still in grace     *)
          owed         (* the room still owes an "empty" notice            *)

vars == <<held, grace, owed>>

Seated == held \cup grace

Init == held = {} /\ grace = {} /\ owed = FALSE

(* A newcomer gets a free seat, and the empty notice is armed again.       *)
Take(u) ==
  /\ u \notin Seated
  /\ Cardinality(Seated) < MaxPlayers
  /\ held' = held \cup {u}
  /\ owed' = TRUE
  /\ UNCHANGED grace

(* A player that comes back keeps its seat, whatever the room's occupancy. *)
Resume(u) ==
  /\ u \in Seated
  /\ held' = held \cup {u}
  /\ grace' = grace \ {u}
  /\ UNCHANGED owed

(* The connection of a seated player is reported lost.                     *)
Lapse(u) ==
  /\ u \in Seated
  /\ held' = held \ {u}
  /\ grace' = grace \cup {u}
  /\ UNCHANGED owed

(* A player gives its seat up.                                             *)
Free(u) ==
  /\ u \in Seated
  /\ held' = held \ {u}
  /\ grace' = grace \ {u}
  /\ UNCHANGED owed

(* Only players in grace can be dropped by the room itself, and the notice *)
(* is given exactly when the sweep leaves nobody.                          *)
Sweep ==
  \E gone \in SUBSET grace :
    /\ grace' = grace \ gone
    /\ held' = held
    /\ owed' = (owed /\ held \cup grace' # {})

Next == \/ \E u \in Users : Take(u) \/ Resume(u) \/ Lapse(u) \/ Free(u)
        \/ Sweep

Spec == Init /\ [][Next]_vars
=============================================================================
