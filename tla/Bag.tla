-------------------------------- MODULE Bag ---------------------------------
(***************************************************************************)
(* Equipment: the bag handlers of gateway/hub.go (SendBagList,             *)
(* handleBagEquip, blockBonus, the end of Join), the equip_id of the store *)
(* and applyEquip of the room.  The store has what an account wears, the   *)
(* room has what its player benefits from, and the handlers of the         *)
(* account's sessions carry the one to the other in several calls.         *)
(*                                                                         *)
(* Sessions are logged in, and there is one room; a step is a call to the  *)
(* store or to the room.  Calls to the store may fail.  What Hub.tla says  *)
(* of seats, routes and connections is left out.                           *)
(***************************************************************************)
EXTENDS Naturals, FiniteSets

CONSTANTS Users,       (* account ids                                        *)
          Sessions,    (* connections                                        *)
          Acct,        (* [Sessions -> Users]                                *)
          Items,       (* ids of the catalogue of equipment, 0 for none      *)
          Bonus,       (* [Items -> Nat]: effect_value if it is block_max    *)
          MaxRequests, (* bound: requests                                    *)
          MaxFaults    (* bound: calls to the store that fail                *)

ASSUME BagAssumption ==
  /\ Acct \in [Sessions -> Users]
  /\ 0 \in Items /\ Bonus \in [Items -> Nat] /\ Bonus[0] = 0
  /\ MaxRequests \in Nat /\ MaxFaults \in Nat

VARIABLES
  equipID,   (* users.equip_id, an item for each user                        *)
  players,   (* users with a Player in the room                              *)
  bonus,     (* BlockMax of each Player, less BaseBlockMax                   *)
  inRoom,    (* sessions whose Room is set                                   *)
  at,        (* the call each handler makes next, "idle" for none            *)
  item,      (* the item it works with                                       *)
  shown,     (* what the last bag list said is worn                          *)
  requests,  (* history: requests made                                       *)
  faults,    (* history: calls that failed                                   *)
  loose,     (* history: users whose room need not know what they wear: two  *)
             (* of their handlers overlapped, a call failed, or a session    *)
             (* outside the room changed it; until one handler alone has     *)
             (* brought it to the room again                                 *)
  misled     (* history: sessions whose last bag list need not be right: a   *)
             (* call failed, or another session has changed what is worn     *)

history == <<requests, faults, loose, misled>>
vars == <<equipID, players, bonus, inRoom, at, item, shown, history>>

Init ==
  /\ equipID \in [Users -> Items]
  /\ players = {} /\ bonus = [u \in Users |-> 0]
  /\ inRoom = {}
  /\ at = [s \in Sessions |-> "idle"]
  /\ item = [s \in Sessions |-> 0]
  /\ shown = [s \in Sessions |-> equipID[Acct[s]]]
  /\ requests = 0 /\ faults = 0 /\ loose = {} /\ misled = {}

-----------------------------------------------------------------------------
Others(s) == {t \in Sessions \ {s} : Acct[t] = Acct[s]}
Busy(u) == \E s \in Sessions : Acct[s] = u /\ at[s] # "idle"

Goto(s, label) == at' = [at EXCEPT ![s] = label]
With(s, i) == item' = [item EXCEPT ![s] = i]

(* A handler begins; carries says whether it tells the room of what is     *)
(* worn, changes whether it may change it.                                 *)
Begin(s, label, carries, changes) ==
  /\ at[s] = "idle" /\ requests < MaxRequests
  /\ requests' = requests + 1
  /\ Goto(s, label)
  /\ loose' = IF Busy(Acct[s]) \/ (changes /\ ~carries)
              THEN loose \cup {Acct[s]}
              ELSE IF carries THEN loose \ {Acct[s]} ELSE loose
  /\ misled' = IF changes THEN misled \cup Others(s) ELSE misled
  /\ UNCHANGED faults

Ok == UNCHANGED history
Fails(s) ==
  /\ faults < MaxFaults /\ faults' = faults + 1
  /\ loose' = loose \cup {Acct[s]}
  /\ misled' = misled \cup {s}
  /\ UNCHANGED requests

-----------------------------------------------------------------------------
(* Join enters the room, then reads what is worn; if that fails the player *)
(* stays as it is.                                                         *)
Join(s) ==
  /\ s \notin inRoom
  /\ Begin(s, "read", TRUE, FALSE)
  /\ inRoom' = inRoom \cup {s}
  /\ players' = players \cup {Acct[s]}
  /\ bonus' = IF Acct[s] \in players THEN bonus
                                     ELSE [bonus EXCEPT ![Acct[s]] = 0]
  /\ UNCHANGED <<equipID, item, shown>>

ReadEquip(s) ==
  /\ at[s] = "read"
  /\ \/ Ok /\ Goto(s, "apply joined") /\ With(s, equipID[Acct[s]])
     \/ Fails(s) /\ Goto(s, "idle") /\ UNCHANGED item
  /\ UNCHANGED <<equipID, players, bonus, inRoom, shown>>

(* applyEquip: nothing for a user without a Player.                        *)
Apply(s, b) ==
  bonus' = IF Acct[s] \in players THEN [bonus EXCEPT ![Acct[s]] = b]
                                  ELSE bonus

(* blockBonus looks the item up, and a failure is a bonus of 0; then       *)
(* SetPlayerEquip.                                                         *)
SetPlayerEquip(s, from, next) ==
  /\ at[s] = from
  /\ \/ Ok /\ Apply(s, Bonus[item[s]])
     \/ Fails(s) /\ Apply(s, 0)
  /\ Goto(s, next)
  /\ UNCHANGED <<equipID, players, inRoom, item, shown>>

Leave(s) ==
  /\ at[s] = "idle" /\ s \in inRoom
  /\ inRoom' = inRoom \ {s}
  /\ players' = players \ {Acct[s]}
  /\ UNCHANGED <<equipID, bonus, at, item, shown, history>>

-----------------------------------------------------------------------------
(* handleBagEquip, of an item that the catalogue has: if the look at the   *)
(* catalogue fails, or the write, the answer is an error.                  *)
Equip(s) ==
  /\ Begin(s, "check", s \in inRoom, TRUE)
  /\ \E i \in Items : With(s, i)
  /\ UNCHANGED <<equipID, players, bonus, inRoom, shown>>

CheckItem(s) ==
  /\ at[s] = "check"
  /\ \/ Ok /\ Goto(s, "store")
     \/ Fails(s) /\ Goto(s, "idle")
  /\ UNCHANGED <<equipID, players, bonus, inRoom, item, shown>>

Store(s) == equipID' = [equipID EXCEPT ![Acct[s]] = item[s]]

(* Mutant: the room is not told.                                           *)
SetEquipOnly(s) ==
  /\ at[s] = "store"
  /\ \/ Ok /\ Store(s) /\ Goto(s, "show")
     \/ Fails(s) /\ (Store(s) \/ UNCHANGED equipID) /\ Goto(s, "idle")
  /\ UNCHANGED <<players, bonus, inRoom, item, shown>>

(* A write whose answer is lost may have been done.                        *)
SetEquip(s) ==
  /\ at[s] = "store"
  /\ \/ Ok /\ Store(s) /\ Goto(s, IF s \in inRoom THEN "apply" ELSE "show")
     \/ Fails(s) /\ (Store(s) \/ UNCHANGED equipID) /\ Goto(s, "idle")
  /\ UNCHANGED <<players, bonus, inRoom, item, shown>>

(* SendBagList, on request and at the end of handleBagEquip: a failure     *)
(* shows that nothing is worn.                                             *)
List(s) ==
  /\ Begin(s, "show", FALSE, FALSE)
  /\ UNCHANGED <<equipID, players, bonus, inRoom, item, shown>>

SendBagList(s) ==
  /\ at[s] = "show"
  /\ \/ /\ shown' = [shown EXCEPT ![s] = equipID[Acct[s]]]
        /\ misled' = IF \E t \in Others(s) : at[t] \in {"check", "store"}
                     THEN misled ELSE misled \ {s}
        /\ UNCHANGED <<requests, faults, loose>>
     \/ Fails(s) /\ shown' = [shown EXCEPT ![s] = 0]
  /\ Goto(s, "idle")
  /\ UNCHANGED <<equipID, players, bonus, inRoom, item>>

-----------------------------------------------------------------------------
Next ==
  \E s \in Sessions :
    \/ Join(s) \/ ReadEquip(s) \/ SetPlayerEquip(s, "apply joined", "idle")
    \/ Leave(s)
    \/ Equip(s) \/ CheckItem(s) \/ SetEquip(s)
    \/ SetPlayerEquip(s, "apply", "show")
    \/ List(s) \/ SendBagList(s)

Spec == Init /\ [][Next]_vars

-----------------------------------------------------------------------------
(* Properties.                                                             *)

(* At rest the store, the room and the client agree.  The player in the    *)
(* room benefits from what the account wears, whenever it was put on, but  *)
(* for an account that two sessions share (see loose) and after a failure: *)
(* and then the next handler that is alone repairs it.  And the last bag   *)
(* list a session got says what is worn, unless a call failed or another   *)
(* session has changed it since.                                           *)
EquipAgrees ==
  /\ \A u \in players \ loose : ~Busy(u) => bonus[u] = Bonus[equipID[u]]
  /\ \A s \in Sessions \ misled :
       at[s] = "idle" => shown[s] = equipID[Acct[s]]
=============================================================================
