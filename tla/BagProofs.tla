------------------------------ MODULE BagProofs ------------------------------
(***************************************************************************)
(* Proofs about Bag.tla, for every set of accounts, sessions and items and *)
(* every number of requests and of failing calls: at rest the store, the   *)
(* room and the client agree on what is worn.                              *)
(*                                                                         *)
(* While a handler carries an item from the store to the room the two do   *)
(* not agree; so the invariant has to say that somebody is on the way      *)
(* (Agreed), with the right item (Carries), and that nobody changes it in  *)
(* between (OneHandler).  For the client's list it has to say that no      *)
(* other handler of the account is about to write (Told).                  *)
(***************************************************************************)
EXTENDS Bag, TLAPS

(* The calls a handler may be about to make.                               *)
Calls == {"idle", "read", "apply joined", "check", "store", "apply", "show"}

BagType ==
  /\ equipID \in [Users -> Items]
  /\ players \subseteq Users /\ bonus \in [Users -> Nat]
  /\ at \in [Sessions -> Calls]
  /\ item \in [Sessions -> Items]
  /\ shown \in [Sessions -> Items]

(* One handler at a time is at work for an account that is not loose.      *)
OneHandler ==
  \A s, t \in Sessions :
    Acct[s] = Acct[t] /\ Acct[s] \notin loose /\ at[s] # "idle"
      /\ at[t] # "idle" => s = t

(* What it carries from the store to the room is what the store has, and   *)
(* it will carry it there.                                                 *)
Carries ==
  \A s \in Sessions : Acct[s] \notin loose =>
    /\ at[s] \in {"check", "store"} => s \in inRoom
    /\ at[s] \in {"apply", "apply joined"} => item[s] = equipID[Acct[s]]

(* Until it has, the room may be behind; otherwise it is not.              *)
Carrying == {"read", "apply joined", "check", "store", "apply"}

Agreed ==
  \A u \in players \ loose :
    (\A s \in Sessions : Acct[s] = u => at[s] \notin Carrying)
      => bonus[u] = Bonus[equipID[u]]

(* A client that has been told the truth is not told otherwise until its   *)
(* own handler sends the next list.                                        *)
Told ==
  \A s \in Sessions \ misled :
    /\ at[s] \notin {"apply", "show"} => shown[s] = equipID[Acct[s]]
    /\ \A t \in Others(s) : at[t] \notin {"check", "store"}

BagInv == BagType /\ OneHandler /\ Carries /\ Agreed /\ Told

(* Nobody is at work at first, and every client has been told.             *)
LEMMA BagInit == Init => BagInv
<1> SUFFICES ASSUME Init PROVE BagInv
  OBVIOUS
<1>1. BagType
  BY BagAssumption DEF BagAssumption, Init, BagType, Calls
<1>2. OneHandler /\ Carries /\ Agreed /\ Told
  BY DEF Init, OneHandler, Carries, Agreed, Told, Others
<1>3. QED
  BY <1>1, <1>2 DEF BagInv

(* Begin sees to it that the account is loose unless the handler is alone  *)
(* and carries what it changes; after that each call hands on to the next, *)
(* and a call that fails makes the account loose.                          *)
LEMMA BagStep ==
  ASSUME BagInv, [Next]_vars
  PROVE  BagInv'
<1> USE BagAssumption DEF BagAssumption, BagInv, Calls
<1>1. ASSUME NEW s \in Sessions, Join(s)
      PROVE  BagInv'
  <2>1. BagType'
    BY <1>1 DEF BagType, Join, Begin, Goto
  <2>2. OneHandler'
    BY <1>1 DEF BagType, OneHandler, Busy, Join, Begin, Goto
  <2>3. Carries'
    BY <1>1 DEF BagType, Carries, Busy, Join, Begin, Goto
  <2>4. Agreed'
    BY <1>1 DEF BagType, Agreed, Carrying, Busy, Join, Begin, Goto
  <2>5. Told'
    BY <1>1 DEF BagType, Told, Others, Join, Begin, Goto
  <2>6. QED
    BY <2>1, <2>2, <2>3, <2>4, <2>5
<1>2. ASSUME NEW s \in Sessions, ReadEquip(s)
      PROVE  BagInv'
  <2>1. BagType'
    BY <1>2 DEF BagType, ReadEquip, Ok, Fails, Goto, With, history
  <2>2. OneHandler'
    BY <1>2
    DEF BagType, OneHandler, Busy, ReadEquip, Ok, Fails, Goto, With, history
  <2>3. Carries'
    <3>1. CASE Ok /\ Goto(s, "apply joined") /\ With(s, equipID[Acct[s]])
      <4>1. /\ at' = [at EXCEPT ![s] = "apply joined"]
            /\ item' = [item EXCEPT ![s] = equipID[Acct[s]]]
            /\ UNCHANGED <<equipID, inRoom, loose>>
        BY <1>2, <3>1 DEF ReadEquip, Ok, Fails, Goto, With, history
      <4>2. QED
        BY <4>1 DEF BagType, Carries
    <3>2. CASE Fails(s) /\ Goto(s, "idle") /\ UNCHANGED item
      <4>1. /\ at' = [at EXCEPT ![s] = "idle"]
            /\ UNCHANGED <<equipID, inRoom, item>>
            /\ loose \subseteq loose'
        BY <1>2, <3>2 DEF ReadEquip, Ok, Fails, Goto, With, history
      <4>2. QED
        BY <4>1 DEF BagType, Carries
    <3>3. QED
      BY <1>2, <3>1, <3>2 DEF ReadEquip
  <2>4. Agreed'
    BY <1>2
    DEF BagType, Agreed, Carrying, Busy, ReadEquip, Ok, Fails, Goto, With,
        history
  <2>5. Told'
    BY <1>2
    DEF BagType, Told, Others, ReadEquip, Ok, Fails, Goto, With, history
  <2>6. QED
    BY <2>1, <2>2, <2>3, <2>4, <2>5
<1>3. ASSUME NEW s \in Sessions, SetPlayerEquip(s, "apply joined", "idle")
      PROVE  BagInv'
  <2>1. BagType'
    BY <1>3 DEF BagType, SetPlayerEquip, Ok, Fails, Goto, Apply, history
  <2>2. OneHandler'
    BY <1>3
    DEF BagType, OneHandler, Busy, SetPlayerEquip, Ok, Fails, Goto, Apply,
        history
  <2>3. Carries'
    BY <1>3
    DEF BagType, Carries, Busy, SetPlayerEquip, Ok, Fails, Goto, Apply,
        history
  <2>4. Agreed'
    <3>1. CASE Ok /\ Apply(s, Bonus[item[s]])
      <4>1. /\ at' = [at EXCEPT ![s] = "idle"]
            /\ bonus' = IF Acct[s] \in players
                        THEN [bonus EXCEPT ![Acct[s]] = Bonus[item[s]]]
                        ELSE bonus
            /\ UNCHANGED <<equipID, players, loose>>
        BY <1>3, <3>1 DEF SetPlayerEquip, Ok, Fails, Goto, Apply, history
      <4>2. Acct[s] \notin loose => item[s] = equipID[Acct[s]]
        BY <1>3 DEF SetPlayerEquip, Carries
      <4>3. Acct[s] \in players \ loose =>
              bonus'[Acct[s]] = Bonus[equipID[Acct[s]]]
        BY <4>1, <4>2 DEF BagType
      <4>4. /\ \A u \in Users \ {Acct[s]} : bonus'[u] = bonus[u]
            /\ \A t \in Sessions : Acct[t] # Acct[s] => at'[t] = at[t]
        BY <4>1 DEF BagType
      <4>5. ASSUME NEW u \in players \ loose, u # Acct[s],
                   \A t \in Sessions : Acct[t] = u => at'[t] \notin Carrying
            PROVE  bonus'[u] = Bonus[equipID[u]]
        <5>1. \A t \in Sessions : Acct[t] = u => at[t] \notin Carrying
          BY <4>4, <4>5
        <5>2. bonus'[u] = bonus[u]
          BY <4>4, <4>5 DEF BagType
        <5>3. QED
          BY <4>5, <5>1, <5>2 DEF Agreed
      <4>6. QED
        BY <4>1, <4>3, <4>5 DEF Agreed
    <3>2. CASE Fails(s) /\ Apply(s, 0)
      <4>1. /\ at' = [at EXCEPT ![s] = "idle"]
            /\ bonus' \in {bonus, [bonus EXCEPT ![Acct[s]] = 0]}
            /\ loose' = loose \cup {Acct[s]}
            /\ UNCHANGED <<equipID, players>>
        BY <1>3, <3>2 DEF SetPlayerEquip, Ok, Fails, Goto, Apply, history
      <4>2. QED
        BY <4>1 DEF BagType, Agreed, Carrying
    <3>3. QED
      BY <1>3, <3>1, <3>2 DEF SetPlayerEquip
  <2>5. Told'
    BY <1>3
    DEF BagType, Told, Others, SetPlayerEquip, Ok, Fails, Goto, Apply,
        history
  <2>6. QED
    BY <2>1, <2>2, <2>3, <2>4, <2>5
<1>4. ASSUME NEW s \in Sessions, Leave(s)
      PROVE  BagInv'
  <2>1. BagType'
    BY <1>4 DEF BagType, Leave, history
  <2>2. OneHandler'
    BY <1>4 DEF BagType, OneHandler, Busy, Leave, history
  <2>3. Carries'
    BY <1>4 DEF BagType, Carries, Busy, Leave, history
  <2>4. Agreed'
    BY <1>4 DEF BagType, Agreed, Carrying, Busy, Leave, history
  <2>5. Told'
    BY <1>4 DEF BagType, Told, Others, Leave, history
  <2>6. QED
    BY <2>1, <2>2, <2>3, <2>4, <2>5
<1>5. ASSUME NEW s \in Sessions, Equip(s)
      PROVE  BagInv'
  <2>1. BagType'
    BY <1>5 DEF BagType, Equip, Begin, Goto, With
  <2>2. OneHandler'
    BY <1>5 DEF BagType, OneHandler, Busy, Equip, Begin, Goto, With
  <2>3. Carries'
    BY <1>5 DEF BagType, Carries, Busy, Equip, Begin, Goto, With
  <2>4. Agreed'
    BY <1>5 DEF BagType, Agreed, Carrying, Busy, Equip, Begin, Goto, With
  <2>5. Told'
    BY <1>5 DEF BagType, Told, Others, Equip, Begin, Goto, With
  <2>6. QED
    BY <2>1, <2>2, <2>3, <2>4, <2>5
<1>6. ASSUME NEW s \in Sessions, CheckItem(s)
      PROVE  BagInv'
  <2>1. BagType'
    BY <1>6 DEF BagType, CheckItem, Ok, Fails, Goto, history
  <2>2. OneHandler'
    BY <1>6 DEF BagType, OneHandler, Busy, CheckItem, Ok, Fails, Goto, history
  <2>3. Carries'
    BY <1>6 DEF BagType, Carries, Busy, CheckItem, Ok, Fails, Goto, history
  <2>4. Agreed'
    BY <1>6
    DEF BagType, Agreed, Carrying, Busy, CheckItem, Ok, Fails, Goto, history
  <2>5. Told'
    BY <1>6 DEF BagType, Told, Others, CheckItem, Ok, Fails, Goto, history
  <2>6. QED
    BY <2>1, <2>2, <2>3, <2>4, <2>5
<1>7. ASSUME NEW s \in Sessions, SetEquip(s)
      PROVE  BagInv'
  <2>1. BagType'
    BY <1>7 DEF BagType, SetEquip, Ok, Fails, Goto, Store, history
  <2>2. OneHandler'
    BY <1>7
    DEF BagType, OneHandler, Busy, SetEquip, Ok, Fails, Goto, Store, history
  <2>3. Carries'
    <3>1. CASE /\ Ok /\ Store(s)
               /\ Goto(s, IF s \in inRoom THEN "apply" ELSE "show")
      <4>1. /\ at[s] = "store"
            /\ \E l \in {"apply", "show"} : at' = [at EXCEPT ![s] = l]
            /\ equipID' = [equipID EXCEPT ![Acct[s]] = item[s]]
            /\ UNCHANGED <<inRoom, item, loose>>
        BY <1>7, <3>1 DEF SetEquip, Ok, Fails, Goto, Store, history
      <4>2. ASSUME NEW t \in Sessions, Acct[t] = Acct[s], Acct[t] \notin loose,
                   t # s
            PROVE  at[t] = "idle"
        BY <4>1, <4>2 DEF OneHandler
      <4>3. QED
        BY <4>1, <4>2 DEF BagType, Carries
    <3>2. CASE /\ Fails(s) /\ (Store(s) \/ UNCHANGED equipID)
               /\ Goto(s, "idle")
      <4>1. /\ at' = [at EXCEPT ![s] = "idle"]
            /\ equipID' \in {equipID, [equipID EXCEPT ![Acct[s]] = item[s]]}
            /\ loose' = loose \cup {Acct[s]}
            /\ UNCHANGED <<inRoom, item>>
        BY <1>7, <3>2 DEF SetEquip, Ok, Fails, Goto, Store, history
      <4>2. QED
        BY <4>1 DEF BagType, Carries
    <3>3. QED
      BY <1>7, <3>1, <3>2 DEF SetEquip
  <2>4. Agreed'
    <3>1. CASE /\ Ok /\ Store(s)
               /\ Goto(s, IF s \in inRoom THEN "apply" ELSE "show")
      <4>1. /\ at[s] = "store"
            /\ at' = [at EXCEPT ![s] = IF s \in inRoom THEN "apply"
                                                      ELSE "show"]
            /\ equipID' = [equipID EXCEPT ![Acct[s]] = item[s]]
            /\ UNCHANGED <<bonus, players, loose>>
        BY <1>7, <3>1 DEF SetEquip, Ok, Fails, Goto, Store, history
      <4>2. Acct[s] \notin loose => at'[s] = "apply"
        BY <4>1 DEF BagType, Carries
      <4>3. QED
        BY <4>1, <4>2 DEF BagType, Agreed, Carrying
    <3>2. CASE /\ Fails(s) /\ (Store(s) \/ UNCHANGED equipID)
               /\ Goto(s, "idle")
      <4>1. /\ at' = [at EXCEPT ![s] = "idle"]
            /\ equipID' \in {equipID, [equipID EXCEPT ![Acct[s]] = item[s]]}
            /\ loose' = loose \cup {Acct[s]}
            /\ UNCHANGED <<bonus, players>>
        BY <1>7, <3>2 DEF SetEquip, Ok, Fails, Goto, Store, history
      <4>2. QED
        BY <4>1 DEF BagType, Agreed, Carrying
    <3>3. QED
      BY <1>7, <3>1, <3>2 DEF SetEquip
  <2>5. Told'
    BY <1>7
    DEF BagType, Told, Others, SetEquip, Ok, Fails, Goto, Store, history
  <2>6. QED
    BY <2>1, <2>2, <2>3, <2>4, <2>5
<1>8. ASSUME NEW s \in Sessions, SetPlayerEquip(s, "apply", "show")
      PROVE  BagInv'
  <2>1. BagType'
    BY <1>8 DEF BagType, SetPlayerEquip, Ok, Fails, Goto, Apply, history
  <2>2. OneHandler'
    BY <1>8
    DEF BagType, OneHandler, Busy, SetPlayerEquip, Ok, Fails, Goto, Apply,
        history
  <2>3. Carries'
    BY <1>8
    DEF BagType, Carries, Busy, SetPlayerEquip, Ok, Fails, Goto, Apply,
        history
  <2>4. Agreed'
    <3>1. CASE Ok /\ Apply(s, Bonus[item[s]])
      <4>1. /\ at' = [at EXCEPT ![s] = "show"]
            /\ bonus' = IF Acct[s] \in players
                        THEN [bonus EXCEPT ![Acct[s]] = Bonus[item[s]]]
                        ELSE bonus
            /\ UNCHANGED <<equipID, players, loose>>
        BY <1>8, <3>1 DEF SetPlayerEquip, Ok, Fails, Goto, Apply, history
      <4>2. Acct[s] \notin loose => item[s] = equipID[Acct[s]]
        BY <1>8 DEF SetPlayerEquip, Carries
      <4>3. Acct[s] \in players \ loose =>
              bonus'[Acct[s]] = Bonus[equipID[Acct[s]]]
        BY <4>1, <4>2 DEF BagType
      <4>4. /\ \A u \in Users \ {Acct[s]} : bonus'[u] = bonus[u]
            /\ \A t \in Sessions : Acct[t] # Acct[s] => at'[t] = at[t]
        BY <4>1 DEF BagType
      <4>5. ASSUME NEW u \in players \ loose, u # Acct[s],
                   \A t \in Sessions : Acct[t] = u => at'[t] \notin Carrying
            PROVE  bonus'[u] = Bonus[equipID[u]]
        <5>1. \A t \in Sessions : Acct[t] = u => at[t] \notin Carrying
          BY <4>4, <4>5
        <5>2. bonus'[u] = bonus[u]
          BY <4>4, <4>5 DEF BagType
        <5>3. QED
          BY <4>5, <5>1, <5>2 DEF Agreed
      <4>6. QED
        BY <4>1, <4>3, <4>5 DEF Agreed
    <3>2. CASE Fails(s) /\ Apply(s, 0)
      <4>1. /\ at' = [at EXCEPT ![s] = "show"]
            /\ bonus' \in {bonus, [bonus EXCEPT ![Acct[s]] = 0]}
            /\ loose' = loose \cup {Acct[s]}
            /\ UNCHANGED <<equipID, players>>
        BY <1>8, <3>2 DEF SetPlayerEquip, Ok, Fails, Goto, Apply, history
      <4>2. QED
        BY <4>1 DEF BagType, Agreed, Carrying
    <3>3. QED
      BY <1>8, <3>1, <3>2 DEF SetPlayerEquip
  <2>5. Told'
    BY <1>8
    DEF BagType, Told, Others, SetPlayerEquip, Ok, Fails, Goto, Apply,
        history
  <2>6. QED
    BY <2>1, <2>2, <2>3, <2>4, <2>5
<1>9. ASSUME NEW s \in Sessions, List(s)
      PROVE  BagInv'
  <2>1. BagType'
    BY <1>9 DEF BagType, List, Begin, Goto
  <2>2. OneHandler'
    BY <1>9 DEF BagType, OneHandler, Busy, List, Begin, Goto
  <2>3. Carries'
    BY <1>9 DEF BagType, Carries, Busy, List, Begin, Goto
  <2>4. Agreed'
    BY <1>9 DEF BagType, Agreed, Carrying, Busy, List, Begin, Goto
  <2>5. Told'
    BY <1>9 DEF BagType, Told, Others, List, Begin, Goto
  <2>6. QED
    BY <2>1, <2>2, <2>3, <2>4, <2>5
<1>10. ASSUME NEW s \in Sessions, SendBagList(s)
      PROVE  BagInv'
  <2>1. BagType'
    BY <1>10 DEF BagType, SendBagList, Ok, Fails, Goto, history
  <2>2. OneHandler'
    BY <1>10
    DEF BagType, OneHandler, Busy, SendBagList, Ok, Fails, Goto, history
  <2>3. Carries'
    BY <1>10 DEF BagType, Carries, Busy, SendBagList, Ok, Fails, Goto, history
  <2>4. Agreed'
    BY <1>10
    DEF BagType, Agreed, Carrying, Busy, SendBagList, Ok, Fails, Goto,
        history
  <2>5. Told'
    BY <1>10 DEF BagType, Told, Others, SendBagList, Ok, Fails, Goto, history
  <2>6. QED
    BY <2>1, <2>2, <2>3, <2>4, <2>5
<1>11. CASE UNCHANGED vars
  BY <1>11
  DEF vars, history, BagType, OneHandler, Carries, Agreed, Told, Others
<1>12. QED
  BY <1>1, <1>2, <1>3, <1>4, <1>5, <1>6, <1>7, <1>8, <1>9, <1>10, <1>11
  DEF Next

-----------------------------------------------------------------------------
(* The invariant is inductive.                                             *)
THEOREM BagInvariant == Spec => []BagInv
<1>1. BagInv /\ [Next]_vars => BagInv'
  BY BagStep
<1>2. QED
  BY BagInit, <1>1, PTL DEF Spec

(* At rest the store, the room and the client agree on what is worn, for   *)
(* any number of accounts, sessions and items, however many requests are   *)
(* made and however many calls fail; but for the accounts and sessions     *)
(* that the model names.                                                   *)
THEOREM EquipmentAgrees == Spec => []EquipAgrees
<1>1. BagInv => EquipAgrees
  <2> SUFFICES ASSUME BagInv PROVE EquipAgrees
    OBVIOUS
  <2>1. ASSUME NEW u \in players \ loose, ~Busy(u)
        PROVE  bonus[u] = Bonus[equipID[u]]
    BY <2>1 DEF BagInv, Agreed, Busy, Carrying
  <2>2. ASSUME NEW s \in Sessions \ misled, at[s] = "idle"
        PROVE  shown[s] = equipID[Acct[s]]
    BY <2>2 DEF BagInv, Told
  <2>3. QED
    BY <2>1, <2>2 DEF EquipAgrees
<1>2. QED
  BY BagInvariant, <1>1, PTL
=============================================================================
