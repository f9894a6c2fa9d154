---------------------------- MODULE FriendsProofs ----------------------------
(***************************************************************************)
(* Proofs about Friends.tla, for every set of accounts and sessions: what  *)
(* is applied for and agreed reaches the session of the other side, and    *)
(* nobody becomes a friend, or is asked to be one again, without cause.    *)
(***************************************************************************)
EXTENDS Friends, TLAPS

Labels == {"idle", "enlist", "readPending", "sendPending", "readFriends",
           "sendFriends", "lookup", "insert", "push"}

FriendsType ==
  /\ row \in [Users \X Users -> {"none", "pending", "friend"}]
  /\ online \in [Users -> Sessions \cup {Nobody}]
  /\ loggedIn \subseteq Sessions /\ closed \subseteq Sessions
  /\ gone \subseteq Sessions
  /\ pc \in [Sessions -> Labels]
  /\ peer \in [Sessions -> Users \cup {Nobody}]
  /\ target \in [Sessions -> Sessions]
  /\ batch \in [Sessions -> SUBSET Users]
  /\ seen \in [Sessions -> SUBSET Users]
  /\ told \in [Sessions -> SUBSET Users]
  /\ overlapped \subseteq Sessions
  /\ older \subseteq Sessions /\ outrun \subseteq Sessions

(* What a handler is at says whom it works for: peer is there for those    *)
(* that need it, and lists go to others in SendFriendList only.            *)
Handling ==
  \A s \in Sessions :
    /\ pc[s] # "idle" => s \in loggedIn
    /\ pc[s] \in {"insert", "push", "lookup"} => peer[s] # Nobody
    /\ pc[s] \in {"idle", "enlist", "readPending", "sendPending"}
         => peer[s] = Nobody
    /\ pc[s] \notin {"readFriends", "sendFriends"} => target[s] = s

(* Who is in the online table has logged in to that account.               *)
Enlisted ==
  \A u \in Users : online[u] # Nobody =>
    Acct[online[u]] = u /\ online[u] \in loggedIn /\ pc[online[u]] # "enlist"

(* Sessions of one account that have both logged in.                       *)
Rivals(s, t) ==
  s # t /\ Acct[s] = Acct[t] /\ s \in loggedIn /\ t \in loggedIn

(* One of two rivals was over when the other one came, or they have        *)
(* overlapped; and what is over stays out of the online table, or else the *)
(* other one has not got there yet.                                        *)
Apart ==
  \A s, t \in Sessions :
    Rivals(s, t) /\ s \notin overlapped => Over(s) \/ Over(t)

Listed(s) == online[Acct[s]] = s

Shown ==
  \A s, t \in Sessions :
    Rivals(s, t) /\ s \notin overlapped /\ Listed(s)
      => Over(t) \/ pc[t] = "enlist"

SessionsInv == FriendsType /\ Handling /\ Enlisted /\ Apart /\ Shown

(* A waiting application is on its way to the session in the table: in the *)
(* list it is about to be sent, or to be pushed by the one that made it.   *)
Applications ==
  \A s \in Sessions : Listed(s) /\ pc[s] # "readPending" =>
    \A a \in PendingFriendIDs(Acct[s]) :
      \/ a \in seen[s]
      \/ pc[s] = "sendPending" /\ a \in batch[s]
      \/ \E t \in Sessions :
           Acct[t] = a /\ peer[t] = Acct[s] /\ pc[t] = "push"

(* The handler of t is about to read a list for s, or has one in hand.     *)
Reading(t, s) == pc[t] = "readFriends" /\ target[t] = s
InHand(t, s) == pc[t] = "sendFriends" /\ target[t] = s

(* It has accepted, and will look for a session of that account.           *)
Accepting(t, s) ==
  peer[t] = Acct[s] /\ pc[t] \in {"readFriends", "sendFriends", "lookup"}

(* A list that will contain a is going to be read for s.                   *)
Coming(s, a) ==
  \/ pc[s] \in {"readPending", "sendPending"}
  \/ \E t \in Sessions :
       Reading(t, s) \/ (Acct[t] = a /\ Accepting(t, s))

(* Nobody has read for s again since t has: a is in the list, or in one    *)
(* that is still to be read.                                               *)
Newest(t, s, a) ==
  InHand(t, s) /\ t \notin older => a \in batch[t] \/ Coming(s, a)

(* a is in the list that s was sent last, or another list is to follow, or *)
(* that one was outrun.                                                    *)
Due(s, a) ==
  \/ a \in told[s]
  \/ s \in outrun
  \/ Coming(s, a)
  \/ \E t \in Sessions : InHand(t, s) /\ t \notin older

(* Who has been overtaken has a list in hand.                              *)
Overtaken == \A t \in older : pc[t] = "sendFriends"

Friendships ==
  \A s \in Sessions \ overlapped : Listed(s) =>
    \A a \in FriendIDs(Acct[s]) :
      Due(s, a) /\ \A t \in Sessions : Newest(t, s, a)

(* A row is what the two sides have asked and agreed.                      *)
Consent ==
  \A a, b \in Users :
    /\ row[<<a, b>>] = "pending" => <<a, b>> \in asked
    /\ row[<<a, b>>] = "friend" => <<a, b>> \in agreed

(* No session has logged in, and nothing has been asked.                   *)
LEMMA TypeInit == Init => FriendsType
  BY FriendsAssumption DEF FriendsAssumption, Init, FriendsType, Labels

(* Lists and pushes go to sessions that are in the online table.           *)
LEMMA TypeStep == FriendsType /\ Handling /\ [Next]_vars => FriendsType'
<1> SUFFICES ASSUME FriendsType, Handling, [Next]_vars PROVE FriendsType'
  OBVIOUS
<1> USE FriendsAssumption
    DEF FriendsAssumption, FriendsType, Labels, client, handler, answers, lists
<1>1. ASSUME NEW s \in Sessions, Login(s) PROVE FriendsType'
  BY <1>1 DEF Login, Goto
<1>2. ASSUME NEW s \in Sessions, Enlist(s) PROVE FriendsType'
  BY <1>2 DEF Enlist, Goto
<1>3. ASSUME NEW s \in Sessions, ReadPending(s) PROVE FriendsType'
  BY <1>3 DEF ReadPending, Goto, PendingFriendIDs
<1>4. ASSUME NEW s \in Sessions, SendPending(s) PROVE FriendsType'
  BY <1>4 DEF SendPending, Goto
<1>5. ASSUME NEW s \in Sessions, ReadFriends(s) PROVE FriendsType'
  BY <1>5 DEF ReadFriends, Goto, FriendIDs
<1>6. ASSUME NEW s \in Sessions, SendFriends(s) PROVE FriendsType'
  BY <1>6 DEF SendFriends, Goto
<1>7. ASSUME NEW s \in Sessions, Lookup(s) PROVE FriendsType'
  <2>1. online[peer[s]] \in Sessions \cup {Nobody}
    BY <1>7 DEF Lookup, Handling
  <2>2. QED
    BY <1>7, <2>1 DEF Lookup, Goto
<1>8. ASSUME NEW s \in Sessions, FriendList(s) PROVE FriendsType'
  BY <1>8 DEF FriendList, Goto
<1>9. ASSUME NEW s \in Sessions, Insert(s) PROVE FriendsType'
  BY <1>9 DEF Insert, InviteFriend, Goto
<1>10. ASSUME NEW s \in Sessions, Push(s) PROVE FriendsType'
  BY <1>10 DEF Push, Goto, Handling
<1>11. ASSUME NEW s \in Sessions, NEW u \in Users, Invite(s, u)
       PROVE  FriendsType'
  BY <1>11 DEF Invite, Goto
<1>12. ASSUME NEW s \in Sessions, NEW u \in Users, Accept(s, u)
       PROVE  FriendsType'
  BY <1>12 DEF Accept, AcceptFriend, Answered, Goto
<1>13. ASSUME NEW s \in Sessions, NEW u \in Users, Reject(s, u)
       PROVE  FriendsType'
  BY <1>13 DEF Reject, RejectFriend, Answered
<1>14. ASSUME NEW s \in Sessions, Close(s) PROVE FriendsType'
  BY <1>14 DEF Close
<1>15. ASSUME NEW s \in Sessions, Shut(s) PROVE FriendsType'
  BY <1>15 DEF Shut
<1>16. CASE UNCHANGED vars
  BY <1>16 DEF vars
<1>17. QED
  BY <1>1, <1>2, <1>3, <1>4, <1>5, <1>6, <1>7, <1>8, <1>9, <1>10, <1>11,
     <1>12, <1>13, <1>14, <1>15, <1>16 DEF Next, Handler
-----------------------------------------------------------------------------
(* A handler's step leaves the other handlers where they are.              *)
LEMMA OthersStay ==
  ASSUME FriendsType, NEW s \in Sessions, Handler(s)
  PROVE  \A t \in Sessions \ {s} :
           /\ pc'[t] = pc[t] /\ peer'[t] = peer[t]
           /\ target'[t] = target[t] /\ batch'[t] = batch[t]
<1> USE DEF FriendsType, Goto, client, handler, answers, lists
<1>1. CASE Login(s) \/ Enlist(s) \/ ReadPending(s) \/ SendPending(s)
  BY <1>1 DEF Login, Enlist, ReadPending, SendPending
<1>2. CASE ReadFriends(s) \/ SendFriends(s) \/ Lookup(s)
  BY <1>2 DEF ReadFriends, SendFriends, Lookup
<1>3. CASE FriendList(s) \/ Insert(s) \/ Push(s)
  BY <1>3 DEF FriendList, Insert, Push
<1>4. ASSUME NEW u \in Users, Invite(s, u) \/ Accept(s, u) \/ Reject(s, u)
      PROVE  \A t \in Sessions \ {s} :
               /\ pc'[t] = pc[t] /\ peer'[t] = peer[t]
               /\ target'[t] = target[t] /\ batch'[t] = batch[t]
  BY <1>4 DEF Invite, Accept, Reject
<1>5. QED
  BY <1>1, <1>2, <1>3, <1>4 DEF Handler

(* A handler picks a peer when it takes a request and drops it when it is  *)
(* done with it.                                                           *)
LEMMA HandlingStep == FriendsType /\ Handling /\ [Next]_vars => Handling'
<1> SUFFICES ASSUME FriendsType, Handling, [Next]_vars PROVE Handling'
  OBVIOUS
<1>1. loggedIn \subseteq loggedIn'
  BY DEF Next, Handler, Login, Enlist, ReadPending, SendPending, ReadFriends,
         SendFriends, Lookup, FriendList, Insert, Push, Invite, Accept,
         Reject, Close, Shut, vars
<1>2. ASSUME NEW s \in Sessions, Handler(s) PROVE Handling'
  <2>1. \A t \in Sessions \ {s} :
          /\ pc'[t] = pc[t] /\ peer'[t] = peer[t] /\ target'[t] = target[t]
    BY <1>2, OthersStay
  <2>2. /\ pc'[s] # "idle" => s \in loggedIn'
        /\ pc'[s] \in {"insert", "push", "lookup"} => peer'[s] # Nobody
        /\ pc'[s] \in {"idle", "enlist", "readPending", "sendPending"}
             => peer'[s] = Nobody
        /\ pc'[s] \notin {"readFriends", "sendFriends"} => target'[s] = s
    <3> USE FriendsAssumption
        DEF FriendsAssumption, FriendsType, Labels, Handling, Goto, client,
            handler, answers, lists
    <3>1. CASE Login(s) \/ Enlist(s) \/ ReadPending(s) \/ SendPending(s)
      BY <3>1 DEF Login, Enlist, ReadPending, SendPending
    <3>2. CASE ReadFriends(s) \/ SendFriends(s) \/ Lookup(s)
      BY <3>2 DEF ReadFriends, SendFriends, Lookup
    <3>3. CASE FriendList(s) \/ Insert(s) \/ Push(s)
      BY <3>3 DEF FriendList, Insert, Push, Request
    <3>4. ASSUME NEW u \in Users,
                 Invite(s, u) \/ Accept(s, u) \/ Reject(s, u)
          PROVE  <2>2
      BY <3>4 DEF Invite, Accept, Reject, Request
    <3>5. QED
      BY <1>2, <3>1, <3>2, <3>3, <3>4 DEF Handler
  <2>3. QED
    BY <1>1, <2>1, <2>2 DEF Handling
<1>3. CASE UNCHANGED handler
  BY <1>1, <1>3 DEF handler, Handling
<1>4. QED
  BY <1>2, <1>3 DEF Next, Close, Shut, vars, handler

(* A login enters its own session, a close takes out its own account.      *)
LEMMA EnlistedStep ==
  FriendsType /\ Handling /\ Enlisted /\ [Next]_vars => Enlisted'
<1> SUFFICES ASSUME FriendsType, Handling, Enlisted, [Next]_vars
             PROVE  Enlisted'
  OBVIOUS
<1> USE FriendsAssumption
    DEF FriendsAssumption, FriendsType, Labels, Enlisted, client, handler,
        answers, lists
<1>1. ASSUME NEW s \in Sessions, Enlist(s) PROVE Enlisted'
  BY <1>1 DEF Enlist, Goto, Handling
<1>2. ASSUME NEW s \in Sessions, Login(s) PROVE Enlisted'
  <2>1. \A u \in Users : online[u] # s
    BY <1>2 DEF Login
  <2>2. QED
    BY <1>2, <2>1 DEF Login, Goto
<1>3. ASSUME NEW s \in Sessions, Close(s) PROVE Enlisted'
  BY <1>3 DEF Close
<1>4. CASE /\ UNCHANGED <<online, loggedIn>>
           /\ \A t \in Sessions : pc'[t] = "enlist" => pc[t] = "enlist"
  BY <1>4
<1>5. ASSUME NEW s \in Sessions, Handler(s), ~Login(s), ~Enlist(s)
      PROVE  /\ UNCHANGED <<online, loggedIn>>
             /\ \A t \in Sessions : pc'[t] = "enlist" => pc[t] = "enlist"
  <2>1. UNCHANGED <<online, loggedIn>>
    BY <1>5 DEF Handler, ReadPending, SendPending, ReadFriends, SendFriends,
                Lookup, FriendList, Insert, Push, Invite, Accept, Reject
  <2>2. pc'[s] = "enlist" => pc[s] = "enlist"
    BY <1>5 DEF Handler, ReadPending, SendPending, ReadFriends, SendFriends,
                Lookup, FriendList, Insert, Push, Invite, Accept, Reject,
                Goto
  <2>3. QED
    BY <1>5, <2>1, <2>2, OthersStay
<1>6. CASE UNCHANGED vars \/ \E s \in Sessions : Shut(s)
  BY <1>6, <1>4 DEF vars, Shut
<1>7. QED
  BY <1>1, <1>2, <1>3, <1>4, <1>5, <1>6 DEF Next

(* What is over stays over: the connection is shut, the last frame done.   *)
LEMMA OverStays ==
  ASSUME FriendsType, [Next]_vars, NEW t \in Sessions, Over(t)
  PROVE  Over(t)'
<1> USE DEF Over
<1>1. ASSUME NEW s \in Sessions, Handler(s) PROVE Over(t)'
  <2>1. gone' = gone
    BY <1>1 DEF Handler, Login, Enlist, ReadPending, SendPending, ReadFriends,
                SendFriends, Lookup, FriendList, Insert, Push, Invite, Accept,
                Reject
  <2>2. CASE s # t
    BY <1>1, <2>1, <2>2, OthersStay
  <2>3. CASE s = t
    <3>1. ~(\/ Login(s) \/ Enlist(s) \/ ReadPending(s) \/ SendPending(s)
            \/ ReadFriends(s) \/ SendFriends(s) \/ Lookup(s)
            \/ FriendList(s) \/ Insert(s) \/ Push(s))
      BY <2>3 DEF Login, Enlist, ReadPending, SendPending, ReadFriends,
                  SendFriends, Lookup, FriendList, Insert, Push, Request
    <3>2. \A u \in Users : ~(Invite(s, u) \/ Accept(s, u) \/ Reject(s, u))
      BY <2>3 DEF Invite, Accept, Reject, Request
    <3>3. QED
      BY <1>1, <3>1, <3>2 DEF Handler
  <2>4. QED
    BY <2>2, <2>3
<1>2. ASSUME NEW s \in Sessions, Close(s) \/ Shut(s) PROVE Over(t)'
  BY <1>2 DEF Close, Shut, handler
<1>3. CASE UNCHANGED vars
  BY <1>3 DEF vars
<1>4. QED
  BY <1>1, <1>2, <1>3 DEF Next

(* Two sessions of one account become rivals when the second logs in.      *)
LEMMA OnlyLoginPairs ==
  ASSUME [Next]_vars
  PROVE  \/ \E s \in Sessions : Login(s)
         \/ UNCHANGED <<loggedIn, overlapped>>
  BY DEF Next, Handler, Enlist, ReadPending, SendPending, ReadFriends,
         SendFriends, Lookup, FriendList, Insert, Push, Invite, Accept,
         Reject, Close, Shut, vars

(* A login that finds another session of its account alive is an overlap,  *)
(* and what is over stays so.                                              *)
LEMMA ApartStep == FriendsType /\ Apart /\ [Next]_vars => Apart'
<1> SUFFICES ASSUME FriendsType, Apart, [Next]_vars,
                    NEW s \in Sessions, NEW t \in Sessions,
                    Rivals(s, t)', s \notin overlapped'
             PROVE  Over(s)' \/ Over(t)'
  BY DEF Apart
<1>1. CASE Rivals(s, t) /\ s \notin overlapped
  BY <1>1, OverStays DEF Apart
<1>2. ASSUME NEW n \in Sessions, Login(n) PROVE Over(s)' \/ Over(t)'
  <2> DEFINE others == {r \in loggedIn : Acct[r] = Acct[n] /\ ~Over(r)}
  <2>1. /\ loggedIn' = loggedIn \cup {n}
        /\ overlapped' = IF others = {} THEN overlapped
                                       ELSE overlapped \cup others \cup {n}
    BY <1>2 DEF Login
  <2>2. CASE n \notin {s, t}
    BY <1>1, <2>1, <2>2 DEF Rivals
  <2>3. CASE n = s
    BY <2>1, <2>3, OverStays DEF Rivals, FriendsType
  <2>4. CASE n = t
    BY <2>1, <2>4, OverStays DEF Rivals, FriendsType
  <2>5. QED
    BY <2>2, <2>3, <2>4
<1>3. CASE UNCHANGED <<loggedIn, overlapped>>
  BY <1>1, <1>3 DEF Rivals
<1>4. QED
  BY <1>2, <1>3, OnlyLoginPairs

(* Only the session that came last gets into the table of one that has not *)
(* overlapped.                                                             *)
LEMMA ShownStep ==
  SessionsInv /\ [Next]_vars => Shown'
<1> SUFFICES ASSUME SessionsInv, [Next]_vars,
                    NEW s \in Sessions, NEW t \in Sessions,
                    Rivals(s, t)', s \notin overlapped', Listed(s)'
             PROVE  Over(t)' \/ (pc[t] = "enlist")'
  BY DEF Shown
<1> USE DEF SessionsInv
<1>1. CASE Rivals(s, t) /\ s \notin overlapped /\ Over(t)
  BY <1>1, OverStays
<1>2. ASSUME NEW n \in Sessions, Login(n)
      PROVE  Over(t)' \/ (pc[t] = "enlist")'
  <2>1. /\ n \notin loggedIn /\ pc'[n] = "enlist" /\ online' = online
        /\ loggedIn' = loggedIn \cup {n} /\ overlapped \subseteq overlapped'
        /\ \A r \in Sessions \ {n} : pc'[r] = pc[r]
    BY <1>2 DEF Login, Goto, FriendsType
  <2>2. n # s
    BY <2>1, FriendsAssumption
    DEF Listed, Enlisted, FriendsAssumption
  <2>3. CASE n = t
    BY <2>1, <2>3
  <2>4. CASE n # t
    BY <2>1, <2>2, <2>4, <1>1 DEF Shown, Rivals, Listed
  <2>5. QED
    BY <2>3, <2>4
<1>3. ASSUME NEW n \in Sessions, Enlist(n)
      PROVE  Over(t)' \/ (pc[t] = "enlist")'
  <2>1. /\ online' = [online EXCEPT ![Acct[n]] = n] /\ pc[n] = "enlist"
        /\ UNCHANGED <<loggedIn, overlapped>>
        /\ \A r \in Sessions \ {n} : pc'[r] = pc[r]
    BY <1>3 DEF Enlist, Goto, FriendsType
  <2>2. CASE Acct[n] # Acct[s]
    BY <1>1, <2>1, <2>2, FriendsAssumption
    DEF Rivals, Listed, Shown, FriendsType, FriendsAssumption
  <2>3. CASE Acct[n] = Acct[s]
    <3>1. n = s
      BY <2>1, <2>3, FriendsAssumption
      DEF Listed, FriendsType, FriendsAssumption
    <3>2. ~Over(s)
      BY <2>1, <3>1 DEF Over
    <3>3. QED
      BY <1>1, <2>1, <3>2 DEF Apart, Rivals
  <2>4. QED
    BY <2>2, <2>3
<1>4. ASSUME NEW n \in Sessions, Close(n)
      PROVE  Over(t)' \/ (pc[t] = "enlist")'
  BY <1>1, <1>4, FriendsAssumption
  DEF Close, Rivals, Listed, Shown, FriendsType, FriendsAssumption, handler
<1>5. CASE /\ UNCHANGED <<online, loggedIn, overlapped>>
           /\ pc[t] = "enlist" => pc'[t] = "enlist"
  BY <1>1, <1>5 DEF Rivals, Listed, Shown
<1>6. ASSUME NEW n \in Sessions, Handler(n), ~Login(n), ~Enlist(n)
      PROVE  /\ UNCHANGED <<online, loggedIn, overlapped>>
             /\ pc[t] = "enlist" => pc'[t] = "enlist"
  <2>1. UNCHANGED <<online, loggedIn, overlapped>> /\ pc[n] # "enlist"
    BY <1>6 DEF Handler, ReadPending, SendPending, ReadFriends, SendFriends,
                Lookup, FriendList, Insert, Push, Invite, Accept, Reject,
                Request
  <2>2. QED
    BY <1>6, <2>1, OthersStay
<1>7. CASE UNCHANGED vars \/ \E n \in Sessions : Shut(n)
  BY <1>5, <1>7 DEF vars, Shut, handler
<1>8. QED
  BY <1>2, <1>3, <1>4, <1>5, <1>6, <1>7 DEF Next
-----------------------------------------------------------------------------
(* Who touches the friends table.                                          *)
LEMMA RowFrame ==
  ASSUME [Next]_vars
  PROVE  \/ \E s \in Sessions : Insert(s)
         \/ \E s \in Sessions, u \in Users : Accept(s, u) \/ Reject(s, u)
         \/ UNCHANGED <<row, answers>>
  BY DEF Next, Handler, Login, Enlist, ReadPending, SendPending, ReadFriends,
         SendFriends, Lookup, FriendList, Push, Invite, Close, Shut, vars,
         answers

(* A row is written by the handler that records the request or the         *)
(* agreement.                                                              *)
LEMMA ConsentStep ==
  FriendsType /\ Handling /\ Consent /\ [Next]_vars => Consent'
<1> SUFFICES ASSUME FriendsType, Handling, Consent, [Next]_vars
             PROVE  Consent'
  OBVIOUS
<1> USE FriendsAssumption DEF FriendsAssumption, FriendsType, Consent, answers
<1>1. ASSUME NEW s \in Sessions, Insert(s) PROVE Consent'
  <2>1. Acct[s] \in Users /\ peer[s] \in Users
    BY <1>1 DEF Insert, Handling
  <2>2. QED
    BY <1>1, <2>1 DEF Insert, InviteFriend
<1>2. ASSUME NEW s \in Sessions, NEW u \in Users, Accept(s, u)
      PROVE  Consent'
  BY <1>2 DEF Accept, AcceptFriend, Answered
<1>3. ASSUME NEW s \in Sessions, NEW u \in Users, Reject(s, u)
      PROVE  Consent'
  BY <1>3 DEF Reject, RejectFriend, Answered
<1>4. CASE UNCHANGED <<row, answers>>
  BY <1>4
<1>5. QED
  BY <1>1, <1>2, <1>3, <1>4, RowFrame
-----------------------------------------------------------------------------
(* Applications: one step for each action that moves one along.            *)
LEMMA ApplicationsStep ==
  SessionsInv /\ Applications /\ [Next]_vars => Applications'
<1> DEFINE Pushing(t, s, a) ==
             Acct[t] = a /\ peer[t] = Acct[s] /\ pc[t] = "push"
           OnItsWay(s, a) ==
             \/ a \in seen[s]
             \/ pc[s] = "sendPending" /\ a \in batch[s]
             \/ \E t \in Sessions : Pushing(t, s, a)
<1> SUFFICES ASSUME SessionsInv, Applications, [Next]_vars,
                    NEW s \in Sessions, NEW a \in Users,
                    Listed(s)', (pc[s] # "readPending")',
                    (row[<<a, Acct[s]>>] = "pending")'
             PROVE  OnItsWay(s, a)'
  BY DEF Applications, PendingFriendIDs
<1> USE FriendsAssumption
    DEF SessionsInv, FriendsAssumption, FriendsType, Listed, client, handler,
        answers, lists, Goto
<1>0. /\ Listed(s) /\ pc[s] # "readPending"
      /\ row[<<a, Acct[s]>>] = "pending"
      => OnItsWay(s, a)
  BY DEF Applications, PendingFriendIDs
<1>1. ASSUME NEW n \in Sessions, Login(n) PROVE OnItsWay(s, a)'
  <2>1. n # s
    BY <1>1 DEF Login, Enlisted
  <2>2. /\ UNCHANGED <<row, online, peer, batch, seen>>
        /\ pc[n] = "idle" /\ \A t \in Sessions \ {n} : pc'[t] = pc[t]
    BY <1>1 DEF Login
  <2>3. QED
    BY <1>0, <2>1, <2>2
<1>2. ASSUME NEW n \in Sessions, Enlist(n) PROVE OnItsWay(s, a)'
  <2>1. /\ UNCHANGED <<row, peer, batch, seen>>
        /\ online' = [online EXCEPT ![Acct[n]] = n]
        /\ pc'[n] = "readPending" /\ pc[n] = "enlist"
        /\ \A t \in Sessions \ {n} : pc'[t] = pc[t]
    BY <1>2 DEF Enlist
  <2>2. n # s /\ Listed(s)
    BY <2>1
  <2>3. QED
    BY <1>0, <2>1, <2>2
<1>3. ASSUME NEW n \in Sessions, ReadPending(n) PROVE OnItsWay(s, a)'
  <2>1. CASE n = s
    BY <1>3, <2>1 DEF ReadPending, PendingFriendIDs
  <2>2. CASE n # s
    BY <1>0, <1>3, <2>2 DEF ReadPending
  <2>3. QED
    BY <2>1, <2>2
<1>4. ASSUME NEW n \in Sessions, SendPending(n) PROVE OnItsWay(s, a)'
  BY <1>0, <1>4 DEF SendPending
<1>5. ASSUME NEW n \in Sessions, Insert(n) PROVE OnItsWay(s, a)'
  <2>1. /\ pc[n] = "insert" /\ pc'[n] = "push"
        /\ \A t \in Sessions \ {n} : pc'[t] = pc[t]
        /\ UNCHANGED <<online, peer, batch, seen>>
    BY <1>5 DEF Insert
  <2>2. CASE Acct[n] = a /\ peer[n] = Acct[s]
    BY <2>1, <2>2
  <2>3. CASE ~(Acct[n] = a /\ peer[n] = Acct[s])
    <3>1. row[<<a, Acct[s]>>] = "pending"
      BY <1>5, <2>3 DEF Insert, InviteFriend, Handling
    <3>2. QED
      BY <1>0, <2>1, <3>1
  <2>4. QED
    BY <2>2, <2>3
<1>6. ASSUME NEW n \in Sessions, Push(n) PROVE OnItsWay(s, a)'
  <2>1. /\ pc[n] = "push" /\ pc'[n] = "idle"
        /\ UNCHANGED <<row, online, batch>>
        /\ \A t \in Sessions \ {n} : pc'[t] = pc[t] /\ peer'[t] = peer[t]
        /\ seen[s] \subseteq seen'[s]
    BY <1>6 DEF Push
  <2>2. CASE Pushing(n, s, a)
    BY <1>6, <2>1, <2>2 DEF Push
  <2>3. CASE ~Pushing(n, s, a)
    BY <1>0, <2>1, <2>3
  <2>4. QED
    BY <2>2, <2>3
<1>7. ASSUME NEW n \in Sessions, NEW u \in Users, Accept(n, u)
      PROVE  OnItsWay(s, a)'
  <2>1. /\ row[<<a, Acct[s]>>] = "pending" /\ ~(n = s /\ u = a)
        /\ online' = online /\ batch' = batch /\ pc[n] = "idle"
    BY <1>7 DEF Accept, AcceptFriend, Request
  <2>2. /\ a \in seen[s] => a \in seen'[s]
        /\ \A t \in Sessions \ {n} : pc'[t] = pc[t] /\ peer'[t] = peer[t]
    BY <1>7, <2>1 DEF Accept, Answered
  <2>3. pc'[n] = "readFriends"
    BY <1>7 DEF Accept
  <2>4. QED
    BY <1>0, <2>1, <2>2, <2>3
<1>8. ASSUME NEW n \in Sessions, NEW u \in Users, Reject(n, u)
      PROVE  OnItsWay(s, a)'
  <2>1. /\ row[<<a, Acct[s]>>] = "pending" /\ ~(n = s /\ u = a)
        /\ UNCHANGED <<online, batch, pc, peer>>
    BY <1>8 DEF Reject, RejectFriend
  <2>2. a \in seen[s] => a \in seen'[s]
    BY <1>8, <2>1 DEF Reject, Answered
  <2>3. QED
    BY <1>0, <2>1, <2>2
<1>9. ASSUME NEW n \in Sessions,
             \/ ReadFriends(n) \/ SendFriends(n) \/ Lookup(n)
             \/ FriendList(n) \/ \E u \in Users : Invite(n, u)
      PROVE  OnItsWay(s, a)'
  <2>1. /\ UNCHANGED <<row, online, seen>>
        /\ pc[n] \notin {"push", "sendPending", "readPending"}
        /\ pc'[n] \notin {"push", "sendPending", "readPending"}
    BY <1>9 DEF ReadFriends, SendFriends, Lookup, FriendList, Invite, Request
  <2>2. \A t \in Sessions \ {n} :
          pc'[t] = pc[t] /\ peer'[t] = peer[t] /\ batch'[t] = batch[t]
    BY <1>9, OthersStay DEF Handler
  <2>3. QED
    BY <1>0, <2>1, <2>2
<1>10. ASSUME NEW n \in Sessions, Close(n) \/ Shut(n)
       PROVE  OnItsWay(s, a)'
  BY <1>0, <1>10 DEF Close, Shut
<1>11. CASE UNCHANGED vars
  BY <1>0, <1>11 DEF vars
<1>12. QED
  BY <1>1, <1>2, <1>3, <1>4, <1>5, <1>6, <1>7, <1>8, <1>9, <1>10, <1>11
  DEF Next, Handler
-----------------------------------------------------------------------------
(* Only a list that is read overtakes others, and the one that is sent is  *)
(* no longer in hand.                                                      *)
LEMMA OvertakenStep == FriendsType /\ Overtaken /\ [Next]_vars => Overtaken'
<1> SUFFICES ASSUME FriendsType, Overtaken, [Next]_vars,
                    NEW t \in older'
             PROVE  pc'[t] = "sendFriends"
  BY DEF Overtaken
<1> USE DEF FriendsType, Overtaken, Goto, lists, handler
<1>1. ASSUME NEW n \in Sessions, ReadFriends(n) \/ SendFriends(n)
      PROVE  pc'[t] = "sendFriends"
  BY <1>1 DEF ReadFriends, SendFriends
<1>2. ASSUME NEW n \in Sessions, Handler(n),
             ~ReadFriends(n), ~SendFriends(n)
      PROVE  pc'[t] = "sendFriends"
  <2>1. older' = older /\ pc[n] # "sendFriends"
    BY <1>2 DEF Handler, Login, Enlist, ReadPending, SendPending, Lookup,
                FriendList, Insert, Push, Invite, Accept, Reject, Request
  <2>2. t \in Sessions \ {n} /\ pc[t] = "sendFriends"
    BY <2>1
  <2>3. QED
    BY <1>2, <2>2, OthersStay
<1>3. CASE \/ \E n \in Sessions : Close(n) \/ Shut(n)
           \/ UNCHANGED vars
  BY <1>3 DEF Close, Shut, vars
<1>4. QED
  BY <1>1, <1>2, <1>3 DEF Next

(* Friendships: whoever accepts tells its own side first, then looks for   *)
(* the other one; and whoever reads a list reads all friends there are.    *)
LEMMA FriendshipsStep ==
  SessionsInv /\ Overtaken /\ Friendships /\ [Next]_vars => Friendships'
<1> DEFINE Kept(s, a) == Due(s, a) /\ \A t \in Sessions : Newest(t, s, a)
<1> SUFFICES ASSUME SessionsInv, Overtaken, Friendships, [Next]_vars,
                    NEW s \in Sessions, NEW a \in Users,
                    s \notin overlapped', Listed(s)',
                    (a \in FriendIDs(Acct[s]))'
             PROVE  Kept(s, a)'
  BY DEF Friendships, FriendIDs
<1> USE FriendsAssumption
    DEF SessionsInv, FriendsAssumption, FriendsType, Listed, client, handler,
        answers, lists, Goto, Reading, InHand, Accepting
<1> HIDE DEF Kept
<1>0. s \notin overlapped /\ Listed(s) /\ a \in FriendIDs(Acct[s])
      => Kept(s, a)
  BY DEF Friendships, Kept
(* No list for s is read or sent.                                          *)
<1>1. ASSUME s \notin overlapped, Listed(s), a \in FriendIDs(Acct[s]),
             Coming(s, a) => Coming(s, a)',
             UNCHANGED <<told, lists>>,
             \A t \in Sessions :
               /\ InHand(t, s)' <=> InHand(t, s)
               /\ InHand(t, s) => batch'[t] = batch[t]
      PROVE  Kept(s, a)'
  BY <1>0, <1>1 DEF Kept, Due, Newest
<1>2. ASSUME NEW n \in Sessions, Login(n) PROVE Kept(s, a)'
  <2>1. n # s
    BY <1>2 DEF Login, Enlisted
  <2>2. /\ UNCHANGED <<row, online, peer, target, batch, told, lists>>
        /\ pc[n] = "idle" /\ pc'[n] = "enlist"
        /\ \A t \in Sessions \ {n} : pc'[t] = pc[t]
        /\ s \notin overlapped
    BY <1>2 DEF Login
  <2>3. a \in FriendIDs(Acct[s])
    BY <2>2 DEF FriendIDs
  <2>4. Coming(s, a) => Coming(s, a)'
    BY <2>1, <2>2 DEF Coming
  <2>5. QED
    BY <1>1, <2>2, <2>3, <2>4
<1>3. ASSUME NEW n \in Sessions, Enlist(n) PROVE Kept(s, a)'
  <2>1. /\ UNCHANGED <<row, peer, target, batch, told, lists, overlapped>>
        /\ online' = [online EXCEPT ![Acct[n]] = n]
        /\ pc'[n] = "readPending" /\ pc[n] = "enlist"
        /\ \A t \in Sessions \ {n} : pc'[t] = pc[t]
    BY <1>3 DEF Enlist
  <2>2. CASE n = s
    BY <2>1, <2>2 DEF Kept, Due, Newest, Coming
  <2>3. CASE n # s
    <3>1. Listed(s) /\ a \in FriendIDs(Acct[s])
      BY <2>1, <2>3 DEF FriendIDs
    <3>2. Coming(s, a) => Coming(s, a)'
      BY <2>1, <2>3 DEF Coming
    <3>3. QED
      BY <1>1, <2>1, <3>1, <3>2
  <2>4. QED
    BY <2>2, <2>3
<1>4. ASSUME NEW n \in Sessions, ReadPending(n) \/ SendPending(n)
      PROVE  Kept(s, a)'
  <2>1. /\ UNCHANGED <<row, online, peer, target, told, lists, overlapped>>
        /\ pc[n] \in {"readPending", "sendPending"}
        /\ pc'[n] \in {"sendPending", "readFriends"}
        /\ \A t \in Sessions \ {n} : pc'[t] = pc[t] /\ batch'[t] = batch[t]
    BY <1>4 DEF ReadPending, SendPending
  <2>2. target[n] = n
    BY <2>1 DEF Handling
  <2>3. a \in FriendIDs(Acct[s])
    BY <2>1 DEF FriendIDs
  <2>4. Coming(s, a) => Coming(s, a)'
    <3>1. CASE n = s
      BY <2>1, <2>2, <3>1 DEF Coming
    <3>2. CASE n # s
      BY <2>1, <3>2 DEF Coming
    <3>3. QED
      BY <3>1, <3>2
  <2>5. QED
    BY <1>1, <2>1, <2>3, <2>4
<1>5. ASSUME NEW n \in Sessions, ReadFriends(n) PROVE Kept(s, a)'
  <2>1. /\ UNCHANGED <<row, online, peer, target, told, outrun, overlapped>>
        /\ pc[n] = "readFriends" /\ pc'[n] = "sendFriends"
        /\ batch'[n] = FriendIDs(Acct[target[n]])
        /\ \A t \in Sessions \ {n} : pc'[t] = pc[t] /\ batch'[t] = batch[t]
        /\ older' = older \cup {t \in Sessions \ {n} :
                                 InHand(t, target[n])}
    BY <1>5 DEF ReadFriends, FriendIDs
  <2>2. a \in FriendIDs(Acct[s])
    BY <2>1 DEF FriendIDs
  <2>3. n \notin older'
    BY <2>1 DEF Overtaken
  <2>4. CASE target[n] = s
    <3>1. InHand(n, s)' /\ a \in batch'[n]
      BY <2>1, <2>2, <2>4
    <3>2. \A t \in Sessions \ {n} : InHand(t, s)' => t \in older'
      BY <2>1, <2>4
    <3>3. QED
      BY <2>3, <3>1, <3>2 DEF Kept, Due, Newest
  <2>5. CASE target[n] # s
    <3>1. Kept(s, a)
      BY <1>0, <2>1, <2>2
    <3>2. Coming(s, a) => Coming(s, a)'
      BY <2>1, <2>5 DEF Coming
    <3>3. \A t \in Sessions :
            /\ InHand(t, s)' <=> InHand(t, s)
            /\ InHand(t, s) => batch'[t] = batch[t]
                               /\ (t \in older' <=> t \in older)
      BY <2>1, <2>5
    <3>4. QED
      BY <2>1, <3>1, <3>2, <3>3 DEF Kept, Due, Newest
  <2>6. QED
    BY <2>4, <2>5
<1>6. ASSUME NEW n \in Sessions, SendFriends(n) PROVE Kept(s, a)'
  <2>1. /\ UNCHANGED <<row, online, peer, overlapped>>
        /\ pc[n] = "sendFriends"
        /\ pc'[n] = IF peer[n] = Nobody THEN "idle" ELSE "lookup"
        /\ \A t \in Sessions \ {n} :
             pc'[t] = pc[t] /\ batch'[t] = batch[t] /\ target'[t] = target[t]
        /\ told' = [told EXCEPT ![target[n]] = batch[n]]
        /\ older' = older \ {n}
        /\ outrun' = IF n \in older THEN outrun \cup {target[n]}
                                    ELSE outrun \ {target[n]}
    BY <1>6 DEF SendFriends
  <2>2. a \in FriendIDs(Acct[s])
    BY <2>1 DEF FriendIDs
  <2>3. Kept(s, a)
    BY <1>0, <2>1, <2>2
  <2>4. Coming(s, a) => Coming(s, a)'
    BY <2>1 DEF Coming
  <2>5. ASSUME NEW t \in Sessions PROVE Newest(t, s, a)'
    BY <2>1, <2>3, <2>4 DEF Kept, Newest
  <2>6. Due(s, a)'
    <3>1. CASE target[n] = s /\ n \in older
      BY <2>1, <3>1 DEF Due
    <3>2. CASE target[n] = s /\ n \notin older
      <4>1. a \in batch[n] \/ Coming(s, a)
        BY <2>1, <2>3, <3>2 DEF Kept, Newest
      <4>2. told'[s] = batch[n]
        BY <2>1, <3>2
      <4>3. QED
        BY <2>4, <4>1, <4>2 DEF Due
    <3>3. CASE target[n] # s
      <4>1. told'[s] = told[s] /\ (s \in outrun => s \in outrun')
        BY <2>1, <3>3
      <4>2. \A t \in Sessions : InHand(t, s) /\ t \notin older
                               => InHand(t, s)' /\ t \notin older'
        BY <2>1, <3>3
      <4>3. QED
        BY <2>3, <2>4, <4>1, <4>2 DEF Kept, Due
    <3>4. QED
      BY <3>1, <3>2, <3>3
  <2>7. QED
    BY <2>5, <2>6 DEF Kept
<1>7. ASSUME NEW n \in Sessions, Lookup(n) PROVE Kept(s, a)'
  <2>1. /\ UNCHANGED <<row, online, batch, told, lists, overlapped>>
        /\ pc[n] = "lookup" /\ pc'[n] \in {"idle", "readFriends"}
        /\ online[peer[n]] = s
           => pc'[n] = "readFriends" /\ target'[n] = s
        /\ \A t \in Sessions \ {n} :
             pc'[t] = pc[t] /\ peer'[t] = peer[t] /\ target'[t] = target[t]
    BY <1>7 DEF Lookup
  <2>2. a \in FriendIDs(Acct[s]) /\ Listed(s)
    BY <2>1 DEF FriendIDs
  <2>3. Coming(s, a) => Coming(s, a)'
    <3>1. CASE Accepting(n, s)
      BY <2>1, <2>2, <3>1 DEF Coming
    <3>2. CASE ~Accepting(n, s)
      BY <2>1, <3>2 DEF Coming
    <3>3. QED
      BY <3>1, <3>2
  <2>4. \A t \in Sessions : InHand(t, s)' <=> InHand(t, s)
    BY <2>1
  <2>5. QED
    BY <1>1, <2>1, <2>2, <2>3, <2>4
<1>8. ASSUME NEW n \in Sessions,
             \/ FriendList(n) \/ Insert(n) \/ Push(n)
             \/ \E u \in Users : Invite(n, u) \/ Reject(n, u)
      PROVE  Kept(s, a)'
  <2>1. /\ UNCHANGED <<online, told, lists, overlapped>>
        /\ pc[n] \in {"idle", "insert", "push"}
        /\ pc'[n] \in {"idle", "insert", "push", "readFriends"}
    BY <1>8 DEF FriendList, Insert, Push, Invite, Reject, Request
  <2>2. \A t \in Sessions \ {n} :
          /\ pc'[t] = pc[t] /\ peer'[t] = peer[t]
          /\ target'[t] = target[t] /\ batch'[t] = batch[t]
    BY <1>8, OthersStay DEF Handler
  <2>3. a \in FriendIDs(Acct[s])
    <3>1. CASE FriendList(n) \/ Push(n) \/ \E u \in Users : Invite(n, u)
      BY <3>1 DEF FriendIDs, FriendList, Push, Invite
    <3>2. CASE Insert(n)
      <4>1. peer[n] \in Users /\ Acct[n] \in Users
        BY <3>2, FriendsAssumption
        DEF Insert, Handling, FriendsAssumption
      <4>2. QED
        BY <3>2, <4>1 DEF FriendIDs, Insert, InviteFriend
    <3>3. ASSUME NEW u \in Users, Reject(n, u)
          PROVE  a \in FriendIDs(Acct[s])
      BY <3>3 DEF FriendIDs, Reject, RejectFriend
    <3>4. QED
      BY <1>8, <3>1, <3>2, <3>3
  <2>4. Coming(s, a) => Coming(s, a)'
    BY <2>1, <2>2 DEF Coming
  <2>5. QED
    BY <1>1, <2>1, <2>2, <2>3, <2>4
<1>9. ASSUME NEW n \in Sessions, NEW u \in Users, Accept(n, u)
      PROVE  Kept(s, a)'
  <2>1. /\ UNCHANGED <<online, target, batch, told, lists, overlapped>>
        /\ pc[n] = "idle" /\ pc'[n] = "readFriends" /\ peer'[n] = u
        /\ n \in loggedIn \ gone
        /\ \A t \in Sessions \ {n} : pc'[t] = pc[t] /\ peer'[t] = peer[t]
    BY <1>9 DEF Accept, Request
  <2>2. CASE a \in FriendIDs(Acct[s])
    <3>1. Coming(s, a) => Coming(s, a)'
      BY <2>1 DEF Coming
    <3>2. QED
      BY <1>1, <2>1, <2>2, <3>1
  <2>3. CASE a \notin FriendIDs(Acct[s])
    <3>1. \/ u = a /\ Acct[n] = Acct[s]
          \/ u = Acct[s] /\ Acct[n] = a
      BY <1>9, <2>3 DEF Accept, AcceptFriend, FriendIDs
    <3>2. CASE u = Acct[s] /\ Acct[n] = a
      BY <2>1, <3>2 DEF Kept, Due, Newest, Coming
    <3>3. CASE Acct[n] = Acct[s] /\ n = s
      <4>1. target[n] = n
        BY <2>1 DEF Handling
      <4>2. QED
        BY <2>1, <3>3, <4>1 DEF Kept, Due, Newest, Coming
    <3>4. CASE Acct[n] = Acct[s] /\ n # s
      <4>1. Rivals(s, n) /\ s \notin overlapped /\ Listed(s)
        BY <2>1, <3>4 DEF Rivals, Enlisted
      <4>2. QED
        BY <2>1, <4>1 DEF Shown, Over
    <3>5. QED
      BY <3>1, <3>2, <3>3, <3>4
  <2>4. QED
    BY <2>2, <2>3
<1>10. ASSUME NEW n \in Sessions, Close(n) \/ Shut(n) PROVE Kept(s, a)'
  <2>1. Listed(s) /\ a \in FriendIDs(Acct[s])
    BY <1>10 DEF Close, Shut, FriendIDs
  <2>2. UNCHANGED <<pc, peer, target, batch, told, lists, overlapped>>
    BY <1>10 DEF Close, Shut
  <2>3. Coming(s, a) => Coming(s, a)'
    BY <2>2 DEF Coming
  <2>4. QED
    BY <1>1, <2>1, <2>2, <2>3
<1>11. CASE UNCHANGED vars
  <2>1. Coming(s, a) => Coming(s, a)'
    BY <1>11 DEF vars, Coming
  <2>2. QED
    BY <1>1, <1>11, <2>1 DEF vars, FriendIDs
<1>12. QED
  BY <1>2, <1>3, <1>4, <1>5, <1>6, <1>7, <1>8, <1>9, <1>10, <1>11
  DEF Next, Handler

-----------------------------------------------------------------------------
(* What an invitation has tested still holds when it is stored.            *)
Strangers ==
  \A s \in Sessions \ overlapped :
    pc[s] = "insert" => row[<<peer[s], Acct[s]>>] # "friend"

(* Only the account's own handlers accept for it, and while this one is at *)
(* work there is no other, unless two overlap.                             *)
LEMMA StrangersStep == SessionsInv /\ Strangers /\ [Next]_vars => Strangers'
<1> SUFFICES ASSUME SessionsInv, Strangers, [Next]_vars,
                    NEW s \in Sessions, s \notin overlapped',
                    pc'[s] = "insert",
                    row'[<<peer'[s], Acct[s]>>] = "friend"
             PROVE  FALSE
  BY DEF Strangers
<1> USE DEF SessionsInv
<1>1. s \notin overlapped
  BY OnlyLoginPairs DEF Login
<1>2. FriendsType' /\ Handling'
  BY TypeStep, HandlingStep
<1>3. peer'[s] \in Users /\ Acct[s] \in Users
  BY <1>2, FriendsAssumption DEF FriendsAssumption, FriendsType, Handling
<1>4. CASE pc[s] = "insert" /\ peer'[s] = peer[s]
  <2>1. row[<<peer[s], Acct[s]>>] # "friend"
    BY <1>1, <1>4 DEF Strangers
  <2>2. PICK t \in Sessions, u \in Users :
          Accept(t, u) /\ <<peer[s], Acct[s]>> = <<u, Acct[t]>>
    <3>1. CASE \E t \in Sessions : Insert(t)
      BY <1>3, <1>4, <2>1, <3>1 DEF Insert, InviteFriend, FriendsType
    <3>2. ASSUME NEW t \in Sessions, NEW u \in Users, Reject(t, u)
          PROVE  FALSE
      BY <1>3, <1>4, <2>1, <3>2 DEF Reject, RejectFriend, FriendsType
    <3>3. ASSUME NEW t \in Sessions, NEW u \in Users, Accept(t, u),
                 <<peer[s], Acct[s]>> # <<u, Acct[t]>>
          PROVE  FALSE
      BY <1>3, <1>4, <2>1, <3>3 DEF Accept, AcceptFriend, FriendsType
    <3> QED BY <1>4, <2>1, <3>1, <3>2, <3>3, RowFrame
  <2>3. /\ pc[t] = "idle" /\ t \in loggedIn \ gone /\ Acct[t] = Acct[s]
    BY <2>2 DEF Accept, Request
  <2>4. Rivals(s, t)
    BY <1>4, <2>3 DEF Handling, Rivals
  <2>5. Over(s) \/ Over(t)
    BY <1>1, <2>4 DEF Apart
  <2> QED BY <1>4, <2>3, <2>5 DEF Over
<1>5. CASE ~(pc[s] = "insert" /\ peer'[s] = peer[s])
  <2>1. PICK b \in Users : Invite(s, b)
    <3>1. ASSUME NEW t \in Sessions, Handler(t)
          PROVE  \E b \in Users : Invite(s, b)
      <4>1. CASE t # s
        BY <1>5, <3>1, <4>1, OthersStay
      <4>2. CASE t = s
        BY <3>1, <4>2 DEF Handler, Login, Enlist, ReadPending, SendPending,
           ReadFriends, SendFriends, Lookup, FriendList, Insert, Push,
           Accept, Reject, Request, Goto, handler, FriendsType
      <4> QED BY <4>1, <4>2
    <3>2. (\E t \in Sessions : Close(t) \/ Shut(t)) \/ UNCHANGED vars
            => pc' = pc /\ peer' = peer
      BY DEF Close, Shut, vars, handler
    <3> QED BY <1>5, <3>1, <3>2 DEF Next
  <2>2. b \notin FriendIDs(Acct[s]) /\ row' = row /\ peer'[s] = b
    BY <2>1 DEF Invite, FriendsType
  <2> QED BY <2>2 DEF FriendIDs
<1> QED BY <1>4, <1>5

-----------------------------------------------------------------------------
FriendsInv == SessionsInv /\ Consent /\ Applications /\ Overtaken
              /\ Friendships /\ Strangers

(* The strengthened invariant is inductive; the theorems below follow.     *)
THEOREM FriendsInvariant == Spec => []FriendsInv
<1>1. Init => FriendsInv
  <2> SUFFICES ASSUME Init PROVE FriendsInv
    OBVIOUS
  <2>1. FriendsType
    BY TypeInit
  <2>2. Handling /\ Enlisted /\ Apart /\ Shown
    BY FriendsAssumption
    DEF FriendsAssumption, Init, Handling, Enlisted, Apart, Shown, Rivals
  <2>3. Consent
    BY DEF Init, Consent
  <2>4. \A s \in Sessions : ~Listed(s)
    BY FriendsAssumption DEF FriendsAssumption, Init, Listed
  <2>5. QED
    BY <2>1, <2>2, <2>3, <2>4
    DEF FriendsInv, SessionsInv, Applications, Overtaken, Friendships,
        Strangers, Init
<1>2. FriendsInv /\ [Next]_vars => FriendsInv'
  BY TypeStep, HandlingStep, EnlistedStep, ApartStep, ShownStep, ConsentStep,
     ApplicationsStep, OvertakenStep, FriendshipsStep, StrangersStep
  DEF FriendsInv, SessionsInv
<1>3. QED
  BY <1>1, <1>2, PTL DEF Spec

(* An application that waits for an answer is in the bar of the session    *)
(* that its addressee has in the online table, or its push is still to     *)
(* come: the login enlists before it reads, the invitation inserts before  *)
(* it looks, and that is enough whatever comes between.                    *)
THEOREM ApplicationsReach == Spec => []ApplicationDelivered
<1>1. FriendsInv => ApplicationDelivered
  BY DEF FriendsInv, Applications, ApplicationDelivered, Current, Listed
<1>2. QED
  BY FriendsInvariant, <1>1, PTL

(* Friendship, for an account with one session at a time: the list that    *)
(* its session was sent last, and shows, has every friend in it, or a      *)
(* newer one is on its way; lists of two handlers may arrive in the wrong  *)
(* order, and then it takes another one.                                   *)
THEOREM FriendshipsReach == Spec => []FriendshipDelivered
<1>1. FriendsInv => FriendshipDelivered
  <2> SUFFICES ASSUME FriendsInv,
                      NEW s \in Sessions \ (overlapped \cup outrun),
                      Current(s), NEW a \in FriendIDs(Acct[s]),
                      a \notin told[s]
               PROVE  \E t \in Sessions :
                        \/ t # s /\ target[t] = s
                        \/ Acct[t] = a /\ peer[t] = Acct[s]
    BY DEF FriendshipDelivered
  <2>1. Listed(s) /\ pc[s] = "idle"
    BY DEF Current, Listed
  <2>2. \E t \in Sessions :
          Reading(t, s) \/ InHand(t, s) \/ (Acct[t] = a /\ Accepting(t, s))
    BY <2>1 DEF FriendsInv, Friendships, Due, Coming
  <2>3. QED
    BY <2>1, <2>2 DEF Reading, InHand, Accepting
<1>2. QED
  BY FriendsInvariant, <1>1, PTL

(* Nobody is made a friend without having accepted an application that the *)
(* other has made.                                                         *)
THEOREM FriendshipNeedsConsent == Spec => []Consented
<1>1. FriendsInv => Consented
  BY DEF FriendsInv, Consent, Consented
<1>2. QED
  BY FriendsInvariant, <1>1, PTL

(* A friend is not applied to, but by an account with two sessions: what   *)
(* handleFriendInvite has tested holds until it has stored.                *)
THEOREM FriendsAreNotAsked == Spec => NoneAppliesToFriend
<1>1. FriendsInv /\ [Next]_vars
      => [\A a, b \in Users :
            /\ b \in FriendIDs(a)
            /\ row[<<a, b>>] = "none" /\ row'[<<a, b>>] = "pending"
            => \E s \in overlapped : Acct[s] = a]_vars
  <2> SUFFICES ASSUME FriendsInv, [Next]_vars,
                      NEW a \in Users, NEW b \in Users, b \in FriendIDs(a),
                      row[<<a, b>>] = "none", row'[<<a, b>>] = "pending"
               PROVE  \E s \in overlapped : Acct[s] = a
    OBVIOUS
  <2> USE DEF FriendsInv, SessionsInv, FriendsType
  <2>1. PICK s \in Sessions : Insert(s)
    <3>1. \A s \in Sessions, u \in Users : ~Accept(s, u) /\ ~Reject(s, u)
      BY DEF Accept, AcceptFriend, Reject, RejectFriend
    <3> QED BY <3>1, RowFrame
  <2>2. pc[s] = "insert" /\ <<a, b>> = <<Acct[s], peer[s]>>
    BY <2>1 DEF Insert, InviteFriend
  <2>3. row[<<peer[s], Acct[s]>>] = "friend"
    BY <2>2 DEF FriendIDs
  <2> QED BY <2>2, <2>3 DEF Strangers
<1>2. QED
  BY FriendsInvariant, <1>1, PTL DEF Spec, NoneAppliesToFriend

(* With MySQL's RejectFriend, which looks at the status, no request ends a *)
(* friendship.                                                             *)
THEOREM FriendshipsLast ==
  ASSUME Backend = "mysql"
  PROVE  Spec => FriendsStay
<1>1. FriendsType /\ Handling /\ [Next]_vars
      => [\A q \in Users \X Users :
            row[q] = "friend" => row'[q] = "friend"]_vars
  <2> SUFFICES ASSUME FriendsType, [Next]_vars,
                      NEW q \in Users \X Users, row[q] = "friend"
               PROVE  row'[q] = "friend"
    OBVIOUS
  <2> USE DEF FriendsType
  <2>1. ASSUME NEW s \in Sessions, Insert(s) PROVE row'[q] = "friend"
    BY <2>1 DEF Insert, InviteFriend
  <2>2. ASSUME NEW s \in Sessions, NEW u \in Users, Accept(s, u)
        PROVE  row'[q] = "friend"
    BY <2>2 DEF Accept, AcceptFriend
  <2>3. ASSUME NEW s \in Sessions, NEW u \in Users, Reject(s, u)
        PROVE  row'[q] = "friend"
    BY <2>3 DEF Reject, RejectFriend
  <2>4. QED
    BY <2>1, <2>2, <2>3, RowFrame
<1>2. FriendsInv => FriendsType /\ Handling
  BY DEF FriendsInv, SessionsInv
<1>3. QED
  BY FriendsInvariant, <1>1, <1>2, PTL DEF Spec, FriendsStay
=============================================================================
