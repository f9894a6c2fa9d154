------------------------------- MODULE Friends -------------------------------
(***************************************************************************)
(* Friendship: the friends table of store/store.go behind its two          *)
(* implementations, the handlers of gateway/hub.go that use it, and what   *)
(* they tell the two sides.  lobby/service.go only passes the calls on.    *)
(*                                                                         *)
(* There is one handler goroutine per session; Close runs in any           *)
(* goroutine.  A query of the store, a look at the online table and a Send *)
(* are steps of their own; a look and the Send that follows it at once are *)
(* one step, for a frame to a session that is closed in between is lost    *)
(* either way.  The store does not fail here, the send queues do not       *)
(* overflow, and who is shown as online is left out.                       *)
(*                                                                         *)
(* The client is not in this repository.  A friend list is a refresh, it   *)
(* replaces the one before.  The application bar is sent whole at the      *)
(* login and entry by entry afterwards, and the client takes an entry out  *)
(* when it answers it; that it keeps an entry that was pushed before the   *)
(* whole bar arrived is assumed.                                           *)
(***************************************************************************)
EXTENDS Naturals, FiniteSets

CONSTANTS Users,        (* account ids                                      *)
          Sessions,     (* connections                                      *)
          Acct,         (* [Sessions -> Users]: the account each logs in to *)
          Nobody,       (* no session in the online table                   *)
          Backend,      (* "mem" or "mysql": the implementation of Store    *)
          MaxRequests,  (* bound: invitations, answers and list requests    *)
          MaxCloses     (* bound: connections that close                    *)

ASSUME FriendsAssumption ==
  /\ IsFiniteSet(Users) /\ IsFiniteSet(Sessions)
  /\ Acct \in [Sessions -> Users]
  /\ Nobody \notin Sessions \cup Users
  /\ Backend \in {"mem", "mysql"}
  /\ MaxRequests \in Nat /\ MaxCloses \in Nat

VARIABLES
  row,         (* the friends table: status of each pair <<asker, other>>    *)
  online,      (* Hub.online                                                *)
  loggedIn,    (* Session.LoggedIn                                          *)
  closed,      (* sessions whose Close has taken them off the online table  *)
  gone,        (* those whose connection it has closed as well              *)
  pc,          (* where each handler stands                                 *)
  peer,        (* the other account of its request, Nobody if there is none *)
  target,      (* the session it sends a list to                            *)
  batch,       (* the ids it has read from the store and not sent yet       *)
  seen,        (* applicants that were sent to each client, in the bar or   *)
               (* by a push, and that it has not answered                   *)
  told,        (* friends in the list that was sent to each client last     *)
  asked,       (* history: applications that wait for an answer             *)
  agreed,      (* history: applications that the other side has accepted    *)
  overlapped,  (* history: sessions that shared their account               *)
  older,       (* history: handlers with a list in hand that another one    *)
               (* has since read again for the same session                 *)
  outrun,      (* history: sessions that were sent such a list last         *)
  requests     (* history: requests handled                                 *)

client == <<seen, told>>
handler == <<pc, peer, target, batch>>
answers == <<asked, agreed>>
lists == <<older, outrun>>
vars == <<row, online, loggedIn, closed, gone, pc, peer, target, batch, seen,
          told, asked, agreed, overlapped, older, outrun, requests>>

Init ==
  /\ row = [q \in Users \X Users |-> "none"]
  /\ online = [u \in Users |-> Nobody]
  /\ loggedIn = {}
  /\ closed = {}
  /\ gone = {}
  /\ pc = [s \in Sessions |-> "idle"]
  /\ peer = [s \in Sessions |-> Nobody]
  /\ target = [s \in Sessions |-> s]
  /\ batch = [s \in Sessions |-> {}]
  /\ seen = [s \in Sessions |-> {}]
  /\ told = [s \in Sessions |-> {}]
  /\ asked = {}
  /\ agreed = {}
  /\ overlapped = {}
  /\ older = {}
  /\ outrun = {}
  /\ requests = 0

Goto(s, label) == pc' = [pc EXCEPT ![s] = label]

-----------------------------------------------------------------------------
(* The store.  A row <<a, b>> is a's application to b; once accepted it    *)
(* makes both friends.                                                     *)

PendingFriendIDs(u) == {a \in Users : row[<<a, u>>] = "pending"}

FriendIDs(u) == {a \in Users : "friend" \in {row[<<a, u>>], row[<<u, a>>]}}

(* INSERT IGNORE, or the test of the map's key: an old row stays.          *)
InviteFriend(a, b) ==
  row' = [row EXCEPT ![<<a, b>>] = IF @ = "none" THEN "pending" ELSE @]

(* Mutant: the pair is given in the wrong order.                           *)
AcceptSwapped(u, other) ==
  row' = [row EXCEPT ![<<u, other>>] = IF @ = "pending" THEN "friend" ELSE @]

AcceptFriend(u, other) ==
  row' = [row EXCEPT ![<<other, u>>] = IF @ = "pending" THEN "friend" ELSE @]

(* Mutant: the DELETE does not look at the status, whatever the store.     *)
RejectAnything(u, other) == row' = [row EXCEPT ![<<other, u>>] = "none"]

(* The DELETE of MySQLStore looks at the status; MemStore deletes the key. *)
RejectFriend(u, other) ==
  row' = [row EXCEPT ![<<other, u>>] =
            IF @ = "friend" /\ Backend = "mysql" THEN "friend" ELSE "none"]

-----------------------------------------------------------------------------
(* Login and Close.                                                        *)

(* Its handler takes no further frame and is done with the last.           *)
Over(s) == s \in gone /\ pc[s] = "idle"

Login(s) ==
  /\ pc[s] = "idle"
  /\ s \notin loggedIn \cup gone
  /\ loggedIn' = loggedIn \cup {s}
  /\ LET others == {t \in loggedIn : Acct[t] = Acct[s] /\ ~Over(t)}
     IN overlapped' = IF others = {} THEN overlapped
                                     ELSE overlapped \cup others \cup {s}
  /\ Goto(s, "enlist")
  /\ UNCHANGED <<row, online, closed, gone, peer, target, batch, client,
                 answers, requests, lists>>

(* OnLogin: into the online table, then the application bar and the list.  *)
Enlist(s) ==
  /\ pc[s] = "enlist"
  /\ online' = [online EXCEPT ![Acct[s]] = s]
  /\ Goto(s, "readPending")
  /\ UNCHANGED <<row, loggedIn, closed, gone, peer, target, batch, client,
                 answers, overlapped, lists, requests>>

ReadPending(s) ==
  /\ pc[s] = "readPending"
  /\ batch' = [batch EXCEPT ![s] = PendingFriendIDs(Acct[s])]
  /\ Goto(s, "sendPending")
  /\ UNCHANGED <<row, online, loggedIn, closed, gone, peer, target, client,
                 answers, overlapped, lists, requests>>

(* Mutant: the login does not send the application bar.                    *)
SendPendingNothing(s) ==
  /\ pc[s] = "sendPending"
  /\ batch' = [batch EXCEPT ![s] = {}]
  /\ Goto(s, "readFriends")
  /\ UNCHANGED <<row, online, loggedIn, closed, gone, peer, target, client,
                 answers, overlapped, lists, requests>>

SendPending(s) ==
  /\ pc[s] = "sendPending"
  /\ seen' = [seen EXCEPT ![s] = @ \cup batch[s]]
  /\ batch' = [batch EXCEPT ![s] = {}]
  /\ Goto(s, "readFriends")
  /\ UNCHANGED <<row, online, loggedIn, closed, gone, peer, target, told,
                 answers, overlapped, lists, requests>>

(* The online table loses the account, whichever session it points to.     *)
Close(s) ==
  /\ s \notin closed /\ Cardinality(closed) < MaxCloses
  /\ closed' = closed \cup {s}
  /\ online' = IF s \in loggedIn THEN [online EXCEPT ![Acct[s]] = Nobody]
                                 ELSE online
  /\ UNCHANGED <<row, loggedIn, gone, handler, client, answers, overlapped,
                 lists, requests>>

(* conn.Close, after the rest of OnDisconnect: until then the handler goes *)
(* on reading frames.                                                      *)
Shut(s) ==
  /\ s \in closed \ gone
  /\ gone' = gone \cup {s}
  /\ UNCHANGED <<row, online, loggedIn, closed, handler, client, answers,
                 overlapped, lists, requests>>

-----------------------------------------------------------------------------
(* SendFriendList, to the handler's own session or to its peer's.          *)

ReadFriends(s) ==
  /\ pc[s] = "readFriends"
  /\ batch' = [batch EXCEPT ![s] = FriendIDs(Acct[target[s]])]
  /\ older' = older \cup {t \in Sessions \ {s} : pc[t] = "sendFriends"
                                                /\ target[t] = target[s]}
  /\ Goto(s, "sendFriends")
  /\ UNCHANGED <<row, online, loggedIn, closed, gone, peer, target, client,
                 answers, overlapped, outrun, requests>>

(* The client shows this list and none it had before.                      *)
SendFriends(s) ==
  /\ pc[s] = "sendFriends"
  /\ told' = [told EXCEPT ![target[s]] = batch[s]]
  /\ batch' = [batch EXCEPT ![s] = {}]
  /\ older' = older \ {s}
  /\ outrun' = IF s \in older THEN outrun \cup {target[s]}
                              ELSE outrun \ {target[s]}
  /\ target' = [target EXCEPT ![s] = s]
  /\ Goto(s, IF peer[s] = Nobody THEN "idle" ELSE "lookup")
  /\ UNCHANGED <<row, online, loggedIn, closed, gone, peer, seen, answers,
                 overlapped, requests>>

(* Mutant: the other side is not told.                                     *)
LookupNobody(s) ==
  /\ pc[s] = "lookup"
  /\ Goto(s, "idle")
  /\ peer' = [peer EXCEPT ![s] = Nobody]
  /\ UNCHANGED <<row, online, loggedIn, closed, gone, target, batch, client,
                 answers, overlapped, lists, requests>>

(* After an acceptance: the other side's list, if it is online.            *)
Lookup(s) ==
  /\ pc[s] = "lookup"
  /\ peer' = [peer EXCEPT ![s] = Nobody]
  /\ IF online[peer[s]] = Nobody
     THEN Goto(s, "idle") /\ UNCHANGED target
     ELSE /\ Goto(s, "readFriends")
          /\ target' = [target EXCEPT ![s] = online[peer[s]]]
  /\ UNCHANGED <<row, online, loggedIn, closed, gone, batch, client, answers,
                 overlapped, lists, requests>>

-----------------------------------------------------------------------------
(* Requests.                                                               *)

Request(s) ==
  /\ pc[s] = "idle"
  /\ s \in loggedIn \ gone
  /\ requests < MaxRequests
  /\ requests' = requests + 1

FriendList(s) ==
  /\ Request(s)
  /\ Goto(s, "readFriends")
  /\ UNCHANGED <<row, online, loggedIn, closed, gone, peer, target, batch,
                 client, answers, overlapped, lists>>

(* Mutant: the test for friends is left out.                               *)
InviteAnyone(s, b) ==
  /\ Request(s)
  /\ b # Acct[s]
  /\ peer' = [peer EXCEPT ![s] = b]
  /\ Goto(s, "insert")
  /\ UNCHANGED <<row, online, loggedIn, closed, gone, target, batch, client,
                 answers, overlapped, lists>>

(* handleFriendInvite: not to oneself, nor to a friend.                    *)
Invite(s, b) ==
  /\ Request(s)
  /\ b \notin {Acct[s]} \cup FriendIDs(Acct[s])
  /\ peer' = [peer EXCEPT ![s] = b]
  /\ Goto(s, "insert")
  /\ UNCHANGED <<row, online, loggedIn, closed, gone, target, batch, client,
                 answers, overlapped, lists>>

Insert(s) ==
  /\ pc[s] = "insert"
  /\ InviteFriend(Acct[s], peer[s])
  /\ asked' = asked \cup {<<Acct[s], peer[s]>>}
  /\ Goto(s, "push")
  /\ UNCHANGED <<online, loggedIn, closed, gone, peer, target, batch, client,
                 agreed, overlapped, lists, requests>>

(* The application is pushed to the other side, if it is online.           *)
Push(s) ==
  /\ pc[s] = "push"
  /\ LET t == online[peer[s]]
     IN seen' = IF t = Nobody THEN seen
                ELSE [seen EXCEPT ![t] = @ \cup {Acct[s]}]
  /\ peer' = [peer EXCEPT ![s] = Nobody]
  /\ Goto(s, "idle")
  /\ UNCHANGED <<row, online, loggedIn, closed, gone, target, batch, told,
                 answers, overlapped, lists, requests>>

(* The client takes the application out of its bar when it answers it.     *)
Answered(s, other) ==
  /\ seen' = [seen EXCEPT ![s] = @ \ {other}]
  /\ asked' = asked \ {<<other, Acct[s]>>}

Accept(s, other) ==
  /\ Request(s)
  /\ AcceptFriend(Acct[s], other)
  /\ Answered(s, other)
  /\ agreed' = agreed \cup ({<<other, Acct[s]>>} \cap asked)
  /\ peer' = [peer EXCEPT ![s] = other]
  /\ Goto(s, "readFriends")
  /\ UNCHANGED <<online, loggedIn, closed, gone, target, batch, told,
                 overlapped, lists>>

Reject(s, other) ==
  /\ Request(s)
  /\ RejectFriend(Acct[s], other)
  /\ Answered(s, other)
  /\ UNCHANGED <<online, loggedIn, closed, gone, handler, told, agreed,
                 overlapped, lists>>

Handler(s) ==
  \/ Login(s) \/ Enlist(s) \/ ReadPending(s) \/ SendPending(s)
  \/ ReadFriends(s) \/ SendFriends(s) \/ Lookup(s)
  \/ FriendList(s) \/ Insert(s) \/ Push(s)
  \/ \E u \in Users : Invite(s, u) \/ Accept(s, u) \/ Reject(s, u)

Next == \E s \in Sessions : Handler(s) \/ Close(s) \/ Shut(s)

Spec == Init /\ [][Next]_vars

-----------------------------------------------------------------------------
(* Properties.                                                             *)

(* The session that the online table shows for an account, when its        *)
(* handler is at rest.                                                     *)
Current(s) == online[Acct[s]] = s /\ pc[s] = "idle"

(* An application is never lost between the two ways to its addressee: one *)
(* that waits for an answer is in the bar of the addressee's current       *)
(* session, through the login list or the push, unless its push is still   *)
(* to come.  The login enlists before it reads and the invitation inserts  *)
(* before it looks.                                                        *)
ApplicationDelivered ==
  \A s \in Sessions : Current(s) =>
    \A a \in PendingFriendIDs(Acct[s]) :
      \/ a \in seen[s]
      \/ \E t \in Sessions :
           Acct[t] = a /\ peer[t] = Acct[s] /\ pc[t] = "push"

(* The same for friendship: the list that the current session was sent    *)
(* last contains every friend, unless a handler that accepted, or one that *)
(* is about to send the session a list, is still at it; and but for the    *)
(* session to which two handlers sent lists in the other order than they   *)
(* had read them, until it is sent another one.                            *)
FriendshipDelivered ==
  \A s \in Sessions \ (overlapped \cup outrun) : Current(s) =>
    \A a \in FriendIDs(Acct[s]) :
      \/ a \in told[s]
      \/ \E t \in Sessions :
           \/ t # s /\ target[t] = s
           \/ Acct[t] = a /\ peer[t] = Acct[s]

(* Nobody is made a friend without having accepted an application that the *)
(* other has made.                                                         *)
Consented ==
  \A a, b \in Users : row[<<a, b>>] = "friend" => <<a, b>> \in agreed

(* No application is stored between two who are friends.  The test and the *)
(* insertion are two queries, so it takes the answers of another handler   *)
(* of the applicant to come between them: an account with one session at a *)
(* time never gets a second row about a friend in this way.                *)
NoneAppliesToFriend ==
  [][\A a, b \in Users :
       /\ b \in FriendIDs(a)
       /\ row[<<a, b>>] = "none" /\ row'[<<a, b>>] = "pending"
       => \E s \in overlapped : Acct[s] = a]_vars

(* No request ends a friendship (with MySQL): a late or repeated rejection *)
(* only takes an application back.                                         *)
FriendsStay ==
  [][\A q \in Users \X Users : row[q] = "friend" => row'[q] = "friend"]_vars
=============================================================================
