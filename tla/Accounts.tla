------------------------------ MODULE Accounts ------------------------------
(***************************************************************************)
(* Accounts: the handlers of gateway/session.go that work before a login   *)
(* (handleReg, handleLogin, handleReconnect), lobby/service.go under them, *)
(* and the users of both stores.  A handler runs in its session's          *)
(* goroutine and calls the store several times: a step here is a call.     *)
(* MySQL calls may fail; MemStore's never do.                              *)
(*                                                                         *)
(* A token is the pair that the HMAC signs: clients present tokens that    *)
(* were signed.  Inputs are well formed: names that Register refuses, and  *)
(* bodies that do not decode, change nothing.                              *)
(***************************************************************************)
EXTENDS Naturals, Sequences, FiniteSets

CONSTANTS Clients,      (* devices, with one connection each at a time       *)
          Accounts,     (* account names                                     *)
          Nicks,        (* nicknames                                         *)
          Passwords,
          TTL,          (* tokenTTL, in ticks of the clock                   *)
          MaxTime,      (* bound: ticks                                      *)
          MaxUsers,     (* bound: rows of users                              *)
          MaxRequests,  (* bound: requests, of all clients                   *)
          MaxFaults     (* bound: calls of MySQL that fail                   *)

ASSUME AccountsAssumption ==
  /\ TTL \in Nat /\ MaxTime \in Nat
  /\ MaxUsers \in Nat /\ MaxRequests \in Nat /\ MaxFaults \in Nat

VARIABLES
  backend,    (* which store: "mem" or "mysql"                              *)
  users,      (* the rows, by uid                                           *)
  now,        (* the clock                                                  *)
  call,       (* the call each handler makes next, "idle" for none, and     *)
              (* what it works with: the names and password of the request, *)
              (* a token, a uid                                             *)
  loggedIn,   (* clients whose session has LoggedIn set                     *)
  loginUID,   (* Session.LoginUID                                           *)
  token,      (* the token each client keeps                                *)
  answer,     (* the code and the uid of the last answer                    *)
  requests,   (* history: requests made                                     *)
  faults,     (* history: calls of MySQL that failed                        *)
  troubled,   (* history: clients whose last request met a fault            *)
  beaten,     (* history: clients whose last registration was overtaken by  *)
              (* one that shares a name with it                             *)
  proved      (* history: the uid whose password each client gave last, and *)
              (* when                                                       *)

sessions == <<loggedIn, loginUID, token>>
history == <<requests, faults, troubled, beaten, proved>>
vars == <<backend, users, now, call, sessions, answer, history>>

Token(u, t) == [uid |-> u, expire |-> t]
NoToken == Token(0, 0)

Rows == [account : Accounts, nick : Nicks, password : Passwords]

(* One user has registered before.                                         *)
Init ==
  /\ backend \in {"mem", "mysql"}
  /\ users \in {<<row>> : row \in Rows}
  /\ now = 0
  /\ call = [c \in Clients |-> [at |-> "idle", row |-> users[1],
                                token |-> NoToken]]
  /\ loggedIn = {} /\ loginUID = [c \in Clients |-> 0]
  /\ token = [c \in Clients |-> NoToken]
  /\ answer = [c \in Clients |-> [code |-> "none", uid |-> 0]]
  /\ requests = 0
  /\ faults = 0 /\ troubled = {} /\ beaten = {}
  /\ proved = [c \in Clients |-> [uid |-> 0, time |-> 0]]

-----------------------------------------------------------------------------
Uids == 1..Len(users)
HasAccount(row) == \E u \in Uids : users[u].account = row.account
HasNick(row) == \E u \in Uids : users[u].nick = row.nick

(* A request arrives, and its handler will call the store at label.        *)
Begin(c, label, row, t) ==
  /\ call[c].at = "idle" /\ requests < MaxRequests
  /\ call' = [call EXCEPT ![c] = [at |-> label, row |-> row, token |-> t]]
  /\ requests' = requests + 1
  /\ troubled' = troubled \ {c} /\ beaten' = beaten \ {c}
  /\ answer' = [answer EXCEPT ![c] = [code |-> "none", uid |-> 0]]
  /\ UNCHANGED <<backend, users, now, sessions, faults, proved>>

Goto(c, label) == call' = [call EXCEPT ![c].at = label]

Answer(c, code, u) ==
  /\ Goto(c, "idle")
  /\ answer' = [answer EXCEPT ![c] = [code |-> code, uid |-> u]]

(* The call in hand succeeds, or it is one to MySQL and fails.             *)
Succeeds == UNCHANGED <<faults, troubled>>
Fails(c) ==
  /\ backend = "mysql" /\ faults < MaxFaults
  /\ faults' = faults + 1
  /\ troubled' = troubled \cup {c}

-----------------------------------------------------------------------------
(* Register: MemStore.CreateUser is one critical section; MySQLStore's     *)
(* looks for the account, then for the nickname, then inserts.  A look     *)
(* that fails counts as nothing found.                                     *)

Register(c) ==
  \E row \in Rows :
    Begin(c, IF backend = "mem" THEN "create" ELSE "account", row, NoToken)

(* The row gets the next id, which is the answer.                          *)
AddRow(c) ==
  LET row == call[c].row
      rivals == {d \in Clients \ {c} :
                   /\ call[d].at \in {"create", "account", "nick", "insert"}
                   /\ \/ call[d].row.account = row.account
                      \/ call[d].row.nick = row.nick}
  IN /\ Len(users) < MaxUsers
     /\ users' = Append(users, row)
     /\ beaten' = beaten \cup rivals

(* Mutant: MemStore does not look for the nickname.                        *)
CreateUserAnyNick(c) ==
  /\ call[c].at = "create"
  /\ IF HasAccount(call[c].row)
     THEN Answer(c, "account", 0) /\ UNCHANGED <<users, beaten>>
     ELSE AddRow(c) /\ Answer(c, "registered", Len(users) + 1)
  /\ Succeeds
  /\ UNCHANGED <<backend, now, sessions, requests, proved>>

CreateUser(c) ==
  /\ call[c].at = "create"
  /\ IF HasAccount(call[c].row)
     THEN Answer(c, "account", 0) /\ UNCHANGED <<users, beaten>>
     ELSE IF HasNick(call[c].row)
     THEN Answer(c, "nick", 0) /\ UNCHANGED <<users, beaten>>
     ELSE AddRow(c) /\ Answer(c, "registered", Len(users) + 1)
  /\ Succeeds
  /\ UNCHANGED <<backend, now, sessions, requests, proved>>

LookFor(c, label, Has(_), next) ==
  /\ call[c].at = label
  /\ \/ /\ Succeeds
        /\ IF Has(call[c].row) THEN Answer(c, label, 0)
                               ELSE Goto(c, next) /\ UNCHANGED answer
     \/ Fails(c) /\ Goto(c, next) /\ UNCHANGED answer
  /\ UNCHANGED <<backend, users, now, sessions, requests, beaten, proved>>

LookForAccount(c) == LookFor(c, "account", HasAccount, "nick")
LookForNick(c) == LookFor(c, "nick", HasNick, "insert")

(* The table's unique keys refuse a second row of a name: the error is not *)
(* one that handleReg knows.  An INSERT whose answer is lost may be done.  *)
Insert(c) ==
  /\ call[c].at = "insert"
  /\ \/ /\ ~HasAccount(call[c].row) /\ ~HasNick(call[c].row)
        /\ AddRow(c)
        /\ \/ Succeeds /\ Answer(c, "registered", Len(users) + 1)
           \/ Fails(c) /\ Answer(c, "failed", 0)
     \/ /\ \/ Succeeds /\ (HasAccount(call[c].row) \/ HasNick(call[c].row))
           \/ Fails(c)
        /\ Answer(c, "failed", 0)
        /\ UNCHANGED <<users, beaten>>
  /\ UNCHANGED <<backend, now, sessions, requests, proved>>

-----------------------------------------------------------------------------
(* Login and Reconnect, of a session that is not logged in: any other is   *)
(* answered with an error and stays as it is.                              *)

Login(c) ==
  /\ c \notin loggedIn
  /\ \E row \in Rows : Begin(c, "find", row, NoToken)

(* GetUserByAccount, the password, and sign.                               *)
FindUser(c) ==
  /\ call[c].at = "find"
  /\ \/ /\ Succeeds
        /\ IF ~HasAccount(call[c].row)
           THEN Answer(c, "no account", 0) /\ UNCHANGED proved
           ELSE \E u \in Uids :
             /\ users[u].account = call[c].row.account
             /\ IF users[u].password # call[c].row.password
                THEN Answer(c, "password", 0) /\ UNCHANGED proved
                ELSE /\ call' = [call EXCEPT ![c] =
                                    [at |-> "own", row |-> @.row,
                                     token |-> Token(u, now + TTL)]]
                     /\ proved' = [proved EXCEPT ![c] = [uid |-> u,
                                                         time |-> now]]
                     /\ UNCHANGED answer
     \/ Fails(c) /\ Answer(c, "failed", 0) /\ UNCHANGED proved
  /\ UNCHANGED <<backend, users, now, sessions, requests, beaten>>

Reconnect(c) ==
  /\ c \notin loggedIn /\ token[c] # NoToken
  /\ Begin(c, "verify", call[c].row, token[c])

(* Mutant: the time of the token is not looked at.                         *)
GoodAtAnyTime(t) == t.uid \in Uids

(* What Verify asks of a token that was signed.                            *)
Good(t) == t.expire >= now /\ t.uid \in Uids

Enter(c, u) ==
  /\ loggedIn' = loggedIn \cup {c}
  /\ loginUID' = [loginUID EXCEPT ![c] = u]
  /\ token' = [token EXCEPT ![c] = call[c].token]
  /\ Answer(c, "ok", u)

(* handleLogin verifies its own token to learn the uid, and takes the uid  *)
(* it gets, 0 if the store fails.                                          *)
VerifyOwn(c) ==
  /\ call[c].at = "own"
  /\ \/ Succeeds /\ Enter(c, IF Good(call[c].token) THEN call[c].token.uid
                                                    ELSE 0)
     \/ Fails(c) /\ Enter(c, 0)
  /\ UNCHANGED <<backend, users, now, requests, beaten, proved>>

Verify(c) ==
  /\ call[c].at = "verify"
  /\ \/ Succeeds /\ Good(call[c].token) /\ Enter(c, call[c].token.uid)
     \/ /\ \/ Succeeds /\ ~Good(call[c].token)
           \/ Fails(c)
        /\ Answer(c, "token", 0) /\ UNCHANGED sessions
  /\ UNCHANGED <<backend, users, now, requests, beaten, proved>>

-----------------------------------------------------------------------------
(* The connection ends and the client makes another one.                   *)
Redial(c) ==
  /\ call[c].at = "idle" /\ c \in loggedIn
  /\ loggedIn' = loggedIn \ {c}
  /\ loginUID' = [loginUID EXCEPT ![c] = 0]
  /\ UNCHANGED <<backend, users, now, call, token, answer, history>>

(* A tick is a good part of the TTL: no login lasts that long.             *)
Tick ==
  /\ now < MaxTime
  /\ \A c \in Clients : call[c].at # "own"
  /\ now' = now + 1
  /\ UNCHANGED <<backend, users, call, sessions, answer, history>>

Next ==
  \/ \E c \in Clients :
       \/ Register(c) \/ CreateUser(c)
       \/ LookForAccount(c) \/ LookForNick(c) \/ Insert(c)
       \/ Login(c) \/ FindUser(c) \/ VerifyOwn(c)
       \/ Reconnect(c) \/ Verify(c) \/ Redial(c)
  \/ Tick

Spec == Init /\ [][Next]_vars

-----------------------------------------------------------------------------
(* Properties.                                                             *)

NamesUnique ==
  \A u, v \in Uids :
    users[u].account = users[v].account \/ users[u].nick = users[v].nick
    => u = v

Truthful(c) ==
  LET row == call[c].row
  IN CASE answer[c].code = "registered" ->
            answer[c].uid \in Uids /\ users[answer[c].uid] = row
       [] answer[c].code = "account" -> HasAccount(row)
       [] answer[c].code = "nick" -> HasNick(row)
       [] answer[c].code = "password" ->
            \E u \in Uids : /\ users[u].account = row.account
                            /\ users[u].password # row.password
       [] answer[c].code = "failed" ->
            \/ c \in troubled
            \/ /\ backend = "mysql" /\ c \in beaten
               /\ HasAccount(row) \/ HasNick(row)
       [] OTHER -> TRUE

(* Whoever registers at the same time, in either store: no two users share *)
(* an account name or a nickname.  An answer is true: "registered" means   *)
(* that the row of that uid is the one asked for, "account" and "nick"     *)
(* that the name is taken, "password" that the account has another one;    *)
(* and "failed" is answered only after a fault of the store, or, by MySQL, *)
(* to the loser of a race, whose name is then taken.                       *)
RegistrationsTrue == NamesUnique /\ \A c \in Clients : Truthful(c)

(* A session becomes that of an account only for a client that has given   *)
(* the account's password no longer than the TTL ago: reconnecting does    *)
(* not prolong a token.  The one exception is a login whose second look at *)
(* the user fails: it succeeds as nobody, uid 0.                           *)
OwnerLogsIn ==
  [][\A c \in loggedIn' \ loggedIn :
       \/ /\ loginUID'[c] = proved[c].uid /\ loginUID'[c] # 0
          /\ now <= proved[c].time + TTL
       \/ loginUID'[c] = 0 /\ call[c].at = "own" /\ c \in troubled']_vars
=============================================================================
