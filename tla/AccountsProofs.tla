--------------------------- MODULE AccountsProofs ---------------------------
(***************************************************************************)
(* Proofs about Accounts.tla, for every set of clients, names and          *)
(* passwords and every TTL: names are unique and answers true in either    *)
(* store, and a session is its account's owner's.                          *)
(***************************************************************************)
EXTENDS Accounts, TLAPS

Labels == {"idle", "create", "account", "nick", "insert", "find", "own",
           "verify"}
Codes == {"none", "registered", "account", "nick", "failed", "no account",
          "password", "ok", "token"}
Tokens == [uid : Nat, expire : Nat]

AccountsType ==
  /\ backend \in {"mem", "mysql"}
  /\ users \in Seq(Rows)
  /\ now \in Nat
  /\ call \in [Clients -> [at : Labels, row : Rows, token : Tokens]]
  /\ loggedIn \subseteq Clients
  /\ loginUID \in [Clients -> Nat]
  /\ token \in [Clients -> Tokens]
  /\ answer \in [Clients -> [code : Codes, uid : Nat]]
  /\ troubled \subseteq Clients
  /\ beaten \subseteq Clients
  /\ proved \in [Clients -> [uid : Nat, time : Nat]]

(* What MySQLStore.CreateUser did not find is still not there, unless the  *)
(* look failed or another registration has come between.                   *)
LooksOf(c) ==
  /\ call[c].at \in {"account", "nick", "insert"} => backend = "mysql"
  /\ c \notin troubled \cup beaten =>
       /\ call[c].at \in {"nick", "insert"} => ~HasAccount(call[c].row)
       /\ call[c].at = "insert" => ~HasNick(call[c].row)

LooksHold == \A c \in Clients : LooksOf(c)

(* A token says whose password was given, and when; the one in the hands   *)
(* of Verify is that one.                                                  *)
Vouched(t, c) ==
  /\ t = Token(proved[c].uid, proved[c].time + TTL)
  /\ proved[c].uid # 0

TokensOf(c) ==
  /\ call[c].at # "own" /\ token[c] # NoToken => Vouched(token[c], c)
  /\ call[c].at = "own" => /\ Vouched(call[c].token, c)
                           /\ Good(call[c].token)
  /\ call[c].at = "verify" => call[c].token = token[c] /\ token[c] # NoToken

TokensVouched == \A c \in Clients : TokensOf(c)

AccountsInv ==
  AccountsType /\ LooksHold /\ RegistrationsTrue /\ TokensVouched

-----------------------------------------------------------------------------
(* One user has registered; nobody has asked for anything.                 *)
LEMMA AccountsInit == Init => AccountsInv
<1> SUFFICES ASSUME Init PROVE AccountsInv
  OBVIOUS
<1>1. PICK row \in Rows : users = <<row>>
  BY DEF Init
<1>2. users \in Seq(Rows) /\ Len(users) = 1 /\ users[1] = row
  BY <1>1
<1>3. NoToken \in Tokens
  BY DEF NoToken, Token, Tokens
<1>4. AccountsType
  BY <1>2, <1>3 DEF Init, AccountsType, Labels, Codes
<1>5. LooksHold /\ TokensVouched
  BY DEF Init, LooksHold, LooksOf, TokensVouched, TokensOf
<1>6. NamesUnique
  BY <1>2 DEF NamesUnique, Uids
<1>7. ASSUME NEW c \in Clients PROVE Truthful(c)
  BY DEF Init, Truthful
<1>8. QED
  BY <1>4, <1>5, <1>6, <1>7 DEF AccountsInv, RegistrationsTrue

(* What the handlers' calls do to the variables they share.                *)
LEMMA AddRowFacts ==
  ASSUME NEW c \in Clients, AccountsType, AddRow(c)
  PROVE  /\ users' \in Seq(Rows)
         /\ Len(users') = Len(users) + 1
         /\ \A u \in Uids : users'[u] = users[u]
         /\ users'[Len(users) + 1] = call[c].row
         /\ Uids' = Uids \cup {Len(users) + 1}
         /\ Len(users) + 1 \notin Uids
         /\ Len(users) + 1 \in Nat
         /\ beaten \subseteq beaten' /\ beaten' \subseteq Clients
<1>1. call[c].row \in Rows
  BY DEF AccountsType
<1>2. users' = Append(users, call[c].row) /\ users \in Seq(Rows)
  BY DEF AddRow, AccountsType
<1>3. QED
  BY <1>1, <1>2 DEF AddRow, AccountsType, Uids

Calls == [at : Labels, row : Rows, token : Tokens]

(* A handler moves on, or answers.                                         *)
LEMMA GotoFacts ==
  ASSUME NEW c \in Clients, NEW label \in Labels, AccountsType,
         Goto(c, label)
  PROVE  /\ call' \in [Clients -> Calls]
         /\ call'[c].at = label
         /\ call'[c].row = call[c].row /\ call'[c].token = call[c].token
         /\ \A d \in Clients \ {c} : call'[d] = call[d]
<1>1. call[c] \in Calls
  BY DEF AccountsType, Calls
<1>2. PICK q \in Calls : q = [call[c] EXCEPT !.at = label]
  BY <1>1 DEF Calls
<1>3. call' = [call EXCEPT ![c] = q]
  BY <1>2 DEF Goto
<1>4. q.at = label /\ q.row = call[c].row /\ q.token = call[c].token
  BY <1>1, <1>2 DEF Calls
<1>5. QED
  BY <1>3, <1>4 DEF AccountsType, Calls

(* ... and when it answers, it is done.                                    *)
LEMMA AnswerFacts ==
  ASSUME NEW c \in Clients, NEW code \in Codes, NEW u \in Nat, AccountsType,
         Answer(c, code, u)
  PROVE  /\ call' \in [Clients -> Calls]
         /\ call'[c].at = "idle"
         /\ call'[c].row = call[c].row /\ call'[c].token = call[c].token
         /\ \A d \in Clients \ {c} : call'[d] = call[d]
         /\ answer' \in [Clients -> [code : Codes, uid : Nat]]
         /\ answer'[c].code = code /\ answer'[c].uid = u
         /\ \A d \in Clients \ {c} : answer'[d] = answer[d]
<1>1. Goto(c, "idle") /\ "idle" \in Labels
  BY DEF Answer, Labels
<1>2. answer' = [answer EXCEPT ![c] = [code |-> code, uid |-> u]]
  BY DEF Answer
<1>3. answer \in [Clients -> [code : Codes, uid : Nat]]
  BY DEF AccountsType
<1>4. QED
  BY <1>1, <1>2, <1>3, GotoFacts

(* Every step keeps every variable in its range.                           *)
LEMMA TypeStep ==
  ASSUME AccountsType, [Next]_vars
  PROVE  AccountsType'
<1> USE AccountsAssumption
    DEF AccountsAssumption, AccountsType, sessions, history
<1>1. ASSUME NEW c \in Clients, NEW label \in Labels, NEW row \in Rows,
             NEW t \in Tokens, Begin(c, label, row, t)
      PROVE  AccountsType'
  <2>1. call' \in [Clients -> Calls]
    BY <1>1 DEF Begin, Calls
  <2>2. answer' \in [Clients -> [code : Codes, uid : Nat]]
    BY <1>1 DEF Begin, Codes
  <2>3. troubled' \subseteq Clients /\ beaten' \subseteq Clients
    BY <1>1 DEF Begin
  <2>4. QED
    BY <1>1, <2>1, <2>2, <2>3 DEF Begin, Calls
<1>2. ASSUME NEW c \in Clients, Register(c) \/ Login(c) \/ Reconnect(c)
      PROVE  AccountsType'
  <2>1. NoToken \in Tokens /\ token[c] \in Tokens /\ call[c].row \in Rows
    BY DEF NoToken, Token, Tokens
  <2>2. PICK label \in Labels, row \in Rows, t \in Tokens :
               Begin(c, label, row, t)
    BY <1>2, <2>1 DEF Register, Login, Reconnect, Labels
  <2>3. QED
    BY <1>1, <2>2
<1>3. ASSUME NEW c \in Clients, NEW code \in Codes, NEW u \in Nat,
             Answer(c, code, u), Succeeds \/ Fails(c),
             AddRow(c) \/ UNCHANGED <<users, beaten>>,
             UNCHANGED <<backend, now, sessions, proved>>
      PROVE  AccountsType'
  <2>1. users' \in Seq(Rows) /\ beaten' \subseteq Clients
    BY <1>3, AddRowFacts
  <2>2. /\ call' \in [Clients -> Calls]
        /\ answer' \in [Clients -> [code : Codes, uid : Nat]]
    BY <1>3, AnswerFacts
  <2>3. troubled' \subseteq Clients
    BY <1>3 DEF Succeeds, Fails
  <2>4. QED
    BY <1>3, <2>1, <2>2, <2>3 DEF Calls
<1>4. ASSUME NEW c \in Clients, CreateUser(c) \/ Insert(c)
      PROVE  AccountsType'
  <2>1. Len(users) + 1 \in Nat
    OBVIOUS
  <2>2. QED
    BY <1>3, <1>4, <2>1 DEF CreateUser, Insert, Codes
<1>5. ASSUME NEW c \in Clients, LookForAccount(c) \/ LookForNick(c)
      PROVE  AccountsType'
  <2>1. ASSUME NEW label \in {"account", "nick"}, Answer(c, label, 0)
        PROVE  AccountsType'
    <3>1. /\ Succeeds \/ Fails(c)
          /\ UNCHANGED <<backend, users, now, sessions, beaten, proved>>
      BY <1>5 DEF LookForAccount, LookForNick, LookFor
    <3>2. label \in Codes /\ 0 \in Nat
      BY DEF Codes
    <3>3. QED
      BY <1>3, <2>1, <3>1, <3>2
  <2>2. CASE \E label \in {"nick", "insert"} : /\ Goto(c, label)
                                               /\ UNCHANGED answer
    <3>1. call' \in [Clients -> Calls]
      BY <2>2, GotoFacts DEF Labels
    <3>2. troubled' \subseteq Clients
      BY <1>5 DEF LookForAccount, LookForNick, LookFor, Succeeds, Fails
    <3>3. QED
      BY <1>5, <2>2, <3>1, <3>2
      DEF LookForAccount, LookForNick, LookFor, Calls
  <2>3. QED
    BY <1>5, <2>1, <2>2 DEF LookForAccount, LookForNick, LookFor
<1>6. ASSUME NEW c \in Clients, FindUser(c) PROVE AccountsType'
  <2>1. CASE \E code \in Codes : Answer(c, code, 0) /\ UNCHANGED proved
    BY <1>3, <1>6, <2>1 DEF FindUser
  <2>2. ASSUME NEW u \in Uids,
               call' = [call EXCEPT ![c] = [at |-> "own", row |-> call[c].row,
                                            token |-> Token(u, now + TTL)]],
               proved' = [proved EXCEPT ![c] = [uid |-> u, time |-> now]],
               UNCHANGED answer
        PROVE  AccountsType'
    <3>1. u \in Nat /\ now + TTL \in Nat
      BY DEF Uids
    <3>2. PICK t \in Tokens : t = Token(u, now + TTL)
      BY <3>1 DEF Token, Tokens
    <3>3. call' = [call EXCEPT ![c] = [at |-> "own", row |-> call[c].row,
                                       token |-> t]]
      BY <2>2, <3>2
    <3>4. [at |-> "own", row |-> call[c].row, token |-> t] \in Calls
      BY <3>2 DEF Calls, Labels
    <3>5. call' \in [Clients -> Calls]
      BY <3>3, <3>4 DEF Calls
    <3>6. proved' \in [Clients -> [uid : Nat, time : Nat]]
      BY <2>2, <3>1
    <3>7. troubled' \subseteq Clients
      BY <1>6 DEF FindUser, Succeeds, Fails
    <3>8. QED
      BY <1>6, <2>2, <3>5, <3>6, <3>7 DEF FindUser, Calls
  <2>3. QED
    BY <1>6, <2>1, <2>2 DEF FindUser, Codes
<1>7. ASSUME NEW c \in Clients, VerifyOwn(c) \/ Verify(c)
      PROVE  AccountsType'
  <2>1. call[c].token \in Tokens /\ call[c].token.uid \in Nat
    BY DEF Tokens
  <2>2. CASE Answer(c, "token", 0) /\ UNCHANGED sessions
    BY <1>3, <1>7, <2>2 DEF VerifyOwn, Verify, Codes
  <2>3. CASE \E u \in Nat : Enter(c, u)
    <3>1. /\ call' \in [Clients -> Calls]
          /\ answer' \in [Clients -> [code : Codes, uid : Nat]]
      BY <2>3, AnswerFacts DEF Enter, Codes
    <3>2. /\ loggedIn' \subseteq Clients /\ loginUID' \in [Clients -> Nat]
          /\ token' \in [Clients -> Tokens]
      BY <2>1, <2>3 DEF Enter
    <3>3. troubled' \subseteq Clients
      BY <1>7 DEF VerifyOwn, Verify, Succeeds, Fails
    <3>4. QED
      BY <1>7, <3>1, <3>2, <3>3 DEF VerifyOwn, Verify, Calls
  <2>4. QED
    BY <1>7, <2>1, <2>2, <2>3 DEF VerifyOwn, Verify
<1>8. ASSUME NEW c \in Clients, Redial(c) PROVE AccountsType'
  BY <1>8 DEF Redial
<1>9. CASE Tick
  BY <1>9 DEF Tick
<1>10. CASE UNCHANGED vars
  BY <1>10 DEF vars
<1>11. QED
  BY <1>2, <1>3, <1>4, <1>5, <1>6, <1>7, <1>8, <1>9, <1>10 DEF Next

-----------------------------------------------------------------------------
ClientStep(c) ==
  \/ Register(c) \/ CreateUser(c)
  \/ LookForAccount(c) \/ LookForNick(c) \/ Insert(c)
  \/ Login(c) \/ FindUser(c) \/ VerifyOwn(c)
  \/ Reconnect(c) \/ Verify(c) \/ Redial(c)

(* A new row is added for a name and a nickname that nobody has: MemStore  *)
(* has looked in the same critical section, MySQL's keys look again.       *)
LEMMA RowsFrame ==
  ASSUME NEW c \in Clients, ClientStep(c)
  PROVE  \/ UNCHANGED users
         \/ /\ AddRow(c) /\ call[c].at \in {"create", "insert"}
            /\ ~HasAccount(call[c].row) /\ ~HasNick(call[c].row)
<1>1. CASE CreateUser(c)
  BY <1>1 DEF CreateUser
<1>2. CASE Insert(c)
  BY <1>2 DEF Insert
<1>3. CASE Register(c) \/ Login(c) \/ Reconnect(c)
  BY <1>3 DEF Register, Login, Reconnect, Begin
<1>4. CASE LookForAccount(c) \/ LookForNick(c) \/ FindUser(c)
  BY <1>4 DEF LookForAccount, LookForNick, LookFor, FindUser
<1>5. CASE VerifyOwn(c) \/ Verify(c) \/ Redial(c)
  BY <1>5 DEF VerifyOwn, Verify, Redial
<1>6. QED
  BY <1>1, <1>2, <1>3, <1>4, <1>5 DEF ClientStep

(* What one client's handler leaves alone of another one.                  *)
LEMMA OthersStay ==
  ASSUME AccountsType, NEW c \in Clients, NEW d \in Clients \ {c},
         ClientStep(d)
  PROVE  /\ call'[c] = call[c] /\ answer'[c] = answer[c]
         /\ token'[c] = token[c] /\ proved'[c] = proved[c]
         /\ loginUID'[c] = loginUID[c]
         /\ c \in loggedIn' <=> c \in loggedIn
         /\ c \in troubled' <=> c \in troubled
         /\ UNCHANGED <<backend, now>>
         /\ \/ UNCHANGED users /\ (c \in beaten' <=> c \in beaten)
            \/ AddRow(d)
<1> USE DEF AccountsType, sessions, history
<1>1. CASE Register(d) \/ Login(d) \/ Reconnect(d)
  BY <1>1 DEF Register, Login, Reconnect, Begin
<1>2. CASE CreateUser(d) \/ Insert(d)
  BY <1>2 DEF CreateUser, Insert, Answer, Goto, Succeeds, Fails
<1>3. CASE LookForAccount(d) \/ LookForNick(d)
  BY <1>3 DEF LookForAccount, LookForNick, LookFor, Answer, Goto, Succeeds,
              Fails
<1>4. CASE FindUser(d)
  BY <1>4 DEF FindUser, Answer, Goto, Succeeds, Fails
<1>5. CASE VerifyOwn(d) \/ Verify(d)
  BY <1>5 DEF VerifyOwn, Verify, Enter, Answer, Goto, Succeeds, Fails
<1>6. CASE Redial(d)
  BY <1>6 DEF Redial
<1>7. QED
  BY <1>1, <1>2, <1>3, <1>4, <1>5, <1>6 DEF ClientStep

(* Names that are taken stay so, and names that become so were asked for.  *)
LEMMA RowsGrow ==
  ASSUME AccountsType, NEW c \in Clients, UNCHANGED users \/ AddRow(c)
  PROVE  /\ \A row \in Rows :
              /\ HasAccount(row) => HasAccount(row)'
              /\ HasNick(row) => HasNick(row)'
              /\ HasAccount(row)' => \/ HasAccount(row)
                                     \/ /\ AddRow(c)
                                        /\ call[c].row.account = row.account
              /\ HasNick(row)' => \/ HasNick(row)
                                  \/ /\ AddRow(c)
                                     /\ call[c].row.nick = row.nick
         /\ Uids \subseteq Uids' /\ \A u \in Uids : users'[u] = users[u]
<1>1. CASE UNCHANGED users
  BY <1>1 DEF HasAccount, HasNick, Uids
<1>2. CASE AddRow(c)
  BY <1>2, AddRowFacts DEF HasAccount, HasNick
<1>3. QED
  BY <1>1, <1>2

(* Where a request begins.                                                 *)
LEMMA BeginFacts ==
  ASSUME AccountsType, NEW c \in Clients,
         Register(c) \/ Login(c) \/ Reconnect(c)
  PROVE  /\ call'[c].at \in {"create", "account", "find", "verify"}
         /\ call'[c].at = "account" => backend = "mysql"
         /\ call'[c].at = "verify" => /\ call'[c].token = token[c]
                                      /\ token[c] # NoToken
         /\ answer'[c].code = "none"
         /\ UNCHANGED <<backend, users, now, token, proved>>
<1> USE DEF AccountsType, Begin, sessions
<1>1. CASE Register(c)
  BY <1>1 DEF Register
<1>2. CASE Login(c)
  BY <1>2 DEF Login
<1>3. CASE Reconnect(c)
  BY <1>3 DEF Reconnect
<1>4. QED
  BY <1>1, <1>2, <1>3

(* Another registration that takes a name marks those it beats.            *)
LEMMA LooksStep ==
  ASSUME AccountsType, LooksHold, [Next]_vars
  PROVE  LooksHold'
<1> SUFFICES ASSUME NEW c \in Clients PROVE LooksOf(c)'
  BY DEF LooksHold
<1>1. LooksOf(c)
  BY DEF LooksHold
<1>0. PICK row \in Rows : row = call[c].row
  BY DEF AccountsType
<1>2. ASSUME NEW d \in Clients \ {c}, ClientStep(d) PROVE LooksOf(c)'
  <2>1. /\ call'[c] = call[c] /\ backend' = backend
        /\ c \in troubled' <=> c \in troubled
        /\ \/ UNCHANGED users /\ (c \in beaten' <=> c \in beaten)
           \/ AddRow(d)
    BY <1>2, OthersStay
  <2>2. CASE UNCHANGED users /\ (c \in beaten' <=> c \in beaten)
    BY <1>1, <2>1, <2>2 DEF LooksOf, HasAccount, HasNick, Uids
  <2>3. CASE AddRow(d)
    <3>1. /\ call[c].at \in {"nick", "insert"} /\ c \notin beaten'
               => /\ call[d].row.account # call[c].row.account
                  /\ call[d].row.nick # call[c].row.nick
          /\ beaten \subseteq beaten'
      BY <2>3 DEF AddRow
    <3>2. /\ HasAccount(row)' => \/ HasAccount(row)
                                 \/ call[d].row.account = row.account
          /\ HasNick(row)' => HasNick(row) \/ call[d].row.nick = row.nick
      BY <2>3, RowsGrow
    <3>3. QED
      BY <1>0, <1>1, <2>1, <3>1, <3>2 DEF LooksOf
  <2>4. QED
    BY <2>1, <2>2, <2>3
<1>3. ASSUME ClientStep(c) PROVE LooksOf(c)'
  <2>1. CASE Register(c) \/ Login(c) \/ Reconnect(c)
    BY <2>1, BeginFacts DEF LooksOf
  <2>2. CASE LookForAccount(c)
    <3>1. UNCHANGED <<backend, users>> /\ call[c].at = "account"
      BY <2>2 DEF LookForAccount, LookFor
    <3>2. CASE Goto(c, "nick") /\ (~HasAccount(call[c].row) \/ Fails(c))
      <4>1. call'[c].at = "nick" /\ call'[c].row = row
        BY <1>0, <3>2, GotoFacts DEF Labels
      <4>2. c \in troubled' \/ ~HasAccount(row)'
        BY <1>0, <3>1, <3>2 DEF Fails, HasAccount, Uids
      <4>3. QED
        BY <1>1, <3>1, <4>1, <4>2 DEF LooksOf
    <3>3. CASE Answer(c, "account", 0)
      BY <3>3, AnswerFacts DEF LooksOf, Codes
    <3>4. QED
      BY <2>2, <3>2, <3>3 DEF LookForAccount, LookFor
  <2>3. CASE LookForNick(c)
    <3>1. /\ UNCHANGED <<backend, users, beaten>> /\ call[c].at = "nick"
          /\ troubled \subseteq troubled'
      BY <2>3 DEF LookForNick, LookFor, Succeeds, Fails
    <3>2. CASE Goto(c, "insert") /\ (~HasNick(call[c].row) \/ Fails(c))
      <4>1. call'[c].at = "insert" /\ call'[c].row = row
        BY <1>0, <3>2, GotoFacts DEF Labels
      <4>2. c \in troubled' \/ ~HasNick(row)'
        BY <1>0, <3>1, <3>2 DEF Fails, HasNick, Uids
      <4>3. HasAccount(row)' => HasAccount(row)
        BY <3>1 DEF HasAccount, Uids
      <4>4. QED
        BY <1>0, <1>1, <3>1, <4>1, <4>2, <4>3 DEF LooksOf
    <3>3. CASE Answer(c, "nick", 0)
      BY <3>3, AnswerFacts DEF LooksOf, Codes
    <3>4. QED
      BY <2>3, <3>2, <3>3 DEF LookForNick, LookFor
  <2>4. CASE /\ call'[c].at \notin {"account", "nick", "insert"}
    BY <2>4 DEF LooksOf
  <2>5. CASE CreateUser(c) \/ Insert(c)
    <3>1. Goto(c, "idle")
      BY <2>5 DEF CreateUser, Insert, Answer
    <3>2. QED
      BY <2>4, <3>1, GotoFacts DEF Labels
  <2>6. CASE FindUser(c) \/ VerifyOwn(c) \/ Verify(c)
    <3>1. CASE Goto(c, "idle")
      BY <2>4, <3>1, GotoFacts DEF Labels
    <3>2. CASE ~Goto(c, "idle")
      <4>1. FindUser(c)
        BY <2>6, <3>2 DEF VerifyOwn, Verify, Enter, Answer
      <4>2. PICK t : call' = [call EXCEPT ![c] = [at |-> "own", row |-> @.row,
                                                  token |-> t]]
        BY <3>2, <4>1 DEF FindUser, Answer
      <4>3. call'[c].at = "own"
        BY <4>2 DEF AccountsType
      <4>4. QED
        BY <2>4, <4>3
    <3>3. QED
      BY <3>1, <3>2
  <2>7. CASE Redial(c)
    BY <1>1, <2>7
    DEF Redial, history, LooksOf, HasAccount, HasNick, Uids
  <2>8. QED
    BY <1>3, <2>1, <2>2, <2>3, <2>5, <2>6, <2>7 DEF ClientStep
<1>4. CASE Tick \/ UNCHANGED vars
  BY <1>1, <1>4
  DEF Tick, vars, history, LooksOf, HasAccount, HasNick, Uids
<1>5. QED
  BY <1>2, <1>3, <1>4 DEF Next, ClientStep

-----------------------------------------------------------------------------
(* MemStore tests in the section that adds, MySQL has unique keys.         *)
LEMMA UniqueStep ==
  ASSUME AccountsType, NamesUnique, [Next]_vars
  PROVE  NamesUnique'
<1>1. CASE UNCHANGED users
  BY <1>1 DEF NamesUnique, Uids
<1>2. ASSUME NEW c \in Clients, AddRow(c),
             ~HasAccount(call[c].row), ~HasNick(call[c].row)
      PROVE  NamesUnique'
  <2>1. \A u \in Uids : /\ users'[u].account # users'[Len(users) + 1].account
                        /\ users'[u].nick # users'[Len(users) + 1].nick
    BY <1>2, AddRowFacts DEF HasAccount, HasNick
  <2>2. \A u, v \in Uids :
          \/ users'[u].account = users'[v].account
          \/ users'[u].nick = users'[v].nick
          => u = v
    BY <1>2, AddRowFacts DEF NamesUnique
  <2>3. QED
    BY <1>2, <2>1, <2>2, AddRowFacts DEF NamesUnique
<1>3. CASE Tick \/ UNCHANGED vars
  BY <1>1, <1>3 DEF Tick, vars
<1>4. QED
  BY <1>1, <1>2, <1>3, RowsFrame DEF Next, ClientStep

(* Once given, an answer stays true: rows are never changed or removed.    *)
LEMMA TruthStays ==
  ASSUME AccountsType, NEW c \in Clients, NEW d \in Clients, Truthful(c),
         UNCHANGED users \/ AddRow(d),
         call'[c].row = call[c].row, answer'[c] = answer[c],
         backend' = backend, c \in troubled => c \in troubled',
         c \in beaten => c \in beaten'
  PROVE  Truthful(c)'
<1>0. PICK row \in Rows : row = call[c].row
  BY DEF AccountsType
<1>1. /\ HasAccount(row) => HasAccount(row)'
      /\ HasNick(row) => HasNick(row)'
      /\ Uids \subseteq Uids' /\ \A u \in Uids : users'[u] = users[u]
  BY RowsGrow
<1>2. CASE answer[c].code = "registered"
  BY <1>0, <1>1, <1>2 DEF Truthful
<1>3. CASE answer[c].code = "account"
  BY <1>0, <1>1, <1>3 DEF Truthful
<1>4. CASE answer[c].code = "nick"
  BY <1>0, <1>1, <1>4 DEF Truthful
<1>5. CASE answer[c].code = "password"
  BY <1>0, <1>1, <1>5 DEF Truthful
<1>6. CASE answer[c].code = "failed"
  BY <1>0, <1>1, <1>6 DEF Truthful
<1>7. CASE answer[c].code \notin {"registered", "account", "nick", "password",
                                 "failed"}
  BY <1>7 DEF Truthful
<1>8. QED
  BY <1>2, <1>3, <1>4, <1>5, <1>6, <1>7

(* A new answer is true of what its handler saw, or of what it has done.   *)
LEMMA TruthStep ==
  ASSUME AccountsType, LooksHold, NEW c \in Clients, Truthful(c), [Next]_vars
  PROVE  Truthful(c)'
<1>0. PICK row \in Rows : row = call[c].row
  BY DEF AccountsType
<1>1. ASSUME NEW d \in Clients \ {c}, ClientStep(d) PROVE Truthful(c)'
  <2>1. beaten \subseteq beaten' \/ (c \in beaten' <=> c \in beaten)
    BY <1>1, OthersStay DEF AddRow
  <2>2. QED
    BY <1>1, <2>1, OthersStay, TruthStays
<1>2. CASE Register(c) \/ Login(c) \/ Reconnect(c)
  BY <1>2, BeginFacts DEF Truthful
<1>3. CASE CreateUser(c)
  <2>1. CASE AddRow(c) /\ Answer(c, "registered", Len(users) + 1)
    <3>1. /\ answer'[c].code = "registered"
          /\ answer'[c].uid = Len(users) + 1 /\ call'[c].row = row
      BY <1>0, <2>1, AnswerFacts, AddRowFacts DEF Codes
    <3>2. users'[Len(users) + 1] = row /\ Len(users) + 1 \in Uids'
      BY <1>0, <2>1, AddRowFacts
    <3>3. QED
      BY <3>1, <3>2 DEF Truthful
  <2>2. CASE Answer(c, "account", 0) /\ HasAccount(row) /\ UNCHANGED users
    <3>1. answer'[c].code = "account" /\ call'[c].row = row
      BY <1>0, <2>2, AnswerFacts DEF Codes
    <3>2. HasAccount(row)'
      BY <2>2 DEF HasAccount, Uids
    <3>3. QED
      BY <3>1, <3>2 DEF Truthful
  <2>3. CASE Answer(c, "nick", 0) /\ HasNick(row) /\ UNCHANGED users
    <3>1. answer'[c].code = "nick" /\ call'[c].row = row
      BY <1>0, <2>3, AnswerFacts DEF Codes
    <3>2. HasNick(row)'
      BY <2>3 DEF HasNick, Uids
    <3>3. QED
      BY <3>1, <3>2 DEF Truthful
  <2>4. QED
    BY <1>0, <1>3, <2>1, <2>2, <2>3 DEF CreateUser
<1>4. CASE LookForAccount(c)
  <2>1. CASE Answer(c, "account", 0) /\ HasAccount(row)
    <3>1. answer'[c].code = "account" /\ call'[c].row = row
      BY <1>0, <2>1, AnswerFacts DEF Codes
    <3>2. HasAccount(row)'
      BY <1>4, <2>1 DEF LookForAccount, LookFor, HasAccount, Uids
    <3>3. QED
      BY <3>1, <3>2 DEF Truthful
  <2>2. CASE Goto(c, "nick") /\ UNCHANGED answer
    <3>1. call'[c].row = call[c].row
      BY <2>2, GotoFacts DEF Labels
    <3>2. QED
      BY <1>4, <2>2, <3>1, TruthStays
      DEF LookForAccount, LookFor, Succeeds, Fails
  <2>3. QED
    BY <1>0, <1>4, <2>1, <2>2 DEF LookForAccount, LookFor
<1>5. CASE LookForNick(c)
  <2>1. CASE Answer(c, "nick", 0) /\ HasNick(row)
    <3>1. answer'[c].code = "nick" /\ call'[c].row = row
      BY <1>0, <2>1, AnswerFacts DEF Codes
    <3>2. HasNick(row)'
      BY <1>5, <2>1 DEF LookForNick, LookFor, HasNick, Uids
    <3>3. QED
      BY <3>1, <3>2 DEF Truthful
  <2>2. CASE Goto(c, "insert") /\ UNCHANGED answer
    <3>1. call'[c].row = call[c].row
      BY <2>2, GotoFacts DEF Labels
    <3>2. QED
      BY <1>5, <2>2, <3>1, TruthStays
      DEF LookForNick, LookFor, Succeeds, Fails
  <2>3. QED
    BY <1>0, <1>5, <2>1, <2>2 DEF LookForNick, LookFor
<1>6. CASE Insert(c)
  <2>1. CASE AddRow(c) /\ Answer(c, "registered", Len(users) + 1)
    <3>1. /\ answer'[c].code = "registered"
          /\ answer'[c].uid = Len(users) + 1 /\ call'[c].row = row
      BY <1>0, <2>1, AnswerFacts, AddRowFacts DEF Codes
    <3>2. users'[Len(users) + 1] = row /\ Len(users) + 1 \in Uids'
      BY <1>0, <2>1, AddRowFacts
    <3>3. QED
      BY <3>1, <3>2 DEF Truthful
  <2>2. CASE Answer(c, "failed", 0) /\ Fails(c)
    <3>1. answer'[c].code = "failed" /\ c \in troubled'
      BY <2>2, AnswerFacts DEF Codes, Fails
    <3>2. QED
      BY <3>1 DEF Truthful
  <2>3. CASE /\ Answer(c, "failed", 0) /\ Succeeds
             /\ UNCHANGED <<users, beaten>>
             /\ HasAccount(row) \/ HasNick(row)
    <3>1. answer'[c].code = "failed" /\ call'[c].row = row
      BY <1>0, <2>3, AnswerFacts DEF Codes
    <3>2. HasAccount(row)' \/ HasNick(row)'
      BY <2>3 DEF HasAccount, HasNick, Uids
    <3>3. c \in troubled' \/ (backend' = "mysql" /\ c \in beaten')
      BY <1>0, <1>6, <2>3 DEF Insert, LooksHold, LooksOf, Succeeds
    <3>4. QED
      BY <3>1, <3>2, <3>3 DEF Truthful
  <2>4. QED
    BY <1>0, <1>6, <2>1, <2>2, <2>3 DEF Insert
<1>7. CASE FindUser(c)
  <2>1. CASE Answer(c, "no account", 0)
    <3>1. answer'[c].code = "no account"
      BY <2>1, AnswerFacts DEF Codes
    <3>2. QED
      BY <3>1 DEF Truthful
  <2>2. ASSUME NEW u \in Uids, users[u].account = row.account,
               users[u].password # row.password, Answer(c, "password", 0)
        PROVE  Truthful(c)'
    <3>1. answer'[c].code = "password" /\ call'[c].row = row
      BY <1>0, <2>2, AnswerFacts DEF Codes
    <3>2. UNCHANGED users /\ Uids' = Uids
      BY <1>7 DEF FindUser, Uids
    <3>3. QED
      BY <2>2, <3>1, <3>2 DEF Truthful
  <2>3. ASSUME NEW t, UNCHANGED answer,
               call' = [call EXCEPT ![c] = [at |-> "own", row |-> @.row,
                                            token |-> t]]
        PROVE  Truthful(c)'
    <3>1. call'[c].row = call[c].row
      BY <2>3 DEF AccountsType
    <3>2. QED
      BY <1>7, <2>3, <3>1, TruthStays DEF FindUser, Succeeds, Fails
  <2>4. CASE Answer(c, "failed", 0) /\ Fails(c)
    <3>1. answer'[c].code = "failed" /\ c \in troubled'
      BY <2>4, AnswerFacts DEF Codes, Fails
    <3>2. QED
      BY <3>1 DEF Truthful
  <2>5. QED
    BY <1>0, <1>7, <2>1, <2>2, <2>3, <2>4 DEF FindUser
<1>8. CASE VerifyOwn(c) \/ Verify(c)
  <2>0. call[c].token.uid \in Nat
    BY DEF AccountsType, Tokens
  <2>1. PICK code \in {"ok", "token"}, u \in Nat : Answer(c, code, u)
    <3>1. \/ Answer(c, "ok", call[c].token.uid) \/ Answer(c, "ok", 0)
          \/ Answer(c, "token", 0)
      BY <1>8 DEF VerifyOwn, Verify, Enter
    <3>2. QED
      BY <2>0, <3>1
  <2>2. code \in Codes
    BY DEF Codes
  <2>3. answer'[c].code = code
    BY <2>1, <2>2, AnswerFacts
  <2>4. QED
    BY <2>3 DEF Truthful
<1>9. CASE Redial(c) \/ Tick \/ UNCHANGED vars
  <2>1. UNCHANGED <<users, call, answer, backend, troubled, beaten>>
    BY <1>9 DEF Redial, Tick, vars, history
  <2>2. QED
    BY <2>1, TruthStays
<1>10. QED
  BY <1>1, <1>2, <1>3, <1>4, <1>5, <1>6, <1>7, <1>8, <1>9
  DEF Next, ClientStep

-----------------------------------------------------------------------------
(* A token is made from the time and the account of a password that was    *)
(* given, and goes nowhere but to the client and back.                     *)
LEMMA TokensStep ==
  ASSUME AccountsType, TokensVouched, [Next]_vars
  PROVE  TokensVouched'
<1> SUFFICES ASSUME NEW c \in Clients PROVE TokensOf(c)'
  BY DEF TokensVouched
<1>1. TokensOf(c)
  BY DEF TokensVouched
<1>2. ASSUME UNCHANGED <<token, proved>>, call[c].at # "own",
             call'[c].at \notin {"own", "verify"}
      PROVE  TokensOf(c)'
  BY <1>1, <1>2 DEF TokensOf, Vouched
<1>3. ASSUME NEW d \in Clients \ {c}, ClientStep(d) PROVE TokensOf(c)'
  <2>1. Uids \subseteq Uids'
    BY <1>3, OthersStay, AddRowFacts DEF Uids
  <2>2. QED
    BY <1>1, <1>3, <2>1, OthersStay DEF TokensOf, Vouched, Good
<1>4. CASE Register(c) \/ Login(c) \/ Reconnect(c)
  <2>1. call[c].at = "idle"
    BY <1>4 DEF Register, Login, Reconnect, Begin
  <2>2. QED
    BY <1>1, <1>4, <2>1, BeginFacts DEF TokensOf, Vouched
<1>5. CASE \/ CreateUser(c) \/ Insert(c)
           \/ LookForAccount(c) \/ LookForNick(c)
  <2>1. \E label \in {"idle", "nick", "insert"} : Goto(c, label)
    BY <1>5
    DEF CreateUser, Insert, LookForAccount, LookForNick, LookFor, Answer
  <2>2. call'[c].at \notin {"own", "verify"}
    BY <2>1, GotoFacts DEF Labels
  <2>3. UNCHANGED <<token, proved>> /\ call[c].at # "own"
    BY <1>5
    DEF CreateUser, Insert, LookForAccount, LookForNick, LookFor, sessions
  <2>4. QED
    BY <1>2, <2>2, <2>3
<1>6. CASE FindUser(c)
  <2>1. UNCHANGED <<users, now, token>> /\ call[c].at = "find"
    BY <1>6 DEF FindUser, sessions
  <2>2. CASE Goto(c, "idle") /\ UNCHANGED proved
    <3>1. call'[c].at = "idle"
      BY <2>2, GotoFacts DEF Labels
    <3>2. QED
      BY <1>2, <2>1, <2>2, <3>1
  <2>3. ASSUME NEW u \in Uids,
               call' = [call EXCEPT ![c] = [at |-> "own", row |-> @.row,
                                            token |-> Token(u, now + TTL)]],
               proved' = [proved EXCEPT ![c] = [uid |-> u, time |-> now]]
        PROVE  TokensOf(c)'
    <3>1. /\ call'[c].at = "own" /\ call'[c].token = Token(u, now + TTL)
          /\ proved'[c].uid = u /\ proved'[c].time = now
      BY <2>3 DEF AccountsType
    <3>2. u \in Uids' /\ u # 0
      BY <2>1 DEF Uids
    <3>3. now + TTL >= now
      BY AccountsAssumption DEF AccountsAssumption, AccountsType
    <3>4. QED
      BY <2>1, <3>1, <3>2, <3>3 DEF TokensOf, Vouched, Good, Token
  <2>4. QED
    BY <1>6, <2>2, <2>3 DEF FindUser, Answer
<1>7. CASE VerifyOwn(c) \/ Verify(c)
  <2>1. Goto(c, "idle") /\ UNCHANGED proved
    BY <1>7 DEF VerifyOwn, Verify, Enter, Answer
  <2>2. call'[c].at = "idle"
    BY <2>1, GotoFacts DEF Labels
  <2>3. \/ token'[c] = call[c].token
        \/ call[c].at = "verify" /\ token' = token
    <3>1. CASE token' = [token EXCEPT ![c] = call[c].token]
      BY <3>1 DEF AccountsType
    <3>2. CASE token' = token /\ call[c].at = "verify"
      BY <3>2
    <3>3. QED
      BY <1>7, <3>1, <3>2 DEF VerifyOwn, Verify, Enter, sessions
  <2>4. call[c].at \in {"own", "verify"}
    BY <1>7 DEF VerifyOwn, Verify
  <2>5. QED
    BY <1>1, <2>1, <2>2, <2>3, <2>4 DEF TokensOf, Vouched
<1>8. CASE Redial(c)
  BY <1>1, <1>8 DEF Redial, history, TokensOf, Vouched, Good, Uids
<1>9. CASE Tick
  BY <1>1, <1>9 DEF Tick, sessions, history, TokensOf, Vouched
<1>10. CASE UNCHANGED vars
  BY <1>1, <1>10
  DEF vars, sessions, history, TokensOf, Vouched, Good, Uids
<1>11. QED
  BY <1>3, <1>4, <1>5, <1>6, <1>7, <1>8, <1>9, <1>10 DEF Next, ClientStep

-----------------------------------------------------------------------------
(* The strengthened invariant is inductive; the theorems below follow.     *)
THEOREM AccountsInvariant == Spec => []AccountsInv
<1>1. AccountsInv /\ [Next]_vars => AccountsInv'
  <2> SUFFICES ASSUME AccountsInv, [Next]_vars PROVE AccountsInv'
    OBVIOUS
  <2> USE DEF AccountsInv, RegistrationsTrue
  <2>1. AccountsType' /\ LooksHold' /\ NamesUnique' /\ TokensVouched'
    BY TypeStep, LooksStep, UniqueStep, TokensStep
  <2>2. ASSUME NEW c \in Clients PROVE Truthful(c)'
    BY TruthStep
  <2>3. QED
    BY <2>1, <2>2
<1>2. QED
  BY AccountsInit, <1>1, PTL DEF Spec

(* In either store, whoever registers at the same time, and whatever calls *)
(* of MySQL fail: names stay unique and every answer is true.              *)
THEOREM AnswersTrue == Spec => []RegistrationsTrue
<1>1. AccountsInv => RegistrationsTrue
  BY DEF AccountsInv
<1>2. QED
  BY AccountsInvariant, <1>1, PTL

(* Nobody gets an account's session without its password, given no longer  *)
(* than the TTL ago, however often tokens are presented and handed out.    *)
THEOREM SessionsOfOwners == Spec => OwnerLogsIn
<1> DEFINE Owned(c) ==
      \/ /\ loginUID'[c] = proved[c].uid /\ loginUID'[c] # 0
         /\ now <= proved[c].time + TTL
      \/ loginUID'[c] = 0 /\ call[c].at = "own" /\ c \in troubled'
<1>1. AccountsInv /\ [Next]_vars
      => [\A c \in loggedIn' \ loggedIn : Owned(c)]_vars
  <2> SUFFICES ASSUME AccountsInv, Next, NEW c \in loggedIn' \ loggedIn
               PROVE  Owned(c)
    OBVIOUS
  <2>1. AccountsType /\ TokensVouched /\ AccountsType'
    BY TypeStep DEF AccountsInv
  <2>2. c \in Clients
    BY <2>1 DEF AccountsType
  <2>3. VerifyOwn(c) \/ Verify(c)
    <3>1. ~ \E d \in Clients \ {c} : ClientStep(d)
      BY <2>1, <2>2, OthersStay
    <3>2. ~ (Register(c) \/ Login(c) \/ Reconnect(c))
      BY DEF Register, Login, Reconnect, Begin, sessions
    <3>3. ~ (CreateUser(c) \/ Insert(c) \/ LookForAccount(c)
             \/ LookForNick(c) \/ FindUser(c) \/ Redial(c) \/ Tick)
      BY DEF CreateUser, Insert, LookForAccount, LookForNick, LookFor,
             FindUser, Redial, Tick, sessions
    <3>4. QED
      BY <3>1, <3>2, <3>3 DEF Next, ClientStep
  <2>4. TokensOf(c)
    BY <2>1, <2>2 DEF TokensVouched
  <2>5. PICK u : Enter(c, u) /\ \/ u = call[c].token.uid /\ Good(call[c].token)
                                \/ u = 0 /\ Fails(c) /\ call[c].at = "own"
    BY <2>3, <2>4 DEF VerifyOwn, Verify, TokensOf, sessions
  <2>6. loginUID'[c] = u
    BY <2>1, <2>2, <2>5 DEF Enter, AccountsType
  <2>7. CASE u = call[c].token.uid /\ Good(call[c].token)
    <3>1. Vouched(call[c].token, c)
      BY <2>3, <2>4 DEF VerifyOwn, Verify, TokensOf
    <3>2. QED
      BY <2>6, <2>7, <3>1 DEF Vouched, Good, Token
  <2>8. CASE u = 0 /\ Fails(c) /\ call[c].at = "own"
    BY <2>6, <2>8 DEF Fails
  <2>9. QED
    BY <2>5, <2>7, <2>8
<1>2. QED
  BY AccountsInvariant, <1>1, PTL DEF Spec, OwnerLogsIn
=============================================================================
