---------------------------- MODULE ServerProofs ----------------------------
(***************************************************************************)
(* Proofs about Server.tla, for every number of connections and senders,   *)
(* every capacity of the write queue and every idle limit.  The inductive  *)
(* invariant is ServerInv: the typing, what the queue of a session and the *)
(* Sends under way say of each other (Crowding, Made, Fresh), and where    *)
(* the sessions are that Server.Close has not closed yet (Left, Dropped).  *)
(***************************************************************************)
EXTENDS Server, SequenceTheorems, TLAPS

(* Two Sends under way to one session have crowded it.                     *)
Crowding ==
  \A s, t \in Senders :
    s # t /\ send[s].at # "idle" /\ send[t].at # "idle"
          /\ send[s].to = send[t].to
      => send[s].to \in crowded

(* The place that a lone Send has made is still there.                     *)
Made ==
  \A s \in Senders :
    send[s].at = "again" /\ send[s].to \notin crowded
      => Len(queue[send[s].to]) < Cap

Waiting(c) == \E s \in Senders : send[s] = [at |-> "again", to |-> c]

(* The queue ends with the newest frame; if it is empty, the writer has    *)
(* it, or a Send is about to put one in.                                   *)
Fresh ==
  \A c \in Conns :
    /\ queue[c] # <<>> => queue[c][Len(queue[c])] = newest[c]
    /\ queue[c] = <<>> => taken[c] = newest[c] \/ Waiting(c)

(* Serve ends with Close.                                                  *)
Left == \A c \in Conns : stage[c] \in {"leaving", "over"} => c \in closed

(* Server.Close loses nobody but those that had not reached the table.     *)
Dropped ==
  down => \A c \in Conns :
            stage[c] # "away" => c \in closed \cup slipped \cup dropping

SendInv == Crowding /\ Made /\ EjectedOnlyIfCrowded

ServerInv == TypeOK /\ SendInv /\ Fresh /\ Left /\ Dropped

-----------------------------------------------------------------------------
(* Sequences of numbers: what Head, Tail and Append do to length and end.  *)
LEMMA QueueFacts ==
  ASSUME NEW q \in Seq(Nat)
  PROVE  /\ Len(q) \in Nat
         /\ q # <<>> => /\ Len(q) > 0
                        /\ Head(q) \in Nat
                        /\ Head(q) = q[1]
                        /\ Tail(q) \in Seq(Nat)
                        /\ Len(Tail(q)) = Len(q) - 1
         /\ \A n \in Nat : /\ Append(q, n) \in Seq(Nat)
                           /\ Len(Append(q, n)) = Len(q) + 1
                           /\ Append(q, n)[Len(q) + 1] = n
                           /\ Append(q, n) # <<>>
<1>1. Len(q) \in Nat
  OBVIOUS
<1>2. ASSUME q # <<>> PROVE Len(q) > 0 /\ Head(q) = q[1] /\ Head(q) \in Nat
  BY <1>2
<1>3. ASSUME q # <<>>
      PROVE  Tail(q) \in Seq(Nat) /\ Len(Tail(q)) = Len(q) - 1
  BY <1>3
<1>4. ASSUME NEW n \in Nat
      PROVE  /\ Append(q, n) \in Seq(Nat)
             /\ Len(Append(q, n)) = Len(q) + 1
             /\ Append(q, n)[Len(q) + 1] = n
  OBVIOUS
<1>5. ASSUME NEW n \in Nat PROVE Append(q, n) # <<>>
  BY <1>4, <1>5
<1>6. QED
  BY <1>1, <1>2, <1>3, <1>4, <1>5

LEMMA TailEnd ==
  ASSUME NEW q \in Seq(Nat), q # <<>>
  PROVE  /\ Tail(q) # <<>> => Tail(q)[Len(Tail(q))] = q[Len(q)]
         /\ Tail(q) = <<>> => q[Len(q)] = q[1]
<1>1. /\ Len(q) \in Nat /\ Len(q) > 0
      /\ Tail(q) \in Seq(Nat) /\ Len(Tail(q)) = Len(q) - 1
  BY QueueFacts
<1>2. \A i \in 1..(Len(q) - 1) : Tail(q)[i] = q[i + 1]
  OBVIOUS
<1>3. ASSUME Tail(q) # <<>> PROVE Tail(q)[Len(Tail(q))] = q[Len(q)]
  <2>1. Len(Tail(q)) # 0
    BY <1>1, <1>3, EmptySeq
  <2>2. Len(q) - 1 \in 1..(Len(q) - 1)
    BY <1>1, <2>1
  <2>3. QED
    BY <1>1, <1>2, <2>2
<1>4. ASSUME Tail(q) = <<>> PROVE q[Len(q)] = q[1]
  <2>0. Len(Tail(q)) \in Nat /\ Len(Tail(q)) = 0
    BY <1>1, <1>4, EmptySeq, LenProperties
  <2>1. \A m, n \in Nat : m = n - 1 /\ m = 0 => n = 1
    OBVIOUS
  <2>2. Len(q) = 1
    BY <1>1, <2>0, <2>1, Zenon
  <2>3. QED
    BY <2>2
<1>5. QED
  BY <1>3, <1>4

-----------------------------------------------------------------------------
LEMMA TypeInit == Init => TypeOK
<1> SUFFICES ASSUME Init PROVE TypeOK
  OBVIOUS
<1> USE ServerAssumption DEF ServerAssumption, Init
<1>1. (CHOOSE c \in Conns : TRUE) \in Conns
  OBVIOUS
<1>2. /\ stage \in [Conns -> {"away", "new", "serving", "stuck", "leaving",
                             "over"}]
      /\ table = {c \in Conns : stage[c] \in {"serving", "stuck", "leaving"}}
      /\ peer \in [Conns -> {"up", "silent", "gone"}]
      /\ idle \in [Conns -> 0..(IdleLimit + 1)]
  OBVIOUS
<1>3. /\ shut \subseteq closed /\ closed \subseteq Conns
      /\ writer \in [Conns -> {"idle", "writing", "gone"}]
      /\ newest \in [Conns -> Nat] /\ taken \in [Conns -> Nat]
      /\ stale \subseteq Conns /\ dropping \subseteq Conns
      /\ watchdog \in BOOLEAN /\ down \in BOOLEAN
  OBVIOUS
<1>4. /\ queue \in [Conns -> Seq(Nat)]
      /\ \A c \in Conns : Len(queue[c]) <= Cap
  BY EmptySeq
<1>5. send \in [Senders -> [at : {"idle", "full", "again"}, to : Conns]]
  BY <1>1 DEF NoSend
<1>6. QED
  BY <1>2, <1>3, <1>4, <1>5 DEF TypeOK

(* The steps that touch queues and Sends, and the others.                  *)
LEMMA QueueSteps ==
  ASSUME [Next]_vars
  PROVE  \/ \E c \in Conns : Take(c)
         \/ \E s \in Senders, c \in Conns : Send(s, c)
         \/ \E s \in Senders : Drop(s) \/ SendAgain(s)
         \/ UNCHANGED <<queue, newest, taken, send, crowded, ejected>>
<1>1. ASSUME NEW c \in Conns,
             Accept(c) \/ Register(c) \/ PeerFalls(c) \/ Receive(c)
      PROVE  UNCHANGED <<queue, newest, taken, send, crowded, ejected>>
  BY <1>1 DEF Accept, Register, PeerFalls, Receive, outbox, history
<1>2. ASSUME NEW c \in Conns, Reader(c) \/ Write(c) \/ Closer(c)
      PROVE  UNCHANGED <<queue, newest, taken, send, crowded, ejected>>
  BY <1>2 DEF Reader, ReadFails, Unregister, Write, Closer, FinishClose,
              CloseStale, CloseDropped, outbox, history
<1>3. ASSUME NEW c \in Conns, StopWriter(c) \/ WriteFails(c)
      PROVE  UNCHANGED <<queue, newest, taken, send, crowded, ejected>>
  BY <1>3 DEF StopWriter, WriteFails, outbox, history
<1>4. ASSUME Tick \/ Scan \/ StopWatchdog \/ Shutdown \/ UNCHANGED vars
      PROVE  UNCHANGED <<queue, newest, taken, send, crowded, ejected>>
  BY <1>4 DEF Tick, Scan, StopWatchdog, Shutdown, vars, outbox, history
<1>5. QED
  BY <1>1, <1>2, <1>3, <1>4 DEF Next, Writer, Sender

(* A Send puts its frame at the end of a queue that is not full.           *)
LEMMA EnqueueFacts ==
  ASSUME TypeOK, NEW c \in Conns, ~Full(c), Enqueue(c)
  PROVE  /\ queue' \in [Conns -> Seq(Nat)]
         /\ newest' \in [Conns -> Nat]
         /\ \A d \in Conns : Len(queue'[d]) <= Cap
         /\ queue'[c] # <<>>
         /\ queue'[c][Len(queue'[c])] = newest'[c]
         /\ \A d \in Conns \ {c} :
              queue'[d] = queue[d] /\ newest'[d] = newest[d]
<1> USE ServerAssumption DEF ServerAssumption
<1>1. /\ queue[c] \in Seq(Nat) /\ newest[c] + 1 \in Nat
      /\ Len(queue[c]) <= Cap /\ Len(queue[c]) # Cap
  BY DEF TypeOK, Full
<1>2. /\ queue' = [queue EXCEPT ![c] = Append(queue[c], newest[c] + 1)]
      /\ newest' = [newest EXCEPT ![c] = newest[c] + 1]
  BY DEF Enqueue, Sent
<1>3. /\ Append(queue[c], newest[c] + 1) \in Seq(Nat)
      /\ Len(Append(queue[c], newest[c] + 1)) = Len(queue[c]) + 1
      /\ Append(queue[c], newest[c] + 1)[Len(queue[c]) + 1] = newest[c] + 1
      /\ Append(queue[c], newest[c] + 1) # <<>>
      /\ Len(queue[c]) \in Nat
  BY <1>1, QueueFacts
<1>4. /\ queue'[c] = Append(queue[c], newest[c] + 1)
      /\ newest'[c] = newest[c] + 1
      /\ \A d \in Conns \ {c} :
           queue'[d] = queue[d] /\ newest'[d] = newest[d]
  BY <1>2 DEF TypeOK
<1>5. queue' \in [Conns -> Seq(Nat)] /\ newest' \in [Conns -> Nat]
  BY <1>1, <1>2, <1>3 DEF TypeOK
<1>6. Len(queue'[c]) <= Cap
  BY <1>1, <1>3, <1>4
<1>7. \A d \in Conns : Len(queue'[d]) <= Cap
  BY <1>4, <1>6 DEF TypeOK
<1>8. queue'[c] # <<>> /\ queue'[c][Len(queue'[c])] = newest'[c]
  BY <1>3, <1>4
<1>9. QED
  BY <1>4, <1>5, <1>7, <1>8

(* Losing the first frame, to the writer or for good.                      *)
LEMMA BeheadFacts ==
  ASSUME TypeOK, NEW c \in Conns, queue[c] # <<>>,
         queue' = [queue EXCEPT ![c] = Tail(queue[c])]
  PROVE  /\ queue' \in [Conns -> Seq(Nat)]
         /\ \A d \in Conns : Len(queue'[d]) <= Cap
         /\ Len(queue'[c]) < Cap
         /\ \A d \in Conns \ {c} : queue'[d] = queue[d]
         /\ queue'[c] # <<>> =>
              queue'[c][Len(queue'[c])] = queue[c][Len(queue[c])]
         /\ queue'[c] = <<>> => queue[c][Len(queue[c])] = Head(queue[c])
         /\ Head(queue[c]) \in Nat
<1> USE ServerAssumption DEF ServerAssumption
<1>1. queue[c] \in Seq(Nat) /\ Len(queue[c]) <= Cap
  BY DEF TypeOK
<1>2. /\ Tail(queue[c]) \in Seq(Nat)
      /\ Len(Tail(queue[c])) = Len(queue[c]) - 1
      /\ Len(queue[c]) \in Nat
      /\ Head(queue[c]) = queue[c][1]
      /\ Head(queue[c]) \in Nat
  BY <1>1, QueueFacts
<1>3. /\ queue'[c] = Tail(queue[c])
      /\ \A d \in Conns \ {c} : queue'[d] = queue[d]
      /\ queue' \in [Conns -> Seq(Nat)]
  BY <1>2 DEF TypeOK
<1>4. Len(queue'[c]) < Cap
  <2>1. \A m, n \in Nat : n <= Cap /\ m = n - 1 => m < Cap
    OBVIOUS
  <2>2. Len(Tail(queue[c])) \in Nat
    BY <1>2, QueueFacts
  <2>3. QED
    BY <1>1, <1>2, <1>3, <2>1, <2>2, Zenon
<1>5. \A d \in Conns : Len(queue'[d]) <= Cap
  <2>1. Len(queue'[c]) \in Nat
    BY <1>3, LenProperties
  <2>2. QED
    BY <1>3, <1>4, <2>1 DEF TypeOK
<1>6. /\ queue'[c] # <<>> =>
           queue'[c][Len(queue'[c])] = queue[c][Len(queue[c])]
      /\ queue'[c] = <<>> => queue[c][Len(queue[c])] = queue[c][1]
  BY <1>1, <1>3, TailEnd
<1>7. QED
  BY <1>2, <1>3, <1>4, <1>5, <1>6

-----------------------------------------------------------------------------
(* Typing: one step per group of variables.                                *)
Places ==
  /\ stage \in [Conns -> {"away", "new", "serving", "stuck", "leaving",
                          "over"}]
  /\ table = {c \in Conns : stage[c] \in {"serving", "stuck", "leaving"}}

LEMMA PlacesStep == TypeOK /\ [Next]_vars => Places'
<1> SUFFICES ASSUME TypeOK, [Next]_vars PROVE Places'
  OBVIOUS
<1> USE DEF TypeOK, Places
<1>1. ASSUME NEW c \in Conns, Accept(c) PROVE Places'
  BY <1>1 DEF Accept
<1>2. ASSUME NEW c \in Conns, Register(c) PROVE Places'
  BY <1>2 DEF Register
<1>3. ASSUME NEW c \in Conns, Receive(c) PROVE Places'
  <2>1. stage[c] = "serving" /\ table' = table
    BY <1>3 DEF Receive
  <2>2. CASE stage' = stage
    BY <2>1, <2>2
  <2>3. CASE stage' = [stage EXCEPT ![c] = "stuck"]
    BY <2>1, <2>3
  <2>4. QED
    BY <1>3, <2>2, <2>3 DEF Receive
<1>4. ASSUME NEW c \in Conns, ReadFails(c) PROVE Places'
  BY <1>4 DEF ReadFails
<1>5. ASSUME NEW c \in Conns, Unregister(c) PROVE Places'
  BY <1>5 DEF Unregister
<1>6. ASSUME UNCHANGED <<stage, table>> PROVE Places'
  BY <1>6
<1>7. ASSUME NEW c \in Conns,
             PeerFalls(c) \/ Writer(c) \/ Write(c) \/ Closer(c)
      PROVE  UNCHANGED <<stage, table>>
  BY <1>7 DEF PeerFalls, Writer, Take, StopWriter, WriteFails, Write, Closer,
              FinishClose, CloseStale, CloseDropped
<1>8. ASSUME NEW s \in Senders, Sender(s) \/ \E c \in Conns : Send(s, c)
      PROVE  UNCHANGED <<stage, table>>
  BY <1>8 DEF Sender, Drop, SendAgain, Send
<1>9. ASSUME Tick \/ Scan \/ StopWatchdog \/ Shutdown \/ UNCHANGED vars
      PROVE  UNCHANGED <<stage, table>>
  BY <1>9 DEF Tick, Scan, StopWatchdog, Shutdown, vars
<1>10. QED
  BY <1>1, <1>2, <1>3, <1>4, <1>5, <1>6, <1>7, <1>8, <1>9 DEF Next, Reader

Clocks ==
  /\ peer \in [Conns -> {"up", "silent", "gone"}]
  /\ idle \in [Conns -> 0..(IdleLimit + 1)]
  /\ writer \in [Conns -> {"idle", "writing", "gone"}]

LEMMA ClocksStep == TypeOK /\ [Next]_vars => Clocks'
<1> SUFFICES ASSUME TypeOK, [Next]_vars PROVE Clocks'
  OBVIOUS
<1> USE ServerAssumption DEF ServerAssumption, TypeOK, Clocks
<1>1. ASSUME NEW c \in Conns, Accept(c) PROVE Clocks'
  BY <1>1 DEF Accept
<1>2. ASSUME NEW c \in Conns, PeerFalls(c) PROVE Clocks'
  <2>1. peer' \in {[peer EXCEPT ![c] = "silent"], [peer EXCEPT ![c] = "gone"]}
    BY <1>2 DEF PeerFalls
  <2>2. peer' \in [Conns -> {"up", "silent", "gone"}]
    BY <2>1
  <2>3. QED
    BY <1>2, <2>2 DEF PeerFalls
<1>3. ASSUME NEW c \in Conns, Receive(c) PROVE Clocks'
  BY <1>3 DEF Receive
<1>4. ASSUME NEW c \in Conns, Writer(c) \/ Write(c) PROVE Clocks'
  <2>1. \E w \in {"idle", "writing", "gone"} :
          writer' = [writer EXCEPT ![c] = w]
    BY <1>4 DEF Writer, Take, StopWriter, WriteFails, Write
  <2>2. peer' = peer /\ idle' = idle
    BY <1>4 DEF Writer, Take, StopWriter, WriteFails, Write
  <2>3. QED
    BY <2>1, <2>2
<1>5. CASE Tick
  <2>1. \A c \in Conns : idle'[c] \in 0..(IdleLimit + 1)
    BY <1>5 DEF Tick
  <2>2. QED
    BY <1>5, <2>1 DEF Tick
<1>6. ASSUME UNCHANGED <<peer, idle, writer>> PROVE Clocks'
  BY <1>6
<1>7. ASSUME NEW c \in Conns, Register(c) \/ Reader(c) \/ Closer(c)
      PROVE  UNCHANGED <<peer, idle, writer>>
  BY <1>7 DEF Register, Reader, ReadFails, Unregister, Closer, FinishClose,
              CloseStale, CloseDropped
<1>8. ASSUME NEW s \in Senders, Sender(s) \/ \E c \in Conns : Send(s, c)
      PROVE  UNCHANGED <<peer, idle, writer>>
  BY <1>8 DEF Sender, Drop, SendAgain, Send
<1>9. ASSUME Scan \/ StopWatchdog \/ Shutdown \/ UNCHANGED vars
      PROVE  UNCHANGED <<peer, idle, writer>>
  BY <1>9 DEF Scan, StopWatchdog, Shutdown, vars
<1>10. QED
  BY <1>1, <1>2, <1>3, <1>4, <1>5, <1>6, <1>7, <1>8, <1>9 DEF Next

Closes ==
  /\ shut \subseteq closed /\ closed \subseteq Conns
  /\ stale \subseteq Conns /\ dropping \subseteq Conns
  /\ watchdog \in BOOLEAN /\ down \in BOOLEAN

LEMMA ClosesStep == TypeOK /\ [Next]_vars => Closes'
<1> SUFFICES ASSUME TypeOK, [Next]_vars PROVE Closes'
  OBVIOUS
<1> USE DEF TypeOK, Closes, server
<1>1. ASSUME NEW c \in Conns, ReadFails(c) PROVE Closes'
  BY <1>1 DEF ReadFails, Closing
<1>2. ASSUME NEW c \in Conns, Closer(c) PROVE Closes'
  <2>1. CASE FinishClose(c)
    BY <2>1 DEF FinishClose
  <2>2. CASE CloseStale(c)
    BY <2>2 DEF CloseStale, Closing
  <2>3. CASE CloseDropped(c)
    BY <2>3 DEF CloseDropped, Closing
  <2>4. QED
    BY <1>2, <2>1, <2>2, <2>3 DEF Closer
<1>3. ASSUME NEW s \in Senders, SendAgain(s) PROVE Closes'
  BY <1>3 DEF SendAgain, Closing
<1>4. CASE Scan
  BY <1>4 DEF Scan
<1>5. CASE StopWatchdog
  BY <1>5 DEF StopWatchdog
<1>6. CASE Shutdown
  BY <1>6 DEF Shutdown
<1>7. ASSUME UNCHANGED <<closed, shut, server>> PROVE Closes'
  BY <1>7
<1>8. ASSUME NEW c \in Conns,
             Accept(c) \/ Register(c) \/ PeerFalls(c) \/ Receive(c)
               \/ Unregister(c) \/ Writer(c) \/ Write(c)
      PROVE  UNCHANGED <<closed, shut, server>>
  BY <1>8 DEF Accept, Register, PeerFalls, Receive, Unregister, Writer, Take,
              StopWriter, WriteFails, Write
<1>9. ASSUME NEW s \in Senders, Drop(s) \/ \E c \in Conns : Send(s, c)
      PROVE  UNCHANGED <<closed, shut, server>>
  BY <1>9 DEF Drop, Send
<1>10. ASSUME Tick \/ UNCHANGED vars PROVE UNCHANGED <<closed, shut, server>>
  BY <1>10 DEF Tick, vars
<1>11. QED
  BY <1>1, <1>2, <1>3, <1>4, <1>5, <1>6, <1>7, <1>8, <1>9, <1>10
     DEF Next, Reader, Sender

Outbox ==
  /\ queue \in [Conns -> Seq(Nat)]
  /\ \A c \in Conns : Len(queue[c]) <= Cap
  /\ newest \in [Conns -> Nat] /\ taken \in [Conns -> Nat]
  /\ send \in [Senders -> [at : {"idle", "full", "again"}, to : Conns]]

(* Where a Send may stand after a step of it.                              *)
LEMMA SendType ==
  ASSUME TypeOK, NEW s \in Senders, NEW c \in Conns,
         NEW label \in {"full", "again"},
         Goto(s, label, c) \/ Done(s) \/ UNCHANGED send
  PROVE  send' \in [Senders -> [at : {"idle", "full", "again"}, to : Conns]]
<1>1. NoSend \in [at : {"idle", "full", "again"}, to : Conns]
  BY ServerAssumption DEF ServerAssumption, NoSend
<1>2. [at |-> label, to |-> c] \in [at : {"idle", "full", "again"}, to : Conns]
  OBVIOUS
<1>3. \E r \in [at : {"idle", "full", "again"}, to : Conns] :
        send' = [send EXCEPT ![s] = r] \/ send' = send
  BY <1>1, <1>2 DEF Goto, Done
<1>4. QED
  BY <1>3 DEF TypeOK

LEMMA OutboxStep == TypeOK /\ [Next]_vars => Outbox'
<1> SUFFICES ASSUME TypeOK, [Next]_vars PROVE Outbox'
  OBVIOUS
<1> USE DEF outbox
<1>1. ASSUME NEW c \in Conns, Take(c) PROVE Outbox'
  <2>1. /\ queue[c] # <<>> /\ queue' = [queue EXCEPT ![c] = Tail(queue[c])]
        /\ taken' = [taken EXCEPT ![c] = Head(queue[c])]
        /\ newest' = newest /\ send' = send
    BY <1>1 DEF Take
  <2>2. /\ queue' \in [Conns -> Seq(Nat)]
        /\ \A d \in Conns : Len(queue'[d]) <= Cap
        /\ Head(queue[c]) \in Nat
    BY <2>1, BeheadFacts
  <2>3. QED
    BY <2>1, <2>2 DEF TypeOK, Outbox
<1>2. ASSUME NEW s \in Senders, NEW c \in Conns, Send(s, c) PROVE Outbox'
  <2>1. send' \in [Senders -> [at : {"idle", "full", "again"}, to : Conns]]
    BY <1>2, SendType DEF Send
  <2>2. CASE Full(c)
    BY <1>2, <2>1, <2>2 DEF Send, TypeOK, Outbox
  <2>3. CASE ~Full(c)
    <3>1. Enqueue(c) /\ taken' = taken
      BY <1>2, <2>3 DEF Send
    <3>2. QED
      BY <2>1, <2>3, <3>1, EnqueueFacts DEF TypeOK, Outbox
  <2>4. QED
    BY <2>2, <2>3
<1>3. ASSUME NEW s \in Senders, Drop(s) PROVE Outbox'
  <2>1. PICK c \in Conns : c = send[s].to
    BY DEF TypeOK
  <2>2. send' \in [Senders -> [at : {"idle", "full", "again"}, to : Conns]]
    BY <1>3, <2>1, SendType DEF Drop
  <2>3. newest' = newest /\ taken' = taken
    BY <1>3 DEF Drop
  <2>4. CASE queue[c] = <<>>
    <3>1. queue' = queue
      BY <1>3, <2>1, <2>4 DEF Drop, TypeOK
    <3>2. QED
      BY <2>2, <2>3, <3>1 DEF TypeOK, Outbox
  <2>5. CASE queue[c] # <<>>
    <3>1. queue' = [queue EXCEPT ![c] = Tail(queue[c])]
      BY <1>3, <2>1, <2>5 DEF Drop
    <3>2. QED
      BY <2>2, <2>3, <2>5, <3>1, BeheadFacts DEF TypeOK, Outbox
  <2>6. QED
    BY <2>4, <2>5
<1>4. ASSUME NEW s \in Senders, SendAgain(s) PROVE Outbox'
  <2>1. PICK c \in Conns : c = send[s].to
    BY DEF TypeOK
  <2>2. send' \in [Senders -> [at : {"idle", "full", "again"}, to : Conns]]
    BY <1>4, <2>1, SendType DEF SendAgain
  <2>3. CASE Full(c)
    BY <1>4, <2>1, <2>2, <2>3 DEF SendAgain, TypeOK, Outbox
  <2>4. CASE ~Full(c)
    <3>1. Enqueue(c) /\ taken' = taken
      BY <1>4, <2>1, <2>4 DEF SendAgain
    <3>2. QED
      BY <2>2, <2>4, <3>1, EnqueueFacts DEF TypeOK, Outbox
  <2>5. QED
    BY <2>3, <2>4
<1>5. ASSUME UNCHANGED <<queue, newest, taken, send>> PROVE Outbox'
  BY <1>5 DEF TypeOK, Outbox
<1>6. QED
  BY <1>1, <1>2, <1>3, <1>4, <1>5, QueueSteps

LEMMA TypeStep == TypeOK /\ [Next]_vars => TypeOK'
<1> SUFFICES ASSUME TypeOK, [Next]_vars PROVE TypeOK'
  OBVIOUS
<1>1. Places' /\ Clocks' /\ Closes' /\ Outbox'
  BY PlacesStep, ClocksStep, ClosesStep, OutboxStep
<1>2. QED
  BY <1>1 DEF TypeOK, Places, Clocks, Closes, Outbox

(* The variables keep their types; no queue outgrows its capacity, and the *)
(* table holds exactly the sessions whose Serve has not been wound up.     *)
THEOREM TypeCorrect == Spec => []TypeOK
<1>1. QED
  BY TypeInit, TypeStep, PTL DEF Spec

-----------------------------------------------------------------------------
(* Sends.                                                                  *)
LEMMA SendInit == Init => SendInv
<1> SUFFICES ASSUME Init PROVE SendInv
  OBVIOUS
<1>1. \A s \in Senders : send[s].at = "idle"
  BY DEF Init, NoSend
<1>2. QED
  BY <1>1 DEF Init, SendInv, Crowding, Made, EjectedOnlyIfCrowded

(* A Send that begins, or finds out that another one is under way.         *)
LEMMA SendBegins ==
  ASSUME TypeOK, SendInv, NEW s \in Senders, NEW c \in Conns, Send(s, c)
  PROVE  SendInv'
<1> USE ServerAssumption DEF ServerAssumption, outbox
<1>1. /\ send[s].at = "idle"
      /\ ejected' = ejected
      /\ crowded \subseteq crowded'
      /\ \A t \in Senders : send[t].at # "idle" /\ send[t].to = c
                             => c \in crowded'
  BY DEF Send
<1>2. \A t \in Senders \ {s} : send'[t] = send[t]
  BY DEF Send, Goto, TypeOK
<1>3. send'[s].at # "idle" => send'[s].to = c /\ send'[s].at = "full"
  <2>1. CASE Full(c)
    <3>1. send'[s] = [at |-> "full", to |-> c]
      BY <2>1 DEF Send, Goto, TypeOK
    <3>2. QED
      BY <3>1
  <2>2. CASE ~Full(c)
    BY <1>1, <2>2 DEF Send
  <2>3. QED
    BY <2>1, <2>2
<1>4. Crowding'
  <2>1. SUFFICES ASSUME NEW t \in Senders, NEW v \in Senders, t # v,
                        send'[t].at # "idle", send'[v].at # "idle",
                        send'[t].to = send'[v].to
                 PROVE  send'[t].to \in crowded'
    BY DEF Crowding
  <2>2. CASE t # s /\ v # s
    BY <1>1, <1>2, <2>1, <2>2 DEF SendInv, Crowding
  <2>3. CASE t = s
    BY <1>1, <1>2, <1>3, <2>1, <2>3
  <2>4. CASE v = s
    BY <1>1, <1>2, <1>3, <2>1, <2>4
  <2>5. QED
    BY <2>2, <2>3, <2>4
<1>5. Made'
  <2>1. SUFFICES ASSUME NEW t \in Senders, send'[t].at = "again",
                        send'[t].to \notin crowded'
                 PROVE  Len(queue'[send'[t].to]) < Cap
    BY DEF Made
  <2>2. t # s /\ send'[t] = send[t]
    BY <1>2, <1>3, <2>1
  <2>3. send[t].to # c /\ send[t].to \in Conns
    BY <1>1, <2>1, <2>2 DEF TypeOK
  <2>4. queue'[send[t].to] = queue[send[t].to]
    <3>1. CASE Full(c)
      BY <3>1 DEF Send
    <3>2. CASE ~Full(c)
      BY <2>3, <3>2, EnqueueFacts DEF Send
    <3>3. QED
      BY <3>1, <3>2
  <2>5. QED
    BY <1>1, <2>1, <2>2, <2>4 DEF SendInv, Made
<1>6. QED
  BY <1>1, <1>4, <1>5 DEF SendInv, EjectedOnlyIfCrowded

(* Dropping a frame makes a place; a second Send to the same session would *)
(* have crowded it.                                                        *)
LEMMA SendDrops ==
  ASSUME TypeOK, SendInv, NEW s \in Senders, Drop(s)
  PROVE  SendInv'
<1> USE ServerAssumption DEF ServerAssumption, history
<1>1. PICK c \in Conns : c = send[s].to
  BY DEF TypeOK
<1>2. /\ send[s].at = "full" /\ crowded' = crowded /\ ejected' = ejected
      /\ \A t \in Senders \ {s} : send'[t] = send[t]
  BY DEF Drop, Goto, TypeOK
<1>3. send'[s].at = "again" /\ send'[s].to = c
  <2>1. send'[s] = [at |-> "again", to |-> c]
    BY <1>1 DEF Drop, Goto, TypeOK
  <2>2. QED
    BY <2>1
<1>4. /\ Len(queue'[c]) < Cap
      /\ \A d \in Conns \ {c} : queue'[d] = queue[d]
  <2>1. CASE queue[c] = <<>>
    <3>1. queue' = queue
      BY <1>1, <2>1 DEF Drop, TypeOK
    <3>2. QED
      BY <2>1, <3>1, EmptySeq
  <2>2. CASE queue[c] # <<>>
    <3>1. queue' = [queue EXCEPT ![c] = Tail(queue[c])]
      BY <1>1, <2>2 DEF Drop
    <3>2. QED
      BY <2>2, <3>1, BeheadFacts
  <2>3. QED
    BY <2>1, <2>2
<1>5. Crowding'
  <2>1. \A t \in Senders : /\ send'[t].at # "idle" <=> send[t].at # "idle"
                           /\ send'[t].to = send[t].to
    BY <1>1, <1>2, <1>3
  <2>2. QED
    BY <1>2, <2>1 DEF SendInv, Crowding
<1>6. Made'
  <2>1. SUFFICES ASSUME NEW t \in Senders, send'[t].at = "again",
                        send'[t].to \notin crowded'
                 PROVE  Len(queue'[send'[t].to]) < Cap
    BY DEF Made
  <2>2. CASE t = s
    BY <1>3, <1>4, <2>2
  <2>3. CASE t # s
    <3>1. send'[t] = send[t] /\ send[t].to # c /\ send[t].to \in Conns
      BY <1>1, <1>2, <2>1, <2>3 DEF SendInv, Crowding, TypeOK
    <3>2. QED
      BY <1>2, <1>4, <2>1, <3>1 DEF SendInv, Made
  <2>4. QED
    BY <2>2, <2>3
<1>7. QED
  BY <1>2, <1>5, <1>6 DEF SendInv, EjectedOnlyIfCrowded

(* The second attempt: it finds its place, or the session was crowded.     *)
LEMMA SendEnds ==
  ASSUME TypeOK, SendInv, NEW s \in Senders, SendAgain(s)
  PROVE  SendInv'
<1> USE ServerAssumption DEF ServerAssumption
<1>1. PICK c \in Conns : c = send[s].to
  BY DEF TypeOK
<1>2. /\ send[s].at = "again" /\ crowded' = crowded
      /\ \A t \in Senders \ {s} : send'[t] = send[t]
  BY DEF SendAgain, Done, TypeOK
<1>3. send'[s].at = "idle"
  BY DEF SendAgain, Done, TypeOK, NoSend
<1>4. \A d \in Conns \ {c} : queue'[d] = queue[d]
  BY <1>1, EnqueueFacts DEF SendAgain, outbox
<1>5. Crowding'
  BY <1>2, <1>3 DEF SendInv, Crowding
<1>6. Made'
  <2>1. SUFFICES ASSUME NEW t \in Senders, send'[t].at = "again",
                        send'[t].to \notin crowded'
                 PROVE  Len(queue'[send'[t].to]) < Cap
    BY DEF Made
  <2>2. t # s /\ send'[t] = send[t]
    BY <1>2, <1>3, <2>1
  <2>3. send[t].to # c /\ send[t].to \in Conns
    BY <1>1, <1>2, <2>1, <2>2 DEF SendInv, Crowding, TypeOK
  <2>4. QED
    BY <1>2, <1>4, <2>1, <2>2, <2>3 DEF SendInv, Made
<1>7. ejected' \subseteq crowded'
  <2>1. CASE Full(c)
    <3>1. c \in crowded
      BY <1>1, <1>2, <2>1 DEF SendInv, Made, Full
    <3>2. ejected' \subseteq ejected \cup {c}
      BY <1>1, <2>1 DEF SendAgain
    <3>3. QED
      BY <1>2, <3>1, <3>2 DEF SendInv, EjectedOnlyIfCrowded
  <2>2. CASE ~Full(c)
    BY <1>1, <1>2, <2>2 DEF SendAgain, SendInv, EjectedOnlyIfCrowded
  <2>3. QED
    BY <2>1, <2>2
<1>8. QED
  BY <1>5, <1>6, <1>7 DEF SendInv, EjectedOnlyIfCrowded

LEMMA SendStep == TypeOK /\ SendInv /\ [Next]_vars => SendInv'
<1> SUFFICES ASSUME TypeOK, SendInv, [Next]_vars PROVE SendInv'
  OBVIOUS
<1>1. ASSUME NEW c \in Conns, Take(c) PROVE SendInv'
  <2>1. /\ queue[c] # <<>> /\ queue' = [queue EXCEPT ![c] = Tail(queue[c])]
        /\ send' = send /\ crowded' = crowded /\ ejected' = ejected
    BY <1>1 DEF Take, history
  <2>2. /\ Len(queue'[c]) < Cap
        /\ \A d \in Conns \ {c} : queue'[d] = queue[d]
    BY <2>1, BeheadFacts
  <2>3. Made'
    BY <2>1, <2>2 DEF SendInv, Made, TypeOK
  <2>4. QED
    BY <2>1, <2>3 DEF SendInv, Crowding, EjectedOnlyIfCrowded
<1>2. ASSUME UNCHANGED <<queue, newest, taken, send, crowded, ejected>>
      PROVE  SendInv'
  BY <1>2 DEF SendInv, Crowding, Made, EjectedOnlyIfCrowded
<1>3. QED
  BY <1>1, <1>2, QueueSteps, SendBegins, SendDrops, SendEnds

(* The newest frame.                                                       *)
LEMMA FreshStep == TypeOK /\ Fresh /\ [Next]_vars => Fresh'
<1> SUFFICES ASSUME TypeOK, Fresh, [Next]_vars PROVE Fresh'
  OBVIOUS
<1> USE DEF outbox
<1>1. ASSUME NEW c \in Conns, Take(c) PROVE Fresh'
  <2>1. /\ queue[c] # <<>> /\ queue' = [queue EXCEPT ![c] = Tail(queue[c])]
        /\ newest' = newest /\ send' = send
        /\ taken'[c] = Head(queue[c])
        /\ \A d \in Conns \ {c} : taken'[d] = taken[d]
    BY <1>1 DEF Take, TypeOK
  <2>2. /\ \A d \in Conns \ {c} : queue'[d] = queue[d]
        /\ queue'[c] # <<>> =>
             queue'[c][Len(queue'[c])] = queue[c][Len(queue[c])]
        /\ queue'[c] = <<>> => queue[c][Len(queue[c])] = Head(queue[c])
    BY <2>1, BeheadFacts
  <2>3. queue[c][Len(queue[c])] = newest[c]
    BY <2>1 DEF Fresh
  <2>4. QED
    BY <2>1, <2>2, <2>3 DEF Fresh, Waiting
<1>2. ASSUME NEW s \in Senders, NEW c \in Conns, Send(s, c) PROVE Fresh'
  <2>1. taken' = taken
    BY <1>2 DEF Send
  <2>2. \A d \in Conns : Waiting(d) => Waiting(d)'
    <3>1. \A t \in Senders \ {s} : send'[t] = send[t]
      BY <1>2 DEF Send, Goto, TypeOK
    <3>2. \A d \in Conns : send[s] # [at |-> "again", to |-> d]
      BY <1>2 DEF Send
    <3>3. QED
      BY <3>1, <3>2 DEF Waiting
  <2>3. CASE Full(c)
    BY <1>2, <2>1, <2>2, <2>3 DEF Send, Fresh
  <2>4. CASE ~Full(c)
    <3>1. Enqueue(c)
      BY <1>2, <2>4 DEF Send
    <3>2. /\ queue'[c] # <<>> /\ queue'[c][Len(queue'[c])] = newest'[c]
          /\ \A d \in Conns \ {c} :
               queue'[d] = queue[d] /\ newest'[d] = newest[d]
      BY <2>4, <3>1, EnqueueFacts
    <3>3. QED
      BY <2>1, <2>2, <3>2 DEF Fresh
  <2>5. QED
    BY <2>3, <2>4
<1>3. ASSUME NEW s \in Senders, Drop(s) PROVE Fresh'
  <2>1. PICK c \in Conns : c = send[s].to
    BY DEF TypeOK
  <2>2. newest' = newest /\ taken' = taken
    BY <1>3 DEF Drop
  <2>3. send' = [send EXCEPT ![s] = [at |-> "again", to |-> c]]
    BY <1>3, <2>1 DEF Drop, Goto
  <2>4. Waiting(c)'
    BY <2>3 DEF Waiting, TypeOK
  <2>5. \A d \in Conns \ {c} : Waiting(d) => Waiting(d)'
    <3>1. \A t \in Senders \ {s} : send'[t] = send[t]
      BY <2>3 DEF TypeOK
    <3>2. \A d \in Conns \ {c} : send[s] # [at |-> "again", to |-> d]
      BY <2>1
    <3>3. QED
      BY <3>1, <3>2 DEF Waiting
  <2>6. /\ queue'[c] # <<>> => queue'[c][Len(queue'[c])] = newest[c]
        /\ \A d \in Conns \ {c} : queue'[d] = queue[d]
    <3>1. CASE queue[c] = <<>>
      <4>1. queue' = queue
        BY <1>3, <2>1, <3>1 DEF Drop, TypeOK
      <4>2. QED
        BY <3>1, <4>1
    <3>2. CASE queue[c] # <<>>
      <4>1. queue' = [queue EXCEPT ![c] = Tail(queue[c])]
        BY <1>3, <2>1, <3>2 DEF Drop
      <4>2. QED
        BY <3>2, <4>1, BeheadFacts DEF Fresh
    <3>3. QED
      BY <3>1, <3>2
  <2>7. QED
    BY <2>2, <2>4, <2>5, <2>6 DEF Fresh
<1>4. ASSUME NEW s \in Senders, SendAgain(s) PROVE Fresh'
  <2>1. PICK c \in Conns : c = send[s].to
    BY DEF TypeOK
  <2>2. taken' = taken
    BY <1>4 DEF SendAgain
  <2>3. \A d \in Conns \ {c} : Waiting(d) => Waiting(d)'
    <3>1. \A t \in Senders \ {s} : send'[t] = send[t]
      BY <1>4 DEF SendAgain, Done, TypeOK
    <3>2. \A d \in Conns \ {c} : send[s] # [at |-> "again", to |-> d]
      BY <2>1
    <3>3. QED
      BY <3>1, <3>2 DEF Waiting
  <2>4. CASE Full(c)
    <3>1. queue' = queue /\ newest' = newest
      BY <1>4, <2>1, <2>4 DEF SendAgain
    <3>2. queue[c] # <<>>
      <4>1. Len(queue[c]) # 0
        BY <2>4, ServerAssumption DEF Full, ServerAssumption
      <4>2. QED
        BY <4>1, EmptySeq
    <3>3. QED
      BY <2>2, <2>3, <3>1, <3>2 DEF Fresh
  <2>5. CASE ~Full(c)
    <3>1. Enqueue(c)
      BY <1>4, <2>1, <2>5 DEF SendAgain
    <3>2. /\ queue'[c] # <<>> /\ queue'[c][Len(queue'[c])] = newest'[c]
          /\ \A d \in Conns \ {c} :
               queue'[d] = queue[d] /\ newest'[d] = newest[d]
      BY <2>5, <3>1, EnqueueFacts
    <3>3. QED
      BY <2>2, <2>3, <3>2 DEF Fresh
  <2>6. QED
    BY <2>4, <2>5
<1>5. ASSUME UNCHANGED <<queue, newest, taken, send, crowded, ejected>>
      PROVE  Fresh'
  BY <1>5 DEF Fresh, Waiting
<1>6. QED
  BY <1>1, <1>2, <1>3, <1>4, <1>5, QueueSteps

-----------------------------------------------------------------------------
(* Closing.                                                                *)
LEMMA ClosedGrows == [Next]_vars => closed \subseteq closed'
<1> SUFFICES ASSUME [Next]_vars PROVE closed \subseteq closed'
  OBVIOUS
<1>1. ASSUME NEW c \in Conns, Reader(c) \/ Closer(c)
      PROVE  closed \subseteq closed'
  BY <1>1 DEF Reader, ReadFails, Unregister, Closer, FinishClose, CloseStale,
              CloseDropped, Closing
<1>2. ASSUME NEW c \in Conns,
             Accept(c) \/ Register(c) \/ PeerFalls(c) \/ Receive(c)
               \/ Writer(c) \/ Write(c)
      PROVE  closed \subseteq closed'
  BY <1>2 DEF Accept, Register, PeerFalls, Receive, Writer, Take, StopWriter,
              WriteFails, Write
<1>3. ASSUME NEW s \in Senders, Sender(s) \/ \E c \in Conns : Send(s, c)
      PROVE  closed \subseteq closed'
  BY <1>3 DEF Sender, Drop, SendAgain, Send, Closing
<1>4. ASSUME Tick \/ Scan \/ StopWatchdog \/ Shutdown \/ UNCHANGED vars
      PROVE  closed \subseteq closed'
  BY <1>4 DEF Tick, Scan, StopWatchdog, Shutdown, vars
<1>5. QED
  BY <1>1, <1>2, <1>3, <1>4 DEF Next

(* The steps that move a session, and those that Server.Close takes.       *)
LEMMA StageSteps ==
  ASSUME [Next]_vars
  PROVE  \/ \E c \in Conns : \/ Accept(c) \/ Register(c) \/ Receive(c)
                            \/ ReadFails(c) \/ Unregister(c)
         \/ Shutdown
         \/ \E c \in Conns : CloseDropped(c)
         \/ UNCHANGED <<stage, down, dropping, slipped>>
<1> USE DEF server
<1>1. ASSUME NEW c \in Conns, PeerFalls(c) \/ Writer(c) \/ Write(c)
      PROVE  UNCHANGED <<stage, down, dropping, slipped>>
  BY <1>1 DEF PeerFalls, Writer, Take, StopWriter, WriteFails, Write
<1>2. ASSUME NEW c \in Conns, FinishClose(c) \/ CloseStale(c)
      PROVE  UNCHANGED <<stage, down, dropping, slipped>>
  BY <1>2 DEF FinishClose, CloseStale
<1>3. ASSUME NEW s \in Senders, Sender(s) \/ \E c \in Conns : Send(s, c)
      PROVE  UNCHANGED <<stage, down, dropping, slipped>>
  BY <1>3 DEF Sender, Drop, SendAgain, Send
<1>4. ASSUME Tick \/ Scan \/ StopWatchdog \/ UNCHANGED vars
      PROVE  UNCHANGED <<stage, down, dropping, slipped>>
  BY <1>4 DEF Tick, Scan, StopWatchdog, vars
<1>5. QED
  BY <1>1, <1>2, <1>3, <1>4 DEF Next, Reader, Closer

(* How far a session has come only grows.                                  *)
LEMMA StageOrder ==
  ASSUME TypeOK, NEW c \in Conns,
         Accept(c) \/ Register(c) \/ Receive(c) \/ ReadFails(c)
           \/ Unregister(c)
  PROVE  /\ \A d \in Conns \ {c} : stage'[d] = stage[d]
         /\ stage'[c] # "away"
         /\ stage'[c] \in {"leaving", "over"} =>
              c \in closed' \/ stage[c] \in {"leaving", "over"}
         /\ UNCHANGED <<down, dropping, slipped>>
         /\ stage[c] = "away" => ~down
<1> USE DEF TypeOK, server
<1>1. CASE Accept(c)
  BY <1>1 DEF Accept
<1>2. CASE Register(c)
  BY <1>2 DEF Register
<1>3. CASE Receive(c)
  <2>1. stage[c] = "serving" /\ UNCHANGED <<down, dropping, slipped>>
    BY <1>3 DEF Receive
  <2>2. CASE stage' = stage
    BY <2>1, <2>2
  <2>3. CASE stage' = [stage EXCEPT ![c] = "stuck"]
    BY <2>1, <2>3
  <2>4. QED
    BY <1>3, <2>2, <2>3 DEF Receive
<1>4. CASE ReadFails(c)
  BY <1>4 DEF ReadFails, Closing
<1>5. CASE Unregister(c)
  BY <1>5 DEF Unregister
<1>6. QED
  BY <1>1, <1>2, <1>3, <1>4, <1>5

LEMMA LeftStep == TypeOK /\ Left /\ [Next]_vars => Left'
<1> SUFFICES ASSUME TypeOK, Left, [Next]_vars PROVE Left'
  OBVIOUS
<1>1. closed \subseteq closed'
  BY ClosedGrows
<1>2. ASSUME NEW c \in Conns,
             Accept(c) \/ Register(c) \/ Receive(c) \/ ReadFails(c)
               \/ Unregister(c)
      PROVE  Left'
  BY <1>1, <1>2, StageOrder DEF Left
<1>3. ASSUME stage' = stage PROVE Left'
  BY <1>1, <1>3 DEF Left
<1>4. ASSUME NEW c \in Conns, Shutdown \/ CloseDropped(c)
      PROVE  stage' = stage
  BY <1>4 DEF Shutdown, CloseDropped
<1>5. QED
  BY <1>2, <1>3, <1>4, StageSteps, ServerAssumption DEF ServerAssumption

LEMMA DroppedStep == TypeOK /\ Left /\ Dropped /\ [Next]_vars => Dropped'
<1> SUFFICES ASSUME TypeOK, Left, Dropped, [Next]_vars PROVE Dropped'
  OBVIOUS
<1>1. closed \subseteq closed'
  BY ClosedGrows
<1>2. ASSUME NEW c \in Conns,
             Accept(c) \/ Register(c) \/ Receive(c) \/ ReadFails(c)
               \/ Unregister(c)
      PROVE  Dropped'
  <2>1. CASE down'
    <3>1. /\ \A d \in Conns : stage'[d] # "away" => stage[d] # "away"
          /\ UNCHANGED <<down, dropping, slipped>>
      BY <1>2, <2>1, StageOrder
    <3>2. QED
      BY <1>1, <2>1, <3>1 DEF Dropped
  <2>2. QED
    BY <2>1 DEF Dropped
<1>3. CASE Shutdown
  <2>1. /\ stage' = stage /\ dropping' = table
        /\ slipped' = {c \in Conns : stage[c] = "new"}
    BY <1>3 DEF Shutdown
  <2>2. ASSUME NEW c \in Conns, stage[c] # "away"
        PROVE  c \in closed' \cup slipped' \cup dropping'
    <3>1. CASE stage[c] = "new"
      BY <2>1, <3>1
    <3>2. CASE stage[c] \in {"serving", "stuck", "leaving"}
      BY <2>1, <3>2 DEF TypeOK
    <3>3. CASE stage[c] = "over"
      BY <1>1, <3>3 DEF Left
    <3>4. QED
      BY <2>2, <3>1, <3>2, <3>3 DEF TypeOK
  <2>3. QED
    BY <2>1, <2>2 DEF Dropped
<1>4. ASSUME NEW c \in Conns, CloseDropped(c) PROVE Dropped'
  <2>1. /\ stage' = stage /\ down' = down /\ slipped' = slipped
        /\ dropping' = dropping \/ (dropping' = dropping \ {c} /\ c \in shut)
    BY <1>4 DEF CloseDropped
  <2>2. shut \subseteq closed
    BY DEF TypeOK
  <2>3. QED
    BY <1>1, <2>1, <2>2 DEF Dropped
<1>5. ASSUME UNCHANGED <<stage, down, dropping, slipped>> PROVE Dropped'
  BY <1>1, <1>5 DEF Dropped
<1>6. QED
  BY <1>2, <1>3, <1>4, <1>5, StageSteps

-----------------------------------------------------------------------------
(* The inductive invariant holds of every state of the specification.      *)
THEOREM ServerInvariant == Spec => []ServerInv
<1>1. Init => ServerInv
  <2> SUFFICES ASSUME Init PROVE ServerInv
    OBVIOUS
  <2>1. TypeOK /\ SendInv
    BY TypeInit, SendInit
  <2>2. Fresh /\ Left /\ Dropped
    BY DEF Init, Fresh, Left, Dropped
  <2>3. QED
    BY <2>1, <2>2 DEF ServerInv
<1>2. ServerInv /\ [Next]_vars => ServerInv'
  BY TypeStep, SendStep, FreshStep, LeftStep, DroppedStep DEF ServerInv
<1>3. QED
  BY <1>1, <1>2, PTL DEF Spec

(* A full queue loses old frames only: the newest one is in it, or with    *)
(* the writer, or in the hands of a Send that has made a place for it.     *)
THEOREM NewestFrameKept == Spec => []NewestKept
<1>1. ServerInv => NewestKept
  BY DEF ServerInv, Fresh, Waiting, NewestKept
<1>2. QED
  BY <1>1, ServerInvariant, PTL

(* A Send closes a session only if another one came between its attempts.  *)
THEOREM LoneSenderNeverEjects == Spec => []EjectedOnlyIfCrowded
<1>1. ServerInv => EjectedOnlyIfCrowded
  BY DEF ServerInv, SendInv
<1>2. QED
  BY <1>1, ServerInvariant, PTL

(* Server.Close leaves no session open but those that its snapshot missed. *)
THEOREM ShutdownComplete == Spec => []ShutdownClosesAll
<1>1. ServerInv => ShutdownClosesAll
  BY DEF ServerInv, Dropped, ShutdownClosesAll
<1>2. QED
  BY <1>1, ServerInvariant, PTL
=============================================================================
