------------------------------- MODULE Server -------------------------------
(***************************************************************************)
(* The life of connections: gateway/server.go (accept loop, watchdog,      *)
(* Close) and the goroutines of a session in gateway/session.go: the       *)
(* reader (Serve), the writer (writeLoop), and Send, which any goroutine   *)
(* may call: handlers of other sessions, loops of rooms.                   *)
(*                                                                         *)
(* A connection is a value of Conns; what its frames say is left out.      *)
(* OnDisconnect, which Close calls, is in Hub; here it only takes time.    *)
(***************************************************************************)
EXTENDS Naturals, Sequences

CONSTANTS Conns,       (* connections                                        *)
          Senders,     (* goroutines that call Send                          *)
          Cap,         (* capacity of Session.writeCh                        *)
          IdleLimit,   (* Server.idleTimeout, in ticks of the clock          *)
          MaxFrames    (* bound: frames enqueued per session                 *)

ASSUME ServerAssumption ==
  /\ Conns # {}
  /\ Cap \in Nat \ {0}
  /\ IdleLimit \in Nat
  /\ MaxFrames \in Nat

VARIABLES
  stage,      (* "away", "new" (NewSession), "serving", "stuck" (its handler *)
              (* will not return), "leaving" (Serve has ended), "over"       *)
  table,      (* Server.sessions                                             *)
  peer,       (* "up", "silent" (nothing comes through), "gone" (reset)      *)
  idle,       (* ticks since lastActive                                      *)
  closed,     (* Session.closed and closedCh                                 *)
  shut,       (* sessions whose Close has come to its end, conn.Close        *)
  queue,      (* writeCh: frames, numbered as they are enqueued              *)
  writer,     (* writeLoop: "idle", "writing" or "gone"                      *)
  newest,     (* number of the frame of the last Send, but for one that      *)
              (* closed the session                                          *)
  taken,      (* number of the last frame the writer has taken               *)
  send,       (* where each Send stands, and the session it sends to         *)
  stale,      (* the watchdog's list of sessions to close                    *)
  watchdog,   (* is it running                                               *)
  down,       (* Server.closed, the listener closed with it                  *)
  dropping,   (* the snapshot that Server.Close is closing                   *)
  crowded,    (* history: a Send came while another was at the full queue    *)
  ejected,    (* history: sessions closed by a Send                          *)
  slipped     (* history: accepted, but not in the table at Server.Close     *)

outbox == <<queue, newest, taken>>
server == <<stale, watchdog, down, dropping, slipped>>
history == <<crowded, ejected>>
vars == <<stage, table, peer, idle, closed, shut, outbox, writer, send, server,
          history>>

NoSend == [at |-> "idle", to |-> CHOOSE c \in Conns : TRUE]

Init ==
  /\ stage = [c \in Conns |-> "away"]
  /\ table = {}
  /\ peer = [c \in Conns |-> "up"]
  /\ idle = [c \in Conns |-> 0]
  /\ closed = {} /\ shut = {}
  /\ queue = [c \in Conns |-> <<>>]
  /\ writer = [c \in Conns |-> "gone"]
  /\ newest = [c \in Conns |-> 0]
  /\ taken = [c \in Conns |-> 0]
  /\ send = [s \in Senders |-> NoSend]
  /\ stale = {} /\ watchdog = TRUE
  /\ down = FALSE /\ dropping = {}
  /\ crowded = {} /\ ejected = {} /\ slipped = {}

-----------------------------------------------------------------------------
(* Accepting.                                                              *)

(* Accept, AllocUID and NewSession, which starts the writer: one loop.     *)
Accept(c) ==
  /\ stage[c] = "away" /\ ~down /\ \A d \in Conns : stage[d] # "new"
  /\ stage' = [stage EXCEPT ![c] = "new"]
  /\ writer' = [writer EXCEPT ![c] = "idle"]
  /\ idle' = [idle EXCEPT ![c] = 0]
  /\ UNCHANGED <<table, peer, closed, shut, outbox, send, server, history>>

(* Into the table, and the goroutine of Serve; nobody looks at s.closed.   *)
Register(c) ==
  /\ stage[c] = "new"
  /\ stage' = [stage EXCEPT ![c] = "serving"]
  /\ table' = table \cup {c}
  /\ UNCHANGED <<peer, idle, closed, shut, outbox, writer, send, server,
                 history>>

-----------------------------------------------------------------------------
(* The other side, and time.                                               *)

PeerFalls(c) ==
  /\ stage[c] # "away"
  /\ \/ peer[c] = "up" /\ peer' = [peer EXCEPT ![c] = "silent"]
     \/ peer[c] # "gone" /\ peer' = [peer EXCEPT ![c] = "gone"]
  /\ UNCHANGED <<stage, table, idle, closed, shut, outbox, writer, send,
                 server, history>>

Tick ==
  /\ idle' = [c \in Conns |->
                IF c \in table /\ idle[c] <= IdleLimit THEN idle[c] + 1
                                                       ELSE idle[c]]
  /\ UNCHANGED <<stage, table, peer, closed, shut, outbox, writer, send,
                 server, history>>

-----------------------------------------------------------------------------
(* Close, from any goroutine: once, and over when the connection is closed.*)

Closing(c) == closed' = closed \cup {c}

FinishClose(c) ==
  /\ c \in closed \ shut
  /\ shut' = shut \cup {c}
  /\ UNCHANGED <<stage, table, peer, idle, closed, outbox, writer, send,
                 server, history>>

-----------------------------------------------------------------------------
(* The reader.                                                             *)

(* A frame arrives: touch, then its handler, which may never come back (a  *)
(* call into a room that has stopped).                                     *)
Receive(c) ==
  /\ stage[c] = "serving" /\ peer[c] = "up" /\ c \notin shut
  /\ idle' = [idle EXCEPT ![c] = 0]
  /\ stage' \in {stage, [stage EXCEPT ![c] = "stuck"]}
  /\ UNCHANGED <<table, peer, closed, shut, outbox, writer, send, server,
                 history>>

(* Next returns an error, because the connection is gone or closed, or     *)
(* because a peer that is up has sent no frame (a bad magic, too long a    *)
(* body): Serve ends and closes the session.                               *)
ReadFails(c) ==
  /\ stage[c] = "serving"
  /\ peer[c] # "silent" \/ c \in shut
  /\ stage' = [stage EXCEPT ![c] = "leaving"]
  /\ Closing(c)
  /\ UNCHANGED <<table, peer, idle, shut, outbox, writer, send, server,
                 history>>

(* Mutant: the session stays in the table.                                 *)
UnregisterNever(c) ==
  /\ stage[c] = "leaving" /\ c \in shut
  /\ stage' = [stage EXCEPT ![c] = "over"]
  /\ UNCHANGED <<table, peer, idle, closed, shut, outbox, writer, send, server,
                 history>>

(* When Close is over, the goroutine takes the session off the table.      *)
Unregister(c) ==
  /\ stage[c] = "leaving" /\ c \in shut
  /\ stage' = [stage EXCEPT ![c] = "over"]
  /\ table' = table \ {c}
  /\ UNCHANGED <<peer, idle, closed, shut, outbox, writer, send, server,
                 history>>

-----------------------------------------------------------------------------
(* The writer.                                                             *)

Take(c) ==
  /\ writer[c] = "idle" /\ queue[c] # <<>>
  /\ writer' = [writer EXCEPT ![c] = "writing"]
  /\ taken' = [taken EXCEPT ![c] = Head(queue[c])]
  /\ queue' = [queue EXCEPT ![c] = Tail(@)]
  /\ UNCHANGED <<stage, table, peer, idle, closed, shut, newest, send, server,
                 history>>

(* Mutant: the writer that is told to stop looks at the queue only.        *)
StopWriterNever(c) ==
  /\ writer[c] = "idle" /\ c \in closed /\ queue[c] # <<>>
  /\ writer' = [writer EXCEPT ![c] = "gone"]
  /\ UNCHANGED <<stage, table, peer, idle, closed, shut, outbox, send, server,
                 history>>

StopWriter(c) ==
  /\ writer[c] = "idle" /\ c \in closed
  /\ writer' = [writer EXCEPT ![c] = "gone"]
  /\ UNCHANGED <<stage, table, peer, idle, closed, shut, outbox, send, server,
                 history>>

(* A write to a silent peer may block for ever.                            *)
Write(c) ==
  /\ writer[c] = "writing" /\ peer[c] # "gone" /\ c \notin shut
  /\ writer' = [writer EXCEPT ![c] = "idle"]
  /\ UNCHANGED <<stage, table, peer, idle, closed, shut, outbox, send, server,
                 history>>

(* A write error ends the writer and nothing else.                         *)
WriteFails(c) ==
  /\ writer[c] = "writing" /\ (peer[c] = "gone" \/ c \in shut)
  /\ writer' = [writer EXCEPT ![c] = "gone"]
  /\ UNCHANGED <<stage, table, peer, idle, closed, shut, outbox, send, server,
                 history>>

-----------------------------------------------------------------------------
(* Send: into the queue; if it is full, drop the oldest frame and try once *)
(* more; if it is full again, close the session.                           *)

Full(c) == Len(queue[c]) = Cap

Sent(c) == newest' = [newest EXCEPT ![c] = @ + 1]

Enqueue(c) ==
  /\ queue' = [queue EXCEPT ![c] = Append(@, newest[c] + 1)]
  /\ Sent(c)

Goto(s, label, c) == send' = [send EXCEPT ![s] = [at |-> label, to |-> c]]

Done(s) == send' = [send EXCEPT ![s] = NoSend]

Send(s, c) ==
  /\ send[s].at = "idle"
  /\ stage[c] \notin {"away", "new"} /\ c \notin closed
  /\ newest[c] < MaxFrames
  /\ IF Full(c) THEN Goto(s, "full", c) /\ UNCHANGED outbox
                ELSE Enqueue(c) /\ UNCHANGED <<taken, send>>
  /\ crowded' = IF \E t \in Senders : send[t].at # "idle" /\ send[t].to = c
                THEN crowded \cup {c} ELSE crowded
  /\ UNCHANGED <<stage, table, peer, idle, closed, shut, writer, server,
                 ejected>>

(* Mutant: the frame that finds the queue full is dropped.                 *)
DropNewest(s) ==
  /\ send[s].at = "full"
  /\ Sent(send[s].to) /\ Done(s)
  /\ UNCHANGED <<stage, table, peer, idle, closed, shut, queue, taken, writer,
                 server, history>>

(* Mutant: nothing is dropped before the second attempt.                   *)
DropNothing(s) ==
  LET c == send[s].to
  IN /\ send[s].at = "full"
     /\ Goto(s, "again", c)
     /\ UNCHANGED <<stage, table, peer, idle, closed, shut, outbox, writer,
                    server, history>>

Drop(s) ==
  LET c == send[s].to
  IN /\ send[s].at = "full"
     /\ queue' = [queue EXCEPT ![c] = IF @ = <<>> THEN @ ELSE Tail(@)]
     /\ Goto(s, "again", c)
     /\ UNCHANGED <<stage, table, peer, idle, closed, shut, newest, taken,
                    writer, server, history>>

SendAgain(s) ==
  LET c == send[s].to
  IN /\ send[s].at = "again"
     /\ Done(s)
     /\ IF Full(c)
        THEN /\ Closing(c)
             /\ ejected' = IF c \in closed THEN ejected ELSE ejected \cup {c}
             /\ UNCHANGED outbox
        ELSE Enqueue(c) /\ UNCHANGED <<taken, closed, ejected>>
     /\ UNCHANGED <<stage, table, peer, idle, shut, writer, server, crowded>>

-----------------------------------------------------------------------------
(* The watchdog: a list under the lock, closed one by one after it.        *)

(* Mutant: sessions whose handler is at work are passed over.              *)
ScanServing ==
  /\ watchdog /\ stale = {}
  /\ stale' = {c \in table : idle[c] > IdleLimit /\ stage[c] = "serving"}
  /\ UNCHANGED <<stage, table, peer, idle, closed, shut, outbox, writer, send,
                 watchdog, down, dropping, slipped, history>>

Scan ==
  /\ watchdog /\ stale = {}
  /\ stale' = {c \in table : idle[c] > IdleLimit}
  /\ UNCHANGED <<stage, table, peer, idle, closed, shut, outbox, writer, send,
                 watchdog, down, dropping, slipped, history>>

(* Close returns when the connection is closed, whoever closes it.         *)
CloseStale(c) ==
  /\ c \in stale /\ \A d \in stale : d \in closed => d \in shut
  /\ IF c \in shut THEN stale' = stale \ {c} /\ UNCHANGED closed
                   ELSE Closing(c) /\ UNCHANGED stale
  /\ UNCHANGED <<stage, table, peer, idle, shut, outbox, writer, send,
                 watchdog, down, dropping, slipped, history>>

StopWatchdog ==
  /\ watchdog /\ down /\ stale = {}
  /\ watchdog' = FALSE
  /\ UNCHANGED <<stage, table, peer, idle, closed, shut, outbox, writer, send,
                 stale, down, dropping, slipped, history>>

-----------------------------------------------------------------------------
(* Server.Close.                                                           *)

Shutdown ==
  /\ ~down
  /\ down' = TRUE
  /\ dropping' = table
  /\ slipped' = {c \in Conns : stage[c] = "new"}
  /\ UNCHANGED <<stage, table, peer, idle, closed, shut, outbox, writer, send,
                 stale, watchdog, history>>

(* Mutant: a session that the watchdog is about to close is left to it.    *)
CloseDroppedLazily(c) ==
  /\ c \in dropping /\ \A d \in dropping : d \in closed => d \in shut
  /\ IF c \in shut \cup stale
     THEN dropping' = dropping \ {c} /\ UNCHANGED closed
     ELSE Closing(c) /\ UNCHANGED dropping
  /\ UNCHANGED <<stage, table, peer, idle, shut, outbox, writer, send, stale,
                 watchdog, down, slipped, history>>

CloseDropped(c) ==
  /\ c \in dropping /\ \A d \in dropping : d \in closed => d \in shut
  /\ IF c \in shut THEN dropping' = dropping \ {c} /\ UNCHANGED closed
                   ELSE Closing(c) /\ UNCHANGED dropping
  /\ UNCHANGED <<stage, table, peer, idle, shut, outbox, writer, send, stale,
                 watchdog, down, slipped, history>>

-----------------------------------------------------------------------------
Reader(c) == ReadFails(c) \/ Unregister(c)
Writer(c) == Take(c) \/ StopWriter(c) \/ WriteFails(c)
Sender(s) == Drop(s) \/ SendAgain(s)
Closer(c) == FinishClose(c) \/ CloseStale(c) \/ CloseDropped(c)

Next ==
  \/ \E c \in Conns :
       \/ Accept(c) \/ Register(c) \/ PeerFalls(c) \/ Receive(c)
       \/ Reader(c) \/ Writer(c) \/ Write(c) \/ Closer(c)
  \/ \E s \in Senders : Sender(s) \/ \E c \in Conns : Send(s, c)
  \/ Tick \/ Scan \/ StopWatchdog \/ Shutdown

(* Goroutines that can go on do, and time passes.  Nothing makes a silent  *)
(* peer take a write, send a frame or reset the connection, nor any peer   *)
(* send what is no frame, nor a frame be sent, nor the server be closed.   *)
Fairness ==
  /\ \A c \in Conns :
       /\ WF_vars(Register(c)) /\ WF_vars(Writer(c))
       /\ WF_vars((peer[c] = "gone" \/ c \in shut) /\ Reader(c))
       /\ WF_vars(peer[c] = "up" /\ Write(c))
       /\ WF_vars(FinishClose(c)) /\ WF_vars(CloseStale(c))
       /\ WF_vars(CloseDropped(c))
  /\ \A s \in Senders : WF_vars(Sender(s))
  /\ WF_vars(Tick) /\ WF_vars(Scan) /\ WF_vars(StopWatchdog)

Spec == Init /\ [][Next]_vars /\ Fairness

-----------------------------------------------------------------------------
(* Properties.                                                             *)

(* Every variable stays in its range.  No queue outgrows its channel, the  *)
(* table holds the sessions whose goroutine has not ended and no other,    *)
(* and what is closed to the end was closed.                               *)
TypeOK ==
  /\ stage \in [Conns -> {"away", "new", "serving", "stuck", "leaving",
                          "over"}]
  /\ table = {c \in Conns : stage[c] \in {"serving", "stuck", "leaving"}}
  /\ peer \in [Conns -> {"up", "silent", "gone"}]
  /\ idle \in [Conns -> 0..(IdleLimit + 1)]
  /\ shut \subseteq closed /\ closed \subseteq Conns
  /\ queue \in [Conns -> Seq(Nat)]
  /\ \A c \in Conns : Len(queue[c]) <= Cap
  /\ writer \in [Conns -> {"idle", "writing", "gone"}]
  /\ newest \in [Conns -> Nat] /\ taken \in [Conns -> Nat]
  /\ send \in [Senders -> [at : {"idle", "full", "again"}, to : Conns]]
  /\ stale \subseteq Conns /\ dropping \subseteq Conns
  /\ watchdog \in BOOLEAN /\ down \in BOOLEAN

(* What is dropped is old: between two Sends the newest frame is in the    *)
(* queue, at its end, or the writer has it.  Only while a Send that found  *)
(* the queue full has not put its own frame in may it be missing.          *)
NewestKept ==
  \A c \in Conns :
    (\A s \in Senders : send[s] # [at |-> "again", to |-> c]) =>
      newest[c] = IF queue[c] = <<>> THEN taken[c]
                  ELSE queue[c][Len(queue[c])]

(* One sender alone never closes a session, however slow the other side    *)
(* is: it takes a second one that fills the place the first has made.  So  *)
(* a dead peer does not get its session closed by Send, and a live one may.*)
EjectedOnlyIfCrowded == ejected \subseteq crowded

(* When Server.Close has returned, every session is closed, but for those  *)
(* that were between NewSession and the table when it took its snapshot.   *)
ShutdownClosesAll ==
  down /\ dropping = {} =>
    \A c \in Conns : stage[c] # "away" => c \in closed \cup slipped

(* A session whose peer has fallen silent or is gone is closed in the end, *)
(* whatever its handler, its writer and its queue are doing: by its reader *)
(* or by the watchdog, or by Server.Close.  So is one that writeLoop has   *)
(* given up without closing it.                                            *)
DeadPeerClosed ==
  \A c \in Conns :
    (c \in table /\ (peer[c] # "up" \/ writer[c] = "gone"))
      ~> (c \in closed \cup slipped)

(* A closed session gives its goroutines back, but for a reader that sits  *)
(* in a handler that does not return.                                      *)
ClosedReleased ==
  \A c \in Conns :
    c \in closed ~> (writer[c] = "gone" /\ stage[c] \in {"stuck", "over"})
=============================================================================
