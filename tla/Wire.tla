-------------------------------- MODULE Wire --------------------------------
(***************************************************************************)
(* One direction of a connection: frames (protocol/frame.go) that carry    *)
(* message bodies, written to a TCP stream that arrives in pieces of any   *)
(* size and may end anywhere, and the reader that cuts it into frames      *)
(* again.  TCP loses, repeats and reorders nothing.                        *)
(***************************************************************************)
EXTENDS Bodies, FiniteSetsExt

CONSTANTS Magic,         (* first two bytes of every header, as a number     *)
          MaxBodySize,   (* bodies longer than that are refused by readers   *)
          Layout,        (* [message ids -> layouts]                         *)
          Messages,      (* messages that open a stream: [id, vals]          *)
          Followers,     (* messages that may come after another             *)
          Pieces,        (* sizes in which the stream arrives                *)
          MaxFrames      (* bound: frames in a stream                        *)

ASSUME WireAssumption ==
  /\ Magic \in 0..(Radix^2 - 1)
  /\ MaxBodySize \in Nat
  /\ \A m \in Messages \cup Followers : m.id \in DOMAIN Layout
  /\ Pieces \subseteq Nat \ {0} /\ Pieces # {}
  /\ MaxFrames \in Nat

HeaderSize == 12

VARIABLES
  sent,      (* the messages encoded and written, in order                   *)
  stream,    (* bytes on their way                                           *)
  inbox,     (* bytes that have arrived and are not read yet                 *)
  header,    (* FrameReader.header once it is read, <<>> between frames      *)
  frames,    (* the frames that Next has returned: [id, body]                *)
  reader,    (* "open", or "failed" once Next has returned an error          *)
  hungUp     (* the peer has closed its end                                  *)

vars == <<sent, stream, inbox, header, frames, reader, hungUp>>

Init ==
  /\ sent = <<>>
  /\ stream = <<>>
  /\ inbox = <<>>
  /\ header = <<>>
  /\ frames = <<>>
  /\ reader = "open"
  /\ hungUp = FALSE

Body(m) == Encode(Layout[m.id], m.vals)

(* Encode: magic, id, sequence number (0 but for heartbeats), length.      *)
EncodeFrame(id, body) ==
  BigEndian(Magic, 2) \o BigEndian(id, 2) \o BigEndian(0, 4)
    \o BigEndian(Len(body), 4) \o body

Send(m) ==
  /\ ~hungUp
  /\ Len(sent) < MaxFrames
  /\ sent' = Append(sent, m)
  /\ stream' = stream \o EncodeFrame(m.id, Body(m))
  /\ UNCHANGED <<inbox, header, frames, reader, hungUp>>

(* A piece of the stream arrives, or what is left of it.                   *)
Arrive(n) ==
  /\ stream # <<>>
  /\ LET k == Min({n, Len(stream)})
     IN /\ inbox' = inbox \o SubSeq(stream, 1, k)
        /\ stream' = SubSeq(stream, k + 1, Len(stream))
  /\ UNCHANGED <<sent, header, frames, reader, hungUp>>

(* The connection ends: what has not arrived yet is gone.                  *)
HangUp ==
  /\ ~hungUp
  /\ hungUp' = TRUE
  /\ stream' = <<>>
  /\ UNCHANGED <<sent, inbox, header, frames, reader>>

-----------------------------------------------------------------------------
(* FrameReader.Next: io.ReadFull of the header, then of the body.          *)

Id(h) == Number(SubSeq(h, 3, 4))
BodyLen(h) == Number(SubSeq(h, 9, 12))

Fail ==
  /\ reader' = "failed"
  /\ UNCHANGED <<header, frames>>

Return(id, body) ==
  /\ frames' = Append(frames, [id |-> id, body |-> body])
  /\ header' = <<>>
  /\ UNCHANGED reader

ReadHeader ==
  /\ reader = "open" /\ header = <<>>
  /\ Len(inbox) >= HeaderSize
  /\ LET h == SubSeq(inbox, 1, HeaderSize)
     IN IF Number(SubSeq(h, 1, 2)) # Magic \/ BodyLen(h) > MaxBodySize
        THEN Fail
        ELSE IF BodyLen(h) = 0 THEN Return(Id(h), <<>>)
        ELSE header' = h /\ UNCHANGED <<frames, reader>>
  /\ inbox' = SubSeq(inbox, HeaderSize + 1, Len(inbox))
  /\ UNCHANGED <<sent, stream, hungUp>>

(* Mutant: Read instead of ReadFull: the body is what has arrived of it.   *)
ReadBodyOnce ==
  /\ reader = "open" /\ header # <<>>
  /\ inbox # <<>>
  /\ LET k == Min({BodyLen(header), Len(inbox)})
     IN /\ Return(Id(header), SubSeq(inbox, 1, k))
        /\ inbox' = SubSeq(inbox, k + 1, Len(inbox))
  /\ UNCHANGED <<sent, stream, hungUp>>

(* Mutant: off by one, the body waits for a byte of the next frame.        *)
ReadBodyLate ==
  /\ reader = "open" /\ header # <<>>
  /\ Len(inbox) > BodyLen(header)
  /\ Return(Id(header), SubSeq(inbox, 1, BodyLen(header)))
  /\ inbox' = SubSeq(inbox, BodyLen(header) + 1, Len(inbox))
  /\ UNCHANGED <<sent, stream, hungUp>>

ReadBody ==
  /\ reader = "open" /\ header # <<>>
  /\ Len(inbox) >= BodyLen(header)
  /\ Return(Id(header), SubSeq(inbox, 1, BodyLen(header)))
  /\ inbox' = SubSeq(inbox, BodyLen(header) + 1, Len(inbox))
  /\ UNCHANGED <<sent, stream, hungUp>>

(* io.EOF or ErrUnexpectedEOF: the rest of a header or body never comes.   *)
ReadEnd ==
  /\ reader = "open" /\ hungUp
  /\ Len(inbox) < IF header = <<>> THEN HeaderSize ELSE BodyLen(header)
  /\ Fail
  /\ UNCHANGED <<sent, stream, inbox, hungUp>>

Read == ReadHeader \/ ReadBody \/ ReadEnd

Next ==
  \/ \E m \in IF sent = <<>> THEN Messages ELSE Followers : Send(m)
  \/ \E n \in Pieces : Arrive(n)
  \/ HangUp
  \/ Read

(* The network delivers what was written, the reader is a loop.            *)
Fairness == WF_vars(\E n \in Pieces : Arrive(n)) /\ WF_vars(Read)

Spec == Init /\ [][Next]_vars /\ Fairness

-----------------------------------------------------------------------------
(* Properties.                                                             *)

(* However the stream is cut into pieces, the frames that Next returns are *)
(* those that were encoded, whole, in order and from the first one on.     *)
FramesAsSent ==
  /\ Len(frames) <= Len(sent)
  /\ \A i \in 1..Len(frames) :
       frames[i] = [id |-> sent[i].id, body |-> Body(sent[i])]

(* What is left of a field or of a list: a number loses what is beyond its *)
(* width, a list is cut to its count modulo Radix.                         *)
FittedField(kind, v) ==
  IF kind \in {"str", "str8"} THEN v ELSE v % Radix^Width[kind]

FittedFields(layout, vals) ==
  [k \in 1..Len(layout) |-> FittedField(layout[k], vals[k])]

Fitted(kind, v) ==
  IF kind \in DOMAIN Entry
  THEN [i \in 1..(Len(v) % Radix) |-> FittedFields(Entry[kind], v[i])]
  ELSE FittedField(kind, v)

(* Strings whose length fits their prefix.                                 *)
LengthsFit(layout, vals) ==
  \A i \in 1..Len(layout) :
    /\ layout[i] = "str"  => Len(vals[i]) < Radix^2
    /\ layout[i] = "str8" => Len(vals[i]) < Radix

(* A body is decoded to the values that were encoded.  A list that is too  *)
(* long for its count loses entries, and loses them from its end: what is  *)
(* left is not shifted.  A JoinOK whose room name does not fit one byte of *)
(* length is the exception: the fields behind the name are read from it.   *)
ValuesAsSent ==
  \A i \in 1..Len(frames) :
    LET layout == Layout[sent[i].id]
        vals == sent[i].vals
    IN LengthsFit(layout, vals) =>
         /\ Decode(layout, frames[i].body).ok
         /\ Decode(layout, frames[i].body).val =
              [k \in 1..Len(layout) |-> Fitted(layout[k], vals[k])]

(* No list of the layout is too long for its count.                        *)
CountsFit(layout, vals) ==
  \A i \in 1..Len(layout) :
    layout[i] \in DOMAIN Entry => Len(vals[i]) < Radix

LastKind(layout) ==
  IF layout = <<>> THEN "none"
  ELSE IF Last(layout) \in DOMAIN Entry THEN Last(Entry[Last(layout)])
                                   ELSE Last(layout)

(* Where a list of friends is cut so that it ends just before the online   *)
(* byte of a friend that is not the last.                                  *)
FlagCuts(list) ==
  {Len(PutList(FriendInfo, SubSeq(list, 1, i))) - 1 : i \in 1..(Len(list) - 1)}

(* Part of a body is never taken for a body: a decoder refuses every one   *)
(* that has lost bytes at its end, or returns zeros only, or panics, but   *)
(* never returns some of the fields.  The exception is the online byte of  *)
(* the last friend, which may be missing.  It panics in one case only:     *)
(* DecodeFriendList goes on behind an online byte that is missing from a   *)
(* friend in the middle.                                                   *)
CutBodiesNotTaken ==
  \A i \in 1..Len(frames) :
    LET layout == Layout[sent[i].id]
        vals == sent[i].vals
        b == frames[i].body
    IN LengthsFit(layout, vals) /\ CountsFit(layout, vals) =>
         \A n \in 0..(Len(b) - 1) :
           LET d == Decode(layout, SubSeq(b, 1, n))
           IN /\ \/ ~d.ok
                 \/ /\ layout \in Unrefusing
                    /\ \A k \in 1..Len(d.val) : d.val[k] = 0
                 \/ LastKind(layout) = "flag" /\ n = Len(b) - 1
              /\ d.panics <=>
                   layout = FriendList /\ n \in FlagCuts(vals[1])

(* Everything that was sent is read in the end, unless the connection ends *)
(* or brings a body that is too large, on either of which the reader stops *)
(* for good.  So no cut of the stream makes it wait or give up too early.  *)
AllRead ==
  <>[](\/ Len(frames) = Len(sent)
       \/ /\ reader = "failed"
          /\ \/ hungUp
             \/ Len(Body(sent[Len(frames) + 1])) > MaxBodySize)
=============================================================================
