------------------------------- MODULE Bodies -------------------------------
(***************************************************************************)
(* Message bodies: protocol/lobby.go and protocol/battle.go.  A body is a  *)
(* sequence of fields without tags, big-endian; its layout is the sequence *)
(* of their kinds.  Every pair EncodeX, DecodeX of the source is Encode    *)
(* and Decode at the layout X; the decoder of the client side stands for   *)
(* itself where the source has only the encoder.                           *)
(*                                                                         *)
(* A byte has Radix values (256).  Numbers are natural numbers that stand  *)
(* for their bit patterns, strings are sequences of bytes.                 *)
(***************************************************************************)
EXTENDS Naturals, Sequences, SequencesExt

CONSTANT Radix    (* how many values a byte has *)

ASSUME BodiesAssumption == Radix \in Nat \ {0, 1}

-----------------------------------------------------------------------------
(* Fields.                                                                 *)

Width == [u8 |-> 1, i8 |-> 1, u16 |-> 2, u32 |-> 4, f32 |-> 4,
          bool |-> 1, flag |-> 1]

BigEndian(n, w) == [i \in 1..w |-> (n \div Radix^(w - i)) % Radix]

Number(bytes) == FoldLeft(LAMBDA acc, d : acc * Radix + d, 0, bytes)

(* A length that does not fit its prefix is cut to it, the bytes are not.  *)
PutStr(w, s) == BigEndian(Len(s), w) \o s

PutField(kind, v) ==
  CASE kind = "str"  -> PutStr(2, v)
    [] kind = "str8" -> PutStr(1, v)
    [] OTHER         -> BigEndian(v, Width[kind])

Got(ok, val, next) ==
  [ok |-> ok, panics |-> FALSE, val |-> val, next |-> next]

(* b[off:] with off beyond the end of b.                                   *)
Panic == [ok |-> FALSE, panics |-> TRUE, val |-> <<>>, next |-> 0]

(* Mutant: the offset returned leaves the prefix out.                      *)
GetStrShort(w, b, off) ==
  LET n == Number(SubSeq(b, off + 1, off + w))
  IN IF Len(b) < off + w \/ Len(b) < off + w + n
     THEN Got(FALSE, <<>>, off)
     ELSE Got(TRUE, SubSeq(b, off + w + 1, off + w + n), off + n)

(* Mutant: only the prefix is tested against the length of the body.       *)
GetStrUnchecked(w, b, off) ==
  LET n == Number(SubSeq(b, off + 1, off + w))
      m == IF Len(b) < off + w + n THEN Len(b) - off - w ELSE n
  IN IF Len(b) < off + w
     THEN Got(FALSE, <<>>, off)
     ELSE Got(TRUE, SubSeq(b, off + w + 1, off + w + m), off + w + m)

GetStr(w, b, off) ==
  LET n == Number(SubSeq(b, off + 1, off + w))
  IN IF Len(b) < off + w \/ Len(b) < off + w + n
     THEN Got(FALSE, <<>>, off)
     ELSE Got(TRUE, SubSeq(b, off + w + 1, off + w + n), off + w + n)

(* The last byte of a FriendInfo may be missing: it then reads as 0, and   *)
(* the offset goes beyond the end all the same.                            *)
GetFlag(b, off) == Got(TRUE, IF Len(b) < off + 1 THEN 0 ELSE b[off + 1],
                       off + 1)

GetField(kind, b, off) ==
  CASE kind = "str"  -> GetStr(2, b, off)
    [] kind = "str8" -> GetStr(1, b, off)
    [] kind = "flag" -> GetFlag(b, off)
    [] OTHER -> IF Len(b) < off + Width[kind] THEN Got(FALSE, 0, off)
                ELSE Got(TRUE, Number(SubSeq(b, off + 1, off + Width[kind])),
                         off + Width[kind])

-----------------------------------------------------------------------------
(* Layouts.                                                                *)

Reconnect == <<"str">>
Login == <<"str", "str">>
Reg == <<"str", "str", "str">>
LoginResp == <<"u8", "str", "u32", "str">>
RegResp == <<"u8", "u32">>
UID == <<"u32">>
FriendInfo == <<"u32", "str", "flag">>
FriendList == <<"friends">>
OnlinePush == <<"u32", "bool">>
RoomInfo == <<"str", "str", "str", "u8", "u8">>
RoomList == <<"rooms">>
RoomOp == <<"str", "str">>
RoomListResp == <<"u8", "rooms">>
BagItem == <<"u8", "str", "str">>
BagList == <<"u8", "items">>
BagEquip == <<"u8">>

PlayerState == <<"u32", "f32", "f32", "f32", "f32", "u8", "u8", "u8", "f32",
                 "u8", "u16", "u16", "u32">>
State == <<"states">>
InputReport == <<"i8", "i8", "f32", "u8", "f32", "f32", "f32", "f32", "f32",
                 "u8", "u8">>
Hit == <<"u32", "u32", "u8", "bool">>
SettleEntry == <<"u32", "u16">>
Settle == <<"scores">>
JoinOK == <<"str8", "u32", "states">>
PlayerInfo == <<"u32", "str">>

(* The layout of the entries of each list.                                 *)
Entry == [friends |-> FriendInfo, rooms |-> RoomInfo, items |-> BagItem,
          states |-> PlayerState, scores |-> SettleEntry]

-----------------------------------------------------------------------------
(* Encoding and decoding.                                                  *)

PutFields(layout, vals) ==
  FlattenSeq([i \in 1..Len(layout) |-> PutField(layout[i], vals[i])])

(* One byte of count, whatever the length of the list.                     *)
PutList(entry, list) ==
  BigEndian(Len(list), 1)
    \o FlattenSeq([i \in 1..Len(list) |-> PutFields(entry, list[i])])

Put(kind, v) ==
  IF kind \in DOMAIN Entry THEN PutList(Entry[kind], v) ELSE PutField(kind, v)

Encode(layout, vals) ==
  FlattenSeq([i \in 1..Len(layout) |-> Put(layout[i], vals[i])])

(* Reads one thing after the other and stops at the first that fails.      *)
GetAll(One(_, _, _), kinds, b, off) ==
  FoldLeft(LAMBDA acc, kind :
             IF ~acc.ok THEN acc
             ELSE LET g == One(kind, b, acc.next)
                  IN [g EXCEPT !.val = Append(acc.val, @)],
           Got(TRUE, <<>>, off), kinds)

(* The rest of the body is sliced off for each entry.  A friend that lacks *)
(* its flag has put the offset beyond the end.                             *)
GetEntry(entry, b, off) ==
  IF off > Len(b) THEN Panic ELSE GetAll(GetField, entry, b, off)

GetList(entry, b, off) ==
  IF Len(b) < off + 1 THEN Got(FALSE, <<>>, off)
  ELSE GetAll(GetEntry, [i \in 1..b[off + 1] |-> entry], b, off + 1)

Get(kind, b, off) ==
  IF kind \in DOMAIN Entry THEN GetList(Entry[kind], b, off)
                           ELSE GetField(kind, b, off)

(* DecodeInput and DecodeHit cannot refuse: they return a record of zeros, *)
(* which the room takes for a report.                                      *)
Unrefusing == {InputReport, Hit}

(* What follows the last field is not looked at.                           *)
Decode(layout, b) ==
  LET g == GetAll(Get, layout, b, 0)
  IN IF g.ok \/ layout \notin Unrefusing THEN g
     ELSE Got(TRUE, [i \in 1..Len(layout) |-> 0], 0)
=============================================================================
