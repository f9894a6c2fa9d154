------------------------------- MODULE MCWire -------------------------------
(* Bytes of five values: one byte counts to 4, two to 24, four to 624.     *)
(* One message of every layout, with empty and longer strings, and those   *)
(* at the limits: lists of five and six, a score of 26, a name of five     *)
(* bytes in JoinOK, a body that is too large.                              *)
EXTENDS Wire, TLC

a == <<1>>
bc == <<2, 3>>
long == <<4, 3, 2, 1, 0>>
friend == <<7, bc, 1>>
room == <<a, bc, <<>>, 2, 3>>
state(u, score) == <<u, 1, 2, 3, 4, 3, 1, 0, 5, 2, score, 1, 0>>

MCLayout == <<Login, LoginResp, Reg, RegResp, Reconnect, UID, FriendInfo,
              FriendList, OnlinePush, RoomList, RoomOp, RoomListResp, BagList,
              BagEquip, State, InputReport, Hit, Settle, JoinOK, PlayerInfo,
              <<>>>>

Msg(i, v) == [id |-> i, vals |-> v]

MCMessages ==
  {Msg(1, <<a, bc>>), Msg(2, <<0, bc, 9, a>>), Msg(3, <<a, <<>>, bc>>),
   Msg(4, <<3, 0>>), Msg(5, <<long>>), Msg(6, <<624>>), Msg(7, friend),
   Msg(8, <<<<friend, <<8, a, 0>>>>>>), Msg(8, <<[i \in 1..6 |-> friend]>>),
   Msg(9, <<7, 1>>), Msg(10, <<<<room, room>>>>), Msg(10, <<<<>>>>),
   Msg(11, <<a, <<>>>>), Msg(12, <<0, <<room>>>>),
   Msg(13, <<2, <<<<0, a, <<>>>>, <<1, bc, a>>>>>>), Msg(14, <<3>>),
   Msg(15, <<<<state(7, 1), state(8, 26)>>>>),
   Msg(16, <<0, 1, 90, 3, 20, 10, 5, 0, 6, 1, 2>>),
   Msg(17, <<7, 8, 3, 1>>), Msg(18, <<<<<<7, 15>>, <<8, 16>>>>>>),
   Msg(18, <<[i \in 1..5 |-> <<i, i>>]>>),
   Msg(19, <<a, 7, <<state(7, 0)>>>>), Msg(19, <<long, 7, <<>>>>),
   Msg(20, <<7, bc>>), Msg(15, <<[i \in 1..3 |-> state(i, 0)]>>),
   Msg(21, <<>>)}

MCFollowers == {Msg(21, <<>>), Msg(6, <<7>>), Msg(10, <<<<room>>>>)}
=============================================================================
