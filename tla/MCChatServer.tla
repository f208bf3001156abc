---------------------------- MODULE MCChatServer ----------------------------
(* ChatServer for TLC: two servers, two users, two connections. *)
EXTENDS ChatServer, TLC

CONSTANTS s1, s2, u1, u2, c1, c2   \* model values

MCServer == {s1, s2}
MCUser == {u1, u2}
MCConn == {c1, c2}
AllPeers == s1 :> {s2} @@ s2 :> {s1}

(* Each user makes one connection, to a server of its own, and calls of s2 may fail. *)
EachHome == c1 :> s1 @@ c2 :> s2
EachAsks ==
  c1 :> {<<"login", u1>>, <<"text", u2>>} @@ c2 :> {<<"login", u2>>, <<"text", u1>>}
EachEndings == c1 :> {} @@ c2 :> {"read"}
EachReq == c1 :> 2 @@ c2 :> 2
FailsAt2 == {s2}

(* User u1 connects twice to s1 (a reconnect), on the first connection beside u2. *)
SameHome == c1 :> s1 @@ c2 :> s1
BothAsks ==
  c1 :> {<<"login", u1>>, <<"login", u2>>, <<"text", u1>>} @@ c2 :> {<<"login", u1>>}
OneAsks == [c \in MCConn |-> {<<"login", u1>>, <<"text", u2>>}]
AllEndings == c1 :> {"read", "write"} @@ c2 :> {"header"}
ReadEndings == [c \in MCConn |-> {"read"}]
OldReq == c1 :> 2 @@ c2 :> 1
NoFails == {}
=============================================================================
