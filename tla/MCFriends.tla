----------------------------- MODULE MCFriends -----------------------------
(* Friends for TLC: three users on two servers. *)
EXTENDS Friends, TLC

CONSTANTS s1, s2, u1, u2, u3, k1, k2, k3, k4   \* model values

MCServer == {s1, s2}
MCUser == {u1, u2, u3}
MCHome == u1 :> s1 @@ u2 :> s2 @@ u3 :> s1
MCDbConn == {k1, k2, k3, k4}
MCPool == k1 :> s1 @@ k2 :> s1 @@ k3 :> s2 @@ k4 :> s2
MCWishes == {<<u1, u2>>, <<u2, u1>>, <<u3, u1>>}

(* How many logins, applications, acceptances and searches a user may send. *)
Requests(l, p, a, q) == "login" :> l @@ "apply" :> p @@ "accept" :> a @@ "search" :> q

(* Logins around an application and its acceptance; two users of two servers that accept
   each other; the two users of one server, one of whom applies when a connection was left
   open; statements that wait on each other's open transactions. *)
MCBudgets ==
  {u1 :> Requests(1, 1, 0, 0) @@ u2 :> Requests(1, 0, 1, 0) @@ u3 :> Requests(1, 0, 0, 0),
   u1 :> Requests(0, 0, 1, 0) @@ u2 :> Requests(1, 0, 1, 0) @@ u3 :> Requests(0, 0, 0, 0),
   u1 :> Requests(1, 0, 1, 1) @@ u2 :> Requests(0, 0, 0, 0) @@ u3 :> Requests(1, 1, 1, 0),
   u1 :> Requests(0, 1, 2, 0) @@ u2 :> Requests(0, 1, 1, 0) @@ u3 :> Requests(0, 0, 0, 0)}
=============================================================================
