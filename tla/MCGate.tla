------------------------------- MODULE MCGate -------------------------------
(* Gate for TLC: three HTTP connections on two io threads. *)
EXTENDS Gate, TLC

CONSTANTS h1, h2, h3, u1, u2, e1, e2, t1, t2   \* model values

MCConn == {h1, h2, h3}
MCUser == {u1, u2}
MCEmail == {e1, e2}

(* u2 is registered with e2, u1 not yet. *)
Set(e) == [email |-> e, pwd |-> [email |-> e, proven |-> TRUE, missing |-> FALSE]]
MCTables == {u1 :> None @@ u2 :> Set(e2)}
MCHad == e1 :> 0 @@ e2 :> 1
MCIo == h1 :> t1 @@ h2 :> t1 @@ h3 :> t2

Ask(k, u, e) == [kind |-> k, user |-> u, email |-> e]

MCRequests ==
  {Ask("register", u1, e1), Ask("reset", u1, e1), Ask("reset", u1, e2), Ask("login", u1, e1),
   Ask("code", u1, e1), Ask("method", u1, e1)}
=============================================================================
