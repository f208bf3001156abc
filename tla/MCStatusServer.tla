--------------------------- MODULE MCStatusServer ---------------------------
(* StatusServer for TLC: two ChatServers, two users. *)
EXTENDS StatusServer, TLC

CONSTANTS s1, s2, g1, g2, u1, u2   \* model values

MCChatSrv == {s1, s2}
MCCaller == {g1, g2}
MCUser == {u1, u2}

(* s1, the first of the configuration, may be started again. *)
MCMaxStarts == s1 :> 2 @@ s2 :> 1
=============================================================================
