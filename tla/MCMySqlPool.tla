----------------------------- MODULE MCMySqlPool -----------------------------
(* MySqlPool for TLC: the logic thread, which nests, and two gRPC threads. *)
EXTENDS MySqlPool, TLC

CONSTANTS logic, rpc1, rpc2, con1, con2, con3   \* model values

MCThread == {logic, rpc1, rpc2}
MCNesting == {logic}
MCSlot == {con1, con2, con3}

(* The gRPC threads are alike, and so are the connections. *)
Alike == Permutations({rpc1, rpc2}) \cup Permutations(MCSlot)
==============================================================================
