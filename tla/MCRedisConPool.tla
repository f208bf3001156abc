--------------------------- MODULE MCRedisConPool ---------------------------
(* RedisConPool for TLC: three threads, one connection, room for another. *)
EXTENDS RedisConPool

CONSTANTS io1, io2, io3, ctx1, ctx2   \* model values

MCThread == {io1, io2, io3}
MCCtx == {ctx1, ctx2}
MCStart == <<ctx1>>
=============================================================================
