----------------------------- MODULE FifoChannel -----------------------------
(***************************************************************************)
(* What a message queue of the chat server promises its users: a channel   *)
(* that takes messages in some order and hands them over in that order,    *)
(* each at most once, holding at most Capacity of them, and that may break *)
(* for good.  A message the full channel refuses is never taken, so a      *)
(* refusal is a stuttering step.  CSession's send queue implements this    *)
(* channel (SessionSend.tla); LogicSystem's message queue implements it    *)
(* without ever breaking (LogicQueue.tla).                                 *)
(***************************************************************************)
EXTENDS Naturals, Sequences

CONSTANTS
  Msg,       \* the messages that can be put into the channel
  Capacity   \* how many of them it holds at once

VARIABLES
  pending,   \* taken and not handed over, oldest first
  delivered, \* handed over, oldest first
  broken     \* the channel will not hand over anything more

vars == <<pending, delivered, broken>>

Init ==
  /\ pending = <<>>
  /\ delivered = <<>>
  /\ broken = FALSE

Accept(m) ==
  /\ Len(pending) < Capacity
  /\ pending' = Append(pending, m)
  /\ UNCHANGED <<delivered, broken>>

Deliver ==
  /\ ~broken
  /\ pending # <<>>
  /\ delivered' = Append(delivered, Head(pending))
  /\ pending' = Tail(pending)
  /\ UNCHANGED broken

Break ==
  /\ broken' = TRUE
  /\ UNCHANGED <<pending, delivered>>

Next ==
  \/ \E m \in Msg : Accept(m)
  \/ Deliver
  \/ Break

(* A channel that is not broken keeps handing over what it has taken. *)
Spec == Init /\ [][Next]_vars /\ WF_vars(Deliver)
==============================================================================
