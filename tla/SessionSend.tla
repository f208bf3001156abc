----------------------------- MODULE SessionSend -----------------------------
(***************************************************************************)
(* The sending half of one CSession (ChatServer/CSession.cpp): the queue   *)
(* _send_que, the asynchronous write of its front, and the completion      *)
(* handler.                                                                *)
(*                                                                         *)
(* Send is called by the logic thread and by the gRPC threads; HandleWrite *)
(* and the read handlers, which may close the socket, run on the one       *)
(* thread of the session's io_context.  Send and the success branch of     *)
(* HandleWrite hold _send_lock from their first line to their last, so     *)
(* each is one step.  Close takes no lock.                                 *)
(*                                                                         *)
(* An async_write is an operation of its own: it is started, later it      *)
(* completes or fails, and later still the io thread runs its handler.     *)
(* The model keeps the unfinished operations in the sequence "writes", so  *)
(* that nothing but the code's own discipline makes there be one of them.  *)
(***************************************************************************)
EXTENDS Naturals, Sequences, FiniteSets

CONSTANTS
  Senders,       \* the threads that call Send
  MaxSends,      \* how often each of them calls it (bound of the model)
  MAX_SENDQUE    \* const.h: the limit Send compares the queue's size with

ASSUME SendAssumption ==
  /\ MaxSends \in Nat
  /\ MAX_SENDQUE \in Nat

VARIABLES
  called,    \* called[s]: how often thread s has called Send
  accepted,  \* every message Send ever pushed, in order (history)
  que,       \* _send_que
  writes,    \* the async_write operations whose handler has not run
  wire,      \* the messages that went out whole on the socket, in order
  closed,    \* the socket is closed
  failed     \* HandleWrite has been called with an error

vars == <<called, accepted, que, writes, wire, closed, failed>>

Msg == Senders \X (1..MaxSends)

Write == [msg : Msg, res : {"started", "ok", "error"}]

TypeOK ==
  /\ called \in [Senders -> 0..MaxSends]
  /\ accepted \in Seq(Msg)
  /\ que \in Seq(Msg)
  /\ writes \in Seq(Write)
  /\ wire \in Seq(Msg)
  /\ closed \in BOOLEAN
  /\ failed \in BOOLEAN

Init ==
  /\ called = [s \in Senders |-> 0]
  /\ accepted = <<>>
  /\ que = <<>>
  /\ writes = <<>>
  /\ wire = <<>>
  /\ closed = FALSE
  /\ failed = FALSE

(* async_write of a message: one more operation under way. *)
Started(m) == Append(writes, [msg |-> m, res |-> "started"])

(* The operations left when the i-th one's handler has run. *)
Finished(i) == SubSeq(writes, 1, i - 1) \o SubSeq(writes, i + 1, Len(writes))

-------------------------------------------------------------------------------
(* Send finds the queue too long and drops the message. *)
SendFull(s) ==
  /\ called[s] < MaxSends
  /\ Len(que) > MAX_SENDQUE
  /\ called' = [called EXCEPT ![s] = @ + 1]
  /\ UNCHANGED <<accepted, que, writes, wire, closed, failed>>

(* Mutant: the size test is off by one, ">" against MAX_SENDQUE + 1. *)
SendPushOneTooMany(s) ==
  /\ called[s] < MaxSends
  /\ Len(que) <= MAX_SENDQUE + 1
  /\ called' = [called EXCEPT ![s] = @ + 1]
  /\ LET m == <<s, called[s] + 1>>
     IN  /\ accepted' = Append(accepted, m)
         /\ que' = Append(que, m)
         /\ writes' = IF Len(que) > 0 THEN writes ELSE Started(m)
  /\ UNCHANGED <<wire, closed, failed>>

(* Mutant: the "if (send_que_size > 0) return" is missing. *)
SendPushAlwaysWrites(s) ==
  /\ called[s] < MaxSends
  /\ Len(que) <= MAX_SENDQUE
  /\ called' = [called EXCEPT ![s] = @ + 1]
  /\ LET m == <<s, called[s] + 1>>
     IN  /\ accepted' = Append(accepted, m)
         /\ que' = Append(que, m)
         /\ writes' = Started(m)
  /\ UNCHANGED <<wire, closed, failed>>

(* Send pushes the message, and writes it if it is alone in the queue. *)
SendPush(s) ==
  /\ called[s] < MaxSends
  /\ Len(que) <= MAX_SENDQUE
  /\ called' = [called EXCEPT ![s] = @ + 1]
  /\ LET m == <<s, called[s] + 1>>
     IN  /\ accepted' = Append(accepted, m)
         /\ que' = Append(que, m)
         /\ writes' = IF Len(que) > 0 THEN writes ELSE Started(m)
  /\ UNCHANGED <<wire, closed, failed>>

(* The whole message has gone to the peer; its handler is now queued. *)
WriteOk(i) ==
  /\ writes[i].res = "started"
  /\ ~closed
  /\ writes' = [writes EXCEPT ![i].res = "ok"]
  /\ wire' = Append(wire, writes[i].msg)
  /\ UNCHANGED <<called, accepted, que, closed, failed>>

(* The connection broke, or the socket was closed under the operation or
   before it: the operation ends with an error. *)
WriteError(i) ==
  /\ writes[i].res = "started"
  /\ writes' = [writes EXCEPT ![i].res = "error"]
  /\ UNCHANGED <<called, accepted, que, wire, closed, failed>>

(* Mutant: the queue is popped but the next write is not started. *)
HandleWriteOkStops(i) ==
  /\ writes[i].res = "ok"
  /\ que' = Tail(que)
  /\ writes' = Finished(i)
  /\ UNCHANGED <<called, accepted, wire, closed, failed>>

(* Mutant: the next write takes the back of the queue. *)
HandleWriteOkBack(i) ==
  /\ writes[i].res = "ok"
  /\ que' = Tail(que)
  /\ writes' = IF Len(que) > 1
               THEN Append(Finished(i), [msg |-> que[Len(que)], res |-> "started"])
               ELSE Finished(i)
  /\ UNCHANGED <<called, accepted, wire, closed, failed>>

(* Mutant: the front is written again, because it was not popped. *)
HandleWriteOkNoPop(i) ==
  /\ writes[i].res = "ok"
  /\ writes' = Append(Finished(i), [msg |-> que[1], res |-> "started"])
  /\ UNCHANGED <<called, accepted, que, wire, closed, failed>>

(* HandleWrite without an error: pop the front, write the next one. *)
HandleWriteOk(i) ==
  /\ writes[i].res = "ok"
  /\ que' = Tail(que)
  /\ writes' = IF Len(que) > 1
               THEN Append(Finished(i), [msg |-> que[2], res |-> "started"])
               ELSE Finished(i)
  /\ UNCHANGED <<called, accepted, wire, closed, failed>>

(* Mutant: the front is popped on an error too. *)
HandleWriteErrorPops(i) ==
  /\ writes[i].res = "error"
  /\ writes' = Finished(i)
  /\ que' = Tail(que)
  /\ closed' = TRUE
  /\ failed' = TRUE
  /\ UNCHANGED <<called, accepted, wire>>

(* HandleWrite with an error: Close, and the session is cleared from the
   server.  The queue stays as it is. *)
HandleWriteError(i) ==
  /\ writes[i].res = "error"
  /\ writes' = Finished(i)
  /\ closed' = TRUE
  /\ failed' = TRUE
  /\ UNCHANGED <<called, accepted, que, wire>>

(* A read handler got an error or a short read and calls Close. *)
CloseByReader ==
  /\ ~closed
  /\ closed' = TRUE
  /\ UNCHANGED <<called, accepted, que, writes, wire, failed>>

Send == \E s \in Senders : SendFull(s) \/ SendPush(s)

WriteEnds == \E i \in 1..Len(writes) : WriteOk(i) \/ WriteError(i)

HandleWrite == \E i \in 1..Len(writes) : HandleWriteOk(i) \/ HandleWriteError(i)

Next == Send \/ WriteEnds \/ HandleWrite \/ CloseByReader

(* The io_context's thread runs every handler that is due, and a write to a
   peer ends: the peer reads on, or TCP gives the connection up.  Nothing
   obliges a thread to call Send, or the reader to fail. *)
Fairness == WF_vars(HandleWrite) /\ WF_vars(WriteEnds)

Spec == Init /\ [][Next]_vars /\ Fairness
-------------------------------------------------------------------------------
(* How many messages HandleWrite has popped. *)
popped == Len(accepted) - Len(que)

(* At most one async_write is under way, and it writes the front of the
   queue, whose buffer it refers to: the front is never popped, and no
   second write is started, under a write (CSession.cpp:56-61, 214-219). *)
OneWriteOfTheFront ==
  /\ Len(writes) <= 1
  /\ writes # <<>> => que # <<>> /\ writes[1].msg = que[1]

(* While the connection has not failed, a non-empty queue is being written:
   no message waits for a write nobody will start. *)
NoStalledQueue == (que # <<>> /\ ~failed) => writes # <<>>

(* The peer receives what Send took, in the order Send took it, each message
   at most once and none left out: the stream is a prefix of the accepted
   messages, and the queue is what is left of them. *)
InOrder ==
  /\ Len(wire) <= Len(accepted)
  /\ \A i \in 1..Len(wire) : wire[i] = accepted[i]
  /\ Len(que) <= Len(accepted)
  /\ \A i \in 1..Len(que) : que[i] = accepted[popped + i]

(* The queue never holds more than MAX_SENDQUE + 1 messages. *)
Bounded == Len(que) <= MAX_SENDQUE + 1

(* Once HandleWrite has seen an error no further write is started on the
   closed socket, whoever still calls Send: the queue stays non-empty
   (CSession.cpp:221-226 does not pop), and Send starts a write only on an
   empty one. *)
NoWriteAfterFailure == failed => writes = <<>> /\ que # <<>> /\ closed

(* How far the stream has got: everything popped, and the front too once its
   write has completed.  This strengthening makes the invariants inductive. *)
WireFollowsQueue ==
  Len(wire) = IF writes # <<>> /\ writes[1].res = "ok" THEN popped + 1 ELSE popped

(* The inductive invariant: what the proofs show of every step. *)
IInv ==
  /\ TypeOK
  /\ OneWriteOfTheFront
  /\ NoStalledQueue
  /\ InOrder
  /\ Bounded
  /\ NoWriteAfterFailure
  /\ WireFollowsQueue

(* The send path is a FIFO channel of MAX_SENDQUE + 1 messages. *)
Channel == INSTANCE FifoChannel WITH
  Msg <- Msg,
  Capacity <- MAX_SENDQUE + 1,
  pending <- SubSeq(accepted, Len(wire) + 1, Len(accepted)),
  delivered <- wire,
  broken <- closed

ImplementsChannel == Channel!Spec
==============================================================================
