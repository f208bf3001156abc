----------------------------- MODULE LogicQueue -----------------------------
(***************************************************************************)
(* The message queue between the io threads of a ChatServer and its one    *)
(* logic thread (LogicSystem.cpp, PostMsgToQue, DealMsg and the            *)
(* destructor): a mutex, a condition variable and a flag.                  *)
(*                                                                         *)
(* A post is one critical section, so it is one step; its notify_one comes *)
(* after the unlock and is a step of its own.  The logic thread keeps the  *)
(* mutex from the moment it gets it until it waits or has popped a         *)
(* message, the callback included: "holding" is therefore a function of    *)
(* where it is.  The destructor takes no lock.  It runs when main has      *)
(* returned, after AsioIOServicePool::Stop has joined the io threads.      *)
(***************************************************************************)
EXTENDS Naturals, Sequences, FiniteSets

CONSTANTS
  Producers,  \* the io threads, each posting what its sessions receive
  MaxPosts,   \* how many messages each of them posts (bound of the model)
  Unknown     \* the messages whose id has no registered callback

VARIABLES
  sent,       \* sent[p]: how many messages io thread p has posted
  posted,     \* every message pushed, in order (history)
  que,        \* _msg_que
  taken,      \* every message popped, and whether a callback ran (history)
  ppc,        \* where each io thread is
  wpc,        \* where the logic thread is
  pooled,     \* the io pool runs; FALSE once AsioIOServicePool::Stop is called
  stop,       \* _b_stop
  dpc         \* where the destructor is

vars == <<sent, posted, que, taken, ppc, wpc, pooled, stop, dpc>>

Msg == Producers \X (1..MaxPosts)

Taken == [msg : Msg, called : BOOLEAN]

ASSUME LogicQueueAssumption ==
  /\ IsFiniteSet(Producers)
  /\ MaxPosts \in Nat
  /\ Unknown \subseteq Producers \X (1..MaxPosts)

WorkerPlaces ==
  {"lock", "test", "sleep", "waiting", "callback", "drain", "exit"}

(* The logic thread is inside its critical section. *)
holding == wpc \in {"test", "sleep", "callback", "drain"}

Init ==
  /\ sent = [p \in Producers |-> 0]
  /\ posted = <<>>
  /\ que = <<>>
  /\ taken = <<>>
  /\ ppc = [p \in Producers |-> "reading"]
  /\ wpc = "lock"
  /\ pooled = TRUE
  /\ stop = FALSE
  /\ dpc = "main"

(* notify_one: the logic thread is the only one that ever waits.  It leaves
   the wait and asks for the mutex again. *)
notified == IF wpc = "waiting" THEN "lock" ELSE wpc
-------------------------------------------------------------------------------
(* Mutant: the size is compared before the push, so nobody is notified. *)
PostNoNotify(p) ==
  /\ ppc[p] = "reading"
  /\ sent[p] < MaxPosts
  /\ ~holding
  /\ LET m == <<p, sent[p] + 1>>
     IN  /\ posted' = Append(posted, m)
         /\ que' = Append(que, m)
         /\ ppc' = [ppc EXCEPT ![p] = IF Len(que) = 1 THEN "notify" ELSE "reading"]
  /\ sent' = [sent EXCEPT ![p] = @ + 1]
  /\ UNCHANGED <<taken, wpc, pooled, stop, dpc>>

(* PostMsgToQue up to the unlock: push, and notify if the queue was empty. *)
Post(p) ==
  /\ ppc[p] = "reading"
  /\ sent[p] < MaxPosts
  /\ ~holding
  /\ LET m == <<p, sent[p] + 1>>
     IN  /\ posted' = Append(posted, m)
         /\ que' = Append(que, m)
         /\ ppc' = [ppc EXCEPT ![p] = IF Len(que) = 0 THEN "notify" ELSE "reading"]
  /\ sent' = [sent EXCEPT ![p] = @ + 1]
  /\ UNCHANGED <<taken, wpc, pooled, stop, dpc>>

(* The notify_one of PostMsgToQue, after the unlock. *)
Notify(p) ==
  /\ ppc[p] = "notify"
  /\ ppc' = [ppc EXCEPT ![p] = "reading"]
  /\ wpc' = notified
  /\ UNCHANGED <<sent, posted, que, taken, pooled, stop, dpc>>

(* The signal handler calls AsioIOServicePool::Stop: every io_context is told
   to stop, and the io threads are joined. *)
PoolStop ==
  /\ pooled
  /\ pooled' = FALSE
  /\ UNCHANGED <<sent, posted, que, taken, ppc, wpc, stop, dpc>>

(* An io thread returns from run() once it is between two handlers. *)
ThreadEnds(p) ==
  /\ ~pooled
  /\ ppc[p] = "reading"
  /\ ppc' = [ppc EXCEPT ![p] = "joined"]
  /\ UNCHANGED <<sent, posted, que, taken, wpc, pooled, stop, dpc>>
-------------------------------------------------------------------------------
(* The logic thread gets the mutex, at the top of the loop or after a wait. *)
WorkerLock ==
  /\ wpc = "lock"
  /\ wpc' = "test"
  /\ UNCHANGED <<sent, posted, que, taken, ppc, pooled, stop, dpc>>

(* Mutant: a stop is noticed even if the queue is not empty, and left at once. *)
WorkerTestNoDrain ==
  /\ wpc = "test"
  /\ wpc' = CASE stop -> "exit"
            [] que = <<>> /\ ~stop -> "sleep"
            [] OTHER -> "callback"
  /\ UNCHANGED <<sent, posted, que, taken, ppc, pooled, stop, dpc>>

(* It looks at the queue and at the flag: wait, drain, or handle the front. *)
WorkerTest ==
  /\ wpc = "test"
  /\ wpc' = CASE stop -> "drain"
            [] que = <<>> /\ ~stop -> "sleep"
            [] OTHER -> "callback"
  /\ UNCHANGED <<sent, posted, que, taken, ppc, pooled, stop, dpc>>

(* _consume.wait: the mutex is released and the thread blocked in one step. *)
WorkerWait ==
  /\ wpc = "sleep"
  /\ wpc' = "waiting"
  /\ UNCHANGED <<sent, posted, que, taken, ppc, pooled, stop, dpc>>

(* A condition variable may wake its waiter for no reason. *)
WorkerSpurious ==
  /\ wpc = "waiting"
  /\ wpc' = "lock"
  /\ UNCHANGED <<sent, posted, que, taken, ppc, pooled, stop, dpc>>

(* Mutant: the newest message is served instead of the oldest. *)
ServeBack ==
  /\ taken' = Append(taken, [msg |-> que[Len(que)], called |-> que[Len(que)] \notin Unknown])
  /\ que' = SubSeq(que, 1, Len(que) - 1)

(* Mutant: the pop of a message that has no callback is missing. *)
ServeNoPop ==
  /\ taken' = Append(taken, [msg |-> Head(que), called |-> Head(que) \notin Unknown])
  /\ que' = IF Head(que) \in Unknown THEN que ELSE Tail(que)

(* The front is looked up, its callback called if it has one, and popped. *)
Serve ==
  /\ taken' = Append(taken, [msg |-> Head(que), called |-> Head(que) \notin Unknown])
  /\ que' = Tail(que)

(* One message is handled and the mutex released at the end of the round. *)
WorkerServe ==
  /\ wpc = "callback"
  /\ Serve
  /\ wpc' = "lock"
  /\ UNCHANGED <<sent, posted, ppc, pooled, stop, dpc>>

(* After a stop the queue is emptied under the lock ... *)
WorkerDrain ==
  /\ wpc = "drain"
  /\ que # <<>>
  /\ Serve
  /\ UNCHANGED <<sent, posted, ppc, wpc, pooled, stop, dpc>>

(* ... and the loop left. *)
WorkerExit ==
  /\ wpc = "drain"
  /\ que = <<>>
  /\ wpc' = "exit"
  /\ UNCHANGED <<sent, posted, que, taken, ppc, pooled, stop, dpc>>
-------------------------------------------------------------------------------
(* ~LogicSystem, its three lines: set the flag without the lock, ... *)
SetStop ==
  /\ dpc = "main"
  /\ ~pooled
  /\ \A p \in Producers : ppc[p] = "joined"
  /\ stop' = TRUE
  /\ dpc' = "notify"
  /\ UNCHANGED <<sent, posted, que, taken, ppc, wpc, pooled>>

(* Mutant: the notification is missing. *)
NotifyStopMissing ==
  /\ dpc = "notify"
  /\ dpc' = "join"
  /\ UNCHANGED <<sent, posted, que, taken, ppc, wpc, pooled, stop>>

(* ... notify the logic thread, ... *)
NotifyStop ==
  /\ dpc = "notify"
  /\ dpc' = "join"
  /\ wpc' = notified
  /\ UNCHANGED <<sent, posted, que, taken, ppc, pooled, stop>>

(* ... and join it. *)
Join ==
  /\ dpc = "join"
  /\ wpc = "exit"
  /\ dpc' = "done"
  /\ UNCHANGED <<sent, posted, que, taken, ppc, wpc, pooled, stop>>

Worker ==
  \/ WorkerLock \/ WorkerTest \/ WorkerWait \/ WorkerServe
  \/ WorkerDrain \/ WorkerExit

IoThread(p) == Notify(p) \/ ThreadEnds(p)

Destructor == SetStop \/ NotifyStop \/ Join

Next ==
  \/ \E p \in Producers : Post(p) \/ IoThread(p)
  \/ PoolStop
  \/ Worker
  \/ WorkerSpurious
  \/ Destructor

(* Running threads go on: the logic thread gets a mutex that is free (the io
   threads hold it for a push only), an io thread that has pushed goes on to
   its notify, main returns once the pool is joined.  Nothing obliges a
   client to send, an operator to stop the server, or a condition variable to
   wake a thread spuriously. *)
Fairness ==
  /\ WF_vars(Worker)
  /\ \A p \in Producers : WF_vars(IoThread(p))
  /\ WF_vars(Destructor)

Spec == Init /\ [][Next]_vars /\ Fairness
-------------------------------------------------------------------------------
TypeOK ==
  /\ sent \in [Producers -> 0..MaxPosts]
  /\ posted \in Seq(Msg)
  /\ que \in Seq(Msg)
  /\ taken \in Seq(Taken)
  /\ ppc \in [Producers -> {"reading", "notify", "joined"}]
  /\ wpc \in WorkerPlaces
  /\ pooled \in BOOLEAN
  /\ stop \in BOOLEAN
  /\ dpc \in {"main", "notify", "join", "done"}

(* A message never waits in the queue for a logic thread that sleeps, unless
   an io thread is on its way to notify it: notifying only when the queue
   goes from empty to one message is enough (LogicSystem.cpp:27-31). *)
NoLostWakeup ==
  wpc = "waiting" /\ que # <<>> => \E p \in Producers : ppc[p] = "notify"

(* The logic thread takes the messages in the order the io threads pushed
   them, each once, and calls a callback for exactly those that have one. *)
InOrder ==
  /\ Len(posted) = Len(taken) + Len(que)
  /\ \A i \in 1..Len(taken) :
       taken[i] = [msg |-> posted[i], called |-> posted[i] \notin Unknown]
  /\ \A i \in 1..Len(que) : que[i] = posted[Len(taken) + i]

(* When the logic thread leaves its loop every message posted has been taken,
   and no io thread is left that could post another one. *)
DrainedAtExit ==
  wpc = "exit" => que = <<>> /\ \A p \in Producers : ppc[p] = "joined"

(* What makes the three inductive: where the logic thread is tells what it
   knows, and the flag is set only when the io threads are gone. *)
Places ==
  /\ wpc = "sleep" => que = <<>>
  /\ wpc = "callback" => que # <<>>
  /\ wpc \in {"drain", "exit"} => stop
  /\ stop => \A p \in Producers : ppc[p] = "joined"

IInv == TypeOK /\ NoLostWakeup /\ InOrder /\ DrainedAtExit /\ Places

(* The stop ends the loop, what is left of the queue having been run first; but for
   a logic thread that has tested the flag and is about to block when it is set,
   without the lock, and notified of (LogicSystem.cpp:17-22, 41-43). *)
StopSeenEndsLoop == (dpc = "notify" /\ wpc # "sleep") ~> (wpc = "exit")

(* The queue is a FIFO channel that never breaks: every message that is posted is
   taken, whether or not the server stops. *)
Channel == INSTANCE FifoChannel WITH
  Capacity <- Cardinality(Msg),
  pending <- que,
  delivered <- [i \in 1..Len(taken) |-> taken[i].msg],
  broken <- FALSE

ImplementsChannel == Channel!Spec
=============================================================================
