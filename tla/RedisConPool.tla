---------------------------- MODULE RedisConPool ----------------------------
(***************************************************************************)
(* The pool of Redis connections (RedisMgr.h, RedisConPool) and the way    *)
(* the commands of RedisMgr use it.  The three servers have the same code. *)
(*                                                                         *)
(* Unlike MySqlPool the pool holds bare pointers, and every command but    *)
(* HDEL returns its pointer twice: by hand, and by its Defer object.  A    *)
(* pointer can then be in the queue several times, in use by two threads,  *)
(* and in the queue after it was freed.  What a command on a freed context *)
(* does is undefined; here it fails or works, like any other.              *)
(***************************************************************************)
EXTENDS Naturals, Sequences, FiniteSets

CONSTANTS
  Ctx,      \* addresses of contexts (bound of the model)
  Start,    \* what the constructor could connect, in order
  Thread,   \* the threads that run commands
  MaxRuns,  \* how many commands each of them runs (bound of the model)
  None

ASSUME RedisAssumption ==
  /\ IsFiniteSet(Ctx)
  /\ IsFiniteSet(Thread)
  /\ Start \in Seq(Ctx)
  /\ MaxRuns \in Nat
  /\ None \notin Ctx

VARIABLES
  pool,    \* connections_
  held,    \* held[t]: the pointer in thread t's variable "connect"
  pc,      \* where each thread is
  ran,     \* how many commands each thread has begun
  live,    \* the contexts that are allocated
  check,   \* where the check thread is
  left,    \* how many connections it still has to look at in this round
  probed,  \* the context it has taken out of the pool
  fails,   \* fail_count_
  stop,    \* b_stop_
  closer   \* where Close is

userVars == <<held, pc, ran>>
checkVars == <<check, left, probed, fails>>
vars == <<pool, userVars, live, checkVars, stop, closer>>

Init ==
  /\ pool = Start
  /\ held = [t \in Thread |-> None]
  /\ pc = [t \in Thread |-> "idle"]
  /\ ran = [t \in Thread |-> 0]
  /\ live = {Start[i] : i \in 1..Len(Start)}
  /\ check = "timer"
  /\ left = 0
  /\ probed = None
  /\ fails = 0
  /\ stop = FALSE
  /\ closer = "none"

At(place) == {t \in Thread : pc[t] = place}

(* No thread is between its test and its wait, where it keeps the mutex. *)
unlocked == At("sleep") = {}

(* notify_one: a thread that waits, if there is one, goes to its test again. *)
Notified(places) ==
  IF \E w \in Thread : places[w] = "waiting"
  THEN {[places EXCEPT ![w] = "get"] : w \in {v \in Thread : places[v] = "waiting"}}
  ELSE {places}

(* returnConnection: at the back of the queue, unless the pool is closed.
   "places" is where the threads are but for the one that is notified. *)
GiveBack(c, places) ==
  /\ unlocked
  /\ IF stop
     THEN pool' = pool /\ pc' = places
     ELSE pool' = Append(pool, c) /\ pc' \in Notified(places)
-------------------------------------------------------------------------------
(* A command begins: it needs a connection. *)
Begin(t) ==
  /\ pc[t] = "idle"
  /\ ran[t] < MaxRuns
  /\ pc' = [pc EXCEPT ![t] = "get"]
  /\ ran' = [ran EXCEPT ![t] = @ + 1]
  /\ UNCHANGED <<pool, held, live, checkVars, stop, closer>>

(* getConnection takes the front; *)
GetTake(t) ==
  /\ pc[t] = "get"
  /\ unlocked
  /\ ~stop
  /\ pool # <<>>
  /\ held' = [held EXCEPT ![t] = Head(pool)]
  /\ pool' = Tail(pool)
  /\ pc' = [pc EXCEPT ![t] = "work"]
  /\ UNCHANGED <<ran, live, checkVars, stop, closer>>

(* or returns nullptr when the pool is closed, and the command gives up; *)
GetNull(t) ==
  /\ pc[t] = "get"
  /\ unlocked
  /\ stop
  /\ pc' = [pc EXCEPT ![t] = "idle"]
  /\ UNCHANGED <<pool, held, ran, live, checkVars, stop, closer>>

(* or finds nothing, and will wait; *)
GetNothing(t) ==
  /\ pc[t] = "get"
  /\ unlocked
  /\ ~stop
  /\ pool = <<>>
  /\ pc' = [pc EXCEPT ![t] = "sleep"]
  /\ UNCHANGED <<pool, held, ran, live, checkVars, stop, closer>>

(* and waits; *)
Wait(t) ==
  /\ pc[t] = "sleep"
  /\ pc' = [pc EXCEPT ![t] = "waiting"]
  /\ UNCHANGED <<pool, held, ran, live, checkVars, stop, closer>>

(* perhaps to wake for no reason. *)
Spurious(t) ==
  /\ pc[t] = "waiting"
  /\ pc' = [pc EXCEPT ![t] = "get"]
  /\ UNCHANGED <<pool, held, ran, live, checkVars, stop, closer>>

(* HDEL, whether it works or not, leaves the return to its Defer object. *)
HDel(t) ==
  /\ pc[t] = "work"
  /\ pc' = [pc EXCEPT ![t] = "defer"]
  /\ UNCHANGED <<pool, held, ran, live, checkVars, stop, closer>>

(* Every other command calls returnConnection before each of its returns, the
   failed ones too ... *)
ReturnByHand(t) ==
  /\ pc[t] = "work"
  /\ GiveBack(held[t], [pc EXCEPT ![t] = "defer"])
  /\ UNCHANGED <<held, ran, live, checkVars, stop, closer>>

(* Mutant: the Defer object does not return the connection of HDEL. *)
ReturnByDeferNever(t) ==
  /\ pc[t] = "defer"
  /\ held' = [held EXCEPT ![t] = None]
  /\ pc' = [pc EXCEPT ![t] = "idle"]
  /\ UNCHANGED <<pool, ran, live, checkVars, stop, closer>>

(* ... and its Defer object does so, too, when it has returned. *)
ReturnByDefer(t) ==
  /\ pc[t] = "defer"
  /\ GiveBack(held[t], [pc EXCEPT ![t] = "idle"])
  /\ held' = [held EXCEPT ![t] = None]
  /\ UNCHANGED <<ran, live, checkVars, stop, closer>>
-------------------------------------------------------------------------------
(* Mutant: the check thread does not look at the flag. *)
CheckBeginForever ==
  /\ check = "timer"
  /\ unlocked
  /\ check' = "take"
  /\ left' = Len(pool)
  /\ UNCHANGED <<pool, userVars, live, probed, fails, stop, closer>>

(* The check thread, each minute: how many connections are there?  It ends when
   it finds the pool closed. *)
CheckBegin ==
  /\ check = "timer"
  /\ unlocked
  /\ IF stop
     THEN check' = "ended" /\ UNCHANGED left
     ELSE check' = "take" /\ left' = Len(pool)
  /\ UNCHANGED <<pool, userVars, live, probed, fails, stop, closer>>

(* getConNonBlock takes one of them ... *)
CheckTake ==
  /\ check = "take"
  /\ unlocked
  /\ left > 0 /\ ~stop /\ pool # <<>>
  /\ probed' = Head(pool)
  /\ pool' = Tail(pool)
  /\ check' = "probe"
  /\ UNCHANGED <<userVars, live, left, fails, stop, closer>>

(* ... until all have been looked at, none is there, or the pool is closed. *)
CheckDone ==
  /\ check = "take"
  /\ unlocked
  /\ left = 0 \/ stop \/ pool = <<>>
  /\ check' = "reconnect"
  /\ UNCHANGED <<pool, userVars, live, left, probed, fails, stop, closer>>

(* PING is answered: it goes back. *)
CheckAlive ==
  /\ check = "probe"
  /\ GiveBack(probed, pc)
  /\ probed' = None
  /\ left' = left - 1
  /\ check' = "take"
  /\ UNCHANGED <<held, ran, live, fails, stop, closer>>

(* Mutant: the failure is not counted. *)
CheckDeadUncounted ==
  /\ check = "probe"
  /\ live' = live \ {probed}
  /\ probed' = None
  /\ left' = left - 1
  /\ check' = "take"
  /\ UNCHANGED <<pool, userVars, fails, stop, closer>>

(* PING fails: the context is freed and counted in fail_count_. *)
CheckDead ==
  /\ check = "probe"
  /\ live' = live \ {probed}
  /\ fails' = fails + 1
  /\ probed' = None
  /\ left' = left - 1
  /\ check' = "take"
  /\ UNCHANGED <<pool, userVars, stop, closer>>

(* Mutant: like MySqlPool's, the reconnect notifies nobody. *)
ReconnectQuietly ==
  /\ check = "reconnect"
  /\ unlocked
  /\ fails > 0
  /\ \E c \in Ctx \ live :
       /\ live' = live \cup {c}
       /\ pool' = IF stop THEN pool ELSE Append(pool, c)
  /\ fails' = fails - 1
  /\ UNCHANGED <<userVars, check, left, probed, stop, closer>>

(* A new connection for a failed one; the allocator may give it an address that
   was freed. *)
Reconnect ==
  /\ check = "reconnect"
  /\ fails > 0
  /\ \E c \in Ctx \ live :
       /\ live' = live \cup {c}
       /\ GiveBack(c, pc)
  /\ fails' = fails - 1
  /\ UNCHANGED <<held, ran, check, left, probed, stop, closer>>

(* None is owed any more, or the connect or AUTH fails: until the next minute. *)
CheckEnd ==
  /\ check = "reconnect"
  /\ check' = "timer"
  /\ left' = 0
  /\ UNCHANGED <<pool, userVars, live, probed, fails, stop, closer>>
-------------------------------------------------------------------------------
(* main calls Close, which sets the flag without the mutex, ... *)
Close ==
  /\ closer = "none"
  /\ stop' = TRUE
  /\ closer' = "notify"
  /\ UNCHANGED <<pool, userVars, live, checkVars>>

(* ... notifies every waiter ... *)
CloseNotify ==
  /\ closer = "notify"
  /\ pc' = [t \in Thread |-> IF pc[t] = "waiting" THEN "get" ELSE pc[t]]
  /\ closer' = "join"
  /\ UNCHANGED <<pool, held, ran, live, checkVars, stop>>

(* ... and joins the check thread. *)
CloseJoin ==
  /\ closer = "join"
  /\ check = "ended"
  /\ closer' = "closed"
  /\ UNCHANGED <<pool, userVars, live, checkVars, stop>>

Command(t) ==
  \/ GetTake(t) \/ GetNull(t) \/ GetNothing(t) \/ Wait(t)
  \/ HDel(t) \/ ReturnByHand(t) \/ ReturnByDefer(t)

Checker ==
  \/ CheckBegin \/ CheckTake \/ CheckDone \/ CheckAlive \/ CheckDead
  \/ Reconnect \/ CheckEnd

Closer == CloseNotify \/ CloseJoin

Next ==
  \/ \E t \in Thread : Begin(t) \/ Command(t) \/ Spurious(t)
  \/ Checker
  \/ Close \/ Closer

(* The threads of the servers go on, redisCommand returns, and the check thread
   does not reconnect for ever; nobody need begin a command or close the pool. *)
Fairness ==
  /\ \A t \in Thread : WF_vars(Command(t))
  /\ WF_vars(Checker)
  /\ WF_vars(Closer)

Spec == Init /\ [][Next]_vars /\ Fairness
-------------------------------------------------------------------------------
TypeOK ==
  /\ pool \in Seq(Ctx)
  /\ held \in [Thread -> Ctx \cup {None}]
  /\ pc \in [Thread -> {"idle", "get", "sleep", "waiting", "work", "defer"}]
  /\ ran \in [Thread -> 0..MaxRuns]
  /\ live \in SUBSET Ctx
  /\ check \in {"timer", "take", "probe", "reconnect", "ended"}
  /\ left \in Nat
  /\ probed \in Ctx \cup {None}
  /\ fails \in Nat
  /\ stop \in BOOLEAN
  /\ closer \in {"none", "notify", "join", "closed"}

inPool(c) == \E i \in 1..Len(pool) : pool[i] = c

(* While the pool is open no thread is forgotten in its wait: every pointer in
   the queue has a thread on its way to it, the ones a reconnect brings too. *)
NoneForgotten ==
  (~stop /\ At("waiting") # {}) => Len(pool) <= Cardinality(At("get"))

(* What makes it inductive: a thread that is about to wait keeps the mutex, so
   that the queue is still empty when it waits. *)
Waiters ==
  /\ NoneForgotten
  /\ At("sleep") # {} => pool = <<>>

(* While the pool is open no connection leaks: what is allocated is in the
   queue, in the hands of a thread, or being checked. *)
NoLeak ==
  ~stop => \A c \in live :
             inPool(c) \/ probed = c \/ \E t \in Thread : held[t] = c

(* What fails is replaced: the connections there are and those owed are never
   fewer than there were at the start. *)
NeverFewer ==
  Cardinality(live) + fails >= Cardinality({Start[i] : i \in 1..Len(Start)})

(* Who holds what: a thread at work has a pointer, one that waits has none. *)
Holding ==
  /\ \A t \in Thread : held[t] # None <=> pc[t] \in {"work", "defer"}
  /\ check = "probe" <=> probed # None
  /\ check = "probe" => left > 0
  /\ closer # "none" <=> stop

IInv == TypeOK /\ NoLeak /\ NeverFewer /\ Holding

(* Close returns: the check thread finds the flag whatever it is doing. *)
CloseReturns == stop ~> (closer = "closed")

(* Cpp_note.md:5788: a thread is given a connection of its own. *)
OneUser ==
  \A t, u \in At("work") : t # u => held[t] # held[u]
=============================================================================
