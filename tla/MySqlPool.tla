------------------------------ MODULE MySqlPool ------------------------------
(***************************************************************************)
(* The pool of MySQL connections of a ChatServer (MysqlDao.h, MySqlPool):  *)
(* a queue, a mutex, a condition variable, a keep-alive thread that        *)
(* replaces what broke, and a stop flag.                                   *)
(*                                                                         *)
(* A slot is a connection, or the reconnect that is owed for a broken one: *)
(* _fail_count is the number of slots in "lost".  Connections are alike    *)
(* and the order of the queue does not matter here, so it is a set.        *)
(*                                                                         *)
(* A critical section is one step, but for the wait of getConnection: its  *)
(* predicate reads b_stop_, which Close sets without the mutex, so that    *)
(* the test and the wait are two steps.  A thread in between holds the     *)
(* mutex.                                                                  *)
(***************************************************************************)
EXTENDS Naturals, FiniteSets

CONSTANTS
  Slot,     \* what the constructor put into the pool
  Thread,   \* the threads that call the DAO: the logic thread, gRPC threads
  Nesting   \* those that run GetFriendList, which calls GetUser for each row

ASSUME PoolAssumption ==
  /\ Nesting \subseteq Thread
  /\ IsFiniteSet(Thread)
  /\ IsFiniteSet(Slot)

VARIABLES
  pool,     \* pool_
  held,     \* held[t]: the connections thread t has got and not returned
  pc,       \* where each thread is
  check,    \* where the keep-alive thread is
  left,     \* how many connections it still has to look at in this round
  probed,   \* the connection it has taken out of the pool
  lost,     \* the slots a reconnect is owed for
  stop,     \* b_stop_
  closer,   \* where the destructor of MysqlDao is
  renewed   \* a reconnect has put a connection into the pool (history)

vars == <<pool, held, pc, check, left, probed, lost, stop, closer, renewed>>

checkVars == <<check, left, probed, lost>>

Init ==
  /\ pool = Slot
  /\ held = [t \in Thread |-> {}]
  /\ pc = [t \in Thread |-> "idle"]
  /\ check = "timer"
  /\ left = 0
  /\ probed = {}
  /\ lost = {}
  /\ stop = FALSE
  /\ closer = "none"
  /\ renewed = FALSE

At(place) == {t \in Thread : pc[t] = place}

(* No thread is between its test and its wait, where it keeps the mutex. *)
unlocked == At("sleep") = {}

(* notify_one: a thread that waits, if there is one, goes to its test again. *)
Notified(places) ==
  IF \E w \in Thread : places[w] = "waiting"
  THEN {[places EXCEPT ![w] = "get"] : w \in {v \in Thread : places[v] = "waiting"}}
  ELSE {places}
-------------------------------------------------------------------------------
(* A DAO method begins: it needs a connection. *)
Begin(t) ==
  /\ pc[t] = "idle"
  /\ pc' = [pc EXCEPT ![t] = "get"]
  /\ UNCHANGED <<pool, held, checkVars, stop, closer, renewed>>

(* GetFriendList, for one row: GetUser needs another connection. *)
BeginNested(t) ==
  /\ pc[t] = "work"
  /\ t \in Nesting
  /\ Cardinality(held[t]) = 1
  /\ pc' = [pc EXCEPT ![t] = "get"]
  /\ UNCHANGED <<pool, held, checkVars, stop, closer, renewed>>

(* getConnection takes a connection; *)
GetTake(t) ==
  /\ pc[t] = "get"
  /\ unlocked
  /\ ~stop
  /\ \E s \in pool :
       /\ pool' = pool \ {s}
       /\ held' = [held EXCEPT ![t] = @ \cup {s}]
  /\ pc' = [pc EXCEPT ![t] = "work"]
  /\ UNCHANGED <<checkVars, stop, closer, renewed>>

(* or returns nullptr when the pool is closed: the method gives up, a
   GetFriendList goes on with its next row; *)
GetNull(t) ==
  /\ pc[t] = "get"
  /\ unlocked
  /\ stop
  /\ pc' = [pc EXCEPT ![t] = IF held[t] = {} THEN "idle" ELSE "work"]
  /\ UNCHANGED <<pool, held, checkVars, stop, closer, renewed>>

(* or finds nothing, and will wait; *)
GetNothing(t) ==
  /\ pc[t] = "get"
  /\ unlocked
  /\ ~stop
  /\ pool = {}
  /\ pc' = [pc EXCEPT ![t] = "sleep"]
  /\ UNCHANGED <<pool, held, checkVars, stop, closer, renewed>>

(* and waits. *)
Wait(t) ==
  /\ pc[t] = "sleep"
  /\ pc' = [pc EXCEPT ![t] = "waiting"]
  /\ UNCHANGED <<pool, held, checkVars, stop, closer, renewed>>

(* A condition variable may wake a waiter for no reason. *)
Spurious(t) ==
  /\ pc[t] = "waiting"
  /\ pc' = [pc EXCEPT ![t] = "get"]
  /\ UNCHANGED <<pool, held, checkVars, stop, closer, renewed>>

(* The thread's own place once it has returned s. *)
Returned(t, s) == [pc EXCEPT ![t] = IF held[t] = {s} THEN "idle" ELSE "work"]

(* Mutant: nobody is notified of the connection. *)
ReturnQuietly(t) ==
  /\ pc[t] = "work"
  /\ unlocked
  /\ \E s \in held[t] :
       /\ held' = [held EXCEPT ![t] = @ \ {s}]
       /\ pool' = IF stop THEN pool ELSE pool \cup {s}
       /\ pc' = Returned(t, s)
  /\ UNCHANGED <<checkVars, stop, closer, renewed>>

(* The Defer object of a method, on every way out of it, calls
   returnConnection: the connection goes back and one waiter is notified, or it
   is destroyed if the pool is closed. *)
Return(t) ==
  /\ pc[t] = "work"
  /\ unlocked
  /\ \E s \in held[t] :
       /\ held' = [held EXCEPT ![t] = @ \ {s}]
       /\ IF stop
          THEN /\ pool' = pool
               /\ pc' = Returned(t, s)
          ELSE /\ pool' = pool \cup {s}
               /\ pc' \in Notified(Returned(t, s))
  /\ UNCHANGED <<checkVars, stop, closer, renewed>>
-------------------------------------------------------------------------------
(* The keep-alive thread, each minute: how many connections are there now?  It
   ends when it finds the pool closed. *)
CheckBegin ==
  /\ check = "timer"
  /\ unlocked
  /\ IF stop
     THEN /\ check' = "ended"
          /\ UNCHANGED left
     ELSE /\ check' = "take"
          /\ left' = Cardinality(pool)
  /\ UNCHANGED <<pool, held, pc, probed, lost, stop, closer, renewed>>

(* Take one of them out ... *)
CheckTake ==
  /\ check = "take"
  /\ unlocked
  /\ left > 0
  /\ \E s \in pool :
       /\ pool' = pool \ {s}
       /\ probed' = {s}
  /\ check' = "probe"
  /\ UNCHANGED <<held, pc, left, lost, stop, closer, renewed>>

(* ... until all have been looked at, or the others took them. *)
CheckDone ==
  /\ check = "take"
  /\ unlocked
  /\ left = 0 \/ pool = {}
  /\ check' = "reconnect"
  /\ UNCHANGED <<pool, held, pc, left, probed, lost, stop, closer, renewed>>

(* It was used lately, or SELECT 1 works: it goes back, one waiter notified. *)
CheckHealthy ==
  /\ check = "probe"
  /\ unlocked
  /\ pool' = pool \cup probed
  /\ probed' = {}
  /\ pc' \in Notified(pc)
  /\ left' = left - 1
  /\ check' = "take"
  /\ UNCHANGED <<held, lost, stop, closer, renewed>>

(* Mutant: the broken connection is not counted. *)
CheckBrokenForgotten ==
  /\ check = "probe"
  /\ probed' = {}
  /\ left' = left - 1
  /\ check' = "take"
  /\ UNCHANGED <<pool, held, pc, lost, stop, closer, renewed>>

(* SELECT 1 throws: the connection is destroyed and counted in _fail_count. *)
CheckBroken ==
  /\ check = "probe"
  /\ lost' = lost \cup probed
  /\ probed' = {}
  /\ left' = left - 1
  /\ check' = "take"
  /\ UNCHANGED <<pool, held, pc, stop, closer, renewed>>

(* Mutant: the failures are not counted down. *)
ReconnectUncounted ==
  /\ check = "reconnect"
  /\ unlocked
  /\ \E s \in lost : pool' = pool \cup {s}
  /\ renewed' = TRUE
  /\ UNCHANGED <<held, pc, check, left, probed, lost, stop, closer>>

(* A new connection for a broken one: pushed, and nobody is notified. *)
Reconnect ==
  /\ check = "reconnect"
  /\ unlocked
  /\ \E s \in lost :
       /\ lost' = lost \ {s}
       /\ pool' = pool \cup {s}
  /\ renewed' = TRUE
  /\ UNCHANGED <<held, pc, check, left, probed, stop, closer>>

(* None is owed any more, or the connect throws: until the next minute. *)
CheckEnd ==
  /\ check = "reconnect"
  /\ check' = "timer"
  /\ left' = 0
  /\ UNCHANGED <<pool, held, pc, probed, lost, stop, closer, renewed>>
-------------------------------------------------------------------------------
(* ~MysqlDao calls Close, which sets the flag without the mutex ... *)
Close ==
  /\ closer = "none"
  /\ stop' = TRUE
  /\ closer' = "notify"
  /\ UNCHANGED <<pool, held, pc, checkVars, renewed>>

(* ... and notifies every waiter. *)
CloseNotify ==
  /\ closer = "notify"
  /\ pc' = [t \in Thread |-> IF pc[t] = "waiting" THEN "get" ELSE pc[t]]
  /\ closer' = "closed"
  /\ UNCHANGED <<pool, held, checkVars, stop, renewed>>

(* ~MySqlPool empties the pool.  What a thread that is still in the pool does
   afterwards is undefined; here it goes on. *)
Destroy ==
  /\ closer = "closed"
  /\ unlocked
  /\ pool' = {}
  /\ closer' = "gone"
  /\ UNCHANGED <<held, pc, checkVars, stop, renewed>>

User(t) ==
  \/ Begin(t) \/ BeginNested(t)
  \/ GetTake(t) \/ GetNull(t) \/ GetNothing(t) \/ Wait(t) \/ Spurious(t)
  \/ Return(t)

Checker ==
  \/ CheckBegin \/ CheckTake \/ CheckDone \/ CheckHealthy \/ CheckBroken
  \/ Reconnect \/ CheckEnd

Closer == Close \/ CloseNotify \/ Destroy

Next == (\E t \in Thread : User(t)) \/ Checker \/ Closer

Spec == Init /\ [][Next]_vars
-------------------------------------------------------------------------------
TypeOK ==
  /\ pool \in SUBSET Slot
  /\ held \in [Thread -> SUBSET Slot]
  /\ pc \in [Thread -> {"idle", "get", "sleep", "waiting", "work"}]
  /\ check \in {"timer", "take", "probe", "reconnect", "ended"}
  /\ left \in Nat
  /\ probed \in SUBSET Slot
  /\ lost \in SUBSET Slot
  /\ stop \in BOOLEAN
  /\ closer \in {"none", "notify", "closed", "gone"}
  /\ renewed \in BOOLEAN

(* A connection is in one place: in the pool, with one thread, with the
   keep-alive thread, or waiting to be replaced; so that the pool never gets
   more connections than it was made with. *)
OnePlace ==
  /\ pool \cap (probed \cup lost) = {}
  /\ probed \cap lost = {}
  /\ \A t \in Thread :
       /\ held[t] \cap (pool \cup probed \cup lost) = {}
       /\ \A u \in Thread \ {t} : held[t] \cap held[u] = {}

(* While the pool is open no connection is lost to it: each is in the pool, in
   use, being checked, or will be replaced. *)
NoneLost ==
  ~stop => pool \cup probed \cup lost \cup UNION {held[t] : t \in Thread} = Slot

(* What makes them inductive: the keep-alive thread has a connection out only
   while it probes it, and then its round is not over; the pool is emptied
   after it was closed. *)
Probing ==
  /\ check = "probe" => left > 0
  /\ check # "probe" => probed = {}
  /\ closer # "none" => stop

IInv == TypeOK /\ OnePlace /\ NoneLost /\ Probing

(* Up to the first reconnect: while a thread waits, every connection in the pool
   has a thread on its way to it, so that no waiter is forgotten. *)
NoneForgotten ==
  (~renewed /\ ~stop /\ At("waiting") # {}) => Cardinality(pool) <= Cardinality(At("get"))

(* What makes it inductive: a thread that is about to wait keeps the mutex, so
   that the pool is still empty when it waits; and the keep-alive thread gives
   back one connection at a time, which the one thread it notifies stands for. *)
Waiters ==
  /\ NoneForgotten
  /\ At("sleep") # {} => pool = {}
  /\ \A a, b \in probed : a = b

==============================================================================
