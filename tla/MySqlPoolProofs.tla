--------------------------- MODULE MySqlPoolProofs ---------------------------
(***************************************************************************)
(* Proofs about MySqlPool, for any threads and any finite set of           *)
(* connections: it keeps its types, a connection is in one place at a      *)
(* time, none is lost while the pool is open, and up to the first          *)
(* reconnect no waiter is forgotten.                                       *)
(***************************************************************************)
EXTENDS MySqlPool, FiniteSetTheorems, TLAPS

(* The size of a set of connections is a number. *)
LEMMA Sizes ==
  ASSUME NEW S \in SUBSET Slot
  PROVE  Cardinality(S) \in Nat
<1>1. IsFiniteSet(S)
  BY PoolAssumption, FS_Subset
<1>2. QED
  BY <1>1, FS_CardinalityType

(* A notification moves one thread at most, to its test. *)
LEMMA NotifiedTypes ==
  ASSUME NEW places \in [Thread -> {"idle", "get", "sleep", "waiting", "work"}],
         NEW q \in Notified(places)
  PROVE  q \in [Thread -> {"idle", "get", "sleep", "waiting", "work"}]
<1>1. CASE \E w \in Thread : places[w] = "waiting"
  BY <1>1 DEF Notified
<1>2. CASE ~ \E w \in Thread : places[w] = "waiting"
  BY <1>2 DEF Notified
<1>3. QED
  BY <1>1, <1>2

LEMMA InitInductive == Init => IInv
<1> SUFFICES ASSUME Init
             PROVE  IInv
  OBVIOUS
<1> USE DEF Init
<1>1. TypeOK
  BY DEF TypeOK
<1>2. OnePlace
  BY DEF OnePlace
<1>3. NoneLost
  BY DEF NoneLost
<1>4. Probing
  BY DEF Probing
<1>5. QED
  BY <1>1, <1>2, <1>3, <1>4 DEF IInv

(* The steps of a thread that move no connection. *)
LEMMA PlaceMovesInductive ==
  ASSUME IInv, NEW t \in Thread,
         \/ Begin(t) \/ BeginNested(t) \/ GetNull(t) \/ GetNothing(t) \/ Wait(t) \/ Spurious(t)
  PROVE  IInv'
<1>1. UNCHANGED <<pool, held, checkVars, stop, closer, renewed>>
  BY DEF Begin, BeginNested, GetNull, GetNothing, Wait, Spurious
<1>2. pc' \in [Thread -> {"idle", "get", "sleep", "waiting", "work"}]
  BY DEF IInv, TypeOK, Begin, BeginNested, GetNull, GetNothing, Wait, Spurious
<1>3. QED
  BY <1>1, <1>2 DEF IInv, TypeOK, OnePlace, NoneLost, Probing, checkVars

LEMMA GetTakeInductive ==
  ASSUME IInv, NEW t \in Thread, GetTake(t)
  PROVE  IInv'
<1>1. PICK s \in pool : /\ pool' = pool \ {s}
                        /\ held' = [held EXCEPT ![t] = @ \cup {s}]
  BY DEF GetTake
<1>2. UNCHANGED <<checkVars, stop, closer, renewed>>
  BY DEF GetTake
<1>3. TypeOK'
  BY <1>1, <1>2 DEF GetTake, IInv, TypeOK, checkVars
<1>4. OnePlace'
  BY <1>1, <1>2 DEF IInv, TypeOK, OnePlace, checkVars
<1>5. NoneLost'
  <2>1. held'[t] = held[t] \cup {s} /\ \A u \in Thread \ {t} : held'[u] = held[u]
    BY <1>1 DEF IInv, TypeOK
  <2>2. UNION {held'[u] : u \in Thread} = {s} \cup UNION {held[u] : u \in Thread}
    BY <2>1
  <2>3. QED
    BY <1>1, <1>2, <2>2 DEF IInv, TypeOK, NoneLost, checkVars
<1>6. Probing'
  BY <1>2 DEF IInv, Probing, checkVars
<1>7. QED
  BY <1>3, <1>4, <1>5, <1>6 DEF IInv

LEMMA ReturnInductive ==
  ASSUME IInv, NEW t \in Thread, Return(t)
  PROVE  IInv'
<1>1. PICK s \in held[t] : /\ held' = [held EXCEPT ![t] = @ \ {s}]
                           /\ IF stop
                              THEN /\ pool' = pool
                                   /\ pc' = Returned(t, s)
                              ELSE /\ pool' = pool \cup {s}
                                   /\ pc' \in Notified(Returned(t, s))
  BY DEF Return
<1>2. UNCHANGED <<checkVars, stop, closer, renewed>>
  BY DEF Return
<1>3. Returned(t, s) \in [Thread -> {"idle", "get", "sleep", "waiting", "work"}]
  BY DEF IInv, TypeOK, Returned
<1>4. pc' \in [Thread -> {"idle", "get", "sleep", "waiting", "work"}]
  BY <1>1, <1>3, NotifiedTypes
<1>5. TypeOK'
  BY <1>1, <1>2, <1>4 DEF IInv, TypeOK, checkVars
<1>6. OnePlace'
  BY <1>1, <1>2 DEF IInv, TypeOK, OnePlace, checkVars
<1>7. NoneLost'
  <2>1. held'[t] = held[t] \ {s} /\ \A u \in Thread \ {t} : held'[u] = held[u]
    BY <1>1 DEF IInv, TypeOK
  <2>2. {s} \cup UNION {held'[u] : u \in Thread} = UNION {held[u] : u \in Thread}
    BY <2>1
  <2>3. QED
    BY <1>1, <1>2, <2>2 DEF IInv, TypeOK, NoneLost, checkVars
<1>8. Probing'
  BY <1>2 DEF IInv, Probing, checkVars
<1>9. QED
  BY <1>5, <1>6, <1>7, <1>8 DEF IInv

LEMMA CheckerInductive ==
  ASSUME IInv, Checker
  PROVE  IInv'
<1>1. CASE CheckBegin
  <2>1. Cardinality(pool) \in Nat
    BY Sizes DEF IInv, TypeOK
  <2>2. QED
    BY <1>1, <2>1 DEF CheckBegin, IInv, TypeOK, OnePlace, NoneLost, Probing
<1>2. CASE CheckTake
  <2>1. PICK s \in pool : pool' = pool \ {s} /\ probed' = {s}
    BY <1>2 DEF CheckTake
  <2>2. probed = {}
    BY <1>2 DEF CheckTake, IInv, Probing
  <2>3. QED
    BY <1>2, <2>1, <2>2 DEF CheckTake, IInv, TypeOK, OnePlace, NoneLost, Probing
<1>3. CASE CheckDone
  BY <1>3 DEF CheckDone, IInv, TypeOK, OnePlace, NoneLost, Probing
<1>4. CASE CheckHealthy
  <2>1. pc' \in [Thread -> {"idle", "get", "sleep", "waiting", "work"}]
    BY <1>4, NotifiedTypes DEF CheckHealthy, IInv, TypeOK
  <2>2. left' \in Nat
    BY <1>4 DEF CheckHealthy, IInv, TypeOK, Probing
  <2>3. QED
    BY <1>4, <2>1, <2>2 DEF CheckHealthy, IInv, TypeOK, OnePlace, NoneLost, Probing
<1>5. CASE CheckBroken
  <2>1. left' \in Nat
    BY <1>5 DEF CheckBroken, IInv, TypeOK, Probing
  <2>2. QED
    BY <1>5, <2>1 DEF CheckBroken, IInv, TypeOK, OnePlace, NoneLost, Probing
<1>6. CASE Reconnect
  <2>1. PICK s \in lost : lost' = lost \ {s} /\ pool' = pool \cup {s}
    BY <1>6 DEF Reconnect
  <2>2. QED
    BY <1>6, <2>1 DEF Reconnect, IInv, TypeOK, OnePlace, NoneLost, Probing
<1>7. CASE CheckEnd
  BY <1>7 DEF CheckEnd, IInv, TypeOK, OnePlace, NoneLost, Probing
<1>8. QED
  BY <1>1, <1>2, <1>3, <1>4, <1>5, <1>6, <1>7 DEF Checker

LEMMA CloserInductive ==
  ASSUME IInv, Closer
  PROVE  IInv'
<1>1. CASE Close
  BY <1>1 DEF Close, IInv, TypeOK, OnePlace, NoneLost, Probing, checkVars
<1>2. CASE CloseNotify
  BY <1>2 DEF CloseNotify, IInv, TypeOK, OnePlace, NoneLost, Probing, checkVars
<1>3. CASE Destroy
  BY <1>3 DEF Destroy, IInv, TypeOK, OnePlace, NoneLost, Probing, checkVars
<1>4. QED
  BY <1>1, <1>2, <1>3 DEF Closer

LEMMA StepInductive == IInv /\ [Next]_vars => IInv'
<1> SUFFICES ASSUME IInv, [Next]_vars
             PROVE  IInv'
  OBVIOUS
<1>1. ASSUME NEW t \in Thread, User(t)
      PROVE  IInv'
  BY <1>1, PlaceMovesInductive, GetTakeInductive, ReturnInductive DEF User
<1>2. CASE UNCHANGED vars
  BY <1>2 DEF vars, IInv, TypeOK, OnePlace, NoneLost, Probing
<1>3. QED
  BY <1>1, <1>2, CheckerInductive, CloserInductive DEF Next

(* Every reachable state satisfies the inductive invariant. *)
THEOREM Inductive == Spec => []IInv
<1>1. QED
  BY InitInductive, StepInductive, PTL DEF Spec

(* The pool keeps its types: the count of a checking round never runs below
   zero (MysqlDao.h:74-109). *)
THEOREM TypeCorrect == Spec => []TypeOK
<1>1. IInv => TypeOK
  BY DEF IInv
<1>2. QED
  BY <1>1, Inductive, PTL

(* A connection is never in two hands (MysqlDao.h:81, 104, 132, 191, 201). *)
THEOREM OneHolder == Spec => []OnePlace
<1>1. IInv => OnePlace
  BY DEF IInv
<1>2. QED
  BY <1>1, Inductive, PTL

(* While the pool is open every connection is in it, in use, being checked, or
   counted as one to replace (MysqlDao.h:96, 111-119). *)
THEOREM NothingLost == Spec => []NoneLost
<1>1. IInv => NoneLost
  BY DEF IInv
<1>2. QED
  BY <1>1, Inductive, PTL

-------------------------------------------------------------------------------
(* The threads at a place are a number. *)
LEMMA Crowds ==
  ASSUME NEW places \in [Thread -> {"idle", "get", "sleep", "waiting", "work"}], NEW place
  PROVE  /\ IsFiniteSet({t \in Thread : places[t] = place})
         /\ Cardinality({t \in Thread : places[t] = place}) \in Nat
<1>1. {t \in Thread : places[t] = place} \in SUBSET Thread
  OBVIOUS
<1>2. IsFiniteSet({t \in Thread : places[t] = place})
  BY <1>1, PoolAssumption, FS_Subset
<1>3. QED
  BY <1>2, FS_CardinalityType

(* One element more, or the same set, is at most one more. *)
LEMMA OneMore ==
  ASSUME NEW S, IsFiniteSet(S), NEW x
  PROVE  Cardinality(S \cup {x}) <= Cardinality(S) + 1 /\ Cardinality(S \cup {x}) \in Nat
<1>1. Cardinality(S) \in Nat
  BY FS_CardinalityType
<1>2. Cardinality(S \cup {x}) = IF x \in S THEN Cardinality(S) ELSE Cardinality(S) + 1
  BY FS_AddElement
<1>3. QED
  BY <1>1, <1>2

(* A notification after which a thread still waits has moved one to its test;
   it moves nobody to the wait. *)
LEMMA NotifiedCounts ==
  ASSUME NEW places \in [Thread -> {"idle", "get", "sleep", "waiting", "work"}],
         NEW q \in Notified(places)
  PROVE  LET Gets(p) == {t \in Thread : p[t] = "get"}
             Waits(p) == {t \in Thread : p[t] = "waiting"}
         IN /\ {t \in Thread : q[t] = "sleep"} = {t \in Thread : places[t] = "sleep"}
            /\ Waits(q) # {} => /\ Waits(places) # {}
                                /\ Cardinality(Gets(q)) = Cardinality(Gets(places)) + 1
<1> DEFINE Gets(p) == {t \in Thread : p[t] = "get"}
<1> DEFINE Waits(p) == {t \in Thread : p[t] = "waiting"}
<1>1. CASE \E w \in Thread : places[w] = "waiting"
  <2>1. PICK w \in Thread : places[w] = "waiting" /\ q = [places EXCEPT ![w] = "get"]
    BY <1>1 DEF Notified
  <2>2. {t \in Thread : q[t] = "sleep"} = {t \in Thread : places[t] = "sleep"}
    BY <2>1
  <2>3. w \notin Gets(places) /\ Gets(q) = Gets(places) \cup {w}
    BY <2>1
  <2>4. IsFiniteSet(Gets(places))
    BY Crowds
  <2>5. Cardinality(Gets(q)) = Cardinality(Gets(places)) + 1
    BY <2>3, <2>4, FS_AddElement
  <2>6. QED
    BY <1>1, <2>2, <2>5
<1>2. CASE ~ \E w \in Thread : places[w] = "waiting"
  BY <1>2 DEF Notified
<1>3. QED
  BY <1>1, <1>2

LEMMA InitWaiters == Init => Waiters
<1> SUFFICES ASSUME Init
             PROVE  Waiters
  OBVIOUS
<1>1. At("waiting") = {} /\ At("sleep") = {}
  BY DEF Init, At
<1>2. QED
  BY <1>1 DEF Init, Waiters, NoneForgotten

(* A step that leaves the pool and what is probed, and after which as many
   threads are on their way to the pool as before, or more. *)
LEMMA CalmWaiters ==
  ASSUME IInv, IInv', Waiters,
         UNCHANGED <<pool, stop, renewed>>, probed' \in SUBSET probed,
         At("get") \subseteq At("get")',
         At("waiting")' \subseteq At("waiting"),
         At("sleep")' \subseteq At("sleep")
  PROVE  Waiters'
<1>1. Cardinality(pool) \in Nat
  BY Sizes DEF IInv, TypeOK
<1>2. /\ IsFiniteSet(At("get")') /\ Cardinality(At("get")') \in Nat
      /\ Cardinality(At("get")) \in Nat
  <2>1. /\ pc \in [Thread -> {"idle", "get", "sleep", "waiting", "work"}]
        /\ pc' \in [Thread -> {"idle", "get", "sleep", "waiting", "work"}]
    BY DEF IInv, TypeOK
  <2>2. QED
    BY <2>1, Crowds DEF At
<1>3. Cardinality(At("get")) <= Cardinality(At("get")')
  BY <1>2, FS_Subset
<1>4. NoneForgotten'
  BY <1>1, <1>2, <1>3 DEF Waiters, NoneForgotten
<1>5. QED
  BY <1>4 DEF Waiters

(* A step by which a thread finds the pool empty, or begins to wait. *)
LEMMA EmptyWaiters ==
  ASSUME IInv, IInv', Waiters, UNCHANGED <<pool, probed>>, pool = {}
  PROVE  Waiters'
<1>1. pc' \in [Thread -> {"idle", "get", "sleep", "waiting", "work"}]
  BY DEF IInv, TypeOK
<1>2. Cardinality(At("get")') \in Nat
  BY <1>1, Crowds DEF At
<1>3. Cardinality(pool') = 0
  BY FS_EmptySet
<1>4. QED
  BY <1>2, <1>3 DEF Waiters, NoneForgotten

LEMMA UserWaiters ==
  ASSUME IInv, IInv', Waiters, NEW t \in Thread, User(t)
  PROVE  Waiters'
<1> DEFINE Place == {"idle", "get", "sleep", "waiting", "work"}
<1>1. pc \in [Thread -> Place] /\ pc' \in [Thread -> Place]
  BY DEF IInv, TypeOK
<1>2. CASE Begin(t) \/ BeginNested(t) \/ Spurious(t)
  <2>1. UNCHANGED <<pool, checkVars, stop, renewed>>
    BY <1>2 DEF Begin, BeginNested, Spurious
  <2>2. pc' = [pc EXCEPT ![t] = "get"]
    BY <1>2 DEF Begin, BeginNested, Spurious
  <2>3. /\ At("get") \subseteq At("get")'
        /\ At("waiting")' \subseteq At("waiting")
        /\ At("sleep")' \subseteq At("sleep")
    BY <1>1, <2>2 DEF At
  <2>4. QED
    BY <2>1, <2>3, CalmWaiters DEF checkVars
<1>3. CASE GetTake(t)
  <2>1. PICK s \in pool : pool' = pool \ {s}
    BY <1>3 DEF GetTake
  <2>2. /\ UNCHANGED <<probed, stop, renewed>>
        /\ pc[t] = "get" /\ pc' = [pc EXCEPT ![t] = "work"] /\ At("sleep") = {}
    BY <1>3 DEF GetTake, checkVars, unlocked
  <2>3. At("get")' = At("get") \ {t} /\ t \in At("get")
    BY <1>1, <2>2 DEF At
  <2>4. At("waiting")' = At("waiting") /\ At("sleep")' = {}
    BY <1>1, <2>2 DEF At
  <2>5. IsFiniteSet(At("get")) /\ Cardinality(At("get")) \in Nat
    BY <1>1, Crowds DEF At
  <2>6. IsFiniteSet(pool) /\ Cardinality(pool) \in Nat
    BY PoolAssumption, FS_Subset, Sizes DEF IInv, TypeOK
  <2>7. Cardinality(At("get")') = Cardinality(At("get")) - 1
    BY <2>3, <2>5, FS_RemoveElement
  <2>8. Cardinality(pool') = Cardinality(pool) - 1
    BY <2>1, <2>6, FS_RemoveElement
  <2>9. NoneForgotten'
    BY <2>2, <2>4, <2>5, <2>6, <2>7, <2>8 DEF Waiters, NoneForgotten
  <2>10. QED
    BY <2>2, <2>4, <2>9 DEF Waiters
<1>4. CASE GetNull(t)
  <2>1. UNCHANGED <<pool, probed, stop>> /\ stop /\ At("sleep") = {}
    BY <1>4 DEF GetNull, checkVars, unlocked
  <2>2. At("sleep")' = {}
    BY <1>1, <1>4, <2>1 DEF GetNull, At
  <2>3. QED
    BY <2>1, <2>2 DEF Waiters, NoneForgotten
<1>5. CASE GetNothing(t)
  <2>1. UNCHANGED <<pool, probed>> /\ pool = {}
    BY <1>5 DEF GetNothing, checkVars
  <2>2. QED
    BY <2>1, EmptyWaiters
<1>6. CASE Wait(t)
  <2>1. UNCHANGED <<pool, probed>> /\ t \in At("sleep")
    BY <1>6 DEF Wait, checkVars, At
  <2>2. QED
    BY <2>1, EmptyWaiters DEF Waiters
<1>7. CASE Return(t)
  <2>1. PICK s \in held[t] : IF stop
                             THEN /\ pool' = pool
                                  /\ pc' = Returned(t, s)
                             ELSE /\ pool' = pool \cup {s}
                                  /\ pc' \in Notified(Returned(t, s))
    BY <1>7 DEF Return
  <2>2. UNCHANGED <<probed, stop, renewed>> /\ At("sleep") = {} /\ pc[t] = "work"
    BY <1>7 DEF Return, checkVars, unlocked
  <2> DEFINE places == Returned(t, s)
  <2>3. places \in [Thread -> Place]
    BY <1>1 DEF Returned
  <2>4. /\ {u \in Thread : places[u] = "get"} = At("get")
        /\ {u \in Thread : places[u] = "waiting"} = At("waiting")
        /\ {u \in Thread : places[u] = "sleep"} = At("sleep")
    BY <1>1, <2>2 DEF Returned, At
  <2>5. CASE stop
    <3>1. At("sleep")' = {}
      BY <2>1, <2>2, <2>4, <2>5 DEF At
    <3>2. QED
      BY <2>2, <2>5, <3>1 DEF Waiters, NoneForgotten
  <2>6. CASE ~stop
    <3>1. pool' = pool \cup {s} /\ pc' \in Notified(places)
      BY <2>1, <2>6
    <3> HIDE DEF places
    <3>2. /\ At("sleep")' = {}
          /\ At("waiting")' # {} => /\ At("waiting") # {}
                                    /\ Cardinality(At("get")') = Cardinality(At("get")) + 1
      <4>1. /\ {u \in Thread : pc'[u] = "sleep"} = {u \in Thread : places[u] = "sleep"}
            /\ {u \in Thread : pc'[u] = "waiting"} # {} =>
                 /\ {u \in Thread : places[u] = "waiting"} # {}
                 /\ Cardinality({u \in Thread : pc'[u] = "get"}) =
                      Cardinality({u \in Thread : places[u] = "get"}) + 1
        BY <2>3, <3>1, NotifiedCounts
      <4>2. QED
        BY <2>2, <2>4, <4>1 DEF At
    <3>3. IsFiniteSet(pool) /\ Cardinality(pool) \in Nat
      BY PoolAssumption, FS_Subset, Sizes DEF IInv, TypeOK
    <3>4. Cardinality(pool') <= Cardinality(pool) + 1 /\ Cardinality(pool') \in Nat
      BY <3>1, <3>3, OneMore
    <3>5. Cardinality(At("get")) \in Nat
      BY <1>1, Crowds DEF At
    <3>6. NoneForgotten'
      BY <2>2, <3>2, <3>3, <3>4, <3>5 DEF Waiters, NoneForgotten
    <3>7. QED
      BY <2>2, <3>2, <3>6 DEF Waiters
  <2>7. QED
    BY <2>5, <2>6
<1>8. QED
  BY <1>2, <1>3, <1>4, <1>5, <1>6, <1>7 DEF User

LEMMA CheckerWaiters ==
  ASSUME IInv, IInv', Waiters, Checker
  PROVE  Waiters'
<1>1. /\ pc \in [Thread -> {"idle", "get", "sleep", "waiting", "work"}]
      /\ pc' \in [Thread -> {"idle", "get", "sleep", "waiting", "work"}]
  BY DEF IInv, TypeOK
<1>2. IsFiniteSet(pool) /\ Cardinality(pool) \in Nat
  BY PoolAssumption, FS_Subset, Sizes DEF IInv, TypeOK
<1>3. Cardinality(At("get")) \in Nat
  BY <1>1, Crowds DEF At
<1>4. CASE CheckBegin \/ CheckDone \/ CheckBroken \/ CheckEnd
  <2>1. UNCHANGED <<pool, pc, stop, renewed>> /\ probed' \in SUBSET probed
    BY <1>4 DEF CheckBegin, CheckDone, CheckBroken, CheckEnd
  <2>2. At("get")' = At("get") /\ At("waiting")' = At("waiting") /\ At("sleep")' = At("sleep")
    BY <2>1 DEF At
  <2>3. QED
    BY <2>1, <2>2, CalmWaiters
<1>5. CASE CheckTake
  <2>1. PICK s \in pool : pool' = pool \ {s} /\ probed' = {s}
    BY <1>5 DEF CheckTake
  <2>2. UNCHANGED <<pc, stop, renewed>> /\ At("sleep") = {}
    BY <1>5 DEF CheckTake, unlocked
  <2>3. At("get")' = At("get") /\ At("waiting")' = At("waiting") /\ At("sleep")' = {}
    BY <2>2 DEF At
  <2>4. Cardinality(pool') = Cardinality(pool) - 1
    BY <1>2, <2>1, FS_RemoveElement
  <2>5. NoneForgotten'
    BY <1>2, <1>3, <2>2, <2>3, <2>4 DEF Waiters, NoneForgotten
  <2>6. QED
    BY <2>1, <2>3, <2>5 DEF Waiters
<1>6. CASE CheckHealthy
  <2>1. /\ pool' = pool \cup probed /\ probed' = {} /\ pc' \in Notified(pc)
        /\ UNCHANGED <<stop, renewed>> /\ At("sleep") = {}
    BY <1>6 DEF CheckHealthy, unlocked
  <2>2. /\ At("sleep")' = {}
        /\ At("waiting")' # {} => /\ At("waiting") # {}
                                  /\ Cardinality(At("get")') = Cardinality(At("get")) + 1
    BY <1>1, <2>1, NotifiedCounts DEF At
  <2>3. Cardinality(pool') <= Cardinality(pool) + 1 /\ Cardinality(pool') \in Nat
    <3>1. CASE probed = {}
      BY <1>2, <2>1, <3>1
    <3>2. CASE probed # {}
      <4>1. PICK s \in probed : TRUE
        BY <3>2
      <4>2. probed = {s}
        BY <4>1 DEF Waiters
      <4>3. QED
        BY <1>2, <2>1, <4>2, OneMore
    <3>3. QED
      BY <3>1, <3>2
  <2>4. NoneForgotten'
    BY <1>2, <1>3, <2>1, <2>2, <2>3 DEF Waiters, NoneForgotten
  <2>5. QED
    BY <2>1, <2>2, <2>4 DEF Waiters
<1>7. CASE Reconnect
  <2>1. UNCHANGED <<pc, probed>> /\ renewed' /\ At("sleep") = {}
    BY <1>7 DEF Reconnect, unlocked
  <2>2. At("sleep")' = {}
    BY <2>1 DEF At
  <2>3. QED
    BY <2>1, <2>2 DEF Waiters, NoneForgotten
<1>8. QED
  BY <1>4, <1>5, <1>6, <1>7 DEF Checker

LEMMA CloserWaiters ==
  ASSUME IInv, IInv', Waiters, Closer
  PROVE  Waiters'
<1>1. stop'
  BY DEF Closer, Close, CloseNotify, Destroy, IInv, Probing
<1>2. probed' = probed /\ (pool' = pool \/ pool' = {})
  BY DEF Closer, Close, CloseNotify, Destroy, checkVars
<1>3. At("sleep")' = At("sleep")
  BY DEF Closer, Close, CloseNotify, Destroy, IInv, TypeOK, At
<1>4. QED
  BY <1>1, <1>2, <1>3 DEF Waiters, NoneForgotten

LEMMA StepWaiters == IInv /\ IInv' /\ Waiters /\ [Next]_vars => Waiters'
<1> SUFFICES ASSUME IInv, IInv', Waiters, [Next]_vars
             PROVE  Waiters'
  OBVIOUS
<1>1. CASE UNCHANGED vars
  BY <1>1 DEF vars, Waiters, NoneForgotten, At
<1>2. QED
  BY <1>1, UserWaiters, CheckerWaiters, CloserWaiters DEF Next

(* Up to the first reconnect, while a thread waits for a connection there are
   no more connections in the pool than threads on their way to take one:
   returnConnection and the keep-alive thread notify for each they give back,
   and a thread that is about to wait keeps the mutex
   (MysqlDao.h:104-106, 181-203). *)
THEOREM NoWaiterForgotten == Spec => []NoneForgotten
<1>1. Waiters => NoneForgotten
  BY DEF Waiters
<1>2. QED
  BY <1>1, InitWaiters, StepWaiters, Inductive, PTL DEF Spec
==============================================================================
