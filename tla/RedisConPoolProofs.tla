------------------------- MODULE RedisConPoolProofs -------------------------
(***************************************************************************)
(* Theorems about RedisConPool: its types, that no connection leaks, that  *)
(* what failed is replaced and that no waiter is forgotten, for any finite *)
(* number of threads and of contexts.  The inductive invariants are IInv   *)
(* and Waiters of RedisConPool.tla.                                        *)
(***************************************************************************)
EXTENDS RedisConPool, FiniteSetTheorems, TLAPS

(* Tail keeps every element but the first. *)
LEMMA Popped ==
  ASSUME NEW S, NEW q \in Seq(S), q # <<>>
  PROVE  /\ Tail(q) \in Seq(S) /\ Head(q) \in S
         /\ \A i \in 1..Len(q) :
              q[i] = Head(q) \/ \E j \in 1..Len(Tail(q)) : Tail(q)[j] = q[i]
<1>1. /\ Tail(q) \in Seq(S) /\ Head(q) \in S /\ Len(q) \in Nat
      /\ Len(Tail(q)) = Len(q) - 1
      /\ \A j \in 1..Len(Tail(q)) : Tail(q)[j] = q[j + 1]
      /\ Head(q) = q[1]
  OBVIOUS
<1>2. ASSUME NEW i \in 1..Len(q), i # 1
      PROVE  \E j \in 1..Len(Tail(q)) : Tail(q)[j] = q[i]
  <2>1. i - 1 \in 1..Len(Tail(q)) /\ (i - 1) + 1 = i
    BY <1>1, <1>2
  <2>2. Tail(q)[i - 1] = q[i]
    BY <1>1, <2>1
  <2>3. QED
    BY <2>1, <2>2
<1>3. QED
  BY <1>1, <1>2

(* Append keeps every element and adds one. *)
LEMMA Appended ==
  ASSUME NEW S, NEW q \in Seq(S), NEW e \in S
  PROVE  /\ Append(q, e) \in Seq(S)
         /\ \E j \in 1..Len(Append(q, e)) : Append(q, e)[j] = e
         /\ \A i \in 1..Len(q) : i \in 1..Len(Append(q, e)) /\ Append(q, e)[i] = q[i]
<1>1. /\ Append(q, e) \in Seq(S) /\ Len(q) \in Nat
      /\ Len(Append(q, e)) = Len(q) + 1
      /\ Append(q, e)[Len(q) + 1] = e
      /\ \A i \in 1..Len(q) : Append(q, e)[i] = q[i]
  OBVIOUS
<1>2. Len(q) + 1 \in 1..Len(Append(q, e))
  BY <1>1
<1>3. \A i \in 1..Len(q) : i \in 1..Len(Append(q, e))
  BY <1>1
<1>4. QED
  BY <1>1, <1>2, <1>3

(* A notify moves a thread from its wait to its test, and nobody else. *)
LEMMA NotifiedTypes ==
  ASSUME NEW places \in [Thread -> {"idle", "get", "sleep", "waiting", "work", "defer"}],
         NEW p \in Notified(places)
  PROVE  /\ p \in [Thread -> {"idle", "get", "sleep", "waiting", "work", "defer"}]
         /\ \A t \in Thread : p[t] \in {"work", "defer"} <=> places[t] \in {"work", "defer"}
<1>1. CASE p = places
  BY <1>1
<1>2. CASE \E w \in Thread : places[w] = "waiting" /\ p = [places EXCEPT ![w] = "get"]
  BY <1>2
<1>3. QED
  BY <1>1, <1>2 DEF Notified

(* What returnConnection does. *)
LEMMA GivenBack ==
  ASSUME pool \in Seq(Ctx), NEW c \in Ctx,
         NEW places \in [Thread -> {"idle", "get", "sleep", "waiting", "work", "defer"}],
         GiveBack(c, places)
  PROVE  /\ pool' \in Seq(Ctx)
         /\ pc' \in [Thread -> {"idle", "get", "sleep", "waiting", "work", "defer"}]
         /\ \A t \in Thread : pc'[t] \in {"work", "defer"} <=> places[t] \in {"work", "defer"}
         /\ \A d : inPool(d) => inPool(d)'
         /\ ~stop => \E i \in 1..Len(pool') : pool'[i] = c
<1>1. CASE stop
  BY <1>1 DEF GiveBack, inPool
<1>2. CASE ~stop
  <2>1. pool' = Append(pool, c) /\ pc' \in Notified(places)
    BY <1>2 DEF GiveBack
  <2>2. QED
    BY <2>1, Appended, NotifiedTypes DEF inPool
<1>3. QED
  BY <1>1, <1>2

LEMMA InitInductive == Init => IInv
<1> SUFFICES ASSUME Init PROVE IInv
  OBVIOUS
<1> USE RedisAssumption
<1>1. live \in SUBSET Ctx
  BY DEF Init
<1>2. TypeOK
  <2>1. pool \in Seq(Ctx)
    BY DEF Init
  <2>2. /\ held \in [Thread -> Ctx \cup {None}]
        /\ pc \in [Thread -> {"idle", "get", "sleep", "waiting", "work", "defer"}]
        /\ ran \in [Thread -> 0..MaxRuns]
    BY DEF Init
  <2>3. /\ check = "timer" /\ left = 0 /\ probed = None /\ fails = 0
        /\ stop = FALSE /\ closer = "none"
    BY DEF Init
  <2>4. QED
    BY <1>1, <2>1, <2>2, <2>3 DEF TypeOK
<1>3. NoLeak
  BY DEF Init, NoLeak, inPool
<1>4. Holding
  BY DEF Init, Holding
<1>5. NeverFewer
  <2>1. IsFiniteSet(live)
    BY <1>1, FS_Subset
  <2>2. Cardinality(live) \in Nat
    BY <2>1, FS_CardinalityType
  <2>3. QED
    BY <2>2 DEF Init, NeverFewer
<1>6. QED
  BY <1>2, <1>3, <1>4, <1>5 DEF IInv

(* Steps that only move threads that hold nothing. *)
LEMMA MovesInductive ==
  ASSUME IInv, NEW t \in Thread,
         \/ Begin(t) \/ GetNull(t) \/ GetNothing(t) \/ Wait(t) \/ Spurious(t) \/ HDel(t)
  PROVE  IInv'
<1> USE DEF IInv
<1>1. UNCHANGED <<pool, held, live, checkVars, stop, closer>>
  BY DEF Begin, GetNull, GetNothing, Wait, Spurious, HDel
<1>2. ran' \in [Thread -> 0..MaxRuns]
  BY RedisAssumption DEF Begin, GetNull, GetNothing, Wait, Spurious, HDel, TypeOK
<1>3. PICK p \in {"idle", "get", "sleep", "waiting", "defer"} :
        /\ pc' = [pc EXCEPT ![t] = p]
        /\ p = "defer" <=> pc[t] \in {"work", "defer"}
  BY DEF Begin, GetNull, GetNothing, Wait, Spurious, HDel
<1>4. TypeOK'
  BY <1>1, <1>2, <1>3 DEF TypeOK, checkVars
<1>5. Holding'
  BY <1>1, <1>3 DEF Holding, TypeOK, checkVars
<1>6. NoLeak' /\ NeverFewer'
  BY <1>1 DEF NoLeak, NeverFewer, inPool, checkVars
<1>7. QED
  BY <1>4, <1>5, <1>6

LEMMA GetTakeInductive ==
  ASSUME IInv, NEW t \in Thread, GetTake(t)
  PROVE  IInv'
<1> USE DEF IInv
<1>1. /\ pc[t] = "get" /\ pool # <<>>
      /\ held' = [held EXCEPT ![t] = Head(pool)]
      /\ pool' = Tail(pool)
      /\ pc' = [pc EXCEPT ![t] = "work"]
      /\ UNCHANGED <<ran, live, check, left, probed, fails, stop, closer>>
  BY DEF GetTake, checkVars
<1>2. /\ Tail(pool) \in Seq(Ctx) /\ Head(pool) \in Ctx
      /\ \A c : inPool(c) => c = Head(pool) \/ inPool(c)'
  BY <1>1, Popped DEF TypeOK, inPool
<1>3. TypeOK'
  BY <1>1, <1>2 DEF TypeOK
<1>4. held[t] = None /\ Head(pool) # None
  BY <1>1, <1>2, RedisAssumption DEF Holding
<1>5. Holding'
  BY <1>1, <1>4 DEF Holding, TypeOK
<1>6. NoLeak'
  <2>1. held'[t] = Head(pool) /\ \A u \in Thread \ {t} : held'[u] = held[u]
    BY <1>1 DEF TypeOK
  <2>2. ASSUME ~stop, NEW c \in live
        PROVE  inPool(c)' \/ probed' = c \/ \E u \in Thread : held'[u] = c
    <3>1. CASE inPool(c)
      BY <1>2, <2>1, <3>1
    <3>2. CASE probed = c
      BY <1>1, <3>2
    <3>3. CASE \E u \in Thread : held[u] = c
      <4>1. c # None
        BY <2>2, RedisAssumption DEF TypeOK
      <4>2. QED
        BY <1>4, <2>1, <3>3, <4>1
    <3>4. QED
      BY <2>2, <3>1, <3>2, <3>3 DEF NoLeak
  <2>3. QED
    BY <1>1, <2>2 DEF NoLeak
<1>7. NeverFewer'
  BY <1>1 DEF NeverFewer
<1>8. QED
  BY <1>3, <1>5, <1>6, <1>7

LEMMA ReturnByHandInductive ==
  ASSUME IInv, NEW t \in Thread, ReturnByHand(t)
  PROVE  IInv'
<1> USE DEF IInv
<1> DEFINE places == [pc EXCEPT ![t] = "defer"]
<1>1. /\ pc[t] = "work" /\ GiveBack(held[t], places)
      /\ UNCHANGED <<held, ran, live, check, left, probed, fails, stop, closer>>
  BY DEF ReturnByHand, checkVars
<1>2. /\ places \in [Thread -> {"idle", "get", "sleep", "waiting", "work", "defer"}]
      /\ \A u \in Thread : places[u] \in {"work", "defer"} <=> pc[u] \in {"work", "defer"}
  BY <1>1 DEF TypeOK
<1>3. held[t] \in Ctx
  BY <1>1 DEF TypeOK, Holding
<1> HIDE DEF places
<1>4. /\ pool' \in Seq(Ctx)
      /\ pc' \in [Thread -> {"idle", "get", "sleep", "waiting", "work", "defer"}]
      /\ \A u \in Thread : pc'[u] \in {"work", "defer"} <=> places[u] \in {"work", "defer"}
      /\ \A d : inPool(d) => inPool(d)'
  BY <1>1, <1>2, <1>3, GivenBack DEF TypeOK
<1>5. TypeOK'
  BY <1>1, <1>4 DEF TypeOK
<1>6. Holding'
  BY <1>1, <1>2, <1>4 DEF Holding
<1>7. NoLeak' /\ NeverFewer'
  BY <1>1, <1>4 DEF NoLeak, NeverFewer
<1>8. QED
  BY <1>5, <1>6, <1>7

LEMMA ReturnByDeferInductive ==
  ASSUME IInv, NEW t \in Thread, ReturnByDefer(t)
  PROVE  IInv'
<1> USE DEF IInv
<1> DEFINE places == [pc EXCEPT ![t] = "idle"]
<1>1. /\ pc[t] = "defer" /\ GiveBack(held[t], places)
      /\ held' = [held EXCEPT ![t] = None]
      /\ UNCHANGED <<ran, live, check, left, probed, fails, stop, closer>>
  BY DEF ReturnByDefer, checkVars
<1>2. /\ places \in [Thread -> {"idle", "get", "sleep", "waiting", "work", "defer"}]
      /\ places[t] = "idle"
      /\ \A u \in Thread \ {t} : places[u] = pc[u]
  BY <1>1 DEF TypeOK
<1>3. held[t] \in Ctx
  BY <1>1 DEF TypeOK, Holding
<1> HIDE DEF places
<1>4. /\ pool' \in Seq(Ctx)
      /\ pc' \in [Thread -> {"idle", "get", "sleep", "waiting", "work", "defer"}]
      /\ \A u \in Thread : pc'[u] \in {"work", "defer"} <=> places[u] \in {"work", "defer"}
      /\ \A d : inPool(d) => inPool(d)'
      /\ ~stop => \E i \in 1..Len(pool') : pool'[i] = held[t]
  <2>1. pool \in Seq(Ctx) /\ GiveBack(held[t], places)
    BY <1>1 DEF TypeOK
  <2> DEFINE c == held[t]
  <2>2. c \in Ctx /\ GiveBack(c, places)
    BY <1>3, <2>1
  <2> HIDE DEF c
  <2>3. /\ pool' \in Seq(Ctx)
        /\ pc' \in [Thread -> {"idle", "get", "sleep", "waiting", "work", "defer"}]
        /\ \A u \in Thread : pc'[u] \in {"work", "defer"} <=> places[u] \in {"work", "defer"}
        /\ \A d : inPool(d) => inPool(d)'
        /\ ~stop => \E i \in 1..Len(pool') : pool'[i] = c
    BY <1>2, <2>1, <2>2, GivenBack
  <2>4. QED
    BY <2>3 DEF c
<1>5. TypeOK'
  BY <1>1, <1>4 DEF TypeOK
<1>6. held'[t] = None /\ \A u \in Thread \ {t} : held'[u] = held[u]
  BY <1>1 DEF TypeOK
<1>7. Holding'
  BY <1>1, <1>2, <1>4, <1>6 DEF Holding
<1>8. NoLeak'
  <2>1. ASSUME ~stop, NEW c \in live
        PROVE  inPool(c)' \/ probed' = c \/ \E u \in Thread : held'[u] = c
    <3>1. CASE inPool(c)
      BY <1>4, <3>1
    <3>2. CASE probed = c
      BY <1>1, <3>2
    <3>3. CASE c = held[t]
      BY <1>4, <2>1, <3>3 DEF inPool
    <3>4. CASE \E u \in Thread \ {t} : held[u] = c
      BY <1>6, <3>4
    <3>5. QED
      BY <2>1, <3>1, <3>2, <3>3, <3>4 DEF NoLeak
  <2>2. QED
    BY <1>1, <2>1 DEF NoLeak
<1>9. NeverFewer'
  BY <1>1 DEF NeverFewer
<1>10. QED
  BY <1>5, <1>7, <1>8, <1>9

LEMMA CheckAliveInductive ==
  ASSUME IInv, CheckAlive
  PROVE  IInv'
<1> USE DEF IInv
<1>1. /\ check = "probe" /\ GiveBack(probed, pc)
      /\ probed' = None /\ left' = left - 1 /\ check' = "take"
      /\ UNCHANGED <<held, ran, live, fails, stop, closer>>
  BY DEF CheckAlive
<1>2. probed \in Ctx /\ left' \in Nat
  BY <1>1 DEF Holding, TypeOK
<1>3. /\ pool' \in Seq(Ctx)
      /\ pc' \in [Thread -> {"idle", "get", "sleep", "waiting", "work", "defer"}]
      /\ \A u \in Thread : pc'[u] \in {"work", "defer"} <=> pc[u] \in {"work", "defer"}
      /\ \A d : inPool(d) => inPool(d)'
      /\ ~stop => \E i \in 1..Len(pool') : pool'[i] = probed
  <2>1. /\ pool \in Seq(Ctx) /\ GiveBack(probed, pc)
        /\ pc \in [Thread -> {"idle", "get", "sleep", "waiting", "work", "defer"}]
    BY <1>1 DEF TypeOK
  <2>2. QED
    BY <1>2, <2>1, GivenBack
<1>4. TypeOK'
  BY <1>1, <1>2, <1>3 DEF TypeOK
<1>5. Holding'
  BY <1>1, <1>3 DEF Holding
<1>6. NoLeak'
  <2>1. ASSUME ~stop, NEW c \in live
        PROVE  inPool(c)' \/ \E u \in Thread : held[u] = c
    <3>1. CASE inPool(c)
      BY <1>3, <3>1
    <3>2. CASE probed = c
      BY <1>3, <2>1, <3>2 DEF inPool
    <3>3. QED
      BY <2>1, <3>1, <3>2 DEF NoLeak
  <2>2. QED
    BY <1>1, <2>1 DEF NoLeak
<1>7. NeverFewer'
  BY <1>1 DEF NeverFewer
<1>8. QED
  BY <1>4, <1>5, <1>6, <1>7

LEMMA CheckTakeInductive ==
  ASSUME IInv, CheckTake
  PROVE  IInv'
<1> USE DEF IInv
<1>1. /\ check = "take" /\ left > 0 /\ pool # <<>>
      /\ probed' = Head(pool) /\ pool' = Tail(pool) /\ check' = "probe"
      /\ UNCHANGED <<held, pc, ran, live, left, fails, stop, closer>>
  BY DEF CheckTake, userVars
<1>2. /\ Tail(pool) \in Seq(Ctx) /\ Head(pool) \in Ctx
      /\ \A c : inPool(c) => c = Head(pool) \/ inPool(c)'
  BY <1>1, Popped DEF TypeOK, inPool
<1>3. TypeOK'
  BY <1>1, <1>2 DEF TypeOK
<1>4. probed' # None /\ probed = None
  BY <1>1, <1>2, RedisAssumption DEF Holding
<1>5. Holding'
  BY <1>1, <1>4 DEF Holding
<1>6. NoLeak'
  <2>1. ASSUME ~stop, NEW c \in live
        PROVE  inPool(c)' \/ probed' = c \/ \E u \in Thread : held[u] = c
    <3>1. c # None
      BY <2>1, RedisAssumption DEF TypeOK
    <3>2. CASE inPool(c)
      BY <1>1, <1>2, <3>2
    <3>3. QED
      BY <1>4, <2>1, <3>1, <3>2 DEF NoLeak
  <2>2. QED
    BY <1>1, <2>1 DEF NoLeak
<1>7. NeverFewer'
  BY <1>1 DEF NeverFewer
<1>8. QED
  BY <1>3, <1>5, <1>6, <1>7

(* A context freed is a connection owed. *)
LEMMA CheckDeadInductive ==
  ASSUME IInv, CheckDead
  PROVE  IInv'
<1> USE DEF IInv
<1>1. /\ check = "probe" /\ live' = live \ {probed} /\ fails' = fails + 1
      /\ probed' = None /\ left' = left - 1 /\ check' = "take"
      /\ UNCHANGED <<pool, held, pc, ran, stop, closer>>
  BY DEF CheckDead, userVars
<1>2. left' \in Nat /\ fails' \in Nat
  BY <1>1 DEF Holding, TypeOK
<1>3. TypeOK'
  BY <1>1, <1>2 DEF TypeOK
<1>4. Holding'
  BY <1>1 DEF Holding
<1>5. NoLeak'
  <2>1. ASSUME ~stop, NEW c \in live'
        PROVE  inPool(c) \/ \E u \in Thread : held[u] = c
    <3>1. c \in live /\ c # probed
      BY <1>1, <2>1
    <3>2. QED
      BY <2>1, <3>1 DEF NoLeak
  <2>2. \A c : inPool(c)' <=> inPool(c)
    BY <1>1 DEF inPool
  <2>3. QED
    BY <1>1, <2>1, <2>2 DEF NoLeak
<1>6. NeverFewer'
  <2> DEFINE s == {Start[i] : i \in 1..Len(Start)}
  <2>1. IsFiniteSet(live) /\ IsFiniteSet(s)
    <3>1. live \in SUBSET Ctx /\ s \in SUBSET Ctx
      BY RedisAssumption DEF TypeOK
    <3>2. QED
      BY <3>1, FS_Subset, RedisAssumption
  <2>2. /\ Cardinality(live) \in Nat /\ Cardinality(s) \in Nat
        /\ Cardinality(live \ {probed}) >= Cardinality(live) - 1
    <3>1. Cardinality(live) \in Nat /\ Cardinality(s) \in Nat
      BY <2>1, FS_CardinalityType
    <3>2. Cardinality(live \ {probed})
            = IF probed \in live THEN Cardinality(live) - 1 ELSE Cardinality(live)
      BY <2>1, FS_RemoveElement
    <3>3. QED
      BY <3>1, <3>2
  <2>3. Cardinality(live \ {probed}) \in Nat
    BY <2>1, FS_RemoveElement, FS_CardinalityType
  <2>4. Cardinality(live) + fails >= Cardinality(s) /\ fails \in Nat
    BY DEF NeverFewer, TypeOK
  <2> HIDE DEF s
  <2>5. Cardinality(live \ {probed}) + (fails + 1) >= Cardinality(s)
    BY <2>2, <2>3, <2>4
  <2>6. QED
    BY <1>1, <2>5 DEF NeverFewer, s
<1>7. QED
  BY <1>3, <1>4, <1>5, <1>6

(* A connection made is one owed less. *)
LEMMA ReconnectInductive ==
  ASSUME IInv, Reconnect
  PROVE  IInv'
<1> USE DEF IInv
<1>1. PICK n \in Ctx \ live : live' = live \cup {n} /\ GiveBack(n, pc)
  BY DEF Reconnect
<1>2. /\ fails > 0 /\ fails' = fails - 1 /\ check = "reconnect"
      /\ UNCHANGED <<held, ran, check, left, probed, stop, closer>>
  BY DEF Reconnect
<1>3. /\ pool' \in Seq(Ctx)
      /\ pc' \in [Thread -> {"idle", "get", "sleep", "waiting", "work", "defer"}]
      /\ \A u \in Thread : pc'[u] \in {"work", "defer"} <=> pc[u] \in {"work", "defer"}
      /\ \A d : inPool(d) => inPool(d)'
      /\ ~stop => \E i \in 1..Len(pool') : pool'[i] = n
  <2>1. /\ pool \in Seq(Ctx)
        /\ pc \in [Thread -> {"idle", "get", "sleep", "waiting", "work", "defer"}]
    BY DEF TypeOK
  <2>2. QED
    BY <1>1, <2>1, GivenBack
<1>4. fails' \in Nat /\ live' \in SUBSET Ctx
  BY <1>1, <1>2 DEF TypeOK
<1>5. TypeOK'
  BY <1>2, <1>3, <1>4 DEF TypeOK
<1>6. Holding'
  BY <1>2, <1>3 DEF Holding
<1>7. NoLeak'
  <2>1. ASSUME ~stop, NEW c \in live'
        PROVE  inPool(c)' \/ probed = c \/ \E u \in Thread : held[u] = c
    <3>1. CASE c = n
      BY <1>3, <2>1, <3>1 DEF inPool
    <3>2. CASE c \in live
      BY <1>3, <2>1, <3>2 DEF NoLeak
    <3>3. QED
      BY <1>1, <2>1, <3>1, <3>2
  <2>2. QED
    BY <1>2, <2>1 DEF NoLeak
<1>8. NeverFewer'
  <2> DEFINE s == {Start[i] : i \in 1..Len(Start)}
  <2>1. IsFiniteSet(live) /\ IsFiniteSet(s)
    <3>1. live \in SUBSET Ctx /\ s \in SUBSET Ctx
      BY RedisAssumption DEF TypeOK
    <3>2. QED
      BY <3>1, FS_Subset, RedisAssumption
  <2>2. Cardinality(live) \in Nat /\ Cardinality(s) \in Nat
    BY <2>1, FS_CardinalityType
  <2>3. Cardinality(live \cup {n}) = Cardinality(live) + 1
    BY <1>1, <2>1, FS_AddElement
  <2>4. Cardinality(live) + fails >= Cardinality(s) /\ fails \in Nat
    BY DEF NeverFewer, TypeOK
  <2> HIDE DEF s
  <2>5. Cardinality(live \cup {n}) + (fails - 1) >= Cardinality(s)
    BY <2>2, <2>3, <2>4
  <2>6. QED
    BY <1>1, <1>2, <2>5 DEF NeverFewer, s
<1>9. QED
  BY <1>5, <1>6, <1>7, <1>8

(* The steps of the check thread and of Close that touch no connection. *)
LEMMA QuietInductive ==
  ASSUME IInv, CheckBegin \/ CheckDone \/ CheckEnd \/ Close \/ CloseNotify \/ CloseJoin
  PROVE  IInv'
<1> USE DEF IInv
<1>1. UNCHANGED <<pool, held, ran, live, probed, fails>>
  BY DEF CheckBegin, CheckDone, CheckEnd, Close, CloseNotify, CloseJoin, userVars,
         checkVars
<1>2. /\ check' \in {"timer", "take", "reconnect", "ended", check}
      /\ check = "probe" => check' = "probe" /\ left' = left
  BY DEF CheckBegin, CheckDone, CheckEnd, Close, CloseNotify, CloseJoin, checkVars
<1>3. left' \in {0, left, Len(pool)} /\ Len(pool) \in Nat
  BY DEF CheckBegin, CheckDone, CheckEnd, Close, CloseNotify, CloseJoin, checkVars,
         TypeOK
<1>4. /\ pc' \in [Thread -> {"idle", "get", "sleep", "waiting", "work", "defer"}]
      /\ \A u \in Thread : pc'[u] \in {"work", "defer"} <=> pc[u] \in {"work", "defer"}
  BY DEF CheckBegin, CheckDone, CheckEnd, Close, CloseNotify, CloseJoin, userVars,
         TypeOK
<1>5. /\ stop' \in BOOLEAN /\ closer' \in {"none", "notify", "join", "closed"}
      /\ closer' # "none" <=> stop'
      /\ ~stop' => ~stop
  <2>1. CASE UNCHANGED <<stop, closer>>
    BY <2>1 DEF TypeOK, Holding
  <2>2. CASE stop' = TRUE /\ closer' = "notify"
    BY <2>2
  <2>3. CASE stop' = stop /\ closer # "none" /\ closer' \in {"join", "closed"}
    BY <2>3 DEF TypeOK, Holding
  <2>4. QED
    BY <2>1, <2>2, <2>3 DEF CheckBegin, CheckDone, CheckEnd, Close, CloseNotify, CloseJoin
<1>6. TypeOK'
  BY <1>1, <1>2, <1>3, <1>4, <1>5 DEF TypeOK
<1>7. Holding'
  BY <1>1, <1>2, <1>4, <1>5 DEF Holding, TypeOK
<1>8. NoLeak' /\ NeverFewer'
  BY <1>1, <1>5 DEF NoLeak, NeverFewer, inPool
<1>9. QED
  BY <1>6, <1>7, <1>8

LEMMA StepInductive == IInv /\ [Next]_vars => IInv'
<1> SUFFICES ASSUME IInv, [Next]_vars PROVE IInv'
  OBVIOUS
<1>1. ASSUME NEW t \in Thread, Begin(t) \/ Command(t) \/ Spurious(t)
      PROVE  IInv'
  BY <1>1, MovesInductive, GetTakeInductive, ReturnByHandInductive,
     ReturnByDeferInductive DEF Command
<1>2. CASE Checker
  BY <1>2, QuietInductive, CheckTakeInductive, CheckAliveInductive, CheckDeadInductive,
     ReconnectInductive DEF Checker
<1>3. CASE Close \/ Closer
  BY <1>3, QuietInductive DEF Closer
<1>4. CASE UNCHANGED vars
  BY <1>4 DEF IInv, TypeOK, NoLeak, NeverFewer, Holding, inPool, vars, userVars, checkVars
<1>5. QED
  BY <1>1, <1>2, <1>3, <1>4 DEF Next

(* The invariant the three theorems follow from. *)
THEOREM Inductive == Spec => []IInv
  BY InitInductive, StepInductive, PTL DEF Spec

(* The types: a command's pointer is a context or none, the counters of the check
   thread do not go below zero (checkThreadPro decrements them). *)
THEOREM TypeCorrect == Spec => []TypeOK
<1>1. IInv => TypeOK
  BY DEF IInv
<1>2. QED
  BY <1>1, Inductive, PTL

(* While the pool is open no connection leaks, although HDEL returns its pointer
   once and the other commands twice. *)
THEOREM NothingLeaks == Spec => []NoLeak
<1>1. IInv => NoLeak
  BY DEF IInv
<1>2. QED
  BY <1>1, Inductive, PTL

(* Every connection the check thread frees is replaced or still owed
   (checkThreadPro and fail_count_). *)
THEOREM FailuresReplaced == Spec => []NeverFewer
<1>1. IInv => NeverFewer
  BY DEF IInv
<1>2. QED
  BY <1>1, Inductive, PTL

-------------------------------------------------------------------------------
(* The threads at a place are a number. *)
LEMMA Crowds ==
  ASSUME NEW places \in [Thread -> {"idle", "get", "sleep", "waiting", "work", "defer"}], NEW place
  PROVE  /\ IsFiniteSet({t \in Thread : places[t] = place})
         /\ Cardinality({t \in Thread : places[t] = place}) \in Nat
<1>1. {t \in Thread : places[t] = place} \in SUBSET Thread
  OBVIOUS
<1>2. IsFiniteSet({t \in Thread : places[t] = place})
  BY <1>1, RedisAssumption, FS_Subset
<1>3. QED
  BY <1>2, FS_CardinalityType

(* A notification after which a thread still waits has moved one to its test;
   it moves nobody to the wait. *)
LEMMA NotifiedCounts ==
  ASSUME NEW places \in [Thread -> {"idle", "get", "sleep", "waiting", "work", "defer"}],
         NEW q \in Notified(places)
  PROVE  LET Gets(p) == {t \in Thread : p[t] = "get"}
             Waits(p) == {t \in Thread : p[t] = "waiting"}
         IN /\ {t \in Thread : q[t] = "sleep"} = {t \in Thread : places[t] = "sleep"}
            /\ Waits(q) # {} => /\ Waits(places) # {}
                                /\ Cardinality(Gets(q)) = Cardinality(Gets(places)) + 1
<1> DEFINE Gets(p) == {t \in Thread : p[t] = "get"}
<1> DEFINE Waits(p) == {t \in Thread : p[t] = "waiting"}
<1>1. CASE \E w \in Thread : places[w] = "waiting"
  <2>1. PICK w \in Thread : places[w] = "waiting" /\ q = [places EXCEPT ![w] = "get"]
    BY <1>1 DEF Notified
  <2>2. {t \in Thread : q[t] = "sleep"} = {t \in Thread : places[t] = "sleep"}
    BY <2>1
  <2>3. w \notin Gets(places) /\ Gets(q) = Gets(places) \cup {w}
    BY <2>1
  <2>4. IsFiniteSet(Gets(places))
    BY Crowds
  <2>5. Cardinality(Gets(q)) = Cardinality(Gets(places)) + 1
    BY <2>3, <2>4, FS_AddElement
  <2>6. QED
    BY <1>1, <2>2, <2>5
<1>2. CASE ~ \E w \in Thread : places[w] = "waiting"
  BY <1>2 DEF Notified
<1>3. QED
  BY <1>1, <1>2

(* returnConnection leaves nobody with the mutex; a thread that still waits
   afterwards waited before, and for a pointer more in the queue there is one
   thread more on its way to it. *)
LEMMA GivenCounts ==
  ASSUME pool \in Seq(Ctx), NEW c \in Ctx, ~stop,
         pc \in [Thread -> {"idle", "get", "sleep", "waiting", "work", "defer"}],
         NEW places \in [Thread -> {"idle", "get", "sleep", "waiting", "work", "defer"}],
         {t \in Thread : places[t] = "get"} = At("get"),
         {t \in Thread : places[t] = "waiting"} = At("waiting"),
         {t \in Thread : places[t] = "sleep"} = At("sleep"),
         GiveBack(c, places)
  PROVE  /\ At("sleep")' = {}
         /\ Len(pool') = Len(pool) + 1
         /\ At("waiting")' # {} => /\ At("waiting") # {}
                                   /\ Cardinality(At("get")') = Cardinality(At("get")) + 1
<1> DEFINE q == pc'
<1>0. q \in Notified(places)
  BY DEF GiveBack
<1> HIDE DEF q
<1>1. pool' = Append(pool, c) /\ At("sleep") = {}
  BY DEF GiveBack, unlocked
<1>2. /\ {t \in Thread : q[t] = "sleep"} = {t \in Thread : places[t] = "sleep"}
      /\ {t \in Thread : q[t] = "waiting"} # {} =>
           /\ {t \in Thread : places[t] = "waiting"} # {}
           /\ Cardinality({t \in Thread : q[t] = "get"}) =
                Cardinality({t \in Thread : places[t] = "get"}) + 1
  BY ONLY <1>0, places \in [Thread -> {"idle", "get", "sleep", "waiting", "work", "defer"}],
     NotifiedCounts
<1>3. /\ At("sleep")' = {}
      /\ At("waiting")' # {} => /\ At("waiting") # {}
                                /\ Cardinality(At("get")') = Cardinality(At("get")) + 1
  BY <1>1, <1>2 DEF At, q
<1>4. Len(pool') = Len(pool) + 1
  BY <1>1
<1>5. QED
  BY <1>3, <1>4

LEMMA InitWaiters == Init => Waiters
<1> SUFFICES ASSUME Init
             PROVE  Waiters
  OBVIOUS
<1>1. At("waiting") = {} /\ At("sleep") = {}
  BY DEF Init, At
<1>2. QED
  BY <1>1 DEF Waiters, NoneForgotten

(* A step that leaves the queue, and after which as many threads are on their
   way to it as before, or more. *)
LEMMA CalmWaiters ==
  ASSUME IInv, IInv', Waiters,
         UNCHANGED <<pool, stop>>,
         At("get") \subseteq At("get")',
         At("waiting")' \subseteq At("waiting"),
         At("sleep")' \subseteq At("sleep")
  PROVE  Waiters'
<1>1. Len(pool) \in Nat
  BY DEF IInv, TypeOK
<1>2. /\ IsFiniteSet(At("get")') /\ Cardinality(At("get")') \in Nat
      /\ Cardinality(At("get")) \in Nat
  <2>1. /\ pc \in [Thread -> {"idle", "get", "sleep", "waiting", "work", "defer"}]
        /\ pc' \in [Thread -> {"idle", "get", "sleep", "waiting", "work", "defer"}]
    BY DEF IInv, TypeOK
  <2>2. QED
    BY <2>1, Crowds DEF At
<1>3. Cardinality(At("get")) <= Cardinality(At("get")')
  BY <1>2, FS_Subset
<1>4. NoneForgotten'
  BY <1>1, <1>2, <1>3 DEF Waiters, NoneForgotten
<1>5. QED
  BY <1>4 DEF Waiters

(* A step by which a thread finds the queue empty, or begins to wait. *)
LEMMA EmptyWaiters ==
  ASSUME IInv, IInv', UNCHANGED pool, pool = <<>>
  PROVE  Waiters'
<1>1. pc' \in [Thread -> {"idle", "get", "sleep", "waiting", "work", "defer"}]
  BY DEF IInv, TypeOK
<1>2. Cardinality(At("get")') \in Nat
  BY <1>1, Crowds DEF At
<1>3. Len(pool') = 0
  OBVIOUS
<1>4. QED
  BY <1>2, <1>3 DEF Waiters, NoneForgotten

(* After Close nobody need be notified. *)
LEMMA ClosedWaiters ==
  ASSUME stop', At("sleep")' = {} \/ pool' = <<>>
  PROVE  Waiters'
BY DEF Waiters, NoneForgotten

(* A step in which returnConnection gives a pointer back. *)
LEMMA GiveBackWaiters ==
  ASSUME IInv, IInv', Waiters, NEW c \in Ctx, UNCHANGED stop,
         NEW places \in [Thread -> {"idle", "get", "sleep", "waiting", "work", "defer"}],
         {t \in Thread : places[t] = "get"} = At("get"),
         {t \in Thread : places[t] = "waiting"} = At("waiting"),
         {t \in Thread : places[t] = "sleep"} = At("sleep"),
         GiveBack(c, places)
  PROVE  Waiters'
<1>1. pool \in Seq(Ctx) /\ Len(pool) \in Nat
  BY DEF IInv, TypeOK
<1>2. pc \in [Thread -> {"idle", "get", "sleep", "waiting", "work", "defer"}]
  BY DEF IInv, TypeOK
<1>3. CASE stop
  <2>1. pc' = places /\ At("sleep") = {}
    BY <1>3 DEF GiveBack, unlocked
  <2>2. At("sleep")' = {}
    BY <2>1 DEF At
  <2>3. QED
    BY <1>3, <2>2, ClosedWaiters
<1>4. CASE ~stop
  <2>1. /\ At("sleep")' = {}
        /\ Len(pool') = Len(pool) + 1
        /\ At("waiting")' # {} => /\ At("waiting") # {}
                                  /\ Cardinality(At("get")') = Cardinality(At("get")) + 1
    BY <1>1, <1>2, <1>4, GivenCounts
  <2>2. Cardinality(At("get")) \in Nat
    BY <1>2, Crowds DEF At
  <2>3. NoneForgotten'
    BY <1>1, <1>4, <2>1, <2>2 DEF Waiters, NoneForgotten
  <2>4. QED
    BY <2>1, <2>3 DEF Waiters
<1>5. QED
  BY <1>3, <1>4

LEMMA ThreadWaiters ==
  ASSUME IInv, IInv', Waiters, NEW t \in Thread, Begin(t) \/ Command(t) \/ Spurious(t)
  PROVE  Waiters'
<1> DEFINE Place == {"idle", "get", "sleep", "waiting", "work", "defer"}
<1>1. pc \in [Thread -> Place] /\ pc' \in [Thread -> Place] /\ pool \in Seq(Ctx)
  BY DEF IInv, TypeOK
<1>2. CASE Begin(t) \/ Spurious(t) \/ HDel(t)
  <2>1. UNCHANGED <<pool, stop>>
    BY <1>2 DEF Begin, Spurious, HDel
  <2>2. /\ At("get") \subseteq At("get")'
        /\ At("waiting")' \subseteq At("waiting")
        /\ At("sleep")' \subseteq At("sleep")
    BY <1>1, <1>2 DEF Begin, Spurious, HDel, At
  <2>3. QED
    BY <2>1, <2>2, CalmWaiters
<1>3. CASE GetTake(t)
  <2>1. /\ pool' = Tail(pool) /\ pool # <<>> /\ UNCHANGED stop
        /\ pc[t] = "get" /\ pc' = [pc EXCEPT ![t] = "work"] /\ At("sleep") = {}
    BY <1>3 DEF GetTake, unlocked
  <2>2. At("get")' = At("get") \ {t} /\ t \in At("get")
    BY <1>1, <2>1 DEF At
  <2>3. At("waiting")' = At("waiting") /\ At("sleep")' = {}
    BY <1>1, <2>1 DEF At
  <2>4. IsFiniteSet(At("get")) /\ Cardinality(At("get")) \in Nat
    BY <1>1, Crowds DEF At
  <2>5. Cardinality(At("get")') = Cardinality(At("get")) - 1
    BY <2>2, <2>4, FS_RemoveElement
  <2>6. Len(pool) \in Nat /\ Len(pool') = Len(pool) - 1
    BY <1>1, <2>1
  <2>7. NoneForgotten'
    BY <2>1, <2>3, <2>4, <2>5, <2>6 DEF Waiters, NoneForgotten
  <2>8. QED
    BY <2>3, <2>7 DEF Waiters
<1>4. CASE GetNull(t)
  <2>1. stop' /\ At("sleep") = {}
    BY <1>4 DEF GetNull, unlocked
  <2>2. At("sleep")' = {}
    BY <1>1, <1>4, <2>1 DEF GetNull, At
  <2>3. QED
    BY <2>1, <2>2, ClosedWaiters
<1>5. CASE GetNothing(t)
  BY <1>5, EmptyWaiters DEF GetNothing
<1>6. CASE Wait(t)
  <2>1. UNCHANGED pool /\ t \in At("sleep")
    BY <1>6 DEF Wait, At
  <2>2. QED
    BY <2>1, EmptyWaiters DEF Waiters
<1>7. CASE ReturnByHand(t) \/ ReturnByDefer(t)
  <2>1. PICK p \in {"idle", "defer"} : GiveBack(held[t], [pc EXCEPT ![t] = p])
    BY <1>7 DEF ReturnByHand, ReturnByDefer
  <2>2. UNCHANGED stop /\ pc[t] \in {"work", "defer"}
    BY <1>7 DEF ReturnByHand, ReturnByDefer
  <2>3. held[t] \in Ctx
    BY <2>2 DEF IInv, TypeOK, Holding
  <2> DEFINE places == [pc EXCEPT ![t] = p]
  <2>4. places \in [Thread -> Place]
    BY <1>1
  <2>5. /\ {u \in Thread : places[u] = "get"} = At("get")
        /\ {u \in Thread : places[u] = "waiting"} = At("waiting")
        /\ {u \in Thread : places[u] = "sleep"} = At("sleep")
    BY <1>1, <2>2 DEF At
  <2>6. GiveBack(held[t], places)
    BY <2>1
  <2> HIDE DEF places
  <2>7. QED
    BY <2>2, <2>3, <2>4, <2>5, <2>6, GiveBackWaiters
<1>8. QED
  BY <1>2, <1>3, <1>4, <1>5, <1>6, <1>7 DEF Command

LEMMA CheckerWaiters ==
  ASSUME IInv, IInv', Waiters, Checker
  PROVE  Waiters'
<1>1. /\ pc \in [Thread -> {"idle", "get", "sleep", "waiting", "work", "defer"}]
      /\ pool \in Seq(Ctx) /\ Len(pool) \in Nat
  BY DEF IInv, TypeOK
<1>2. CASE CheckBegin \/ CheckDone \/ CheckDead \/ CheckEnd
  <2>1. UNCHANGED <<pool, pc, stop>>
    BY <1>2 DEF CheckBegin, CheckDone, CheckDead, CheckEnd, userVars
  <2>2. At("get")' = At("get") /\ At("waiting")' = At("waiting") /\ At("sleep")' = At("sleep")
    BY <2>1 DEF At
  <2>3. QED
    BY <2>1, <2>2, CalmWaiters
<1>3. CASE CheckTake
  <2>1. UNCHANGED <<pc, stop>> /\ At("sleep") = {} /\ pool # <<>> /\ pool' = Tail(pool)
    BY <1>3 DEF CheckTake, unlocked, userVars
  <2>2. At("get")' = At("get") /\ At("waiting")' = At("waiting") /\ At("sleep")' = {}
    BY <2>1 DEF At
  <2>3. Cardinality(At("get")) \in Nat
    BY <1>1, Crowds DEF At
  <2>4. Len(pool') = Len(pool) - 1
    BY <1>1, <2>1
  <2>5. NoneForgotten'
    BY <1>1, <2>1, <2>2, <2>3, <2>4 DEF Waiters, NoneForgotten
  <2>6. QED
    BY <2>2, <2>5 DEF Waiters
<1>4. CASE CheckAlive \/ Reconnect
  <2>1. PICK c \in Ctx : GiveBack(c, pc)
    BY <1>4 DEF CheckAlive, Reconnect, IInv, TypeOK, Holding
  <2>2. UNCHANGED stop
    BY <1>4 DEF CheckAlive, Reconnect
  <2>3. /\ {u \in Thread : pc[u] = "get"} = At("get")
        /\ {u \in Thread : pc[u] = "waiting"} = At("waiting")
        /\ {u \in Thread : pc[u] = "sleep"} = At("sleep")
    BY DEF At
  <2>4. QED
    BY <1>1, <2>1, <2>2, <2>3, GiveBackWaiters
<1>5. QED
  BY <1>2, <1>3, <1>4 DEF Checker

LEMMA CloserWaiters ==
  ASSUME IInv, IInv', Waiters, Close \/ Closer
  PROVE  Waiters'
<1>1. stop' /\ pool' = pool
  BY DEF Closer, Close, CloseNotify, CloseJoin, IInv, Holding
<1>2. At("sleep")' = At("sleep")
  BY DEF Closer, Close, CloseNotify, CloseJoin, IInv, TypeOK, At, userVars
<1>3. QED
  BY <1>1, <1>2, ClosedWaiters DEF Waiters

LEMMA StepWaiters == IInv /\ IInv' /\ Waiters /\ [Next]_vars => Waiters'
<1> SUFFICES ASSUME IInv, IInv', Waiters, [Next]_vars
             PROVE  Waiters'
  OBVIOUS
<1>1. CASE UNCHANGED vars
  BY <1>1 DEF vars, userVars, Waiters, NoneForgotten, At
<1>2. QED
  BY <1>1, ThreadWaiters, CheckerWaiters, CloserWaiters DEF Next

(* While the pool is open and a thread waits for a connection, every pointer in
   the queue has a thread on its way to it: returnConnection notifies for each
   pointer it appends, those of the reconnects among them, and a thread that is
   about to wait keeps the mutex (RedisMgr.h:63-78, 95-102). *)
THEOREM NoWaiterForgotten == Spec => []NoneForgotten
<1>1. Waiters => NoneForgotten
  BY DEF Waiters
<1>2. QED
  BY <1>1, InitWaiters, StepWaiters, Inductive, PTL DEF Spec
==============================================================================
