--------------------------- MODULE InboundProofs ---------------------------
(***************************************************************************)
(* Proofs about how messages come in, for any io threads, frames, lengths, *)
(* number of posts and set of unregistered messages: first the logic queue *)
(* (LogicQueue.tla), then the sessions that feed it (FrameReader.tla).     *)
(*                                                                         *)
(* IInv of LogicQueue.tla is inductive: NoLostWakeup needs to know that    *)
(* the queue is empty when the logic thread has decided to sleep, and      *)
(* DrainedAtExit that the flag is set only when the io threads are gone;   *)
(* Places says both.  That the queue is a FIFO channel that is never too   *)
(* full needs the messages to be Distinct.                                 *)
(***************************************************************************)
EXTENDS FrameReader, SequenceTheorems, FiniteSetTheorems, TLAPS

(* Adding one element to a sequence, index by index. *)
LEMMA Appended ==
  ASSUME NEW S, NEW s \in Seq(S), NEW e \in S
  PROVE  /\ Append(s, e) \in Seq(S)
         /\ Len(Append(s, e)) = Len(s) + 1
         /\ Append(s, e)[Len(s) + 1] = e
         /\ \A i \in 1..Len(s) : Append(s, e)[i] = s[i]
OBVIOUS

(* Taking the front of a sequence, index by index. *)
LEMMA Popped ==
  ASSUME NEW S, NEW s \in Seq(S), s # <<>>
  PROVE  /\ Head(s) \in S /\ Head(s) = s[1]
         /\ Tail(s) \in Seq(S)
         /\ Len(Tail(s)) = Len(s) - 1
         /\ \A i \in 1..Len(Tail(s)) : Tail(s)[i] = s[i + 1]
OBVIOUS

LEMMA Lengths ==
  ASSUME TypeOK
  PROVE  /\ Len(posted) \in Nat /\ Len(que) \in Nat /\ Len(taken) \in Nat
         /\ que = <<>> <=> Len(que) = 0
BY DEF TypeOK

LEMMA InitInductive == Init => IInv
<1> SUFFICES ASSUME Init
             PROVE  IInv
  OBVIOUS
<1>1. <<>> \in Seq(Msg) /\ <<>> \in Seq(Taken)
  OBVIOUS
<1>2. sent \in [Producers -> 0..MaxPosts]
  BY LogicQueueAssumption DEF Init
<1>3. TypeOK
  BY <1>1, <1>2 DEF Init, TypeOK, WorkerPlaces
<1>4. NoLostWakeup /\ DrainedAtExit /\ Places
  BY DEF Init, NoLostWakeup, DrainedAtExit, Places
<1>5. InOrder
  BY DEF Init, InOrder
<1>6. QED
  BY <1>3, <1>4, <1>5 DEF IInv

LEMMA PostInductive ==
  ASSUME IInv, NEW p \in Producers, Post(p)
  PROVE  IInv'
<1> DEFINE m == <<p, sent[p] + 1>>
<1>1. /\ Len(posted) \in Nat /\ Len(que) \in Nat /\ Len(taken) \in Nat
      /\ que = <<>> <=> Len(que) = 0
  BY Lengths DEF IInv
<1>2. m \in Msg
  BY LogicQueueAssumption DEF IInv, TypeOK, Post, Msg
<1>3. /\ posted' = Append(posted, m)
      /\ que' = Append(que, m)
      /\ ppc' = [ppc EXCEPT ![p] = IF Len(que) = 0 THEN "notify" ELSE "reading"]
      /\ ppc[p] = "reading"
      /\ ~holding
      /\ UNCHANGED <<taken, wpc, pooled, stop, dpc>>
  BY DEF Post
<1>4. posted \in Seq(Msg) /\ que \in Seq(Msg) /\ taken \in Seq(Taken)
  BY DEF IInv, TypeOK
<1> HIDE DEF m
<1>5. /\ posted' \in Seq(Msg)
      /\ Len(posted') = Len(posted) + 1
      /\ posted'[Len(posted) + 1] = m
      /\ \A i \in 1..Len(posted) : posted'[i] = posted[i]
  BY <1>2, <1>3, <1>4, Appended
<1>6. /\ que' \in Seq(Msg)
      /\ Len(que') = Len(que) + 1
      /\ que'[Len(que) + 1] = m
      /\ \A i \in 1..Len(que) : que'[i] = que[i]
  BY <1>2, <1>3, <1>4, Appended
<1>7. TypeOK'
  <2>1. sent' \in [Producers -> 0..MaxPosts]
    BY LogicQueueAssumption DEF IInv, TypeOK, Post
  <2>2. ppc' \in [Producers -> {"reading", "notify", "joined"}]
    BY <1>3 DEF IInv, TypeOK
  <2>3. QED
    BY <1>3, <1>5, <1>6, <2>1, <2>2 DEF IInv, TypeOK
<1>8. NoLostWakeup'
  <2>1. CASE Len(que) = 0
    BY <1>3, <2>1 DEF NoLostWakeup, IInv, TypeOK
  <2>2. CASE Len(que) # 0
    BY <1>1, <1>3, <2>2 DEF NoLostWakeup, IInv, TypeOK
  <2>3. QED
    BY <2>1, <2>2
<1>9. wpc \in {"lock", "waiting"} /\ ~stop
  BY <1>3 DEF IInv, TypeOK, WorkerPlaces, holding, Places, DrainedAtExit
<1>10. DrainedAtExit' /\ Places'
  BY <1>3, <1>9 DEF DrainedAtExit, Places
<1>11. \A i \in 1..Len(que') : que'[i] = posted'[Len(taken') + i]
  <2>1. TAKE i \in 1..Len(que')
  <2>2. CASE i = Len(que) + 1
    BY <1>1, <1>3, <1>5, <1>6, <2>2 DEF IInv, InOrder
  <2>3. CASE i \in 1..Len(que)
    <3>1. que'[i] = que[i] /\ que[i] = posted[Len(taken) + i]
      BY <1>6, <2>3 DEF IInv, InOrder
    <3>2. Len(taken) + i \in 1..Len(posted)
      BY <1>1, <2>3 DEF IInv, InOrder
    <3>3. QED
      BY <1>3, <1>5, <3>1, <3>2
  <2>4. QED
    BY <1>1, <1>6, <2>2, <2>3
<1>12. \A i \in 1..Len(taken') :
         taken'[i] = [msg |-> posted'[i], called |-> posted'[i] \notin Unknown]
  <2>1. TAKE i \in 1..Len(taken')
  <2>2. i \in 1..Len(taken) /\ i \in 1..Len(posted)
    BY <1>1, <1>3 DEF IInv, InOrder
  <2>3. QED
    BY <1>3, <1>5, <2>2 DEF IInv, InOrder
<1>13. InOrder'
  <2>1. Len(posted) = Len(taken) + Len(que)
    BY DEF IInv, InOrder
  <2>2. Len(posted') = Len(taken') + Len(que')
    BY <1>1, <1>3, <1>5, <1>6, <2>1
  <2>3. QED
    BY <1>11, <1>12, <2>2 DEF InOrder
<1>14. QED
  BY <1>7, <1>8, <1>10, <1>13 DEF IInv

(* Serving the front keeps the order, whoever asks for it. *)
LEMMA ServeKeepsOrder ==
  ASSUME TypeOK, InOrder, que # <<>>, Serve, UNCHANGED posted
  PROVE  InOrder' /\ que' \in Seq(Msg) /\ taken' \in Seq(Taken)
<1> DEFINE t == [msg |-> Head(que), called |-> Head(que) \notin Unknown]
<1>1. /\ Len(posted) \in Nat /\ Len(que) \in Nat /\ Len(taken) \in Nat
      /\ Len(que) # 0
  BY Lengths
<1>2. posted \in Seq(Msg) /\ que \in Seq(Msg) /\ taken \in Seq(Taken)
  BY DEF TypeOK
<1>3. Head(que) \in Msg /\ Head(que) = posted[Len(taken) + 1]
  <2>1. 1 \in 1..Len(que)
    BY <1>1
  <2>2. que[1] = posted[Len(taken) + 1]
    BY <2>1 DEF InOrder
  <2>3. QED
    BY <1>2, <2>2, Popped
<1>4. t \in Taken
  BY <1>3 DEF Taken
<1>5. t = [msg |-> posted[Len(taken) + 1], called |-> posted[Len(taken) + 1] \notin Unknown]
  BY <1>3
<1>6. taken' = Append(taken, t) /\ que' = Tail(que) /\ posted' = posted
  BY DEF Serve
<1> HIDE DEF t
<1>7. /\ taken' \in Seq(Taken)
      /\ Len(taken') = Len(taken) + 1
      /\ taken'[Len(taken) + 1] = t
      /\ \A i \in 1..Len(taken) : taken'[i] = taken[i]
  BY <1>2, <1>4, <1>6, Appended
<1>8. /\ que' \in Seq(Msg)
      /\ Len(que') = Len(que) - 1
      /\ \A i \in 1..Len(que') : que'[i] = que[i + 1]
  BY <1>2, <1>6, Popped
<1>9. \A i \in 1..Len(taken') :
        taken'[i] = [msg |-> posted'[i], called |-> posted'[i] \notin Unknown]
  <2>1. TAKE i \in 1..Len(taken')
  <2>2. CASE i = Len(taken) + 1
    BY <1>5, <1>6, <1>7, <2>2
  <2>3. CASE i \in 1..Len(taken)
    BY <1>6, <1>7, <2>3 DEF InOrder
  <2>4. QED
    BY <1>1, <1>7, <2>2, <2>3
<1>10. \A i \in 1..Len(que') : que'[i] = posted'[Len(taken') + i]
  <2>1. TAKE i \in 1..Len(que')
  <2>2. i + 1 \in 1..Len(que) /\ Len(taken') + i = Len(taken) + (i + 1)
    BY <1>1, <1>7, <1>8
  <2>3. que'[i] = que[i + 1] /\ que[i + 1] = posted[Len(taken) + (i + 1)]
    BY <1>8, <2>2 DEF InOrder
  <2>4. QED
    BY <1>6, <2>2, <2>3
<1>11. Len(posted') = Len(taken') + Len(que')
  <2>1. Len(posted) = Len(taken) + Len(que)
    BY DEF InOrder
  <2>2. QED
    BY <1>1, <1>6, <1>7, <1>8, <2>1
<1>12. QED
  BY <1>7, <1>8, <1>9, <1>10, <1>11 DEF InOrder

LEMMA WorkerServeInductive ==
  ASSUME IInv, WorkerServe
  PROVE  IInv'
<1>1. que # <<>>
  BY DEF IInv, Places, WorkerServe
<1>2. InOrder' /\ que' \in Seq(Msg) /\ taken' \in Seq(Taken)
  BY <1>1, ServeKeepsOrder DEF IInv, WorkerServe
<1>3. TypeOK'
  BY <1>2 DEF IInv, TypeOK, WorkerServe, WorkerPlaces
<1>4. NoLostWakeup' /\ DrainedAtExit' /\ Places'
  BY DEF IInv, NoLostWakeup, DrainedAtExit, Places, WorkerServe
<1>5. QED
  BY <1>2, <1>3, <1>4 DEF IInv

LEMMA WorkerDrainInductive ==
  ASSUME IInv, WorkerDrain
  PROVE  IInv'
<1>1. InOrder' /\ que' \in Seq(Msg) /\ taken' \in Seq(Taken)
  BY ServeKeepsOrder DEF IInv, WorkerDrain
<1>2. TypeOK'
  BY <1>1 DEF IInv, TypeOK, WorkerDrain
<1>3. NoLostWakeup' /\ DrainedAtExit' /\ Places'
  BY DEF IInv, NoLostWakeup, DrainedAtExit, Places, WorkerDrain
<1>4. QED
  BY <1>1, <1>2, <1>3 DEF IInv

(* The steps of the logic thread that leave the messages alone. *)
LEMMA WorkerMovesInductive ==
  ASSUME IInv, WorkerLock \/ WorkerTest \/ WorkerWait \/ WorkerSpurious \/ WorkerExit
  PROVE  IInv'
<1>1. UNCHANGED <<sent, posted, que, taken, ppc, pooled, stop, dpc>>
  BY DEF WorkerLock, WorkerTest, WorkerWait, WorkerSpurious, WorkerExit
<1>2. TypeOK' /\ InOrder'
  BY <1>1 DEF IInv, TypeOK, InOrder, WorkerPlaces, WorkerLock, WorkerTest, WorkerWait,
              WorkerSpurious, WorkerExit
<1>3. NoLostWakeup'
  BY <1>1 DEF IInv, NoLostWakeup, Places, WorkerLock, WorkerTest, WorkerWait,
              WorkerSpurious, WorkerExit
<1>4. Places'
  BY <1>1 DEF IInv, Places, DrainedAtExit, WorkerLock, WorkerTest, WorkerWait,
              WorkerSpurious, WorkerExit
<1>5. DrainedAtExit'
  BY <1>1 DEF IInv, DrainedAtExit, Places, WorkerLock, WorkerTest, WorkerWait,
              WorkerSpurious, WorkerExit
<1>6. QED
  BY <1>2, <1>3, <1>4, <1>5 DEF IInv

LEMMA NotifyInductive ==
  ASSUME IInv, NEW p \in Producers, Notify(p)
  PROVE  IInv'
<1>1. UNCHANGED <<sent, posted, que, taken, pooled, stop, dpc>>
  BY DEF Notify
<1>2. wpc' # "waiting" /\ (wpc' = wpc \/ wpc' = "lock") /\ wpc' \in WorkerPlaces
  BY DEF Notify, notified, IInv, TypeOK, WorkerPlaces
<1>3. ppc' = [ppc EXCEPT ![p] = "reading"] /\ ppc[p] = "notify"
  BY DEF Notify
<1>4. TypeOK' /\ InOrder'
  BY <1>1, <1>2, <1>3 DEF IInv, TypeOK, InOrder
<1>5. ~stop /\ wpc # "exit"
  BY <1>3 DEF IInv, Places
<1>6. NoLostWakeup' /\ DrainedAtExit' /\ Places'
  BY <1>1, <1>2, <1>5 DEF IInv, NoLostWakeup, DrainedAtExit, Places
<1>7. QED
  BY <1>4, <1>6 DEF IInv

LEMMA ThreadEndsInductive ==
  ASSUME IInv, NEW p \in Producers, ThreadEnds(p)
  PROVE  IInv'
<1>1. /\ UNCHANGED <<sent, posted, que, taken, wpc, pooled, stop, dpc>>
      /\ ppc' = [ppc EXCEPT ![p] = "joined"] /\ ppc[p] = "reading"
  BY DEF ThreadEnds
<1>2. TypeOK' /\ InOrder'
  BY <1>1 DEF IInv, TypeOK, InOrder
<1>3. \A q \in Producers :
        /\ ppc[q] = "notify" => ppc'[q] = "notify"
        /\ ppc[q] = "joined" => ppc'[q] = "joined"
  BY <1>1 DEF IInv, TypeOK
<1>4. NoLostWakeup' /\ DrainedAtExit' /\ Places'
  BY <1>1, <1>3 DEF IInv, NoLostWakeup, DrainedAtExit, Places
<1>5. QED
  BY <1>2, <1>4 DEF IInv

(* The destructor's steps and the pool's stop. *)
LEMMA StopInductive ==
  ASSUME IInv, PoolStop \/ SetStop \/ NotifyStop \/ Join
  PROVE  IInv'
<1>1. UNCHANGED <<sent, posted, que, taken, ppc>>
  BY DEF PoolStop, SetStop, NotifyStop, Join
<1>2. wpc' = wpc \/ (wpc = "waiting" /\ wpc' = "lock")
  BY DEF PoolStop, SetStop, NotifyStop, Join, notified
<1>3. TypeOK' /\ InOrder'
  BY <1>1, <1>2 DEF IInv, TypeOK, InOrder, WorkerPlaces, PoolStop, SetStop, NotifyStop, Join
<1>4. stop' = stop \/ (stop' /\ \A p \in Producers : ppc[p] = "joined")
  BY DEF PoolStop, SetStop, NotifyStop, Join
<1>5. stop => stop'
  BY <1>4
<1>6. NoLostWakeup' /\ DrainedAtExit' /\ Places'
  BY <1>1, <1>2, <1>4, <1>5 DEF IInv, NoLostWakeup, DrainedAtExit, Places
<1>7. QED
  BY <1>3, <1>6 DEF IInv

LEMMA StepInductive == IInv /\ [Next]_vars => IInv'
<1> SUFFICES ASSUME IInv, [Next]_vars
             PROVE  IInv'
  OBVIOUS
<1>1. ASSUME NEW p \in Producers, Post(p) \/ IoThread(p)
      PROVE  IInv'
  BY <1>1, PostInductive, NotifyInductive, ThreadEndsInductive DEF IoThread
<1>2. CASE Worker
  BY <1>2, WorkerServeInductive, WorkerDrainInductive, WorkerMovesInductive DEF Worker
<1>3. CASE WorkerSpurious
  BY <1>3, WorkerMovesInductive
<1>4. CASE PoolStop \/ Destructor
  BY <1>4, StopInductive DEF Destructor
<1>5. CASE UNCHANGED vars
  BY <1>5 DEF vars, IInv, TypeOK, NoLostWakeup, InOrder, DrainedAtExit, Places
<1>6. QED
  BY <1>1, <1>2, <1>3, <1>4, <1>5 DEF Next

(* In every behaviour of the queue the inductive invariant holds. *)
THEOREM Inductive == Spec => []IInv
<1>1. QED
  BY InitInductive, StepInductive, PTL DEF Spec

(* Every variable keeps its type. *)
THEOREM TypeCorrect == Spec => []TypeOK
<1>1. IInv => TypeOK
  BY DEF IInv
<1>2. QED
  BY <1>1, Inductive, PTL

(* The logic thread never sleeps on a message nobody will wake it for. *)
THEOREM NoMessageSleeps == Spec => []NoLostWakeup
<1>1. IInv => NoLostWakeup
  BY DEF IInv
<1>2. QED
  BY <1>1, Inductive, PTL

(* Messages are taken in the order they were posted, once each, and a callback
   is called for exactly those that have one. *)
THEOREM FifoHandling == Spec => []InOrder
<1>1. IInv => InOrder
  BY DEF IInv
<1>2. QED
  BY <1>1, Inductive, PTL

(* When the logic thread has left its loop nothing is left unhandled. *)
THEOREM NothingLeftBehind == Spec => []DrainedAtExit
<1>1. IInv => DrainedAtExit
  BY DEF IInv
<1>2. QED
  BY <1>1, Inductive, PTL
-------------------------------------------------------------------------------
(* No message is posted twice: an io thread numbers what it posts. *)
Distinct ==
  /\ \A i \in 1..Len(posted) : posted[i][2] <= sent[posted[i][1]]
  /\ \A i, j \in 1..Len(posted) : posted[i] = posted[j] => i = j

LEMMA PostDistinct ==
  ASSUME TypeOK, Distinct, NEW p \in Producers, Post(p)
  PROVE  /\ Distinct'
         /\ <<p, sent[p] + 1>> \in Msg
         /\ \A i \in 1..Len(posted) : posted[i] # <<p, sent[p] + 1>>
<1> DEFINE m == <<p, sent[p] + 1>>
<1>1. m \in Msg
  BY LogicQueueAssumption DEF TypeOK, Post, Msg
<1>2. posted' = Append(posted, m) /\ sent' = [sent EXCEPT ![p] = @ + 1]
  BY DEF Post
<1>3. m[1] = p /\ m[2] = sent[p] + 1 /\ sent[p] \in Nat /\ posted \in Seq(Msg)
  BY LogicQueueAssumption DEF TypeOK
<1> HIDE DEF m
<1>4. /\ posted' \in Seq(Msg) /\ Len(posted') = Len(posted) + 1
      /\ posted'[Len(posted) + 1] = m /\ Len(posted) \in Nat
      /\ \A i \in 1..Len(posted) : posted'[i] = posted[i]
  BY <1>1, <1>2, <1>3, Appended, LenProperties
<1>5. \A i \in 1..Len(posted) : posted[i][1] \in Producers /\ posted[i][2] \in Nat
  BY <1>3, LogicQueueAssumption DEF Msg
<1>6. \A q \in Producers : sent[q] \in Nat /\ sent'[q] \in Nat /\ sent[q] <= sent'[q]
  BY <1>2, LogicQueueAssumption DEF TypeOK
<1>7. sent'[p] = sent[p] + 1
  BY <1>2 DEF TypeOK
<1>8. \A i \in 1..Len(posted) : posted[i] # m
  BY <1>3, <1>5 DEF Distinct
<1>9. \A i \in 1..Len(posted') : posted'[i][2] <= sent'[posted'[i][1]]
  <2>1. TAKE i \in 1..Len(posted')
  <2>2. CASE i = Len(posted) + 1
    BY <1>3, <1>4, <1>7, <2>2
  <2>3. CASE i \in 1..Len(posted)
    <3>1. posted'[i] = posted[i] /\ posted[i][2] <= sent[posted[i][1]]
      BY <1>4, <2>3 DEF Distinct
    <3>2. QED
      BY <1>5, <1>6, <2>3, <3>1
  <2>4. QED
    BY <1>4, <2>2, <2>3
<1>10. \A i, j \in 1..Len(posted') : posted'[i] = posted'[j] => i = j
  BY <1>4, <1>8 DEF Distinct
<1>11. QED
  BY <1>1, <1>8, <1>9, <1>10 DEF Distinct, m

LEMMA StepDistinct ==
  ASSUME TypeOK, Distinct, [Next]_vars
  PROVE  Distinct'
<1>1. ASSUME NEW p \in Producers, Post(p)
      PROVE  Distinct'
  BY <1>1, PostDistinct
<1>2. CASE UNCHANGED <<sent, posted>>
  BY <1>2 DEF Distinct
<1>3. QED
  BY <1>1, <1>2 DEF Next, vars, IoThread, Notify, ThreadEnds, PoolStop, Worker, WorkerLock,
     WorkerTest, WorkerWait, WorkerSpurious, WorkerServe, WorkerDrain, WorkerExit, Destructor,
     SetStop, NotifyStop, Join

(* Of a finite number of messages, no two the same and one still to come, the queue holds
   fewer than there are. *)
LEMMA RoomForOne ==
  ASSUME TypeOK, InOrder, Distinct, NEW m \in Msg,
         \A i \in 1..Len(posted) : posted[i] # m
  PROVE  Len(que) < Cardinality(Msg)
<1>1. IsFiniteSet(Msg) /\ Cardinality(Msg) \in Nat
  <2>1. IsFiniteSet(1..MaxPosts)
    BY LogicQueueAssumption, FS_Interval
  <2>2. IsFiniteSet(Msg)
    BY <2>1, LogicQueueAssumption, FS_Product DEF Msg
  <2>3. QED
    BY <2>2, FS_CardinalityType
<1>2. /\ Len(posted) \in Nat /\ Len(que) \in Nat /\ Len(taken) \in Nat
      /\ Len(posted) = Len(taken) + Len(que)
  BY Lengths DEF InOrder
<1>3. \A i \in 1..Len(que) :
        Len(taken) + i \in 1..Len(posted) /\ que[i] = posted[Len(taken) + i]
  BY <1>2 DEF InOrder
<1>4. que \in [1..Len(que) -> Msg]
  BY LenProperties DEF TypeOK
<1>5. que \in [1..Len(que) -> Msg \ {m}]
  BY <1>3, <1>4
<1>6. \A i, j \in 1..Len(que) : que[i] = que[j] => i = j
  <2>1. TAKE i, j \in 1..Len(que)
  <2>2. HAVE que[i] = que[j]
  <2>3. Len(taken) + i = Len(taken) + j
    BY <1>3, <2>2 DEF Distinct
  <2>4. QED
    BY <1>2, <2>3
<1>7. IsFiniteSet(Msg \ {m}) /\ Cardinality(Msg \ {m}) = Cardinality(Msg) - 1
  BY <1>1, FS_RemoveElement
<1>8. IsFiniteSet(1..Len(que)) /\ Cardinality(1..Len(que)) = Len(que)
  <2>1. 1 \in Int /\ Len(que) \in Int
    BY <1>2
  <2>2. /\ IsFiniteSet(1..Len(que))
        /\ Cardinality(1..Len(que)) = IF 1 > Len(que) THEN 0 ELSE Len(que) - 1 + 1
    BY <2>1, FS_Interval
  <2>3. QED
    BY <1>2, <2>2
<1>9. ~(Cardinality(Msg \ {m}) < Cardinality(1..Len(que)))
  BY <1>5, <1>6, <1>7, <1>8, FS_PigeonHole
<1>10. QED
  BY <1>1, <1>2, <1>7, <1>8, <1>9

(* What has been handed over, as FifoChannel.tla has it. *)
handed == [i \in 1..Len(taken) |-> taken[i].msg]

LEMMA ServeIsDeliver ==
  ASSUME TypeOK, que # <<>>, Serve
  PROVE  Channel!Deliver
<1> DEFINE t == [msg |-> Head(que), called |-> Head(que) \notin Unknown]
<1>1. Head(que) \in Msg /\ taken \in Seq(Taken) /\ Len(taken) \in Nat
  BY Popped, LenProperties DEF TypeOK
<1>2. t \in Taken /\ t.msg = Head(que)
  BY <1>1 DEF Taken
<1>3. taken' = Append(taken, t) /\ que' = Tail(que)
  BY DEF Serve
<1> HIDE DEF t
<1>4. /\ taken' \in Seq(Taken) /\ Len(taken') = Len(taken) + 1
      /\ taken'[Len(taken) + 1] = t
      /\ \A i \in 1..Len(taken) : taken'[i] = taken[i]
  BY <1>1, <1>2, <1>3, Appended
<1>5. \A i \in 1..Len(taken) : taken[i].msg \in Msg
  <2>1. \A i \in 1..Len(taken) : taken[i] \in Taken
    BY <1>1, ElementOfSeq
  <2>2. QED
    BY <2>1 DEF Taken
<1>6. handed \in Seq(Msg) /\ Len(handed) = Len(taken)
  BY <1>1, <1>5 DEF handed
<1>7. /\ Append(handed, Head(que)) \in Seq(Msg)
      /\ Len(Append(handed, Head(que))) = Len(taken) + 1
      /\ Append(handed, Head(que))[Len(taken) + 1] = Head(que)
      /\ \A i \in 1..Len(taken) : Append(handed, Head(que))[i] = taken[i].msg
  BY <1>1, <1>6, Appended DEF handed
<1>8. \A i \in 1..Len(taken') : taken'[i].msg = Append(handed, Head(que))[i] /\ taken'[i].msg \in Msg
  BY <1>1, <1>2, <1>4, <1>5, <1>7
<1>9. handed' \in Seq(Msg) /\ Len(handed') = Len(taken) + 1
  BY <1>1, <1>4, <1>8 DEF handed
<1>10. \A i \in 1..Len(handed') : handed'[i] = Append(handed, Head(que))[i]
  BY <1>1, <1>4, <1>8, <1>9 DEF handed
<1>11. handed' = Append(handed, Head(que))
  BY <1>7, <1>9, <1>10, SeqEqual
<1>12. QED
  BY <1>3, <1>11 DEF Channel!Deliver, handed

(* Every step of the queue is one of a FIFO channel that holds any number of messages and
   never breaks, or leaves the channel alone: what ImplementsChannel says but for the
   fairness (LogicSystem.cpp:23-34, 38-93).  A Post is an Accept, a round of DealMsg a
   Deliver; waits, notifications and the stop are no steps of the channel. *)
THEOREM QueueIsChannel == Spec => Channel!Init /\ [][Channel!Next]_(Channel!vars)
<1>1. Init => Channel!Init /\ Distinct
  <2>1. SUFFICES ASSUME Init PROVE Channel!Init /\ Distinct
    OBVIOUS
  <2>2. posted = <<>> /\ taken = <<>> /\ que = <<>> /\ Len(taken) = 0 /\ Len(posted) = 0
    BY <2>1 DEF Init
  <2>3. [i \in 1..0 |-> taken[i].msg] = <<>>
    OBVIOUS
  <2>4. QED
    BY <2>2, <2>3 DEF Channel!Init, Distinct
<1>2. IInv /\ Distinct /\ [Next]_vars => [Channel!Next]_(Channel!vars) /\ Distinct'
  <2> SUFFICES ASSUME IInv, Distinct, [Next]_vars
               PROVE  [Channel!Next]_(Channel!vars) /\ Distinct'
    OBVIOUS
  <2>1. Distinct'
    BY StepDistinct DEF IInv
  <2>2. ASSUME NEW p \in Producers, Post(p)
        PROVE  Channel!Next
    <3>1. Len(que) < Cardinality(Msg)
      BY <2>2, PostDistinct, RoomForOne DEF IInv
    <3>2. <<p, sent[p] + 1>> \in Msg
      BY <2>2, PostDistinct DEF IInv
    <3>3. que' = Append(que, <<p, sent[p] + 1>>) /\ taken' = taken
      BY <2>2 DEF Post
    <3>4. Channel!Accept(<<p, sent[p] + 1>>)
      BY <3>1, <3>3 DEF Channel!Accept
    <3>5. QED
      BY <3>2, <3>4 DEF Channel!Next
  <2>3. CASE WorkerServe \/ WorkerDrain
    <3>1. que # <<>> /\ Serve
      BY <2>3 DEF WorkerServe, WorkerDrain, IInv, Places
    <3>2. QED
      BY <2>1, <3>1, ServeIsDeliver DEF IInv, Channel!Next
  <2>4. CASE UNCHANGED <<que, taken>>
    BY <2>1, <2>4 DEF Channel!vars
  <2>5. QED
    BY <2>1, <2>2, <2>3, <2>4 DEF Next, vars, IoThread, Notify, ThreadEnds, PoolStop, Worker,
       WorkerLock, WorkerTest, WorkerWait, WorkerSpurious, WorkerExit, Destructor, SetStop,
       NotifyStop, Join
<1>3. QED
  BY <1>1, <1>2, Inductive, PTL DEF Spec
-------------------------------------------------------------------------------
(* A step of a session or of the queue is a step of LogicQueue.tla or leaves it
   alone: a session posts exactly when it has read a whole body. *)
LEMMA StepSimulation ==
  ASSUME [ReaderNext]_allVars
  PROVE  [Next]_vars
<1>1. CASE UNCHANGED allVars
  BY <1>1 DEF allVars
<1>2. ASSUME NEW p \in Producers,
             ClientSend(p) \/ PartialRead(p) \/ HeadDone(p) \/ Overrun(p) \/ ReadError(p)
      PROVE  UNCHANGED vars
  BY <1>2 DEF ClientSend, PartialRead, HeadDone, Overrun, ReadError
<1>3. ASSUME NEW p \in Producers, BodyDone(p)
      PROVE  Next
  BY <1>3 DEF BodyDone, Next
<1>4. ASSUME Queue
      PROVE  Next
  BY <1>4 DEF Queue, Next
<1>5. QED
  BY <1>1, <1>2, <1>3, <1>4 DEF ReaderNext, Read

(* However sessions read and fail, the queue they post to behaves as LogicQueue.tla
   says, fairness included. *)
THEOREM ReaderIsQueue == ReaderSpec => Spec
<1>1. ReaderInit => Init
  BY DEF ReaderInit
<1>2. [ReaderNext]_allVars => [Next]_vars
  BY StepSimulation
<1>3. QED
  BY <1>1, <1>2, PTL DEF ReaderSpec, Spec

(* Hence no message that a session has posted waits for a logic thread that sleeps
   and is not about to be notified, ... *)
THEOREM NoFrameSleeps == ReaderSpec => []NoLostWakeup
BY ReaderIsQueue, NoMessageSleeps, PTL

(* ... the messages are taken in the order posted, each once, ... *)
THEOREM FramesInOrder == ReaderSpec => []InOrder
BY ReaderIsQueue, FifoHandling, PTL

(* ... and none is left when the logic thread ends. *)
THEOREM NoFrameLeftBehind == ReaderSpec => []DrainedAtExit
BY ReaderIsQueue, NothingLeftBehind, PTL
-------------------------------------------------------------------------------
(* What is left of the stream of the frames fr from place b + 1 of its n-th frame on,
   a body without a byte being nothing: each byte is followed by the next one of its
   frame, or by the first one of the next frame, up to the last byte of the last frame. *)
Byte == Nat \X Nat

Frame == [id : Int, len : Int]

frameLen(fr, n) == HeadLen + bodyLen(fr[n])

Coherent(s, fr, n, b) ==
  /\ s \in Seq(Byte) /\ fr \in Seq(Frame) /\ n \in Nat \ {0} /\ b \in Nat
  /\ \A i \in 1..Len(s) : s[i][1] \in 1..Len(fr) /\ s[i][2] \in 1..frameLen(fr, s[i][1])
  /\ \A i, j \in 1..Len(s) : i <= j =>
       /\ s[i][2] + (j - i) <= frameLen(fr, s[i][1]) => s[j] = <<s[i][1], s[i][2] + (j - i)>>
       /\ s[i][2] + (j - i) = frameLen(fr, s[i][1]) + 1 => s[j] = <<s[i][1] + 1, 1>>
  /\ Len(s) = 0 => \/ b = 0 /\ Len(fr) = n - 1
                   \/ Len(fr) = n /\ b = frameLen(fr, n)
  /\ Len(s) > 0 => /\ n <= Len(fr) /\ b <= frameLen(fr, n)
                   /\ b < frameLen(fr, n) => s[1] = <<n, b + 1>>
                   /\ b = frameLen(fr, n) => s[1] = <<n + 1, 1>>
                   /\ s[Len(s)] = <<Len(fr), frameLen(fr, Len(fr))>>

(* Sequences cut and put together, index by index. *)
LEMMA Joined ==
  ASSUME NEW S, NEW s \in Seq(S), NEW t \in Seq(S)
  PROVE  /\ s \o t \in Seq(S) /\ Len(s) \in Nat /\ Len(t) \in Nat
         /\ Len(s \o t) = Len(s) + Len(t)
         /\ \A i \in 1..Len(s) : (s \o t)[i] = s[i]
         /\ \A i \in 1..Len(t) : (s \o t)[Len(s) + i] = t[i]
<1>1. Len(s) \in Nat /\ Len(t) \in Nat
  BY LenProperties
<1>2. /\ s \o t \in Seq(S) /\ Len(s \o t) = Len(s) + Len(t)
      /\ \A i \in 1..Len(s) + Len(t) :
           (s \o t)[i] = IF i <= Len(s) THEN s[i] ELSE t[i - Len(s)]
  BY ConcatProperties
<1>3. \A i \in 1..Len(s) : (s \o t)[i] = s[i]
  BY <1>1, <1>2
<1>4. \A i \in 1..Len(t) : (s \o t)[Len(s) + i] = t[i]
  BY <1>1, <1>2
<1>5. QED
  BY <1>1, <1>2, <1>3, <1>4

LEMMA Cut ==
  ASSUME NEW S, NEW s \in Seq(S), NEW k \in 0..Len(s)
  PROVE  /\ SubSeq(s, 1, k) \in Seq(S) /\ Len(SubSeq(s, 1, k)) = k
         /\ \A i \in 1..k : SubSeq(s, 1, k)[i] = s[i]
         /\ SubSeq(s, k + 1, Len(s)) \in Seq(S) /\ Len(SubSeq(s, k + 1, Len(s))) = Len(s) - k
         /\ \A i \in 1..(Len(s) - k) : SubSeq(s, k + 1, Len(s))[i] = s[k + i]
<1>1. Len(s) \in Nat /\ k \in Nat /\ k <= Len(s)
  BY LenProperties
<1>2. \A i \in 1..Len(s) : s[i] \in S
  BY ElementOfSeq
<1>3. /\ SubSeq(s, 1, k) \in Seq(S)
      /\ Len(SubSeq(s, 1, k)) = IF 1 <= k THEN k - 1 + 1 ELSE 0
      /\ \A i \in 1..(k - 1 + 1) : SubSeq(s, 1, k)[i] = s[1 + i - 1]
  <2>1. 1 \in Int /\ k \in Int /\ \A i \in 1..k : s[i] \in S
    BY <1>1, <1>2
  <2>2. QED
    BY <2>1, SubSeqProperties
<1>4. /\ SubSeq(s, k + 1, Len(s)) \in Seq(S)
      /\ Len(SubSeq(s, k + 1, Len(s))) = IF k + 1 <= Len(s) THEN Len(s) - (k + 1) + 1 ELSE 0
      /\ \A i \in 1..(Len(s) - (k + 1) + 1) : SubSeq(s, k + 1, Len(s))[i] = s[(k + 1) + i - 1]
  <2>1. k + 1 \in Int /\ Len(s) \in Int /\ \A i \in (k + 1)..Len(s) : s[i] \in S
    BY <1>1, <1>2
  <2>2. QED
    BY <2>1, SubSeqProperties
<1>5. \A i \in 1..k : SubSeq(s, 1, k)[i] = s[i]
  BY <1>1, <1>3
<1>6. \A i \in 1..(Len(s) - k) : SubSeq(s, k + 1, Len(s))[i] = s[k + i]
  <2>1. TAKE i \in 1..(Len(s) - k)
  <2>2. (k + 1) + i - 1 = k + i /\ i \in 1..(Len(s) - (k + 1) + 1)
    BY <1>1
  <2>3. QED
    BY <1>4, <2>2
<1>7. QED
  BY <1>1, <1>3, <1>4, <1>5, <1>6

(* A stream d \o t of which the part d has been read, and then k bytes of t more. *)
LEMMA ReadOn ==
  ASSUME NEW S, NEW d \in Seq(S), NEW t \in Seq(S), NEW k \in 0..Len(t)
  PROVE  /\ d \o SubSeq(t, 1, k) \in Seq(S)
         /\ Len(d \o SubSeq(t, 1, k)) = Len(d) + k
         /\ (d \o SubSeq(t, 1, k)) \o SubSeq(t, k + 1, Len(t)) = d \o t
         /\ d \o SubSeq(t, 1, k) = SubSeq(d \o t, 1, Len(d) + k)
         /\ <<>> \o SubSeq(t, k + 1, Len(t)) = SubSeq(d \o t, (Len(d) + k) + 1, Len(d \o t))
<1> DEFINE u == SubSeq(t, 1, k)
           v == SubSeq(t, k + 1, Len(t))
           n == Len(d) + k
<1>1. /\ u \in Seq(S) /\ Len(u) = k /\ v \in Seq(S) /\ Len(v) = Len(t) - k
      /\ \A i \in 1..k : u[i] = t[i]
      /\ \A i \in 1..(Len(t) - k) : v[i] = t[k + i]
  BY Cut
<1>2. /\ d \o t \in Seq(S) /\ Len(d) \in Nat /\ Len(t) \in Nat
      /\ Len(d \o t) = Len(d) + Len(t)
      /\ \A i \in 1..Len(d) : (d \o t)[i] = d[i]
      /\ \A i \in 1..Len(t) : (d \o t)[Len(d) + i] = t[i]
  BY Joined
<1>3. n \in 0..Len(d \o t) /\ k \in Nat
  BY <1>2
<1> HIDE DEF u, v
<1>4. /\ d \o u \in Seq(S) /\ Len(d \o u) = n
      /\ \A i \in 1..Len(d) : (d \o u)[i] = d[i]
      /\ \A i \in 1..k : (d \o u)[Len(d) + i] = u[i]
  <2>1. /\ d \o u \in Seq(S) /\ Len(d \o u) = Len(d) + Len(u)
        /\ \A i \in 1..Len(d) : (d \o u)[i] = d[i]
        /\ \A i \in 1..Len(u) : (d \o u)[Len(d) + i] = u[i]
    <3>1. d \in Seq(S) /\ u \in Seq(S)
      BY <1>1
    <3>2. QED
      BY ONLY <3>1, Joined
  <2>2. QED
    BY <1>1, <2>1
<1>5. /\ (d \o u) \o v \in Seq(S) /\ Len((d \o u) \o v) = n + (Len(t) - k)
      /\ \A i \in 1..n : ((d \o u) \o v)[i] = (d \o u)[i]
      /\ \A i \in 1..(Len(t) - k) : ((d \o u) \o v)[n + i] = v[i]
  <2>1. /\ (d \o u) \o v \in Seq(S) /\ Len((d \o u) \o v) = Len(d \o u) + Len(v)
        /\ \A i \in 1..Len(d \o u) : ((d \o u) \o v)[i] = (d \o u)[i]
        /\ \A i \in 1..Len(v) : ((d \o u) \o v)[Len(d \o u) + i] = v[i]
    <3>1. d \o u \in Seq(S) /\ v \in Seq(S)
      BY <1>1, <1>4
    <3>2. QED
      BY ONLY <3>1, Joined
  <2>2. QED
    BY <1>1, <1>4, <2>1
<1> HIDE DEF n
<1>6. /\ SubSeq(d \o t, 1, n) \in Seq(S) /\ Len(SubSeq(d \o t, 1, n)) = n
      /\ \A i \in 1..n : SubSeq(d \o t, 1, n)[i] = (d \o t)[i]
      /\ SubSeq(d \o t, n + 1, Len(d \o t)) \in Seq(S)
      /\ Len(SubSeq(d \o t, n + 1, Len(d \o t))) = Len(d \o t) - n
      /\ \A i \in 1..(Len(d \o t) - n) :
           SubSeq(d \o t, n + 1, Len(d \o t))[i] = (d \o t)[n + i]
  BY <1>2, <1>3, Cut
<1>7. d \o u = SubSeq(d \o t, 1, n)
  <2>1. \A i \in 1..n : (d \o u)[i] = (d \o t)[i]
    <3>1. TAKE i \in 1..n
    <3>2. CASE i \in 1..Len(d)
      BY <1>2, <1>4, <3>2
    <3>3. CASE i \notin 1..Len(d)
      <4>1. i - Len(d) \in 1..k /\ i - Len(d) \in 1..Len(t) /\ Len(d) + (i - Len(d)) = i
        BY <1>2, <1>3, <3>3 DEF n
      <4>2. (d \o u)[i] = u[i - Len(d)] /\ (d \o t)[i] = t[i - Len(d)]
        BY <1>2, <1>4, <4>1
      <4>3. QED
        BY <1>1, <4>1, <4>2
    <3>4. QED
      BY <3>2, <3>3
  <2>2. QED
    BY <1>4, <1>6, <2>1, SeqEqual
<1>8. n + (Len(t) - k) = Len(d) + Len(t) /\ Len(d) + k = n
  BY <1>2, <1>3 DEF n
<1>9. \A i \in 1..(Len(t) - k) : v[i] = (d \o t)[n + i]
  <2>1. TAKE i \in 1..(Len(t) - k)
  <2>2. k + i \in 1..Len(t) /\ Len(d) + (k + i) = n + i
    BY <1>2, <1>3 DEF n
  <2>3. QED
    BY <1>1, <1>2, <2>2
<1>10. (d \o u) \o v = d \o t
  <2>1. \A i \in 1..Len(d \o t) : ((d \o u) \o v)[i] = (d \o t)[i]
    <3>1. TAKE i \in 1..Len(d \o t)
    <3>2. CASE i \in 1..n
      BY <1>5, <1>6, <1>7, <3>2
    <3>3. CASE i \notin 1..n
      <4>1. i - n \in 1..(Len(t) - k) /\ n + (i - n) = i
        BY <1>2, <1>3, <1>8, <3>3
      <4>2. QED
        BY <1>5, <1>9, <4>1
    <3>4. QED
      BY <3>2, <3>3
  <2>2. QED
    BY <1>2, <1>5, <1>8, <2>1, SeqEqual
<1>11. <<>> \o v = SubSeq(d \o t, n + 1, Len(d \o t))
  <2>1. <<>> \o v = v
    BY <1>1, ConcatEmptySeq
  <2>2. Len(d \o t) - n = Len(t) - k
    BY <1>2, <1>3, <1>8
  <2>3. v = SubSeq(d \o t, n + 1, Len(d \o t))
    <3>1. \A i \in 1..Len(v) : v[i] = SubSeq(d \o t, n + 1, Len(d \o t))[i]
      BY <1>1, <1>6, <1>9, <2>2
    <3>2. Len(v) = Len(SubSeq(d \o t, n + 1, Len(d \o t)))
      BY <1>1, <1>6, <2>2
    <3>3. QED
      BY <1>1, <1>6, <3>1, <3>2, SeqEqual
  <2>4. QED
    BY <2>1, <2>3
<1>12. QED
  BY <1>4, <1>7, <1>8, <1>10, <1>11 DEF u, v

LEMMA FrameLength ==
  ASSUME NEW fr \in Seq(Frame), NEW m \in 1..Len(fr)
  PROVE  /\ frameLen(fr, m) \in Nat \ {0} /\ HeadLen <= frameLen(fr, m)
         /\ fr[m].len \in Int /\ bodyLen(fr[m]) \in Nat
<1>1. fr[m] \in Frame
  BY ElementOfSeq
<1>2. QED
  BY <1>1, FrameReaderAssumption DEF Frame, frameLen, bodyLen

(* The first bytes of a stream are those of its frame; what comes after them is coherent. *)
LEMMA Advance ==
  ASSUME NEW s, NEW fr, NEW n, NEW b, Coherent(s, fr, n, b), n <= Len(fr),
         NEW c \in Nat, b + c <= frameLen(fr, n), c <= Len(s)
  PROVE  /\ \A i \in 1..c : s[i] = <<n, b + i>>
         /\ Coherent(SubSeq(s, c + 1, Len(s)), fr, n, b + c)
<1> DEFINE t == SubSeq(s, c + 1, Len(s))
           F(m) == frameLen(fr, m)
<1>1. /\ s \in Seq(Byte) /\ fr \in Seq(Frame) /\ n \in Nat \ {0} /\ b \in Nat
      /\ Len(s) \in Nat /\ Len(fr) \in Nat /\ n \in 1..Len(fr)
  BY LenProperties DEF Coherent
<1>2. \A m \in 1..Len(fr) : F(m) \in Nat \ {0}
  BY <1>1, FrameLength
<1>3. \A i \in 1..Len(s) : s[i][1] \in 1..Len(fr) /\ s[i][2] \in 1..F(s[i][1])
  BY DEF Coherent
<1>4. \A i, j \in 1..Len(s) : i <= j =>
        /\ s[i][2] + (j - i) <= F(s[i][1]) => s[j] = <<s[i][1], s[i][2] + (j - i)>>
        /\ s[i][2] + (j - i) = F(s[i][1]) + 1 => s[j] = <<s[i][1] + 1, 1>>
  BY DEF Coherent
<1>5. /\ Len(s) = 0 => \/ b = 0 /\ Len(fr) = n - 1
                       \/ Len(fr) = n /\ b = F(n)
      /\ Len(s) > 0 => /\ b < F(n) => s[1] = <<n, b + 1>>
                       /\ b = F(n) => s[1] = <<n + 1, 1>>
                       /\ s[Len(s)] = <<Len(fr), F(Len(fr))>>
  BY DEF Coherent
<1>6. /\ t \in Seq(Byte) /\ Len(t) = Len(s) - c
      /\ \A i \in 1..Len(t) : t[i] = s[c + i]
  <2>1. c \in 0..Len(s)
    BY <1>1
  <2>2. QED
    BY <1>1, <2>1, Cut
<1>7. b + c <= F(n) /\ F(n) \in Nat
  BY <1>1, <1>2
<1> HIDE DEF t, F
<1>8. \A i \in 1..c : s[i] = <<n, b + i>>
  <2>1. TAKE i \in 1..c
  <2>2. 1 \in 1..Len(s) /\ i \in 1..Len(s) /\ 1 <= i /\ b < F(n)
    BY <1>1, <1>7
  <2>3. s[1] = <<n, b + 1>>
    BY <1>1, <1>5, <2>2
  <2>4. s[1][2] + (i - 1) = b + i /\ s[1][1] = n /\ b + i <= F(n)
    BY <1>1, <1>7, <2>3
  <2>5. QED
    BY <1>4, <2>2, <2>4
<1>9. \A i \in 1..Len(t) : t[i][1] \in 1..Len(fr) /\ t[i][2] \in 1..F(t[i][1])
  <2>1. TAKE i \in 1..Len(t)
  <2>2. c + i \in 1..Len(s) /\ t[i] = s[c + i]
    BY <1>1, <1>6
  <2>3. QED
    BY <1>3, <2>2
<1>10. \A i, j \in 1..Len(t) : i <= j =>
        /\ t[i][2] + (j - i) <= F(t[i][1]) => t[j] = <<t[i][1], t[i][2] + (j - i)>>
        /\ t[i][2] + (j - i) = F(t[i][1]) + 1 => t[j] = <<t[i][1] + 1, 1>>
  <2>1. TAKE i, j \in 1..Len(t)
  <2>2. HAVE i <= j
  <2>3. /\ c + i \in 1..Len(s) /\ c + j \in 1..Len(s) /\ c + i <= c + j
        /\ t[i] = s[c + i] /\ t[j] = s[c + j] /\ (c + j) - (c + i) = j - i
    <3>1. i \in Nat /\ j \in Nat /\ Len(t) = Len(s) - c /\ i <= Len(t) /\ j <= Len(t)
      BY <1>1, <1>6
    <3>2. c + i \in 1..Len(s) /\ c + j \in 1..Len(s)
      BY <1>1, <3>1
    <3>3. c + i <= c + j /\ (c + j) - (c + i) = j - i
      BY <2>2, <3>1
    <3>4. QED
      BY <1>6, <3>2, <3>3
  <2>4. /\ s[c + i][2] + ((c + j) - (c + i)) <= F(s[c + i][1]) =>
             s[c + j] = <<s[c + i][1], s[c + i][2] + ((c + j) - (c + i))>>
        /\ s[c + i][2] + ((c + j) - (c + i)) = F(s[c + i][1]) + 1 =>
             s[c + j] = <<s[c + i][1] + 1, 1>>
    BY <1>4, <2>3
  <2>5. QED
    BY <2>3, <2>4
<1>11. ASSUME Len(t) = 0
       PROVE  \/ b + c = 0 /\ Len(fr) = n - 1
              \/ Len(fr) = n /\ b + c = F(n)
  <2>1. Len(s) = c
    BY <1>1, <1>6, <1>11
  <2>2. CASE c = 0
    BY <1>1, <1>5, <2>1, <2>2
  <2>3. CASE c # 0
    <3>1. s[c] = <<n, b + c>> /\ s[c] = <<Len(fr), F(Len(fr))>>
      BY <1>1, <1>5, <1>8, <2>1, <2>3
    <3>2. QED
      BY <3>1
  <2>4. QED
    BY <2>2, <2>3
<1>12. ASSUME Len(t) > 0
       PROVE  /\ b + c < F(n) => t[1] = <<n, b + c + 1>>
              /\ b + c = F(n) => t[1] = <<n + 1, 1>>
              /\ t[Len(t)] = <<Len(fr), F(Len(fr))>>
  <2>1. Len(s) > 0 /\ c + 1 \in 1..Len(s) /\ t[1] = s[c + 1] /\ t[Len(t)] = s[Len(s)]
    BY <1>1, <1>6, <1>12
  <2>2. t[Len(t)] = <<Len(fr), F(Len(fr))>>
    BY <1>5, <2>1
  <2>3. CASE c = 0
    BY <1>1, <1>5, <2>1, <2>2, <2>3
  <2>4. CASE c # 0
    <3>1. 1 \in 1..Len(s) /\ 1 <= c + 1 /\ s[1] = <<n, b + 1>>
      BY <1>1, <1>8, <2>1, <2>4
    <3>2. s[1][1] = n /\ s[1][2] + ((c + 1) - 1) = b + c + 1
      BY <1>1, <3>1
    <3>3. /\ b + c + 1 <= F(n) => s[c + 1] = <<n, b + c + 1>>
          /\ b + c + 1 = F(n) + 1 => s[c + 1] = <<n + 1, 1>>
      BY <1>4, <2>1, <3>1, <3>2
    <3>4. QED
      BY <1>1, <1>7, <2>1, <2>2, <3>3
  <2>5. QED
    BY <2>3, <2>4
<1>13. Coherent(t, fr, n, b + c)
  <2>1. b + c \in Nat /\ n <= Len(fr) /\ (b + c) + 1 = b + c + 1
    BY <1>1
  <2>2. QED
    BY <1>1, <1>6, <1>7, <1>9, <1>10, <1>11, <1>12, <2>1 DEF Coherent, F
<1>14. QED
  BY <1>8, <1>13 DEF t

(* At the end of a frame the next one begins. *)
LEMMA Turn ==
  ASSUME NEW s, NEW fr, NEW n, n <= Len(fr), Coherent(s, fr, n, frameLen(fr, n))
  PROVE  Coherent(s, fr, n + 1, 0)
<1>1. /\ s \in Seq(Byte) /\ fr \in Seq(Frame) /\ n \in Nat \ {0}
      /\ Len(s) \in Nat /\ Len(fr) \in Nat /\ n \in 1..Len(fr)
  BY LenProperties DEF Coherent
<1>2. \A m \in 1..Len(fr) : frameLen(fr, m) \in Nat \ {0}
  BY <1>1, FrameLength
<1>3. ASSUME Len(s) = 0
      PROVE  Len(fr) = (n + 1) - 1
  BY <1>1, <1>2, <1>3 DEF Coherent
<1>4. ASSUME Len(s) > 0
      PROVE  /\ s[1] = <<n + 1, 0 + 1>> /\ n + 1 \in 1..Len(fr)
             /\ s[Len(s)] = <<Len(fr), frameLen(fr, Len(fr))>>
  <2>1. s[1] = <<n + 1, 1>> /\ s[Len(s)] = <<Len(fr), frameLen(fr, Len(fr))>> /\ 1 \in 1..Len(s)
    BY <1>1, <1>2, <1>4 DEF Coherent
  <2>2. s[1][1] \in 1..Len(fr)
    BY <2>1 DEF Coherent
  <2>3. QED
    BY <2>1, <2>2
<1>5. n + 1 \in Nat \ {0}
  BY <1>1
<1>6. Len(s) > 0 => 0 <= frameLen(fr, n + 1) /\ 0 # frameLen(fr, n + 1)
  BY <1>2, <1>4
<1>7. /\ \A i \in 1..Len(s) : s[i][1] \in 1..Len(fr) /\ s[i][2] \in 1..frameLen(fr, s[i][1])
      /\ \A i, j \in 1..Len(s) : i <= j =>
           /\ s[i][2] + (j - i) <= frameLen(fr, s[i][1]) => s[j] = <<s[i][1], s[i][2] + (j - i)>>
           /\ s[i][2] + (j - i) = frameLen(fr, s[i][1]) + 1 => s[j] = <<s[i][1] + 1, 1>>
  BY DEF Coherent
<1>8. QED
  BY <1>1, <1>3, <1>4, <1>5, <1>6, <1>7 DEF Coherent

LEMMA FrameBytes ==
  ASSUME NEW m \in Nat, NEW len \in Nat
  PROVE  /\ Header(m) \in Seq(Byte)
         /\ Body(m, len) \in Seq(Byte) /\ Len(Body(m, len)) = len
         /\ \A k \in 1..len : Body(m, len)[k] = <<m, HeadLen + k>>
         /\ Header(m) \o Body(m, len) \in Seq(Byte)
         /\ Len(Header(m) \o Body(m, len)) = HeadLen + len
         /\ \A k \in 1..(HeadLen + len) : (Header(m) \o Body(m, len))[k] = <<m, k>>
<1>0. HeadLen \in Nat
  BY FrameReaderAssumption
<1>1. /\ Header(m) \in Seq(Byte) /\ Len(Header(m)) = HeadLen
      /\ \A k \in 1..HeadLen : Header(m)[k] = <<m, k>>
  BY <1>0 DEF Header, Byte
<1>2. /\ Body(m, len) \in Seq(Byte) /\ Len(Body(m, len)) = len
      /\ \A k \in 1..len : Body(m, len)[k] = <<m, HeadLen + k>>
  BY <1>0 DEF Body, Byte
<1>3. /\ Header(m) \o Body(m, len) \in Seq(Byte)
      /\ Len(Header(m) \o Body(m, len)) = Len(Header(m)) + Len(Body(m, len))
      /\ \A i \in 1..Len(Header(m)) : (Header(m) \o Body(m, len))[i] = Header(m)[i]
      /\ \A i \in 1..Len(Body(m, len)) :
           (Header(m) \o Body(m, len))[Len(Header(m)) + i] = Body(m, len)[i]
  <2>1. Header(m) \in Seq(Byte) /\ Body(m, len) \in Seq(Byte)
    BY <1>1, <1>2
  <2>2. QED
    BY ONLY <2>1, Joined
<1>4. \A k \in 1..(HeadLen + len) : (Header(m) \o Body(m, len))[k] = <<m, k>>
  <2>1. TAKE k \in 1..(HeadLen + len)
  <2>2. CASE k \in 1..HeadLen
    BY <1>1, <1>3, <2>2
  <2>3. CASE k \notin 1..HeadLen
    <3>1. k - HeadLen \in 1..len /\ HeadLen + (k - HeadLen) = k
      BY <1>0, <2>3
    <3>2. QED
      BY <1>1, <1>2, <1>3, <3>1
  <2>4. QED
    BY <2>2, <2>3
<1>5. QED
  BY <1>1, <1>2, <1>3, <1>4

(* One more frame is sent: its first byte follows the last one of the frame before. *)
LEMMA Extend ==
  ASSUME NEW s, NEW fr, NEW n, NEW b, Coherent(s, fr, n, b), NEW f \in Frame,
         b = 0 \/ n <= Len(fr)
  PROVE  Coherent(s \o (Header(Len(fr) + 1) \o Body(Len(fr) + 1, bodyLen(f))), Append(fr, f), n, b)
<1> DEFINE m == Len(fr) + 1
           x == Header(m) \o Body(m, bodyLen(f))
           t == s \o x
           gr == Append(fr, f)
           L == Len(s)
           F(k) == frameLen(fr, k)
           G(k) == frameLen(gr, k)
<1>1. /\ s \in Seq(Byte) /\ fr \in Seq(Frame) /\ n \in Nat \ {0} /\ b \in Nat
      /\ L \in Nat /\ Len(fr) \in Nat /\ m \in Nat \ {0} /\ bodyLen(f) \in Nat
      /\ HeadLen \in Nat \ {0}
  BY LenProperties, FrameReaderAssumption DEF Coherent, Frame, bodyLen
<1>2. /\ x \in Seq(Byte) /\ Len(x) = HeadLen + bodyLen(f) /\ Len(x) \in Nat \ {0}
      /\ \A k \in 1..Len(x) : x[k] = <<m, k>>
  <2>1. m \in Nat /\ bodyLen(f) \in Nat
    BY <1>1
  <2>2. /\ x \in Seq(Byte) /\ Len(x) = HeadLen + bodyLen(f)
        /\ \A k \in 1..(HeadLen + bodyLen(f)) : x[k] = <<m, k>>
    BY <2>1, FrameBytes
  <2>3. HeadLen + bodyLen(f) \in Nat \ {0}
    BY <1>1
  <2> HIDE DEF x
  <2>4. QED
    BY <2>2, <2>3
<1>3. gr \in Seq(Frame) /\ Len(gr) = m /\ gr[m] = f /\ \A k \in 1..Len(fr) : gr[k] = fr[k]
  BY <1>1, Appended
<1>4. /\ G(m) = Len(x)
      /\ \A k \in 1..Len(fr) : G(k) = F(k) /\ F(k) \in Nat \ {0}
  BY <1>1, <1>2, <1>3, FrameLength DEF frameLen
<1> HIDE DEF x
<1>5. /\ t \in Seq(Byte) /\ Len(t) = L + Len(x)
      /\ \A i \in 1..L : t[i] = s[i]
      /\ \A i \in 1..Len(x) : t[L + i] = x[i]
  <2>1. s \in Seq(Byte) /\ x \in Seq(Byte)
    BY <1>1, <1>2
  <2>2. QED
    BY ONLY <2>1, Joined
<1>6. \A i \in 1..L : s[i][1] \in 1..Len(fr) /\ s[i][2] \in 1..F(s[i][1])
  BY DEF Coherent
<1>7. \A i, j \in 1..L : i <= j =>
        /\ s[i][2] + (j - i) <= F(s[i][1]) => s[j] = <<s[i][1], s[i][2] + (j - i)>>
        /\ s[i][2] + (j - i) = F(s[i][1]) + 1 => s[j] = <<s[i][1] + 1, 1>>
  BY DEF Coherent
<1>8. /\ L = 0 => \/ b = 0 /\ Len(fr) = n - 1
                  \/ Len(fr) = n /\ b = F(n)
      /\ L > 0 => /\ n <= Len(fr) /\ b <= F(n)
                  /\ b < F(n) => s[1] = <<n, b + 1>>
                  /\ b = F(n) => s[1] = <<n + 1, 1>>
                  /\ s[L] = <<Len(fr), F(Len(fr))>>
  BY DEF Coherent
<1> HIDE DEF t, gr, F, G, m, L
<1>9. \A j \in (L + 1)..Len(t) : j - L \in 1..Len(x) /\ t[j] = <<m, j - L>>
  <2>1. TAKE j \in (L + 1)..Len(t)
  <2>2. j - L \in 1..Len(x) /\ L + (j - L) = j
    BY <1>1, <1>2, <1>5
  <2>3. QED
    BY <1>2, <1>5, <2>2
<1>10. \A i \in 1..Len(t) : t[i][1] \in 1..Len(gr) /\ t[i][2] \in 1..G(t[i][1])
  <2>1. TAKE i \in 1..Len(t)
  <2>2. CASE i \in 1..L
    <3>1. t[i] = s[i] /\ s[i][1] \in 1..Len(fr) /\ s[i][2] \in 1..F(s[i][1])
      BY <1>5, <1>6, <2>2
    <3>2. QED
      BY <1>1, <1>3, <1>4, <3>1 DEF m
  <2>3. CASE i \notin 1..L
    <3>1. t[i] = <<m, i - L>> /\ i - L \in 1..Len(x)
      BY <1>1, <1>2, <1>5, <1>9, <2>3
    <3>2. QED
      BY <1>1, <1>3, <1>4, <3>1
  <2>4. QED
    BY <2>2, <2>3
<1>11. \A i, j \in 1..Len(t) : i <= j =>
        /\ t[i][2] + (j - i) <= G(t[i][1]) => t[j] = <<t[i][1], t[i][2] + (j - i)>>
        /\ t[i][2] + (j - i) = G(t[i][1]) + 1 => t[j] = <<t[i][1] + 1, 1>>
  <2>1. TAKE i, j \in 1..Len(t)
  <2>2. HAVE i <= j
  <2>3. CASE j \in 1..L
    <3>1. i \in 1..L /\ t[i] = s[i] /\ t[j] = s[j]
      BY <1>1, <1>5, <2>2, <2>3
    <3>2. G(s[i][1]) = F(s[i][1])
      BY <1>4, <1>6, <3>1
    <3>3. /\ s[i][2] + (j - i) <= F(s[i][1]) => s[j] = <<s[i][1], s[i][2] + (j - i)>>
          /\ s[i][2] + (j - i) = F(s[i][1]) + 1 => s[j] = <<s[i][1] + 1, 1>>
      BY <1>7, <2>2, <2>3, <3>1
    <3>4. QED
      BY <3>1, <3>2, <3>3
  <2>4. CASE i \notin 1..L
    <3>0. i \in (L + 1)..Len(t) /\ j \in (L + 1)..Len(t)
      BY <1>1, <1>2, <1>5, <2>2, <2>4
    <3>1. t[i] = <<m, i - L>> /\ t[j] = <<m, j - L>> /\ j - L <= Len(x)
      BY <1>2, <1>9, <3>0
    <3>2. t[i][1] = m /\ t[i][2] + (j - i) = j - L
      BY <1>1, <3>1
    <3>3. QED
      BY <1>2, <1>4, <3>1, <3>2
  <2>5. CASE i \in 1..L /\ j \notin 1..L
    <3>1. /\ t[i] = s[i] /\ t[j] = <<m, j - L>> /\ j - L \in 1..Len(x)
          /\ L \in 1..L /\ i <= L /\ L > 0
      <4>1. j \in (L + 1)..Len(t) /\ L \in 1..L /\ i <= L /\ L > 0
        BY <1>1, <1>2, <1>5, <2>5
      <4>2. QED
        BY <1>5, <1>9, <2>5, <4>1
    <3> DEFINE a == s[i][1]
               k == s[i][2]
    <3>2. a \in 1..Len(fr) /\ k \in 1..F(a) /\ F(a) \in Nat /\ G(a) = F(a)
      BY <1>4, <1>6, <2>5
    <3>3. s[L] = <<Len(fr), F(Len(fr))>>
      BY <1>8, <3>1
    <3>4. k + (L - i) <= F(a) => s[L] = <<a, k + (L - i)>>
      BY <1>7, <2>5, <3>1
    <3>5. /\ t[i][1] = a /\ t[i][2] = k
      BY <3>1
    <3> HIDE DEF a, k
    <3>6. k + (L - i) <= F(a) => a = Len(fr) /\ k + (L - i) = F(a)
      BY <3>3, <3>4
    <3>7. i \in Nat /\ j \in Nat /\ k \in Nat
      BY <3>2
    <3> DEFINE h == F(a)
    <3>a. L \in Nat /\ h \in Nat /\ j > L /\ (k + (L - i) <= h => a = Len(fr) /\ k + (L - i) = h)
      BY <1>1, <3>1, <3>2, <3>6, <3>7
    <3> HIDE DEF h
    <3>b. ~(k + (j - i) <= h)
      BY <3>7, <3>a
    <3>c. k + (j - i) = h + 1 => j - L = 1 /\ a = Len(fr)
      <4>1. SUFFICES ASSUME k + (j - i) = h + 1 PROVE j - L = 1 /\ a = Len(fr)
        OBVIOUS
      <4>2. k + (L - i) <= h
        BY <3>7, <3>a, <4>1
      <4>3. QED
        BY <3>7, <3>a, <4>1, <4>2
    <3>8. ~(k + (j - i) <= F(a))
      BY <3>b DEF h
    <3>9. k + (j - i) = F(a) + 1 => j - L = 1 /\ a = Len(fr)
      BY <3>c DEF h
    <3>10. QED
      BY <3>1, <3>2, <3>5, <3>8, <3>9 DEF m
  <2>6. QED
    BY <2>3, <2>4, <2>5
<1>12. Len(t) > 0 /\ t[Len(t)] = <<Len(gr), G(Len(gr))>>
  <2>1. Len(t) \in (L + 1)..Len(t) /\ Len(t) - L = Len(x)
    BY <1>1, <1>2, <1>5
  <2>2. t[Len(t)] = <<m, Len(x)>>
    BY <1>9, <2>1
  <2>3. Len(t) > 0
    BY <1>1, <1>2, <1>5
  <2>4. QED
    BY <1>3, <1>4, <2>2, <2>3
<1>13. /\ n <= Len(gr) /\ b <= G(n)
       /\ b < G(n) => t[1] = <<n, b + 1>>
       /\ b = G(n) => t[1] = <<n + 1, 1>>
  <2>1. CASE L > 0
    <3>1. 1 \in 1..L /\ t[1] = s[1] /\ n \in 1..Len(fr)
      BY <1>1, <1>5, <1>8, <2>1
    <3>2. QED
      BY <1>1, <1>3, <1>4, <1>8, <2>1, <3>1 DEF m
  <2>2. CASE L = 0
    <3>1. 1 \in (L + 1)..Len(t) /\ t[1] = <<m, 1>>
      <4>1. 1 \in (L + 1)..Len(t) /\ 1 - L = 1
        BY <1>2, <1>5, <2>2
      <4>2. t[1] = <<m, 1 - L>>
        BY <1>9, <4>1
      <4>3. QED
        BY <4>1, <4>2
    <3>2. CASE b = 0 /\ Len(fr) = n - 1
      <4>1. n = m /\ Len(gr) = n /\ G(n) \in Nat \ {0}
        BY <1>1, <1>2, <1>3, <1>4, <3>2 DEF m
      <4>2. QED
        BY <1>1, <3>1, <3>2, <4>1
    <3>3. CASE Len(fr) = n /\ b = F(n)
      BY <1>1, <1>3, <1>4, <3>1, <3>3 DEF m
    <3>4. QED
      BY <1>8, <2>2, <3>2, <3>3
  <2>3. QED
    BY <1>1, <2>1, <2>2
<1>14. Coherent(t, gr, n, b)
  BY <1>1, <1>3, <1>5, <1>10, <1>11, <1>12, <1>13 DEF Coherent, G
<1>15. QED
  BY <1>14 DEF t, x, gr, m
-------------------------------------------------------------------------------
(* The bytes that have come and are not used up, and how far the session is into the
   frame it reads. *)
bytes(p) == data[p] \o in[p]

base(p) == IF rpc[p] = "body" THEN HeadLen ELSE 0

RpcPlaces == {"head", "body", "closed", "cleared", "stuck", "overrun"}

ReaderTypes ==
  /\ frames \in [Producers -> Seq(Frame)]
  /\ in \in [Producers -> Seq(Byte)]
  /\ rpc \in [Producers -> RpcPlaces]
  /\ want \in [Producers -> Nat]
  /\ data \in [Producers -> Seq(Byte)]
  /\ head \in [Producers -> Frame]
  /\ got \in [Producers -> Seq(Seq(Byte))]

(* As long as a session is read, what is left of its stream goes on where the session is. *)
Reading(p) ==
  /\ Len(data[p]) <= want[p]
  /\ Len(got[p]) = sent[p] /\ sent[p] <= Len(frames[p])
  /\ rpc[p] = "head" => want[p] = HeadLen
  /\ rpc[p] = "body" => /\ sent[p] + 1 <= Len(frames[p]) /\ head[p] = frames[p][sent[p] + 1]
                        /\ want[p] = size_t(head[p].len)
                        /\ -1 <= head[p].len /\ head[p].len <= MaxLength
  /\ rpc[p] \in {"closed", "cleared", "stuck"} => want[p] = 0
  /\ rpc[p] = "stuck" => head[p].len < -1
  /\ rpc[p] = "overrun" => head[p].len = -1
  /\ rpc[p] \in {"head", "body"} => Coherent(bytes(p), frames[p], sent[p] + 1, base(p))
  /\ \A n \in 1..Len(got[p]) : got[p][n] = Body(n, frames[p][n].len)

ReaderInv == ReaderTypes /\ \A p \in Producers : Reading(p)

(* A session that a step leaves alone. *)
LEMMA LeftAlone ==
  ASSUME NEW q \in Producers, Reading(q),
         frames'[q] = frames[q], in'[q] = in[q], rpc'[q] = rpc[q], want'[q] = want[q],
         data'[q] = data[q], head'[q] = head[q], got'[q] = got[q], sent'[q] = sent[q]
  PROVE  Reading(q)'
BY DEF Reading, bytes, base

LEMMA ReaderInitially ==
  ASSUME ReaderInit
  PROVE  ReaderInv
<1>1. /\ frames = [p \in Producers |-> <<>>] /\ in = [p \in Producers |-> <<>>]
      /\ rpc = [p \in Producers |-> "head"] /\ want = [p \in Producers |-> HeadLen]
      /\ data = [p \in Producers |-> <<>>] /\ got = [p \in Producers |-> <<>>]
      /\ head = [p \in Producers |-> [id |-> 0, len |-> 0]]
      /\ sent = [p \in Producers |-> 0]
  BY DEF ReaderInit, Init
<1>2. [id |-> 0, len |-> 0] \in Frame /\ HeadLen \in Nat
  BY FrameReaderAssumption DEF Frame
<1>3. ReaderTypes
  <2>1. <<>> \in Seq(Frame) /\ <<>> \in Seq(Byte) /\ <<>> \in Seq(Seq(Byte))
    BY EmptySeq
  <2>2. QED
    BY <1>1, <1>2, <2>1 DEF ReaderTypes, RpcPlaces
<1>4. ASSUME NEW p \in Producers
      PROVE  Reading(p)
  <2>1. Len(<<>>) = 0 /\ <<>> \in Seq(Byte) /\ <<>> \in Seq(Frame)
    BY EmptySeq
  <2>2. bytes(p) = <<>> /\ base(p) = 0 /\ frames[p] = <<>> /\ sent[p] + 1 = 1
    BY <1>1, <2>1, ConcatEmptySeq DEF bytes, base
  <2>3. Coherent(<<>>, <<>>, 1, 0)
    BY <2>1 DEF Coherent
  <2>4. QED
    BY <1>1, <1>2, <2>1, <2>2, <2>3 DEF Reading
<1>5. QED
  BY <1>3, <1>4 DEF ReaderInv

LEMMA ClientSendReading ==
  ASSUME TypeOK, ReaderInv, NEW p \in Producers, ClientSend(p)
  PROVE  ReaderInv'
<1> DEFINE n == Len(frames[p]) + 1
<1>1. PICK f \in Frames[p] :
        /\ frames' = [frames EXCEPT ![p] = Append(@, f)]
        /\ in' = [in EXCEPT ![p] = @ \o Header(n) \o Body(n, bodyLen(f))]
  BY DEF ClientSend
<1>2. /\ rpc[p] \in {"head", "body"} /\ sent' = sent
      /\ rpc' = rpc /\ want' = want /\ data' = data /\ head' = head /\ got' = got
  BY DEF ClientSend, vars
<1>3. f \in Frame /\ bodyLen(f) \in Nat
  BY FrameReaderAssumption DEF Frame, bodyLen
<1>4. /\ frames[p] \in Seq(Frame) /\ in[p] \in Seq(Byte) /\ data[p] \in Seq(Byte)
      /\ Len(frames[p]) \in Nat /\ sent[p] \in Nat
  BY LogicQueueAssumption, LenProperties DEF ReaderInv, ReaderTypes, TypeOK
<1> DEFINE H == Header(n)
           B == Body(n, bodyLen(f))
<1>5. H \in Seq(Byte) /\ B \in Seq(Byte)
  <2>1. n \in Nat
    BY <1>4
  <2>2. QED
    BY <1>3, <2>1, FrameBytes
<1>6. frames'[p] = Append(frames[p], f) /\ in'[p] = (in[p] \o H) \o B
  BY <1>1 DEF ReaderInv, ReaderTypes
<1>7. /\ frames'[p] \in Seq(Frame) /\ Len(frames'[p]) = n
      /\ \A i \in 1..Len(frames[p]) : frames'[p][i] = frames[p][i]
  BY <1>3, <1>4, <1>6, Appended
<1> HIDE DEF H, B
<1>8. (in[p] \o H) \o B \in Seq(Byte)
  <2>1. in[p] \o H \in Seq(Byte)
    BY <1>4, <1>5, ConcatProperties
  <2>2. QED
    BY <1>5, <2>1, ConcatProperties
<1>9. data[p] \o ((in[p] \o H) \o B) = (data[p] \o in[p]) \o (H \o B)
  <2>0. \A x, y, z \in Seq(Byte) : (x \o y) \o z = x \o (y \o z)
    BY ConcatAssociative
  <2>1. (in[p] \o H) \o B = in[p] \o (H \o B)
    BY <1>4, <1>5, <2>0
  <2>2. H \o B \in Seq(Byte)
    BY <1>5, ConcatProperties
  <2>3. (data[p] \o in[p]) \o (H \o B) = data[p] \o (in[p] \o (H \o B))
    BY <1>4, <2>0, <2>2
  <2>4. QED
    BY <2>1, <2>3
<1>10. ReaderTypes'
  BY <1>1, <1>2, <1>6, <1>7, <1>8 DEF ReaderInv, ReaderTypes
<1>11. Reading(p)
  BY DEF ReaderInv
<1>12. Coherent(bytes(p)', frames'[p], sent'[p] + 1, base(p)')
  <2>1. /\ Coherent(bytes(p), frames[p], sent[p] + 1, base(p))
        /\ base(p) = 0 \/ sent[p] + 1 <= Len(frames[p])
    BY <1>2, <1>11 DEF Reading, base
  <2>2. Coherent(bytes(p) \o (H \o B), Append(frames[p], f), sent[p] + 1, base(p))
    BY <1>3, <2>1, Extend DEF H, B
  <2>3. bytes(p)' = bytes(p) \o (H \o B) /\ base(p)' = base(p)
    BY <1>2, <1>6, <1>9 DEF bytes, base
  <2>4. QED
    BY <1>2, <1>6, <2>2, <2>3
<1>13. Reading(p)'
  <2>1. \A i \in 1..Len(got[p]) : i \in 1..Len(frames[p])
    BY <1>4, <1>11 DEF Reading
  <2>2. \A i \in 1..Len(got'[p]) : got'[p][i] = Body(i, frames'[p][i].len)
    BY <1>2, <1>7, <1>11, <2>1 DEF Reading
  <2>3. rpc[p] = "body" => /\ sent[p] + 1 <= Len(frames'[p])
                          /\ head[p] = frames'[p][sent[p] + 1]
    BY <1>4, <1>7, <1>11 DEF Reading
  <2>4. sent[p] <= Len(frames'[p])
    BY <1>4, <1>7, <1>11 DEF Reading
  <2>5. QED
    BY <1>2, <1>11, <1>12, <2>2, <2>3, <2>4 DEF Reading
<1>14. ASSUME NEW q \in Producers, q # p
       PROVE  Reading(q)'
  <2>1. frames'[q] = frames[q] /\ in'[q] = in[q]
    BY <1>1, <1>14 DEF ReaderInv, ReaderTypes
  <2>2. QED
    BY <1>2, <2>1, LeftAlone DEF ReaderInv
<1>15. QED
  BY <1>10, <1>13, <1>14 DEF ReaderInv

(* What a session has, and what it has once it has received k bytes. *)
LEMMA Received ==
  ASSUME TypeOK, ReaderInv, NEW p \in Producers, handling(p), NEW k \in Nat, Receive(p, k)
  PROVE  /\ frames[p] \in Seq(Frame) /\ in[p] \in Seq(Byte) /\ data[p] \in Seq(Byte)
         /\ Len(frames[p]) \in Nat /\ Len(in[p]) \in Nat /\ Len(data[p]) \in Nat
         /\ want[p] \in Nat /\ sent[p] \in Nat /\ HeadLen \in Nat /\ MaxLength \in Nat
         /\ Reading(p) /\ Coherent(bytes(p), frames[p], sent[p] + 1, base(p))
         /\ Len(bytes(p)) = Len(data[p]) + Len(in[p])
         /\ k \in 0..Len(in[p])
         /\ in' \in [Producers -> Seq(Byte)]
         /\ in'[p] = SubSeq(in[p], k + 1, Len(in[p]))
         /\ \A q \in Producers \ {p} : in'[q] = in[q]
<1>1. /\ frames[p] \in Seq(Frame) /\ in[p] \in Seq(Byte) /\ data[p] \in Seq(Byte)
      /\ want[p] \in Nat /\ in \in [Producers -> Seq(Byte)]
  BY DEF ReaderInv, ReaderTypes
<1>2. Len(frames[p]) \in Nat /\ Len(in[p]) \in Nat /\ Len(data[p]) \in Nat
  BY <1>1, LenProperties
<1>3. sent[p] \in Nat /\ HeadLen \in Nat /\ MaxLength \in Nat
  BY LogicQueueAssumption, FrameReaderAssumption DEF TypeOK
<1>4. Reading(p) /\ Coherent(bytes(p), frames[p], sent[p] + 1, base(p))
  BY DEF ReaderInv, Reading, handling
<1>5. Len(bytes(p)) = Len(data[p]) + Len(in[p])
  BY <1>1, ConcatProperties DEF bytes
<1>6. k \in 0..Len(in[p]) /\ in' = [in EXCEPT ![p] = SubSeq(in[p], k + 1, Len(in[p]))]
  BY <1>1, <1>2 DEF Receive
<1>7. SubSeq(in[p], k + 1, Len(in[p])) \in Seq(Byte)
  BY <1>1, <1>6, Cut
<1>8. QED
  BY <1>1, <1>2, <1>3, <1>4, <1>5, <1>6, <1>7

LEMMA PartialReadReading ==
  ASSUME TypeOK, ReaderInv, NEW p \in Producers, PartialRead(p)
  PROVE  ReaderInv'
<1>1. PICK k \in 1..Len(in[p]) :
        /\ k < rest(p) /\ Receive(p, k)
        /\ data' = [data EXCEPT ![p] = data[p] \o SubSeq(in[p], 1, k)]
  BY DEF PartialRead
<1>2. /\ frames' = frames /\ rpc' = rpc /\ want' = want /\ head' = head /\ got' = got
      /\ sent' = sent
  BY DEF PartialRead, vars
<1>3. handling(p)
  BY <1>1 DEF Receive
<1>4. k \in Nat
  BY LenProperties DEF ReaderInv, ReaderTypes
<1>5. /\ in[p] \in Seq(Byte) /\ data[p] \in Seq(Byte)
      /\ Len(in[p]) \in Nat /\ Len(data[p]) \in Nat /\ want[p] \in Nat
      /\ Reading(p) /\ k \in 0..Len(in[p])
      /\ in' \in [Producers -> Seq(Byte)]
      /\ in'[p] = SubSeq(in[p], k + 1, Len(in[p]))
      /\ \A q \in Producers \ {p} : in'[q] = in[q]
  BY <1>1, <1>3, <1>4, Received
<1>6. /\ data[p] \o SubSeq(in[p], 1, k) \in Seq(Byte)
      /\ Len(data[p] \o SubSeq(in[p], 1, k)) = Len(data[p]) + k
      /\ (data[p] \o SubSeq(in[p], 1, k)) \o SubSeq(in[p], k + 1, Len(in[p])) = data[p] \o in[p]
  <2>1. \A d, t \in Seq(Byte) : \A i \in 0..Len(t) :
          /\ d \o SubSeq(t, 1, i) \in Seq(Byte)
          /\ Len(d \o SubSeq(t, 1, i)) = Len(d) + i
          /\ (d \o SubSeq(t, 1, i)) \o SubSeq(t, i + 1, Len(t)) = d \o t
    <3>1. TAKE d, t \in Seq(Byte)
    <3>2. TAKE i \in 0..Len(t)
    <3>3. QED
      BY ReadOn
  <2>2. QED
    BY <1>5, <2>1
<1>7. /\ data' \in [Producers -> Seq(Byte)]
      /\ data'[p] = data[p] \o SubSeq(in[p], 1, k)
      /\ \A q \in Producers \ {p} : data'[q] = data[q]
  <2>1. data \in [Producers -> Seq(Byte)]
    BY DEF ReaderInv, ReaderTypes
  <2>2. QED
    BY <1>1, <1>6, <2>1
<1>8. ReaderTypes'
  BY <1>2, <1>5, <1>7 DEF ReaderInv, ReaderTypes
<1>9. Reading(p)'
  <2>1. bytes(p)' = bytes(p) /\ base(p)' = base(p)
    BY <1>2, <1>5, <1>6, <1>7 DEF bytes, base
  <2>2. Len(data'[p]) <= want[p]
    BY <1>1, <1>4, <1>5, <1>6, <1>7 DEF rest
  <2>3. QED
    BY <1>2, <1>5, <2>1, <2>2 DEF Reading
<1>10. ASSUME NEW q \in Producers, q # p
       PROVE  Reading(q)'
  BY <1>2, <1>5, <1>7, <1>10, LeftAlone DEF ReaderInv
<1>11. QED
  BY <1>8, <1>9, <1>10 DEF ReaderInv

(* A read that gives all it was asked for: the bytes read, and what is left of the stream. *)
LEMMA ReadAll ==
  ASSUME TypeOK, ReaderInv, NEW p \in Producers, handling(p), Receive(p, rest(p))
  PROVE  /\ rest(p) \in 0..Len(in[p])
         /\ want[p] <= Len(bytes(p)) /\ bytes(p) \in Seq(Byte)
         /\ data[p] \o SubSeq(in[p], 1, rest(p)) = SubSeq(bytes(p), 1, want[p])
         /\ <<>> \o in'[p] = SubSeq(bytes(p), want[p] + 1, Len(bytes(p)))
<1>1. rest(p) \in Nat
  BY LenProperties DEF rest, ReaderInv, Reading, ReaderTypes
<1>2. /\ in[p] \in Seq(Byte) /\ data[p] \in Seq(Byte)
      /\ Len(in[p]) \in Nat /\ Len(data[p]) \in Nat /\ want[p] \in Nat
      /\ Len(bytes(p)) = Len(data[p]) + Len(in[p])
      /\ rest(p) \in 0..Len(in[p])
      /\ in'[p] = SubSeq(in[p], rest(p) + 1, Len(in[p]))
  BY <1>1, Received
<1>3. Len(data[p]) + rest(p) = want[p]
  BY <1>2 DEF rest
<1>4. \A d, t \in Seq(Byte) : \A i \in 0..Len(t) :
        /\ d \o SubSeq(t, 1, i) = SubSeq(d \o t, 1, Len(d) + i)
        /\ <<>> \o SubSeq(t, i + 1, Len(t)) = SubSeq(d \o t, (Len(d) + i) + 1, Len(d \o t))
  <2>1. TAKE d, t \in Seq(Byte)
  <2>2. TAKE i \in 0..Len(t)
  <2>3. QED
    BY ReadOn
<1>5. bytes(p) \in Seq(Byte)
  BY <1>2, ConcatProperties DEF bytes
<1>6. /\ data[p] \o SubSeq(in[p], 1, rest(p)) = SubSeq(bytes(p), 1, want[p])
      /\ <<>> \o in'[p] = SubSeq(bytes(p), want[p] + 1, Len(bytes(p)))
  BY <1>2, <1>3, <1>4 DEF bytes
<1>7. want[p] <= Len(bytes(p))
  <2>1. \A w, d, i \in Nat : w - d <= i => w <= d + i
    OBVIOUS
  <2>2. want[p] \in Nat /\ Len(data[p]) \in Nat /\ Len(in[p]) \in Nat
    BY <1>2
  <2>3. want[p] - Len(data[p]) <= Len(in[p])
    BY <1>2 DEF rest
  <2>4. want[p] <= Len(data[p]) + Len(in[p])
    BY ONLY <2>1, <2>2, <2>3
  <2>5. QED
    BY <1>2, <2>4
<1>8. QED
  BY <1>2, <1>5, <1>6, <1>7

(* What ReadFull asks for. *)
LEMMA Asked ==
  ASSUME ReaderInv, NEW p \in Producers, NEW next \in RpcPlaces,
         NEW total \in Nat, ReadFull(p, next, total)
  PROVE  /\ rpc' \in [Producers -> RpcPlaces]
         /\ want' \in [Producers -> Nat] /\ data' \in [Producers -> Seq(Byte)]
         /\ rpc'[p] = next /\ want'[p] = total /\ data'[p] = <<>> /\ Len(data'[p]) = 0
         /\ \A q \in Producers \ {p} : rpc'[q] = rpc[q] /\ want'[q] = want[q] /\ data'[q] = data[q]
<1>1. <<>> \in Seq(Byte) /\ Len(<<>>) = 0
  BY EmptySeq
<1>2. QED
  BY <1>1 DEF ReaderInv, ReaderTypes, ReadFull

LEMMA HeadDoneReading ==
  ASSUME TypeOK, ReaderInv, NEW p \in Producers, HeadDone(p)
  PROVE  ReaderInv'
<1> DEFINE n == sent[p] + 1
           f == frames[p][(data[p] \o in[p])[1][1]]
<1>1. /\ rpc[p] = "head" /\ Receive(p, rest(p)) /\ handling(p)
      /\ frames' = frames /\ got' = got /\ sent' = sent
      /\ head' = [head EXCEPT ![p] = f]
      /\ \/ ~Valid(f) /\ ReadFull(p, "cleared", 0)
         \/ Valid(f) /\ BodyAsked(p, f.len)
  BY DEF HeadDone, Receive, vars
<1>2. rest(p) \in Nat
  BY LenProperties DEF rest, ReaderInv, Reading, ReaderTypes
<1>3. /\ frames[p] \in Seq(Frame) /\ Len(frames[p]) \in Nat /\ sent[p] \in Nat
      /\ HeadLen \in Nat /\ MaxLength \in Nat
      /\ Reading(p) /\ Coherent(bytes(p), frames[p], n, base(p))
      /\ in' \in [Producers -> Seq(Byte)]
      /\ \A q \in Producers \ {p} : in'[q] = in[q]
  BY <1>1, <1>2, Received
<1>4. /\ want[p] = HeadLen /\ base(p) = 0
      /\ HeadLen <= Len(bytes(p)) /\ bytes(p) \in Seq(Byte)
      /\ <<>> \o in'[p] = SubSeq(bytes(p), HeadLen + 1, Len(bytes(p)))
  <2>1. want[p] = HeadLen /\ base(p) = 0
    BY <1>1, <1>3 DEF Reading, base
  <2>2. QED
    BY <1>1, <2>1, ReadAll
<1>5. 1 \in 1..HeadLen /\ Len(bytes(p)) > 0
  BY <1>4, FrameReaderAssumption, LenProperties
<1>6. n \in 1..Len(frames[p])
  BY <1>3, <1>5 DEF Coherent
<1>7. /\ frames[p][n] \in Frame /\ frames[p][n].len \in Int
      /\ frameLen(frames[p], n) \in Nat /\ 0 + HeadLen <= frameLen(frames[p], n)
  BY <1>3, <1>6, FrameLength, ElementOfSeq
<1>8. /\ \A i \in 1..HeadLen : bytes(p)[i] = <<n, 0 + i>>
      /\ Coherent(SubSeq(bytes(p), HeadLen + 1, Len(bytes(p))), frames[p], n, 0 + HeadLen)
  <2>1. /\ n <= Len(frames[p]) /\ HeadLen \in Nat /\ HeadLen <= Len(bytes(p))
        /\ 0 + HeadLen <= frameLen(frames[p], n) /\ Coherent(bytes(p), frames[p], n, 0)
    BY <1>3, <1>4, <1>6, <1>7
  <2>2. QED
    BY ONLY <2>1, Advance
<1>9. f = frames[p][n]
  <2>1. bytes(p)[1] = <<n, 1>>
    BY <1>5, <1>8
  <2>2. (data[p] \o in[p])[1][1] = n
    BY <2>1 DEF bytes
  <2>3. QED
    BY <2>2
<1> HIDE DEF f
<1>10. head' \in [Producers -> Frame] /\ head'[p] = frames[p][n]
       /\ \A q \in Producers \ {p} : head'[q] = head[q]
  BY <1>1, <1>7, <1>9 DEF ReaderInv, ReaderTypes
<1>11. /\ rpc' \in [Producers -> RpcPlaces]
       /\ want' \in [Producers -> Nat] /\ data' \in [Producers -> Seq(Byte)]
       /\ data'[p] = <<>> /\ Len(data'[p]) = 0
       /\ \A q \in Producers \ {p} : rpc'[q] = rpc[q] /\ want'[q] = want[q] /\ data'[q] = data[q]
       /\ \/ /\ Valid(f) /\ -1 <= f.len
             /\ rpc'[p] = "body" /\ want'[p] = size_t(f.len)
          \/ rpc'[p] = "stuck" /\ want'[p] = 0 /\ f.len < -1
          \/ rpc'[p] = "cleared" /\ want'[p] = 0
  <2>0. {"head", "body", "closed", "cleared", "stuck", "overrun"} = RpcPlaces /\ 0 \in Nat
    BY DEF RpcPlaces
  <2>1. CASE Valid(f) /\ f.len >= -1 /\ ReadFull(p, "body", size_t(f.len))
    <3>1. size_t(f.len) \in Nat
      BY <1>7, <1>9, <2>1, FrameReaderAssumption DEF size_t
    <3> QED BY <1>7, <1>9, <2>0, <2>1, <3>1, Asked
  <2>2. CASE f.len < -1 /\ ReadFull(p, "stuck", 0)
    BY <2>0, <2>2, Asked
  <2>3. CASE ReadFull(p, "cleared", 0)
    BY <2>0, <2>3, Asked
  <2>4. QED
    BY <1>1, <2>1, <2>2, <2>3 DEF BodyAsked
<1>12. ReaderTypes'
  BY <1>1, <1>3, <1>10, <1>11 DEF ReaderInv, ReaderTypes
<1>13. Reading(p)'
  <2>1. rpc'[p] = "body" => Coherent(bytes(p)', frames[p], n, base(p)')
    <3>1. rpc'[p] = "body" => base(p)' = 0 + HeadLen
      BY <1>3 DEF base
    <3>2. bytes(p)' = SubSeq(bytes(p), HeadLen + 1, Len(bytes(p)))
      BY <1>4, <1>11 DEF bytes
    <3>3. QED
      BY <1>8, <3>1, <3>2
  <2>2. Len(data'[p]) <= want'[p]
    BY <1>11
  <2>3. n <= Len(frames[p])
    BY <1>3, <1>6
  <2>4. /\ rpc'[p] = "body" => /\ want'[p] = size_t(head'[p].len)
                              /\ -1 <= head'[p].len /\ head'[p].len <= MaxLength
        /\ rpc'[p] \in {"closed", "cleared", "stuck"} => want'[p] = 0
        /\ rpc'[p] = "stuck" => head'[p].len < -1
        /\ rpc'[p] # "overrun" /\ rpc'[p] # "head"
    BY <1>9, <1>10, <1>11 DEF Valid
  <2>5. QED
    BY <1>1, <1>3, <1>9, <1>10, <1>11, <2>1, <2>2, <2>3, <2>4 DEF Reading
<1>14. ASSUME NEW q \in Producers, q # p
       PROVE  Reading(q)'
  BY <1>1, <1>3, <1>10, <1>11, <1>14, LeftAlone DEF ReaderInv
<1>15. QED
  BY <1>12, <1>13, <1>14 DEF ReaderInv

LEMMA BodyDoneReading ==
  ASSUME TypeOK, ReaderInv, NEW p \in Producers, BodyDone(p)
  PROVE  ReaderInv'
<1> DEFINE n == sent[p] + 1
           b == data[p] \o SubSeq(in[p], 1, rest(p))
<1>1. /\ rpc[p] = "body" /\ Receive(p, rest(p)) /\ handling(p)
      /\ frames' = frames /\ head' = head
      /\ got' = [got EXCEPT ![p] = Append(got[p], b)]
      /\ sent' = [sent EXCEPT ![p] = n]
      /\ ReadFull(p, "head", HeadLen)
  BY DEF BodyDone, Receive, Post
<1>2. rest(p) \in Nat
  BY LenProperties DEF rest, ReaderInv, Reading, ReaderTypes
<1>3. /\ frames[p] \in Seq(Frame) /\ Len(frames[p]) \in Nat /\ sent[p] \in Nat
      /\ HeadLen \in Nat /\ want[p] \in Nat
      /\ Reading(p) /\ Coherent(bytes(p), frames[p], n, base(p))
      /\ in' \in [Producers -> Seq(Byte)]
      /\ \A q \in Producers \ {p} : in'[q] = in[q]
  BY <1>1, <1>2, Received
<1>4. /\ n \in 1..Len(frames[p]) /\ base(p) = HeadLen /\ Len(got[p]) = sent[p]
      /\ want[p] = frames[p][n].len /\ want[p] = bodyLen(frames[p][n])
  <2>a. /\ sent[p] + 1 <= Len(frames[p]) /\ head[p] = frames[p][sent[p] + 1]
        /\ want[p] = size_t(head[p].len) /\ -1 <= head[p].len
        /\ Len(got[p]) = sent[p]
    <3> HIDE DEF n, b
    <3> QED BY <1>1, <1>3 DEF Reading
  <2>b. base(p) = HeadLen
    BY <1>1 DEF base
  <2>c. n \in 1..Len(frames[p])
    BY <1>3, <2>a
  <2>1. /\ n \in 1..Len(frames[p]) /\ base(p) = HeadLen /\ Len(got[p]) = sent[p]
        /\ want[p] = size_t(frames[p][n].len) /\ -1 <= frames[p][n].len
    BY <2>a, <2>b, <2>c
  <2>2. frames[p][n].len \in Int /\ Len(data[p]) \in Nat
    BY <1>3, <2>1, FrameLength, LenProperties DEF ReaderInv, ReaderTypes
  <2>3. want[p] <= MaxLength
    BY <1>1, <1>3, <2>2 DEF Receive, rest
  <2> QED BY <2>1, <2>2, <2>3, FrameReaderAssumption DEF size_t, bodyLen
<1>5. /\ want[p] <= Len(bytes(p)) /\ bytes(p) \in Seq(Byte)
      /\ b = SubSeq(bytes(p), 1, want[p])
      /\ <<>> \o in'[p] = SubSeq(bytes(p), want[p] + 1, Len(bytes(p)))
  BY <1>1, ReadAll
<1>6. HeadLen + want[p] = frameLen(frames[p], n)
  BY <1>4 DEF frameLen
<1>7. /\ \A i \in 1..want[p] : bytes(p)[i] = <<n, HeadLen + i>>
      /\ Coherent(SubSeq(bytes(p), want[p] + 1, Len(bytes(p))), frames[p], n, HeadLen + want[p])
  <2>1. /\ n <= Len(frames[p]) /\ HeadLen + want[p] <= frameLen(frames[p], n)
        /\ Coherent(bytes(p), frames[p], n, HeadLen)
    BY <1>3, <1>4, <1>6
  <2>2. want[p] \in Nat /\ want[p] <= Len(bytes(p))
    BY <1>3, <1>5
  <2>3. QED
    BY ONLY <2>1, <2>2, Advance
<1> HIDE DEF b
<1>8. b \in Seq(Byte) /\ b = Body(n, want[p])
  <2>1. want[p] \in 0..Len(bytes(p))
    BY <1>3, <1>5, LenProperties
  <2>2. /\ b \in Seq(Byte) /\ Len(b) = want[p]
        /\ \A i \in 1..want[p] : b[i] = bytes(p)[i]
    BY <1>5, <2>1, Cut
  <2>3. /\ Body(n, want[p]) \in Seq(Byte) /\ Len(Body(n, want[p])) = want[p]
        /\ \A k \in 1..want[p] : Body(n, want[p])[k] = <<n, HeadLen + k>>
    <3>1. n \in Nat
      BY <1>3
    <3>2. QED
      BY <1>3, <3>1, FrameBytes
  <2>4. QED
    BY <1>7, <2>2, <2>3, SeqEqual
<1>9. Coherent(SubSeq(bytes(p), want[p] + 1, Len(bytes(p))), frames[p], n + 1, 0)
  <2>1. n <= Len(frames[p])
    BY <1>3, <1>4
  <2>2. QED
    BY <1>6, <1>7, <2>1, Turn
<1>10. /\ rpc' \in [Producers -> RpcPlaces]
       /\ want' \in [Producers -> Nat] /\ data' \in [Producers -> Seq(Byte)]
       /\ rpc'[p] = "head" /\ want'[p] = HeadLen /\ data'[p] = <<>> /\ Len(data'[p]) = 0
       /\ \A q \in Producers \ {p} : rpc'[q] = rpc[q] /\ want'[q] = want[q] /\ data'[q] = data[q]
  BY <1>1, <1>3, Asked DEF RpcPlaces
<1>11. /\ got' \in [Producers -> Seq(Seq(Byte))]
       /\ Len(got'[p]) = n /\ got'[p][n] = b
       /\ \A i \in 1..sent[p] : got'[p][i] = got[p][i]
       /\ \A q \in Producers \ {p} : got'[q] = got[q]
  <2>1. got \in [Producers -> Seq(Seq(Byte))]
    BY DEF ReaderInv, ReaderTypes
  <2>2. /\ Append(got[p], b) \in Seq(Seq(Byte)) /\ Len(Append(got[p], b)) = Len(got[p]) + 1
        /\ Append(got[p], b)[Len(got[p]) + 1] = b
        /\ \A i \in 1..Len(got[p]) : Append(got[p], b)[i] = got[p][i]
    BY <1>8, <2>1, Appended
  <2>3. QED
    BY <1>1, <1>4, <2>1, <2>2
<1>12. sent'[p] = n /\ \A q \in Producers \ {p} : sent'[q] = sent[q]
  BY <1>1 DEF TypeOK
<1>13. ReaderTypes'
  BY <1>1, <1>3, <1>10, <1>11 DEF ReaderInv, ReaderTypes
<1>14. Reading(p)'
  <2>1. Coherent(bytes(p)', frames[p], n + 1, base(p)')
    <3>1. bytes(p)' = <<>> \o in'[p]
      BY <1>10 DEF bytes
    <3>2. base(p)' = 0
      BY <1>10 DEF base
    <3>3. QED
      BY <1>5, <1>9, <3>1, <3>2
  <2>2. \A i \in 1..n : got'[p][i] = Body(i, frames[p][i].len)
    <3>1. \A i \in 1..n : i = n \/ i \in 1..sent[p]
      BY <1>3
    <3>2. QED
      BY <1>3, <1>4, <1>8, <1>11, <3>1 DEF Reading
  <2>3. Len(data'[p]) <= want'[p] /\ n <= Len(frames[p])
    BY <1>3, <1>4, <1>10
  <2>4. QED
    BY <1>1, <1>10, <1>11, <1>12, <2>1, <2>2, <2>3 DEF Reading
<1>15. ASSUME NEW q \in Producers, q # p
       PROVE  Reading(q)'
  BY <1>1, <1>3, <1>10, <1>11, <1>12, <1>15, LeftAlone DEF ReaderInv
<1>16. QED
  BY <1>13, <1>14, <1>15 DEF ReaderInv

LEMMA ReadErrorReading ==
  ASSUME TypeOK, ReaderInv, NEW p \in Producers, ReadError(p)
  PROVE  ReaderInv'
<1>1. /\ frames' = frames /\ got' = got /\ head' = head /\ sent' = sent
      /\ in' = [in EXCEPT ![p] = <<>>] /\ ReadFull(p, "closed", 0)
  BY DEF ReadError, vars
<1>2. /\ rpc' \in [Producers -> RpcPlaces]
      /\ want' \in [Producers -> Nat] /\ data' \in [Producers -> Seq(Byte)]
      /\ rpc'[p] = "closed" /\ want'[p] = 0 /\ data'[p] = <<>> /\ Len(data'[p]) = 0
      /\ \A q \in Producers \ {p} : rpc'[q] = rpc[q] /\ want'[q] = want[q] /\ data'[q] = data[q]
  BY <1>1, Asked DEF RpcPlaces
<1>3. in' \in [Producers -> Seq(Byte)] /\ \A q \in Producers \ {p} : in'[q] = in[q]
  <2>1. <<>> \in Seq(Byte)
    BY EmptySeq
  <2>2. QED
    BY <1>1, <2>1 DEF ReaderInv, ReaderTypes
<1>4. ReaderTypes'
  BY <1>1, <1>2, <1>3 DEF ReaderInv, ReaderTypes
<1>5. Reading(p)'
  <2>1. Reading(p)
    BY DEF ReaderInv
  <2>2. QED
    BY <1>1, <1>2, <2>1 DEF Reading
<1>6. ASSUME NEW q \in Producers, q # p
      PROVE  Reading(q)'
  BY <1>1, <1>2, <1>3, <1>6, LeftAlone DEF ReaderInv
<1>7. QED
  BY <1>4, <1>5, <1>6 DEF ReaderInv

LEMMA OverrunReading ==
  ASSUME TypeOK, ReaderInv, NEW p \in Producers, Overrun(p)
  PROVE  ReaderInv'
<1>1. /\ rpc[p] \in {"head", "body"} /\ rpc' = [rpc EXCEPT ![p] = "overrun"]
      /\ UNCHANGED <<frames, in, want, data, head, got, sent>>
  BY DEF Overrun, handling, vars
<1>2. PICK k \in 1..Len(in[p]) : k <= rest(p) /\ Len(data[p]) + k > MaxLength
  BY DEF Overrun
<1>3. /\ rpc \in [Producers -> RpcPlaces] /\ Reading(p)
      /\ Len(data[p]) \in Nat /\ Len(in[p]) \in Nat /\ want[p] \in Nat /\ head[p].len \in Int
  BY LenProperties DEF ReaderInv, ReaderTypes, Frame
<1>4. want[p] > MaxLength
  BY <1>2, <1>3, FrameReaderAssumption DEF rest
<1>5. head[p].len = -1
  BY <1>1, <1>3, <1>4, FrameReaderAssumption DEF Reading, size_t
<1>6. ReaderTypes'
  BY <1>1, <1>3 DEF ReaderInv, ReaderTypes, RpcPlaces
<1>7. Reading(p)'
  BY <1>1, <1>3, <1>5 DEF Reading
<1>8. ASSUME NEW q \in Producers, q # p
      PROVE  Reading(q)'
  BY <1>1, <1>3, <1>8, LeftAlone DEF ReaderInv
<1>9. QED
  BY <1>6, <1>7, <1>8 DEF ReaderInv

(* However the network cuts the streams into pieces and the io threads and the logic
   thread take turns, what is left of a stream goes on where its session is. *)
THEOREM ReaderInductive == ReaderSpec => []ReaderInv
<1>1. ReaderInit => ReaderInv
  BY ReaderInitially
<1>2. TypeOK /\ ReaderInv /\ [ReaderNext]_allVars => ReaderInv'
  <2> SUFFICES ASSUME TypeOK, ReaderInv, [ReaderNext]_allVars
               PROVE  ReaderInv'
    OBVIOUS
  <2>1. ASSUME NEW p \in Producers, ClientSend(p) \/ Read(p) \/ Overrun(p) \/ ReadError(p)
        PROVE  ReaderInv'
    BY <2>1, ClientSendReading, PartialReadReading, HeadDoneReading, BodyDoneReading,
       OverrunReading, ReadErrorReading DEF Read
  <2>2. CASE UNCHANGED <<sent, readerVars>>
    BY <2>2 DEF readerVars, ReaderInv, ReaderTypes, Reading, bytes, base
  <2>3. CASE Queue
    <3>1. UNCHANGED <<sent, readerVars>>
      BY <2>3 DEF Queue, IoThread, Notify, ThreadEnds, PoolStop, Worker, WorkerLock,
         WorkerTest, WorkerWait, WorkerSpurious, WorkerServe, WorkerDrain, WorkerExit,
         Destructor, SetStop, NotifyStop, Join
    <3>2. QED
      BY <2>2, <3>1
  <2>4. QED
    BY <2>1, <2>2, <2>3 DEF ReaderNext, allVars, vars
<1>3. ReaderSpec => []TypeOK
  BY ReaderIsQueue, TypeCorrect, PTL
<1>4. QED
  BY <1>1, <1>2, <1>3, PTL DEF ReaderSpec

(* A session that asks for more bytes than _data holds, or is left without a read, has
   accepted a header with a negative length; any other reads the body of the frame whose
   header it has read (CSession.cpp:176-193, 235-265). *)
THEOREM NegativeLengths == ReaderSpec => []ReaderTypeOK
<1>1. ReaderInv => ReaderTypeOK
  <2> SUFFICES ASSUME ReaderInv, NEW p \in Producers
               PROVE  ReaderTypeOK!1!(p)
    BY DEF ReaderTypeOK
  <2>1. HeadLen \in Nat /\ MaxLength \in Nat /\ HeadLen <= MaxLength
    BY FrameReaderAssumption
  <2>2. rpc[p] \in RpcPlaces /\ Reading(p) /\ head[p].len \in Int
    BY DEF ReaderInv, ReaderTypes, Frame
  <2>3. ASSUME want[p] > MaxLength \/ rpc[p] = "overrun"
        PROVE  head[p].len = -1
    BY <2>1, <2>2, <2>3 DEF Reading, RpcPlaces, size_t
  <2> QED BY <2>2, <2>3 DEF Reading, RpcPlaces
<1>2. QED
  BY <1>1, ReaderInductive, PTL

(* For any way in which the network cuts the stream into pieces, any lengths of the header
   and of the bodies, empty ones included, and any number of sessions: the n-th body posted
   is the n-th body sent (CSession.cpp:235-265, 119-131). *)
THEOREM FramesWhole == ReaderSpec => []WholeFrames
<1>1. ReaderInv => WholeFrames
  BY DEF ReaderInv, Reading, WholeFrames
<1>2. QED
  BY <1>1, ReaderInductive, PTL
=============================================================================
