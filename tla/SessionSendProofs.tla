-------------------------- MODULE SessionSendProofs --------------------------
(***************************************************************************)
(* Proofs about the send path of a session, for any threads, any number of *)
(* calls and any MAX_SENDQUE.  The six invariants are proved together: the *)
(* conjunction IInv of SessionSend.tla is inductive, none of them is alone. *)
(* From it follows that every step is one of the channel's, or a stutter.  *)
(***************************************************************************)
EXTENDS SessionSend, SequenceTheorems, TLAPS

(* The operations left of a single one, once its handler has run. *)
LEMMA FinishedOnly ==
  ASSUME NEW S, NEW ws \in Seq(S), Len(ws) = 1
  PROVE  SubSeq(ws, 1, 0) \o SubSeq(ws, 2, Len(ws)) = <<>>
<1>1. SubSeq(ws, 1, 0) = <<>> /\ SubSeq(ws, 2, Len(ws)) = <<>>
  OBVIOUS
<1>2. QED
  BY <1>1

(* Adding one element to a sequence, index by index. *)
LEMMA Appended ==
  ASSUME NEW S, NEW s \in Seq(S), NEW e \in S
  PROVE  /\ Append(s, e) \in Seq(S)
         /\ Len(Append(s, e)) = Len(s) + 1
         /\ Append(s, e)[Len(s) + 1] = e
         /\ \A i \in 1..Len(s) : Append(s, e)[i] = s[i]
OBVIOUS

(* Taking the front of a sequence, index by index. *)
LEMMA Popped ==
  ASSUME NEW S, NEW s \in Seq(S), s # <<>>
  PROVE  /\ Tail(s) \in Seq(S)
         /\ Len(Tail(s)) = Len(s) - 1
         /\ \A i \in 1..Len(Tail(s)) : Tail(s)[i] = s[i + 1]
OBVIOUS

LEMMA OnlyOne ==
  ASSUME NEW n \in Nat, NEW i \in 1..n, n <= 1
  PROVE  i = 1 /\ n = 1
OBVIOUS

(* Completing the only operation under way with a result. *)
LEMMA Completed ==
  ASSUME NEW ws \in Seq(Write), Len(ws) = 1, NEW r \in {"started", "ok", "error"}
  PROVE  /\ [ws EXCEPT ![1].res = r] \in Seq(Write)
         /\ Len([ws EXCEPT ![1].res = r]) = 1
         /\ [ws EXCEPT ![1].res = r][1].msg = ws[1].msg
         /\ [ws EXCEPT ![1].res = r][1].res = r
<1> DEFINE e == [ws[1] EXCEPT !.res = r]
<1>1. ws[1] \in Write
  OBVIOUS
<1>2. e \in Write /\ e.msg = ws[1].msg /\ e.res = r
  BY <1>1 DEF Write
<1> HIDE DEF e
<1>3. /\ [ws EXCEPT ![1] = e] \in Seq(Write)
      /\ Len([ws EXCEPT ![1] = e]) = 1
      /\ [ws EXCEPT ![1] = e][1] = e
  BY <1>2, ExceptSeq
<1>4. [ws EXCEPT ![1].res = r] = [ws EXCEPT ![1] = e]
  BY DEF e
<1>5. QED
  BY <1>2, <1>3, <1>4

(* A sequence that has a first element is not empty. *)
LEMMA NotEmpty ==
  ASSUME NEW S, NEW q \in Seq(S), Len(q) = 1
  PROVE  q # <<>>
<1>1. Len(<<>>) = 0
  OBVIOUS
<1>2. QED
  BY <1>1

LEMMA Lengths ==
  ASSUME TypeOK
  PROVE  /\ Len(accepted) \in Nat /\ Len(que) \in Nat
         /\ Len(writes) \in Nat /\ Len(wire) \in Nat
         /\ que = <<>> <=> Len(que) = 0
         /\ writes = <<>> <=> Len(writes) = 0
BY DEF TypeOK

LEMMA InitInductive == Init => IInv
<1> SUFFICES ASSUME Init
             PROVE  IInv
  OBVIOUS
<1>1. TypeOK
  <2>1. <<>> \in Seq(Msg) /\ <<>> \in Seq(Write)
    OBVIOUS
  <2>2. called \in [Senders -> 0..MaxSends]
    BY SendAssumption DEF Init
  <2>3. QED
    BY <2>1, <2>2 DEF Init, TypeOK
<1>2. popped = 0
  BY DEF Init, popped
<1>3. OneWriteOfTheFront /\ NoStalledQueue /\ NoWriteAfterFailure
  BY DEF Init, OneWriteOfTheFront, NoStalledQueue, NoWriteAfterFailure
<1>4. InOrder /\ Bounded /\ WireFollowsQueue
  BY <1>2, SendAssumption DEF Init, InOrder, Bounded, WireFollowsQueue
<1>5. QED
  BY <1>1, <1>3, <1>4 DEF IInv

(* SendFull drops the message and touches nothing else. *)
LEMMA SendFullInductive ==
  ASSUME IInv, NEW s \in Senders, SendFull(s)
  PROVE  IInv'
<1>1. TypeOK'
  BY SendAssumption DEF IInv, SendFull, TypeOK
<1>2. QED
  BY <1>1 DEF IInv, SendFull, OneWriteOfTheFront, NoStalledQueue, InOrder, Bounded,
              NoWriteAfterFailure, WireFollowsQueue, popped

LEMMA SendPushInductive ==
  ASSUME IInv, NEW s \in Senders, SendPush(s)
  PROVE  IInv'
<1>0. /\ Len(accepted) \in Nat /\ Len(que) \in Nat
      /\ Len(writes) \in Nat /\ Len(wire) \in Nat
      /\ que = <<>> <=> Len(que) = 0
      /\ writes = <<>> <=> Len(writes) = 0
  BY Lengths DEF IInv
<1> DEFINE m == <<s, called[s] + 1>>
           w == [msg |-> m, res |-> "started"]
<1> USE SendAssumption
<1>1. m \in Msg /\ w \in Write
  BY DEF IInv, TypeOK, SendPush, Msg, Write
<1>2. called' \in [Senders -> 0..MaxSends]
  BY DEF IInv, TypeOK, SendPush
<1>3. /\ accepted' = Append(accepted, m)
      /\ que' = Append(que, m)
      /\ writes' = IF Len(que) > 0 THEN writes ELSE Append(writes, w)
      /\ UNCHANGED <<wire, closed, failed>>
  BY DEF SendPush, Started
<1>4. /\ accepted \in Seq(Msg) /\ que \in Seq(Msg) /\ writes \in Seq(Write)
      /\ wire \in Seq(Msg)
  BY DEF IInv, TypeOK
<1> HIDE DEF m, w
<1>5. /\ accepted' \in Seq(Msg)
      /\ Len(accepted') = Len(accepted) + 1
      /\ accepted'[Len(accepted) + 1] = m
      /\ \A i \in 1..Len(accepted) : accepted'[i] = accepted[i]
  BY <1>1, <1>3, <1>4, Appended
<1>6. /\ que' \in Seq(Msg)
      /\ Len(que') = Len(que) + 1
      /\ que'[Len(que) + 1] = m
      /\ \A i \in 1..Len(que) : que'[i] = que[i]
  BY <1>1, <1>3, <1>4, Appended
<1>7. CASE Len(que) > 0
  <2>1. writes' = writes
    BY <1>3, <1>7
  <2>2. TypeOK'
    BY <1>2, <1>3, <1>4, <1>5, <1>6, <2>1 DEF IInv, TypeOK
  <2>3. que # <<>> /\ que' # <<>> /\ que'[1] = que[1] /\ popped' = popped
    BY <1>0, <1>4, <1>5, <1>6, <1>7 DEF popped
  <2>4. OneWriteOfTheFront' /\ NoStalledQueue' /\ NoWriteAfterFailure'
    BY <1>3, <2>1, <2>3
       DEF IInv, OneWriteOfTheFront, NoStalledQueue, NoWriteAfterFailure
  <2>5. Bounded' /\ WireFollowsQueue'
    BY <1>0, <1>3, <1>6, <2>1, <2>3 DEF IInv, Bounded, WireFollowsQueue, SendPush
  <2>6. \A i \in 1..Len(que') : que'[i] = accepted'[popped' + i]
    <3>1. TAKE i \in 1..Len(que')
    <3>2. CASE i = Len(que) + 1
      BY <1>0, <1>5, <1>6, <2>3, <3>2 DEF popped
    <3>3. CASE i \in 1..Len(que)
      <4>1. que'[i] = que[i] /\ que[i] = accepted[popped + i]
        BY <1>6, <3>3 DEF IInv, InOrder
      <4>2. popped + i \in 1..Len(accepted)
        BY <1>0, <3>3 DEF IInv, InOrder, popped
      <4>3. QED
        BY <1>5, <2>3, <4>1, <4>2
    <3>4. QED
      BY <1>0, <1>6, <3>2, <3>3
  <2>7. InOrder'
    <3>1. Len(wire) <= Len(accepted) /\ Len(que) <= Len(accepted)
      BY DEF IInv, InOrder
    <3>2. Len(wire') <= Len(accepted') /\ Len(que') <= Len(accepted')
      BY <1>0, <1>3, <1>5, <1>6, <3>1
    <3>3. \A i \in 1..Len(wire') : wire'[i] = accepted'[i]
      <4>1. TAKE i \in 1..Len(wire')
      <4>2. i \in 1..Len(wire) /\ i \in 1..Len(accepted)
        BY <1>0, <1>3, <3>1
      <4>3. QED
        BY <1>3, <1>5, <4>2 DEF IInv, InOrder
    <3>4. QED
      BY <2>6, <3>2, <3>3 DEF InOrder
  <2>8. QED
    BY <2>2, <2>4, <2>5, <2>7 DEF IInv
<1>8. CASE Len(que) = 0
  <2>1. que = <<>> /\ writes = <<>> /\ ~failed
    BY <1>4, <1>8 DEF IInv, OneWriteOfTheFront, NoWriteAfterFailure
  <2>2. writes' = <<w>>
    BY <1>3, <1>8, <2>1
  <2>3. TypeOK'
    BY <1>1, <1>2, <1>3, <1>4, <1>5, <1>6, <2>2 DEF IInv, TypeOK
  <2>4. OneWriteOfTheFront' /\ NoStalledQueue' /\ NoWriteAfterFailure'
    BY <1>3, <1>6, <1>8, <2>1, <2>2
       DEF OneWriteOfTheFront, NoStalledQueue, NoWriteAfterFailure, w
  <2>5. InOrder' /\ Bounded' /\ WireFollowsQueue'
    BY <1>3, <1>4, <1>5, <1>6, <1>8, <2>1, <2>2
       DEF IInv, InOrder, Bounded, WireFollowsQueue, popped, w
  <2>6. QED
    BY <2>3, <2>4, <2>5 DEF IInv
<1>9. QED
  BY <1>4, <1>7, <1>8

LEMMA WriteOkInductive ==
  ASSUME IInv, NEW i \in 1..Len(writes), WriteOk(i)
  PROVE  IInv'
<1>0. /\ Len(accepted) \in Nat /\ Len(que) \in Nat
      /\ Len(writes) \in Nat /\ Len(wire) \in Nat
      /\ que = <<>> <=> Len(que) = 0
      /\ writes = <<>> <=> Len(writes) = 0
  BY Lengths DEF IInv
<1> USE SendAssumption
<1>1. /\ called' = called /\ accepted' = accepted /\ que' = que
      /\ closed' = closed /\ failed' = failed
      /\ writes' = [writes EXCEPT ![i].res = "ok"]
      /\ wire' = Append(wire, writes[i].msg)
      /\ writes[i].res = "started"
  BY DEF WriteOk
<1>2. /\ accepted \in Seq(Msg) /\ que \in Seq(Msg) /\ writes \in Seq(Write)
      /\ wire \in Seq(Msg) /\ writes[i] \in Write
  BY DEF IInv, TypeOK
<1>3. i = 1 /\ Len(writes) = 1 /\ que # <<>> /\ writes[1].msg = que[1]
  <2>1. i = 1 /\ Len(writes) = 1
    BY <1>0, OnlyOne DEF IInv, OneWriteOfTheFront
  <2>2. QED
    BY <1>0, <2>1 DEF IInv, OneWriteOfTheFront
<1>4. /\ writes' \in Seq(Write)
      /\ Len(writes') = 1
      /\ writes'[1].msg = writes[1].msg
      /\ writes'[1].res = "ok"
  <2>1. writes' = [writes EXCEPT ![1].res = "ok"]
    BY <1>1, <1>3
  <2>2. QED
    BY <1>2, <1>3, <2>1, Completed
<1>5. writes[1].msg \in Msg
  BY <1>2, <1>3 DEF Write
<1>6. /\ wire' \in Seq(Msg)
      /\ Len(wire') = Len(wire) + 1
      /\ wire'[Len(wire) + 1] = que[1]
      /\ \A j \in 1..Len(wire) : wire'[j] = wire[j]
  BY <1>1, <1>2, <1>3, <1>5, Appended
<1>7. Len(wire) = popped /\ que[1] = accepted[popped + 1]
  <2>1. Len(wire) = popped
    BY <1>1, <1>3 DEF IInv, WireFollowsQueue
  <2>2. 1 \in 1..Len(que)
    BY <1>0, <1>3
  <2>3. QED
    BY <2>1, <2>2 DEF IInv, InOrder
<1>8. TypeOK'
  BY <1>1, <1>4, <1>6 DEF IInv, TypeOK
<1>9. OneWriteOfTheFront' /\ NoStalledQueue' /\ Bounded' /\ NoWriteAfterFailure'
  <2>1. writes # <<>> /\ writes' # <<>>
    BY <1>0, <1>3, <1>4
  <2>2. QED
    BY <1>1, <1>3, <1>4, <2>1
       DEF IInv, OneWriteOfTheFront, NoStalledQueue, Bounded, NoWriteAfterFailure
<1>10. popped' = popped /\ Len(wire') = popped + 1
  BY <1>1, <1>6, <1>7 DEF popped
<1>11. WireFollowsQueue'
  <2>1. writes' # <<>>
    BY <1>4, NotEmpty
  <2>2. QED
    BY <1>4, <1>10, <2>1 DEF WireFollowsQueue
<1>12. InOrder'
  <2>1. Len(que) > 0
    BY <1>0, <1>3
  <2>2. Len(wire') <= Len(accepted')
    BY <1>0, <1>1, <1>10, <2>1 DEF popped
  <2>3. \A j \in 1..Len(wire') : wire'[j] = accepted'[j]
    BY <1>0, <1>1, <1>6, <1>7, <1>10 DEF IInv, InOrder
  <2>4. QED
    BY <1>1, <1>10, <2>2, <2>3 DEF IInv, InOrder
<1>13. QED
  BY <1>8, <1>9, <1>11, <1>12 DEF IInv

LEMMA WriteErrorInductive ==
  ASSUME IInv, NEW i \in 1..Len(writes), WriteError(i)
  PROVE  IInv'
<1>0. /\ Len(accepted) \in Nat /\ Len(que) \in Nat
      /\ Len(writes) \in Nat /\ Len(wire) \in Nat
      /\ que = <<>> <=> Len(que) = 0
      /\ writes = <<>> <=> Len(writes) = 0
  BY Lengths DEF IInv
<1>1. /\ called' = called /\ accepted' = accepted /\ que' = que /\ wire' = wire
      /\ closed' = closed /\ failed' = failed
      /\ writes' = [writes EXCEPT ![i].res = "error"]
      /\ writes[i].res = "started"
  BY DEF WriteError
<1>2. writes \in Seq(Write) /\ writes[i] \in Write
  BY DEF IInv, TypeOK
<1>3. i = 1 /\ Len(writes) = 1
  BY <1>0, OnlyOne DEF IInv, OneWriteOfTheFront
<1>4. /\ writes' \in Seq(Write)
      /\ Len(writes') = 1
      /\ writes'[1].msg = writes[1].msg
      /\ writes'[1].res = "error"
  <2>1. writes' = [writes EXCEPT ![1].res = "error"]
    BY <1>1, <1>3
  <2>2. QED
    BY <1>2, <1>3, <2>1, Completed
<1>5. writes # <<>> /\ writes' # <<>>
  BY <1>2, <1>3, <1>4, NotEmpty
<1>6. TypeOK'
  BY <1>1, <1>4 DEF IInv, TypeOK
<1>7. OneWriteOfTheFront' /\ NoStalledQueue'
  BY <1>1, <1>4, <1>5 DEF IInv, OneWriteOfTheFront, NoStalledQueue
<1>8. NoWriteAfterFailure'
  BY <1>1, <1>5 DEF IInv, NoWriteAfterFailure
<1>9. InOrder' /\ Bounded'
  BY <1>1 DEF IInv, InOrder, Bounded, popped
<1>10. WireFollowsQueue'
  <2>1. popped' = popped /\ Len(wire) = popped
    BY <1>1, <1>3, <1>5 DEF IInv, WireFollowsQueue, popped
  <2>2. QED
    BY <1>1, <1>4, <2>1 DEF WireFollowsQueue
<1>11. QED
  BY <1>6, <1>7, <1>8, <1>9, <1>10 DEF IInv

LEMMA HandleWriteOkInductive ==
  ASSUME IInv, NEW i \in 1..Len(writes), HandleWriteOk(i)
  PROVE  IInv'
<1>0. /\ Len(accepted) \in Nat /\ Len(que) \in Nat
      /\ Len(writes) \in Nat /\ Len(wire) \in Nat
      /\ que = <<>> <=> Len(que) = 0
      /\ writes = <<>> <=> Len(writes) = 0
  BY Lengths DEF IInv
<1> USE SendAssumption
<1> DEFINE w == [msg |-> que[2], res |-> "started"]
<1>1. /\ called' = called /\ accepted' = accepted /\ wire' = wire
      /\ closed' = closed /\ failed' = failed
      /\ que' = Tail(que)
      /\ writes[i].res = "ok"
  BY DEF HandleWriteOk
<1>2. /\ accepted \in Seq(Msg) /\ que \in Seq(Msg) /\ writes \in Seq(Write)
      /\ wire \in Seq(Msg)
  BY DEF IInv, TypeOK
<1>3. i = 1 /\ Len(writes) = 1 /\ que # <<>> /\ writes # <<>>
  <2>1. i = 1 /\ Len(writes) = 1
    BY <1>0, OnlyOne DEF IInv, OneWriteOfTheFront
  <2>2. QED
    BY <1>0, <2>1 DEF IInv, OneWriteOfTheFront
<1>4. Finished(i) = <<>>
  BY <1>2, <1>3, FinishedOnly DEF Finished
<1>5. writes' = IF Len(que) > 1 THEN <<w>> ELSE <<>>
  BY <1>4 DEF HandleWriteOk
<1>6. /\ que' \in Seq(Msg)
      /\ Len(que') = Len(que) - 1
      /\ \A j \in 1..Len(que') : que'[j] = que[j + 1]
  BY <1>1, <1>2, <1>3, Popped
<1>7. Len(wire) = popped + 1 /\ popped' = popped + 1
  BY <1>1, <1>2, <1>3, <1>6 DEF IInv, WireFollowsQueue, popped
<1>8. ~failed
  BY <1>3 DEF IInv, NoWriteAfterFailure
<1>9. Len(que) > 1 => w \in Write /\ que'[1] = que[2] /\ que' # <<>>
  BY <1>2, <1>6 DEF Write
<1>10. TypeOK'
  BY <1>1, <1>5, <1>6, <1>9 DEF IInv, TypeOK
<1>11. NoWriteAfterFailure' /\ Bounded'
  BY <1>0, <1>1, <1>6, <1>8 DEF IInv, Bounded, NoWriteAfterFailure
<1>12. OneWriteOfTheFront' /\ NoStalledQueue'
  <2>1. CASE Len(que) > 1
    <3>1. writes' = <<w>> /\ w.msg = que'[1]
      BY <1>5, <1>9, <2>1
    <3>2. QED
      BY <1>9, <2>1, <3>1 DEF OneWriteOfTheFront, NoStalledQueue
  <2>2. CASE ~(Len(que) > 1)
    <3>1. writes' = <<>> /\ que' = <<>>
      BY <1>0, <1>3, <1>5, <1>6, <2>2
    <3>2. QED
      BY <3>1 DEF OneWriteOfTheFront, NoStalledQueue
  <2>3. QED
    BY <2>1, <2>2
<1>13. InOrder'
  BY <1>1, <1>2, <1>6, <1>7 DEF IInv, InOrder, popped
<1>14. WireFollowsQueue'
  BY <1>1, <1>5, <1>7 DEF WireFollowsQueue
<1>15. QED
  BY <1>10, <1>11, <1>12, <1>13, <1>14 DEF IInv

LEMMA HandleWriteErrorInductive ==
  ASSUME IInv, NEW i \in 1..Len(writes), HandleWriteError(i)
  PROVE  IInv'
<1>0. /\ Len(accepted) \in Nat /\ Len(que) \in Nat
      /\ Len(writes) \in Nat /\ Len(wire) \in Nat
      /\ que = <<>> <=> Len(que) = 0
      /\ writes = <<>> <=> Len(writes) = 0
  BY Lengths DEF IInv
<1>1. /\ called' = called /\ accepted' = accepted /\ que' = que /\ wire' = wire
      /\ closed' = TRUE /\ failed' = TRUE
      /\ writes[i].res = "error"
  BY DEF HandleWriteError
<1>2. writes \in Seq(Write)
  BY DEF IInv, TypeOK
<1>3. i = 1 /\ Len(writes) = 1 /\ que # <<>> /\ writes # <<>>
  <2>1. i = 1 /\ Len(writes) = 1
    BY <1>0, OnlyOne DEF IInv, OneWriteOfTheFront
  <2>2. QED
    BY <1>0, <2>1 DEF IInv, OneWriteOfTheFront
<1>4. writes' = <<>>
  BY <1>2, <1>3, FinishedOnly DEF Finished, HandleWriteError
<1>5. Len(wire) = popped
  BY <1>1, <1>3 DEF IInv, WireFollowsQueue
<1>6. QED
  BY <1>1, <1>2, <1>3, <1>4, <1>5
     DEF IInv, TypeOK, OneWriteOfTheFront, NoStalledQueue, InOrder, Bounded,
         NoWriteAfterFailure, WireFollowsQueue, popped

LEMMA CloseByReaderInductive ==
  ASSUME IInv, CloseByReader
  PROVE  IInv'
BY DEF IInv, CloseByReader, TypeOK, OneWriteOfTheFront, NoStalledQueue, InOrder, Bounded,
       NoWriteAfterFailure, WireFollowsQueue, popped

LEMMA StepInductive == IInv /\ [Next]_vars => IInv'
<1> SUFFICES ASSUME IInv, [Next]_vars
             PROVE  IInv'
  OBVIOUS
<1>1. CASE Send
  BY <1>1, SendFullInductive, SendPushInductive DEF Send
<1>2. CASE WriteEnds
  BY <1>2, WriteOkInductive, WriteErrorInductive DEF WriteEnds
<1>3. CASE HandleWrite
  BY <1>3, HandleWriteOkInductive, HandleWriteErrorInductive DEF HandleWrite
<1>4. CASE CloseByReader
  BY <1>4, CloseByReaderInductive
<1>5. CASE UNCHANGED vars
  BY <1>5 DEF vars, IInv, TypeOK, OneWriteOfTheFront, NoStalledQueue, InOrder, Bounded,
              NoWriteAfterFailure, WireFollowsQueue, popped
<1>6. QED
  BY <1>1, <1>2, <1>3, <1>4, <1>5 DEF Next

(* In every behaviour of the send path the inductive invariant holds. *)
THEOREM Inductive == Spec => []IInv
<1>1. QED
  BY InitInductive, StepInductive, PTL DEF Spec

(* Every variable keeps its type. *)
THEOREM TypeCorrect == Spec => []TypeOK
<1>1. IInv => TypeOK
  BY DEF IInv
<1>2. QED
  BY <1>1, Inductive, PTL

(* At most one async_write is ever under way, and it writes the front of the
   queue: CSession never interleaves two writes on its socket. *)
THEOREM SerialWrites == Spec => []OneWriteOfTheFront
<1>1. IInv => OneWriteOfTheFront
  BY DEF IInv
<1>2. QED
  BY <1>1, Inductive, PTL

(* A session that has not failed is always writing when it has messages. *)
THEOREM NeverStalls == Spec => []NoStalledQueue
<1>1. IInv => NoStalledQueue
  BY DEF IInv
<1>2. QED
  BY <1>1, Inductive, PTL

(* The peer receives what Send took, in order, without gaps or duplicates. *)
THEOREM FifoDelivery == Spec => []InOrder
<1>1. IInv => InOrder
  BY DEF IInv
<1>2. QED
  BY <1>1, Inductive, PTL

(* The queue holds at most MAX_SENDQUE + 1 messages. *)
THEOREM QueueBounded == Spec => []Bounded
<1>1. IInv => Bounded
  BY DEF IInv
<1>2. QED
  BY <1>1, Inductive, PTL

(* After a failed write no write is ever started on that session again. *)
THEOREM SilentAfterFailure == Spec => []NoWriteAfterFailure
<1>1. IInv => NoWriteAfterFailure
  BY DEF IInv
<1>2. QED
  BY <1>1, Inductive, PTL

-------------------------------------------------------------------------------
(* What is left of a sequence after its first k elements grows at the back. *)
LEMMA LeftAppend ==
  ASSUME NEW S, NEW q \in Seq(S), NEW e \in S, NEW k \in Nat, k <= Len(q)
  PROVE  SubSeq(Append(q, e), k + 1, Len(q) + 1) = Append(SubSeq(q, k + 1, Len(q)), e)
<1> DEFINE a == Append(q, e)
           l == SubSeq(a, k + 1, Len(q) + 1)
           r == SubSeq(q, k + 1, Len(q))
<1>1. /\ Len(q) \in Nat /\ a \in Seq(S) /\ Len(a) = Len(q) + 1
      /\ a[Len(q) + 1] = e /\ \A i \in 1..Len(q) : a[i] = q[i]
  BY Appended
<1>2. /\ l \in Seq(S) /\ Len(l) = Len(q) + 1 - k
      /\ \A i \in 1..(Len(q) + 1 - k) : l[i] = a[k + i]
  <2>1. Len(a) \in Nat /\ k + 1 \in 1..(Len(a) + 1) /\ Len(q) + 1 \in k..Len(a)
    BY <1>1
  <2>2. \A i \in (k + 1)..(Len(q) + 1) : a[i] \in S
    BY <1>1
  <2> HIDE DEF a
  <2>3. QED
    BY <1>1, <2>1, <2>2
<1>3. /\ r \in Seq(S) /\ Len(r) = Len(q) - k
      /\ \A i \in 1..(Len(q) - k) : r[i] = q[k + i]
  BY <1>1
<1> HIDE DEF a, l, r
<1>4. /\ Append(r, e) \in Seq(S) /\ Len(Append(r, e)) = Len(q) - k + 1
      /\ Append(r, e)[Len(q) - k + 1] = e
      /\ \A i \in 1..(Len(q) - k) : Append(r, e)[i] = q[k + i]
  BY <1>3, Appended
<1>5. Len(l) = Len(Append(r, e))
  BY <1>1, <1>2, <1>4
<1>6. ASSUME NEW i \in 1..Len(l)
      PROVE  l[i] = Append(r, e)[i]
  <2>1. CASE i = Len(q) + 1 - k
    BY <1>1, <1>2, <1>4, <2>1
  <2>2. CASE i # Len(q) + 1 - k
    <3>1. i \in 1..(Len(q) - k) /\ k + i \in 1..Len(q)
      BY <1>1, <1>2, <2>2
    <3>2. QED
      BY <1>1, <1>2, <1>4, <3>1
  <2>3. QED
    BY <2>1, <2>2
<1>7. l = Append(r, e)
  BY <1>2, <1>4, <1>5, <1>6, SeqEqual
<1>8. QED
  BY <1>7 DEF l, r, a

(* ... and its front is the next element. *)
LEMMA LeftFront ==
  ASSUME NEW S, NEW q \in Seq(S), NEW k \in Nat, k < Len(q)
  PROVE  /\ SubSeq(q, k + 1, Len(q)) # <<>>
         /\ Head(SubSeq(q, k + 1, Len(q))) = q[k + 1]
         /\ Tail(SubSeq(q, k + 1, Len(q))) = SubSeq(q, (k + 1) + 1, Len(q))
<1> DEFINE r == SubSeq(q, k + 1, Len(q))
           l == SubSeq(q, (k + 1) + 1, Len(q))
<1>1. Len(q) \in Nat
  OBVIOUS
<1>2. /\ r \in Seq(S) /\ Len(r) = Len(q) - k
      /\ \A i \in 1..(Len(q) - k) : r[i] = q[k + i]
  BY <1>1
<1>3. /\ l \in Seq(S) /\ Len(l) = Len(q) - k - 1
      /\ \A i \in 1..(Len(q) - k - 1) : l[i] = q[k + 1 + i]
  BY <1>1
<1> HIDE DEF l, r
<1>4. r # <<>>
  BY <1>1, <1>2
<1>5. /\ Tail(r) \in Seq(S) /\ Len(Tail(r)) = Len(r) - 1
      /\ \A i \in 1..Len(Tail(r)) : Tail(r)[i] = r[i + 1]
  BY <1>2, <1>4, Popped
<1>6. \A i \in 1..Len(l) : Tail(r)[i] = l[i]
  BY <1>1, <1>2, <1>3, <1>5
<1>7. Tail(r) = l
  BY <1>1, <1>2, <1>3, <1>5, <1>6, SeqEqual
<1>8. Head(r) = q[k + 1]
  BY <1>1, <1>2, <1>4
<1>9. QED
  BY <1>4, <1>7, <1>8 DEF l, r

(* Initially nothing is pending, delivered or broken. *)
LEMMA InitChannel == Init => Channel!Init
<1>1. ASSUME Init
      PROVE  SubSeq(accepted, Len(wire) + 1, Len(accepted)) = <<>>
  BY <1>1 DEF Init
<1>2. QED
  BY <1>1 DEF Init, Channel!Init

(* A step that leaves the history and the stream, and does not reopen the
   socket, breaks the channel or stutters. *)
LEMMA QuietStep ==
  ASSUME UNCHANGED <<accepted, wire>>, closed' = closed \/ closed' = TRUE
  PROVE  [Channel!Next]_(Channel!vars)
<1>1. CASE closed' = closed
  BY <1>1 DEF Channel!vars
<1>2. CASE closed' = TRUE
  BY <1>2 DEF Channel!Next, Channel!Break
<1>3. QED
  BY <1>1, <1>2

(* Send is Accept. *)
LEMMA SendPushAccepts ==
  ASSUME IInv, NEW s \in Senders, SendPush(s)
  PROVE  Channel!Next
<1> DEFINE m == <<s, called[s] + 1>>
<1>1. m \in Msg
  BY SendAssumption DEF IInv, TypeOK, SendPush, Msg
<1>2. /\ Len(que) <= MAX_SENDQUE /\ accepted' = Append(accepted, m)
      /\ UNCHANGED <<wire, closed>>
  BY DEF SendPush
<1>3. /\ accepted \in Seq(Msg) /\ wire \in Seq(Msg)
      /\ Len(accepted) \in Nat /\ Len(wire) \in Nat /\ Len(que) \in Nat
  BY DEF IInv, TypeOK
<1> HIDE DEF m
<1>4. Len(wire) <= Len(accepted) /\ Len(accepted) - Len(wire) <= Len(que)
  BY <1>3 DEF IInv, InOrder, WireFollowsQueue, popped
<1>5. Len(SubSeq(accepted, Len(wire) + 1, Len(accepted))) = Len(accepted) - Len(wire)
  BY <1>3, <1>4
<1>6. Len(SubSeq(accepted, Len(wire) + 1, Len(accepted))) < MAX_SENDQUE + 1
  BY <1>2, <1>3, <1>4, <1>5, SendAssumption
<1>7. Len(accepted') = Len(accepted) + 1
  BY <1>1, <1>2, <1>3
<1>8. SubSeq(accepted', Len(wire') + 1, Len(accepted')) =
        Append(SubSeq(accepted, Len(wire) + 1, Len(accepted)), m)
  BY <1>1, <1>2, <1>3, <1>4, <1>7, LeftAppend
<1>9. Channel!Accept(m)
  BY <1>2, <1>6, <1>8 DEF Channel!Accept
<1>10. QED
  BY <1>1, <1>9 DEF Channel!Next

(* A write that completes is Deliver: it is the write of the oldest message
   that has not gone out. *)
LEMMA WriteOkDelivers ==
  ASSUME IInv, NEW i \in 1..Len(writes), WriteOk(i)
  PROVE  Channel!Next
<1>1. /\ writes[i].res = "started" /\ ~closed /\ wire' = Append(wire, writes[i].msg)
      /\ UNCHANGED <<accepted, closed>>
  BY DEF WriteOk
<1>2. /\ accepted \in Seq(Msg) /\ wire \in Seq(Msg)
      /\ Len(accepted) \in Nat /\ Len(wire) \in Nat /\ Len(que) \in Nat
      /\ Len(writes) \in Nat
      /\ que = <<>> <=> Len(que) = 0
      /\ writes = <<>> <=> Len(writes) = 0
  BY Lengths DEF IInv, TypeOK
<1>3. i = 1 /\ writes # <<>>
  BY <1>2, OnlyOne DEF IInv, OneWriteOfTheFront
<1>4. que # <<>> /\ writes[1].msg = que[1]
  BY <1>3 DEF IInv, OneWriteOfTheFront
<1>5. Len(wire) = popped
  BY <1>1, <1>3 DEF IInv, WireFollowsQueue
<1>6. 1 \in 1..Len(que)
  BY <1>2, <1>4
<1>7. que[1] = accepted[popped + 1]
  BY <1>6 DEF IInv, InOrder
<1>8. Len(wire) < Len(accepted)
  BY <1>2, <1>5, <1>6 DEF popped
<1>9. /\ SubSeq(accepted, Len(wire) + 1, Len(accepted)) # <<>>
      /\ Head(SubSeq(accepted, Len(wire) + 1, Len(accepted))) = accepted[Len(wire) + 1]
      /\ Tail(SubSeq(accepted, Len(wire) + 1, Len(accepted))) =
           SubSeq(accepted, (Len(wire) + 1) + 1, Len(accepted))
  BY <1>2, <1>8, LeftFront
<1>10. writes[1].msg \in Msg
  <2>1. writes \in Seq(Write) /\ 1 \in 1..Len(writes)
    BY <1>2, <1>3 DEF IInv, TypeOK
  <2>2. writes[1] \in Write
    BY <2>1
  <2>3. QED
    BY <2>2 DEF Write
<1>11. Len(wire') = Len(wire) + 1
  BY <1>1, <1>2, <1>3, <1>10
<1>12. writes[i].msg = accepted[Len(wire) + 1]
  BY <1>3, <1>4, <1>5, <1>7
<1>13. Channel!Deliver
  BY <1>1, <1>9, <1>11, <1>12 DEF Channel!Deliver
<1>14. QED
  BY <1>13 DEF Channel!Next

LEMMA StepChannel == IInv /\ [Next]_vars => [Channel!Next]_(Channel!vars)
<1> SUFFICES ASSUME IInv, [Next]_vars
             PROVE  [Channel!Next]_(Channel!vars)
  OBVIOUS
<1>1. ASSUME NEW s \in Senders, SendFull(s)
      PROVE  [Channel!Next]_(Channel!vars)
  BY <1>1, QuietStep DEF SendFull
<1>2. ASSUME NEW i \in 1..Len(writes), WriteError(i)
      PROVE  [Channel!Next]_(Channel!vars)
  BY <1>2, QuietStep DEF WriteError
<1>3. ASSUME NEW i \in 1..Len(writes), HandleWriteOk(i) \/ HandleWriteError(i)
      PROVE  [Channel!Next]_(Channel!vars)
  BY <1>3, QuietStep DEF HandleWriteOk, HandleWriteError
<1>4. CASE CloseByReader
  BY <1>4, QuietStep DEF CloseByReader
<1>5. CASE UNCHANGED vars
  BY <1>5, QuietStep DEF vars
<1>6. QED
  BY <1>1, <1>2, <1>3, <1>4, <1>5, SendPushAccepts, WriteOkDelivers
     DEF Next, Send, WriteEnds, HandleWrite

(* The send path implements the channel, step by step: Send takes a message
   only when there is room (CSession.cpp:48-61), a write that completes hands
   over the oldest message not yet handed over (CSession.cpp:206-219), and
   every other step breaks the channel or changes nothing of it.  That the
   channel keeps handing over is liveness, which the run checks. *)
THEOREM SendIsChannel == Spec => Channel!Init /\ [][Channel!Next]_(Channel!vars)
<1>1. QED
  BY InitChannel, StepChannel, Inductive, PTL DEF Spec
==============================================================================
