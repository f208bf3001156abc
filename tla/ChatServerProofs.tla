-------------------------- MODULE ChatServerProofs --------------------------
(***************************************************************************)
(* Proofs about ChatServer, for any servers, users and connections, any    *)
(* requests, endings and failing calls: the types; answers come in order;  *)
(* a connection that ends quietly is not bound under its uid; the texts of *)
(* one sender keep their order, and go to sessions on which their receiver *)
(* has logged in.  Then, while a user's connections come one after the     *)
(* other: who is bound, and that texts owed are delivered.                 *)
(***************************************************************************)
EXTENDS ChatServer, FiniteSetTheorems, TLAPS

(* The front of a queue, and what is left behind it. *)
LEMMA Fronts ==
  ASSUME NEW S, NEW q \in Seq(S), q # <<>>
  PROVE  /\ Head(q) \in S /\ Head(q) = q[1] /\ Len(q) \in Nat /\ Len(q) >= 1
         /\ Tail(q) \in Seq(S) /\ Len(Tail(q)) = Len(q) - 1
         /\ \A i \in 1..Len(Tail(q)) : Tail(q)[i] = q[i + 1]
  OBVIOUS

(* Appending to a queue. *)
LEMMA Appended ==
  ASSUME NEW S, NEW q \in Seq(S), NEW e \in S
  PROVE  /\ Append(q, e) \in Seq(S) /\ Len(Append(q, e)) = Len(q) + 1 /\ Len(q) \in Nat
         /\ \A i \in 1..Len(q) : Append(q, e)[i] = q[i]
         /\ Append(q, e)[Len(q) + 1] = e
         /\ q # <<>> => Head(Append(q, e)) = Head(q)
  OBVIOUS

(* The request a handler works on is one. *)
LEMMA FrontRequest ==
  ASSUME TypeOK, Handling, NEW s \in Server, logic[s] # "idle"
  PROVE  /\ lq[s] \in Seq(Request) /\ lq[s] # <<>>
         /\ req(s) \in Request /\ req(s).conn \in Conn /\ req(s).to \in User
         /\ req(s) = lq[s][1] /\ Home[req(s).conn] = s
         /\ Tail(lq[s]) \in Seq(Request)
<1>1. lq[s] \in Seq(Request) /\ lq[s] # <<>>
  BY DEF TypeOK, Handling
<1>2. /\ Head(lq[s]) \in Request /\ Head(lq[s]) = lq[s][1]
      /\ Len(lq[s]) \in Nat /\ Len(lq[s]) >= 1 /\ Tail(lq[s]) \in Seq(Request)
  BY <1>1, Fronts
<1>3. Home[lq[s][1].conn] = s
  BY <1>2 DEF Handling
<1>4. QED
  BY <1>1, <1>2, <1>3 DEF req, Request

(* Sending an item keeps the types of the histories. *)
LEMMA SentTypes ==
  ASSUME TypeOK, NEW c, NEW r \in Request, NEW kind \in {"ok", "refused", "notify"}
  PROVE  Sent(c, kind, r) \in [Conn -> Seq(Item)]
<1> DEFINE e == [kind |-> kind, req |-> r]
<1>1. e \in Item
  BY DEF Item
<1>2. ASSUME NEW d \in Conn
      PROVE  Append(inbox[d], e) \in Seq(Item)
  BY <1>1 DEF TypeOK
<1>3. QED
  BY <1>2 DEF Sent, TypeOK

LEMMA InitInductive == Init => IInv
<1> SUFFICES ASSUME Init
             PROVE  IInv
  OBVIOUS
<1> USE DEF Init
<1>1. TypeOK
  BY DEF TypeOK, IoPlaces, LogicPlaces
<1>2. Handling
  BY DEF Handling
<1>3. QED
  BY <1>1, <1>2 DEF IInv

(* A step that leaves the queues and the handlers alone only has its
   types to keep. *)
LEMMA ElsewhereInductive ==
  ASSUME IInv, TypeOK', UNCHANGED <<lq, logic>>
  PROVE  IInv'
  BY DEF IInv, Handling, req

(* The acceptor, the clients and the io threads, but for what is received. *)
LEMMA IoInductive ==
  ASSUME IInv, NEW c \in Conn,
         \/ Accept(c) \/ Insert(c) \/ ReadError(c) \/ BadHeader(c) \/ WriteError(c)
         \/ Clear(c)
  PROVE  IInv'
<1> USE DEF IInv, TypeOK, IoPlaces, logicVars
<1>1. CASE Accept(c)
  <2>1. TypeOK'
    BY <1>1 DEF Accept
  <2>2. QED
    BY <1>1, <2>1, ElsewhereInductive DEF Accept
<1>2. CASE Insert(c)
  <2>1. Home[c] \in Server
    BY ChatAssumption
  <2>2. TypeOK'
    BY <1>2, <2>1 DEF Insert
  <2>3. QED
    BY <1>2, <2>2, ElsewhereInductive DEF Insert
<1>3. CASE ReadError(c)
  <2>1. TypeOK'
    BY <1>3 DEF ReadError, Ends
  <2>2. QED
    BY <1>3, <2>1, ElsewhereInductive DEF ReadError
<1>4. CASE BadHeader(c)
  <2>1. TypeOK'
    BY <1>4 DEF BadHeader, Ends
  <2>2. QED
    BY <1>4, <2>1, ElsewhereInductive DEF BadHeader
<1>5. CASE WriteError(c)
  <2>1. quiet' \subseteq Conn
    BY <1>5 DEF WriteError, Ends
  <2>2. abort' \in [Conn -> BOOLEAN]
    BY <1>5 DEF WriteError
  <2>3. io' \in [Conn -> IoPlaces] /\ werr' \in [Conn -> BOOLEAN]
    BY <1>5 DEF WriteError
  <2>4. /\ UNCHANGED <<acc, iouid, uid, sessions, bind, uip, count, asked, logicVars>>
        /\ UNCHANGED <<calls, inbox, owed>>
    BY <1>5 DEF WriteError
  <2>5. TypeOK'
    BY <2>1, <2>2, <2>3, <2>4
  <2>6. QED
    BY <2>4, <2>5, ElsewhereInductive
<1>6. CASE ClearFind(c)
  <2>1. iouid' \in [Conn -> User \cup {None}]
    BY <1>6 DEF ClearFind
  <2>2. io' \in [Conn -> IoPlaces]
    <3>1. \E p \in IoPlaces : io' = [io EXCEPT ![c] = p]
      BY <1>6 DEF ClearFind
    <3>2. QED
      BY <3>1
  <2>3. /\ UNCHANGED <<acc, abort, werr, uid, sessions, bind, uip, count, asked, logicVars>>
        /\ UNCHANGED <<calls, inbox, owed, quiet>>
    BY <1>6 DEF ClearFind
  <2>4. TypeOK'
    BY <2>1, <2>2, <2>3
  <2>5. QED
    BY <2>3, <2>4, ElsewhereInductive
<1>7. CASE ClearMiss(c)
  <2>1. TypeOK'
    BY <1>7 DEF ClearMiss
  <2>2. QED
    BY <1>7, <2>1, ElsewhereInductive DEF ClearMiss
<1>8. CASE ClearErase(c)
  <2>1. Home[c] \in Server
    BY ChatAssumption
  <2>2. TypeOK'
    BY <1>8, <2>1 DEF ClearErase
  <2>3. QED
    BY <1>8, <2>2, ElsewhereInductive DEF ClearErase
<1>9. CASE ClearUnbind(c)
  <2>1. Home[c] \in Server
    BY ChatAssumption
  <2>2. bind' \in [Server -> [User -> Conn \cup {None}]]
    BY <1>9, <2>1 DEF ClearUnbind
  <2>3. TypeOK'
    BY <1>9, <2>2 DEF ClearUnbind
  <2>4. QED
    BY <1>9, <2>3, ElsewhereInductive DEF ClearUnbind
<1>10. CASE LateAbort(c)
  <2>1. TypeOK'
    BY <1>10 DEF LateAbort
  <2>2. QED
    BY <1>10, <2>1, ElsewhereInductive DEF LateAbort
<1>11. QED
  BY <1>1, <1>2, <1>3, <1>4, <1>5, <1>6, <1>7, <1>8, <1>9, <1>10 DEF Clear

(* A request is appended while no handler runs. *)
LEMMA PostInductive ==
  ASSUME IInv, NEW c \in Conn, NEW kind \in {"login", "text"}, NEW to \in User,
         Post(c, kind, to), io' \in [Conn -> IoPlaces], quiet' \subseteq Conn
  PROVE  IInv'
<1> DEFINE s == Home[c]
           r == [conn |-> c, n |-> asked[c] + 1, kind |-> kind, to |-> to]
<1>1. s \in Server /\ logic[s] = "idle"
  BY ChatAssumption DEF Post
<1>2. r \in Request
  BY DEF IInv, TypeOK, Request
<1>3. lq[s] \in Seq(Request)
  BY <1>1 DEF IInv, TypeOK
<1>4. /\ Append(lq[s], r) \in Seq(Request) /\ Len(Append(lq[s], r)) = Len(lq[s]) + 1
      /\ Len(lq[s]) \in Nat
      /\ \A i \in 1..Len(lq[s]) : Append(lq[s], r)[i] = lq[s][i]
      /\ Append(lq[s], r)[Len(lq[s]) + 1] = r
  BY <1>2, <1>3, Appended
<1>5. lq' = [lq EXCEPT ![s] = Append(@, r)]
  BY DEF Post
<1>6. lq'[s] = Append(lq[s], r) /\ \A q \in Server \ {s} : lq'[q] = lq[q]
  BY <1>1, <1>5 DEF IInv, TypeOK
<1>7. UNCHANGED <<acc, abort, werr, iouid, uid, sessions, bind, uip, count, logic, target,
                  calls, inbox, owed>>
  BY DEF Post
<1>8. TypeOK'
  <2>1. lq' \in [Server -> Seq(Request)]
    BY <1>4, <1>5 DEF IInv, TypeOK
  <2>2. asked' \in [Conn -> Nat]
    BY DEF Post, IInv, TypeOK
  <2>3. QED
    BY <1>7, <2>1, <2>2 DEF IInv, TypeOK
<1>9. Handling'
  <2>1. ASSUME NEW q \in Server, NEW i \in 1..Len(lq'[q])
        PROVE  Home[lq'[q][i].conn] = q /\ allowed(lq'[q][i])
    <3>1. CASE q # s
      BY <1>6, <2>1, <3>1 DEF IInv, Handling
    <3>2. CASE q = s /\ i = Len(lq[s]) + 1
      <4>1. lq'[q][i] = r
        BY <1>4, <1>6, <3>2
      <4>2. allowed(r)
        BY DEF Post, allowed
      <4>3. QED
        BY <3>2, <4>1, <4>2
    <3>3. CASE q = s /\ i # Len(lq[s]) + 1
      <4>1. i \in 1..Len(lq[s])
        BY <1>4, <1>6, <2>1, <3>3
      <4>2. lq'[q][i] = lq[s][i]
        BY <1>4, <1>6, <3>3, <4>1
      <4>3. QED
        BY <1>1, <3>3, <4>1, <4>2 DEF IInv, Handling
    <3>4. QED
      BY <3>1, <3>2, <3>3
  <2>2. ASSUME NEW q \in Server, logic'[q] # "idle"
        PROVE  lq'[q] = lq[q] /\ req(q)' = req(q) /\ logic'[q] = logic[q]
    BY <1>1, <1>6, <1>7, <2>2 DEF req
  <2>3. QED
    BY <2>1, <2>2 DEF IInv, Handling
<1>10. QED
  BY <1>8, <1>9 DEF IInv

LEMMA ReceiveInductive ==
  ASSUME IInv, NEW c \in Conn, NEW kind \in {"login", "text"}, NEW to \in User,
         Receive(c, kind, to) \/ LateReceive(c, kind, to)
  PROVE  IInv'
<1>1. Post(c, kind, to)
  BY DEF Receive, LateReceive
<1>2. io' \in [Conn -> IoPlaces] /\ quiet' \subseteq Conn
  BY DEF Receive, LateReceive, IInv, TypeOK, IoPlaces
<1>3. QED
  BY <1>1, <1>2, PostInductive

(* A handler moves on, to where its request may lead. *)
LEMMA MoveInductive ==
  ASSUME IInv, TypeOK', UNCHANGED lq,
         NEW s \in Server, lq[s] # <<>>, NEW p, logic' = [logic EXCEPT ![s] = p],
         p \in {"login", "setuip", "bind"} => req(s).kind = "login",
         p \in {"text", "find", "send", "call"} => req(s).kind = "text"
  PROVE  IInv'
<1>1. logic'[s] = p /\ \A q \in Server \ {s} : logic'[q] = logic[q]
  BY DEF IInv, TypeOK
<1>2. \A q \in Server : req(q)' = req(q)
  BY DEF req
<1>3. Handling'
  BY <1>1, <1>2 DEF IInv, Handling
<1>4. QED
  BY <1>3 DEF IInv

(* A handler returns: its request is popped. *)
LEMMA ReturnInductive ==
  ASSUME IInv, NEW s \in Server, logic[s] # "idle",
         UNCHANGED <<connVars, uid, sessions, bind, uip, count, target, calls, owed>>,
         NEW kind \in {"ok", "refused"},
         inbox' = Sent(req(s).conn, kind, req(s)),
         logic' = [logic EXCEPT ![s] = "idle"],
         lq' = [lq EXCEPT ![s] = Tail(@)]
  PROVE  IInv'
<1>1. /\ lq[s] \in Seq(Request) /\ lq[s] # <<>>
      /\ req(s) \in Request /\ Tail(lq[s]) \in Seq(Request)
  BY FrontRequest DEF IInv
<1>2. inbox' \in [Conn -> Seq(Item)]
  BY <1>1, SentTypes DEF IInv
<1>3. TypeOK'
  BY <1>1, <1>2 DEF IInv, TypeOK, connVars, LogicPlaces
<1>4. /\ lq'[s] = Tail(lq[s]) /\ logic'[s] = "idle"
      /\ \A q \in Server \ {s} : lq'[q] = lq[q] /\ logic'[q] = logic[q]
  BY DEF IInv, TypeOK
<1>5. /\ Len(lq[s]) \in Nat /\ Len(lq'[s]) = Len(lq[s]) - 1
      /\ \A i \in 1..Len(lq'[s]) : lq'[s][i] = lq[s][i + 1]
  <2>1. /\ Len(lq[s]) \in Nat /\ Len(Tail(lq[s])) = Len(lq[s]) - 1
        /\ \A i \in 1..Len(Tail(lq[s])) : Tail(lq[s])[i] = lq[s][i + 1]
    BY <1>1, Fronts
  <2>2. QED
    BY <1>4, <2>1
<1>6. Handling'
  <2>1. ASSUME NEW q \in Server, NEW i \in 1..Len(lq'[q])
        PROVE  Home[lq'[q][i].conn] = q /\ allowed(lq'[q][i])
    <3>1. CASE q = s
      <4>1. i + 1 \in 1..Len(lq[s]) /\ lq'[q][i] = lq[s][i + 1]
        BY <1>5, <2>1, <3>1
      <4>2. QED
        BY <3>1, <4>1 DEF IInv, Handling
    <3>2. CASE q # s
      BY <1>4, <2>1, <3>2 DEF IInv, Handling
    <3>3. QED
      BY <3>1, <3>2
  <2>2. ASSUME NEW q \in Server
        PROVE  /\ logic'[q] # "idle" => lq'[q] # <<>>
               /\ logic'[q] \in {"login", "setuip", "bind"} => req(q)'.kind = "login"
               /\ logic'[q] \in {"text", "find", "send", "call"} => req(q)'.kind = "text"
    <3>1. CASE q = s
      BY <1>4, <3>1
    <3>2. CASE q # s
      BY <1>4, <3>2 DEF IInv, Handling, req
    <3>3. QED
      BY <3>1, <3>2
  <2>3. QED
    BY <2>1, <2>2 DEF Handling
<1>7. QED
  BY <1>3, <1>6 DEF IInv

LEMMA TakeInductive ==
  ASSUME IInv, NEW s \in Server, Take(s)
  PROVE  IInv'
<1>1. lq[s] \in Seq(Request) /\ lq[s] # <<>>
  BY DEF Take, IInv, TypeOK
<1>2. req(s) \in Request /\ req(s).kind \in {"login", "text"}
  <2>1. Head(lq[s]) \in Request
    BY <1>1, Fronts
  <2>2. QED
    BY <2>1 DEF req, Request
<1>3. logic' = [logic EXCEPT ![s] = req(s).kind]
  BY DEF Take, Goto
<1>4. UNCHANGED <<connVars, uid, sessions, bind, uip, count, lq, target, calls, inbox>>
  BY DEF Take
<1>5. owed' \subseteq Request \X Conn
  BY <1>2 DEF Take, IInv, TypeOK
<1>6. TypeOK'
  BY <1>2, <1>3, <1>4, <1>5 DEF IInv, TypeOK, connVars, LogicPlaces
<1>7. QED
  BY <1>1, <1>2, <1>3, <1>4, <1>6, MoveInductive

LEMMA LoginInductive ==
  ASSUME IInv, NEW s \in Server, LoginSetUid(s) \/ LoginSetUip(s) \/ LoginBind(s)
  PROVE  IInv'
<1>1. PICK p \in {"setuip", "bind", "reply"} :
        logic[s] \in {"login", "setuip", "bind"} /\ logic' = [logic EXCEPT ![s] = p]
  BY DEF LoginSetUid, LoginSetUip, LoginBind, Goto
<1>2. UNCHANGED <<connVars, sessions, lq, target, calls, inbox, owed>>
  BY DEF LoginSetUid, LoginSetUip, LoginBind
<1>3. lq[s] # <<>> /\ req(s).conn \in Conn /\ req(s).to \in User
  BY <1>1, FrontRequest DEF IInv
<1>4. req(s).kind = "login"
  BY <1>1 DEF IInv, Handling
<1>5. /\ uid' \in [Conn -> User \cup {None}]
      /\ uip' \in [User -> Server \cup {None}]
      /\ bind' \in [Server -> [User -> Conn \cup {None}]]
      /\ count' \in [Server -> Nat]
  <2>1. CASE LoginSetUid(s)
    BY <1>3, <2>1 DEF LoginSetUid, IInv, TypeOK
  <2>2. CASE LoginSetUip(s)
    BY <1>3, <2>2 DEF LoginSetUip, IInv, TypeOK
  <2>3. CASE LoginBind(s)
    BY <1>3, <2>3 DEF LoginBind, IInv, TypeOK
  <2>4. QED
    BY <2>1, <2>2, <2>3
<1>6. TypeOK'
  BY <1>1, <1>2, <1>5 DEF IInv, TypeOK, connVars, LogicPlaces
<1>7. QED
  BY <1>1, <1>2, <1>3, <1>4, <1>6, MoveInductive

(* The text handler. *)
LEMMA TextInductive ==
  ASSUME IInv, NEW s \in Server, Text(s)
  PROVE  IInv'
<1>1. logic[s] \in {"text", "find", "send"}
  BY DEF Text, RouteNowhere, RouteLocal, FindLocal, SendLocal, RouteRemote, Goto
<1>2. /\ lq[s] # <<>> /\ req(s) \in Request /\ req(s).to \in User
  BY <1>1, FrontRequest DEF IInv
<1>3. UNCHANGED <<connVars, uid, sessions, bind, uip, count, lq, owed>>
  BY DEF Text, RouteNowhere, RouteLocal, FindLocal, SendLocal, RouteRemote
<1>4. PICK p \in {"reply", "find", "send", "call"} : logic' = [logic EXCEPT ![s] = p]
  BY DEF Text, RouteNowhere, RouteLocal, FindLocal, SendLocal, RouteRemote, Goto
<1>5. target' \in [Server -> Conn \cup {None}]
  <2>1. bind[s][req(s).to] \in Conn \cup {None}
    BY <1>2 DEF IInv, TypeOK
  <2>2. CASE FindLocal(s)
    BY <2>1, <2>2 DEF FindLocal, IInv, TypeOK
  <2>3. CASE ~FindLocal(s)
    BY <2>3 DEF Text, RouteNowhere, RouteLocal, SendLocal, RouteRemote, IInv, TypeOK
  <2>4. QED
    BY <2>2, <2>3
<1>6. inbox' \in [Conn -> Seq(Item)]
  <2>1. Sent(target[s], "notify", req(s)) \in [Conn -> Seq(Item)]
    BY <1>2, SentTypes DEF IInv
  <2>2. QED
    BY <2>1 DEF Text, RouteNowhere, RouteLocal, FindLocal, SendLocal, RouteRemote, IInv, TypeOK
<1>7. calls' \subseteq Call
  <2>1. CASE RouteRemote(s)
    <3>1. uip[req(s).to] \in Server
      BY <2>1, ChatAssumption DEF RouteRemote
    <3>2. [req |-> req(s), from |-> s, dest |-> uip[req(s).to],
           pc |-> "get", target |-> None] \in Call
      BY <1>2, <3>1 DEF Call
    <3>3. QED
      BY <2>1, <3>2 DEF RouteRemote, IInv, TypeOK
  <2>2. CASE ~RouteRemote(s)
    BY <2>2 DEF Text, RouteNowhere, RouteLocal, FindLocal, SendLocal, IInv, TypeOK
  <2>3. QED
    BY <2>1, <2>2
<1>8. TypeOK'
  BY <1>3, <1>4, <1>5, <1>6, <1>7 DEF IInv, TypeOK, connVars, LogicPlaces
<1>9. req(s).kind = "text"
  BY <1>1 DEF IInv, Handling
<1>10. QED
  BY <1>2, <1>3, <1>4, <1>8, <1>9, MoveInductive

(* The call between servers. *)
LEMMA RpcInductive ==
  ASSUME IInv, NEW k \in calls, Rpc(k) \/ RpcError(k) \/ RpcLost(k)
  PROVE  IInv'
<1>1. k \in Call /\ k.from \in Server /\ k.dest \in Server /\ k.req \in Request
      /\ k.req.to \in User
  BY DEF IInv, TypeOK, Call, Request
<1>2. CASE RpcGet(k)
  <2>1. bind[k.dest][k.req.to] \in Conn \cup {None}
    BY <1>1 DEF IInv, TypeOK
  <2>2. [k EXCEPT !.pc = IF bind[k.dest][k.req.to] = None THEN "return" ELSE "send",
                  !.target = bind[k.dest][k.req.to]] \in Call
    BY <1>1, <2>1 DEF Call
  <2>3. TypeOK'
    BY <1>2, <2>2 DEF RpcGet, IInv, TypeOK, connVars, logicVars
  <2>4. QED
    BY <1>2, <2>3, ElsewhereInductive DEF RpcGet, logicVars
<1>3. CASE RpcSend(k)
  <2>1. inbox' \in [Conn -> Seq(Item)]
    BY <1>1, <1>3, SentTypes DEF RpcSend, IInv
  <2>2. [k EXCEPT !.pc = "return"] \in Call
    BY <1>1 DEF Call
  <2>3. TypeOK'
    BY <1>3, <2>1, <2>2 DEF RpcSend, IInv, TypeOK, connVars, logicVars
  <2>4. QED
    BY <1>3, <2>3, ElsewhereInductive DEF RpcSend, logicVars
<1>4. CASE RpcReturn(k) /\ ~awaited(k)
  <2>1. TypeOK'
    BY <1>4 DEF RpcReturn, IInv, TypeOK, connVars
  <2>2. QED
    BY <1>4, <2>1, ElsewhereInductive DEF RpcReturn
<1>5. CASE awaited(k) /\ (RpcReturn(k) \/ RpcError(k) \/ RpcLost(k))
  <2>1. /\ logic' = [logic EXCEPT ![k.from] = "reply"] /\ logic[k.from] = "call"
        /\ calls' \subseteq calls
    BY <1>5 DEF RpcReturn, RpcError, RpcLost, awaited
  <2>2. UNCHANGED <<connVars, uid, sessions, bind, uip, count, lq, target, inbox, owed>>
    BY <1>5 DEF RpcReturn, RpcError, RpcLost
  <2>3. lq[k.from] # <<>>
    BY <1>1, <2>1 DEF IInv, Handling
  <2>4. TypeOK'
    BY <2>1, <2>2 DEF IInv, TypeOK, connVars, LogicPlaces
  <2>5. QED
    BY <1>1, <2>1, <2>2, <2>3, <2>4, MoveInductive
<1>6. QED
  BY <1>2, <1>3, <1>4, <1>5 DEF Rpc, RpcError, RpcLost

LEMMA LogicInductive ==
  ASSUME IInv, NEW s \in Server, Logic(s)
  PROVE  IInv'
<1>1. CASE LoginRefuse(s)
  <2>1. logic[s] # "idle"
    BY <1>1 DEF LoginRefuse, Goto
  <2>2. QED
    BY <1>1, <2>1, ReturnInductive DEF LoginRefuse, Goto
<1>2. CASE Reply(s)
  <2>1. logic[s] # "idle"
    BY <1>2 DEF Reply, Goto
  <2>2. QED
    BY <1>2, <2>1, ReturnInductive DEF Reply, Goto
<1>3. QED
  BY <1>1, <1>2, TakeInductive, LoginInductive, TextInductive DEF Logic, Login

LEMMA StepInductive == IInv /\ [Next]_vars => IInv'
<1> SUFFICES ASSUME IInv, [Next]_vars
             PROVE  IInv'
  OBVIOUS
<1>1. ASSUME NEW c \in Conn, Client(c)
      PROVE  IInv'
  BY <1>1, IoInductive, ReceiveInductive DEF Client
<1>2. ASSUME NEW c \in Conn, Insert(c) \/ Clear(c)
      PROVE  IInv'
  BY <1>2, IoInductive
<1>3. CASE UNCHANGED vars
  <2>1. TypeOK'
    BY <1>3 DEF vars, IInv, TypeOK
  <2>2. QED
    BY <1>3, <2>1, ElsewhereInductive DEF vars
<1>4. QED
  BY <1>1, <1>2, <1>3, LogicInductive, RpcInductive DEF Next

(* Every reachable state satisfies the inductive invariant. *)
THEOREM Inductive == Spec => []IInv
<1>1. QED
  BY InitInductive, StepInductive, PTL DEF Spec

(* The sessions, bindings, queues and calls of the servers keep their types. *)
THEOREM TypeCorrect == Spec => []TypeOK
<1>1. IInv => TypeOK
  BY DEF IInv
<1>2. QED
  BY <1>1, Inductive, PTL

-------------------------------------------------------------------------------
(* What a step may do to the queues and to what the connections were sent: the
   handler of s returns, with an answer; *)
Returns(s, kind) ==
  /\ logic[s] # "idle"
  /\ inbox' = Sent(req(s).conn, kind, req(s))
  /\ lq' = [lq EXCEPT ![s] = Tail(@)]
  /\ asked' = asked

(* a text is sent on a connection; *)
Passes(c, r) ==
  /\ inbox' = Sent(c, "notify", r)
  /\ UNCHANGED <<lq, asked>>

(* or a request is received, or none of these. *)
LEMMA Effects ==
  ASSUME IInv, [Next]_vars
  PROVE  \/ UNCHANGED <<lq, inbox, asked>>
         \/ \E c \in Conn, kind \in {"login", "text"}, to \in User : Post(c, kind, to)
         \/ \E s \in Server : LoginRefuse(s) /\ Returns(s, "refused")
         \/ \E s \in Server : Reply(s) /\ Returns(s, "ok")
         \/ \E s \in Server : SendLocal(s) /\ Passes(target[s], req(s))
         \/ \E k \in calls : RpcSend(k) /\ Passes(k.target, k.req)
<1>1. ASSUME NEW c \in Conn, Client(c) \/ Insert(c) \/ Clear(c)
      PROVE  \/ UNCHANGED <<lq, inbox, asked>>
             \/ \E kind \in {"login", "text"}, to \in User : Post(c, kind, to)
  BY <1>1 DEF Client, Accept, Receive, LateReceive, ReadError, BadHeader, WriteError, Insert,
              Clear, ClearFind, ClearMiss, ClearUnbind, ClearErase, LateAbort, logicVars
<1>2. ASSUME NEW s \in Server, Logic(s)
      PROVE  \/ UNCHANGED <<lq, inbox, asked>>
             \/ LoginRefuse(s) /\ Returns(s, "refused")
             \/ Reply(s) /\ Returns(s, "ok")
             \/ SendLocal(s) /\ Passes(target[s], req(s))
  <2>1. CASE LoginRefuse(s)
    <3>1. Returns(s, "refused")
      BY <2>1 DEF LoginRefuse, Goto, Returns, connVars
    <3>2. QED
      BY <2>1, <3>1
  <2>2. CASE Reply(s)
    <3>1. Returns(s, "ok")
      BY <2>2 DEF Reply, Goto, Returns, connVars
    <3>2. QED
      BY <2>2, <3>1
  <2>3. CASE SendLocal(s)
    BY <2>3 DEF SendLocal, Passes, connVars
  <2>4. CASE Take(s) \/ LoginSetUid(s) \/ LoginSetUip(s) \/ LoginBind(s)
    BY <2>4 DEF Take, LoginSetUid, LoginSetUip, LoginBind, connVars
  <2>5. CASE RouteNowhere(s) \/ RouteLocal(s) \/ FindLocal(s) \/ RouteRemote(s)
    BY <2>5 DEF RouteNowhere, RouteLocal, FindLocal, RouteRemote, connVars
  <2>6. QED
    BY <1>2, <2>1, <2>2, <2>3, <2>4, <2>5 DEF Logic, Login, Text
<1>3. ASSUME NEW k \in calls, Rpc(k) \/ RpcError(k) \/ RpcLost(k)
      PROVE  \/ UNCHANGED <<lq, inbox, asked>>
             \/ RpcSend(k) /\ Passes(k.target, k.req)
  BY <1>3 DEF Rpc, RpcGet, RpcSend, RpcReturn, RpcError, RpcLost, Passes, connVars, logicVars
<1>4. CASE UNCHANGED vars
  BY <1>4 DEF vars
<1>5. CASE \E c \in Conn : Client(c) \/ Insert(c) \/ Clear(c)
  BY <1>1, <1>5
<1>6. CASE \E s \in Server : Logic(s)
  <2>1. PICK s \in Server : Logic(s)
    BY <1>6
  <2>2. \/ UNCHANGED <<lq, inbox, asked>>
        \/ LoginRefuse(s) /\ Returns(s, "refused")
        \/ Reply(s) /\ Returns(s, "ok")
        \/ SendLocal(s) /\ Passes(target[s], req(s))
    BY <1>2, <2>1
  <2>3. QED
    BY <2>2
<1>7. CASE \E k \in calls : Rpc(k) \/ RpcError(k) \/ RpcLost(k)
  BY <1>3, <1>7
<1>8. QED
  BY <1>4, <1>5, <1>6, <1>7 DEF Next

(* What a Send does to each connection. *)
LEMMA SentEffect ==
  ASSUME TypeOK, NEW c, NEW r \in Request, NEW kind \in {"ok", "refused", "notify"},
         inbox' = Sent(c, kind, r)
  PROVE  LET e == [kind |-> kind, req |-> r]
         IN /\ e \in Item
            /\ \A d \in Conn : inbox[d] \in Seq(Item) /\ inbox'[d] \in Seq(Item)
            /\ \A d \in Conn : inbox'[d] = IF d = c THEN Append(inbox[d], e) ELSE inbox[d]
<1> DEFINE e == [kind |-> kind, req |-> r]
<1>1. e \in Item
  BY DEF Item
<1>2. \A d \in Conn : inbox'[d] = IF d = c THEN Append(inbox[d], e) ELSE inbox[d]
  BY DEF Sent, TypeOK
<1>3. \A d \in Conn : inbox[d] \in Seq(Item)
  BY DEF TypeOK
<1> HIDE DEF e
<1>4. \A x \in Seq(Item) : Append(x, e) \in Seq(Item)
  BY <1>1
<1>5. \A d \in Conn : inbox'[d] \in Seq(Item)
  BY <1>2, <1>3, <1>4
<1>6. QED
  BY <1>1, <1>2, <1>3, <1>5 DEF e

-------------------------------------------------------------------------------
(* Answers are counted: a text changes no count, an answer comes last. *)
LEMMA Places ==
  ASSUME NEW x \in Seq(Item)
  PROVE  /\ IsFiniteSet(answerPlaces(x))
         /\ Cardinality(answerPlaces(x)) \in Nat
<1>1. Len(x) \in Nat
  OBVIOUS
<1>2. IsFiniteSet(1..Len(x))
  BY <1>1, FS_Interval
<1>3. answerPlaces(x) \subseteq 1..Len(x)
  BY DEF answerPlaces
<1>4. IsFiniteSet(answerPlaces(x))
  BY <1>2, <1>3, FS_Subset
<1>5. QED
  BY <1>4, FS_CardinalityType

LEMMA TextCountsNot ==
  ASSUME NEW x \in Seq(Item), NEW e \in Item, e.kind = "notify"
  PROVE  /\ answerPlaces(Append(x, e)) = answerPlaces(x)
         /\ \A c : inOrder(c, x) => inOrder(c, Append(x, e))
<1>1. /\ Len(x) \in Nat /\ Len(Append(x, e)) = Len(x) + 1 /\ Append(x, e)[Len(x) + 1] = e
      /\ \A i \in 1..Len(x) : Append(x, e)[i] = x[i]
  BY Appended
<1>2. answerPlaces(Append(x, e)) = answerPlaces(x)
  BY <1>1 DEF answerPlaces
<1>3. answerPlaces(x) \subseteq 1..Len(x)
  BY DEF answerPlaces
<1>4. QED
  BY <1>1, <1>2, <1>3 DEF inOrder

LEMMA AnswerCounts ==
  ASSUME NEW x \in Seq(Item), NEW e \in Item, e.kind # "notify"
  PROVE  /\ Cardinality(answerPlaces(Append(x, e))) = Cardinality(answerPlaces(x)) + 1
         /\ \A c : (/\ inOrder(c, x)
                    /\ e.req.conn = c
                    /\ e.req.n = Cardinality(answerPlaces(x)) + 1)
                     => inOrder(c, Append(x, e))
<1> DEFINE y == Append(x, e)
<1>1. /\ Len(x) \in Nat /\ Len(y) = Len(x) + 1 /\ y[Len(x) + 1] = e
      /\ \A i \in 1..Len(x) : y[i] = x[i]
  BY Appended
<1> HIDE DEF y
<1>2. answerPlaces(y) = answerPlaces(x) \cup {Len(x) + 1}
  BY <1>1 DEF answerPlaces
<1>3. answerPlaces(x) \subseteq 1..Len(x) /\ Len(x) + 1 \notin answerPlaces(x)
  BY <1>1 DEF answerPlaces
<1>4. Cardinality(answerPlaces(y)) = Cardinality(answerPlaces(x)) + 1
  BY <1>2, <1>3, Places, FS_AddElement
<1>5. ASSUME NEW c, inOrder(c, x), e.req.conn = c,
             e.req.n = Cardinality(answerPlaces(x)) + 1
      PROVE  inOrder(c, y)
  <2>1. ASSUME NEW i \in answerPlaces(x)
        PROVE  /\ y[i].req.conn = c
               /\ y[i].req.n = Cardinality({j \in answerPlaces(y) : j <= i})
    <3>1. y[i] = x[i] /\ i \in 1..Len(x)
      BY <1>1, <1>3
    <3>2. {j \in answerPlaces(y) : j <= i} = {j \in answerPlaces(x) : j <= i}
      BY <1>1, <1>2, <3>1
    <3>3. QED
      BY <1>5, <3>1, <3>2 DEF inOrder
  <2>2. {j \in answerPlaces(y) : j <= Len(x) + 1} = answerPlaces(y)
    BY <1>1, <1>2, <1>3
  <2>3. QED
    BY <1>1, <1>2, <1>4, <1>5, <2>1, <2>2 DEF inOrder
<1>6. QED
  BY <1>4, <1>5 DEF y

(* The number of an answered request is at most the count of answers. *)
LEMMA AnswersBounded ==
  ASSUME NEW x \in Seq(Item), NEW c, inOrder(c, x), NEW i \in answerPlaces(x)
  PROVE  x[i].req.conn = c /\ x[i].req.n <= Cardinality(answerPlaces(x))
<1>1. {j \in answerPlaces(x) : j <= i} \subseteq answerPlaces(x)
  OBVIOUS
<1>2. Cardinality({j \in answerPlaces(x) : j <= i}) <= Cardinality(answerPlaces(x))
  BY <1>1, Places, FS_Subset
<1>3. QED
  BY <1>2 DEF inOrder

(* A queue keeps the numbers it has, but for the one at its front. *)
LEMMA NumbersAppended ==
  ASSUME NEW q \in Seq(Request), NEW r \in Request, NEW c,
         rising(q, c), r.conn = c => \A n \in numbers(q, c) : n < r.n
  PROVE  /\ rising(Append(q, r), c)
         /\ numbers(Append(q, r), c) = numbers(q, c) \cup (IF r.conn = c THEN {r.n} ELSE {})
<1> DEFINE a == Append(q, r)
<1>1. /\ a \in Seq(Request) /\ Len(a) = Len(q) + 1 /\ Len(q) \in Nat
      /\ \A i \in 1..Len(q) : a[i] = q[i]
      /\ a[Len(q) + 1] = r
  BY Appended
<1> HIDE DEF a
<1>2. numbers(a, c) = numbers(q, c) \cup (IF r.conn = c THEN {r.n} ELSE {})
  <2>1. ASSUME NEW n \in numbers(a, c)
        PROVE  n \in numbers(q, c) \cup (IF r.conn = c THEN {r.n} ELSE {})
    <3>1. PICK i \in 1..Len(a) : a[i].conn = c /\ n = a[i].n
      BY <2>1 DEF numbers
    <3>2. CASE i \in 1..Len(q)
      BY <1>1, <3>1, <3>2 DEF numbers
    <3>3. CASE i \notin 1..Len(q)
      <4>1. i = Len(q) + 1
        BY <1>1, <3>1, <3>3
      <4>2. QED
        BY <1>1, <3>1, <4>1
    <3>4. QED
      BY <3>2, <3>3
  <2>2. numbers(q, c) \subseteq numbers(a, c)
    BY <1>1 DEF numbers
  <2>3. r.conn = c => r.n \in numbers(a, c)
    BY <1>1 DEF numbers
  <2>4. QED
    BY <2>1, <2>2, <2>3
<1>3. rising(a, c)
  <2>1. SUFFICES ASSUME NEW i \in 1..Len(a), NEW j \in 1..Len(a),
                        i < j, a[i].conn = c, a[j].conn = c
                 PROVE  a[i].n < a[j].n
    BY DEF rising
  <2>2. i \in 1..Len(q) /\ a[i] = q[i]
    BY <1>1, <2>1
  <2>3. CASE j \in 1..Len(q)
    BY <1>1, <2>1, <2>2, <2>3 DEF rising
  <2>4. CASE j \notin 1..Len(q)
    <3>1. a[j] = r
      BY <1>1, <2>1, <2>4
    <3>2. q[i].n \in numbers(q, c)
      BY <2>1, <2>2 DEF numbers
    <3>3. QED
      BY <2>1, <2>2, <3>1, <3>2
  <2>5. QED
    BY <2>3, <2>4
<1>4. QED
  BY <1>2, <1>3 DEF a

LEMMA NumbersPopped ==
  ASSUME NEW q \in Seq(Request), q # <<>>, NEW c, rising(q, c)
  PROVE  /\ rising(Tail(q), c)
         /\ numbers(Tail(q), c) = numbers(q, c) \ (IF q[1].conn = c THEN {q[1].n} ELSE {})
<1> DEFINE t == Tail(q)
<1>1. /\ Len(q) \in Nat /\ Len(q) >= 1
      /\ t \in Seq(Request) /\ Len(t) = Len(q) - 1
      /\ \A i \in 1..Len(t) : t[i] = q[i + 1]
  BY Fronts
<1> HIDE DEF t
<1>2. rising(t, c)
  BY <1>1 DEF rising
<1>3. \A i \in 1..Len(q) : q[i] \in Request
  OBVIOUS
<1>4. ASSUME NEW n \in numbers(t, c)
      PROVE  n \in numbers(q, c) /\ ~(q[1].conn = c /\ n = q[1].n)
  <2>1. PICK i \in 1..Len(t) : t[i].conn = c /\ n = t[i].n
    BY <1>4 DEF numbers
  <2>2. i + 1 \in 1..Len(q) /\ 1 \in 1..Len(q) /\ 1 < i + 1 /\ t[i] = q[i + 1]
    BY <1>1, <2>1
  <2>3. n \in numbers(q, c)
    BY <2>1, <2>2 DEF numbers
  <2>4. q[1].conn = c => q[1].n < q[i + 1].n
    BY <2>1, <2>2 DEF rising
  <2>5. q[1].n \in Nat
    BY <1>3, <2>2 DEF Request
  <2>6. QED
    BY <2>1, <2>2, <2>3, <2>4, <2>5
<1>5. ASSUME NEW n \in numbers(q, c), ~(q[1].conn = c /\ n = q[1].n)
      PROVE  n \in numbers(t, c)
  <2>1. PICK i \in 1..Len(q) : q[i].conn = c /\ n = q[i].n
    BY <1>5 DEF numbers
  <2>2. i # 1
    BY <1>5, <2>1
  <2>3. i - 1 \in 1..Len(t) /\ t[i - 1] = q[i]
    BY <1>1, <2>1, <2>2
  <2>4. QED
    BY <2>1, <2>3 DEF numbers
<1>6. numbers(t, c) = numbers(q, c) \ (IF q[1].conn = c THEN {q[1].n} ELSE {})
  BY <1>4, <1>5
<1>7. QED
  BY <1>2, <1>6 DEF t

(* The request at the front is the first one its connection has no answer to. *)
LEMMA FrontIsNext ==
  ASSUME TypeOK, Handling, AnswerInv, NEW s \in Server, lq[s] # <<>>
  PROVE  LET c == req(s).conn
         IN  /\ c \in Conn /\ Home[c] = s
             /\ req(s) \in Request /\ req(s) = lq[s][1] /\ req(s).n \in Nat
             /\ req(s).n = answered(c) + 1 /\ answered(c) < asked[c]
<1> DEFINE c == req(s).conn
<1> DEFINE q == lq[s]
<1>1. q \in Seq(Request) /\ q # <<>>
  BY DEF TypeOK
<1>2. /\ Head(q) \in Request /\ Head(q) = q[1] /\ Len(q) \in Nat /\ Len(q) >= 1
  BY <1>1, Fronts
<1>3. 1 \in 1..Len(q)
  BY <1>2
<1>4. c \in Conn /\ Home[c] = s /\ req(s) = q[1] /\ req(s).n \in Nat
  BY <1>2, <1>3 DEF req, Request, Handling
<1>5. answered(c) \in Nat /\ asked[c] \in Nat
  BY <1>4, Places DEF TypeOK, answered
<1>6. rising(q, c) /\ numbers(q, c) = (answered(c) + 1)..asked[c]
  BY <1>4 DEF AnswerInv, Unanswered
<1>7. req(s).n \in numbers(q, c)
  BY <1>3, <1>4 DEF numbers
<1>8. answered(c) < asked[c] /\ answered(c) + 1 <= req(s).n
  BY <1>4, <1>5, <1>6, <1>7
<1>9. answered(c) + 1 \in numbers(q, c)
  BY <1>5, <1>6, <1>8
<1>10. PICK i \in 1..Len(q) : q[i].conn = c /\ q[i].n = answered(c) + 1
  BY <1>9 DEF numbers
<1>11. i = 1 \/ q[1].n < q[i].n
  <2>1. i = 1 \/ 1 < i
    BY <1>2, <1>10
  <2>2. QED
    BY <1>3, <1>4, <1>6, <1>10, <2>1 DEF rising
<1>12. req(s).n = answered(c) + 1
  BY <1>4, <1>5, <1>8, <1>10, <1>11
<1>13. QED
  BY <1>2, <1>4, <1>8, <1>12 DEF req

LEMMA InitAnswers == Init => AnswerInv
<1> SUFFICES ASSUME Init
             PROVE  AnswerInv
  OBVIOUS
<1>1. ASSUME NEW c \in Conn
      PROVE  answerPlaces(inbox[c]) = {} /\ asked[c] = 0 /\ lq[Home[c]] = <<>>
  BY <1>1, ChatAssumption DEF Init, answerPlaces
<1>2. \A c \in Conn : answered(c) = 0
  BY <1>1, FS_EmptySet DEF answered
<1>3. AnsweredInOrder
  BY <1>1, <1>2 DEF AnsweredInOrder, inOrder
<1>4. ASSUME NEW c \in Conn
      PROVE  rising(lq[Home[c]], c) /\ numbers(lq[Home[c]], c) = (answered(c) + 1)..asked[c]
  <2>1. rising(<<>>, c) /\ numbers(<<>>, c) = {}
    BY DEF rising, numbers
  <2>2. (answered(c) + 1)..asked[c] = {}
    BY <1>1, <1>2
  <2>3. QED
    BY <1>1, <2>1, <2>2
<1>5. QED
  BY <1>3, <1>4 DEF AnswerInv, Unanswered

(* Nothing that counts changes for the connection. *)
LEMMA PostAnswers ==
  ASSUME IInv, AnswerInv, NEW c \in Conn, NEW kind \in {"login", "text"}, NEW to \in User,
         Post(c, kind, to)
  PROVE  AnswerInv'
<1> DEFINE s == Home[c]
           r == [conn |-> c, n |-> asked[c] + 1, kind |-> kind, to |-> to]
<1>1. s \in Server /\ lq[s] \in Seq(Request) /\ asked[c] \in Nat
  BY ChatAssumption DEF IInv, TypeOK
<1>2. r \in Request /\ r.conn = c /\ r.n = asked[c] + 1
  BY <1>1 DEF Request
<1>3. /\ lq' = [lq EXCEPT ![s] = Append(@, r)]
      /\ asked' = [asked EXCEPT ![c] = @ + 1] /\ inbox' = inbox
  BY DEF Post
<1> HIDE DEF r
<1>4. lq'[s] = Append(lq[s], r) /\ \A u \in Server \ {s} : lq'[u] = lq[u]
  BY <1>1, <1>3 DEF IInv, TypeOK
<1>5. asked'[c] = asked[c] + 1 /\ \A d \in Conn \ {c} : asked'[d] = asked[d]
  BY <1>3 DEF IInv, TypeOK
<1>6. \A d \in Conn : answered(d)' = answered(d)
  BY <1>3 DEF answered
<1>7. \A d \in Conn : answered(d) \in Nat /\ asked[d] \in Nat
  BY Places DEF answered, IInv, TypeOK
<1>8. AnsweredInOrder'
  <2>1. ASSUME NEW d \in Conn
        PROVE  answered(d)' <= asked'[d] /\ inOrder(d, inbox'[d])
    <3>1. answered(d) <= asked[d] /\ inOrder(d, inbox[d])
      BY DEF AnswerInv, AnsweredInOrder
    <3>2. QED
      BY <1>3, <1>5, <1>6, <1>7, <3>1
  <2>2. QED
    BY <2>1 DEF AnsweredInOrder
<1>9. ASSUME NEW d \in Conn
      PROVE  /\ rising(lq'[Home[d]], d)
             /\ numbers(lq'[Home[d]], d) = (answered(d)' + 1)..asked'[d]
  <2>1. rising(lq[Home[d]], d) /\ numbers(lq[Home[d]], d) = (answered(d) + 1)..asked[d]
    BY DEF AnswerInv, Unanswered
  <2>2. answered(d) <= asked[d]
    BY DEF AnswerInv, AnsweredInOrder
  <2>3. CASE Home[d] # s
    <3>1. Home[d] \in Server /\ d # c
      BY <2>3, ChatAssumption
    <3>2. QED
      BY <1>4, <1>5, <1>6, <2>1, <2>3, <3>1
  <2>4. CASE Home[d] = s
    <3>1. \A n \in numbers(lq[s], d) : n <= asked[d]
      BY <1>7, <2>1, <2>4
    <3>2. r.conn = d => \A n \in numbers(lq[s], d) : n < r.n
      BY <1>2, <1>7, <2>1, <2>4, <3>1
    <3>3. /\ rising(Append(lq[s], r), d)
          /\ numbers(Append(lq[s], r), d) =
               numbers(lq[s], d) \cup (IF r.conn = d THEN {r.n} ELSE {})
      BY <1>1, <1>2, <2>1, <2>4, <3>2, NumbersAppended
    <3>4. CASE d = c
      <4>1. numbers(lq'[s], d) = ((answered(d) + 1)..asked[d]) \cup {asked[d] + 1}
        BY <1>2, <1>4, <2>1, <2>4, <3>3, <3>4
      <4>2. ((answered(d) + 1)..asked[d]) \cup {asked[d] + 1} = (answered(d) + 1)..(asked[d] + 1)
        BY <1>7, <2>2
      <4>3. QED
        BY <1>4, <1>5, <1>6, <2>4, <3>3, <3>4, <4>1, <4>2
    <3>5. CASE d # c
      BY <1>2, <1>4, <1>5, <1>6, <2>1, <2>4, <3>3, <3>5
    <3>6. QED
      BY <3>4, <3>5
  <2>5. QED
    BY <2>3, <2>4
<1>10. QED
  BY <1>8, <1>9 DEF AnswerInv, Unanswered

(* A handler answers the request at the front, and pops it. *)
LEMMA ReturnsAnswers ==
  ASSUME IInv, AnswerInv, NEW s \in Server, NEW kind \in {"ok", "refused"}, Returns(s, kind)
  PROVE  /\ AnswerInv'
         /\ \A d \in Conn : answered(d)' = IF d = req(s).conn THEN answered(d) + 1 ELSE answered(d)
<1>1. lq[s] # <<>> /\ lq[s] \in Seq(Request)
  BY DEF Returns, IInv, TypeOK, Handling
<1>2. PICK c \in Conn, r \in Request :
        /\ c = r.conn /\ r = req(s) /\ Home[c] = s /\ r = lq[s][1]
        /\ r.n \in Nat /\ r.n = answered(c) + 1 /\ answered(c) < asked[c]
  BY <1>1, FrontIsNext DEF IInv
<1> DEFINE e == [kind |-> kind, req |-> r]
<1>3. /\ inbox' = Sent(c, kind, r) /\ lq' = [lq EXCEPT ![s] = Tail(@)] /\ asked' = asked
  BY <1>2 DEF Returns
<1>4. e.kind # "notify" /\ e.req = r
  OBVIOUS
<1>5. /\ e \in Item
      /\ \A d \in Conn : inbox[d] \in Seq(Item)
      /\ \A d \in Conn : inbox'[d] = IF d = c THEN Append(inbox[d], e) ELSE inbox[d]
  <2>1. kind \in {"ok", "refused", "notify"} /\ TypeOK /\ inbox' = Sent(c, kind, r)
    BY <1>3 DEF IInv
  <2>2. QED
    BY ONLY <2>1, r \in Request, SentEffect
<1>6. lq'[s] = Tail(lq[s]) /\ \A u \in Server \ {s} : lq'[u] = lq[u]
  BY <1>3 DEF IInv, TypeOK
<1>7. \A d \in Conn : answered(d) \in Nat /\ asked[d] \in Nat
  BY Places DEF answered, IInv, TypeOK
<1> HIDE DEF e
<1>8. /\ answered(c)' = answered(c) + 1 /\ inOrder(c, inbox'[c])
  <2>1. inOrder(c, inbox[c])
    BY <1>2 DEF AnswerInv, AnsweredInOrder
  <2>2. inbox'[c] = Append(inbox[c], e) /\ inbox[c] \in Seq(Item)
    BY <1>2, <1>5
  <2>3. Cardinality(answerPlaces(Append(inbox[c], e))) = answered(c) + 1
    BY <1>4, <1>5, <2>2, AnswerCounts DEF answered
  <2>4. e.req.conn = c /\ e.req.n = Cardinality(answerPlaces(inbox[c])) + 1
    BY <1>2, <1>4 DEF answered
  <2>5. inOrder(c, Append(inbox[c], e))
    BY <1>4, <1>5, <2>1, <2>2, <2>4, AnswerCounts
  <2>6. QED
    BY <2>2, <2>3, <2>5 DEF answered
<1>9. \A d \in Conn : d # c => answered(d)' = answered(d) /\ inbox'[d] = inbox[d]
  BY <1>5 DEF answered
<1>10. AnsweredInOrder'
  <2>1. ASSUME NEW d \in Conn
        PROVE  answered(d)' <= asked'[d] /\ inOrder(d, inbox'[d])
    <3>1. answered(d) <= asked[d] /\ inOrder(d, inbox[d])
      BY DEF AnswerInv, AnsweredInOrder
    <3>2. CASE d = c
      BY <1>2, <1>3, <1>7, <1>8, <3>2
    <3>3. CASE d # c
      BY <1>3, <1>9, <3>1, <3>3
    <3>4. QED
      BY <3>2, <3>3
  <2>2. QED
    BY <2>1 DEF AnsweredInOrder
<1>11. ASSUME NEW d \in Conn
       PROVE  /\ rising(lq'[Home[d]], d)
              /\ numbers(lq'[Home[d]], d) = (answered(d)' + 1)..asked'[d]
  <2>1. rising(lq[Home[d]], d) /\ numbers(lq[Home[d]], d) = (answered(d) + 1)..asked[d]
    BY DEF AnswerInv, Unanswered
  <2>2. CASE Home[d] # s
    <3>1. Home[d] \in Server /\ d # c
      BY <1>2, <2>2, ChatAssumption
    <3>2. QED
      BY <1>3, <1>6, <1>9, <2>1, <2>2, <3>1
  <2>3. CASE Home[d] = s
    <3>1. /\ rising(Tail(lq[s]), d)
          /\ numbers(Tail(lq[s]), d) =
               numbers(lq[s], d) \ (IF lq[s][1].conn = d THEN {lq[s][1].n} ELSE {})
      BY <1>1, <2>1, <2>3, NumbersPopped
    <3>2. CASE d = c
      <4>1. numbers(lq'[s], d) = ((answered(d) + 1)..asked[d]) \ {answered(d) + 1}
        BY <1>2, <1>6, <2>1, <2>3, <3>1, <3>2
      <4>2. ((answered(d) + 1)..asked[d]) \ {answered(d) + 1} = ((answered(d) + 1) + 1)..asked[d]
        BY <1>7
      <4>3. QED
        BY <1>3, <1>6, <1>8, <2>3, <3>1, <3>2, <4>1, <4>2
    <3>3. CASE d # c
      BY <1>2, <1>3, <1>6, <1>9, <2>1, <2>3, <3>1, <3>3
    <3>4. QED
      BY <3>2, <3>3
  <2>4. QED
    BY <2>2, <2>3
<1>12. QED
  BY <1>2, <1>8, <1>9, <1>10, <1>11 DEF AnswerInv, Unanswered

(* A text that is passed on counts for nobody. *)
LEMMA PassesAnswers ==
  ASSUME IInv, AnswerInv, NEW c, NEW r \in Request, Passes(c, r)
  PROVE  AnswerInv' /\ \A d \in Conn : answered(d)' = answered(d)
<1> DEFINE e == [kind |-> "notify", req |-> r]
<1>1. /\ e \in Item /\ e.kind = "notify"
      /\ \A d \in Conn : inbox[d] \in Seq(Item)
      /\ \A d \in Conn : inbox'[d] = IF d = c THEN Append(inbox[d], e) ELSE inbox[d]
  BY SentEffect DEF Passes, IInv
<1>2. UNCHANGED <<lq, asked>>
  BY DEF Passes
<1> HIDE DEF e
<1>3. ASSUME NEW d \in Conn
      PROVE  answered(d)' = answered(d) /\ inOrder(d, inbox'[d])
  <2>1. inOrder(d, inbox[d])
    BY DEF AnswerInv, AnsweredInOrder
  <2>2. CASE d = c
    BY <1>1, <2>1, <2>2, TextCountsNot DEF answered
  <2>3. CASE d # c
    BY <1>1, <2>1, <2>3 DEF answered
  <2>4. QED
    BY <2>2, <2>3
<1>4. QED
  BY <1>2, <1>3 DEF AnswerInv, AnsweredInOrder, Unanswered

LEMMA StepAnswers == IInv /\ AnswerInv /\ [Next]_vars => AnswerInv'
<1> SUFFICES ASSUME IInv, AnswerInv, [Next]_vars
             PROVE  AnswerInv'
  OBVIOUS
<1>1. CASE UNCHANGED <<lq, inbox, asked>>
  BY <1>1 DEF AnswerInv, AnsweredInOrder, Unanswered, answered
<1>2. ASSUME NEW s \in Server, SendLocal(s), Passes(target[s], req(s))
      PROVE  AnswerInv'
  <2>1. logic[s] # "idle"
    BY <1>2 DEF SendLocal, Goto
  <2>2. req(s) \in Request
    BY <2>1, FrontRequest DEF IInv
  <2>3. QED
    BY <1>2, <2>2, PassesAnswers
<1>3. ASSUME NEW k \in calls, Passes(k.target, k.req)
      PROVE  AnswerInv'
  <2>1. k.req \in Request
    BY DEF IInv, TypeOK, Call
  <2>2. QED
    BY <1>3, <2>1, PassesAnswers
<1>4. QED
  BY <1>1, <1>2, <1>3, Effects, PostAnswers, ReturnsAnswers

(* Every connection gets one answer to each request the logic thread has
   handled, in the order it sent them: the queue is FIFO, a handler answers once
   when it returns and pops its request then (LogicSystem.cpp:38-93, 168-171,
   474-477). *)
THEOREM AnswersInOrder == Spec => []AnsweredInOrder
<1>1. AnswerInv => AnsweredInOrder
  BY DEF AnswerInv
<1>2. QED
  BY <1>1, InitAnswers, StepAnswers, Inductive, PTL DEF Spec

-------------------------------------------------------------------------------
(* What a step does to a connection's own thread, unless it is that thread's. *)
OwnStep(c) ==
  \/ Accept(c) \/ Insert(c) \/ ReadError(c) \/ BadHeader(c) \/ WriteError(c)
  \/ ClearFind(c) \/ ClearMiss(c) \/ ClearUnbind(c) \/ ClearErase(c) \/ LateAbort(c)
  \/ \E kind \in {"login", "text"}, to \in User : LateReceive(c, kind, to)

LEMMA OthersStep ==
  ASSUME IInv, [Next]_vars, NEW c \in Conn, ~OwnStep(c)
  PROVE  /\ io'[c] = io[c] /\ acc'[c] = acc[c] /\ iouid'[c] = iouid[c]
         /\ c \in sessions'[Home[c]] <=> c \in sessions[Home[c]]
         /\ c \in quiet' <=> c \in quiet
<1> USE DEF IInv, TypeOK
<1>1. Home[c] \in Server
  BY ChatAssumption
<1>2. ASSUME UNCHANGED <<io, acc, iouid, sessions, quiet>>
      PROVE  /\ io'[c] = io[c] /\ acc'[c] = acc[c] /\ iouid'[c] = iouid[c]
             /\ c \in sessions'[Home[c]] <=> c \in sessions[Home[c]]
             /\ c \in quiet' <=> c \in quiet
  BY <1>2
<1>3. ASSUME NEW d \in Conn, d # c, OwnStep(d)
      PROVE  /\ io'[c] = io[c] /\ acc'[c] = acc[c] /\ iouid'[c] = iouid[c]
             /\ c \in sessions'[Home[c]] <=> c \in sessions[Home[c]]
             /\ c \in quiet' <=> c \in quiet
  <2>1. Home[d] \in Server
    BY ChatAssumption
  <2>2. CASE Accept(d)
    BY <1>3, <2>2 DEF Accept
  <2>3. CASE Insert(d)
    <3>1. /\ acc' = [acc EXCEPT ![d] = "done"] /\ UNCHANGED <<io, iouid, quiet>>
          /\ sessions' = [sessions EXCEPT ![Home[d]] = @ \cup {d}]
      BY <2>3 DEF Insert
    <3>2. c \in sessions'[Home[c]] <=> c \in sessions[Home[c]]
      BY <1>1, <1>3, <2>1, <3>1
    <3>3. QED
      BY <1>3, <3>1, <3>2
  <2>4. CASE ReadError(d) \/ BadHeader(d)
    BY <1>3, <2>4 DEF ReadError, BadHeader, Ends
  <2>5. CASE WriteError(d)
    <3>1. c \in quiet' <=> c \in quiet
      BY <1>3, <2>5 DEF WriteError, Ends
    <3>2. UNCHANGED <<acc, iouid, sessions>> /\ io' = [io EXCEPT ![d] = "find"]
      BY <2>5 DEF WriteError
    <3>3. QED
      BY <1>3, <3>1, <3>2
  <2>6. CASE ClearFind(d)
    <3>1. UNCHANGED <<acc, sessions, quiet>>
      BY <2>6 DEF ClearFind
    <3>2. io'[c] = io[c] /\ iouid'[c] = iouid[c]
      BY <1>3, <2>6 DEF ClearFind
    <3>3. QED
      BY <3>1, <3>2
  <2>7. CASE ClearMiss(d)
    BY <1>3, <2>7 DEF ClearMiss
  <2>8. CASE ClearUnbind(d)
    BY <1>3, <2>8 DEF ClearUnbind
  <2>9. CASE ClearErase(d)
    BY <1>1, <1>3, <2>1, <2>9 DEF ClearErase
  <2>10. CASE LateAbort(d)
    BY <1>3, <2>10 DEF LateAbort
  <2>11. CASE \E kind \in {"login", "text"}, to \in User : LateReceive(d, kind, to)
    BY <1>3, <2>11 DEF LateReceive, Post
  <2>12. QED
    BY <1>3, <2>2, <2>3, <2>4, <2>5, <2>6, <2>7, <2>8, <2>9, <2>10, <2>11 DEF OwnStep
<1>4. ASSUME NEW d \in Conn, NEW kind \in {"login", "text"}, NEW to \in User, Receive(d, kind, to)
      PROVE  UNCHANGED <<io, acc, iouid, sessions, quiet>>
  BY <1>4 DEF Receive, Post
<1>5. ASSUME NEW s \in Server, Logic(s)
      PROVE  UNCHANGED <<io, acc, iouid, sessions, quiet>>
  BY <1>5 DEF Logic, Take, Login, LoginRefuse, LoginSetUid, LoginSetUip, LoginBind, Reply,
              Text, RouteNowhere, RouteLocal, FindLocal, SendLocal, RouteRemote, connVars
<1>6. ASSUME NEW k \in calls, Rpc(k) \/ RpcError(k) \/ RpcLost(k)
      PROVE  UNCHANGED <<io, acc, iouid, sessions, quiet>>
  BY <1>6 DEF Rpc, RpcGet, RpcSend, RpcReturn, RpcError, RpcLost, connVars
<1>7. CASE UNCHANGED vars
  BY <1>7 DEF vars
<1>8. ASSUME NEW d \in Conn, Client(d) \/ Insert(d) \/ Clear(d)
      PROVE  OwnStep(d) \/ \E kind \in {"login", "text"}, to \in User : Receive(d, kind, to)
  BY <1>8 DEF Client, Clear, OwnStep
<1>9. QED
  BY <1>2, <1>3, <1>4, <1>5, <1>6, <1>7, <1>8 DEF Next

(* A connection that has all its answers and asks nothing more keeps them. *)
LEMMA StaysAnswered ==
  ASSUME IInv, AnswerInv, [Next]_vars, NEW c \in Conn,
         asked'[c] = asked[c], answered(c) = asked[c]
  PROVE  answered(c)' = asked'[c]
<1>1. CASE UNCHANGED <<lq, inbox, asked>>
  BY <1>1 DEF answered
<1>2. ASSUME NEW d \in Conn, NEW kind \in {"login", "text"}, NEW to \in User, Post(d, kind, to)
      PROVE  answered(c)' = asked'[c]
  BY <1>2 DEF Post, answered
<1>3. ASSUME NEW s \in Server, NEW kind \in {"ok", "refused"}, Returns(s, kind)
      PROVE  answered(c)' = asked'[c]
  <2>1. lq[s] # <<>>
    BY <1>3 DEF Returns, IInv, Handling
  <2>2. answered(req(s).conn) < asked[req(s).conn] /\ req(s).conn \in Conn
    BY <2>1, FrontIsNext DEF IInv
  <2>3. asked[c] \in Nat
    BY DEF IInv, TypeOK
  <2>4. req(s).conn # c
    BY <2>2, <2>3
  <2>5. answered(c)' = answered(c)
    BY <1>3, <2>4, ReturnsAnswers
  <2>6. QED
    BY <1>3, <2>5 DEF Returns
<1>4. ASSUME NEW s \in Server, SendLocal(s), Passes(target[s], req(s))
      PROVE  answered(c)' = asked'[c]
  <2>1. logic[s] # "idle"
    BY <1>4 DEF SendLocal, Goto
  <2>2. req(s) \in Request
    BY <2>1, FrontRequest DEF IInv
  <2>3. answered(c)' = answered(c)
    BY <1>4, <2>2, PassesAnswers
  <2>4. QED
    BY <1>4, <2>3 DEF Passes
<1>5. ASSUME NEW k \in calls, Passes(k.target, k.req)
      PROVE  answered(c)' = asked'[c]
  <2>1. k.req \in Request
    BY DEF IInv, TypeOK, Call
  <2>2. answered(c)' = answered(c)
    BY <1>5, <2>1, PassesAnswers
  <2>3. QED
    BY <1>5, <2>2 DEF Passes
<1>6. QED
  BY <1>1, <1>2, <1>3, <1>4, <1>5, Effects

(* No handler works for such a connection: it is not bound again, and its uid
   stays. *)
LEMMA StaysUnbound ==
  ASSUME IInv, AnswerInv, [Next]_vars, NEW c \in Conn, answered(c) = asked[c]
  PROVE  uid'[c] = uid[c] /\ (unbound(c) => unbound(c)')
<1> USE DEF IInv, TypeOK
<1>1. Home[c] \in Server /\ asked[c] \in Nat /\ None # c
  BY ChatAssumption
<1>2. ASSUME UNCHANGED <<uid, bind>>
      PROVE  uid'[c] = uid[c] /\ (unbound(c) => unbound(c)')
  BY <1>2 DEF unbound
<1>3. ASSUME NEW d \in Conn, ClearUnbind(d)
      PROVE  uid'[c] = uid[c] /\ (unbound(c) => unbound(c)')
  <2>1. Home[d] \in Server
    BY ChatAssumption
  <2>2. \A u \in User : bind'[Home[c]][u] = None \/ bind'[Home[c]][u] = bind[Home[c]][u]
    BY <1>1, <1>3, <2>1 DEF ClearUnbind
  <2>3. uid' = uid
    BY <1>3 DEF ClearUnbind
  <2>4. QED
    BY <1>1, <2>2, <2>3 DEF unbound
<1>4. ASSUME NEW s \in Server, logic[s] # "idle"
      PROVE  req(s).conn \in Conn \ {c} /\ req(s).to \in User
  <2>1. lq[s] # <<>>
    BY <1>4 DEF Handling
  <2>2. answered(req(s).conn) < asked[req(s).conn] /\ req(s).conn \in Conn /\ req(s) \in Request
    BY <2>1, FrontIsNext
  <2>3. QED
    BY <1>1, <2>2 DEF Request
<1>5. ASSUME NEW s \in Server, LoginSetUid(s)
      PROVE  uid'[c] = uid[c] /\ (unbound(c) => unbound(c)')
  BY <1>4, <1>5 DEF LoginSetUid, Goto, unbound
<1>6. ASSUME NEW s \in Server, LoginBind(s)
      PROVE  uid'[c] = uid[c] /\ (unbound(c) => unbound(c)')
  <2>1. req(s).conn \in Conn \ {c} /\ req(s).to \in User
    BY <1>4, <1>6 DEF LoginBind, Goto
  <2>2. bind' = [bind EXCEPT ![s][req(s).to] = req(s).conn] /\ uid' = uid
    BY <1>6 DEF LoginBind
  <2>3. \A u \in User : bind'[Home[c]][u] \in {req(s).conn, bind[Home[c]][u]}
    BY <1>1, <2>1, <2>2
  <2>4. QED
    BY <2>1, <2>2, <2>3 DEF unbound
<1>7. ASSUME NEW d \in Conn, Client(d) \/ Insert(d) \/ (Clear(d) /\ ~ClearUnbind(d))
      PROVE  UNCHANGED <<uid, bind>>
  BY <1>7 DEF Client, Accept, Receive, LateReceive, Post, ReadError, BadHeader, WriteError, Insert,
              Clear, LateAbort,
              ClearFind, ClearMiss, ClearErase
<1>8. ASSUME NEW s \in Server, Logic(s), ~LoginSetUid(s), ~LoginBind(s)
      PROVE  UNCHANGED <<uid, bind>>
  BY <1>8 DEF Logic, Take, Login, LoginRefuse, LoginSetUip, Reply,
              Text, RouteNowhere, RouteLocal, FindLocal, SendLocal, RouteRemote
<1>9. ASSUME NEW k \in calls, Rpc(k) \/ RpcError(k) \/ RpcLost(k)
      PROVE  UNCHANGED <<uid, bind>>
  BY <1>9 DEF Rpc, RpcGet, RpcSend, RpcReturn, RpcError, RpcLost
<1>10. CASE UNCHANGED vars
  BY <1>2, <1>10 DEF vars
<1>11. QED
  BY <1>2, <1>3, <1>5, <1>6, <1>7, <1>8, <1>9, <1>10 DEF Next, Clear

LEMMA InitQuiet == Init => QuietInv
BY DEF Init, QuietInv, InMap, QuietTrail

LEMMA StepInMap ==
  ASSUME IInv, QuietInv, [Next]_vars, NEW c \in Conn,
         acc'[c] = "done", io'[c] = "reading"
  PROVE  c \in sessions'[Home[c]]
<1> USE DEF IInv, TypeOK
<1>1. Home[c] \in Server
  BY ChatAssumption
<1>2. CASE ~OwnStep(c)
  BY <1>2, OthersStep DEF QuietInv, InMap
<1>3. CASE Insert(c)
  BY <1>1, <1>3 DEF Insert
<1>4. CASE Accept(c)
  BY <1>4 DEF Accept
<1>5. CASE ReadError(c) \/ BadHeader(c) \/ WriteError(c)
  <2>1. io'[c] = "find"
    BY <1>5 DEF ReadError, BadHeader, WriteError
  <2>2. QED
    BY <2>1
<1>6. CASE \/ ClearFind(c) \/ ClearMiss(c) \/ ClearUnbind(c) \/ ClearErase(c) \/ LateAbort(c)
           \/ \E kind \in {"login", "text"}, to \in User : LateReceive(c, kind, to)
  <2>1. io'[c] # "reading"
    BY <1>6 DEF ClearFind, ClearMiss, ClearUnbind, ClearErase, LateAbort, LateReceive
  <2>2. QED
    BY <2>1
<1>7. QED
  BY <1>2, <1>3, <1>4, <1>5, <1>6 DEF OwnStep

(* A connection that joins the quiet ones with this step. *)
LEMMA JoinsQuiet ==
  ASSUME IInv, AnswerInv, QuietInv, [Next]_vars, NEW c \in Conn, c \in quiet', c \notin quiet
  PROVE  /\ acc'[c] = "done" /\ io'[c] = "find" /\ answered(c)' = asked'[c]
         /\ c \in sessions'[Home[c]]
<1>1. OwnStep(c)
  BY OthersStep
<1>2. CASE ReadError(c) \/ BadHeader(c) \/ (WriteError(c) /\ io[c] = "reading")
  <2>1. Ends(c) /\ io[c] = "reading"
    BY <1>2 DEF ReadError, BadHeader, WriteError
  <2>2. acc[c] = "done" /\ answered(c) = asked[c]
    BY <2>1 DEF Ends
  <2>3. c \in sessions[Home[c]]
    BY <2>1, <2>2 DEF QuietInv, InMap
  <2>4. UNCHANGED <<acc, asked, sessions, inbox>> /\ io' = [io EXCEPT ![c] = "find"]
    BY <1>2 DEF ReadError, BadHeader, WriteError
  <2>5. QED
    BY <2>2, <2>3, <2>4 DEF answered, IInv, TypeOK
<1>3. CASE WriteError(c) /\ io[c] # "reading"
  BY <1>3 DEF WriteError
<1>4. CASE \/ Accept(c) \/ Insert(c) \/ ClearFind(c) \/ ClearMiss(c) \/ ClearUnbind(c)
           \/ ClearErase(c) \/ LateAbort(c)
           \/ \E kind \in {"login", "text"}, to \in User : LateReceive(c, kind, to)
  BY <1>4 DEF Accept, Insert, ClearFind, ClearMiss, ClearUnbind, ClearErase, LateAbort,
              LateReceive
<1>5. QED
  BY <1>1, <1>2, <1>3, <1>4 DEF OwnStep

(* A connection that stays with the quiet ones is cleared for good. *)
LEMMA StaysQuiet ==
  ASSUME IInv, AnswerInv, QuietInv, [Next]_vars, NEW c \in Conn, c \in quiet, c \in quiet'
  PROVE  /\ acc'[c] = "done" /\ io'[c] \in {"find", "unbind", "erase", "late", "ended"}
         /\ io'[c] = "find" => c \in sessions'[Home[c]] \/ unbound(c)'
         /\ io'[c] = "unbind" => iouid'[c] = uid'[c]
         /\ io'[c] = "erase" => unbound(c)'
         /\ io'[c] \in {"late", "ended"} => c \notin sessions'[Home[c]] /\ unbound(c)'
<1> USE DEF IInv, TypeOK
<1>1. /\ acc[c] = "done" /\ io[c] \in {"find", "unbind", "erase", "late", "ended"}
      /\ answered(c) = asked[c]
      /\ io[c] = "find" => c \in sessions[Home[c]] \/ unbound(c)
      /\ io[c] = "unbind" => iouid[c] = uid[c]
      /\ io[c] = "erase" => unbound(c)
      /\ io[c] \in {"late", "ended"} => c \notin sessions[Home[c]] /\ unbound(c)
  BY DEF QuietInv, QuietTrail
<1>2. uid'[c] = uid[c] /\ (unbound(c) => unbound(c)')
  BY <1>1, StaysUnbound
<1>3. Home[c] \in Server /\ None # c
  BY ChatAssumption
<1>4. CASE ~OwnStep(c)
  <2>1. /\ io'[c] = io[c] /\ acc'[c] = acc[c] /\ iouid'[c] = iouid[c]
        /\ c \in sessions'[Home[c]] <=> c \in sessions[Home[c]]
    BY <1>4, OthersStep
  <2>2. QED
    BY <1>1, <1>2, <2>1
<1>5. CASE Accept(c) \/ Insert(c) \/ ReadError(c) \/ BadHeader(c)
  BY <1>1, <1>5 DEF Accept, Insert, ReadError, BadHeader
<1>6. CASE WriteError(c)
  <2>1. acc' = acc /\ io' = [io EXCEPT ![c] = "find"] /\ io[c] = "ended"
    BY <1>1, <1>6 DEF WriteError
  <2>2. QED
    BY <1>1, <1>2, <2>1
<1>7. CASE ClearFind(c)
  <2>1. acc' = acc /\ io[c] = "find"
    BY <1>7 DEF ClearFind
  <2>2. CASE c \in sessions[Home[c]]
    <3>1. io' = [io EXCEPT ![c] = "unbind"] /\ iouid' = [iouid EXCEPT ![c] = uid[c]]
      BY <1>7, <2>2 DEF ClearFind
    <3>2. QED
      BY <1>1, <1>2, <2>1, <3>1
  <2>3. CASE c \notin sessions[Home[c]]
    <3>1. io' = [io EXCEPT ![c] = "erase"] /\ unbound(c)
      BY <1>1, <1>7, <2>1, <2>3 DEF ClearFind
    <3>2. QED
      BY <1>1, <1>2, <2>1, <3>1
  <2>4. QED
    BY <2>2, <2>3
<1>8. CASE ClearMiss(c)
  BY <1>8 DEF ClearMiss
<1>9. CASE ClearUnbind(c)
  <2>1. acc' = acc /\ io[c] = "unbind" /\ io' = [io EXCEPT ![c] = "erase"]
    BY <1>9 DEF ClearUnbind
  <2>2. \A u \in User : bind'[Home[c]][u] = IF u = iouid[c] THEN None ELSE bind[Home[c]][u]
    BY <1>3, <1>9 DEF ClearUnbind
  <2>3. iouid[c] = uid'[c]
    BY <1>1, <1>2, <2>1
  <2>4. unbound(c)'
    BY <1>3, <2>2, <2>3 DEF unbound
  <2>5. QED
    BY <1>1, <2>1, <2>4
<1>10. CASE ClearErase(c)
  <2>1. /\ acc' = acc /\ io[c] = "erase" /\ io'[c] \in {"late", "ended"}
        /\ sessions' = [sessions EXCEPT ![Home[c]] = @ \ {c}]
    BY <1>10 DEF ClearErase
  <2>2. c \notin sessions'[Home[c]]
    BY <1>3, <2>1
  <2>3. QED
    BY <1>1, <1>2, <2>1, <2>2
<1>11. CASE LateAbort(c)
  <2>1. acc' = acc /\ io[c] = "late" /\ io' = [io EXCEPT ![c] = "find"]
    BY <1>11 DEF LateAbort
  <2>2. QED
    BY <1>1, <1>2, <2>1
<1>12. CASE \E kind \in {"login", "text"}, to \in User : LateReceive(c, kind, to)
  BY <1>12 DEF LateReceive
<1>13. QED
  BY <1>4, <1>5, <1>6, <1>7, <1>8, <1>9, <1>10, <1>11, <1>12 DEF OwnStep

(* It asks nothing more. *)
LEMMA QuietAsksNothing ==
  ASSUME IInv, QuietInv, [Next]_vars, NEW c \in Conn, c \in quiet, c \in quiet'
  PROVE  asked'[c] = asked[c]
<1>1. CASE asked' = asked
  BY <1>1
<1>2. ASSUME NEW d \in Conn, NEW kind \in {"login", "text"}, NEW to \in User,
             Receive(d, kind, to) \/ LateReceive(d, kind, to)
      PROVE  asked'[c] = asked[c]
  <2>1. d # c
    BY <1>2 DEF Receive, LateReceive, QuietInv, QuietTrail
  <2>2. asked' = [asked EXCEPT ![d] = @ + 1]
    BY <1>2 DEF Receive, LateReceive, Post
  <2>3. QED
    BY <2>1, <2>2 DEF IInv, TypeOK
<1>3. ASSUME NEW d \in Conn, Client(d) \/ Insert(d) \/ Clear(d)
      PROVE  asked'[c] = asked[c]
  BY <1>1, <1>2, <1>3 DEF Client, Accept, ReadError, BadHeader, WriteError, Insert, Clear,
     ClearFind, ClearMiss, ClearUnbind, ClearErase, LateAbort
<1>4. ASSUME NEW s \in Server, Logic(s)
      PROVE  asked' = asked
  BY <1>4 DEF Logic, Take, Login, LoginRefuse, LoginSetUid, LoginSetUip, LoginBind, Reply,
              Text, RouteNowhere, RouteLocal, FindLocal, SendLocal, RouteRemote, connVars
<1>5. ASSUME NEW k \in calls, Rpc(k) \/ RpcError(k) \/ RpcLost(k)
      PROVE  asked' = asked
  BY <1>5 DEF Rpc, RpcGet, RpcSend, RpcReturn, RpcError, RpcLost, connVars
<1>6. QED
  BY <1>1, <1>3, <1>4, <1>5 DEF Next, vars

LEMMA StepQuiet == IInv /\ AnswerInv /\ QuietInv /\ [Next]_vars => QuietInv'
<1> SUFFICES ASSUME IInv, AnswerInv, QuietInv, [Next]_vars
             PROVE  QuietInv'
  OBVIOUS
<1>1. InMap'
  BY StepInMap DEF InMap
<1>2. quiet' \subseteq Conn
  BY StepInductive DEF IInv, TypeOK
<1>3. ASSUME NEW c \in Conn, c \in quiet', c \notin quiet
      PROVE  /\ acc'[c] = "done" /\ io'[c] = "find" /\ answered(c)' = asked'[c]
             /\ c \in sessions'[Home[c]]
  BY <1>3, JoinsQuiet
<1>4. ASSUME NEW c \in Conn, c \in quiet, c \in quiet'
      PROVE  /\ acc'[c] = "done" /\ io'[c] \in {"find", "unbind", "erase", "late", "ended"}
             /\ answered(c)' = asked'[c]
             /\ io'[c] = "find" => c \in sessions'[Home[c]] \/ unbound(c)'
             /\ io'[c] = "unbind" => iouid'[c] = uid'[c]
             /\ io'[c] = "erase" => unbound(c)'
             /\ io'[c] \in {"late", "ended"} => c \notin sessions'[Home[c]] /\ unbound(c)'
  <2>1. asked'[c] = asked[c] /\ answered(c) = asked[c]
    BY <1>4, QuietAsksNothing DEF QuietInv, QuietTrail
  <2>2. answered(c)' = asked'[c]
    BY <2>1, StaysAnswered
  <2>3. QED
    BY <1>4, <2>2, StaysQuiet
<1>5. QuietTrail'
  BY <1>2, <1>3, <1>4 DEF QuietTrail
<1>6. QED
  BY <1>1, <1>5 DEF QuietInv

(* A connection that had its answers before it ended, and that the lookup of
   ClearSession did not miss, is in no map under its last uid once it is cleared,
   however its clearing, a second clearing and the logins of others interleave
   (CServer.cpp:54-63, CSession.cpp:221-226, UserMgr.cpp:28-37); a user it logged in
   before may stay bound to it. *)
THEOREM QuietEndsUnbind == Spec => []QuietEndUnbinds
<1>1. QuietInv => QuietEndUnbinds
  BY DEF QuietInv, QuietTrail, QuietEndUnbinds
<1>2. QED
  BY <1>1, InitAnswers, StepAnswers, InitQuiet, StepQuiet, Inductive, PTL DEF Spec

-------------------------------------------------------------------------------
(* What the connections were sent grows by what is sent. *)
LEMMA SentGrows ==
  ASSUME TypeOK, NEW c, NEW r \in Request, NEW kind \in {"ok", "refused", "notify"},
         inbox' = Sent(c, kind, r)
  PROVE  \A d \in Conn :
           sentTo(d)' = sentTo(d) \cup (IF d = c THEN {[kind |-> kind, req |-> r]} ELSE {})
<1> DEFINE e == [kind |-> kind, req |-> r]
<1>1. /\ e \in Item
      /\ \A d \in Conn : inbox[d] \in Seq(Item)
      /\ \A d \in Conn : inbox'[d] = IF d = c THEN Append(inbox[d], e) ELSE inbox[d]
  BY SentEffect
<1> HIDE DEF e
<1>2. ASSUME NEW d \in Conn
      PROVE  sentTo(d)' = sentTo(d) \cup (IF d = c THEN {e} ELSE {})
  <2>1. CASE d # c
    BY <1>1, <2>1 DEF sentTo
  <2>2. CASE d = c
    <3>0. inbox'[d] = Append(inbox[d], e) /\ inbox[d] \in Seq(Item) /\ e \in Item
      BY <1>1, <2>2
    <3>1. /\ inbox'[d] = Append(inbox[d], e)
          /\ Len(Append(inbox[d], e)) = Len(inbox[d]) + 1 /\ Len(inbox[d]) \in Nat
          /\ Append(inbox[d], e)[Len(inbox[d]) + 1] = e
          /\ \A i \in 1..Len(inbox[d]) : Append(inbox[d], e)[i] = inbox[d][i]
      BY ONLY <3>0, Appended
    <3>2. sentTo(d)' = {Append(inbox[d], e)[i] : i \in 1..(Len(inbox[d]) + 1)}
      BY <3>1 DEF sentTo
    <3>3. ASSUME NEW x \in sentTo(d)'
          PROVE  x \in sentTo(d) \cup {e}
      <4>1. PICK i \in 1..(Len(inbox[d]) + 1) : x = Append(inbox[d], e)[i]
        BY <3>2, <3>3
      <4>2. i = Len(inbox[d]) + 1 \/ i \in 1..Len(inbox[d])
        BY <3>1, <4>1
      <4>3. QED
        BY <3>1, <4>1, <4>2 DEF sentTo
    <3>4. sentTo(d) \subseteq sentTo(d)'
      BY <3>1, <3>2 DEF sentTo
    <3>5. Len(inbox[d]) + 1 \in 1..(Len(inbox[d]) + 1)
      BY <3>1
    <3>6. e \in sentTo(d)'
      BY <3>1, <3>2, <3>5
    <3>7. QED
      BY <2>2, <3>3, <3>4, <3>6
  <2>3. QED
    BY <2>1, <2>2
<1>3. QED
  BY <1>2 DEF e

(* The items of a connection are items. *)
LEMMA SentItems ==
  ASSUME TypeOK, NEW c \in Conn, NEW i \in sentTo(c)
  PROVE  /\ i \in Item /\ i.req \in Request /\ i.req.conn \in Conn /\ i.req.n \in Nat
         /\ i.kind \in {"ok", "refused", "notify"}
<1>1. PICK j \in 1..Len(inbox[c]) : i = inbox[c][j]
  BY DEF sentTo
<1>2. inbox[c] \in Seq(Item)
  BY DEF TypeOK
<1>3. i \in Item
  BY <1>1, <1>2
<1>4. QED
  BY <1>3 DEF Item, Request

(* What was sent stays sent, and what is new was sent by this step. *)
LEMMA NewItems ==
  ASSUME IInv, [Next]_vars, NEW c \in Conn
  PROVE  /\ sentTo(c) \subseteq sentTo(c)'
         /\ \A i \in sentTo(c)' :
              \/ i \in sentTo(c)
              \/ \E s \in Server :
                   \/ LoginRefuse(s) /\ c = req(s).conn /\ i = [kind |-> "refused", req |-> req(s)]
                   \/ Reply(s) /\ c = req(s).conn /\ i = [kind |-> "ok", req |-> req(s)]
                   \/ SendLocal(s) /\ c = target[s] /\ i = [kind |-> "notify", req |-> req(s)]
              \/ \E k \in calls :
                   RpcSend(k) /\ c = k.target /\ i = [kind |-> "notify", req |-> k.req]
<1>1. CASE UNCHANGED inbox
  BY <1>1 DEF sentTo
<1>2. ASSUME NEW s \in Server, LoginRefuse(s) \/ Reply(s) \/ SendLocal(s)
      PROVE  logic[s] # "idle" /\ req(s) \in Request
  <2>1. logic[s] # "idle"
    BY <1>2 DEF LoginRefuse, Reply, SendLocal, Goto
  <2>2. QED
    BY <2>1, FrontRequest DEF IInv
<1>3. ASSUME NEW s \in Server, LoginRefuse(s)
      PROVE  sentTo(c)' = sentTo(c) \cup
               (IF c = req(s).conn THEN {[kind |-> "refused", req |-> req(s)]} ELSE {})
  BY <1>2, <1>3, SentGrows DEF LoginRefuse, IInv
<1>4. ASSUME NEW s \in Server, Reply(s)
      PROVE  sentTo(c)' = sentTo(c) \cup
               (IF c = req(s).conn THEN {[kind |-> "ok", req |-> req(s)]} ELSE {})
  BY <1>2, <1>4, SentGrows DEF Reply, IInv
<1>5. ASSUME NEW s \in Server, SendLocal(s)
      PROVE  sentTo(c)' = sentTo(c) \cup
               (IF c = target[s] THEN {[kind |-> "notify", req |-> req(s)]} ELSE {})
  BY <1>2, <1>5, SentGrows DEF SendLocal, IInv
<1>6. ASSUME NEW k \in calls, RpcSend(k)
      PROVE  sentTo(c)' = sentTo(c) \cup
               (IF c = k.target THEN {[kind |-> "notify", req |-> k.req]} ELSE {})
  <2>1. k.req \in Request
    BY DEF IInv, TypeOK, Call
  <2>2. QED
    BY <1>6, <2>1, SentGrows DEF RpcSend, IInv
<1>7. \/ UNCHANGED inbox
      \/ \E s \in Server : LoginRefuse(s) \/ Reply(s) \/ SendLocal(s)
      \/ \E k \in calls : RpcSend(k)
  BY Effects DEF Post
<1>8. CASE \E s \in Server : LoginRefuse(s) \/ Reply(s) \/ SendLocal(s)
  BY <1>3, <1>4, <1>5, <1>8
<1>9. CASE \E k \in calls : RpcSend(k)
  BY <1>6, <1>9
<1>10. QED
  BY <1>1, <1>7, <1>8, <1>9

(* Answers are never taken back. *)
LEMMA AnsweredGrows ==
  ASSUME IInv, AnswerInv, [Next]_vars, NEW c \in Conn
  PROVE  answered(c) \in Nat /\ answered(c)' \in Nat /\ answered(c) <= answered(c)'
<1>1. answered(c) \in Nat
  BY Places DEF answered, IInv, TypeOK
<1>2. answered(c)' = answered(c) \/ answered(c)' = answered(c) + 1
  <2>1. CASE UNCHANGED inbox
    BY <2>1 DEF answered
  <2>2. ASSUME NEW s \in Server, NEW kind \in {"ok", "refused"}, Returns(s, kind)
        PROVE  answered(c)' = answered(c) \/ answered(c)' = answered(c) + 1
    BY <2>2, ReturnsAnswers
  <2>3. ASSUME NEW s \in Server, SendLocal(s), Passes(target[s], req(s))
        PROVE  answered(c)' = answered(c)
    <3>1. logic[s] # "idle"
      BY <2>3 DEF SendLocal, Goto
    <3>2. req(s) \in Request
      BY <3>1, FrontRequest DEF IInv
    <3>3. QED
      BY <2>3, <3>2, PassesAnswers
  <2>4. ASSUME NEW k \in calls, Passes(k.target, k.req)
        PROVE  answered(c)' = answered(c)
    <3>1. k.req \in Request
      BY DEF IInv, TypeOK, Call
    <3>2. QED
      BY <2>4, <3>1, PassesAnswers
  <2>5. QED
    BY <2>1, <2>2, <2>3, <2>4, Effects DEF Post
<1>3. QED
  BY <1>1, <1>2

(* The front of a queue stays while its handler runs, until the handler answers
   and pops it. *)
LEMMA FrontStays ==
  ASSUME IInv, AnswerInv, [Next]_vars, NEW s \in Server, NEW r, logic[s] # "idle", r = req(s)
  PROVE  \/ lq'[s] # <<>> /\ req(s)' = r
         \/ /\ LoginRefuse(s) \/ Reply(s)
            /\ r.n <= answered(r.conn)'
<1> USE DEF IInv, TypeOK
<1>1. lq[s] # <<>> /\ r \in Request /\ r.conn \in Conn
  BY FrontRequest
<1>2. CASE UNCHANGED lq
  BY <1>1, <1>2 DEF req
<1>3. ASSUME NEW c \in Conn, NEW kind \in {"login", "text"}, NEW to \in User, Post(c, kind, to)
      PROVE  lq'[s] # <<>> /\ req(s)' = r
  <2>1. Home[c] # s /\ Home[c] \in Server
    BY <1>3, ChatAssumption DEF Post
  <2>2. lq'[s] = lq[s]
    BY <1>3, <2>1 DEF Post
  <2>3. QED
    BY <1>1, <2>2 DEF req
<1>4. ASSUME NEW t \in Server, t # s, NEW kind \in {"ok", "refused"}, Returns(t, kind)
      PROVE  lq'[s] # <<>> /\ req(s)' = r
  <2>1. lq'[s] = lq[s]
    BY <1>4 DEF Returns
  <2>2. QED
    BY <1>1, <2>1 DEF req
<1>5. ASSUME NEW kind \in {"ok", "refused"}, Returns(s, kind)
      PROVE  r.n <= answered(r.conn)'
  <2>1. r.n = answered(r.conn) + 1
    BY <1>1, FrontIsNext
  <2>2. answered(r.conn)' = answered(r.conn) + 1
    BY <1>1, <1>5, ReturnsAnswers
  <2>3. answered(r.conn) \in Nat
    BY <1>1, AnsweredGrows
  <2>4. QED
    BY <2>1, <2>2, <2>3
<1>6. QED
  BY <1>2, <1>3, <1>4, <1>5, Effects DEF Passes

(* A handler moves by its own thread, or by the return of the call it waits for. *)
LEMMA HandlerStep ==
  ASSUME IInv, [Next]_vars, NEW s \in Server
  PROVE  \/ logic'[s] = logic[s] /\ target'[s] = target[s]
         \/ Logic(s)
         \/ \E k \in calls : /\ k.from = s /\ awaited(k)
                             /\ RpcReturn(k) \/ RpcError(k) \/ RpcLost(k)
<1> USE DEF IInv, TypeOK
<1>1. ASSUME NEW c \in Conn, Client(c) \/ Insert(c) \/ Clear(c)
      PROVE  logic' = logic /\ target' = target
  BY <1>1 DEF Client, Accept, Receive, LateReceive, Post, ReadError, BadHeader, WriteError, Insert,
              Clear, LateAbort, ClearFind,
              ClearMiss, ClearUnbind, ClearErase, logicVars
<1>2. ASSUME NEW t \in Server, t # s, Logic(t)
      PROVE  logic'[s] = logic[s] /\ target'[s] = target[s]
  <2>1. \E p, q : Goto(t, p, q)
    BY <1>2 DEF Logic, Take, Login, LoginRefuse, LoginSetUid, LoginSetUip, LoginBind, Reply,
                Text, RouteNowhere, RouteLocal, FindLocal, SendLocal, RouteRemote
  <2>2. logic'[s] = logic[s]
    BY <1>2, <2>1 DEF Goto
  <2>3. target' = target \/ \E x : target' = [target EXCEPT ![t] = x]
    BY <1>2 DEF Logic, Take, Login, LoginRefuse, LoginSetUid, LoginSetUip, LoginBind, Reply,
                Text, RouteNowhere, RouteLocal, FindLocal, SendLocal, RouteRemote
  <2>4. QED
    BY <1>2, <2>2, <2>3
<1>3. ASSUME NEW k \in calls, RpcGet(k) \/ RpcSend(k)
      PROVE  logic' = logic /\ target' = target
  BY <1>3 DEF RpcGet, RpcSend, logicVars
<1>4. ASSUME NEW k \in calls, RpcReturn(k) \/ RpcError(k) \/ RpcLost(k), ~(k.from = s /\ awaited(k))
      PROVE  logic'[s] = logic[s] /\ target'[s] = target[s]
  BY <1>4 DEF RpcReturn, RpcError, RpcLost
<1>5. CASE UNCHANGED vars
  BY <1>5 DEF vars
<1>6. QED
  BY <1>1, <1>2, <1>3, <1>4, <1>5 DEF Next, Rpc

(* A handler that returns has answered the request at the front. *)
LEMMA FrontAnswered ==
  ASSUME IInv, AnswerInv, NEW s \in Server, NEW r, logic[s] # "idle", r = req(s),
         LoginRefuse(s) \/ Reply(s)
  PROVE  r.n <= answered(r.conn)'
<1>1. lq[s] # <<>> /\ r \in Request /\ r.conn \in Conn
  BY FrontRequest DEF IInv
<1>2. PICK kind \in {"ok", "refused"} : Returns(s, kind)
  BY DEF LoginRefuse, Reply, Goto, Returns, connVars
<1>3. r.n = answered(r.conn) + 1
  BY <1>1, FrontIsNext DEF IInv
<1>4. answered(r.conn)' = answered(r.conn) + 1
  BY <1>1, <1>2, ReturnsAnswers
<1>5. r.n \in Nat
  BY <1>1 DEF Request
<1>6. QED
  BY <1>3, <1>4, <1>5

(* What a step does to the calls under way. *)
LEMMA CallsStep ==
  ASSUME IInv, [Next]_vars
  PROVE  \/ calls' = calls
         \/ \E s \in Server : RouteRemote(s)
         \/ \E k \in calls : RpcGet(k)
         \/ \E k \in calls : RpcSend(k)
         \/ \E k \in calls : RpcReturn(k)
         \/ \E k \in calls : RpcLost(k)
<1>1. ASSUME NEW c \in Conn, Client(c) \/ Insert(c) \/ Clear(c)
      PROVE  calls' = calls
  BY <1>1 DEF Client, Accept, Receive, LateReceive, Post, ReadError, BadHeader, WriteError, Insert,
              Clear, LateAbort, ClearFind,
              ClearMiss, ClearUnbind, ClearErase
<1>2. ASSUME NEW s \in Server, Logic(s), ~RouteRemote(s)
      PROVE  calls' = calls
  BY <1>2 DEF Logic, Take, Login, LoginRefuse, LoginSetUid, LoginSetUip, LoginBind, Reply,
              Text, RouteNowhere, RouteLocal, FindLocal, SendLocal
<1>3. ASSUME NEW k \in calls, RpcError(k)
      PROVE  calls' = calls
  BY <1>3 DEF RpcError
<1>4. CASE UNCHANGED vars
  BY <1>4 DEF vars
<1>5. QED
  BY <1>1, <1>2, <1>3, <1>4 DEF Next, Rpc

(* A logic thread that waits for a call that does not fail waits until it returns. *)
LEMMA CallStays ==
  ASSUME IInv, AnswerInv, [Next]_vars, NEW s \in Server, s \notin RpcFails, NEW r,
         logic[s] = "call", r = req(s)
  PROVE  \/ logic'[s] = "call" /\ lq'[s] # <<>> /\ req(s)' = r
         \/ /\ \E k \in calls : k.from = s /\ RpcReturn(k)
            /\ logic'[s] = "reply" /\ lq'[s] # <<>> /\ req(s)' = r
<1>1. ~Logic(s)
  BY DEF Logic, Take, Login, LoginRefuse, LoginSetUid, LoginSetUip, LoginBind, Reply,
         Text, RouteNowhere, RouteLocal, FindLocal, SendLocal, RouteRemote, Goto
<1>2. lq'[s] # <<>> /\ req(s)' = r
  BY <1>1, FrontStays DEF Logic, Login
<1>3. ASSUME NEW k \in calls, k.from = s, awaited(k), RpcReturn(k) \/ RpcError(k) \/ RpcLost(k)
      PROVE  RpcReturn(k) /\ logic'[s] = "reply"
  BY <1>3 DEF RpcReturn, RpcError, RpcLost, IInv, TypeOK
<1>4. QED
  BY <1>1, <1>2, <1>3, HandlerStep

(* A call under way comes from the server its sender is connected to, and is the one
   that server waits for, if its calls do not fail. *)
LEMMA CallMeans ==
  ASSUME IInv, CallsAwaited, NEW k \in calls
  PROVE  /\ k \in Call /\ k.from \in Server /\ k.req \in Request /\ k.from = Home[k.req.conn]
         /\ k.from \notin RpcFails =>
              /\ awaited(k) /\ logic[k.from] = "call" /\ req(k.from) = k.req
              /\ \A l \in calls : l.from = k.from => l = k
BY DEF CallsAwaited, awaited, Call, IInv, TypeOK

LEMMA StepCalls ==
  ASSUME IInv, AnswerInv, CallsAwaited, [Next]_vars
  PROVE  CallsAwaited'
<1> DEFINE Sure(k) == /\ logic'[k.from] = "call" /\ req(k.from)' = k.req
                      /\ \A l \in calls' : l.from = k.from => l = k
<1>0. SUFFICES ASSUME NEW k \in calls'
               PROVE  /\ k.from = Home[k.req.conn]
                      /\ k.from \notin RpcFails => Sure(k)
  BY <1>0 DEF CallsAwaited, awaited
<1>1. ASSUME NEW l \in calls, l.from \notin RpcFails,
             ~\E m \in calls : m.from = l.from /\ RpcReturn(m)
      PROVE  logic'[l.from] = "call" /\ req(l.from)' = l.req
  <2>1. PICK s \in Server, r \in Request : s = l.from /\ r = l.req
    BY CallMeans
  <2>2. logic[s] = "call" /\ req(s) = r /\ s \notin RpcFails
    BY <1>1, <2>1, CallMeans
  <2>3. logic'[s] = "call" /\ req(s)' = r
    BY <1>1, <2>1, <2>2, CallStays
  <2>4. QED
    BY <2>1, <2>3
<1>2. CASE calls' = calls
  <2>1. ASSUME NEW l \in calls, RpcReturn(l)
        PROVE  FALSE
    BY <1>2, <2>1 DEF RpcReturn
  <2>2. QED
    BY <1>1, <1>2, <2>1, CallMeans
<1>3. ASSUME NEW s \in Server, RouteRemote(s)
      PROVE  k.from = Home[k.req.conn] /\ (k.from \notin RpcFails => Sure(k))
  <2>1. PICK n : /\ n = [req |-> req(s), from |-> s, dest |-> uip[req(s).to],
                         pc |-> "get", target |-> None]
                 /\ calls' = calls \cup {n}
    BY <1>3 DEF RouteRemote
  <2>2. logic[s] = "text" /\ logic'[s] = "call" /\ lq' = lq
    BY <1>3 DEF RouteRemote, Goto, IInv, TypeOK
  <2>3. ASSUME NEW l \in calls, l.from \notin RpcFails
        PROVE  l.from # s /\ logic'[l.from] = "call" /\ req(l.from)' = l.req
    <3>1. l.from # s
      BY <2>2, <2>3, CallMeans
    <3>2. logic'[l.from] = logic[l.from]
      BY <1>3, <3>1, CallMeans DEF RouteRemote, Goto, IInv, TypeOK
    <3>3. req(l.from)' = req(l.from)
      BY <2>2 DEF req
    <3>4. QED
      BY <2>3, <3>1, <3>2, <3>3, CallMeans
  <2>4. n.from = s /\ req(s)' = n.req /\ n.from = Home[n.req.conn]
    <3>1. Home[req(s).conn] = s
      BY <2>2, FrontRequest DEF IInv
    <3>2. QED
      BY <2>1, <2>2, <3>1 DEF req
  <2>5. CASE k = n
    BY <2>1, <2>2, <2>3, <2>4, <2>5
  <2>6. CASE k \in calls
    BY <2>1, <2>3, <2>4, <2>6, CallMeans
  <2>7. QED
    BY <2>1, <2>5, <2>6
<1>4. ASSUME NEW o \in calls, RpcGet(o) \/ RpcSend(o)
      PROVE  k.from = Home[k.req.conn] /\ (k.from \notin RpcFails => Sure(k))
  <2>1. \E n : n.from = o.from /\ n.req = o.req /\ calls' = (calls \ {o}) \cup {n}
    <3>1. CASE RpcGet(o)
      <4>1. PICK c : c = bind[o.dest][o.req.to]
        OBVIOUS
      <4>2. PICK n : n = [o EXCEPT !.pc = IF c = None THEN "return" ELSE "send", !.target = c]
        OBVIOUS
      <4>3. n.from = o.from /\ n.req = o.req
        BY <4>2, CallMeans DEF Call
      <4>4. calls' = (calls \ {o}) \cup {n}
        BY <3>1, <4>1, <4>2 DEF RpcGet
      <4>5. QED
        BY <4>3, <4>4
    <3>2. CASE RpcSend(o)
      <4>1. PICK n : n = [o EXCEPT !.pc = "return"]
        OBVIOUS
      <4>2. n.from = o.from /\ n.req = o.req
        BY <4>1, CallMeans DEF Call
      <4>3. calls' = (calls \ {o}) \cup {n}
        BY <3>2, <4>1 DEF RpcSend
      <4>4. QED
        BY <4>2, <4>3
    <3>3. QED
      BY <1>4, <3>1, <3>2
  <2>2. PICK n : n.from = o.from /\ n.req = o.req /\ calls' = (calls \ {o}) \cup {n}
    BY <2>1
  <2>3. UNCHANGED <<logic, lq>>
    BY <1>4 DEF RpcGet, RpcSend, logicVars
  <2>4. ASSUME NEW l \in calls, l.from \notin RpcFails
        PROVE  /\ logic'[l.from] = "call" /\ req(l.from)' = l.req
               /\ \A m \in calls : m.from = l.from => m = l
    <3>1. logic[l.from] = "call" /\ req(l.from) = l.req
      BY <2>4, CallMeans
    <3>2. req(l.from)' = req(l.from)
      BY <2>3 DEF req
    <3>3. QED
      BY <2>3, <2>4, <3>1, <3>2, CallMeans
  <2>5. CASE k = n
    BY <2>2, <2>4, <2>5, CallMeans
  <2>6. CASE k \in calls \ {o}
    BY <2>2, <2>4, <2>6, CallMeans
  <2>7. QED
    BY <2>2, <2>5, <2>6
<1>5. ASSUME NEW o \in calls, RpcReturn(o) \/ RpcLost(o)
      PROVE  k.from = Home[k.req.conn] /\ (k.from \notin RpcFails => Sure(k))
  <2>1. /\ calls' = calls \ {o} /\ lq' = lq
        /\ logic' = logic \/ logic' = [logic EXCEPT ![o.from] = "reply"]
    BY <1>5 DEF RpcReturn, RpcLost
  <2>2. k \in calls /\ k # o
    BY <2>1
  <2>3. ASSUME k.from \notin RpcFails
        PROVE  Sure(k)
    <3>1. k.from # o.from
      BY <2>2, <2>3, CallMeans
    <3>2. logic'[k.from] = logic[k.from]
      BY <2>1, <2>2, <3>1, CallMeans DEF IInv, TypeOK
    <3>3. req(k.from)' = req(k.from)
      BY <2>1 DEF req
    <3>4. QED
      BY <2>1, <2>2, <2>3, <3>2, <3>3, CallMeans
  <2>4. QED
    BY <2>2, <2>3, CallMeans
<1>6. QED
  BY <1>2, <1>3, <1>4, <1>5, CallsStep

(* A text that is sent is the front of its sender's queue, is not answered yet,
   and was not sent before. *)
LEMMA SendsFresh ==
  ASSUME IInv, AnswerInv, CallsAwaited, NEW r, Home[r.conn] \notin RpcFails,
         \/ \E s \in Server : SendLocal(s) /\ r = req(s)
         \/ \E k \in calls : RpcSend(k) /\ r = k.req
  PROVE  /\ r \in Request /\ r.conn \in Conn /\ r.n \in Nat
         /\ Home[r.conn] \in Server /\ req(Home[r.conn]) = r
         /\ r.n = answered(r.conn) + 1
         /\ ~passedOn(r)
<1>1. ASSUME NEW s \in Server, logic[s] # "idle", r = req(s)
      PROVE  /\ r \in Request /\ r.conn \in Conn /\ r.n \in Nat /\ Home[r.conn] = s
             /\ r.n = answered(r.conn) + 1
  <2>1. lq[s] # <<>>
    BY <1>1, FrontRequest DEF IInv
  <2>2. QED
    BY <1>1, <2>1, FrontIsNext DEF IInv
<1>2. ASSUME NEW s \in Server, SendLocal(s), r = req(s)
      PROVE  logic[s] = "send"
  BY <1>2 DEF SendLocal, Goto
<1>3. ASSUME NEW k \in calls, RpcSend(k), r = k.req
      PROVE  /\ k.from \in Server /\ logic[k.from] = "call" /\ r = req(k.from)
             /\ \A l \in calls : l.from = k.from => l.pc # "return"
  BY <1>3, CallMeans DEF RpcSend
<1>4. CASE \E s \in Server : SendLocal(s) /\ r = req(s)
  <2>1. PICK s \in Server : logic[s] = "send" /\ r = req(s)
    BY <1>2, <1>4
  <2>2. /\ r \in Request /\ r.conn \in Conn /\ r.n \in Nat /\ Home[r.conn] = s
        /\ r.n = answered(r.conn) + 1
    BY <1>1, <2>1
  <2>3. QED
    BY <2>1, <2>2 DEF passedOn
<1>5. CASE \E k \in calls : RpcSend(k) /\ r = k.req
  <2>1. PICK s \in Server : /\ logic[s] = "call" /\ r = req(s)
                            /\ \A l \in calls : l.from = s => l.pc # "return"
    BY <1>3, <1>5
  <2>2. /\ r \in Request /\ r.conn \in Conn /\ r.n \in Nat /\ Home[r.conn] = s
        /\ r.n = answered(r.conn) + 1
    BY <1>1, <2>1
  <2>3. QED
    BY <2>1, <2>2 DEF passedOn
<1>6. QED
  BY <1>4, <1>5

(* What was passed on stays so, until it is answered. *)
LEMMA StaysPassedOn ==
  ASSUME IInv, AnswerInv, CallsAwaited, [Next]_vars, NEW r \in Request, passedOn(r),
         Home[r.conn] \notin RpcFails
  PROVE  r.n <= answered(r.conn)' \/ passedOn(r)'
<1>1. PICK s \in Server : s = Home[r.conn]
  BY ChatAssumption DEF Request
<1>2. /\ lq[s] # <<>> /\ req(s) = r
      /\ \/ logic[s] = "reply"
         \/ logic[s] = "call" /\ \E k \in calls : k.from = s /\ k.pc = "return"
  BY <1>1 DEF passedOn
<1>3. CASE LoginRefuse(s) \/ Reply(s)
  BY <1>2, <1>3, FrontAnswered
<1>4. CASE ~LoginRefuse(s) /\ ~Reply(s) /\ logic[s] = "reply"
  <2>1. lq'[s] # <<>> /\ req(s)' = r
    BY <1>2, <1>4, FrontStays
  <2>2. ~Logic(s)
    BY <1>4 DEF Logic, Take, Login, LoginSetUid, LoginSetUip, LoginBind,
                Text, RouteNowhere, RouteLocal, FindLocal, SendLocal, RouteRemote, Goto
  <2>3. ASSUME NEW k \in calls, k.from = s
        PROVE  ~awaited(k)
    BY <1>4, <2>3 DEF awaited
  <2>4. logic'[s] = "reply"
    BY <1>4, <2>2, <2>3, HandlerStep
  <2>5. QED
    BY <1>1, <2>1, <2>4 DEF passedOn
<1>5. CASE logic[s] = "call"
  <2>1. PICK k \in calls : k.from = s /\ k.pc = "return"
    BY <1>2, <1>5
  <2>2. CASE \E l \in calls : l.from = s /\ RpcReturn(l) /\ logic'[s] = "reply"
    <3>1. logic'[s] = "reply" /\ lq'[s] # <<>> /\ req(s)' = r
      BY <1>1, <1>2, <1>5, <2>2, CallStays
    <3>2. QED
      BY <1>1, <3>1 DEF passedOn
  <2>3. CASE ~\E l \in calls : l.from = s /\ RpcReturn(l) /\ logic'[s] = "reply"
    <3>1. logic'[s] = "call" /\ lq'[s] # <<>> /\ req(s)' = r
      BY <1>1, <1>2, <1>5, <2>3, CallStays
    <3>2. k \in calls'
      <4>1. ASSUME NEW l \in calls, RpcGet(l) \/ RpcSend(l)
            PROVE  k \in calls'
        BY <2>1, <4>1 DEF RpcGet, RpcSend
      <4>2. ASSUME NEW l \in calls, RpcReturn(l)
            PROVE  k \in calls'
        <5>1. CASE l = k
          <6>1. awaited(k)
            BY <1>1, <2>1, CallMeans
          <6>2. logic'[s] = "reply"
            BY <2>1, <4>2, <5>1, <6>1 DEF RpcReturn, IInv, TypeOK
          <6>3. QED
            BY <3>1, <6>2
        <5>2. CASE l # k
          BY <4>2, <5>2 DEF RpcReturn
        <5>3. QED
          BY <5>1, <5>2
      <4>3. ASSUME NEW t \in Server, RouteRemote(t)
            PROVE  k \in calls'
        BY <4>3 DEF RouteRemote
      <4>4. ASSUME NEW l \in calls, RpcLost(l)
            PROVE  k \in calls'
        BY <1>1, <2>1, <4>4 DEF RpcLost
      <4>5. QED
        BY <4>1, <4>2, <4>3, <4>4, CallsStep
    <3>3. QED
      BY <1>1, <2>1, <3>1, <3>2 DEF passedOn
  <2>4. QED
    BY <2>2, <2>3
<1>6. QED
  BY <1>2, <1>3, <1>4, <1>5

(* What has just been sent is passed on. *)
LEMMA SendsPassOn ==
  ASSUME IInv, AnswerInv, CallsAwaited, NEW r, Home[r.conn] \notin RpcFails,
         \/ \E s \in Server : SendLocal(s) /\ r = req(s)
         \/ \E k \in calls : RpcSend(k) /\ r = k.req
  PROVE  passedOn(r)'
<1>1. PICK s \in Server : s = Home[r.conn]
  BY SendsFresh
<1>2. r = req(s)
  BY <1>1, SendsFresh
<1>3. ASSUME NEW t \in Server, SendLocal(t), r = req(t)
      PROVE  t = s
  <2>1. logic[t] # "idle"
    BY <1>3 DEF SendLocal, Goto
  <2>2. QED
    BY <1>1, <1>3, <2>1, FrontRequest DEF IInv
<1>4. ASSUME NEW k \in calls, RpcSend(k), r = k.req
      PROVE  k.from = s /\ logic[s] = "call"
  <2>1. k.from \in Server /\ logic[k.from] = "call" /\ req(k.from) = r
    BY <1>4, CallMeans
  <2>2. QED
    BY <1>1, <2>1, FrontRequest DEF IInv
<1>5. CASE \E t \in Server : SendLocal(t) /\ r = req(t)
  <2>1. SendLocal(s)
    BY <1>3, <1>5
  <2>2. logic[s] = "send" /\ logic'[s] = "reply" /\ lq' = lq
    BY <2>1 DEF SendLocal, Goto, IInv, TypeOK
  <2>3. lq[s] # <<>>
    BY <2>2, FrontRequest DEF IInv
  <2>4. QED
    BY <1>1, <1>2, <2>2, <2>3 DEF passedOn, req
<1>6. CASE \E k \in calls : RpcSend(k) /\ r = k.req
  <2>1. PICK k \in calls : RpcSend(k) /\ r = k.req
    BY <1>6
  <2>2. k.from = s /\ logic[s] = "call" /\ logic' = logic /\ lq' = lq
    BY <1>4, <2>1 DEF RpcSend, logicVars
  <2>3. lq[s] # <<>>
    BY <2>2, FrontRequest DEF IInv
  <2>4. PICK n : n = [k EXCEPT !.pc = "return"]
    OBVIOUS
  <2>5. n.from = s /\ n.pc = "return" /\ n \in calls'
    BY <2>1, <2>2, <2>4 DEF RpcSend, IInv, TypeOK, Call
  <2>6. QED
    BY <1>1, <1>2, <2>2, <2>3, <2>5 DEF passedOn, req
<1>7. QED
  BY <1>5, <1>6

LEMMA StepTexts ==
  ASSUME IInv, AnswerInv, CallsAwaited, TextsPassedOn, [Next]_vars
  PROVE  TextsPassedOn'
<1>1. ASSUME NEW c \in Conn, NEW i \in sentTo(c)', i.kind = "notify",
             Home[i.req.conn] \notin RpcFails
      PROVE  i.req.n <= answered(i.req.conn)' \/ passedOn(i.req)'
  <2>1. CASE i \in sentTo(c)
    <3>1. PICK r \in Request : r = i.req
      BY <2>1, SentItems DEF IInv
    <3>2. r.conn \in Conn /\ r.n \in Nat /\ Home[r.conn] \notin RpcFails
      BY <1>1, <3>1 DEF Request
    <3>3. r.n <= answered(r.conn) \/ passedOn(r)
      BY <1>1, <2>1, <3>1 DEF TextsPassedOn
    <3>4. r.n <= answered(r.conn)' \/ passedOn(r)'
      <4>1. CASE r.n <= answered(r.conn)
        BY <3>2, <4>1, AnsweredGrows
      <4>2. CASE passedOn(r)
        BY <3>2, <4>2, StaysPassedOn
      <4>3. QED
        BY <3>3, <4>1, <4>2
    <3>5. QED
      BY <3>1, <3>4
  <2>2. CASE i \notin sentTo(c)
    <3>1. PICK r : r = i.req
      OBVIOUS
    <3>2. \/ \E s \in Server : SendLocal(s) /\ r = req(s)
          \/ \E k \in calls : RpcSend(k) /\ r = k.req
      BY <1>1, <2>2, <3>1, NewItems
    <3>3. passedOn(r)'
      BY <1>1, <3>1, <3>2, SendsPassOn
    <3>4. QED
      BY <3>1, <3>3
  <2>3. QED
    BY <2>1, <2>2
<1>2. QED
  BY <1>1 DEF TextsPassedOn

(* What a connection was sent stays as it is, or one item is appended: a text
   only by the handler, or the call, that carries it. *)
LEMMA InboxStep ==
  ASSUME IInv, [Next]_vars, NEW c \in Conn
  PROVE  \/ inbox'[c] = inbox[c]
         \/ \E e \in Item :
              /\ inbox'[c] = Append(inbox[c], e)
              /\ e.kind = "notify" =>
                   \/ \E s \in Server : SendLocal(s) /\ e.req = req(s)
                   \/ \E k \in calls : RpcSend(k) /\ e.req = k.req
<1>1. ASSUME NEW d, NEW r \in Request, NEW kind \in {"ok", "refused", "notify"},
             inbox' = Sent(d, kind, r)
      PROVE  \/ inbox'[c] = inbox[c]
             \/ \E e \in Item : /\ inbox'[c] = Append(inbox[c], e)
                                /\ e.kind = kind /\ e.req = r
  <2>1. PICK e \in Item :
          /\ e = [kind |-> kind, req |-> r]
          /\ inbox'[c] = IF c = d THEN Append(inbox[c], e) ELSE inbox[c]
    BY <1>1, SentEffect DEF IInv
  <2>2. e.kind = kind /\ e.req = r
    BY <2>1
  <2>3. QED
    BY <2>1, <2>2
<1>2. ASSUME NEW s \in Server, LoginRefuse(s) \/ Reply(s) \/ SendLocal(s)
      PROVE  req(s) \in Request
  BY <1>2, FrontRequest DEF LoginRefuse, Reply, SendLocal, Goto, IInv
<1>3. ASSUME NEW s \in Server, LoginRefuse(s)
      PROVE  \/ inbox'[c] = inbox[c]
             \/ \E e \in Item : inbox'[c] = Append(inbox[c], e) /\ e.kind # "notify"
  BY <1>1, <1>2, <1>3 DEF LoginRefuse
<1>4. ASSUME NEW s \in Server, Reply(s)
      PROVE  \/ inbox'[c] = inbox[c]
             \/ \E e \in Item : inbox'[c] = Append(inbox[c], e) /\ e.kind # "notify"
  BY <1>1, <1>2, <1>4 DEF Reply
<1>5. ASSUME NEW s \in Server, SendLocal(s)
      PROVE  \/ inbox'[c] = inbox[c]
             \/ \E e \in Item : inbox'[c] = Append(inbox[c], e) /\ e.req = req(s)
  <2>1. inbox' = Sent(target[s], "notify", req(s)) /\ req(s) \in Request
    BY <1>2, <1>5 DEF SendLocal
  <2>2. QED
    BY <1>1, <2>1
<1>6. ASSUME NEW k \in calls, RpcSend(k)
      PROVE  \/ inbox'[c] = inbox[c]
             \/ \E e \in Item : inbox'[c] = Append(inbox[c], e) /\ e.req = k.req
  <2>1. k.req \in Request
    BY DEF IInv, TypeOK, Call
  <2>2. QED
    BY <1>1, <1>6, <2>1 DEF RpcSend
<1>7. \/ UNCHANGED inbox
      \/ \E s \in Server : LoginRefuse(s) \/ Reply(s) \/ SendLocal(s)
      \/ \E k \in calls : RpcSend(k)
  BY Effects DEF Post
<1>8. QED
  BY <1>3, <1>4, <1>5, <1>6, <1>7

LEMMA StepOrder ==
  ASSUME IInv, AnswerInv, OrderInv, [Next]_vars
  PROVE  OrderInv'
<1>1. CallsAwaited'
  BY StepCalls DEF OrderInv
<1>2. TextsPassedOn'
  BY StepTexts DEF OrderInv
<1>3. ASSUME NEW c \in Conn, NEW i \in 1..Len(inbox'[c]), NEW j \in 1..Len(inbox'[c]), i < j,
             inbox'[c][i].kind = "notify", inbox'[c][j].kind = "notify",
             inbox'[c][i].req.conn = inbox'[c][j].req.conn,
             Home[inbox'[c][i].req.conn] \notin RpcFails
      PROVE  inbox'[c][i].req.n < inbox'[c][j].req.n
  <2>1. CASE inbox'[c] = inbox[c]
    BY <1>3, <2>1 DEF OrderInv, SenderOrder
  <2>2. ASSUME NEW e \in Item, inbox'[c] = Append(inbox[c], e),
               e.kind = "notify" =>
                   \/ \E s \in Server : SendLocal(s) /\ e.req = req(s)
                   \/ \E k \in calls : RpcSend(k) /\ e.req = k.req
        PROVE  inbox'[c][i].req.n < inbox'[c][j].req.n
    <3>1. inbox[c] \in Seq(Item)
      BY DEF IInv, TypeOK
    <3>2. /\ Len(inbox'[c]) = Len(inbox[c]) + 1 /\ Len(inbox[c]) \in Nat
          /\ inbox'[c][Len(inbox[c]) + 1] = e
          /\ \A k \in 1..Len(inbox[c]) : inbox'[c][k] = inbox[c][k]
      BY <2>2, <3>1, Appended
    <3>3. i \in 1..Len(inbox[c]) /\ inbox'[c][i] = inbox[c][i]
      BY <1>3, <3>2
    <3>4. CASE j \in 1..Len(inbox[c])
      BY <1>3, <3>2, <3>3, <3>4 DEF OrderInv, SenderOrder
    <3>5. CASE j = Len(inbox[c]) + 1
      <4>1. PICK r : r = e.req
        OBVIOUS
      <4>2. inbox'[c][j] = e /\ e.kind = "notify"
        BY <1>3, <3>2, <3>5
      <4>3. \/ \E s \in Server : SendLocal(s) /\ r = req(s)
            \/ \E k \in calls : RpcSend(k) /\ r = k.req
        BY <2>2, <4>1, <4>2
      <4>4. /\ r \in Request /\ r.conn \in Conn /\ r.n \in Nat
            /\ req(Home[r.conn]) = r
            /\ r.n = answered(r.conn) + 1
            /\ ~passedOn(r)
        BY <1>3, <4>1, <4>2, <4>3, SendsFresh DEF OrderInv
      <4>5. PICK a \in sentTo(c) : a = inbox[c][i]
        BY <3>3 DEF sentTo
      <4>6. a.kind = "notify" /\ a.req.conn = r.conn /\ Home[r.conn] \notin RpcFails
        BY <1>3, <3>3, <4>1, <4>2, <4>5
      <4>7. a.req.n <= answered(r.conn) \/ passedOn(a.req)
        BY <4>5, <4>6 DEF OrderInv, TextsPassedOn
      <4>8. ~passedOn(a.req)
        BY <4>4, <4>6 DEF passedOn
      <4>9. a.req.n \in Nat /\ answered(r.conn) \in Nat
        BY <4>4, <4>5, SentItems, AnsweredGrows DEF IInv
      <4>10. a.req.n < r.n
        BY <4>4, <4>7, <4>8, <4>9
      <4>11. QED
        BY <3>3, <4>1, <4>2, <4>5, <4>10
    <3>6. QED
      BY <3>2, <3>4, <3>5
  <2>3. QED
    BY <2>1, <2>2, InboxStep
<1>4. SenderOrder'
  BY <1>3 DEF SenderOrder
<1>5. QED
  BY <1>1, <1>2, <1>4 DEF OrderInv

LEMMA InitOrder == Init => OrderInv
BY DEF Init, OrderInv, CallsAwaited, TextsPassedOn, SenderOrder, sentTo

(* The texts of one sender reach a connection in the order they were sent and each
   at most once, whichever way each of them is routed, unless calls of the sender's
   server fail: the logic thread that carries a text answers, and goes on to the next,
   only when the gRPC thread of the peer has sent it (LogicSystem.cpp:443-526,
   ChatGrpcClient.cpp:98-135). *)
THEOREM TextsInOrder == Spec => []SenderOrder
<1>1. IInv /\ AnswerInv /\ OrderInv /\ [Next]_vars => OrderInv'
  BY StepOrder
<1>2. OrderInv => SenderOrder
  BY DEF OrderInv
<1>3. QED
  BY <1>1, <1>2, InitAnswers, StepAnswers, InitOrder, Inductive, PTL DEF Spec

-------------------------------------------------------------------------------
(* A user who has logged in on a connection has done so for good. *)
LEMMA SignedStays ==
  ASSUME IInv, AnswerInv, [Next]_vars, NEW c \in Conn, NEW u, signedIn(c, u)
  PROVE  signedIn(c, u)'
<1>1. PICK s \in Server : s = Home[c]
  BY ChatAssumption
<1>2. CASE loggedIn(c, u)
  <2>1. sentTo(c) \subseteq sentTo(c)'
    BY NewItems
  <2>2. QED
    BY <1>2, <2>1 DEF signedIn, loggedIn
<1>3. CASE logic[s] = "reply" /\ loggingIn(c, u)
  <2>1. /\ lq[s] # <<>> /\ req(s).conn = c /\ req(s).kind = "login" /\ req(s).to = u
        /\ req(s) \in Request
    BY <1>1, <1>3, FrontRequest DEF loggingIn, IInv
  <2>2. CASE Reply(s)
    <3>1. PICK i : i = [kind |-> "ok", req |-> req(s)]
      OBVIOUS
    <3>2. i \in sentTo(c)'
      BY <2>1, <2>2, <3>1, SentGrows DEF Reply, IInv
    <3>3. i.kind = "ok" /\ i.req.kind = "login" /\ i.req.to = u
      BY <2>1, <3>1
    <3>4. QED
      BY <3>2, <3>3 DEF signedIn, loggedIn
  <2>3. CASE ~Reply(s)
    <3>1. ~Logic(s) /\ ~LoginRefuse(s)
      BY <1>3, <2>3 DEF Logic, Take, Login, LoginRefuse, LoginSetUid, LoginSetUip, LoginBind,
         Text, RouteNowhere, RouteLocal, FindLocal, SendLocal, RouteRemote, Goto
    <3>2. PICK x : x = req(s)
      OBVIOUS
    <3>3. lq'[s] # <<>> /\ req(s)' = x
      BY <1>3, <2>3, <3>1, <3>2, FrontStays
    <3>4. ASSUME NEW k \in calls, k.from = s
          PROVE  ~awaited(k)
      BY <1>3, <3>4 DEF awaited
    <3>5. logic'[s] = "reply"
      BY <1>3, <3>1, <3>4, HandlerStep
    <3>6. QED
      BY <1>1, <2>1, <3>2, <3>3, <3>5 DEF signedIn, loggingIn
  <2>4. QED
    BY <2>2, <2>3
<1>4. QED
  BY <1>1, <1>2, <1>3 DEF signedIn

(* What UserMgr gives for a user is a session the user has logged in on. *)
LEMMA BindingMeans ==
  ASSUME IInv, SignedInv, NEW s \in Server, NEW u \in User, bind[s][u] # None
  PROVE  /\ bind[s][u] \in Conn /\ Home[bind[s][u]] = s
         /\ signedIn(bind[s][u], u)
BY DEF IInv, TypeOK, SignedInv, BindingsSignedIn

LEMMA StepBindings ==
  ASSUME IInv, AnswerInv, SignedInv, [Next]_vars, NEW s \in Server, NEW u \in User,
         NEW c, c # None, bind'[s][u] = c
  PROVE  c \in Conn /\ Home[c] = s /\ signedIn(c, u)'
<1> USE DEF IInv, TypeOK
<1>1. CASE bind[s][u] = c
  <2>1. c \in Conn /\ Home[c] = s /\ signedIn(c, u)
    BY <1>1, BindingMeans
  <2>2. QED
    BY <2>1, SignedStays
<1>2. ASSUME NEW t \in Server, LoginBind(t), bind'[s][u] # bind[s][u]
      PROVE  c \in Conn /\ Home[c] = s /\ signedIn(c, u)'
  <2>1. /\ logic[t] = "bind" /\ logic'[t] = "reply" /\ lq' = lq
        /\ bind' = [bind EXCEPT ![t][req(t).to] = req(t).conn]
    BY <1>2 DEF LoginBind, Goto
  <2>2. /\ lq[t] # <<>> /\ req(t).conn \in Conn /\ req(t).to \in User /\ Home[req(t).conn] = t
    BY <2>1, FrontRequest
  <2>3. req(t).kind = "login"
    BY <2>1 DEF Handling
  <2>4. s = t /\ u = req(t).to /\ c = req(t).conn
    BY <1>2, <2>1, <2>2
  <2>5. lq'[t] # <<>> /\ req(t)' = req(t)
    BY <2>1, <2>2 DEF req
  <2>6. /\ Home[c] = t /\ logic'[t] = "reply"
        /\ req(t)'.conn = c /\ req(t)'.kind = "login" /\ req(t)'.to = u
    BY <2>1, <2>2, <2>3, <2>4, <2>5
  <2>7. QED
    BY <2>2, <2>4, <2>5, <2>6 DEF signedIn, loggingIn
<1>3. ASSUME NEW d \in Conn, ClearUnbind(d)
      PROVE  bind'[s][u] = bind[s][u]
  <2>1. Home[d] \in Server
    BY ChatAssumption
  <2>2. QED
    BY <1>3, <2>1 DEF ClearUnbind
<1>4. ASSUME NEW d \in Conn, Client(d) \/ Insert(d) \/ Clear(d), ~ClearUnbind(d)
      PROVE  bind' = bind
  BY <1>4 DEF Client, Accept, Receive, LateReceive, Post, ReadError, BadHeader, WriteError, Insert,
              Clear, LateAbort, ClearFind, ClearMiss, ClearErase
<1>5. ASSUME NEW t \in Server, Logic(t), ~LoginBind(t)
      PROVE  bind' = bind
  BY <1>5 DEF Logic, Take, Login, LoginRefuse, LoginSetUid, LoginSetUip, Reply,
              Text, RouteNowhere, RouteLocal, FindLocal, SendLocal, RouteRemote
<1>6. ASSUME NEW k \in calls, Rpc(k) \/ RpcError(k) \/ RpcLost(k)
      PROVE  bind' = bind
  BY <1>6 DEF Rpc, RpcGet, RpcSend, RpcReturn, RpcError, RpcLost
<1>7. CASE UNCHANGED vars
  BY <1>1, <1>7 DEF vars
<1>8. QED
  BY <1>1, <1>2, <1>3, <1>4, <1>5, <1>6, <1>7 DEF Next, Clear

(* The session a text handler has got. *)
LEMMA StepTargets ==
  ASSUME IInv, AnswerInv, SignedInv, [Next]_vars, NEW s \in Server, logic'[s] = "send",
         NEW c, target'[s] = c, NEW u, req(s)'.to = u
  PROVE  c # None /\ signedIn(c, u)'
<1> USE DEF IInv, TypeOK
<1>1. CASE logic'[s] = logic[s] /\ target'[s] = target[s]
  <2>1. c \in Conn /\ signedIn(c, req(s).to)
    BY <1>1 DEF SignedInv, BindingsSignedIn
  <2>2. PICK x : x = req(s)
    OBVIOUS
  <2>3. ~LoginRefuse(s) /\ ~Reply(s)
    BY <1>1 DEF LoginRefuse, Reply, Goto
  <2>4. req(s)' = x
    BY <1>1, <2>2, <2>3, FrontStays
  <2>5. signedIn(c, u)
    BY <2>1, <2>2, <2>4
  <2>6. QED
    BY <2>1, <2>5, SignedStays, ChatAssumption
<1>2. CASE FindLocal(s)
  <2>1. /\ logic[s] = "find" /\ lq' = lq /\ c = bind[s][req(s).to] /\ c # None
    BY <1>2 DEF FindLocal, Goto
  <2>2. req(s).to \in User
    BY <2>1, FrontRequest
  <2>3. u = req(s).to
    BY <2>1 DEF req
  <2>4. c \in Conn /\ signedIn(c, u)
    BY <2>1, <2>2, <2>3, BindingMeans
  <2>5. QED
    BY <2>1, <2>4, SignedStays
<1>3. CASE Logic(s) /\ ~FindLocal(s)
  <2>1. Take(s) => logic'[s] \in {"login", "text"}
    <3>1. ASSUME Take(s)
          PROVE  logic'[s] \in {"login", "text"}
      <4>1. lq[s] \in Seq(Request) /\ lq[s] # <<>> /\ logic'[s] = req(s).kind
        BY <3>1 DEF Take, Goto
      <4>2. Head(lq[s]) \in Request
        BY <4>1, Fronts
      <4>3. QED
        BY <4>1, <4>2 DEF req, Request
    <3>2. QED
      BY <3>1
  <2>2. QED
    BY <1>3, <2>1 DEF Logic, Login, LoginRefuse, LoginSetUid, LoginSetUip, LoginBind, Reply,
       Text, RouteNowhere, RouteLocal, SendLocal, RouteRemote, Goto
<1>4. ASSUME NEW k \in calls, k.from = s, awaited(k), RpcReturn(k) \/ RpcError(k) \/ RpcLost(k)
      PROVE  FALSE
  BY <1>4 DEF RpcReturn, RpcError, RpcLost
<1>5. QED
  BY <1>1, <1>2, <1>3, <1>4, HandlerStep

(* The session a gRPC handler has got. *)
LEMMA StepCallTargets ==
  ASSUME IInv, AnswerInv, SignedInv, [Next]_vars, NEW k \in calls', k.pc = "send"
  PROVE  k.target # None /\ signedIn(k.target, k.req.to)'
<1> USE DEF IInv, TypeOK
<1>1. ASSUME NEW l \in calls
      PROVE  l \in Call /\ l.dest \in Server /\ l.req \in Request /\ l.req.to \in User
  BY DEF Call, Request
<1>2. CASE k \in calls
  <2>1. k.target \in Conn /\ signedIn(k.target, k.req.to)
    BY <1>1, <1>2 DEF SignedInv, BindingsSignedIn, Call
  <2>2. QED
    BY <2>1, ChatAssumption, SignedStays
<1>3. ASSUME NEW l \in calls, RpcGet(l), k \notin calls
      PROVE  k.target # None /\ signedIn(k.target, k.req.to)'
  <2>1. PICK c : c = bind[l.dest][l.req.to]
    OBVIOUS
  <2>2. k = [l EXCEPT !.pc = IF c = None THEN "return" ELSE "send", !.target = c]
    BY <1>3, <2>1 DEF RpcGet
  <2>3. k.target = c /\ k.req = l.req /\ c # None
    BY <1>1, <2>2 DEF Call
  <2>4. c \in Conn /\ signedIn(c, k.req.to)
    BY <1>1, <2>1, <2>3, BindingMeans
  <2>5. QED
    BY <2>3, <2>4, SignedStays
<1>4. ASSUME NEW s \in Server, RouteRemote(s)
      PROVE  k \in calls
  BY <1>4 DEF RouteRemote
<1>5. ASSUME NEW l \in calls, RpcSend(l)
      PROVE  k \in calls
  BY <1>1, <1>5 DEF RpcSend, Call
<1>6. ASSUME NEW l \in calls, RpcReturn(l) \/ RpcLost(l)
      PROVE  k \in calls
  BY <1>6 DEF RpcReturn, RpcLost
<1>7. QED
  BY <1>2, <1>3, <1>4, <1>5, <1>6, CallsStep

LEMMA StepSigned == IInv /\ AnswerInv /\ SignedInv /\ [Next]_vars => SignedInv'
<1> SUFFICES ASSUME IInv, AnswerInv, SignedInv, [Next]_vars
             PROVE  SignedInv'
  OBVIOUS
<1>1. ASSUME NEW c \in Conn, NEW i \in sentTo(c)', i.kind = "notify"
      PROVE  signedIn(c, i.req.to)'
  <2>1. CASE i \in sentTo(c)
    BY <1>1, <2>1, SignedStays DEF SignedInv, TextsReachReceiver
  <2>2. ASSUME NEW s \in Server, SendLocal(s), c = target[s], i.req = req(s)
        PROVE  signedIn(c, i.req.to)'
    <3>1. signedIn(c, i.req.to)
      BY <2>2 DEF SendLocal, Goto, SignedInv, BindingsSignedIn
    <3>2. QED
      BY <3>1, SignedStays
  <2>3. ASSUME NEW k \in calls, RpcSend(k), c = k.target, i.req = k.req
        PROVE  signedIn(c, i.req.to)'
    <3>1. signedIn(c, i.req.to)
      BY <2>3 DEF RpcSend, SignedInv, BindingsSignedIn
    <3>2. QED
      BY <3>1, SignedStays
  <2>4. QED
    BY <1>1, <2>1, <2>2, <2>3, NewItems
<1>2. TextsReachReceiver'
  BY <1>1 DEF TextsReachReceiver
<1>3. ASSUME NEW s \in Server, NEW u \in User, bind'[s][u] # None
      PROVE  signedIn(bind[s][u], u)' /\ Home[bind'[s][u]] = s
  <2>1. PICK c : c = bind'[s][u]
    OBVIOUS
  <2>2. c \in Conn /\ Home[c] = s /\ signedIn(c, u)'
    BY <1>3, <2>1, StepBindings
  <2>3. QED
    BY <2>1, <2>2 DEF signedIn, loggedIn, loggingIn, sentTo
<1>4. ASSUME NEW s \in Server, logic'[s] = "send"
      PROVE  target'[s] # None /\ signedIn(target[s], req(s).to)'
  <2>1. PICK c, u : c = target'[s] /\ u = req(s)'.to
    OBVIOUS
  <2>2. c # None /\ signedIn(c, u)'
    BY <1>4, <2>1, StepTargets
  <2>3. QED
    BY <2>1, <2>2 DEF signedIn, loggedIn, loggingIn, sentTo
<1>5. BindingsSignedIn'
  BY <1>3, <1>4, StepCallTargets DEF BindingsSignedIn
<1>6. QED
  BY <1>2, <1>5 DEF SignedInv

LEMMA InitSigned == Init => SignedInv
BY DEF Init, SignedInv, BindingsSignedIn, TextsReachReceiver, sentTo

(* A text is only sent on connections on which its receiver has logged in, on this
   server or a peer, although the key uip_<uid>, the binding and the session are looked
   up one after the other while connections end, are cleared and log in again, as the
   same user or another: a session is bound only under a uid whose login it is about to
   be told of, and nothing else is ever bound (LogicSystem.cpp:246-268, 481-511,
   ChatServiceImpl.cpp:88-118). *)
THEOREM TextsGoToReceivers == Spec => []TextsReachReceiver
<1>1. SignedInv => TextsReachReceiver
  BY DEF SignedInv
<1>2. QED
  BY <1>1, InitAnswers, StepAnswers, InitSigned, StepSigned, Inductive, PTL DEF Spec

-------------------------------------------------------------------------------
(* An answer a connection was sent is counted, and answers one of its requests. *)
LEMMA AnswerItems ==
  ASSUME TypeOK, AnswerInv, NEW c \in Conn, NEW i \in sentTo(c), i.kind # "notify"
  PROVE  /\ i.req.conn = c /\ i.req.n <= answered(c)
         /\ answered(c) \in Nat /\ answered(c) # 0 /\ asked[c] # 0
<1>1. PICK j \in 1..Len(inbox[c]) : i = inbox[c][j]
  BY DEF sentTo
<1>2. j \in answerPlaces(inbox[c])
  BY <1>1 DEF answerPlaces
<1>3. inbox[c] \in Seq(Item) /\ asked[c] \in Nat
  BY DEF TypeOK
<1>4. IsFiniteSet(answerPlaces(inbox[c])) /\ answered(c) \in Nat
  BY <1>3, Places DEF answered
<1>5. answered(c) # 0
  BY <1>2, <1>4, FS_EmptySet DEF answered
<1>6. answered(c) <= asked[c] /\ inOrder(c, inbox[c])
  BY DEF AnswerInv, AnsweredInOrder
<1>7. inbox[c][j].req.conn = c /\ inbox[c][j].req.n <= answered(c)
  BY <1>2, <1>3, <1>6, AnswersBounded DEF answered
<1>8. QED
  BY <1>1, <1>3, <1>4, <1>5, <1>6, <1>7

(* A connection that is read after a step was read before it, or has just been
   accepted, and then nobody works for it. *)
LEMMA ReadingBefore ==
  ASSUME IInv, AnswerInv, BoundTrail, [Next]_vars, NEW c \in Conn, io'[c] = "reading"
  PROVE  \/ io[c] = "reading" /\ ~OwnStep(c)
         \/ io[c] = "reading" /\ Insert(c)
         \/ \A u \in User : ~loggedIn(c, u)' /\ ~loggingIn(c, u)'
<1> USE DEF IInv, TypeOK
<1>1. CASE ~OwnStep(c)
  BY <1>1, OthersStep
<1>2. CASE Insert(c)
  BY <1>2 DEF Insert
<1>3. CASE Accept(c)
  <2>1. asked[c] = 0
    BY <1>3 DEF Accept, BoundTrail
  <2>2. ASSUME NEW u \in User
        PROVE  ~loggedIn(c, u)
    BY <2>1, AnswerItems DEF loggedIn
  <2>3. ASSUME NEW u \in User
        PROVE  ~loggingIn(c, u)
    <3>1. Home[c] \in Server
      BY ChatAssumption
    <3>2. ASSUME loggingIn(c, u)
          PROVE  FALSE
      <4>1. lq[Home[c]] # <<>> /\ req(Home[c]).conn = c
        BY <3>2 DEF loggingIn
      <4>2. answered(c) < asked[c] /\ answered(c) \in Nat
        BY <3>1, <4>1, FrontIsNext, Places DEF answered
      <4>3. QED
        BY <2>1, <4>2
    <3>3. QED
      BY <3>2
  <2>4. UNCHANGED <<inbox, lq>>
    BY <1>3 DEF Accept, logicVars
  <2>5. QED
    BY <2>2, <2>3, <2>4 DEF loggedIn, loggingIn, sentTo, req
<1>4. CASE ReadError(c) \/ BadHeader(c) \/ WriteError(c) \/ ClearFind(c) \/ ClearMiss(c)
           \/ ClearUnbind(c)
  BY <1>4 DEF ReadError, BadHeader, WriteError, ClearFind, ClearMiss, ClearUnbind
<1>5. CASE ClearErase(c) \/ LateAbort(c)
  BY <1>5 DEF ClearErase, LateAbort
<1>6. CASE \E kind \in {"login", "text"}, to \in User : LateReceive(c, kind, to)
  BY <1>6 DEF LateReceive
<1>7. QED
  BY <1>1, <1>2, <1>3, <1>4, <1>5, <1>6 DEF OwnStep

(* The login step a handler is at is for a user that may log in on the connection. *)
LEMMA LoginFront ==
  ASSUME IInv, NEW s \in Server, logic[s] \in {"setuip", "bind"}
  PROVE  /\ lq[s] # <<>> /\ req(s).conn \in Conn /\ Home[req(s).conn] = s
         /\ req(s).kind = "login" /\ req(s).to \in Logins(req(s).conn) /\ req(s).to \in User
<1>1. /\ lq[s] # <<>> /\ req(s).conn \in Conn /\ req(s).to \in User
      /\ Home[req(s).conn] = s /\ req(s) = lq[s][1] /\ lq[s] \in Seq(Request)
  BY FrontRequest DEF IInv
<1>2. 1 \in 1..Len(lq[s])
  BY <1>1, Fronts
<1>3. req(s).kind = "login"
  BY DEF IInv, Handling
<1>4. allowed(req(s))
  BY <1>1, <1>2 DEF IInv, Handling
<1>5. QED
  BY <1>1, <1>3, <1>4 DEF allowed, Logins

(* While c is read, no other connection of a user that may log in on it logs in. *)
LEMMA NobodyElseLogsIn ==
  ASSUME IInv, AnswerInv, OneAtATime, NEW c \in Conn, io[c] = "reading", NEW u \in Logins(c),
         NEW s \in Server, logic[s] \in {"setuip", "bind"}, req(s).to = u
  PROVE  req(s).conn = c /\ Home[c] = s
<1>1. PICK d \in Conn : d = req(s).conn /\ u \in Logins(d) /\ Home[d] = s /\ lq[s] # <<>>
  BY LoginFront
<1>2. answered(d) < asked[d] /\ answered(d) \in Nat /\ asked[d] \in Nat
  BY <1>1, FrontIsNext, Places DEF IInv, TypeOK, answered
<1>3. answered(d) # asked[d]
  BY <1>2
<1>4. Logins(c) \cap Logins(d) # {}
  BY <1>1
<1>5. QED
  BY <1>1, <1>3, <1>4 DEF OneAtATime

(* The key of a user of c, once it names c's server, and the binding, while c is
   read, stay. *)
LEMMA KeyStays ==
  ASSUME IInv, AnswerInv, [Next]_vars, OneAtATime, NEW c \in Conn, io[c] = "reading",
         NEW u \in Logins(c), uip[u] = Home[c]
  PROVE  uip'[u] = Home[c]
<1> USE DEF IInv, TypeOK
<1>1. ASSUME NEW d \in Conn, Client(d) \/ Insert(d) \/ Clear(d)
      PROVE  uip' = uip
  BY <1>1 DEF Client, Accept, Receive, LateReceive, Post, ReadError, BadHeader, WriteError, Insert,
              Clear, LateAbort, ClearFind,
              ClearMiss, ClearUnbind, ClearErase
<1>2. ASSUME NEW s \in Server, Logic(s), ~LoginSetUip(s)
      PROVE  uip' = uip
  BY <1>2 DEF Logic, Take, Login, LoginRefuse, LoginSetUid, LoginBind, Reply,
              Text, RouteNowhere, RouteLocal, FindLocal, SendLocal, RouteRemote
<1>3. ASSUME NEW k \in calls, Rpc(k) \/ RpcError(k) \/ RpcLost(k)
      PROVE  uip' = uip
  BY <1>3 DEF Rpc, RpcGet, RpcSend, RpcReturn, RpcError, RpcLost
<1>4. ASSUME NEW s \in Server, LoginSetUip(s)
      PROVE  uip'[u] = Home[c]
  <2>1. uip' = [uip EXCEPT ![req(s).to] = s] /\ logic[s] = "setuip"
    BY <1>4 DEF LoginSetUip, Goto
  <2>2. /\ req(s).conn \in Conn /\ Home[req(s).conn] = s
        /\ req(s).to \in User
    BY <2>1, LoginFront
  <2>3. req(s).to = u => Home[c] = s
    BY <2>1, NobodyElseLogsIn
  <2>4. u \in User
    BY DEF Logins
  <2>5. QED
    BY <2>1, <2>2, <2>3, <2>4
<1>5. CASE UNCHANGED vars
  BY <1>5 DEF vars
<1>6. QED
  BY <1>1, <1>2, <1>3, <1>4, <1>5 DEF Next

LEMMA BindingStays ==
  ASSUME IInv, AnswerInv, BoundTrail, [Next]_vars, OneAtATime, NEW c \in Conn,
         io[c] = "reading", io'[c] = "reading", NEW u \in Logins(c), bind[Home[c]][u] = c
  PROVE  bind'[Home[c]][u] = c
<1> USE DEF IInv, TypeOK
<1>1. Home[c] \in Server /\ u \in User /\ None \notin User
  BY ChatAssumption DEF Logins
<1>2. ASSUME NEW d \in Conn, Client(d) \/ Insert(d) \/ Clear(d), ~ClearUnbind(d)
      PROVE  bind' = bind
  BY <1>2 DEF Client, Accept, Receive, LateReceive, Post, ReadError, BadHeader, WriteError, Insert,
              Clear, LateAbort, ClearFind,
              ClearMiss, ClearErase
<1>3. ASSUME NEW d \in Conn, ClearUnbind(d)
      PROVE  bind'[Home[c]][u] = c
  <2>1. d # c
    BY <1>3 DEF ClearUnbind
  <2>2. iouid[d] # u
    <3>1. iouid[d] \in Logins(d) \cup {None} /\ io[d] = "unbind"
      BY <1>3 DEF BoundTrail, ClearUnbind
    <3>2. Logins(c) \cap Logins(d) = {}
      BY <2>1, <3>1 DEF OneAtATime
    <3>3. QED
      BY <1>1, <3>1, <3>2
  <2>3. Home[d] \in Server
    BY ChatAssumption
  <2>4. bind' = [bind EXCEPT ![Home[d]] =
                  [v \in User |-> IF v = iouid[d] THEN None ELSE @[v]]]
    BY <1>3 DEF ClearUnbind
  <2>5. QED
    BY <1>1, <2>2, <2>3, <2>4
<1>4. ASSUME NEW s \in Server, Logic(s), ~LoginBind(s)
      PROVE  bind' = bind
  BY <1>4 DEF Logic, Take, Login, LoginRefuse, LoginSetUid, LoginSetUip, Reply,
              Text, RouteNowhere, RouteLocal, FindLocal, SendLocal, RouteRemote
<1>5. ASSUME NEW s \in Server, LoginBind(s)
      PROVE  bind'[Home[c]][u] = c
  <2>1. bind' = [bind EXCEPT ![s][req(s).to] = req(s).conn] /\ logic[s] = "bind"
    BY <1>5 DEF LoginBind, Goto
  <2>2. req(s).conn \in Conn /\ req(s).to \in User
    BY <2>1, LoginFront
  <2>3. CASE req(s).conn = c
    BY <1>1, <2>1, <2>2, <2>3
  <2>4. CASE req(s).conn # c
    <3>1. req(s).to # u
      BY <2>1, <2>4, NobodyElseLogsIn
    <3>2. QED
      BY <1>1, <2>1, <2>2, <3>1
  <2>5. QED
    BY <2>3, <2>4
<1>6. ASSUME NEW k \in calls, Rpc(k) \/ RpcError(k) \/ RpcLost(k)
      PROVE  bind' = bind
  BY <1>6 DEF Rpc, RpcGet, RpcSend, RpcReturn, RpcError, RpcLost
<1>7. CASE UNCHANGED vars
  BY <1>7 DEF vars
<1>8. QED
  BY <1>2, <1>3, <1>4, <1>5, <1>6, <1>7 DEF Next, Clear

(* A login is answered only after the handler has bound the session. *)
LEMMA LoggedInBefore ==
  ASSUME IInv, [Next]_vars, NEW c \in Conn, NEW u, loggedIn(c, u)'
  PROVE  signedIn(c, u)
<1>1. PICK i \in sentTo(c)' : i.kind = "ok" /\ i.req.kind = "login" /\ i.req.to = u
  BY DEF loggedIn
<1>2. CASE i \in sentTo(c)
  BY <1>1, <1>2 DEF loggedIn, signedIn
<1>3. ASSUME NEW s \in Server, Reply(s), c = req(s).conn, i = [kind |-> "ok", req |-> req(s)]
      PROVE  signedIn(c, u)
  <2>1. logic[s] = "reply"
    BY <1>3 DEF Reply, Goto
  <2>2. lq[s] # <<>> /\ Home[c] = s
    BY <1>3, <2>1, FrontRequest DEF IInv
  <2>3. QED
    BY <1>1, <1>3, <2>1, <2>2 DEF loggingIn, signedIn
<1>4. QED
  BY <1>1, <1>2, <1>3, NewItems

(* A login handler reaches its last steps through the ones before them. *)
LEMMA LoggingInBefore ==
  ASSUME IInv, AnswerInv, [Next]_vars, NEW c \in Conn, NEW u, NEW s \in Server, s = Home[c],
         loggingIn(c, u)', logic'[s] \in {"bind", "reply"}
  PROVE  /\ loggingIn(c, u)
         /\ \/ logic'[s] = logic[s]
            \/ LoginSetUip(s) /\ logic'[s] = "bind"
            \/ LoginBind(s) /\ logic[s] = "bind" /\ logic'[s] = "reply"
<1>1. lq'[s] # <<>> /\ req(s)'.conn = c /\ req(s)'.kind = "login" /\ req(s)'.to = u
  BY DEF loggingIn
<1>2. ASSUME lq' = lq
      PROVE  loggingIn(c, u) /\ req(s).kind = "login"
  BY <1>1, <1>2 DEF loggingIn, req
<1>3. logic[s] \in {"text", "find", "send", "call"} => req(s).kind = "text"
  BY DEF IInv, Handling
<1>4. CASE logic'[s] = logic[s]
  <2>1. PICK r : r = req(s)
    OBVIOUS
  <2>2. ~LoginRefuse(s) /\ ~Reply(s)
    BY DEF LoginRefuse, Reply, Goto, IInv, TypeOK
  <2>3. logic[s] # "idle"
    BY <1>4
  <2>4. req(s)' = r
    BY <2>1, <2>2, <2>3, FrontStays
  <2>5. lq[s] # <<>>
    BY <2>3, FrontRequest DEF IInv
  <2>6. QED
    BY <1>1, <1>4, <2>1, <2>4, <2>5 DEF loggingIn
<1>5. CASE Take(s)
  <2>1. req(s).kind \in {"login", "text"}
    <3>1. lq[s] # <<>>
      BY <1>5 DEF Take
    <3>2. req(s) \in Request
      BY <3>1, FrontIsNext DEF IInv
    <3>3. QED
      BY <3>2 DEF Request
  <2>2. QED
    BY <1>5, <2>1 DEF Take, Goto, IInv, TypeOK
<1>6. CASE LoginRefuse(s) \/ LoginSetUid(s) \/ Reply(s)
  BY <1>6 DEF LoginRefuse, LoginSetUid, Reply, Goto, IInv, TypeOK
<1>7. CASE LoginSetUip(s)
  BY <1>2, <1>7 DEF LoginSetUip, Goto, IInv, TypeOK
<1>8. CASE LoginBind(s)
  BY <1>2, <1>8 DEF LoginBind, Goto, IInv, TypeOK
<1>9. CASE Text(s)
  <2>1. lq' = lq /\ logic[s] \in {"text", "find", "send"}
    BY <1>9 DEF Text, RouteNowhere, RouteLocal, FindLocal, SendLocal, RouteRemote, Goto
  <2>2. QED
    BY <1>2, <1>3, <2>1
<1>10. ASSUME NEW k \in calls, k.from = s, awaited(k), RpcReturn(k) \/ RpcError(k) \/ RpcLost(k)
       PROVE  FALSE
  <2>1. lq' = lq /\ logic[s] = "call"
    BY <1>10 DEF awaited, RpcReturn, RpcError, RpcLost
  <2>2. QED
    BY <1>2, <1>3, <2>1
<1>11. QED
  BY <1>4, <1>5, <1>6, <1>7, <1>8, <1>9, <1>10, HandlerStep DEF Logic, Login

(* What a connection's own thread has read, and that a connection nobody has
   accepted has asked for nothing. *)
LEMMA OwnTrail ==
  ASSUME IInv, BoundTrail, [Next]_vars, NEW c \in Conn
  PROVE  /\ iouid'[c] \in Logins(c) \cup {None}
         /\ acc'[c] = "none" => io'[c] = "none" /\ asked'[c] = 0
<1> USE DEF IInv, TypeOK
<1>1. /\ iouid[c] \in Logins(c) \cup {None} /\ uid[c] \in Logins(c) \cup {None}
      /\ acc[c] = "none" => io[c] = "none" /\ asked[c] = 0
  BY DEF BoundTrail
<1>2. ASSUME ~OwnStep(c)
      PROVE  asked'[c] = asked[c] \/ io[c] = "reading"
  <2>1. ASSUME NEW d \in Conn, NEW kind \in {"login", "text"}, NEW to \in User,
               Post(d, kind, to), d # c
        PROVE  asked'[c] = asked[c]
    BY <2>1 DEF Post
  <2>2. ASSUME NEW kind \in {"login", "text"}, NEW to \in User, Receive(c, kind, to)
        PROVE  io[c] = "reading"
    BY <2>2 DEF Receive
  <2>3. ASSUME NEW d \in Conn, Client(d) \/ Insert(d) \/ Clear(d)
        PROVE  asked'[c] = asked[c] \/ io[c] = "reading"
    <3>1. CASE \E kind \in {"login", "text"}, to \in User : Receive(d, kind, to)
      BY <2>1, <2>2, <3>1 DEF Receive
    <3>2. CASE \E kind \in {"login", "text"}, to \in User : LateReceive(d, kind, to)
      BY <1>2, <2>1, <3>2 DEF LateReceive, OwnStep
    <3>3. CASE ~\E kind \in {"login", "text"}, to \in User :
                 Receive(d, kind, to) \/ LateReceive(d, kind, to)
      BY <2>3, <3>3 DEF Client, Accept, ReadError, BadHeader, WriteError, Insert, Clear,
         ClearFind, ClearMiss, ClearUnbind, ClearErase, LateAbort
    <3>4. QED
      BY <3>1, <3>2, <3>3
  <2>4. ASSUME NEW s \in Server, Logic(s)
        PROVE  asked' = asked
    BY <2>4 DEF Logic, Take, Login, LoginRefuse, LoginSetUid, LoginSetUip, LoginBind, Reply,
                Text, RouteNowhere, RouteLocal, FindLocal, SendLocal, RouteRemote, connVars
  <2>5. ASSUME NEW k \in calls, Rpc(k) \/ RpcError(k) \/ RpcLost(k)
        PROVE  asked' = asked
    BY <2>5 DEF Rpc, RpcGet, RpcSend, RpcReturn, RpcError, RpcLost, connVars
  <2>6. CASE UNCHANGED vars
    BY <2>6 DEF vars
  <2>7. QED
    BY <2>3, <2>4, <2>5, <2>6 DEF Next
<1>3. CASE ~OwnStep(c)
  BY <1>1, <1>2, <1>3, OthersStep
<1>4. CASE Accept(c) \/ Insert(c)
  BY <1>1, <1>4 DEF Accept, Insert
<1>5. CASE ReadError(c) \/ BadHeader(c) \/ WriteError(c)
  <2>1. UNCHANGED <<acc, iouid>> /\ io[c] # "none"
    BY <1>5 DEF ReadError, BadHeader, WriteError
  <2>2. QED
    BY <1>1, <2>1
<1>6. CASE ClearFind(c)
  <2>1. acc' = acc /\ io[c] = "find"
    BY <1>6 DEF ClearFind
  <2>2. iouid' = iouid \/ iouid' = [iouid EXCEPT ![c] = uid[c]]
    BY <1>6 DEF ClearFind
  <2>3. QED
    BY <1>1, <2>1, <2>2
<1>7. CASE ClearMiss(c) \/ ClearUnbind(c) \/ ClearErase(c) \/ LateAbort(c)
  <2>1. acc' = acc /\ io[c] # "none"
    BY <1>7 DEF ClearMiss, ClearUnbind, ClearErase, LateAbort
  <2>2. iouid'[c] \in {None, iouid[c]}
    BY <1>7 DEF ClearMiss, ClearUnbind, ClearErase, LateAbort
  <2>3. QED
    BY <1>1, <2>1, <2>2
<1>8. CASE \E kind \in {"login", "text"}, to \in User : LateReceive(c, kind, to)
  <2>1. UNCHANGED <<acc, iouid>> /\ io[c] # "none"
    BY <1>8 DEF LateReceive, Post
  <2>2. QED
    BY <1>1, <2>1
<1>9. QED
  BY <1>3, <1>4, <1>5, <1>6, <1>7, <1>8 DEF OwnStep

(* The uid of a session is one that may log in on it, and so is every user whose
   login it was told of. *)
LEMMA UidTrail ==
  ASSUME IInv, BoundTrail, [Next]_vars, NEW c \in Conn
  PROVE  /\ uid'[c] \in Logins(c) \cup {None}
         /\ \A u \in User : loggedIn(c, u)' => u \in Logins(c)
<1> USE DEF IInv, TypeOK
<1>1. /\ uid[c] \in Logins(c) \cup {None}
      /\ \A u \in User : loggedIn(c, u) => u \in Logins(c)
  BY DEF BoundTrail
<1>2. ASSUME NEW s \in Server, logic[s] # "idle"
      PROVE  /\ req(s).conn \in Conn
             /\ req(s).kind = "login" => req(s).to \in Logins(req(s).conn)
  <2>1. /\ lq[s] # <<>> /\ req(s).conn \in Conn /\ req(s).to \in User
        /\ req(s) = lq[s][1] /\ lq[s] \in Seq(Request)
    BY <1>2, FrontRequest
  <2>2. 1 \in 1..Len(lq[s])
    BY <2>1, Fronts
  <2>3. allowed(req(s))
    BY <2>1, <2>2 DEF Handling
  <2>4. QED
    BY <2>1, <2>3 DEF allowed, Logins
<1>3. ASSUME NEW s \in Server, LoginSetUid(s)
      PROVE  uid'[c] \in Logins(c) \cup {None}
  <2>1. logic[s] = "login" /\ uid' = [uid EXCEPT ![req(s).conn] = req(s).to]
    BY <1>3 DEF LoginSetUid, Goto
  <2>2. req(s).conn \in Conn /\ req(s).to \in Logins(req(s).conn)
    BY <1>2, <2>1 DEF Handling
  <2>3. QED
    BY <1>1, <2>1, <2>2
<1>4. ASSUME NEW s \in Server, Logic(s), ~LoginSetUid(s)
      PROVE  uid' = uid
  BY <1>4 DEF Logic, Take, Login, LoginRefuse, LoginSetUip, LoginBind, Reply,
              Text, RouteNowhere, RouteLocal, FindLocal, SendLocal, RouteRemote
<1>5. ASSUME NEW d \in Conn, Client(d) \/ Insert(d) \/ Clear(d)
      PROVE  uid' = uid
  BY <1>5 DEF Client, Accept, Receive, LateReceive, Post, ReadError, BadHeader, WriteError, Insert,
              Clear, ClearFind, ClearMiss, ClearUnbind, ClearErase, LateAbort
<1>6. ASSUME NEW k \in calls, Rpc(k) \/ RpcError(k) \/ RpcLost(k)
      PROVE  uid' = uid
  BY <1>6 DEF Rpc, RpcGet, RpcSend, RpcReturn, RpcError, RpcLost
<1>7. ASSUME UNCHANGED vars
      PROVE  uid' = uid
  BY <1>7 DEF vars
<1>8. uid'[c] \in Logins(c) \cup {None}
  BY <1>1, <1>3, <1>4, <1>5, <1>6, <1>7 DEF Next
<1>9. ASSUME NEW u \in User, loggedIn(c, u)'
      PROVE  u \in Logins(c)
  <2>1. CASE loggedIn(c, u)
    BY <1>1, <2>1
  <2>2. CASE logic[Home[c]] = "reply" /\ loggingIn(c, u)
    BY <1>2, <2>2, ChatAssumption DEF loggingIn
  <2>3. QED
    BY <1>9, <2>1, <2>2, LoggedInBefore DEF signedIn
<1>10. QED
  BY <1>8, <1>9

LEMMA StepBound ==
  ASSUME IInv, AnswerInv, BoundTrail, [Next]_vars, OneAtATime
  PROVE  BoundTrail'
<1>1. ASSUME NEW c \in Conn, NEW s \in Server, s = Home[c], NEW u \in User,
             logic'[s] \in {"bind", "reply"}, loggingIn(c, u)'
      PROVE  /\ loggingIn(c, u) /\ u \in Logins(c)
             /\ \/ logic'[s] = logic[s]
                \/ LoginSetUip(s) /\ logic'[s] = "bind"
                \/ LoginBind(s) /\ logic[s] = "bind" /\ logic'[s] = "reply"
  <2>1. /\ loggingIn(c, u)
        /\ \/ logic'[s] = logic[s]
           \/ LoginSetUip(s) /\ logic'[s] = "bind"
           \/ LoginBind(s) /\ logic[s] = "bind" /\ logic'[s] = "reply"
    BY <1>1, LoggingInBefore
  <2>2. lq[s] # <<>> /\ req(s).conn = c /\ req(s).kind = "login" /\ req(s).to = u
    BY <1>1, <2>1 DEF loggingIn
  <2>3. lq[s] \in Seq(Request)
    BY DEF IInv, TypeOK
  <2>4. req(s) = lq[s][1] /\ 1 \in 1..Len(lq[s])
    BY <2>2, <2>3, Fronts DEF req
  <2>5. allowed(req(s))
    BY <2>4 DEF IInv, Handling
  <2>6. QED
    BY <2>1, <2>2, <2>5 DEF allowed, Logins
<1>2. ASSUME NEW c \in Conn, NEW s \in Server, s = Home[c], io'[c] = "reading", NEW u \in User,
             loggedIn(c, u)' \/ (logic'[s] \in {"bind", "reply"} /\ loggingIn(c, u)')
      PROVE  uip'[u] = s
  <2>1. io[c] = "reading"
    BY <1>2, ReadingBefore
  <2>2. loggedIn(c, u) \/ (logic[s] \in {"bind", "reply"} /\ loggingIn(c, u)) => uip[u] = s
    BY <1>2, <2>1 DEF BoundTrail
  <2>3. CASE loggedIn(c, u)'
    <3>1. uip[u] = s
      BY <1>2, <2>2, <2>3, LoggedInBefore DEF signedIn
    <3>2. u \in Logins(c)
      BY <2>3, UidTrail
    <3>3. QED
      BY <1>2, <2>1, <3>1, <3>2, KeyStays
  <2>4. CASE logic'[s] \in {"bind", "reply"} /\ loggingIn(c, u)'
    <3>1. /\ loggingIn(c, u) /\ u \in Logins(c)
          /\ \/ logic'[s] = logic[s]
             \/ LoginSetUip(s) /\ logic'[s] = "bind"
             \/ LoginBind(s) /\ logic[s] = "bind" /\ logic'[s] = "reply"
      BY <1>1, <1>2, <2>4
    <3>2. CASE logic[s] \in {"bind", "reply"}
      <4>1. uip[u] = s
        BY <2>2, <3>1, <3>2
      <4>2. QED
        BY <1>2, <2>1, <3>1, <4>1, KeyStays
    <3>3. CASE LoginSetUip(s)
      <4>1. uip' = [uip EXCEPT ![req(s).to] = s] /\ req(s).to = u
        BY <1>2, <3>1, <3>3 DEF LoginSetUip, loggingIn
      <4>2. QED
        BY <4>1 DEF IInv, TypeOK
    <3>4. QED
      BY <2>4, <3>1, <3>2, <3>3
  <2>5. QED
    BY <1>2, <2>3, <2>4
<1>3. ASSUME NEW c \in Conn, NEW s \in Server, s = Home[c], io'[c] = "reading", NEW u \in User,
             signedIn(c, u)'
      PROVE  bind'[s][u] = c
  <2>0. loggedIn(c, u)' \/ (logic'[s] = "reply" /\ loggingIn(c, u)')
    BY <1>3 DEF signedIn
  <2>1. io[c] = "reading"
    BY <1>3, <2>0, ReadingBefore
  <2>2. signedIn(c, u) => bind[s][u] = c
    BY <1>3, <2>1 DEF BoundTrail
  <2>3. CASE loggedIn(c, u)'
    <3>1. bind[s][u] = c
      BY <2>2, <2>3, LoggedInBefore
    <3>2. u \in Logins(c)
      BY <2>3, UidTrail
    <3>3. QED
      BY <1>3, <2>1, <3>1, <3>2, BindingStays
  <2>4. CASE logic'[s] = "reply" /\ loggingIn(c, u)'
    <3>1. /\ loggingIn(c, u) /\ u \in Logins(c)
          /\ \/ logic'[s] = logic[s]
             \/ LoginSetUip(s) /\ logic'[s] = "bind"
             \/ LoginBind(s) /\ logic[s] = "bind" /\ logic'[s] = "reply"
      BY <1>1, <1>3, <2>4
    <3>2. CASE logic[s] = "reply"
      <4>1. bind[s][u] = c
        BY <1>3, <2>2, <3>1, <3>2 DEF signedIn
      <4>2. QED
        BY <1>3, <2>1, <3>1, <4>1, BindingStays
    <3>3. CASE LoginBind(s)
      <4>1. /\ bind' = [bind EXCEPT ![s][req(s).to] = req(s).conn]
            /\ req(s).conn = c /\ req(s).to = u
        BY <1>3, <3>1, <3>3 DEF LoginBind, loggingIn
      <4>2. QED
        BY <4>1 DEF IInv, TypeOK
    <3>4. QED
      BY <2>4, <3>1, <3>2, <3>3
  <2>5. QED
    BY <2>0, <2>3, <2>4
<1>4. ASSUME NEW c \in Conn
      PROVE  Home[c] \in Server
  BY ChatAssumption
<1>5. QED
  BY <1>2, <1>3, <1>4, OwnTrail, UidTrail DEF BoundTrail

LEMMA InitBound == Init => BoundTrail
BY DEF Init, BoundTrail, loggedIn, signedIn, sentTo

(* While a user's connections come one after the other, a client that has its login
   answer and is still connected is bound to that connection on its server, and the
   key uip_<uid> names this server, whatever an earlier connection left there: the
   handler writes both before it answers, and only the end of that connection
   removes the binding (LogicSystem.cpp:256-268, CServer.cpp:54-63). *)
THEOREM OnlineClientsAreBound == Spec => OnlineInTurn
<1>1. IInv /\ AnswerInv /\ BoundTrail /\ OneAtATime /\ [Next]_vars => BoundTrail'
  BY StepBound
<1>2. BoundTrail => OnlineIsBound
  BY DEF BoundTrail, OnlineIsBound, online, signedIn
<1>3. QED
  BY <1>1, <1>2, InitAnswers, StepAnswers, InitBound, Inductive, PTL DEF Spec, OnlineInTurn

-------------------------------------------------------------------------------
(* What OwedTrail says of one owed text: whom it is for, that it is answered or
   at its handler, ... *)
addressed(r, c) ==
  /\ r.kind = "text" /\ loggedIn(c, r.to)
  /\ Home[c] \in Peer[Home[r.conn]] \cup {Home[r.conn]}

pending(r) ==
  \/ r.n <= answered(r.conn)
  \/ lq[Home[r.conn]] # <<>> /\ req(Home[r.conn]) = r /\ logic[Home[r.conn]] # "idle"

(* ... and that it is on its way, or was sent and answered. *)
carried(r, c) ==
  \/ onItsWay(r, c)
  \/ r.n <= answered(r.conn) /\ [kind |-> "notify", req |-> r] \in sentTo(c)

LEMMA AddressedStays ==
  ASSUME IInv, [Next]_vars, NEW r \in Request, NEW c \in Conn, addressed(r, c)
  PROVE  addressed(r, c)'
<1>1. sentTo(c) \subseteq sentTo(c)'
  BY NewItems
<1>2. QED
  BY <1>1 DEF addressed, loggedIn

LEMMA PendingStays ==
  ASSUME IInv, AnswerInv, [Next]_vars, NEW r \in Request, pending(r)
  PROVE  pending(r)'
<1>1. PICK s \in Server : s = Home[r.conn]
  BY ChatAssumption DEF Request
<1>2. r.conn \in Conn /\ r.n \in Nat
  BY DEF Request
<1>3. CASE r.n <= answered(r.conn)
  BY <1>2, <1>3, AnsweredGrows DEF pending
<1>4. CASE lq[s] # <<>> /\ req(s) = r /\ logic[s] # "idle"
  <2>1. CASE LoginRefuse(s) \/ Reply(s)
    BY <1>4, <2>1, FrontAnswered DEF pending
  <2>2. CASE ~LoginRefuse(s) /\ ~Reply(s)
    <3>1. lq'[s] # <<>> /\ req(s)' = r
      BY <1>4, <2>2, FrontStays
    <3>2. CASE logic'[s] = logic[s]
      BY <1>1, <1>4, <3>1, <3>2 DEF pending
    <3>3. CASE Logic(s)
      <4>1. ~Take(s)
        BY <1>4 DEF Take, Goto
      <4>2. logic'[s] # "idle"
        BY <2>2, <3>3, <4>1 DEF Logic, Login, LoginSetUid, LoginSetUip, LoginBind, Text,
           RouteNowhere, RouteLocal, FindLocal, SendLocal, RouteRemote, Goto, IInv, TypeOK
      <4>3. QED
        BY <1>1, <3>1, <4>2 DEF pending
    <3>4. ASSUME NEW k \in calls, k.from = s, awaited(k),
                 RpcReturn(k) \/ RpcError(k) \/ RpcLost(k)
          PROVE  pending(r)'
      <4>1. logic'[s] = "reply"
        BY <3>4 DEF RpcReturn, RpcError, RpcLost, IInv, TypeOK
      <4>2. QED
        BY <1>1, <3>1, <4>1 DEF pending
    <3>5. QED
      BY <3>2, <3>3, <3>4, HandlerStep
  <2>3. QED
    BY <2>1, <2>2
<1>5. QED
  BY <1>1, <1>3, <1>4 DEF pending

(* A text in the hands of the logic thread goes where its receiver is: to the
   session bound here, to the peer the key names, or it is sent. *)
LEMMA RoutedRight ==
  ASSUME IInv, AnswerInv, BoundTrail, [Next]_vars, NEW r \in Request, NEW c \in Conn,
         NEW s \in Server, s = Home[r.conn], addressed(r, c), io[c] = "reading",
         lq[s] # <<>>, req(s) = r, Text(s),
         \/ logic[s] = "text"
         \/ logic[s] = "find" /\ Home[c] = s
         \/ logic[s] = "send" /\ target[s] = c
  PROVE  carried(r, c)'
<1> DEFINE d == Home[c]
<1>1. d \in Server /\ r.to \in User /\ None \notin Server /\ c # None
  BY ChatAssumption DEF Request
<1>2. uip[r.to] = d /\ bind[d][r.to] = c
  <2>1. loggedIn(c, r.to)
    BY DEF addressed
  <2>2. QED
    BY <1>1, <2>1 DEF BoundTrail, signedIn
<1>3. d \in Peer[s] \cup {s}
  BY DEF addressed
<1> HIDE DEF d
<1>4. lq' = lq /\ lq'[s] # <<>> /\ req(s)' = r
  BY DEF Text, RouteNowhere, RouteLocal, FindLocal, SendLocal, RouteRemote, req
<1>5. CASE RouteNowhere(s)
  BY <1>2, <1>3, <1>5 DEF RouteNowhere
<1>6. CASE RouteLocal(s)
  <2>1. d = s
    BY <1>2, <1>6 DEF RouteLocal
  <2>2. logic'[s] = "find"
    BY <1>6 DEF RouteLocal, Goto, IInv, TypeOK
  <2>3. QED
    BY <1>4, <2>1, <2>2 DEF carried, onItsWay, d
<1>7. CASE FindLocal(s)
  <2>1. d = s
    BY <1>7 DEF FindLocal, Goto, d
  <2>2. logic' = [logic EXCEPT ![s] = "send"] /\ target' = [target EXCEPT ![s] = c]
    BY <1>1, <1>2, <1>7, <2>1 DEF FindLocal, Goto
  <2>3. logic'[s] = "send" /\ target'[s] = c
    BY <2>2 DEF IInv, TypeOK
  <2>4. QED
    BY <1>4, <2>3 DEF carried, onItsWay
<1>8. CASE SendLocal(s)
  <2>1. logic[s] = "send" /\ logic'[s] = "reply" /\ inbox' = Sent(c, "notify", r)
    BY <1>8 DEF SendLocal, Goto, IInv, TypeOK
  <2>2. [kind |-> "notify", req |-> r] \in sentTo(c)'
    BY <2>1, SentGrows DEF IInv
  <2>3. QED
    BY <1>4, <2>1, <2>2 DEF carried, onItsWay
<1>9. CASE RouteRemote(s)
  <2>1. logic'[s] = "call"
    BY <1>9 DEF RouteRemote, Goto, IInv, TypeOK
  <2>2. PICK k : /\ k = [req |-> r, from |-> s, dest |-> d, pc |-> "get", target |-> None]
                 /\ k \in calls'
    BY <1>2, <1>9 DEF RouteRemote
  <2>3. k.from = s /\ k.dest = d /\ k.pc = "get"
    BY <2>2
  <2>4. QED
    BY <1>4, <2>1, <2>2, <2>3 DEF carried, onItsWay, d
<1>10. QED
  BY <1>5, <1>6, <1>7, <1>8, <1>9 DEF Text

(* A text in a call gets to its receiver before the call returns. *)
LEMMA CalledRight ==
  ASSUME IInv, AnswerInv, CallsAwaited, BoundTrail, [Next]_vars,
         NEW r \in Request, NEW c \in Conn, NEW s \in Server, s = Home[r.conn], s \notin RpcFails,
         addressed(r, c), io[c] = "reading", lq[s] # <<>>, req(s) = r, logic[s] = "call",
         NEW k \in calls, k.from = s, k.dest = Home[c],
         \/ k.pc = "get"
         \/ k.pc = "send" /\ k.target = c
         \/ k.pc = "return" /\ [kind |-> "notify", req |-> r] \in sentTo(c)
  PROVE  carried(r, c)'
<1> DEFINE t == [kind |-> "notify", req |-> r]
<1> DEFINE d == Home[c]
<1>1. d \in Server /\ r.to \in User /\ c # None
  BY ChatAssumption DEF Request
<1>2. bind[d][r.to] = c
  <2>1. loggedIn(c, r.to)
    BY DEF addressed
  <2>2. QED
    BY <1>1, <2>1 DEF BoundTrail, signedIn
<1>3. /\ k \in Call /\ k.req = r
      /\ \A l \in calls : l.from = s => l = k
  BY CallMeans
<1>4. t \in sentTo(c) => t \in sentTo(c)'
  BY NewItems
<1>5. lq'[s] # <<>> /\ req(s)' = r
  BY CallStays
<1>6. ASSUME NEW n \in calls', logic'[s] = "call", n.from = s, n.dest = d,
             \/ n.pc = "get"
             \/ n.pc = "send" /\ n.target = c
             \/ n.pc = "return" /\ t \in sentTo(c)'
      PROVE  carried(r, c)'
  BY <1>5, <1>6 DEF carried, onItsWay
<1>7. CASE RpcReturn(k)
  <2>1. k.pc = "return" /\ logic'[s] = "reply"
    BY <1>7, CallMeans DEF RpcReturn, IInv, TypeOK
  <2>2. t \in sentTo(c)'
    BY <1>4, <2>1
  <2>3. QED
    BY <1>5, <2>1, <2>2 DEF carried, onItsWay
<1>8. CASE ~RpcReturn(k)
  <2>1. logic'[s] = "call"
    BY <1>3, <1>8, CallStays
  <2>2. CASE RpcGet(k)
    <3>1. PICK n : n = [k EXCEPT !.pc = "send", !.target = c]
      OBVIOUS
    <3>2. k.pc = "get" /\ calls' = (calls \ {k}) \cup {n}
      BY <1>1, <1>2, <1>3, <2>2, <3>1 DEF RpcGet
    <3>3. n.from = s /\ n.dest = d /\ n.pc = "send" /\ n.target = c
      BY <1>3, <3>1 DEF Call
    <3>4. QED
      BY <1>6, <2>1, <3>2, <3>3
  <2>3. CASE RpcSend(k)
    <3>1. PICK n : n = [k EXCEPT !.pc = "return"]
      OBVIOUS
    <3>2. k.pc = "send" /\ k.target = c /\ calls' = (calls \ {k}) \cup {n}
      BY <2>3, <3>1 DEF RpcSend
    <3>3. n.from = s /\ n.dest = d /\ n.pc = "return"
      BY <1>3, <3>1 DEF Call
    <3>4. inbox' = Sent(c, "notify", r)
      BY <1>3, <2>3, <3>2 DEF RpcSend
    <3>5. t \in sentTo(c)'
      BY <3>4, SentGrows DEF IInv
    <3>6. QED
      BY <1>6, <2>1, <3>2, <3>3, <3>5
  <2>4. CASE ~RpcGet(k) /\ ~RpcSend(k)
    <3>1. k \in calls'
      <4>1. ASSUME NEW l \in calls, l # k, RpcGet(l) \/ RpcSend(l) \/ RpcReturn(l)
            PROVE  k \in calls'
        BY <4>1 DEF RpcGet, RpcSend, RpcReturn
      <4>2. ASSUME NEW q \in Server, RouteRemote(q)
            PROVE  k \in calls'
        BY <4>2 DEF RouteRemote
      <4>3. ASSUME NEW l \in calls, RpcLost(l)
            PROVE  l # k /\ k \in calls'
        BY <4>3, CallMeans DEF RpcLost
      <4>4. QED
        BY <1>8, <2>4, <4>1, <4>2, <4>3, CallsStep
    <3>2. QED
      BY <1>4, <1>6, <2>1, <3>1
  <2>5. QED
    BY <2>2, <2>3, <2>4
<1>9. QED
  BY <1>7, <1>8

LEMMA CarriedStays ==
  ASSUME IInv, AnswerInv, CallsAwaited, BoundTrail, [Next]_vars, NEW r \in Request, NEW c \in Conn,
         addressed(r, c), io[c] = "reading", Home[r.conn] \notin RpcFails, carried(r, c)
  PROVE  carried(r, c)'
<1> DEFINE t == [kind |-> "notify", req |-> r]
<1>1. PICK s \in Server : s = Home[r.conn]
  BY ChatAssumption DEF Request
<1>2. r.conn \in Conn /\ r.n \in Nat
  BY DEF Request
<1>3. t \in sentTo(c) => t \in sentTo(c)'
  BY NewItems
<1>4. CASE r.n <= answered(r.conn) /\ t \in sentTo(c)
  <2>1. r.n <= answered(r.conn)'
    BY <1>2, <1>4, AnsweredGrows
  <2>2. QED
    BY <1>3, <1>4, <2>1 DEF carried
<1>5. ASSUME onItsWay(r, c), logic[s] = "call"
      PROVE  carried(r, c)'
  <2>1. lq[s] # <<>> /\ req(s) = r
    BY <1>1, <1>5 DEF onItsWay
  <2>2. PICK k \in calls : /\ k.from = s /\ k.dest = Home[c]
                           /\ \/ k.pc = "get"
                              \/ k.pc = "send" /\ k.target = c
                              \/ k.pc = "return" /\ t \in sentTo(c)
    BY <1>1, <1>5 DEF onItsWay
  <2>3. QED
    BY <1>1, <1>5, <2>1, <2>2, CalledRight
<1>6. ASSUME onItsWay(r, c), logic[s] # "call"
      PROVE  carried(r, c)'
  <2>1. /\ lq[s] # <<>> /\ req(s) = r
        /\ \/ logic[s] = "text"
           \/ logic[s] = "find" /\ Home[c] = s
           \/ logic[s] = "send" /\ target[s] = c
           \/ logic[s] = "reply" /\ t \in sentTo(c)
    BY <1>1, <1>6 DEF onItsWay
  <2>2. CASE Reply(s)
    <3>1. logic[s] = "reply"
      BY <2>2 DEF Reply, Goto
    <3>2. r.n <= answered(r.conn)'
      BY <2>1, <2>2, <3>1, FrontAnswered
    <3>3. QED
      BY <1>3, <2>1, <3>1, <3>2 DEF carried
  <2>3. CASE Text(s)
    <3>1. logic[s] \in {"text", "find", "send"}
      BY <2>3 DEF Text, RouteNowhere, RouteLocal, FindLocal, SendLocal, RouteRemote, Goto
    <3>2. QED
      BY <1>1, <2>1, <2>3, <3>1, RoutedRight
  <2>4. CASE ~Reply(s) /\ ~Text(s)
    <3>1. ~Logic(s) /\ ~LoginRefuse(s)
      BY <2>1, <2>4 DEF Logic, Take, Login, LoginRefuse, LoginSetUid, LoginSetUip, LoginBind, Goto
    <3>2. lq'[s] # <<>> /\ req(s)' = r
      BY <2>1, <2>4, <3>1, FrontStays
    <3>3. ASSUME NEW k \in calls, k.from = s
          PROVE  ~awaited(k)
      BY <1>6, <3>3 DEF awaited
    <3>4. logic'[s] = logic[s] /\ target'[s] = target[s]
      BY <3>1, <3>3, HandlerStep
    <3>5. QED
      BY <1>1, <1>3, <2>1, <3>2, <3>4 DEF carried, onItsWay
  <2>5. QED
    BY <2>2, <2>3, <2>4
<1>7. QED
  BY <1>4, <1>5, <1>6 DEF carried

(* What a step adds to owed. *)
LEMMA OwedGrows ==
  ASSUME IInv, [Next]_vars, NEW o \in owed', o \notin owed
  PROVE  \E s \in Server, c \in Conn, r \in Request :
           /\ o = <<r, c>> /\ Take(s) /\ r = req(s) /\ Home[r.conn] = s
           /\ r.kind = "text" /\ online(c, r.to) /\ Home[c] \in Peer[s] \cup {s}
<1>1. ASSUME NEW c \in Conn, Client(c) \/ Insert(c) \/ Clear(c)
      PROVE  owed' = owed
  BY <1>1 DEF Client, Accept, Receive, LateReceive, Post, ReadError, BadHeader, WriteError, Insert,
              Clear, LateAbort, ClearFind,
              ClearMiss, ClearUnbind, ClearErase
<1>2. ASSUME NEW s \in Server, Logic(s), ~Take(s)
      PROVE  owed' = owed
  BY <1>2 DEF Logic, Login, LoginRefuse, LoginSetUid, LoginSetUip, LoginBind, Reply,
              Text, RouteNowhere, RouteLocal, FindLocal, SendLocal, RouteRemote
<1>3. ASSUME NEW k \in calls, Rpc(k) \/ RpcError(k) \/ RpcLost(k)
      PROVE  owed' = owed
  BY <1>3 DEF Rpc, RpcGet, RpcSend, RpcReturn, RpcError, RpcLost
<1>4. CASE UNCHANGED vars
  BY <1>4 DEF vars
<1>5. PICK s \in Server : Take(s)
  BY <1>1, <1>2, <1>3, <1>4 DEF Next
<1>6. PICK r \in Request : r = req(s) /\ Home[r.conn] = s
  <2>1. lq[s] # <<>>
    BY <1>5 DEF Take
  <2>2. req(s) \in Request /\ Home[req(s).conn] = s
    BY <2>1, FrontRequest, Fronts DEF IInv, TypeOK, req, Handling
  <2>3. QED
    BY <2>2
<1>7. PICK c \in Conn : /\ o = <<r, c>> /\ r.kind = "text" /\ online(c, r.to)
                        /\ Home[c] \in Peer[s] \cup {s}
  BY <1>5, <1>6 DEF Take
<1>8. QED
  BY <1>5, <1>6, <1>7

LEMMA StepOwed ==
  ASSUME IInv, AnswerInv, CallsAwaited, BoundTrail, OwedTrail, [Next]_vars
  PROVE  OwedTrail'
<1>1. ASSUME NEW o \in owed'
      PROVE  \E r \in Request, c \in Conn :
               /\ o = <<r, c>>
               /\ addressed(r, c)' /\ pending(r)'
               /\ io'[c] = "reading" /\ Home[r.conn] \notin RpcFails => carried(r, c)'
  <2>1. CASE o \in owed
    <3>1. PICK r \in Request, c \in Conn : o = <<r, c>>
      BY <2>1 DEF IInv, TypeOK
    <3>2. /\ addressed(r, c) /\ pending(r)
          /\ io[c] = "reading" /\ Home[r.conn] \notin RpcFails => carried(r, c)
      BY <2>1, <3>1 DEF OwedTrail, addressed, pending, carried
    <3>3. io'[c] = "reading" => io[c] = "reading"
      <4>1. r.to \in User
        BY DEF Request
      <4>2. loggedIn(c, r.to)'
        BY <3>2, AddressedStays DEF addressed
      <4>3. QED
        BY <4>1, <4>2, ReadingBefore
    <3>4. QED
      BY <3>1, <3>2, <3>3, AddressedStays, PendingStays, CarriedStays
  <2>2. CASE o \notin owed
    <3>1. PICK s \in Server, c \in Conn, r \in Request :
            /\ o = <<r, c>> /\ Take(s) /\ r = req(s) /\ Home[r.conn] = s
            /\ r.kind = "text" /\ online(c, r.to) /\ Home[c] \in Peer[s] \cup {s}
      BY <2>2, OwedGrows
    <3>2. /\ UNCHANGED <<lq, inbox>> /\ lq[s] # <<>> /\ logic' = [logic EXCEPT ![s] = "text"]
      BY <3>1 DEF Take, Goto
    <3>3. logic'[s] = "text" /\ lq'[s] # <<>> /\ req(s)' = r
      BY <3>1, <3>2 DEF IInv, TypeOK, req
    <3>4. addressed(r, c)'
      BY <3>1, <3>2 DEF addressed, online, loggedIn, sentTo
    <3>5. pending(r)'
      BY <3>1, <3>3 DEF pending
    <3>6. carried(r, c)'
      BY <3>1, <3>3 DEF carried, onItsWay
    <3>7. QED
      BY <3>1, <3>4, <3>5, <3>6
  <2>3. QED
    BY <2>1, <2>2
<1>2. ASSUME NEW o \in owed'
      PROVE  LET r == o[1]
                 c == o[2]
             IN /\ addressed(r, c)' /\ pending(r)'
                /\ io'[c] = "reading" /\ Home[r.conn] \notin RpcFails => carried(r, c)'
  <2>1. PICK r \in Request, c \in Conn :
               /\ o = <<r, c>>
               /\ addressed(r, c)' /\ pending(r)'
               /\ io'[c] = "reading" /\ Home[r.conn] \notin RpcFails => carried(r, c)'
    BY <1>1
  <2>2. o[1] = r /\ o[2] = c
    BY <2>1
  <2>3. QED
    BY <2>1, <2>2
<1>3. QED
  BY <1>2 DEF OwedTrail, addressed, pending, carried

LEMMA InitOwed == Init => OwedTrail
BY DEF Init, OwedTrail

(* A text that is answered is not on its way any more. *)
LEMMA OwedMeans ==
  ASSUME IInv, AnswerInv, OwedTrail
  PROVE  OwedIsDelivered
<1>1. ASSUME NEW r \in Request, NEW c \in Conn, <<r, c>> \in owed,
             [kind |-> "ok", req |-> r] \in sentTo(r.conn), io[c] = "reading",
             Home[r.conn] \notin RpcFails
      PROVE  [kind |-> "notify", req |-> r] \in sentTo(c)
  <2>1. carried(r, c)
    BY <1>1 DEF OwedTrail, carried
  <2>2. r.conn \in Conn /\ Home[r.conn] \in Server /\ r.n \in Nat
    BY ChatAssumption DEF Request
  <2>3. r.n <= answered(r.conn) /\ answered(r.conn) \in Nat
    <3>1. PICK i \in sentTo(r.conn) : i = [kind |-> "ok", req |-> r]
      BY <1>1
    <3>2. i.kind # "notify" /\ i.req = r
      BY <3>1
    <3>3. QED
      BY <2>2, <3>2, AnswerItems DEF IInv
  <2>4. ~onItsWay(r, c)
    <3>1. ASSUME lq[Home[r.conn]] # <<>>, req(Home[r.conn]) = r
          PROVE  r.n = answered(r.conn) + 1
      BY <2>2, <3>1, FrontIsNext DEF IInv
    <3>2. QED
      BY <2>2, <2>3, <3>1 DEF onItsWay
  <2>5. QED
    BY <2>1, <2>4 DEF carried
<1>2. ASSUME NEW o \in owed,
             [kind |-> "ok", req |-> o[1]] \in sentTo(o[1].conn), io[o[2]] = "reading",
             Home[o[1].conn] \notin RpcFails
      PROVE  [kind |-> "notify", req |-> o[1]] \in sentTo(o[2])
  <2>1. PICK r \in Request, c \in Conn : o = <<r, c>>
    BY DEF IInv, TypeOK
  <2>2. o[1] = r /\ o[2] = c /\ <<r, c>> \in owed
    BY <2>1
  <2>3. QED
    BY <1>1, <1>2, <2>2
<1>3. QED
  BY <1>2 DEF OwedIsDelivered

(* While a user's connections come one after the other, a text whose receiver was
   online when the handler took it, here or on a peer, and still is when the sender has
   its answer, has been sent to the receiver, unless calls of the sender's server fail
   (LogicSystem.cpp:474-526, ChatServiceImpl.cpp:88-118, ChatGrpcClient.cpp:98-135):
   the key names the receiver's server, its UserMgr knows the session, and the
   answer waits for the call. *)
THEOREM OwedTextsAreDelivered == Spec /\ []OneAtATime => []OwedIsDelivered
<1>1. IInv /\ AnswerInv /\ OrderInv /\ [Next]_vars => OrderInv'
  BY StepOrder
<1>2. IInv /\ AnswerInv /\ BoundTrail /\ OneAtATime /\ [Next]_vars => BoundTrail'
  BY StepBound
<1>3. IInv /\ AnswerInv /\ OrderInv /\ BoundTrail /\ OwedTrail /\ [Next]_vars => OwedTrail'
  BY StepOwed DEF OrderInv
<1>4. IInv /\ AnswerInv /\ OwedTrail => OwedIsDelivered
  BY OwedMeans
<1>5. QED
  BY <1>1, <1>2, <1>3, <1>4, InitAnswers, StepAnswers, InitOrder, InitBound, InitOwed, Inductive,
     PTL DEF Spec
=============================================================================
