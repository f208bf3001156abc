----------------------------- MODULE ChatServer -----------------------------
(***************************************************************************)
(* Who is connected where, and how a text message finds its receiver: the  *)
(* accept and clear path of CServer, the bindings of UserMgr, the login    *)
(* and text handlers of LogicSystem, the gRPC call between ChatServers and *)
(* the Redis keys uip_<uid> and logincount they share.                     *)
(*                                                                         *)
(* Threads.  The main io_context accepts; one io thread per connection     *)
(* reads it and clears it; one logic thread per server runs the handlers   *)
(* one after the other, holding the queue's mutex, so that an io thread    *)
(* posts only between two handlers; gRPC threads serve the calls of other  *)
(* servers.  Every access to shared state is a step: a locked section of   *)
(* UserMgr or CServer, a Redis command, a Send.                            *)
(*                                                                         *)
(* A session's send queue is SessionSend.tla, the logic queue              *)
(* LogicQueue.tla; here a Send appends to what the connection was sent.    *)
(***************************************************************************)
EXTENDS Naturals, Sequences, FiniteSets

CONSTANTS
  Server,     \* the ChatServers
  User,       \* the uids
  Conn,       \* the connections clients make
  Home,       \* Home[c]: the server connection c is made to
  Peer,       \* Peer[s]: the servers s has a stub pool for ([PeerServer])
  RpcFails,   \* the servers whose calls to others may fail
  LookupMisses, \* whether ClearSession's unlocked lookup may miss a session
              \* while another thread changes the map (a data race)
  Endings,    \* Endings[c]: the ways c may end (bound of the model)
  MaxReq,     \* MaxReq[c]: how many requests c sends (bound of the model)
  Asks,       \* Asks[c]: as whom c may log in and to whom it may write (bound of
              \* the model)
  None

ASSUME ChatAssumption ==
  /\ Home \in [Conn -> Server]
  /\ Peer \in [Server -> SUBSET Server]
  /\ RpcFails \subseteq Server
  /\ LookupMisses \in BOOLEAN
  /\ Endings \in [Conn -> SUBSET {"read", "header", "write"}]
  /\ MaxReq \in [Conn -> Nat]
  /\ Asks \in [Conn -> SUBSET ({"login", "text"} \X User)]
  /\ None \notin Server \cup User \cup Conn

VARIABLES
  acc,       \* where HandleAccept is with connection c
  io,        \* where c's io thread is
  abort,     \* a read of c has not been handled when HandleWrite closes the socket
  werr,      \* HandleWrite of c has been called with an error
  iouid,     \* the uid ClearSession has read from c's session
  uid,       \* _user_uid of c's session
  sessions,  \* sessions[s]: CServer::_sessions of server s
  bind,      \* bind[s][u]: UserMgr::_uid_to_session of server s
  uip,       \* uip[u]: the Redis key uip_<u>
  count,     \* count[s]: the field s of the Redis hash logincount
  asked,     \* asked[c]: how many requests c has sent
  lq,        \* lq[s]: the logic queue of s
  logic,     \* where the logic thread of s is
  target,    \* the session the logic thread of s has got from UserMgr
  calls,     \* the gRPC handlers under way
  inbox,     \* inbox[c]: what Send was given for c (history)
  owed,      \* which texts were taken while their receiver was online, on this
             \* server or on a peer of it (history)
  quiet      \* the connections that were in _sessions and had all their answers
             \* when they ended, and that no lookup missed (history)

connVars == <<acc, io, abort, werr, iouid, asked, quiet>>
logicVars == <<lq, logic, target>>
vars == <<acc, io, abort, werr, iouid, uid, sessions, bind, uip, count, asked, lq, logic,
          target, calls, inbox, owed, quiet>>

Request == [conn : Conn, n : Nat, kind : {"login", "text"}, to : User]

(* What a connection is sent: the answer to a request, or a text. *)
Item == [kind : {"ok", "refused", "notify"}, req : Request]

Call == [req : Request, from : Server, dest : Server, pc : {"get", "send", "return"},
         target : Conn \cup {None}]

Init ==
  /\ acc = [c \in Conn |-> "none"]
  /\ io = [c \in Conn |-> "none"]
  /\ abort = [c \in Conn |-> FALSE]
  /\ werr = [c \in Conn |-> FALSE]
  /\ iouid = [c \in Conn |-> None]
  /\ uid = [c \in Conn |-> None]
  /\ sessions = [s \in Server |-> {}]
  /\ bind = [s \in Server |-> [u \in User |-> None]]
  /\ uip = [u \in User |-> None]
  /\ count = [s \in Server |-> 0]
  /\ asked = [c \in Conn |-> 0]
  /\ lq = [s \in Server |-> <<>>]
  /\ logic = [s \in Server |-> "idle"]
  /\ target = [s \in Server |-> None]
  /\ calls = {}
  /\ inbox = [c \in Conn |-> <<>>]
  /\ owed = {}
  /\ quiet = {}

(* The users that may log in on c, one after the other. *)
Logins(c) == {u \in User : <<"login", u>> \in Asks[c]}

(* Send: one more item for the connection. *)
Sent(c, kind, r) == [inbox EXCEPT ![c] = Append(@, [kind |-> kind, req |-> r])]

sentTo(c) == {inbox[c][i] : i \in 1..Len(inbox[c])}

loggedIn(c, u) ==
  \E i \in sentTo(c) : i.kind = "ok" /\ i.req.kind = "login" /\ i.req.to = u

(* Which of these items are answers, and how many answers c was sent. *)
answerPlaces(items) == {i \in 1..Len(items) : items[i].kind # "notify"}

answered(c) == Cardinality(answerPlaces(inbox[c]))

(* The client has its login answer and its connection has not ended. *)
online(c, u) == loggedIn(c, u) /\ io[c] = "reading"
-------------------------------------------------------------------------------
(* HandleAccept: the session starts to read ... *)
Accept(c) ==
  /\ acc[c] = "none"
  /\ acc' = [acc EXCEPT ![c] = "started"]
  /\ io' = [io EXCEPT ![c] = "reading"]
  /\ UNCHANGED <<abort, werr, iouid, uid, sessions, bind, uip, count, asked, logicVars, calls,
                 inbox, owed, quiet>>

(* ... and only then is put into _sessions, under the lock. *)
Insert(c) ==
  /\ acc[c] = "started"
  /\ acc' = [acc EXCEPT ![c] = "done"]
  /\ sessions' = [sessions EXCEPT ![Home[c]] = @ \cup {c}]
  /\ UNCHANGED <<io, abort, werr, iouid, uid, bind, uip, count, asked, logicVars, calls,
                 inbox, owed, quiet>>

(* PostMsgToQue: one more message for the logic thread, whose queue is locked while
   a handler runs.  A session may log in again, as another user. *)
Post(c, kind, to) ==
  /\ asked[c] < MaxReq[c]
  /\ logic[Home[c]] = "idle"
  /\ <<kind, to>> \in Asks[c]
  /\ asked' = [asked EXCEPT ![c] = @ + 1]
  /\ lq' = [lq EXCEPT ![Home[c]] =
             Append(@, [conn |-> c, n |-> asked[c] + 1, kind |-> kind, to |-> to])]
  /\ UNCHANGED <<acc, abort, werr, iouid, uid, sessions, bind, uip, count, logic, target,
                 calls, inbox, owed>>

(* A whole message has been read. *)
Receive(c, kind, to) ==
  /\ io[c] = "reading"
  /\ Post(c, kind, to)
  /\ UNCHANGED <<io, quiet>>

(* Connection c ends: is it in the map, and has it all its answers? *)
Ends(c) ==
  quiet' = IF acc[c] = "done" /\ answered(c) = asked[c] THEN quiet \cup {c} ELSE quiet

(* A read fails or comes up short: Close, then ClearSession. *)
ReadError(c) ==
  /\ "read" \in Endings[c]
  /\ io[c] = "reading"
  /\ io' = [io EXCEPT ![c] = "find"]
  /\ Ends(c)
  /\ UNCHANGED <<acc, abort, werr, iouid, uid, sessions, bind, uip, count, asked, logicVars, calls,
                 inbox, owed>>

(* A header with an id or a length beyond MAX_LENGTH: ClearSession without
   Close, and nothing more is read. *)
BadHeader(c) ==
  /\ "header" \in Endings[c]
  /\ io[c] = "reading"
  /\ io' = [io EXCEPT ![c] = "find"]
  /\ Ends(c)
  /\ UNCHANGED <<acc, abort, werr, iouid, uid, sessions, bind, uip, count, asked, logicVars,
                 calls, inbox, owed>>

(* HandleWrite gets an error, once at most (SessionSend.tla): Close and
   ClearSession.  The handler of the read that was pending comes after that.
   Whether an item's write is still under way is not tracked here, so that any
   item sent may fail late. *)
WriteError(c) ==
  /\ "write" \in Endings[c]
  /\ io[c] \in {"reading", "ended"}
  /\ inbox[c] # <<>>
  /\ ~werr[c]
  /\ werr' = [werr EXCEPT ![c] = TRUE]
  /\ abort' = [abort EXCEPT ![c] = io[c] = "reading"]
  /\ io' = [io EXCEPT ![c] = "find"]
  /\ IF io[c] = "reading" THEN Ends(c) ELSE UNCHANGED quiet
  /\ UNCHANGED <<acc, iouid, uid, sessions, bind, uip, count, asked, logicVars, calls,
                 inbox, owed>>

(* Mutant of ClearFind: RmvUserSession is never called. *)
ClearFindNoUnbind(c) ==
  /\ io[c] = "find"
  /\ io' = [io EXCEPT ![c] = "erase"]
  /\ UNCHANGED <<acc, abort, werr, iouid, uid, sessions, bind, uip, count, asked, logicVars, calls,
                 inbox, owed, quiet>>

(* ClearSession: look the session up, without the lock, and read its uid ... *)
ClearFind(c) ==
  /\ io[c] = "find"
  /\ IF c \in sessions[Home[c]]
     THEN /\ iouid' = [iouid EXCEPT ![c] = uid[c]]
          /\ io' = [io EXCEPT ![c] = "unbind"]
     ELSE /\ io' = [io EXCEPT ![c] = "erase"]
          /\ UNCHANGED iouid
  /\ UNCHANGED <<acc, abort, werr, uid, sessions, bind, uip, count, asked, logicVars, calls,
                 inbox, owed, quiet>>

(* The lookup runs while another thread inserts into the map or erases from it,
   and does not find the session although it is there. *)
ClearMiss(c) ==
  /\ LookupMisses
  /\ io[c] = "find"
  /\ \E d \in Conn \ {c} : Home[d] = Home[c] /\ (acc[d] = "started" \/ io[d] = "erase")
  /\ io' = [io EXCEPT ![c] = "erase"]
  /\ quiet' = quiet \ {c}
  /\ UNCHANGED <<acc, abort, werr, iouid, uid, sessions, bind, uip, count, asked,
                 logicVars, calls, inbox, owed>>

(* ... RmvUserSession: drop whatever session that uid is bound to (a session
   that never logged in has uid 0, which nobody is bound under) ... *)
ClearUnbind(c) ==
  /\ io[c] = "unbind"
  /\ bind' = [bind EXCEPT ![Home[c]] =
               [u \in User |-> IF u = iouid[c] THEN None ELSE @[u]]]
  /\ iouid' = [iouid EXCEPT ![c] = None]
  /\ io' = [io EXCEPT ![c] = "erase"]
  /\ UNCHANGED <<acc, abort, werr, uid, sessions, uip, count, asked, logicVars, calls,
                 inbox, owed, quiet>>

(* ... and erase the session, under the lock.  The read that HandleWrite has cut off
   comes next. *)
ClearErase(c) ==
  /\ io[c] = "erase"
  /\ sessions' = [sessions EXCEPT ![Home[c]] = @ \ {c}]
  /\ io' = [io EXCEPT ![c] = IF abort[c] THEN "late" ELSE "ended"]
  /\ abort' = [abort EXCEPT ![c] = FALSE]
  /\ UNCHANGED <<acc, werr, iouid, uid, bind, uip, count, asked, logicVars, calls,
                 inbox, owed, quiet>>

(* It was aborted: ClearSession once more. *)
LateAbort(c) ==
  /\ io[c] = "late"
  /\ io' = [io EXCEPT ![c] = "find"]
  /\ UNCHANGED <<acc, abort, werr, iouid, uid, sessions, bind, uip, count, asked,
                 logicVars, calls, inbox, owed, quiet>>

(* It had already completed a message, which is posted for the session that was
   cleared; the next read fails, and ClearSession once more. *)
LateReceive(c, kind, to) ==
  /\ io[c] = "late"
  /\ Post(c, kind, to)
  /\ io' = [io EXCEPT ![c] = "find"]
  /\ quiet' = quiet \ {c}
-------------------------------------------------------------------------------
req(s) == Head(lq[s])

(* The handler of s moves on from one place to another. *)
Goto(s, from, to) ==
  /\ logic[s] = from
  /\ logic' = [logic EXCEPT ![s] = to]

(* The handler looks at the front of the queue; it is popped at the end. *)
Take(s) ==
  /\ lq[s] # <<>>
  /\ Goto(s, "idle", req(s).kind)
  /\ owed' = owed \cup
       {<<req(s), c>> : c \in {d \in Conn : /\ req(s).kind = "text"
                                        /\ online(d, req(s).to)
                                        /\ Home[d] \in Peer[s] \cup {s}}}
  /\ UNCHANGED <<connVars, uid, sessions, bind, uip, count, lq, target, calls, inbox>>

(* Mutant of LoginRefuse: answers at the error and again when it returns. *)
LoginRefuseTwice(s) ==
  /\ Goto(s, "login", "idle")
  /\ inbox' = [inbox EXCEPT ![req(s).conn] =
                 @ \o [i \in 1..2 |-> [kind |-> "refused", req |-> req(s)]]]
  /\ lq' = [lq EXCEPT ![s] = Tail(@)]
  /\ UNCHANGED <<connVars, uid, sessions, bind, uip, count, target, calls, owed>>

(* LoginHandler: no token in Redis, another token, or no such user. *)
LoginRefuse(s) ==
  /\ Goto(s, "login", "idle")
  /\ inbox' = Sent(req(s).conn, "refused", req(s))
  /\ lq' = [lq EXCEPT ![s] = Tail(@)]
  /\ UNCHANGED <<connVars, uid, sessions, bind, uip, count, target, calls, owed>>

(* LoginHandler, token and user found: HGET and HSET of the login count, which
   nobody else touches while the server runs, and the uid is stored in the
   session, ... *)
LoginSetUid(s) ==
  /\ Goto(s, "login", "setuip")
  /\ count' = [count EXCEPT ![s] = @ + 1]
  /\ uid' = [uid EXCEPT ![req(s).conn] = req(s).to]
  /\ UNCHANGED <<connVars, sessions, bind, uip, lq, target, calls, inbox, owed>>

(* ... this server in the key uip_<uid>, ... *)
LoginSetUip(s) ==
  /\ Goto(s, "setuip", "bind")
  /\ uip' = [uip EXCEPT ![req(s).to] = s]
  /\ UNCHANGED <<connVars, uid, sessions, bind, count, lq, target, calls, inbox, owed>>

(* Mutant: a session that the user has already is kept. *)
LoginBindIfNone(s) ==
  /\ Goto(s, "bind", "reply")
  /\ bind' = IF bind[s][req(s).to] = None
              THEN [bind EXCEPT ![s][req(s).to] = req(s).conn] ELSE bind
  /\ UNCHANGED <<connVars, uid, sessions, uip, count, lq, target, calls, inbox, owed>>

(* ... and the session in UserMgr, in the place of one from before, ... *)
LoginBind(s) ==
  /\ Goto(s, "bind", "reply")
  /\ bind' = [bind EXCEPT ![s][req(s).to] = req(s).conn]
  /\ UNCHANGED <<connVars, uid, sessions, uip, count, lq, target, calls, inbox, owed>>

(* The answer of either handler goes out when it returns (its Defer object),
   and the request is popped. *)
Reply(s) ==
  /\ Goto(s, "reply", "idle")
  /\ inbox' = Sent(req(s).conn, "ok", req(s))
  /\ lq' = [lq EXCEPT ![s] = Tail(@)]
  /\ UNCHANGED <<connVars, uid, sessions, bind, uip, count, target, calls, owed>>
-------------------------------------------------------------------------------
(* DealChatTextMsg: where is the receiver?  Nowhere, or on a server this one has no
   stubs for, for which the call returns at once: the text is dropped. *)
RouteNowhere(s) ==
  /\ Goto(s, "text", "reply")
  /\ uip[req(s).to] \notin Peer[s] \cup {s}
  /\ UNCHANGED <<connVars, uid, sessions, bind, uip, count, lq, target, calls, inbox, owed>>

(* Here ... *)
RouteLocal(s) ==
  /\ Goto(s, "text", "find")
  /\ uip[req(s).to] = s
  /\ UNCHANGED <<connVars, uid, sessions, bind, uip, count, lq, target, calls, inbox, owed>>

(* Mutant: GetSession of the user who sends. *)
FindLocalSender(s) ==
  /\ LET u == uid[req(s).conn]
         c == IF u = None THEN None ELSE bind[s][u]
     IN  /\ Goto(s, "find", IF c = None THEN "reply" ELSE "send")
         /\ target' = [target EXCEPT ![s] = c]
  /\ UNCHANGED <<connVars, uid, sessions, bind, uip, count, lq, calls, inbox, owed>>

(* ... GetSession, and if there is none the text is dropped; ... *)
FindLocal(s) ==
  /\ LET c == bind[s][req(s).to]
     IN  /\ Goto(s, "find", IF c = None THEN "reply" ELSE "send")
         /\ target' = [target EXCEPT ![s] = c]
  /\ UNCHANGED <<connVars, uid, sessions, bind, uip, count, lq, calls, inbox, owed>>

(* ... the text is sent on the session found, whatever has happened to it. *)
SendLocal(s) ==
  /\ Goto(s, "send", "reply")
  /\ inbox' = Sent(target[s], "notify", req(s))
  /\ target' = [target EXCEPT ![s] = None]
  /\ UNCHANGED <<connVars, uid, sessions, bind, uip, count, lq, calls, owed>>

(* Mutant of RouteRemote: the call is asynchronous. *)
RouteRemoteAsync(s) ==
  /\ Goto(s, "text", "reply")
  /\ uip[req(s).to] \in Peer[s] \ {s}
  /\ calls' = calls \cup {[req |-> req(s), from |-> s, dest |-> uip[req(s).to],
                           pc |-> "get", target |-> None]}
  /\ UNCHANGED <<connVars, uid, sessions, bind, uip, count, lq, target, inbox, owed>>

(* On a peer: the logic thread calls it and waits. *)
RouteRemote(s) ==
  /\ Goto(s, "text", "call")
  /\ uip[req(s).to] \in Peer[s] \ {s}
  /\ calls' = calls \cup {[req |-> req(s), from |-> s, dest |-> uip[req(s).to],
                           pc |-> "get", target |-> None]}
  /\ UNCHANGED <<connVars, uid, sessions, bind, uip, count, lq, target, inbox, owed>>

(* Mutants of RpcGet: the call is looked up among the caller's sessions; it is
   served by the logic thread. *)
RpcGetAtCaller(k) ==
  /\ k.pc = "get"
  /\ LET c == bind[k.from][k.req.to]
     IN  calls' = (calls \ {k}) \cup
           {[k EXCEPT !.pc = IF c = None THEN "return" ELSE "send", !.target = c]}
  /\ UNCHANGED <<connVars, uid, sessions, bind, uip, count, logicVars, inbox, owed>>

RpcGetOnLogicThread(k) ==
  /\ k.pc = "get"
  /\ logic[k.dest] = "idle"
  /\ LET c == bind[k.dest][k.req.to]
     IN  calls' = (calls \ {k}) \cup
           {[k EXCEPT !.pc = IF c = None THEN "return" ELSE "send", !.target = c]}
  /\ UNCHANGED <<connVars, uid, sessions, bind, uip, count, logicVars, inbox, owed>>

(* ChatServiceImpl::NotifyTextChatMsg, on a gRPC thread of the peer: find the
   receiver's session ... *)
RpcGet(k) ==
  /\ k.pc = "get"
  /\ LET c == bind[k.dest][k.req.to]
     IN  calls' = (calls \ {k}) \cup
           {[k EXCEPT !.pc = IF c = None THEN "return" ELSE "send", !.target = c]}
  /\ UNCHANGED <<connVars, uid, sessions, bind, uip, count, logicVars, inbox, owed>>

(* ... and send the text on it. *)
RpcSend(k) ==
  /\ k.pc = "send"
  /\ inbox' = Sent(k.target, "notify", k.req)
  /\ calls' = (calls \ {k}) \cup {[k EXCEPT !.pc = "return"]}
  /\ UNCHANGED <<connVars, uid, sessions, bind, uip, count, logicVars, owed>>

(* The caller waits for this call. *)
awaited(k) == logic[k.from] = "call" /\ req(k.from) = k.req

(* The handler has returned: the caller goes on, if it still waits. *)
RpcReturn(k) ==
  /\ k.pc = "return"
  /\ calls' = calls \ {k}
  /\ logic' = IF awaited(k) THEN [logic EXCEPT ![k.from] = "reply"] ELSE logic
  /\ UNCHANGED <<connVars, uid, sessions, bind, uip, count, lq, target, inbox, owed>>

(* The call fails for the caller, which ignores that; the handler runs on. *)
RpcError(k) ==
  /\ k.from \in RpcFails
  /\ awaited(k)
  /\ logic' = [logic EXCEPT ![k.from] = "reply"]
  /\ UNCHANGED <<connVars, uid, sessions, bind, uip, count, lq, target, calls, inbox, owed>>

(* The call fails before it reaches the peer. *)
RpcLost(k) ==
  /\ k.from \in RpcFails
  /\ awaited(k)
  /\ k.pc = "get"
  /\ calls' = calls \ {k}
  /\ logic' = [logic EXCEPT ![k.from] = "reply"]
  /\ UNCHANGED <<connVars, uid, sessions, bind, uip, count, lq, target, inbox, owed>>
-------------------------------------------------------------------------------
Client(c) ==
  \/ Accept(c)
  \/ \E kind \in {"login", "text"}, to \in User : Receive(c, kind, to) \/ LateReceive(c, kind, to)
  \/ ReadError(c)
  \/ BadHeader(c)
  \/ WriteError(c)

Clear(c) ==
  ClearFind(c) \/ ClearMiss(c) \/ ClearUnbind(c) \/ ClearErase(c) \/ LateAbort(c)

Login(s) ==
  LoginRefuse(s) \/ LoginSetUid(s) \/ LoginSetUip(s) \/ LoginBind(s)

Text(s) ==
  RouteNowhere(s) \/ RouteLocal(s) \/ FindLocal(s) \/ SendLocal(s) \/ RouteRemote(s)

Logic(s) == Take(s) \/ Login(s) \/ Text(s) \/ Reply(s)

Rpc(k) == RpcGet(k) \/ RpcSend(k) \/ RpcReturn(k)

Next ==
  \/ \E c \in Conn : Client(c) \/ Insert(c) \/ Clear(c)
  \/ \E s \in Server : Logic(s)
  \/ \E k \in calls : Rpc(k) \/ RpcError(k) \/ RpcLost(k)

(* Every thread that has something to do goes on: the acceptor, the io threads
   in ClearSession, the logic threads, the gRPC threads.  Clients and the
   network owe nothing. *)
Fairness ==
  /\ \A c \in Conn : WF_vars(Insert(c)) /\ WF_vars(Clear(c))
  /\ \A s \in Server : WF_vars(Logic(s))
  /\ WF_vars(\E k \in calls : Rpc(k))

Spec == Init /\ [][Next]_vars /\ Fairness
-------------------------------------------------------------------------------
IoPlaces == {"none", "reading", "find", "unbind", "erase", "late", "ended"}

LogicPlaces ==
  {"idle", "login", "setuip", "bind", "text", "find", "send", "call", "reply"}

TypeOK ==
  /\ acc \in [Conn -> {"none", "started", "done"}]
  /\ io \in [Conn -> IoPlaces]
  /\ abort \in [Conn -> BOOLEAN]
  /\ werr \in [Conn -> BOOLEAN]
  /\ iouid \in [Conn -> User \cup {None}]
  /\ uid \in [Conn -> User \cup {None}]
  /\ sessions \in [Server -> SUBSET Conn]
  /\ bind \in [Server -> [User -> Conn \cup {None}]]
  /\ uip \in [User -> Server \cup {None}]
  /\ count \in [Server -> Nat]
  /\ asked \in [Conn -> Nat]
  /\ lq \in [Server -> Seq(Request)]
  /\ logic \in [Server -> LogicPlaces]
  /\ target \in [Server -> Conn \cup {None}]
  /\ calls \subseteq Call
  /\ inbox \in [Conn -> Seq(Item)]
  /\ owed \subseteq Request \X Conn
  /\ quiet \subseteq Conn

(* The login handler of c's server has the request of c to log in as u at hand. *)
loggingIn(c, u) ==
  LET s == Home[c]
  IN  lq[s] # <<>> /\ req(s).conn = c /\ req(s).kind = "login" /\ req(s).to = u

(* User u has logged in on c, if only the answer is still due. *)
signedIn(c, u) == loggedIn(c, u) \/ (logic[Home[c]] = "reply" /\ loggingIn(c, u))

(* A text goes to connections on which its receiver has logged in, whatever other users
   logged in on them before or after, whichever connection the receiver has left or
   opened meanwhile, and whichever server the text comes from (LogicSystem.cpp:481-511,
   ChatServiceImpl.cpp:88-118). *)
TextsReachReceiver ==
  \A c \in Conn : \A i \in sentTo(c) : i.kind = "notify" => signedIn(c, i.req.to)

(* What makes it inductive: a session UserMgr knows a user by, and one that a handler
   has got from it, is one on which the user has logged in, and of this server; ... *)
BindingsSignedIn ==
  /\ \A s \in Server, u \in User :
       bind[s][u] # None => signedIn(bind[s][u], u) /\ Home[bind[s][u]] = s
  /\ \A s \in Server :
       logic[s] = "send" => target[s] # None /\ signedIn(target[s], req(s).to)
  /\ \A k \in calls : k.pc = "send" => k.target # None /\ signedIn(k.target, k.req.to)

SignedInv == BindingsSignedIn /\ TextsReachReceiver

(* Its connection may send this request. *)
allowed(r) == <<r.kind, r.to>> \in Asks[r.conn]

(* ... the requests in a queue are its server's, and a handler is where its request
   leads. *)
Handling ==
  /\ \A s \in Server : \A i \in 1..Len(lq[s]) :
       Home[lq[s][i].conn] = s /\ allowed(lq[s][i])
  /\ \A s \in Server :
       /\ logic[s] # "idle" => lq[s] # <<>>
       /\ logic[s] \in {"login", "setuip", "bind"} => req(s).kind = "login"
       /\ logic[s] \in {"text", "find", "send", "call"} => req(s).kind = "text"

IInv == TypeOK /\ Handling

(* The k-th answer among these items is to the k-th request of c. *)
inOrder(c, items) ==
  \A i \in answerPlaces(items) :
    /\ items[i].req.conn = c
    /\ items[i].req.n = Cardinality({j \in answerPlaces(items) : j <= i})

(* A connection gets one answer to each of its requests, in the order it sent
   them, whatever is sent to it by others in between. *)
AnsweredInOrder ==
  \A c \in Conn :
    /\ answered(c) <= asked[c]
    /\ inOrder(c, inbox[c])

(* What makes it inductive: the requests of a connection that are in the queue
   are the ones it has no answer to, in the order it sent them. *)
numbers(q, c) == {q[i].n : i \in {k \in 1..Len(q) : q[k].conn = c}}

rising(q, c) ==
  \A i, j \in 1..Len(q) : (i < j /\ q[i].conn = c /\ q[j].conn = c) => q[i].n < q[j].n

Unanswered ==
  \A c \in Conn :
    /\ rising(lq[Home[c]], c)
    /\ numbers(lq[Home[c]], c) = (answered(c) + 1)..asked[c]

AnswerInv == AnsweredInOrder /\ Unanswered

(* The texts of one sender reach a connection in the order they were sent, and
   each at most once, unless calls of the sender's server fail, which leaves their
   handlers running: the logic thread waits for a call before it goes on. *)
SenderOrder ==
  \A c \in Conn : \A i, j \in 1..Len(inbox[c]) :
    LET a == inbox[c][i]
        b == inbox[c][j]
    IN  (/\ i < j /\ a.kind = "notify" /\ b.kind = "notify"
         /\ a.req.conn = b.req.conn /\ Home[a.req.conn] \notin RpcFails)
          => a.req.n < b.req.n

(* What makes it inductive: a call under way of a server whose calls do not fail is the
   one this server waits for, and a text that was sent belongs to a request that is
   answered, or that the handler at the front has sent. *)
CallsAwaited ==
  \A k \in calls :
    /\ k.from = Home[k.req.conn]
    /\ k.from \notin RpcFails => awaited(k) /\ \A l \in calls : l.from = k.from => l = k

passedOn(r) ==
  LET s == Home[r.conn]
  IN  /\ lq[s] # <<>> /\ req(s) = r
      /\ \/ logic[s] = "reply"
         \/ logic[s] = "call" /\ \E k \in calls : k.from = s /\ k.pc = "return"

TextsPassedOn ==
  \A c \in Conn : \A i \in sentTo(c) :
    (i.kind = "notify" /\ Home[i.req.conn] \notin RpcFails) =>
      i.req.n <= answered(i.req.conn) \/ passedOn(i.req)

OrderInv == CallsAwaited /\ TextsPassedOn /\ SenderOrder

(* ChatServer.md:186: UserMgr tells whether a user is online on this server.
   A client that has its login answer and is still connected is bound to its
   connection, and uip_<uid> names its server. *)
OnlineIsBound ==
  \A c \in Conn, u \in User :
    online(c, u) => bind[Home[c]][u] = c /\ uip[u] = Home[c]

(* That holds while a user's connections come one after the other: while one is
   read no other has a request open, is read itself, or is about to unbind a
   user; whatever an earlier one has left behind. *)
OneAtATime ==
  \A c, d \in Conn :
    (c # d /\ Logins(c) \cap Logins(d) # {} /\ io[c] = "reading") =>
      io[d] \notin {"reading", "unbind"} /\ answered(d) = asked[d]

OnlineInTurn == []OneAtATime => []OnlineIsBound

(* What makes it inductive: the login handler at work on a request of c has set
   the key, and then the binding, before it answers, and only c's own end removes
   them. *)
BoundTrail ==
  \A c \in Conn :
    LET s == Home[c]
    IN  /\ iouid[c] \in Logins(c) \cup {None} /\ uid[c] \in Logins(c) \cup {None}
        /\ \A u \in User : loggedIn(c, u) => u \in Logins(c)
        /\ acc[c] = "none" => io[c] = "none" /\ asked[c] = 0
        /\ io[c] = "reading" => \A u \in User :
             /\ loggedIn(c, u) \/ (logic[s] \in {"bind", "reply"} /\ loggingIn(c, u))
                  => uip[u] = s
             /\ signedIn(c, u) => bind[s][u] = c

(* A text whose receiver was online when it was taken, and is so when it is
   answered, has been sent to the receiver, on this server or on a peer, unless
   calls of the sender's server fail. *)
OwedIsDelivered ==
  \A o \in owed :
    LET r == o[1]
        c == o[2]
    IN  (/\ [kind |-> "ok", req |-> r] \in sentTo(r.conn) /\ io[c] = "reading"
         /\ Home[r.conn] \notin RpcFails)
          => [kind |-> "notify", req |-> r] \in sentTo(c)

(* What makes it inductive: the text is on its way to c, in the place its handler
   has reached. *)
onItsWay(r, c) ==
  LET s == Home[r.conn]
      there == [kind |-> "notify", req |-> r] \in sentTo(c)
  IN  /\ lq[s] # <<>> /\ req(s) = r
      /\ \/ logic[s] = "text"
         \/ logic[s] = "find" /\ Home[c] = s
         \/ logic[s] = "send" /\ target[s] = c
         \/ logic[s] = "call" /\ \E k \in calls :
                                   /\ k.from = s /\ k.dest = Home[c]
                                   /\ \/ k.pc = "get"
                                      \/ k.pc = "send" /\ k.target = c
                                      \/ k.pc = "return" /\ there
         \/ logic[s] = "reply" /\ there

OwedTrail ==
  \A o \in owed :
    LET r == o[1]
        c == o[2]
    IN  /\ r.kind = "text" /\ loggedIn(c, r.to)
        /\ Home[c] \in Peer[Home[r.conn]] \cup {Home[r.conn]}
        /\ \/ r.n <= answered(r.conn)
           \/ lq[Home[r.conn]] # <<>> /\ req(Home[r.conn]) = r /\ logic[Home[r.conn]] # "idle"
        /\ (io[c] = "reading" /\ Home[r.conn] \notin RpcFails) =>
             \/ onItsWay(r, c)
             \/ r.n <= answered(r.conn) /\ [kind |-> "notify", req |-> r] \in sentTo(c)

(* The user that c logged in as last is not bound to it. *)
unbound(c) == \A u \in User : uid[c] = u => bind[Home[c]][u] # c

(* A connection that had its answers before it ended, and that ClearSession's
   lookup does not miss, is in no map of its server under its own uid once
   ClearSession is through.  Users that logged in on it before stay bound to it:
   the session knows its last uid only (CSession.h:67, CServer.cpp:55-62). *)
QuietEndUnbinds ==
  \A c \in quiet :
    io[c] = "ended" =>
      /\ c \notin sessions[Home[c]]
      /\ unbound(c)

(* What makes it inductive: while c is read it is in the map of its server, and
   nothing is asked for it any more once it has ended quietly, so that what its
   first clearing removes stays removed. *)
InMap ==
  \A c \in Conn : (acc[c] = "done" /\ io[c] = "reading") => c \in sessions[Home[c]]

QuietTrail ==
  \A c \in quiet :
    /\ acc[c] = "done" /\ io[c] \in {"find", "unbind", "erase", "late", "ended"}
    /\ answered(c) = asked[c]
    /\ io[c] = "find" => c \in sessions[Home[c]] \/ unbound(c)
    /\ io[c] = "unbind" => iouid[c] = uid[c]
    /\ io[c] = "erase" => unbound(c)
    /\ io[c] \in {"late", "ended"} => c \notin sessions[Home[c]] /\ unbound(c)

QuietInv == InMap /\ QuietTrail

(* Every request is answered: no two servers wait for each other. *)
Answered ==
  \A c \in Conn : (answered(c) < asked[c]) ~> (answered(c) = asked[c])

-------------------------------------------------------------------------------
(* ChatServer.md:186: UserMgr tells whether a user is online on this server, be it on a
   newer connection than c. *)
OnlineHasBinding ==
  \A c \in Conn, u \in User : online(c, u) => bind[Home[c]][u] # None
===============================================================================
