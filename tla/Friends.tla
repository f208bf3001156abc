------------------------------ MODULE Friends ------------------------------
(***************************************************************************)
(* Applying for a friendship and accepting it: the handlers AddFriendApply *)
(* and AuthFriendApply with the notifications they send within a server    *)
(* and between servers, the lists a login reads, and the MySQL tables      *)
(* beneath, seen through pooled connections of which some are inside a     *)
(* transaction: AddFriend turns autocommit off and nobody turns it on.     *)
(*                                                                         *)
(* A row is a fact: that p[1] applied to p[2], that the application was    *)
(* accepted (status 1), or that p[2] stands in p[1]'s friend list.  Rows   *)
(* are only ever added, so the tables are a set of facts and a transaction *)
(* the set of those it has written and not committed.                      *)
(*                                                                         *)
(* Queue, sessions and bindings are those of ChatServer.tla: here a user   *)
(* has one session at a time, on the server Home[u], and leaves it when no *)
(* handler works for it; calls do not fail; a server's pool never runs     *)
(* empty for its one logic thread (MySqlPool.tla).                         *)
(***************************************************************************)
EXTENDS Naturals, FiniteSets

CONSTANTS
  Server,    \* the ChatServers
  User,      \* the uids, all registered
  Home,      \* Home[u]: the server u connects to
  DbConn,    \* the MySQL connections
  Pool,      \* Pool[k]: the server whose pool has connection k
  Wishes,    \* who may apply to whom (bound of the model)
  Budgets,   \* how many requests of a kind each user may send (bound of the model)
  None

Kind == {"login", "apply", "accept", "search"}

ASSUME FriendsAssumption ==
  /\ Home \in [User -> Server]
  /\ Pool \in [DbConn -> Server]
  /\ Wishes \subseteq User \X User
  /\ Budgets \subseteq [User -> [Kind -> Nat]]
  /\ None \notin DbConn

Fact == {"asked", "accepted", "friend"} \X (User \X User)

Request == [kind : Kind, by : User, to : User]

Call == [req : Request, pc : {"find", "send", "return"}]

VARIABLES
  db,       \* the facts committed
  auto,     \* auto[k]: autocommit of connection k
  pend,     \* pend[k]: the facts k has written and not committed
  snap,     \* snap[k]: what k's open transaction reads, None before its first read
  logic,    \* where the logic thread of a server is
  cur,      \* the request it handles
  con,      \* the connection its AddFriend holds
  lists,    \* the facts its LoginHandler has read so far
  calls,    \* the gRPC notifications under way
  uip,      \* the users for whom uip_<uid> is set (to Home[u])
  bound,    \* the users UserMgr of their server has a session for
  cache,    \* the users with a cached ubaseinfo_<uid>
  view,     \* view[u]: the facts u's client was told in this session (history)
  left,     \* left[u][kind]: how many more requests u may send
  lost,     \* the applications and acceptances a failed statement, a rollback or a
            \* broken connection took away (history)
  failed,   \* the pairs <<by, to>> whose AddFriend has returned false (history)
  excused   \* the users whose friend list was read inside an old transaction, or
            \* was overtaken by another server's commit (history)

dbVars == <<db, auto, pend, snap, lost, failed>>
threadVars == <<logic, cur, con, lists, calls>>
userVars == <<uip, bound, view, left, excused>>
vars == <<dbVars, threadVars, userVars, cache>>

Init ==
  /\ db = {}
  /\ auto = [k \in DbConn |-> TRUE]
  /\ pend = [k \in DbConn |-> {}]
  /\ snap = [k \in DbConn |-> None]
  /\ logic = [s \in Server |-> "idle"]
  /\ cur = [s \in Server |-> None]
  /\ con = [s \in Server |-> None]
  /\ lists = [s \in Server |-> {}]
  /\ calls = {}
  /\ uip = {}
  /\ bound = {}
  /\ cache = {}
  /\ view = [u \in User |-> {}]
  /\ left \in Budgets
  /\ lost = {}
  /\ failed = {}
  /\ excused = {}
-------------------------------------------------------------------------------
(* InnoDB as the code uses it.  An application and its acceptance are one row. *)
Row(f) == <<f[1] = "friend", f[2]>>

(* Another connection has written that row and not committed. *)
Locked(k, f) == \E j \in DbConn \ {k} : \E g \in pend[j] : Row(g) = Row(f)

(* What a SELECT on k returns: with autocommit off, the state as of the first
   read of the transaction and the transaction's own rows. *)
Sees(k) == (IF auto[k] \/ snap[k] = None THEN db ELSE snap[k]) \cup pend[k]

(* The connections in K run a SELECT. *)
Select(K) ==
  snap' = [k \in DbConn |->
            IF k \in K /\ ~auto[k] /\ snap[k] = None THEN db ELSE snap[k]]

(* One statement that writes the facts F on k. *)
Write(k, F) ==
  IF auto[k]
  THEN db' = db \cup F /\ UNCHANGED pend
  ELSE pend' = [pend EXCEPT ![k] = @ \cup F] /\ UNCHANGED db

(* The connections a DAO method of server s may get. *)
Idle(s) == {k \in DbConn : Pool[k] = s /\ con[s] # k}

Goto(s, from, to) ==
  /\ logic[s] = from
  /\ logic' = [logic EXCEPT ![s] = to]

(* The pair of users of the application that server s handles. *)
pair(s) == IF cur[s].kind = "accept" THEN <<cur[s].to, cur[s].by>>
                                     ELSE <<cur[s].by, cur[s].to>>

friends(u, v) == {<<"friend", <<u, v>>>>, <<"friend", <<v, u>>>>}
-------------------------------------------------------------------------------
(* A client logs in, applies to somebody, accepts an application, or searches for a
   user.  The handlers check nothing: a client may ask before it has logged in, accept
   what nobody applied for, and accept again. *)
Legal(r) ==
  /\ r.kind = "login" => r.to = r.by /\ r.by \notin bound
  /\ r.kind = "apply" => <<r.by, r.to>> \in Wishes
  /\ r.kind = "accept" => <<r.to, r.by>> \in Wishes

Take(s) ==
  /\ \E r \in Request :
       /\ Home[r.by] = s /\ left[r.by][r.kind] > 0 /\ Legal(r)
       /\ Goto(s, "idle", IF r.kind = "apply" THEN "insert" ELSE "info")
       /\ cur' = [cur EXCEPT ![s] = r]
       /\ left' = [left EXCEPT ![r.by][r.kind] = @ - 1]
  /\ UNCHANGED <<dbVars, con, lists, calls, uip, bound, view, excused, cache>>

(* GetBaseInfo: from the cache, or by GetUser on some connection and then into the
   cache.  All users exist. *)
BaseInfo(s, u) ==
  \/ u \in cache /\ UNCHANGED <<cache, snap>>
  \/ u \notin cache /\ cache' = cache \cup {u} /\ \E k \in Idle(s) : Select({k})

(* GetUserByName: the same with a cache of its own, of which only the reading of the
   database counts here. *)
NameInfo(s) ==
  /\ UNCHANGED snap \/ \E k \in Idle(s) : Select({k})
  /\ UNCHANGED cache

(* LoginHandler reads the user itself, AuthFriendApply the applicant, SearchInfo
   the user searched for, by uid (GetUserByUid is GetBaseInfo) or by name. *)
Info(s) ==
  /\ Goto(s, "info", CASE cur[s].kind = "login" -> "applies"
                       [] cur[s].kind = "accept" -> "update"
                       [] OTHER -> "reply")
  /\ BaseInfo(s, cur[s].to) \/ (cur[s].kind = "search" /\ NameInfo(s))
  /\ UNCHANGED <<db, auto, pend, lost, failed, cur, con, lists, calls, userVars>>

(* LoginHandler reads the applications made to the user ... *)
LoginApplies(s) ==
  /\ Goto(s, "applies", "friends")
  /\ \E k \in Idle(s) :
       /\ lists' = [lists EXCEPT ![s] =
                     {f \in Sees(k) : f[1] # "friend" /\ f[2][2] = cur[s].by}]
       /\ Select({k})
  /\ UNCHANGED <<db, auto, pend, lost, failed, cur, con, calls, userVars, cache>>

(* ... and the friends, each with a GetUser on a second connection, ... *)
LoginFriends(s) ==
  /\ Goto(s, "friends", "uip")
  /\ \E k \in Idle(s), j \in Idle(s) :
       LET L == {f \in Sees(k) : f[1] = "friend" /\ f[2][1] = cur[s].by}
       IN  /\ j # k
           /\ lists' = [lists EXCEPT ![s] = @ \cup L]
           /\ Select(IF L = {} THEN {k} ELSE {k, j})
           /\ excused' = IF auto[k] \/ snap[k] = None THEN excused
                                                     ELSE excused \cup {cur[s].by}
  /\ UNCHANGED <<db, auto, pend, lost, failed, cur, con, calls, uip, bound, view, left, cache>>

(* ... sets uip_<uid> ... *)
LoginSetUip(s) ==
  /\ Goto(s, "uip", "bind")
  /\ uip' = uip \cup {cur[s].by}
  /\ UNCHANGED <<dbVars, cur, con, lists, calls, bound, view, left, excused, cache>>

(* ... and binds the session. *)
LoginBind(s) ==
  /\ Goto(s, "bind", "reply")
  /\ bound' = bound \cup {cur[s].by}
  /\ UNCHANGED <<dbVars, cur, con, lists, calls, uip, view, left, excused, cache>>
-------------------------------------------------------------------------------
(* AddFriendApply in MysqlDao: INSERT ... ON DUPLICATE KEY UPDATE. *)
Apply(s) ==
  /\ Goto(s, "insert", "route")
  /\ \E k \in Idle(s) :
       /\ ~Locked(k, <<"asked", pair(s)>>)
       /\ Write(k, {<<"asked", pair(s)>>})
  /\ UNCHANGED <<auto, snap, lost, failed, cur, con, lists, calls, userVars, cache>>

(* AuthFriendApply in MysqlDao: UPDATE ... SET status = 1, which changes nothing
   if there is no such application. *)
Auth(s) ==
  /\ Goto(s, "update", "begin")
  /\ \E k \in Idle(s) :
       /\ ~Locked(k, <<"accepted", pair(s)>>)
       /\ Write(k, {f \in {<<"accepted", pair(s)>>} : <<"asked", f[2]>> \in db \cup pend[k]})
  /\ UNCHANGED <<auto, snap, lost, failed, cur, con, lists, calls, userVars, cache>>

(* Either statement waits for a row that an open transaction has written, until the
   lock wait times out, which takes back that statement, or ends in a deadlock, which
   takes back the whole transaction that k was left in.  The handler ignores what the
   DAO returns. *)
StatementFails(s) ==
  LET f == <<IF logic[s] = "insert" THEN "asked" ELSE "accepted", pair(s)>> IN
  /\ logic[s] \in {"insert", "update"}
  /\ logic' = [logic EXCEPT ![s] = IF @ = "insert" THEN "route" ELSE "begin"]
  /\ \E k \in Idle(s) :
       /\ Locked(k, f)
       /\ \/ lost' = lost \cup {f} /\ UNCHANGED <<pend, snap>>
          \/ /\ pend[k] # {}
             /\ lost' = lost \cup {f} \cup pend[k]
             /\ pend' = [pend EXCEPT ![k] = {}]
             /\ snap' = [snap EXCEPT ![k] = None]
  /\ UNCHANGED <<db, auto, failed, cur, con, lists, calls, userVars, cache>>

(* Mutant: autocommit stays on. *)
AddBeginAuto(s) ==
  /\ Goto(s, "begin", "first")
  /\ \E k \in Idle(s) : con' = [con EXCEPT ![s] = k]
  /\ UNCHANGED <<dbVars, cur, lists, calls, userVars, cache>>

(* AddFriend takes a connection and turns its autocommit off ... *)
AddBegin(s) ==
  /\ Goto(s, "begin", "first")
  /\ \E k \in Idle(s) :
       /\ con' = [con EXCEPT ![s] = k]
       /\ auto' = [auto EXCEPT ![k] = FALSE]
  /\ UNCHANGED <<db, pend, snap, lost, failed, cur, lists, calls, userVars, cache>>

(* ... INSERT IGNORE of the one direction, ... *)
AddFirst(s) ==
  LET f == <<"friend", <<cur[s].by, cur[s].to>>>> IN
  /\ Goto(s, "first", "second")
  /\ ~Locked(con[s], f)
  /\ Write(con[s], {f})
  /\ UNCHANGED <<auto, snap, lost, failed, cur, con, lists, calls, userVars, cache>>

(* ... and of the other. *)
AddSecond(s) ==
  LET f == <<"friend", <<cur[s].to, cur[s].by>>>> IN
  /\ Goto(s, "second", "commit")
  /\ ~Locked(con[s], f)
  /\ Write(con[s], {f})
  /\ UNCHANGED <<auto, snap, lost, failed, cur, con, lists, calls, userVars, cache>>

(* Mutant: the way out by an exception keeps the connection. *)
AddFailsKeeps(s) ==
  /\ \/ Goto(s, "first", "route") /\ Locked(con[s], <<"friend", <<cur[s].by, cur[s].to>>>>)
     \/ Goto(s, "second", "route") /\ Locked(con[s], <<"friend", <<cur[s].to, cur[s].by>>>>)
  /\ lost' = lost \cup {f \in pend[con[s]] : f[1] # "friend"}
  /\ failed' = failed \cup {<<cur[s].by, cur[s].to>>}
  /\ pend' = [pend EXCEPT ![con[s]] = {}]
  /\ snap' = [snap EXCEPT ![con[s]] = None]
  /\ UNCHANGED <<db, auto, cur, con, lists, calls, userVars, cache>>

(* A row is locked by the other server's AddFriend and the wait ends with an
   exception (a deadlock or a timeout): everything written on this connection
   since its last commit is rolled back, and AddFriend returns false, which
   AuthFriendApply ignores. *)
AddFails(s) ==
  /\ \/ Goto(s, "first", "route") /\ Locked(con[s], <<"friend", <<cur[s].by, cur[s].to>>>>)
     \/ Goto(s, "second", "route") /\ Locked(con[s], <<"friend", <<cur[s].to, cur[s].by>>>>)
  /\ lost' = lost \cup {f \in pend[con[s]] : f[1] # "friend"}
  /\ failed' = failed \cup {<<cur[s].by, cur[s].to>>}
  /\ pend' = [pend EXCEPT ![con[s]] = {}]
  /\ snap' = [snap EXCEPT ![con[s]] = None]
  /\ con' = [con EXCEPT ![s] = None]
  /\ UNCHANGED <<db, auto, cur, lists, calls, userVars, cache>>

(* The user whose login, on another server, has read the friend list and is not yet
   bound: the commit comes too late for the list and too early for a call. *)
between(s) ==
  {u \in {cur[s].to} : Home[u] # s /\ logic[Home[u]] \in {"uip", "bind"}
                                 /\ cur[Home[u]].by = u}

(* Mutant: the commit is missing. *)
AddCommitMissing(s) ==
  /\ Goto(s, "commit", "route")
  /\ con' = [con EXCEPT ![s] = None]
  /\ UNCHANGED <<dbVars, cur, lists, calls, userVars, cache>>

(* The commit ends the transaction; autocommit stays off. *)
AddCommit(s) ==
  /\ Goto(s, "commit", "route")
  /\ db' = db \cup pend[con[s]]
  /\ pend' = [pend EXCEPT ![con[s]] = {}]
  /\ snap' = [snap EXCEPT ![con[s]] = None]
  /\ con' = [con EXCEPT ![s] = None]
  /\ excused' = excused \cup between(s)
  /\ UNCHANGED <<auto, lost, failed, cur, lists, calls, uip, bound, view, left, cache>>

(* The keep-alive thread finds a connection broken and replaces it by a new one:
   MySQL has rolled back what was open. *)
Break(k) ==
  /\ ~auto[k]
  /\ con[Pool[k]] # k
  /\ auto' = [auto EXCEPT ![k] = TRUE]
  /\ lost' = lost \cup pend[k]
  /\ pend' = [pend EXCEPT ![k] = {}]
  /\ snap' = [snap EXCEPT ![k] = None]
  /\ UNCHANGED <<db, failed, threadVars, userVars, cache>>
-------------------------------------------------------------------------------
(* Both handlers: where is the other user?  Nowhere, here, or on another server,
   which is called.  AddFriendApply reads the applicant's data before that. *)
Route(s) ==
  LET to == cur[s].to IN
  /\ Goto(s, "route", IF to \notin uip THEN "reply"
                      ELSE IF Home[to] = s THEN "find" ELSE "call")
  /\ calls' = IF to \in uip /\ Home[to] # s
              THEN calls \cup {[req |-> cur[s], pc |-> "find"]} ELSE calls
  /\ IF to \in uip /\ cur[s].kind = "apply"
     THEN BaseInfo(s, cur[s].by) ELSE UNCHANGED <<cache, snap>>
  /\ UNCHANGED <<db, auto, pend, lost, failed, cur, con, lists, userVars>>

(* What the notification of request r says. *)
Note(r) == IF r.kind = "apply" THEN <<"asked", <<r.by, r.to>>>>
                               ELSE <<"friend", <<r.to, r.by>>>>

Tell(u, F) ==
  view' = IF u \in bound THEN [view EXCEPT ![u] = @ \cup F] ELSE view

(* Here: GetSession, ... *)
FindLocal(s) ==
  /\ Goto(s, "find", IF cur[s].to \in bound THEN "send" ELSE "reply")
  /\ UNCHANGED <<dbVars, cur, con, lists, calls, userVars, cache>>

(* ... and Send; AuthFriendApply reads the acceptor's data in between. *)
SendLocal(s) ==
  /\ Goto(s, "send", "reply")
  /\ Tell(cur[s].to, {Note(cur[s])})
  /\ IF cur[s].kind = "accept" THEN BaseInfo(s, cur[s].by) ELSE UNCHANGED <<cache, snap>>
  /\ UNCHANGED <<db, auto, pend, lost, failed, cur, con, lists, calls, uip, bound, left, excused>>

(* Mutant: looks for the session of the user who asks. *)
RpcFindFrom(k) ==
  /\ k.pc = "find"
  /\ calls' = (calls \ {k}) \cup
                {[k EXCEPT !.pc = IF /\ Home[k.req.by] = Home[k.req.to]
                                     /\ k.req.by \in bound THEN "send" ELSE "return"]}
  /\ UNCHANGED <<dbVars, logic, cur, con, lists, userVars, cache>>

(* Mutant: served by the logic thread of that server. *)
RpcFindOnLogic(k) ==
  /\ k.pc = "find"
  /\ logic[Home[k.req.to]] = "idle"
  /\ calls' = (calls \ {k}) \cup
                {[k EXCEPT !.pc = IF k.req.to \in bound THEN "send" ELSE "return"]}
  /\ UNCHANGED <<dbVars, logic, cur, con, lists, userVars, cache>>

(* On a gRPC thread of the other server: NotifyAddFriend, NotifyAuthFriend. *)
RpcFind(k) ==
  /\ k.pc = "find"
  /\ calls' = (calls \ {k}) \cup
                {[k EXCEPT !.pc = IF k.req.to \in bound THEN "send" ELSE "return"]}
  /\ UNCHANGED <<dbVars, logic, cur, con, lists, userVars, cache>>

RpcSend(k) ==
  /\ k.pc = "send"
  /\ Tell(k.req.to, {Note(k.req)})
  /\ IF k.req.kind = "accept"
     THEN BaseInfo(Home[k.req.to], k.req.by) ELSE UNCHANGED <<cache, snap>>
  /\ calls' = (calls \ {k}) \cup {[k EXCEPT !.pc = "return"]}
  /\ UNCHANGED <<db, auto, pend, lost, failed, logic, cur, con, lists, uip, bound, left, excused>>

RpcReturn(k) ==
  /\ k.pc = "return"
  /\ calls' = calls \ {k}
  /\ logic' = [logic EXCEPT ![Home[k.req.by]] = "reply"]
  /\ UNCHANGED <<dbVars, cur, con, lists, userVars, cache>>

(* What the answer tells the client: after a login the lists, after accepting the
   new friend. *)
Answer(s) ==
  CASE cur[s].kind = "login" -> lists[s]
    [] cur[s].kind = "accept" -> {<<"friend", <<cur[s].by, cur[s].to>>>>}
    [] OTHER -> {}

(* The answer of every handler goes out when it returns. *)
Reply(s) ==
  /\ Goto(s, "reply", "idle")
  /\ Tell(cur[s].by, Answer(s))
  /\ lists' = [lists EXCEPT ![s] = {}]
  /\ cur' = [cur EXCEPT ![s] = None]
  /\ UNCHANGED <<dbVars, con, calls, uip, bound, left, excused, cache>>

(* A connection ends while no handler works for it; what is still sent on its
   session is sent to nobody. *)
Leave(u) ==
  /\ u \in bound
  /\ logic[Home[u]] # "idle" => cur[Home[u]].by # u
  /\ bound' = bound \ {u}
  /\ view' = [view EXCEPT ![u] = {}]
  /\ excused' = excused \ {u}
  /\ calls' = {IF k.req.to = u /\ k.pc = "send" THEN [k EXCEPT !.pc = "return"] ELSE k :
                 k \in calls}
  /\ UNCHANGED <<dbVars, logic, cur, con, lists, uip, left, cache>>
-------------------------------------------------------------------------------
Login(s) == LoginApplies(s) \/ LoginFriends(s) \/ LoginSetUip(s) \/ LoginBind(s)

AddFriend(s) ==
  AddBegin(s) \/ AddFirst(s) \/ AddSecond(s) \/ AddFails(s) \/ AddCommit(s)

Notify(s) == Route(s) \/ FindLocal(s) \/ SendLocal(s)

Handler(s) ==
  \/ Info(s) \/ Login(s) \/ Apply(s) \/ Auth(s) \/ StatementFails(s)
  \/ AddFriend(s) \/ Notify(s) \/ Reply(s)

Rpc(k) == RpcFind(k) \/ RpcSend(k) \/ RpcReturn(k)

Next ==
  \/ \E s \in Server : Take(s) \/ Handler(s)
  \/ \E k \in calls : Rpc(k)
  \/ \E k \in DbConn : Break(k)
  \/ \E u \in User : Leave(u)

(* A handler goes on: a statement succeeds, or its lock wait times out.  gRPC
   threads serve the calls.  Clients and broken connections owe nothing. *)
Fairness ==
  /\ \A s \in Server : WF_vars(Handler(s))
  /\ WF_vars(\E k \in calls : Rpc(k))

Spec == Init /\ [][Next]_vars /\ Fairness
-------------------------------------------------------------------------------
Places ==
  {"idle", "info", "applies", "friends", "uip", "bind", "insert", "update", "begin",
   "first", "second", "commit", "route", "find", "send", "call", "reply"}

TypeOK ==
  /\ db \in SUBSET Fact
  /\ auto \in [DbConn -> BOOLEAN]
  /\ pend \in [DbConn -> SUBSET Fact]
  /\ snap \in [DbConn -> (SUBSET Fact) \cup {None}]
  /\ lost \in SUBSET Fact
  /\ failed \in SUBSET (User \X User)
  /\ logic \in [Server -> Places]
  /\ cur \in [Server -> Request \cup {None}]
  /\ \A s \in Server : logic[s] # "idle" => cur[s] \in Request /\ Home[cur[s].by] = s
  /\ con \in [Server -> DbConn \cup {None}]
  /\ \A s \in Server :
       /\ con[s] # None <=> logic[s] \in {"first", "second", "commit"}
       /\ con[s] # None => Pool[con[s]] = s /\ ~auto[con[s]]
  /\ lists \in [Server -> SUBSET Fact]
  /\ calls \in SUBSET Call
  /\ uip \in SUBSET User
  /\ bound \in SUBSET User
  /\ cache \in SUBSET User
  /\ view \in [User -> SUBSET Fact]
  /\ left \in [User -> [Kind -> Nat]]
  /\ excused \in SUBSET User

(* A friendship is stored in both directions or in none, whatever the two servers
   do at the same time, whoever fails and whichever connection breaks: the
   transaction of MysqlDao.cpp:250-304. *)
FriendsBothWays ==
  \A u, v \in User : <<"friend", <<u, v>>>> \in db => <<"friend", <<v, u>>>> \in db

(* What is behind a fact that somebody hears of: it is committed; or it is an application
   or an acceptance that waits in a transaction AddFriend has left open, or was taken
   away by a failure; or it is a friendship whose own AddFriend has failed. *)
behind(f) ==
  \/ f \in db
  \/ f[1] # "friend" /\ (f \in lost \/ \E k \in DbConn : ~auto[k] /\ f \in pend[k])
  \/ f[1] = "friend" /\ {f[2], <<f[2][2], f[2][1]>>} \cap failed # {}

(* A friendship a client was told of, by its friend list, an answer or a notification, is
   committed, unless the AddFriend of these two users has failed: its result is ignored,
   and both are told all the same (LogicSystem.cpp:415).  None is told of while it is
   still open, and none is read from another handler's transaction.  Of applications less
   is true: one that was told may still wait in an open transaction, or be gone. *)
ToldIsBacked == \A u \in User : \A f \in view[u] : behind(f)

(* What makes it inductive: each place belongs to requests of some kinds, and what a
   handler read for its answer, or has done before it notifies, has this behind it. *)
KindAt ==
  \A s \in Server :
    /\ logic[s] \in {"applies", "friends", "uip", "bind"} => cur[s].kind = "login"
    /\ logic[s] = "insert" => cur[s].kind = "apply"
    /\ logic[s] \in {"update", "begin", "first", "second", "commit"} => cur[s].kind = "accept"
    /\ logic[s] \in {"route", "find", "send", "call"} => cur[s].kind \in {"apply", "accept"}
    /\ logic[s] = "info" => cur[s].kind # "apply"

Outcome(r) ==
  CASE r.kind = "apply" -> {<<"asked", <<r.by, r.to>>>>}
    [] r.kind = "accept" -> friends(r.by, r.to)
    [] OTHER -> {}

DoneIsBacked ==
  \A s \in Server :
    /\ \A f \in lists[s] : behind(f)
    /\ logic[s] \in {"route", "find", "send", "call", "reply"} =>
         \A f \in Outcome(cur[s]) : behind(f)

ToldInv == KindAt /\ DoneIsBacked /\ ToldIsBacked

settled == calls = {} /\ \A s \in Server : logic[s] = "idle"

(* When all handlers have ended, every user who is logged in knows all friends,
   from the list read at login, from a notification or from the answer, whichever
   way the two logins, the application and its acceptance were interleaved; only a
   list that was read in an old transaction, or that another server's commit
   overtook, may lack one. *)
KnownFriends ==
  settled =>
    \A u \in bound \ excused, v \in User :
      <<"friend", <<u, v>>>> \in db => <<"friend", <<u, v>>>> \in view[u]

(* What makes it inductive: a friend of a user who is logged in is known, or on its
   way: in the list the login has read, in the answer to the user that accepts, or
   in the notification to the other one; and a login that has read the list, and has
   not bound its session yet, has read all friends. *)
loginAt(u, places) ==
  LET s == Home[u]
  IN  logic[s] \in places /\ cur[s].kind = "login" /\ cur[s].by = u

answers(u, v) ==
  LET s == Home[u]
  IN  /\ logic[s] \in {"route", "find", "send", "call", "reply"}
      /\ cur[s].kind = "accept" /\ cur[s].by = u /\ cur[s].to = v

notifies(v, u) ==
  LET s == Home[v]
  IN  /\ cur[s].kind = "accept" /\ cur[s].by = v /\ cur[s].to = u
      /\ \/ logic[s] \in {"route", "find", "send"}
         \/ logic[s] = "call" /\ \E k \in calls : k.req = cur[s] /\ k.pc # "return"

Coming(u, v) ==
  LET f == <<"friend", <<u, v>>>>
  IN  \/ f \in view[u]
      \/ loginAt(u, {"reply"}) /\ f \in lists[Home[u]]
      \/ answers(u, v)
      \/ notifies(v, u)

KnownInv ==
  /\ bound \subseteq uip
  /\ \A u \in bound : ~loginAt(u, {"info", "applies", "friends", "uip", "bind"})
  /\ \A u \in User : loginAt(u, {"bind"}) => u \in uip
  /\ \A u \in User \ excused, v \in User :
       <<"friend", <<u, v>>>> \in db =>
         /\ u \in bound => Coming(u, v)
         /\ loginAt(u, {"uip", "bind"}) => <<"friend", <<u, v>>>> \in lists[Home[u]]

(* No handler waits for ever: neither two servers that notify each other, nor two
   that insert the same friendship in opposite order, nor a statement that waits
   for a row of a transaction left open. *)
HandlerEnds == \A s \in Server : (logic[s] # "idle") ~> (logic[s] = "idle")
=============================================================================
