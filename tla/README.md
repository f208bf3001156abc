# ChatProj in TLA+

ChatProj is a chat service in C++: a GateServer (HTTP: registration, login), a
StatusServer (gRPC: which ChatServer a user goes to), one or more ChatServers (TCP
to the clients, gRPC among each other), MySQL and Redis.  This directory holds
specifications of its concurrent core, their model-checking configurations for
TLC and proofs checked by TLAPS.

The specifications follow the code under `src/`; where a document says something
else the code decides, and the difference is recorded as a finding.
`PROJECT.json` lists runs, findings, hazards, theorems and, for each definition,
the source lines it stands for.

Contents: 1 the system; 2 modules and code; 3 runs, bounds, fairness; 4 proofs;
5 findings; 6 what the models leave out; 7 plan.

## 1. The system

| Component | State | Operations | Interacts with | Correct when |
|---|---|---|---|---|
| **CSession, sending** (`CSession.cpp`, `MsgNode.cpp`) | `_send_que`, `_send_lock`, the write under way | `Send`, `HandleWrite`, `Close` | called by the logic thread, gRPC threads, its io thread | one write at a time, in order, none stalls, the queue is bounded, silence after a failure |
| **CSession, reading** (`CSession.cpp`) | header and body buffers, `_b_close` | `AsyncReadHead`, `AsyncReadBody` | posts to LogicSystem, clears itself from CServer | a frame is posted once and whole; an invalid header or an error ends the session (a negative length does not: section 5) |
| **LogicSystem, queue** (`LogicSystem.cpp`) | `_msg_que`, `_mutex`, `_consume`, `_b_stop` | `PostMsgToQue`, `DealMsg`, destructor | io threads post, one thread handles | no lost wakeup, order kept, drained at stop, the stop ends the loop |
| **LogicSystem, handlers** | none of its own | login, search, apply for and accept a friendship, text | UserMgr, Redis, MySQL, ChatGrpcClient | one answer per request in order; a text reaches an online receiver, in order |
| **CServer** (`CServer.cpp`) | `_sessions`, `_mutex` | `HandleAccept`, `ClearSession` | called back by the acceptor and the io threads | a session that has ended is forgotten |
| **UserMgr** (`UserMgr.cpp`) | `_uid_to_session` | get, set, remove | logic thread, gRPC threads, io threads | a user who is online is bound to the living session |
| **ChatGrpcClient, ChatServiceImpl** | stub pools per peer | three notifications, each on both sides | the logic thread calls and blocks; gRPC threads serve | two servers that call each other both go on |
| **AsioIOServicePool, main** | io threads; Redis `logincount` | start, stop on a signal | joins io threads before the destructors run | the count is right when the server runs and absent afterwards |
| **MySqlPool** (`MysqlDao.h`) | `pool_`, `mutex_`, `cond_`, `b_stop_`, `_fail_count` | get, return, keep-alive round, reconnect, close | all DAO methods; a detached thread | a connection has one holder, none is lost, no waiter forgotten |
| **MysqlDao, MysqlMgr** | the tables `user`, `friend`, `friend_apply` | register, check, update, apply, accept, lists | LogicSystem | both directions of a friendship or neither |
| **RedisConPool, RedisMgr** | `connections_`, `fail_count_` | get, return, ping round, close; one method per command | all servers | as MySqlPool |
| **StatusServiceImpl** | `_servers`, `_server_mtx`, Redis tokens | `GetChatServer`; `Login` is called by nobody | GateServer calls; reads the counts the ChatServers write | the least loaded server is chosen (it is not: section 5); the token given is the token accepted |
| **DistLock** | Redis key with a lease | acquire, release | nobody at this commit | one holder per lease |
| **GateServer LogicSystem** | Redis `code_<email>`, MySQL users | code, register, reset, login | VerifyServer, StatusServer, MySQL, on the io thread of the connection | a password is set only with a code mailed to the account's address |
| **HttpConnection** | socket, deadline timer | read, handle, write, deadline | io threads | one answer per request; the deadline ends a slow peer |

What is hard here:

* **Threads without a common lock.**  A ChatServer has an acceptor thread, a pool
  of io threads, one logic thread and gRPC threads.  A session ends on its io
  thread while the logic thread still has requests of it and gRPC threads still
  send to it.  `CServer::ClearSession` looks `_sessions` up without the lock.
* **Several writes that belong together.**  A login writes the count, the session's
  uid, the Redis key `uip_<uid>` and the binding in turn; others read in between.
* **Blocking calls.**  The only logic thread of a server blocks in a gRPC call to
  another server, whose logic thread may be calling back.
* **Condition variables.**  Three hand-written queues notify after the unlock, only
  at the first element, or, when they close, without the mutex.
* **Transactions on pooled connections.**  `AddFriend` turns autocommit off on a
  connection that goes back to the pool that way: later statements on it are part of
  a transaction nobody knows of, which the next commit ends, or a failure.
* **Failure.**  Connections break, writes fail after the session was cleared, calls
  fail for the caller and still run at the callee, database connections die.

## 2. Modules and code

| Module | Models | Kind |
|---|---|---|
| `FifoChannel` | what a message queue promises: a bounded FIFO channel that may break | abstract specification |
| `SessionSend` | `CSession::Send`, `HandleWrite`, `Close` and the asynchronous write | component; implements `FifoChannel` |
| `LogicQueue` | `PostMsgToQue`, `DealMsg`, `~LogicSystem`, `AsioIOServicePool::Stop` | component; implements `FifoChannel` |
| `FrameReader` | `AsyncReadHead`, `AsyncReadBody`, `asyncReadFull`, `asyncReadLen` | extends `LogicQueue`: the sessions are its producers |
| `ChatServer` | `HandleAccept`, `ClearSession`, `UserMgr`, `LoginHandler`, `DealChatTextMsg`, `NotifyTextChatMsg` on both sides | composition of several servers |
| `Friends` | `AddFriendApply`, `AuthFriendApply`, `SearchInfo`, the lists of `LoginHandler`, `NotifyAddFriend`, `NotifyAuthFriend`, and `MysqlDao` on transactional connections | composition of several servers and MySQL |
| `StatusServer` | `GetChatServer`, `getChatServer`, `insertToken`; the token and the login count at the ChatServers, their start, end and crash | composition |
| `Gate` | `HttpConnection`, the handlers of the GateServer's `LogicSystem`, its `MysqlDao` and MySQL pool | component |
| `MySqlPool` | the ChatServer's `MySqlPool` with its keep-alive thread | component |
| `RedisConPool` | `RedisConPool` with its check thread, and how the commands of `RedisMgr` use it | component |
| `...Proofs` | theorems about the module of the same name; `InboundProofs` about `LogicQueue` and `FrameReader` | TLAPS |
| `MC...` | constants for TLC; each `.cfg` says in its first lines what the instance is | TLC |

The modules meet at these seams.  `ChatServer` takes its logic queue to be the FIFO
channel `LogicQueue` implements, and what was given to `Send` to be what is written,
which `SessionSend` shows.  `FrameReader` runs together with `LogicQueue` in one state
space.  `Friends` takes queue, sessions and bindings from `ChatServer` in a simpler form,
one session per user at a time, and adds the database.  `Friends` and `Gate` use database
connections as `MySqlPool` gives them out.  `StatusServer` is called by the last step of
`Gate`'s login, and its tokens and counts are those of `LoginHandler`.

**How steps were chosen.**  A step is the longest stretch of code that no other
thread can look into.  A critical section is one step; a store, a notify or a
lookup outside a lock is a step of its own; a Redis command or an SQL statement is a
step; an asynchronous operation has a start, an end, and a completion handler.

**SessionSend.**  `que` is `_send_que`, `writes` the `async_write` operations whose
handler has not run (a sequence, so that nothing but the code makes there be one),
`wire` what went out, `accepted` what `Send` pushed.  `SendFull` and `SendPush` are
the two ways through `Send`; `WriteOk` and `WriteError` are asio's; `HandleWriteOk`
and `HandleWriteError` the two branches of the handler.

**LogicQueue.**  `wpc` is where `DealMsg` is.  The thread holds the mutex in
`test`, `sleep`, `callback` and `drain`: the code keeps the lock during a callback,
so an io thread posts only between two messages.  `Notify` is a step after `Post`.
`SetStop`, `NotifyStop` and `Join` are the three lines of the destructor, which
runs after the io threads have been joined (`PoolStop`, `ThreadEnds`).

**FrameReader.**  A byte is the pair of its frame's number and its place in it, so
that bytes of different frames cannot be confused, and a body is compared byte by byte.
`in` are the bytes not read, `data` what `_data` holds, `want` the total length of the
`asyncReadFull` under way.  `PartialRead` is `asyncReadLen` with fewer bytes than asked
for; `HeadDone` checks id and length and asks for the body, or removes the session without
a `Close`; `BodyDone` posts, which is `LogicQueue`'s `Post`, and asks for the next header.
Id and length are signed numbers, and only the upper limit is tested.  A length of -1 becomes the
largest `size_t` (`size_t(len)`), so that the read asks for more than `_data` holds: once more bytes
have come than there is room for, the session is in `overrun` and not followed further.  Below -1
the constructor of the node throws, the handler ends, and the session is `stuck`: open, in the map, and
without a read.

**ChatServer.**  `sessions`, `bind`, `uip` and `count` are `_sessions`,
`_uid_to_session`, the Redis keys `uip_<uid>` and the hash `logincount`; `lq` is the
logic queue; `inbox[c]` is all that `Send` was called with for a connection.  `logic[s]`
is the place of the logic thread in a
handler: `LoginRefuse` or `LoginSetUid`, `LoginSetUip`, `LoginBind`, `Reply`; a text
takes one of three routes.  `calls` are gRPC handlers under way, on threads of the
called server.  `Accept` and `Insert` are the two halves of `HandleAccept`:
the session reads before it is in the map.  `Asks[c]` is what a client may send: a session may log in
again, as another user too, which the handler does not refuse.  A text is routed in the steps of
the code: the Redis key (`RouteNowhere`, `RouteLocal`, `RouteRemote`), `GetSession` (`FindLocal`), `Send`
(`SendLocal`).  A read that was pending when `HandleWrite` closed the socket is either aborted
(`LateAbort`) or had already completed, and then still posts its message (`LateReceive`).
`RpcFails` are the servers whose calls may fail.  `ClearFind`, `ClearUnbind` and
`ClearErase` are `ClearSession`, which runs once for a read error and again if a
write fails, each time through to the end.

**Friends.**  The tables are a set `db` of facts: an application, its acceptance, a
direction of a friendship.  Rows are only added, so a transaction is the set `pend[k]` of
facts connection `k` has written and not committed, and `snap[k]` what it reads.  `Locked`
is a row that another connection has written and not committed; a statement waits for
it (the action is disabled) or fails (`StatementFails`, `AddFails`): the lock wait timeout takes
back the statement, a deadlock everything the connection has not committed.  `AddBegin`, `AddFirst`, `AddSecond`, `AddCommit`, `AddFails` are `AddFriend`,
`AddFails` being its `catch` with the rollback, after which `AuthFriendApply` goes on as if nothing had
happened; `failed` remembers the pair.  A client may ask before it has logged in, and accept what
nobody has applied for, since the handlers check neither.  `auto[k]` stays off afterwards; only `Break`, a keep-alive round that replaces
the connection, turns it on.  `Route`, `FindLocal`, `SendLocal` and `RpcFind`, `RpcSend`, `RpcReturn` are
the notification within a server and between two.  `view[u]` is what the client was told.

**StatusServer.**  `count` is the hash `logincount`, `token` the keys `utoken_<uid>`,
`stored` the `con_count` of the servers in `_servers`.  `PickFirst`, `PickOther` and `Pick`
are the parts of `getChatServer`, under the mutex but between them the ChatServers
write their counts; `read` keeps what the call inside has read.  `LoginHGet` and `LoginHSet` are the two commands of a login; `Start`,
`Stop`, `Delete`, `Close`, `Exit` the life of a ChatServer as its `main` has it,
and `Crash` ends it anywhere.

**Gate.**  `hpc[h]` is where an HTTP connection is.  A handler runs on the connection's io
thread, and another connection on the same thread can do nothing in the meantime
(`free`).  `idle`, `has` and `leaked` count the MySQL pool's connections.  `CheckEmail` has
two outcomes when it finds no row: the method then ends without a `return`, and its
result is undefined.  `code` are the keys `code_<email>`, `row` is the table `user`; of a password the
model keeps how it came to be set.

**MySqlPool.**  A slot is a connection or the reconnect owed for a broken one, so
`Cardinality(lost)` is `_fail_count`.  `GetNothing` and `Wait` are two steps, because
the predicate of the wait reads `b_stop_`, which `Close` sets without the mutex.

**RedisConPool.**  Here the pool holds addresses, and an address can be in `connections_`
several times: `ReturnByHand` is the `returnConnection` each command calls before its
returns, `ReturnByDefer` the one of its `Defer` object; only `HDel` goes to the second
directly.  All commands but `HDel` have the same shape, so they are one action each for
taking, returning and returning again, mapped to the lines of `Get`.
`live` is the set of allocated contexts: `CheckDead` frees one, also while its address
is still queued or used elsewhere, and `Reconnect` may be given a freed address again.

## 3. Runs, bounds, fairness

| Run | Question | Instance | Result |
|---|---|---|---|
| `session_send` | is the send path serial, ordered, live and bounded? | 2 threads, 3 calls each, `MAX_SENDQUE` 2 | holds |
| `inbound` | do frames reach the logic thread whole, in order and all, across a stop? | 2 sessions, 2 frames each, header of 2 bytes, lengths of -2, -1, 0, 2 and 3, `MAX_LENGTH` 2 | holds |
| `chat_route` | do texts arrive, in order, and answers too? | 2 servers that call each other, a user on each, 2+2 requests; the calls of one server may fail; the other's client stays | holds |
| `chat_reconnect` | where do texts go, what does a connection that ends leave behind, and for the next one? | 2 connections to one server, one with 2 requests as 2 users, the other with a login, every ending, lookups may miss | holds |
| `chat_relogin` | has a user who is online a binding? | 2 connections of one user to one server, read errors only | **violated** |
| `friends` | do tables, clients and servers agree on friendships? | 3 users on 2 servers, 2 MySQL connections each, 2+2+1, 1+2+0, 3+0+3 or 3+2+0 requests | holds |
| `status` | do token and count survive overlapping calls, ends and crashes? | 2 ChatServers, one started twice, 2 calls, 2 users | holds |
| `status_least` | is the server selected the least loaded one? | 2 ChatServers, 4 calls, one after the other | **violated** |
| `gate` | who sets a password, and does every request end? | 3 connections on 2 io threads, 2 MySQL connections, 2 addresses | holds |
| `mysql_pool` | are connections single, kept, and given to waiters? | 3 connections, 3 threads, one nesting | holds |
| `redis_pool` | is nothing lost, nobody forgotten, and does `Close` return? | 1 connection, 2 addresses, 3 threads, a command each | holds |
| `redis_shared` | has a thread its connection to itself? | as before, two commands each | **violated** |

The type invariants of `SessionSend`, `LogicQueue`, `ChatServer`, `MySqlPool` and
`RedisConPool` are theorems (section 4) and not checked again by a run.

**Why the bounds are enough.**  *session_send*: with a limit of 2 the queue fills (3
messages), is refused a fourth, drains and fills again; both kinds of failure occur
with a queue of every length.  *inbound*: one client sends bodies of the largest
length, of one more, and headers with the lengths -1 and -2, the other empty ones with a negative
id; two frames put bytes of the next frame behind those of the first, and every cut of header and body
occurs.  `SizeMax` is 9, more than all bytes of a client, as the largest `size_t` is.  The queue grows
beyond one in every state of the logic thread.  *chat_route*: two requests of a client
are a login and a text, or two texts, the least for an order between texts; a client may send them before it
has logged in.  Both servers call each other, and the calls of the second may fail at every point, so that
what is said of the first holds beside failing calls.  *chat_reconnect*: two connections
of one user are the least for one to touch what belongs to the other; the first has two requests out of a
login as either user and a text, which gives every order of two logins.  *friends*: two users on different servers may apply to each other
and accept at the same time, so that the two inserts of one friendship meet in opposite
order; the third, on the server of the first, makes the way within a server and puts a second
handler's statements on a connection left in a transaction.  Four budgets keep the instance small: logins around an
application and its acceptance; two users who accept each other with nothing applied for; the two users of one server, where an
application is written on a connection left open; and five statements of two servers without logins, which wait for each
other's open transactions.
*status*: two calls overlap, for one user or two; a second start of the first server finds what
a crash left.  *status_least*: one user's calls one after the other, which is the shortest way to
counts of one and more on both.  *gate*: two connections share an io thread and the third runs beside
them; with two MySQL connections one may leak and the other still serve, and both may leak.  One
address has an account, the other none and two codes.  *mysql_pool*: three connections for three threads, one of
which takes two, so that the pool runs empty, with and without a round of the
keep-alive thread.  *redis_pool*: with one connection and three threads, threads wait while
the connection is used, queued twice, checked, freed and made again; three commands put it
into the queue up to four times.  A second command each is needed only to see the same
address in two hands (`redis_shared`).

`CHECK_DEADLOCK FALSE` stands in each configuration because each system may really come
to rest: clients may stop sending, a closed pool is left alone.  That nobody
waits for ever while there is work is stated by the liveness properties and, for
the pools, by `NoneForgotten`.

**Histories.**  `accepted`, `posted`, `taken`, `wire`, `inbox`, `owed`, `quiet`, `renewed`, `frames`,
`got`, `view`, `lost`, `failed`, `excused`, `read`, `alone`, `ticket`, `logins`, `mailed` and `missing` record what happened
and are read by properties; `inbox` also stands for
the fact that something was written whose write may fail, `frames` for what a header says,
`view`, `ticket` and `mailed` for what a client knows and may send.  The histories are bounded by
the numbers of requests.

**Fairness.**  All of it is weak but one.  *SessionSend*: the io thread runs a handler that is
due, and a write ends (the peer reads or TCP gives up).  Nothing obliges a
thread to send or a reader to fail.  *LogicQueue*: the logic thread runs on; it gets the
mutex because io threads hold it for a push only; an io thread goes on from push to
notify; the destructor goes on.  Spurious wakeups, clients and the stop
signal are not fair.  *FrameReader* adds that bytes that have come are read, with strong
fairness: `BodyDone` needs the mutex, which a logic thread that wakes spuriously takes again
and again, and a mutex of the platform lets a waiting thread in some time.  *ChatServer*: the acceptor finishes an accept, an io thread a
`ClearSession`, a logic thread its handler, and gRPC threads serve the calls.  That the
last is one condition for all calls is weaker than one for each; gRPC has
as many threads as it needs.  Clients and endings are not fair.  *Friends*: a logic thread goes on, where a
statement that waits for a lock ends by getting it or by the lock wait timeout, and calls are
served.  *Gate*: for each connection its handler goes on, the servers it calls answer or fail,
and its timer fires; that a client takes its response is not assumed.  *StatusServer* and *MySqlPool* have no
fairness: their properties are invariants.  *RedisConPool*: the threads go on with a command they
have begun, the check thread with its loop (a command to Redis returns or fails), and `Close` with
its three lines.  Beginning a command, spurious wakeups and closing are not fair.

**The properties that carry most.**

* `OneWriteOfTheFront`, `NoStalledQueue` (SessionSend): `Send` starts a write only on
  an empty queue and `HandleWrite` continues only on a non-empty one; an error
  leaves the front in the queue and thereby keeps every later `Send` from
  writing to the closed socket (`NoWriteAfterFailure`).  The queue holds up to
  `MAX_SENDQUE + 1` messages, as the test is `>` before the push (`Bounded`).
* `NoLostWakeup` (LogicQueue): notifying after the unlock and only for the first
  message is enough.  `DrainedAtExit`: the drain after a stop misses nothing,
  because the io threads were joined before; `Places` says so and is needed for it.
* `ReaderTypeOK` (FrameReader): which lengths go wrong, and that no other does: -1 reads past the
  buffer, what is below leaves the session without a read, and in every other case the bytes asked for are
  those of the next frame's body.  `WholeFrames`, `FrameIsTaken`: the n-th message posted is the n-th frame,
  no byte more or less, however the stream is cut; and it is handled unless its session
  failed, an earlier frame was refused or had a negative length, or the server stops.
* `TextsReachReceiver` (ChatServer): a text is sent only on a connection on which its receiver has logged
  in, although `uip_<uid>`, binding and session are read in three steps, on two servers, while the receiver logs in,
  ends and comes back, and other users log in on its connection.  `QuietEndUnbinds`: a connection that was idle when
  it ended, and that the lookup finds, is forgotten and not bound under the user it logged in as last, whatever
  the user's other connection does.  An earlier user of the connection stays bound to it (section 5).
* `OnlineInTurn` (ChatServer): as long as a user's connections come one after the other, the one in use is bound and
  found, also where an earlier one left a binding behind (a login handled after its end, a missed lookup).
* `AnsweredInOrder`, `SenderOrder`, `OwedIsDelivered`, `Answered` (ChatServer): what clients see.
  `Answered` includes that two servers whose logic threads wait for each other both go
  on, since calls are served by threads of their own.
* `FriendsBothWays`, `ToldIsBacked`, `KnownFriends`, `HandlerEnds` (Friends): the transaction
  holds although the connection may already be inside another one.  A friendship a client is told of is committed, or the
  `AddFriend` of these two users has failed, which the handler ignores (section 5): none is read from, or told out
  of, a transaction that is still open.  Of an application less is true, and the property says what.  Who is online when all handlers have ended
  knows every friend.  Two things are excused by name: a friend list read in an old transaction, and a commit by another
  server between a login's reading of the list and its binding.
* `TokenStands`, `CountIsLogins` (StatusServer): tokens of calls that do not
  overlap; counts across the two commands of a login, a stop that deletes the field while the
  logic thread still works, and a crash.
* `OwnerSetsPwd`, `RequestEnds` (Gate): registrations and resets of three connections
  overlap, and codes expire between their steps; a handler that waits for a MySQL connection gets it unless all have leaked.
* `OnePlace`, `NoneLost`, `NoneForgotten` (MySqlPool).  `NoneForgotten` is stated up to the
  first reconnect, which notifies nobody (section 5).
* `NoLeak`, `NeverFewer`, `NoneForgotten` (RedisConPool): with pointers returned twice and contexts
  freed under way, still nothing allocated goes missing while the pool is open, what was
  freed is replaced or owed, and a waiter is woken for each pointer that arrives, since this
  reconnect goes through `returnConnection`.  `CloseReturns`: the join of the check
  thread ends wherever the flag meets it.

## 4. Proofs

| Module | Theorems | From |
|---|---|---|
| `SessionSendProofs` | `TypeCorrect`, `SerialWrites`, `NeverStalls`, `FifoDelivery`, `QueueBounded`, `SilentAfterFailure`, `SendIsChannel` | `SendAssumption` |
| `InboundProofs` | `TypeCorrect`, `NoMessageSleeps`, `FifoHandling`, `NothingLeftBehind`, `QueueIsChannel` | `LogicQueueAssumption` |
| | `ReaderIsQueue`, `NoFrameSleeps`, `FramesInOrder`, `NoFrameLeftBehind`, `NegativeLengths`, `FramesWhole` | besides `FrameReaderAssumption` |
| `ChatServerProofs` | `TypeCorrect`, `TextsGoToReceivers`, `AnswersInOrder`, `QuietEndsUnbind`, `TextsInOrder` | `ChatAssumption` |
| | `OnlineClientsAreBound`, `OwedTextsAreDelivered` | besides `[]OneAtATime`: while a connection is read, no other that shares a user with it has a request open, is read, or is about to unbind it |
| `MySqlPoolProofs` | `TypeCorrect`, `OneHolder`, `NothingLost`, `NoWaiterForgotten` | `PoolAssumption` |
| `RedisConPoolProofs` | `TypeCorrect`, `NothingLeaks`, `FailuresReplaced`, `NoWaiterForgotten` | `RedisAssumption` |
| `GateProofs` | `GateTypeOK`, `OwnersOnly` | `GateAssumption` |
| `StatusServerProofs` | `TypeCorrect`, `TokensStand`, `CountsAreLogins` | `StatusServerAssumption` |
| `FriendsProofs` | `TypeCorrect`, `FriendsMutual`, `ToldFactsAreBacked`, `FriendsAreKnown` | `FriendsAssumption` |

They hold for every number of threads, servers, users, connections and messages.
The assumptions say that numbers are numbers, that the functions among the constants have
the right domain, that a process has finitely many threads and a pool finitely many
connections, that None is no value of its own kind, and, in `Gate`, that the accounts
there at the start are accounts their owners made.  The hypothesis `[]OneAtATime`, where it is used, is needed: with overlapping connections of a user the end of the old one
unbinds the new one, which is the finding of `chat_relogin` (section 5).

The modules follow one argument: `InitInductive` (or `TypeInit` and its like), one lemma per action or group of
actions, `StepInductive`, `Inductive`
(`Spec => []IInv`), and the theorems from it.

* *SessionSend*: `IInv` is the conjunction of the checked invariants and `WireFollowsQueue`.  `InOrder`
  compares `wire`, which grows when a write ends, with `que`, which shrinks when
  the handler runs; `WireFollowsQueue` relates the two in between: the wire is one
  ahead of what was popped exactly while a completed write's handler is due.
  `SendIsChannel` is the refinement of `FifoChannel` without its fairness: a push is the
  channel's send, the end of a write its delivery, an error its break, all else a stutter.
* *LogicQueue*: `Places` says what the logic thread knows where it is: it goes to
  sleep only with an empty queue, and has seen the flag if it drains.  Without it
  `NoLostWakeup` does not survive the step from the test to the wait.  `QueueIsChannel` is the
  refinement of `FifoChannel` again; it needs that the messages posted are distinct (an io thread
  numbers what it posts), and that there are then no more of them than their set has members.
* *FrameReader*: `ReaderIsQueue` is a refinement, the identity on the variables of
  `LogicQueue`: a step of the readers is a `Post` or leaves the queue alone.  The queue's
  theorems then hold of the readers for any frames.  `FramesWhole` rests on a `Coherent` stream: what is
  still to come is a run of bytes in which each is followed by the next of its frame or the first of
  the next frame.  A cut leaves it coherent, and a coherent run that starts with the first byte of
  a body and has its length is that body.  So nothing about concatenating frames is needed.
* *ChatServer*: `Handling` says that a queue holds requests of its server's connections only, and that a handler is
  where the request at the front of its queue leads; a post appends at the back.
  `BindingsSignedIn`: what `UserMgr` returns, and what a handler or a call has got from it, is a session on which
  that user has a login answered, or answered in the next step; no later login or ending takes that back.  `AnswerInv`: the requests of a connection in the queue are numbered from
  the first unanswered to the last asked, rising, where `answered` counts the answers it has; so the
  answer to the front has the next number.  `QuietInv`: a connection that is read is in the
  map, and one that ended quietly is asked for nothing any more, so that nobody binds it
  again once the first clearing has removed it; `QuietTrail` follows it from place to place, through the second
  `ClearSession` of a read that comes late.  `OrderInv`: a call under way of a server whose calls do not fail is the one its
  caller waits for, and a text that was passed on belongs to a request that is answered or is the front.
  `BoundTrail`: with a user's connections one after the other, the key and the binding are those of the login under way, from
  the step that sets each to the end of the connection.  `OwedTrail`: a text owed is in the queue, or where its
  handler is, or with the call, or delivered.
* *MySqlPool*: `Probing` ties the connection a keep-alive round has taken out to the place
  of that thread, and to a countdown that is positive.  Counting is done with sets of
  slots, so that no sums are needed.  `Waiters`: a thread about to sleep keeps the mutex and has found the pool
  empty, so nothing comes into the pool behind its back; and each return wakes one thread.
* *RedisConPool*: `Holding` says that a thread has a pointer exactly between taking it and its `Defer`
  object, and the check thread exactly while it probes; so `NoLeak` survives the step in
  which a hand lets go.  `NeverFewer` counts: a freed context takes at most one from
  `live` and adds one to `fails`, also if it was freed before.  `Waiters` is that of the other pool,
  for a queue that may hold a pointer twice.
* *Gate*: a row says who made it, and `Owned` that this request had given a code mailed to its address.
  `CodeGiven` carries that through the handler: past `CheckCode` the request's code was mailed to the
  request's address.  `AccountMet` says what a reset knows between its `CheckEmail` and its `UpdatePwd`:
  the account it met still has that address, since no statement changes one, or it met none.
* *StatusServer*: `TokenStands` needs that a call alone for its user that has stored its token,
  and the answer of one, agree with the key as long as no other call begins; `CountIsLogins`
  is inductive with what a login read.
* *Friends*: `Types` adds to the types that a call under way is that of a handler that waits for
  it.  `Open` says what uncommitted transactions hold of friendships: nothing if no `AddFriend`
  has the connection, then nothing, one direction, and both.  So a commit by anybody adds both or none.
  `ToldInv` carries what a handler has done, or has read, to the place where it tells of it; a friendship told is
  one committed, or one whose `AddFriend` is in `failed`, because a connection holds it uncommitted only while `AddFriend` has it.  `KnownInv` says where
  a friend of a bound user is that its client does not know yet: in the list its login has read, in the
  answer to its acceptance, or in the other's notification, which finds the user because `uip_<uid>` is set before the
  binding and never removed; and a login that has read its list keeps up with every commit, or is excused.

Only model-checked: what is temporal beyond invariants and steps, as it rests on fairness and `ENABLED`
(`Answered`, `CloseReturns`, `FrameIsTaken`, `StopSeenEndsLoop`, `HandlerEnds`, `RequestEnds`, and the
fairness of the two refinements of `FifoChannel`).  Every invariant of a passing run is a theorem.

## 5. Findings

* `chat_relogin`: `ClearSession` of an old connection removes the user's binding, also
  when it belongs to a newer one; `ChatServer.md` says that `UserMgr` tells who is online.
* `redis_shared`: commands return their connection twice, so that two threads run commands on one
  `redisContext`.
* `status_least`: with no server at 0, `getChatServer` answers with the first server of the
  configuration, whose stored count stays 0 (`StatusServiceImpl.cpp:63, 96`), however many logins it has;
  `StatusServer.md:182` has "选出连接数最小的节点" (the node with the fewest connections is chosen).

Seen while modelling and stated here without a run of their own.  In a ChatServer:

* `~LogicSystem` sets `_b_stop` without the mutex (`LogicSystem.cpp:19`); between the logic
  thread's test and its wait the only notify is lost and the join hangs.  `StopSeenEndsLoop`
  leaves this out by its name: it speaks of a thread that sees the flag;
* a login still queued when its connection ends binds a dead session for good
  (`LogicSystem.cpp:265`);
* a session that ends between `Start` and the insert (`CServer.cpp:23`) is put into `_sessions`
  after `ClearSession` looked for it, and stays there; a connection in `quiet` was inserted
  before it ended, so that `QuietEndUnbinds` leaves this one out;
* a session may log in again as another user; it is then bound under both, and `ClearSession` unbinds the
  last one only, so that the first stays bound to a session that has ended (`LogicSystem.cpp:258`, `CServer.cpp:57`);
* a read that had completed when `HandleWrite` closed the socket still posts its message
  (`CSession.cpp:119`), for a session that is no longer in the map;
* the length of a frame is a signed number of which only the upper limit is tested (`CSession.cpp:189`): with -1 the session
  reads past the end of `_data`, with less the constructor of the node throws and the session
  stays open and in the map without a read; `ReaderTypeOK` says that no other length does;
* `AuthFriendApply` ignores the result of `AddFriend` (`LogicSystem.cpp:415`): both clients are told of a friendship
  that was rolled back, until their next login; `ToldIsBacked` admits exactly these;
* a reconnect of the MySQL pool notifies nobody (`MysqlDao.h:132`);
* the check thread of the Redis pool frees contexts that may be queued again or in use;
  what a command then does is undefined, and in the model it fails or works;
* the send queue reaches `MAX_SENDQUE + 1` messages (`CSession.cpp:50`);
* `ChatServer.md` describes a text as answered and then forwarded; the answer is
  deferred to the end of the handler, so it follows the forwarding; likewise for an acceptance (5.5);
* with failing calls the texts of one sender may overtake each other, because the
  caller goes on while the callee's handler still runs (`ChatGrpcClient.cpp:130`);
* `Close` of both database pools can miss a thread between its test and its wait;
* an application that was stored on a connection left in a transaction is visible to no other
  connection until the next commit there, and a rollback or a broken connection takes it away, although both clients were told
  of it.  A deadlock in a later statement on that connection takes away all that was left open there; `ChatServer.md` 5.4.4 has "只保留数据库申请" (only the application in the database is kept);
* `ChatServer.md` (line 207 and 5.5) says that `MysqlMgr::AddFriend` is commented out; `MysqlMgr.cpp:37`
  defines it, and `AuthFriendApply` calls it;
* the friend list of a login is read before its session is bound: an acceptance committed in
  between by another server is neither in the list nor notified.

In the StatusServer and the GateServer:

* a call whose answer is lost has still overwritten the token given before; of two calls for one user that overlap, the one
  answered last need not be the one that stored its token last, and its client is then refused
  (`StatusServiceImpl.cpp:28`);
* a login handler that works after `main` has deleted its server's count writes it again, and
  it stays until the next start;
* `StatusServiceImpl::Login` (lines 105-127) tests its lookups the wrong way round; nobody calls it;
* `CheckEmail` of the GateServer without a row neither gives its connection back nor returns a
  value (`GateServer/MysqlDao.cpp:83`): a few resets of unknown names empty the pool for good;
* a reset that went through this way may set the password of an account registered
  meanwhile under another address (the exception in `OwnerSetsPwd`);
* the deadline of an HTTP connection counts from the construction of its object, not from the request, and is
  armed only when the handler returns: it may cut a response at once, and a silent client
  is never timed out.

## 6. What the models leave out

The map covers a small share of the lines of `src/`: some 39,500 of its 48,296 implementation
lines are protobuf and gRPC code generated from three copies of one `message.proto`, and the
hand-written rest holds the Redis and MySQL classes three times, once per server.  Of the copies one is modelled.

*Not modelled*

* Generated code, configuration, singletons, logging.
* `DistLock`: every caller is commented out at this commit.
* In the ChatServer `MysqlDao::RegUser`, `CheckEmail`, `UpdatePwd` and `CheckPwd`, copies that
  server does not call; the StatusServer's `MysqlDao`, `MysqlMgr` and `ChatGrpcClient`, likewise.
* The GateServer's keep-alive thread, which holds the mutex for its whole round, and
  `Close` of its pools, which happens when the process ends.

*Abstracted*

* Message contents and JSON.
* What a session does after it has read past the end of `_data`: undefined behaviour, where the model stops it.
* In `ChatServer` reading a user's data at login is one choice between found and refused; Redis and
  MySQL do not fail within a handler there.  In `Friends` all users exist, a user leaves
  only when no handler works for it, and calls do not fail.  The limit of 10
  applications per login is left out.
* The data race of `ClearSession`'s lookup (`CServer.cpp:55`) is modelled by `ClearMiss`: it
  may miss a session while the map changes.  A crash is not modelled, and what a
  missed session leaves behind is excluded from `QuietEndUnbinds` by the definition of `quiet`.
* A crash of a ChatServer is modelled in `StatusServer`, for the keys it leaves in Redis; the rest of its
  state is memory.
* The stub pools (five stubs; one caller in a ChatServer, as many as io threads in the
  GateServer) never wait and are left out.
* `MySqlPool`: the destructor with threads still inside is undefined behaviour in the code
  and continues in the model.  `checkConnection` is called by nobody.
* `RedisConPool`: `checkThread` and `ClearConnections` are called by nobody; the context that the
  constructor leaves behind when `AUTH` fails is lost to the pool and left out; a second free
  of one address is only counted.  Keys and values are not modelled there.
* `Gate`: the deadline is untimed and may pass whenever it is waited for.

## 7. Plan

Done: all modules of section 2, the safety of both refinements, and a theorem for every
invariant that a passing run checks.  What is left:

* an abstract specification of friendship, a symmetric relation that grows by one pair at a time,
  and of the two pools, a counter of free connections with waiters, and their refinement by `Friends`,
  `MySqlPool` and `RedisConPool`, as it is done for the channel;
* the steps that may touch a binding, a token or a row, as action properties from the same invariants.
