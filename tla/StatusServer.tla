---------------------------- MODULE StatusServer ----------------------------
(***************************************************************************)
(* The StatusServer assigns a ChatServer to a user and gives a token for   *)
(* it: GetChatServer, called by the GateServer, reads from Redis how many  *)
(* logins each ChatServer has counted, picks one under a mutex and stores  *)
(* the token, which the login handler of the ChatServer compares.  The     *)
(* counts are written by the ChatServers: 0 at the start, one more at each *)
(* login, deleted at the end.                                              *)
(*                                                                         *)
(* Redis answers, as long as a ChatServer has not closed its own pool.  A  *)
(* token is a number never given before.  Of the login handler only the    *)
(* commands on the token and on the count are modelled here.               *)
(***************************************************************************)
EXTENDS Naturals, FiniteSets

CONSTANTS
  ChatSrv,    \* the ChatServers of the configuration
  First,      \* the one at _servers.begin()
  Caller,     \* the gRPC threads that serve calls
  User,       \* the uids
  MaxStarts,  \* MaxStarts[s]: how often s is started (bound of the model)
  MaxCalls,   \* how many calls are made (bound of the model)
  None

ASSUME StatusServerAssumption ==
  /\ First \in ChatSrv
  /\ MaxStarts \in [ChatSrv -> Nat]
  /\ MaxCalls \in Nat
  /\ None \notin ChatSrv \cup Caller \cup User \cup Nat

INT_MAX == 2147483647

VARIABLES
  count,     \* the hash logincount: count[s], None if there is no such field
  token,     \* token[u]: utoken_<uid>, None if there is none
  mutex,     \* the caller inside getChatServer
  stored,    \* stored[s]: con_count of s in _servers
  min,       \* minServer
  todo,      \* the servers the first loop has not looked at
  read,      \* read[s]: the count the call inside read for s (history)
  spc,       \* where a call is
  uid,       \* whom it is for
  reply,     \* the server and the token it answers with
  given,     \* how many calls were begun, which is the last one's token
  alone,     \* the calls no other call for the same user overlaps (history)
  ticket,    \* ticket[u]: the last answer u's client has got and not used, and whether
             \* no other call for u has begun since that one began (history)
  life,      \* life[s]: "off", "up", "left" (its io threads are joined), "deleted"
             \* (the field too), "closed" (its Redis pool too)
  starts,    \* how often s was started
  lpc,       \* where the logic thread of s is in a login
  login,     \* login[s]: the user and the token of that login, until they are compared
  number,    \* number[s]: the count it read
  logins     \* logins[s]: how many logins s has counted since its start (history)

statusVars == <<mutex, stored, min, todo, read>>
callVars == <<spc, uid, reply, given, alone>>
chatVars == <<life, starts, lpc, login, number, logins>>
svars == <<count, token, ticket, statusVars, callVars, chatVars>>

StatusInit ==
  /\ count = [s \in ChatSrv |-> None]
  /\ token = [u \in User |-> None]
  /\ mutex = None
  /\ stored = [s \in ChatSrv |-> 0]
  /\ min = [name |-> First, con_count |-> 0]
  /\ todo = {}
  /\ read = [s \in ChatSrv |-> INT_MAX]
  /\ spc = [c \in Caller |-> "idle"]
  /\ uid = [c \in Caller |-> None]
  /\ reply = [c \in Caller |-> None]
  /\ given = 0
  /\ alone = {}
  /\ ticket = [u \in User |-> None]
  /\ life = [s \in ChatSrv |-> "off"]
  /\ starts = [s \in ChatSrv |-> 0]
  /\ lpc = [s \in ChatSrv |-> "idle"]
  /\ login = [s \in ChatSrv |-> None]
  /\ number = [s \in ChatSrv |-> 0]
  /\ logins = [s \in ChatSrv |-> 0]

(* Mutant: an empty answer is not expected. *)
hgetFull(s) == count[s]

(* An empty answer of HGET counts as the largest number. *)
hget(s) == IF count[s] = None THEN INT_MAX ELSE count[s]

others(c, u) == {d \in Caller \ {c} : spc[d] # "idle" /\ uid[d] = u}
-------------------------------------------------------------------------------
(* A call of GetChatServer for user u. *)
Call(c, u) ==
  /\ spc[c] = "idle"
  /\ given < MaxCalls
  /\ spc' = [spc EXCEPT ![c] = "pick"]
  /\ uid' = [uid EXCEPT ![c] = u]
  /\ given' = given + 1
  /\ reply' = [reply EXCEPT ![c] = [server |-> None, token |-> given + 1]]
  /\ alone' = IF others(c, u) = {} THEN alone \cup {c} ELSE alone \ (others(c, u) \cup {c})
  /\ ticket' = [v \in User |-> IF v = u /\ ticket[u] # None THEN [ticket[u] EXCEPT !.alone = FALSE]
                                                         ELSE ticket[v]]
  /\ UNCHANGED <<count, token, statusVars, chatVars>>

(* getChatServer: the lock, and the count of the first server. *)
PickFirst(c) ==
  /\ spc[c] = "pick"
  /\ mutex = None
  /\ mutex' = c
  /\ min' = [name |-> First, con_count |-> hget(First)]
  /\ todo' = ChatSrv \ {First}
  /\ read' = [s \in ChatSrv |-> IF s = First THEN hget(First) ELSE INT_MAX]
  /\ UNCHANGED <<count, token, ticket, stored, callVars, chatVars>>

(* The first loop: the count of one more server, stored and compared. *)
PickOther(c) ==
  /\ mutex = c
  /\ \E s \in todo :
       /\ todo' = todo \ {s}
       /\ stored' = [stored EXCEPT ![s] = hget(s)]
       /\ read' = [read EXCEPT ![s] = hget(s)]
       /\ min' = IF hget(s) < min.con_count
                 THEN [name |-> s, con_count |-> hget(s)] ELSE min
  /\ UNCHANGED <<count, token, ticket, mutex, callVars, chatVars>>

(* What the second loop may select: it compares the stored counts, that of the first
   server among them. *)
selected ==
  LET lower == {s \in ChatSrv : /\ stored[s] < min.con_count
                               /\ \A t \in ChatSrv : stored[s] <= stored[t]}
  IN  IF lower = {} THEN {min.name} ELSE lower

(* The second loop, and the unlock. *)
Pick(c) ==
  /\ mutex = c
  /\ todo = {}
  /\ \E s \in selected : reply' = [reply EXCEPT ![c].server = s]
  /\ mutex' = None
  /\ min' = [name |-> First, con_count |-> 0]
  /\ read' = [s \in ChatSrv |-> INT_MAX]
  /\ spc' = [spc EXCEPT ![c] = "insert"]
  /\ UNCHANGED <<count, token, ticket, stored, todo, uid, given, alone, chatVars>>

(* Mutant: a token that is there stays. *)
insertTokenOnce(c) ==
  /\ spc[c] = "insert"
  /\ token' = [token EXCEPT ![uid[c]] = IF @ = None THEN reply[c].token ELSE @]
  /\ spc' = [spc EXCEPT ![c] = "reply"]
  /\ UNCHANGED <<count, ticket, statusVars, uid, reply, given, alone, chatVars>>

(* insertToken. *)
insertToken(c) ==
  /\ spc[c] = "insert"
  /\ token' = [token EXCEPT ![uid[c]] = reply[c].token]
  /\ spc' = [spc EXCEPT ![c] = "reply"]
  /\ UNCHANGED <<count, ticket, statusVars, uid, reply, given, alone, chatVars>>

(* The answer reaches the client. *)
Reply(c) ==
  /\ spc[c] = "reply"
  /\ ticket' = [ticket EXCEPT ![uid[c]] =
                 [server |-> reply[c].server, token |-> reply[c].token, alone |-> c \in alone]]
  /\ spc' = [spc EXCEPT ![c] = "idle"]
  /\ reply' = [reply EXCEPT ![c] = None]
  /\ uid' = [uid EXCEPT ![c] = None]
  /\ alone' = alone \ {c}
  /\ UNCHANGED <<count, token, statusVars, given, chatVars>>

(* Or it is lost on its way, through the GateServer, to the client. *)
Lose(c) ==
  /\ spc[c] = "reply"
  /\ spc' = [spc EXCEPT ![c] = "idle"]
  /\ reply' = [reply EXCEPT ![c] = None]
  /\ uid' = [uid EXCEPT ![c] = None]
  /\ alone' = alone \ {c}
  /\ UNCHANGED <<count, token, ticket, statusVars, given, chatVars>>
-------------------------------------------------------------------------------
running(s) == life[s] # "off"

(* Mutant: the count is left as it is. *)
StartOnly(s) ==
  /\ life[s] = "off" /\ starts[s] < MaxStarts[s]
  /\ life' = [life EXCEPT ![s] = "up"]
  /\ starts' = [starts EXCEPT ![s] = @ + 1]
  /\ UNCHANGED <<count, token, ticket, statusVars, callVars, lpc, login, number, logins>>

(* A ChatServer starts, and sets its count to 0. *)
Start(s) ==
  /\ life[s] = "off" /\ starts[s] < MaxStarts[s]
  /\ life' = [life EXCEPT ![s] = "up"]
  /\ starts' = [starts EXCEPT ![s] = @ + 1]
  /\ count' = [count EXCEPT ![s] = 0]
  /\ UNCHANGED <<token, ticket, statusVars, callVars, lpc, login, number, logins>>

(* A client logs in with the answer it got; a login that was posted before the io
   threads ended is still handled afterwards. *)
Login(s) ==
  /\ running(s) /\ lpc[s] = "idle"
  /\ \E u \in User :
       /\ ticket[u] # None /\ ticket[u].server = s
       /\ login' = [login EXCEPT ![s] = [user |-> u, token |-> ticket[u].token]]
       /\ ticket' = [ticket EXCEPT ![u] = None]
  /\ lpc' = [lpc EXCEPT ![s] = "token"]
  /\ UNCHANGED <<count, token, statusVars, callVars, life, starts, number, logins>>

Goto(s, from, to) ==
  /\ lpc[s] = from
  /\ lpc' = [lpc EXCEPT ![s] = to]

(* Get of the token, which must be the one presented, ... *)
LoginToken(s) ==
  /\ Goto(s, "token", IF life[s] # "closed" /\ token[login[s].user] = login[s].token
                      THEN "hget" ELSE "idle")
  /\ login' = [login EXCEPT ![s] = None]
  /\ UNCHANGED <<count, token, ticket, statusVars, callVars, life, starts, number, logins>>

(* ... HGet of the count, ... *)
LoginHGet(s) ==
  /\ Goto(s, "hget", "hset")
  /\ number' = [number EXCEPT ![s] = IF life[s] = "closed" \/ count[s] = None THEN 0 ELSE count[s]]
  /\ UNCHANGED <<count, token, ticket, statusVars, callVars, life, starts, login, logins>>

(* ... and HSet of one more. *)
LoginHSet(s) ==
  /\ Goto(s, "hset", "idle")
  /\ IF life[s] = "closed" THEN UNCHANGED <<count, logins>>
     ELSE /\ count' = [count EXCEPT ![s] = number[s] + 1]
          /\ logins' = [logins EXCEPT ![s] = @ + 1]
  /\ number' = [number EXCEPT ![s] = 0]
  /\ UNCHANGED <<token, ticket, statusVars, callVars, life, starts, login>>

(* A signal: the io threads are stopped and joined, ... *)
Stop(s) ==
  /\ life[s] = "up"
  /\ life' = [life EXCEPT ![s] = "left"]
  /\ UNCHANGED <<count, token, ticket, statusVars, callVars, starts, lpc, login, number, logins>>

(* ... main deletes the count, ... *)
Delete(s) ==
  /\ life[s] = "left"
  /\ life' = [life EXCEPT ![s] = "deleted"]
  /\ count' = [count EXCEPT ![s] = None]
  /\ UNCHANGED <<token, ticket, statusVars, callVars, starts, lpc, login, number, logins>>

(* ... closes the Redis pool, ... *)
Close(s) ==
  /\ life[s] = "deleted"
  /\ life' = [life EXCEPT ![s] = "closed"]
  /\ UNCHANGED <<count, token, ticket, statusVars, callVars, starts, lpc, login, number, logins>>

(* ... and, its logic thread joined, returns. *)
Exit(s) ==
  /\ life[s] = "closed" /\ lpc[s] = "idle"
  /\ life' = [life EXCEPT ![s] = "off"]
  /\ logins' = [logins EXCEPT ![s] = 0]
  /\ UNCHANGED <<count, token, ticket, statusVars, callVars, starts, lpc, login, number>>

(* A ChatServer crashes at any point: its count stays. *)
Crash(s) ==
  /\ running(s)
  /\ life' = [life EXCEPT ![s] = "off"]
  /\ lpc' = [lpc EXCEPT ![s] = "idle"]
  /\ login' = [login EXCEPT ![s] = None]
  /\ number' = [number EXCEPT ![s] = 0]
  /\ logins' = [logins EXCEPT ![s] = 0]
  /\ UNCHANGED <<count, token, ticket, statusVars, callVars, starts>>
-------------------------------------------------------------------------------
GetChatServer(c) == PickFirst(c) \/ PickOther(c) \/ Pick(c) \/ insertToken(c)

Logic(s) == LoginToken(s) \/ LoginHGet(s) \/ LoginHSet(s)

ChatServer(s) ==
  \/ Start(s) \/ Login(s) \/ Logic(s)
  \/ Stop(s) \/ Delete(s) \/ Close(s) \/ Exit(s) \/ Crash(s)

StatusNext ==
  \/ \E c \in Caller : GetChatServer(c) \/ Reply(c) \/ Lose(c) \/ \E u \in User : Call(c, u)
  \/ \E s \in ChatSrv : ChatServer(s)

StatusSpec == StatusInit /\ [][StatusNext]_svars
-------------------------------------------------------------------------------
AnswerType == [server : ChatSrv \cup {None}, token : Nat]

StatusTypeOK ==
  /\ count \in [ChatSrv -> Nat \cup {None}]
  /\ token \in [User -> Nat \cup {None}]
  /\ mutex \in Caller \cup {None}
  /\ mutex # None => spc[mutex] = "pick"
  /\ stored \in [ChatSrv -> Nat]
  /\ min \in [name : ChatSrv, con_count : Nat]
  /\ todo \in SUBSET ChatSrv
  /\ read \in [ChatSrv -> Nat]
  /\ spc \in [Caller -> {"idle", "pick", "insert", "reply"}]
  /\ uid \in [Caller -> User \cup {None}]
  /\ reply \in [Caller -> AnswerType \cup {None}]
  /\ given \in Nat
  /\ alone \in SUBSET {c \in Caller : spc[c] # "idle"}
  /\ \A c \in Caller : spc[c] # "idle" => uid[c] \in User /\ reply[c] \in AnswerType
  /\ \A c \in Caller : spc[c] \in {"insert", "reply"} => reply[c].server \in ChatSrv
  /\ ticket \in [User -> [server : ChatSrv, token : Nat, alone : BOOLEAN] \cup {None}]
  /\ life \in [ChatSrv -> {"off", "up", "left", "deleted", "closed"}]
  /\ starts \in [ChatSrv -> Nat]
  /\ lpc \in [ChatSrv -> {"idle", "token", "hget", "hset"}]
  /\ login \in [ChatSrv -> [user : User, token : Nat] \cup {None}]
  /\ number \in [ChatSrv -> Nat]
  /\ logins \in [ChatSrv -> Nat]

(* The token a client was given last is the one its ChatServer will compare, unless
   another call for the same user overlapped the one that gave it or has begun since: the
   answer is sent after the token is stored (StatusServiceImpl.cpp:27-29), and every call
   overwrites it, one whose answer is lost as well. *)
TokenStands ==
  \A u \in User :
    ticket[u] # None /\ ticket[u].alone => token[u] = ticket[u].token

(* As long as a ChatServer is up its count is the number of logins since its start,
   whatever an earlier run left behind when it crashed or ended, although each login
   reads the count and writes it in two commands (LogicSystem.cpp:246-255,
   ChatServer.cpp:26). *)
CountIsLogins ==
  \A s \in ChatSrv : life[s] \in {"up", "left"} =>
    /\ count[s] = logins[s]
    /\ lpc[s] = "hset" => number[s] = logins[s]

(* What StatusServer.md promises at line 182, "选出连接数最小的节点" (the node with the
   fewest connections is chosen), and the comments at StatusServiceImpl.cpp:21 and 95
   repeat: no server has a lower count than the one a call selects, as that call has
   read the counts.  It does not hold: the second loop compares the counts stored in
   _servers, and the first loop never refreshes that of the first server
   (StatusServiceImpl.cpp:63, 96-100). *)
LeastLoaded ==
  mutex # None /\ todo = {} =>
    \A s \in selected : \A t \in ChatSrv : read[s] <= read[t]
=============================================================================
