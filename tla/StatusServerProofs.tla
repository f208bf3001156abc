------------------------- MODULE StatusServerProofs -------------------------
(***************************************************************************)
(* Theorems about StatusServer, for any numbers of ChatServers, callers,   *)
(* users, starts and calls.                                                *)
(***************************************************************************)
EXTENDS StatusServer, TLAPS

(* Every variable has its type in the initial state. *)
LEMMA TypeInit ==
  ASSUME StatusInit
  PROVE  StatusTypeOK
BY StatusServerAssumption DEF StatusInit, StatusTypeOK, INT_MAX

(* The calls keep the types. *)
LEMMA TypeCalls ==
  ASSUME StatusTypeOK, NEW c \in Caller,
         GetChatServer(c) \/ Reply(c) \/ Lose(c) \/ \E u \in User : Call(c, u)
  PROVE  StatusTypeOK'
<1> USE StatusServerAssumption DEF StatusTypeOK, AnswerType
<1>1. CASE \E u \in User : Call(c, u)
  <2> DEFINE Ticket == [server : ChatSrv, token : Nat, alone : BOOLEAN]
             Spc == {"idle", "pick", "insert", "reply"}
  <2>1. PICK u \in User : Call(c, u)
    BY <1>1
  <2>2. /\ spc[c] = "idle" /\ spc' = [spc EXCEPT ![c] = "pick"]
        /\ uid' = [uid EXCEPT ![c] = u]
        /\ given' = given + 1
        /\ reply' = [reply EXCEPT ![c] = [server |-> None, token |-> given + 1]]
        /\ alone' \in SUBSET (alone \cup {c})
        /\ ticket' = [v \in User |-> IF v = u /\ ticket[u] # None
                                     THEN [ticket[u] EXCEPT !.alone = FALSE] ELSE ticket[v]]
    BY <2>1 DEF Call
  <2>3. UNCHANGED <<count, token, statusVars, chatVars>>
    BY <2>1 DEF Call
  <2>4. ticket' \in [User -> Ticket \cup {None}]
    <3>1. ASSUME ticket[u] # None
          PROVE  [ticket[u] EXCEPT !.alone = FALSE] \in Ticket
      <4>1. ticket[u] \in Ticket
        BY <3>1
      <4> QED BY ONLY <4>1
    <3> QED BY <2>2, <3>1
  <2>5. spc' \in [Caller -> Spc] /\ alone' \in SUBSET {d \in Caller : spc'[d] # "idle"}
    BY <2>2
  <2>6. reply' \in [Caller -> AnswerType \cup {None}] /\ reply'[c] \in AnswerType
    BY <2>2
  <2>7. \A d \in Caller : spc'[d] # "idle" => uid'[d] \in User /\ reply'[d] \in AnswerType
    BY <2>2, <2>6
  <2>8. \A d \in Caller : spc'[d] \in {"insert", "reply"} => reply'[d].server \in ChatSrv
    BY <2>2
  <2>9. /\ uid' \in [Caller -> User \cup {None}] /\ given' \in Nat
        /\ mutex' # None => spc'[mutex'] = "pick"
    BY <2>2, <2>3 DEF statusVars
  <2> QED BY <2>3, <2>4, <2>5, <2>6, <2>7, <2>8, <2>9 DEF statusVars, chatVars
<1>2. CASE PickFirst(c)
  BY <1>2 DEF PickFirst, hget, INT_MAX, callVars, chatVars
<1>3. CASE PickOther(c)
  BY <1>3 DEF PickOther, hget, INT_MAX, callVars, chatVars
<1>4. CASE Pick(c)
  BY <1>4 DEF Pick, selected, INT_MAX, chatVars
<1>5. CASE insertToken(c)
  BY <1>5 DEF insertToken, statusVars, chatVars
<1>6. CASE Reply(c)
  BY <1>6 DEF Reply, statusVars, chatVars
<1>7. CASE Lose(c)
  BY <1>7 DEF Lose, statusVars, chatVars
<1> QED BY <1>1, <1>2, <1>3, <1>4, <1>5, <1>6, <1>7 DEF GetChatServer

(* The ChatServers keep the types. *)
LEMMA TypeServers ==
  ASSUME StatusTypeOK, NEW s \in ChatSrv, ChatServer(s)
  PROVE  StatusTypeOK'
<1> USE StatusServerAssumption DEF StatusTypeOK, AnswerType, statusVars, callVars
<1>1. CASE Start(s)  BY <1>1 DEF Start
<1>2. CASE Login(s)  BY <1>2 DEF Login
<1>3. CASE LoginToken(s)  BY <1>3 DEF LoginToken, Goto
<1>4. CASE LoginHGet(s)  BY <1>4 DEF LoginHGet, Goto
<1>5. CASE LoginHSet(s)
  <2>1. /\ lpc' = [lpc EXCEPT ![s] = "idle"] /\ number' = [number EXCEPT ![s] = 0]
        /\ UNCHANGED <<token, ticket, statusVars, callVars, life, starts, login>>
    BY <1>5 DEF LoginHSet, Goto
  <2>2. \/ UNCHANGED <<count, logins>>
        \/ /\ count' = [count EXCEPT ![s] = number[s] + 1]
           /\ logins' = [logins EXCEPT ![s] = @ + 1]
    BY <1>5 DEF LoginHSet
  <2>3. count' \in [ChatSrv -> Nat \cup {None}] /\ logins' \in [ChatSrv -> Nat]
    BY <2>2
  <2> QED BY <2>1, <2>3
<1>6. CASE Stop(s)  BY <1>6 DEF Stop
<1>7. CASE Delete(s)  BY <1>7 DEF Delete
<1>8. CASE Close(s)  BY <1>8 DEF Close
<1>9. CASE Exit(s)  BY <1>9 DEF Exit
<1>10. CASE Crash(s)  BY <1>10 DEF Crash
<1> QED BY <1>1, <1>2, <1>3, <1>4, <1>5, <1>6, <1>7, <1>8, <1>9, <1>10 DEF ChatServer, Logic

(* A step keeps the types. *)
LEMMA TypeStep ==
  ASSUME StatusTypeOK, [StatusNext]_svars
  PROVE  StatusTypeOK'
<1>1. CASE \E c \in Caller : GetChatServer(c) \/ Reply(c) \/ Lose(c) \/ \E u \in User : Call(c, u)
  BY <1>1, TypeCalls
<1>2. CASE \E s \in ChatSrv : ChatServer(s)
  BY <1>2, TypeServers
<1>3. CASE UNCHANGED svars
  BY <1>3 DEF svars, statusVars, callVars, chatVars, StatusTypeOK, AnswerType
<1> QED BY <1>1, <1>2, <1>3 DEF StatusNext

(* Whatever callers, clients, ends and crashes do, the variables have their types; in
   particular a caller in getChatServer holds the mutex, and a call answers with a
   server of the configuration. *)
THEOREM TypeCorrect == StatusSpec => []StatusTypeOK
<1>1. StatusInit => StatusTypeOK
  BY TypeInit
<1>2. StatusTypeOK /\ [StatusNext]_svars => StatusTypeOK'
  BY TypeStep
<1> QED BY <1>1, <1>2, PTL DEF StatusSpec
-------------------------------------------------------------------------------
(* A ChatServer that is off has counted no login and handles none. *)
OffIsIdle == \A s \in ChatSrv : life[s] = "off" => logins[s] = 0 /\ lpc[s] = "idle"

(* The calls have nothing to do with the counts. *)
LEMMA CountCalls ==
  ASSUME CountIsLogins, OffIsIdle, NEW c \in Caller,
         GetChatServer(c) \/ Reply(c) \/ Lose(c) \/ \E u \in User : Call(c, u)
  PROVE  CountIsLogins' /\ OffIsIdle'
<1>1. UNCHANGED <<count, life, lpc, number, logins>>
  BY DEF GetChatServer, Reply, Lose, Call, PickFirst, PickOther, Pick, insertToken, chatVars
<1> QED BY <1>1 DEF CountIsLogins, OffIsIdle

(* Start, the two commands of a login, end and crash keep a count right. *)
LEMMA CountServers ==
  ASSUME StatusTypeOK, CountIsLogins, OffIsIdle, NEW s \in ChatSrv, ChatServer(s)
  PROVE  CountIsLogins' /\ OffIsIdle'
<1>0. /\ count \in [ChatSrv -> Nat \cup {None}] /\ None \notin Nat
      /\ life \in [ChatSrv -> {"off", "up", "left", "deleted", "closed"}]
      /\ lpc \in [ChatSrv -> {"idle", "token", "hget", "hset"}]
      /\ number \in [ChatSrv -> Nat] /\ logins \in [ChatSrv -> Nat]
  BY StatusServerAssumption DEF StatusTypeOK
<1> USE <1>0 DEF CountIsLogins, OffIsIdle
<1>1. CASE Start(s)  BY <1>1 DEF Start
<1>2. CASE Login(s)
  <2>1. lpc[s] = "idle" /\ lpc' = [lpc EXCEPT ![s] = "token"] /\ life[s] # "off"
    BY <1>2 DEF Login, running
  <2>2. UNCHANGED <<count, life, number, logins>>
    BY <1>2 DEF Login
  <2> QED BY <2>1, <2>2
<1>3. CASE LoginToken(s)  BY <1>3 DEF LoginToken, Goto
<1>4. CASE LoginHGet(s)
  <2>1. /\ lpc[s] = "hget" /\ lpc' = [lpc EXCEPT ![s] = "hset"]
        /\ UNCHANGED <<count, life, logins>>
    BY <1>4 DEF LoginHGet, Goto
  <2>2. /\ number' = [number EXCEPT ![s] = number'[s]]
        /\ life[s] \in {"up", "left"} => number'[s] = logins[s]
    BY <1>4 DEF LoginHGet
  <2> QED BY <2>1, <2>2
<1>5. CASE LoginHSet(s)
  <2>1. /\ lpc[s] = "hset" /\ lpc' = [lpc EXCEPT ![s] = "idle"]
        /\ number' = [number EXCEPT ![s] = 0] /\ UNCHANGED life
    BY <1>5 DEF LoginHSet, Goto
  <2>2. CASE life[s] = "closed"
    <3>1. UNCHANGED <<count, logins>>
      BY <1>5, <2>2 DEF LoginHSet
    <3> QED BY <2>1, <2>2, <3>1
  <2>3. CASE life[s] # "closed"
    <3>1. /\ count' = [count EXCEPT ![s] = number[s] + 1]
          /\ logins' = [logins EXCEPT ![s] = @ + 1]
      BY <1>5, <2>3 DEF LoginHSet
    <3> QED BY <2>1, <2>3, <3>1
  <2> QED BY <2>2, <2>3
<1>6. CASE Stop(s)  BY <1>6 DEF Stop
<1>7. CASE Delete(s)  BY <1>7 DEF Delete
<1>8. CASE Close(s)  BY <1>8 DEF Close
<1>9. CASE Exit(s)  BY <1>9 DEF Exit
<1>10. CASE Crash(s)  BY <1>10 DEF Crash
<1> QED BY <1>1, <1>2, <1>3, <1>4, <1>5, <1>6, <1>7, <1>8, <1>9, <1>10 DEF ChatServer, Logic

(* While a ChatServer is up its count in Redis is the number of logins since its
   start, although each login reads and writes it in two commands, and whatever a
   crash or a late login of an earlier run has left (LogicSystem.cpp:246-255,
   ChatServer.cpp:26). *)
THEOREM CountsAreLogins == StatusSpec => []CountIsLogins
<1>1. StatusInit => CountIsLogins /\ OffIsIdle
  BY DEF StatusInit, CountIsLogins, OffIsIdle
<1>2. StatusTypeOK /\ CountIsLogins /\ OffIsIdle /\ [StatusNext]_svars
        => (CountIsLogins /\ OffIsIdle)'
  <2> SUFFICES ASSUME StatusTypeOK, CountIsLogins, OffIsIdle, [StatusNext]_svars
               PROVE  CountIsLogins' /\ OffIsIdle'
    OBVIOUS
  <2>1. CASE \E c \in Caller : GetChatServer(c) \/ Reply(c) \/ Lose(c) \/ \E u \in User : Call(c, u)
    BY <2>1, CountCalls
  <2>2. CASE \E s \in ChatSrv : ChatServer(s)
    BY <2>2, CountServers
  <2>3. CASE UNCHANGED svars
    BY <2>3 DEF svars, chatVars, CountIsLogins, OffIsIdle
  <2> QED BY <2>1, <2>2, <2>3 DEF StatusNext
<1> QED BY <1>1, <1>2, TypeCorrect, PTL DEF StatusSpec
-------------------------------------------------------------------------------
(* No other call is under way for the user of a call that is alone, and once that one
   has stored its token the token stays until it is answered; nor is one under way for
   a user whose last answer is of such a call. *)
Alone ==
  /\ \A c \in alone :
       /\ \A d \in Caller \ {c} : spc[d] # "idle" => uid[d] # uid[c]
       /\ spc[c] = "reply" => token[uid[c]] = reply[c].token
  /\ \A u \in User : ticket[u] # None /\ ticket[u].alone =>
       \A d \in Caller : spc[d] # "idle" => uid[d] # u

(* The types that the tokens need. *)
TokenTypes ==
  /\ None \notin Caller
  /\ mutex # None => spc[mutex] = "pick"
  /\ token \in [User -> Nat \cup {None}]
  /\ spc \in [Caller -> {"idle", "pick", "insert", "reply"}]
  /\ uid \in [Caller -> User \cup {None}]
  /\ reply \in [Caller -> AnswerType \cup {None}]
  /\ alone \in SUBSET {c \in Caller : spc[c] # "idle"}
  /\ \A c \in Caller : spc[c] # "idle" => uid[c] \in User /\ reply[c] \in AnswerType
  /\ ticket \in [User -> [server : ChatSrv, token : Nat, alone : BOOLEAN] \cup {None}]

(* A call that begins ends the good time of all others for its user. *)
LEMMA TokenCall ==
  ASSUME TokenTypes, TokenStands, Alone, NEW c \in Caller, NEW u \in User, Call(c, u)
  PROVE  TokenStands' /\ Alone'
<1>1. /\ spc[c] = "idle" /\ spc' = [spc EXCEPT ![c] = "pick"]
      /\ uid' = [uid EXCEPT ![c] = u]
      /\ reply' = [reply EXCEPT ![c] = [server |-> None, token |-> given + 1]]
      /\ alone' = IF others(c, u) = {} THEN alone \cup {c} ELSE alone \ (others(c, u) \cup {c})
      /\ token' = token
  BY DEF Call
<1>2. /\ \A v \in User \ {u} : ticket'[v] = ticket[v]
      /\ ~(ticket'[u] # None /\ ticket'[u].alone)
  <2>1. ticket' = [v \in User |-> IF v = u /\ ticket[u] # None
                                 THEN [ticket[u] EXCEPT !.alone = FALSE] ELSE ticket[v]]
    BY DEF Call
  <2>2. CASE ticket[u] = None
    BY <2>1, <2>2
  <2>3. CASE ticket[u] # None
    <3>1. ticket[u] \in [server : ChatSrv, token : Nat, alone : BOOLEAN]
      BY <2>3 DEF TokenTypes
    <3>2. [ticket[u] EXCEPT !.alone = FALSE].alone = FALSE
      BY ONLY <3>1
    <3> QED BY <2>1, <2>3, <3>2
  <2> QED BY <2>2, <2>3
<1>3. \A d \in alone' \ {c} : d \in alone /\ uid[d] # u
  BY <1>1 DEF others, TokenTypes
<1>4. c \in alone' => \A d \in Caller \ {c} : spc[d] # "idle" => uid[d] # u
  BY <1>1 DEF others, TokenTypes
<1>5. TokenStands'
  BY <1>1, <1>2 DEF TokenStands
<1>6. ASSUME NEW d \in alone'
      PROVE  /\ \A e \in Caller \ {d} : spc'[e] # "idle" => uid'[e] # uid'[d]
             /\ spc'[d] = "reply" => token'[uid'[d]] = reply'[d].token
  <2>1. CASE d = c
    BY <1>1, <1>4, <2>1 DEF TokenTypes
  <2>2. CASE d # c
    BY <1>1, <1>3, <2>2 DEF TokenTypes, Alone
  <2> QED BY <2>1, <2>2
<1>7. ASSUME NEW v \in User, ticket'[v] # None, ticket'[v].alone, NEW d \in Caller, spc'[d] # "idle"
      PROVE  uid'[d] # v
  BY <1>1, <1>2, <1>7 DEF TokenTypes, Alone
<1> QED BY <1>5, <1>6, <1>7 DEF Alone

(* The other steps of a call: its token is stored before the answer goes out. *)
LEMMA TokenCalls ==
  ASSUME TokenTypes, TokenStands, Alone, NEW c \in Caller,
         GetChatServer(c) \/ Reply(c) \/ Lose(c)
  PROVE  TokenStands' /\ Alone'
<1>1. CASE PickFirst(c) \/ PickOther(c)
  <2>1. UNCHANGED <<token, ticket, callVars>>
    BY <1>1 DEF PickFirst, PickOther
  <2> QED BY <2>1 DEF callVars, TokenStands, Alone
<1>2. CASE Pick(c)
  <2>1. /\ UNCHANGED <<token, ticket, uid, alone>>
        /\ spc' = [spc EXCEPT ![c] = "insert"]
        /\ \A d \in Caller \ {c} : reply'[d] = reply[d]
    BY <1>2 DEF Pick, TokenTypes
  <2>2. spc[c] = "pick"
    BY <1>2 DEF Pick, TokenTypes
  <2> QED BY <2>1, <2>2 DEF TokenTypes, TokenStands, Alone
<1>3. CASE insertToken(c)
  <2>1. /\ spc[c] = "insert" /\ spc' = [spc EXCEPT ![c] = "reply"]
        /\ token' = [token EXCEPT ![uid[c]] = reply[c].token]
        /\ UNCHANGED <<ticket, uid, reply, alone>>
    BY <1>3 DEF insertToken
  <2>2. uid[c] \in User
    BY <2>1 DEF TokenTypes
  <2>3. TokenStands'
    BY <2>1, <2>2 DEF TokenTypes, TokenStands, Alone
  <2>4. Alone'
    BY <2>1, <2>2 DEF TokenTypes, Alone
  <2> QED BY <2>3, <2>4
<1>4. CASE Reply(c)
  <2> DEFINE answer == [server |-> reply[c].server, token |-> reply[c].token, alone |-> c \in alone]
  <2>1. /\ spc[c] = "reply" /\ spc' = [spc EXCEPT ![c] = "idle"]
        /\ ticket' = [ticket EXCEPT ![uid[c]] = answer]
        /\ uid' = [uid EXCEPT ![c] = None] /\ reply' = [reply EXCEPT ![c] = None]
        /\ alone' = alone \ {c} /\ token' = token
    BY <1>4 DEF Reply
  <2>2. uid[c] \in User
    BY <2>1 DEF TokenTypes
  <2>3. ticket'[uid[c]].token = reply[c].token /\ (ticket'[uid[c]].alone <=> c \in alone)
    BY <2>1, <2>2 DEF TokenTypes
  <2>4. \A v \in User \ {uid[c]} : ticket'[v] = ticket[v]
    BY <2>1 DEF TokenTypes
  <2> HIDE DEF answer
  <2>5. TokenStands'
    BY <2>1, <2>2, <2>3, <2>4 DEF TokenTypes, TokenStands, Alone
  <2>6. Alone'
    BY <2>1, <2>2, <2>3, <2>4 DEF TokenTypes, Alone
  <2> QED BY <2>5, <2>6
<1>5. CASE Lose(c)
  <2>1. /\ spc' = [spc EXCEPT ![c] = "idle"]
        /\ uid' = [uid EXCEPT ![c] = None] /\ reply' = [reply EXCEPT ![c] = None]
        /\ alone' = alone \ {c} /\ UNCHANGED <<token, ticket>>
    BY <1>5 DEF Lose
  <2> QED BY <2>1 DEF TokenTypes, TokenStands, Alone
<1> QED BY <1>1, <1>2, <1>3, <1>4, <1>5 DEF GetChatServer

(* A ChatServer takes an answer from a client or leaves the tokens alone. *)
LEMMA TokenServers ==
  ASSUME TokenTypes, TokenStands, Alone, NEW s \in ChatSrv, ChatServer(s)
  PROVE  TokenStands' /\ Alone'
<1>1. UNCHANGED <<token, callVars>>
  BY DEF ChatServer, Logic, Start, Login, LoginToken, LoginHGet, LoginHSet, Stop, Delete, Close,
         Exit, Crash
<1>2. \A u \in User : ticket'[u] = ticket[u] \/ ticket'[u] = None
  BY DEF TokenTypes, ChatServer, Logic, Start, Login, LoginToken, LoginHGet, LoginHSet, Stop,
         Delete, Close, Exit, Crash
<1> QED BY <1>1, <1>2 DEF callVars, TokenStands, Alone

(* The token of the last answer a user has got is the one in Redis, if no other call for
   the user overlapped that one or has begun since: however many callers there are and
   whichever answers are lost (StatusServiceImpl.cpp:27-29, 129-134). *)
THEOREM TokensStand == StatusSpec => []TokenStands
<1>1. StatusInit => TokenStands /\ Alone
  BY DEF StatusInit, TokenStands, Alone
<1>2. StatusTypeOK /\ TokenStands /\ Alone /\ [StatusNext]_svars => (TokenStands /\ Alone)'
  <2> SUFFICES ASSUME StatusTypeOK, TokenStands, Alone, [StatusNext]_svars
               PROVE  TokenStands' /\ Alone'
    OBVIOUS
  <2>0. TokenTypes
    BY StatusServerAssumption DEF StatusTypeOK, TokenTypes
  <2>1. CASE \E c \in Caller, u \in User : Call(c, u)
    BY <2>0, <2>1, TokenCall
  <2>2. CASE \E c \in Caller : GetChatServer(c) \/ Reply(c) \/ Lose(c)
    BY <2>0, <2>2, TokenCalls
  <2>3. CASE \E s \in ChatSrv : ChatServer(s)
    BY <2>0, <2>3, TokenServers
  <2>4. CASE UNCHANGED svars
    BY <2>4 DEF svars, callVars, TokenStands, Alone
  <2> QED BY <2>1, <2>2, <2>3, <2>4 DEF StatusNext
<1> QED BY <1>1, <1>2, TypeCorrect, PTL DEF StatusSpec
=============================================================================
