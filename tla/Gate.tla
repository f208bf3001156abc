-------------------------------- MODULE Gate --------------------------------
(***************************************************************************)
(* The GateServer: HTTP connections, each served by an io thread of the    *)
(* pool and each for one request, whose handler runs on that thread and    *)
(* blocks it while it waits for a MySQL connection, for the VerifyServer   *)
(* or for the StatusServer (StatusServer.tla has what that one does).      *)
(* Around it the Redis keys of the verification codes and the rows of the  *)
(* table user.                                                             *)
(*                                                                         *)
(* Of a password all that counts is how it came to be set: see Password.   *)
(* Database and gRPC pools are not closed while connections are served;    *)
(* the gRPC pools hold as many stubs as there are io threads.              *)
(***************************************************************************)
EXTENDS Naturals, FiniteSets

CONSTANTS
  Conn,       \* the HTTP connections
  User,       \* the users, registered or not
  Io,         \* Io[h]: the io thread of connection h
  PoolSize,   \* the size of the MySQL pool
  Email,      \* the e-mail addresses
  Tables,     \* what the table user may be at the start
  Requests,   \* the requests clients send, but for their secrets (bound of the model)
  Had,        \* Had[e]: how many codes address e was mailed before, the last still valid
  MaxCodes,   \* how many codes an address is mailed (bound of the model)
  None

Request == [kind : {"code", "register", "reset", "login", "page", "method"},
            user : User, email : Email]

(* The address the request that set it has named, whether it gave a code mailed to
   that address, and whether it met an account where CheckEmail had found none. *)
Password == [email : Email, proven : BOOLEAN, missing : BOOLEAN]

Row == [email : Email, pwd : Password]

(* The password of the row was set by the owner of its address (see OwnerSetsPwd): rows
   there at the start were written by an earlier run of the same server. *)
Owned(r) == r.pwd.proven /\ (r.pwd.email = r.email \/ r.pwd.missing)

ASSUME GateAssumption ==
  /\ PoolSize \in Nat
  /\ Tables \subseteq [User -> Row \cup {None}]
  /\ \A t \in Tables : \A u \in User : t[u] # None => Owned(t[u])
  /\ Requests \subseteq Request
  /\ MaxCodes \in Nat
  /\ Had \in [Email -> 0..MaxCodes]
  /\ None \notin Email \cup Conn \cup Nat
  /\ None \notin Row

VARIABLES
  hpc,      \* where connection h is
  req,      \* req[h]: its request, with the code or the password it gives
  has,      \* the connections whose handler has a MySQL connection
  idle,     \* how many MySQL connections are in the pool
  leaked,   \* how many were not given back
  wait,     \* the connections whose deadline is waited for
  code,     \* code[e]: code_<email>, None if it is not set
  mailed,   \* mailed[e]: how many codes e was sent (history)
  row,      \* row[u]: the row of user u, None if there is none
  missing   \* those whose CheckEmail found no row (history)

httpVars == <<hpc, req, wait>>
poolVars == <<has, idle, leaked>>
dataVars == <<code, mailed, row, missing>>
vars == <<httpVars, poolVars, dataVars>>

Init ==
  /\ hpc = [h \in Conn |-> "reading"]
  /\ req = [h \in Conn |-> None]
  /\ has = {}
  /\ idle = PoolSize
  /\ leaked = 0
  /\ wait = {}
  /\ code = [e \in Email |-> IF Had[e] = 0 THEN None ELSE Had[e]]
  /\ mailed = Had
  /\ row \in Tables
  /\ missing = {}

HandlerPlaces == {"code", "check", "register", "email", "update", "login", "status", "answer"}

handling(h) == hpc[h] \in HandlerPlaces

(* The io thread of h is between two handlers. *)
free(h) == \A g \in Conn : Io[g] = Io[h] => ~handling(g)

Move(h, from, to) ==
  /\ hpc[h] = from
  /\ hpc' = [hpc EXCEPT ![h] = to]
-------------------------------------------------------------------------------
(* The connection ends: the object is destroyed. *)
End(h, from) ==
  /\ Move(h, from, "ended")
  /\ req' = [req EXCEPT ![h] = None]
  /\ wait' = wait \ {h}
  /\ missing' = missing \ {h}

(* The read fails, or the handler throws on what it was sent. *)
ReadError(h) ==
  /\ free(h)
  /\ End(h, "reading")
  /\ UNCHANGED <<poolVars, code, mailed, row>>

(* What a client may know when it sends the request: a code it was mailed, the
   password of the account, or nothing. *)
Secrets(r) ==
  CASE r.kind \in {"register", "reset"} -> {None} \cup 1..mailed[r.email]
    [] r.kind = "login" ->
         {None} \cup {row[u].pwd : u \in {v \in User : row[v] # None /\ row[v].email = r.email}}
    [] OTHER -> {None}

(* A client is accepted, its request is read and routed.  A page needs no more: get_test,
   a wrong URL, a request that is not as expected.  Neither GET nor POST: no response,
   only the deadline. *)
ReadDone(h) ==
  /\ free(h)
  /\ \E r \in Requests : \E x \in Secrets(r) :
       /\ req' = [req EXCEPT ![h] = [kind |-> r.kind, user |-> r.user, email |-> r.email, secret |-> x]]
       /\ Move(h, "reading", CASE r.kind = "page" -> "answer"
                               [] r.kind = "method" -> "silent"
                               [] r.kind \in {"register", "reset"} -> "check"
                               [] OTHER -> r.kind)
       /\ wait' = IF r.kind = "method" THEN wait \cup {h} ELSE wait
  /\ UNCHANGED <<poolVars, dataVars>>

(* get_varifycode: the VerifyServer mails a code and stores it, or fails. *)
GetVarifyCode(h) ==
  /\ Move(h, "code", "answer")
  /\ LET e == req[h].email IN
     \/ /\ mailed[e] < MaxCodes
        /\ mailed' = [mailed EXCEPT ![e] = @ + 1]
        /\ code' = [code EXCEPT ![e] = mailed[e] + 1]
     \/ UNCHANGED <<mailed, code>>
  /\ UNCHANGED <<req, wait, poolVars, row, missing>>

(* A code expires. *)
ExpireCode(e) ==
  /\ code[e] # None
  /\ code' = [code EXCEPT ![e] = None]
  /\ UNCHANGED <<httpVars, poolVars, mailed, row, missing>>

(* user_register, reset_pwd: the code must be there and be the one given. *)
CheckCode(h) ==
  LET c == code[req[h].email] IN
  /\ Move(h, "check", IF c = None \/ c # req[h].secret THEN "answer"
                      ELSE IF req[h].kind = "reset" THEN "email" ELSE "register")
  /\ UNCHANGED <<req, wait, poolVars, dataVars>>
-------------------------------------------------------------------------------
(* A DAO method gets a MySQL connection. *)
GetConnection(h) ==
  /\ hpc[h] \in {"register", "email", "update", "login"}
  /\ h \notin has /\ idle > 0
  /\ has' = has \cup {h}
  /\ idle' = idle - 1
  /\ UNCHANGED <<httpVars, leaked, dataVars>>

ReturnConnection(h) ==
  /\ h \in has
  /\ has' = has \ {h}
  /\ idle' = idle + 1
  /\ UNCHANGED leaked

password(h) ==
  [email |-> req[h].email, proven |-> req[h].secret \in 1..mailed[req[h].email],
   missing |-> h \in missing]

(* RegUser: the procedure reg_user inserts the row unless the name or the address is
   taken. *)
RegUser(h) ==
  /\ Move(h, "register", "answer")
  /\ ReturnConnection(h)
  /\ LET u == req[h].user  e == req[h].email IN
     row' = IF row[u] = None /\ \A v \in User : row[v] # None => row[v].email # e
            THEN [row EXCEPT ![u] = [email |-> e, pwd |-> password(h)]] ELSE row
  /\ UNCHANGED <<req, wait, code, mailed, missing>>

(* Mutant: what CheckEmail finds is ignored. *)
CheckEmailIgnored(h) ==
  /\ Move(h, "email", "update")
  /\ ReturnConnection(h)
  /\ UNCHANGED <<req, wait, dataVars>>

(* CheckEmail: without a row the method ends without giving the connection back and
   without a result; otherwise it compares the addresses. *)
CheckEmail(h) ==
  LET u == req[h].user IN
  /\ h \in has
  /\ IF row[u] = None
     THEN /\ has' = has \ {h}
          /\ leaked' = leaked + 1
          /\ missing' = missing \cup {h}
          /\ UNCHANGED idle
          /\ \E to \in {"update", "answer"} : Move(h, "email", to)
     ELSE /\ ReturnConnection(h)
          /\ Move(h, "email", IF row[u].email = req[h].email THEN "update" ELSE "answer")
          /\ UNCHANGED missing
  /\ UNCHANGED <<req, wait, code, mailed, row>>

(* UpdatePwd: succeeds even if there is no such row. *)
UpdatePwd(h) ==
  /\ Move(h, "update", "answer")
  /\ ReturnConnection(h)
  /\ LET u == req[h].user IN
     row' = IF row[u] # None THEN [row EXCEPT ![u].pwd = password(h)] ELSE row
  /\ UNCHANGED <<req, wait, code, mailed, missing>>

(* The accounts that a login's address and password fit. *)
fits(h) == {u \in User : /\ row[u] # None
                         /\ row[u].email = req[h].email
                         /\ row[u].pwd = req[h].secret}

(* Mutant: a connection is given back only if the password is right. *)
CheckPwdKeeps(h) ==
  /\ Move(h, "login", IF fits(h) = {} THEN "answer" ELSE "status")
  /\ IF fits(h) = {} THEN h \in has /\ has' = has \ {h} /\ UNCHANGED <<idle, leaked>>
                     ELSE ReturnConnection(h)
  /\ req' = [req EXCEPT ![h].user = IF fits(h) = {} THEN @ ELSE CHOOSE u \in fits(h) : TRUE]
  /\ UNCHANGED <<wait, dataVars>>

(* CheckPwd: finds out the uid too. *)
CheckPwd(h) ==
  /\ Move(h, "login", IF fits(h) = {} THEN "answer" ELSE "status")
  /\ ReturnConnection(h)
  /\ req' = [req EXCEPT ![h].user = IF fits(h) = {} THEN @ ELSE CHOOSE u \in fits(h) : TRUE]
  /\ UNCHANGED <<wait, dataVars>>

(* The statement fails: the connection is given back by every method. *)
StatementFails(h) ==
  /\ hpc[h] \in {"register", "email", "update", "login"}
  /\ Move(h, hpc[h], "answer")
  /\ ReturnConnection(h)
  /\ UNCHANGED <<req, wait, dataVars>>

(* user_login asks the StatusServer, which answers or cannot be reached. *)
GetChatServer(h) ==
  /\ Move(h, "status", "answer")
  /\ UNCHANGED <<req, wait, poolVars, dataVars>>
-------------------------------------------------------------------------------
(* Mutant: the deadline is not waited for. *)
AnswerUnarmed(h) ==
  /\ Move(h, "answer", "writing")
  /\ UNCHANGED <<req, wait, poolVars, dataVars>>

(* The handler returns: the response is being written, the deadline waited for. *)
Answer(h) ==
  /\ Move(h, "answer", "writing")
  /\ wait' = wait \cup {h}
  /\ UNCHANGED <<req, poolVars, dataVars>>

(* The response is written, or the client is gone: shutdown, and no more deadline. *)
WriteDone(h) ==
  /\ free(h)
  /\ End(h, "writing")
  /\ UNCHANGED <<poolVars, code, mailed, row>>

(* The deadline, 60 seconds after the construction of the HttpConnection, closes the
   socket, with whatever was being written.  It may pass at any time. *)
Deadline(h) ==
  /\ free(h)
  /\ h \in wait
  /\ End(h, hpc[h])
  /\ UNCHANGED <<poolVars, code, mailed, row>>
-------------------------------------------------------------------------------
Handler(h) ==
  \/ GetVarifyCode(h) \/ CheckCode(h) \/ GetConnection(h) \/ RegUser(h) \/ CheckEmail(h)
  \/ UpdatePwd(h) \/ CheckPwd(h) \/ StatementFails(h) \/ GetChatServer(h) \/ Answer(h)

Next ==
  \/ \E h \in Conn :
       \/ ReadError(h) \/ ReadDone(h) \/ Handler(h) \/ WriteDone(h) \/ Deadline(h)
  \/ \E e \in Email : ExpireCode(e)

(* Handlers go on and the servers they call answer, time passes and timers fire.
   Nothing obliges a client to connect, to send, or to take its response. *)
Fairness ==
  \A h \in Conn : WF_vars(Handler(h) \/ Deadline(h))

Spec == Init /\ [][Next]_vars /\ Fairness
-------------------------------------------------------------------------------
TypeOK ==
  /\ hpc \in [Conn -> HandlerPlaces \cup {"reading", "writing", "silent", "ended"}]
  /\ \A h \in Conn : hpc[h] \notin {"reading", "ended"} =>
       req[h].user \in User /\ req[h].email \in Email
  /\ \A h \in has : hpc[h] \in {"register", "email", "update", "login"}
  /\ idle + Cardinality(has) + leaked = PoolSize
  /\ \A h \in wait : hpc[h] \in {"writing", "silent"}
  /\ \A e \in Email : code[e] # None => code[e] \in 1..mailed[e]
  /\ row \in [User -> Row \cup {None}]
  /\ missing \subseteq Conn

(* A password was set by a request that gave a code mailed to the address of its
   account, whichever registrations and resets overlap; only a reset whose CheckEmail
   found no account may have been let through and meet one that was registered before
   its UpdatePwd (LogicSystem.cpp:186-218). *)
OwnerSetsPwd == \A u \in User : row[u] # None => Owned(row[u])

(* Once its request has been read a connection ends: the handler returns, although it may
   wait for a MySQL connection, and the deadline closes a connection whose client does not
   take the response or that gets none.  Only if every MySQL connection has leaked out of
   the pool (MysqlDao.cpp:66-104) may it wait for ever. *)
RequestEnds == \A h \in Conn : (hpc[h] # "reading") ~> (hpc[h] = "ended" \/ leaked = PoolSize)
=============================================================================
