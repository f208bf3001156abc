---------------------------- MODULE FriendsProofs ----------------------------
(***************************************************************************)
(* Theorems about Friends, for any servers, users, MySQL connections and   *)
(* requests: the types, then what transactions hold of friendships (Open), *)
(* then what clients are told (ToldInv), then what they know (KnownInv).   *)
(***************************************************************************)
EXTENDS Friends, TLAPS

(* The parts of TypeOK, one for the database and one for each kind of thread. *)
DbType ==
  /\ db \in SUBSET Fact
  /\ auto \in [DbConn -> BOOLEAN]
  /\ pend \in [DbConn -> SUBSET Fact]
  /\ snap \in [DbConn -> (SUBSET Fact) \cup {None}]
  /\ lost \in SUBSET Fact
  /\ failed \in SUBSET (User \X User)

LogicType ==
  /\ logic \in [Server -> Places]
  /\ cur \in [Server -> Request \cup {None}]
  /\ \A s \in Server : logic[s] # "idle" => cur[s] \in Request /\ Home[cur[s].by] = s
  /\ lists \in [Server -> SUBSET Fact]

ConType ==
  /\ con \in [Server -> DbConn \cup {None}]
  /\ \A s \in Server :
       /\ con[s] # None <=> logic[s] \in {"first", "second", "commit"}
       /\ con[s] # None => Pool[con[s]] = s /\ ~auto[con[s]]

UserType ==
  /\ uip \in SUBSET User
  /\ bound \in SUBSET User
  /\ cache \in SUBSET User
  /\ view \in [User -> SUBSET Fact]
  /\ left \in [User -> [Kind -> Nat]]
  /\ excused \in SUBSET User

(* A server that is called by a handler is called by that one only, which waits. *)
CallTrail ==
  /\ calls \in SUBSET Call
  /\ \A k \in calls : logic[Home[k.req.by]] = "call" /\ cur[Home[k.req.by]] = k.req
  /\ \A k, j \in calls : Home[k.req.by] = Home[j.req.by] => k = j

Types == DbType /\ LogicType /\ ConType /\ UserType /\ CallTrail

(* The parts together are TypeOK. *)
LEMMA TypesAreTypes == Types => TypeOK
BY DEF Types, DbType, LogicType, ConType, UserType, CallTrail, TypeOK

(* What a handler and a notification tell are facts. *)
LEMMA FactsToldAreFacts ==
  ASSUME NEW r \in Request
  PROVE  /\ Note(r) \in Fact
         /\ r.by \in User /\ r.to \in User
         /\ <<"asked", <<r.by, r.to>>>> \in Fact /\ <<"asked", <<r.to, r.by>>>> \in Fact
         /\ <<"accepted", <<r.by, r.to>>>> \in Fact /\ <<"accepted", <<r.to, r.by>>>> \in Fact
         /\ <<"friend", <<r.by, r.to>>>> \in Fact /\ <<"friend", <<r.to, r.by>>>> \in Fact
BY DEF Request, Fact, Note

(* A SELECT leaves the snapshots snapshots. *)
LEMMA SelectType ==
  ASSUME DbType, NEW K, Select(K)
  PROVE  snap' \in [DbConn -> (SUBSET Fact) \cup {None}]
<1> DEFINE S == (SUBSET Fact) \cup {None}
           Snap(k) == IF k \in K /\ ~auto[k] /\ snap[k] = None THEN db ELSE snap[k]
<1>1. \A k \in DbConn : Snap(k) \in S
  BY DEF DbType
<1>2. snap' = [k \in DbConn |-> Snap(k)]
  BY DEF Select
<1> HIDE DEF S, Snap
<1>3. snap' \in [DbConn -> S]
  BY <1>1, <1>2
<1> QED BY <1>3 DEF S

(* What a SELECT returns is facts. *)
LEMMA SeesFacts ==
  ASSUME DbType, NEW k \in DbConn
  PROVE  Sees(k) \in SUBSET Fact
BY DEF DbType, Sees

(* A statement that writes facts keeps the tables and the transactions sets of facts. *)
LEMMA WriteType ==
  ASSUME DbType, NEW k \in DbConn, NEW F \in SUBSET Fact, Write(k, F)
  PROVE  db' \in SUBSET Fact /\ pend' \in [DbConn -> SUBSET Fact]
BY DEF DbType, Write

(* Reading a user, from the cache or the database, keeps both of their types. *)
LEMMA BaseInfoType ==
  ASSUME DbType, UserType, NEW s, NEW u \in User, BaseInfo(s, u)
  PROVE  snap' \in [DbConn -> (SUBSET Fact) \cup {None}] /\ cache' \in SUBSET User
<1>1. CASE u \in cache /\ UNCHANGED <<cache, snap>>
  BY <1>1 DEF DbType, UserType
<1>2. CASE cache' = cache \cup {u} /\ \E k \in Idle(s) : Select({k})
  BY <1>2, SelectType DEF UserType
<1> QED BY <1>1, <1>2 DEF BaseInfo

(* A client that is told facts knows facts. *)
LEMMA TellType ==
  ASSUME UserType, NEW u \in User, NEW F \in SUBSET Fact, Tell(u, F)
  PROVE  view' \in [User -> SUBSET Fact]
BY DEF UserType, Tell

(* A logic thread moves between two places where it has no call under way. *)
LEMMA GotoTrail ==
  ASSUME LogicType, CallTrail, NEW s \in Server, NEW from, NEW to \in Places,
         Goto(s, from, to), from # "call", calls' = calls,
         from = "idle" \/ cur' = cur, \A t \in Server \ {s} : cur'[t] = cur[t]
  PROVE  CallTrail'
<1>1. \A k \in calls : k.req.by \in User /\ Home[k.req.by] \in Server \ {s}
  BY FriendsAssumption DEF CallTrail, Call, Request, Goto
<1>2. \A t \in Server \ {s} : logic'[t] = logic[t]
  BY DEF Goto, LogicType
<1> QED BY <1>1, <1>2 DEF CallTrail

(* ... and keeps its request and its connection. *)
LEMMA GotoLogic ==
  ASSUME LogicType, NEW s \in Server, NEW from, NEW to \in Places, Goto(s, from, to),
         from # "idle", cur' = cur, lists' \in [Server -> SUBSET Fact]
  PROVE  LogicType'
BY DEF LogicType, Goto

(* A handler that moves outside the transaction of AddFriend leaves its connection alone. *)
LEMMA GotoCon ==
  ASSUME LogicType, ConType, NEW s \in Server, NEW from, NEW to \in Places, Goto(s, from, to),
         {from, to} \cap {"first", "second", "commit"} = {}, UNCHANGED <<con, auto>>
  PROVE  ConType'
BY DEF LogicType, ConType, Goto

(* A handler that moves inside it keeps the connection. *)
LEMMA GotoConInside ==
  ASSUME LogicType, ConType, NEW s \in Server, NEW from, NEW to \in Places, Goto(s, from, to),
         {from, to} \subseteq {"first", "second", "commit"}, UNCHANGED <<con, auto>>
  PROVE  ConType'
BY DEF LogicType, ConType, Goto

(* A handler at work has a request. *)
LEMMA CurIsRequest ==
  ASSUME LogicType, NEW s \in Server, logic[s] # "idle"
  PROVE  cur[s] \in Request /\ cur[s].by \in User /\ cur[s].to \in User
BY DEF LogicType, Request
-------------------------------------------------------------------------------
(* The types hold initially. *)
LEMMA TypeInit == Init => Types
BY FriendsAssumption
   DEF Init, Types, DbType, LogicType, ConType, UserType, CallTrail, Places

(* The steps of the handlers that leave the transactions alone. *)
LEMMA TypeReads ==
  ASSUME Types, NEW s \in Server, Take(s) \/ Info(s) \/ Login(s)
  PROVE  Types'
<1> USE DEF Types
<1>1. CASE Take(s)
  <2>1. PICK r \in Request : /\ Home[r.by] = s /\ left[r.by][r.kind] > 0
                            /\ cur' = [cur EXCEPT ![s] = r]
                            /\ left' = [left EXCEPT ![r.by][r.kind] = @ - 1]
                            /\ Goto(s, "idle", IF r.kind = "apply" THEN "insert" ELSE "info")
    BY <1>1 DEF Take
  <2>2. UNCHANGED <<dbVars, con, lists, calls, uip, bound, view, excused, cache>>
    BY <1>1 DEF Take
  <2>3. DbType'
    BY <2>2 DEF dbVars, DbType
  <2>4. PICK to \in {"insert", "info"} : Goto(s, "idle", to)
    BY <2>1
  <2>5. LogicType'
    BY <2>1, <2>2, <2>4 DEF LogicType, Goto, Places
  <2>6. ConType'
    BY <2>2, <2>4, GotoCon DEF Places, dbVars
  <2>7. r.by \in User /\ r.kind \in Kind
    BY DEF Request
  <2>8. UserType'
    <3>1. left[r.by] \in [Kind -> Nat]
      BY <2>7 DEF UserType
    <3>2. [left[r.by] EXCEPT ![r.kind] = @ - 1] \in [Kind -> Nat]
      BY <2>1, <2>7, <3>1
    <3>3. left' = [left EXCEPT ![r.by] = [left[r.by] EXCEPT ![r.kind] = @ - 1]]
      BY <2>1
    <3>4. left' \in [User -> [Kind -> Nat]]
      BY <2>7, <3>2, <3>3 DEF UserType
    <3> QED BY <2>2, <3>4 DEF UserType
  <2>9. CallTrail'
    <3>1. \A t \in Server \ {s} : cur'[t] = cur[t]
      BY <2>1 DEF LogicType
    <3> QED BY <2>2, <2>4, <3>1, GotoTrail DEF Places
  <2> QED BY <2>3, <2>5, <2>6, <2>8, <2>9
<1>2. CASE Info(s)
  <2>1. PICK to \in {"applies", "update", "reply"} : Goto(s, "info", to)
    BY <1>2 DEF Info
  <2>2. UNCHANGED <<db, auto, pend, lost, failed, cur, con, lists, calls, userVars>>
    BY <1>2 DEF Info
  <2>3. cur[s].to \in User
    BY <2>1, CurIsRequest DEF Goto
  <2>4. snap' \in [DbConn -> (SUBSET Fact) \cup {None}] /\ cache' \in SUBSET User
    <3>1. CASE BaseInfo(s, cur[s].to)
      BY <2>3, <3>1, BaseInfoType
    <3>2. CASE UNCHANGED snap /\ UNCHANGED cache
      BY <3>2 DEF DbType, UserType
    <3>3. CASE (\E k \in Idle(s) : Select({k})) /\ UNCHANGED cache
      BY <3>3, SelectType DEF UserType
    <3> QED BY <1>2, <3>1, <3>2, <3>3 DEF Info, NameInfo
  <2>5. DbType' /\ UserType'
    BY <2>2, <2>4 DEF DbType, UserType, userVars
  <2>6. LogicType' /\ ConType' /\ CallTrail'
    BY <2>1, <2>2, GotoLogic, GotoCon, GotoTrail DEF Places, LogicType
  <2> QED BY <2>5, <2>6
<1>3. CASE LoginApplies(s)
  <2>1. Goto(s, "applies", "friends")
    BY <1>3 DEF LoginApplies
  <2>2. UNCHANGED <<db, auto, pend, lost, failed, cur, con, calls, userVars, cache>>
    BY <1>3 DEF LoginApplies
  <2>3. PICK k \in Idle(s) :
          /\ lists' = [lists EXCEPT ![s] =
                        {f \in Sees(k) : f[1] # "friend" /\ f[2][2] = cur[s].by}]
          /\ Select({k})
    BY <1>3 DEF LoginApplies
  <2>4. Sees(k) \in SUBSET Fact
    BY SeesFacts DEF Idle
  <2>5. lists' \in [Server -> SUBSET Fact]
    BY <2>3, <2>4 DEF LogicType
  <2>6. DbType' /\ UserType'
    BY <2>2, <2>3, SelectType DEF DbType, UserType, userVars
  <2>7. LogicType' /\ ConType' /\ CallTrail'
    BY <2>1, <2>2, <2>5, GotoLogic, GotoCon, GotoTrail DEF Places
  <2> QED BY <2>6, <2>7
<1>4. CASE LoginFriends(s)
  <2>1. Goto(s, "friends", "uip")
    BY <1>4 DEF LoginFriends
  <2>2. UNCHANGED <<db, auto, pend, lost, failed, cur, con, calls, uip, bound, view, left, cache>>
    BY <1>4 DEF LoginFriends
  <2>3. PICK k \in Idle(s), j \in Idle(s) :
          LET L == {f \in Sees(k) : f[1] = "friend" /\ f[2][1] = cur[s].by}
          IN  /\ lists' = [lists EXCEPT ![s] = @ \cup L]
              /\ Select(IF L = {} THEN {k} ELSE {k, j})
              /\ excused' = IF auto[k] \/ snap[k] = None THEN excused
                                                        ELSE excused \cup {cur[s].by}
    BY <1>4 DEF LoginFriends
  <2>4. Sees(k) \in SUBSET Fact
    BY SeesFacts DEF Idle
  <2>5. lists' \in [Server -> SUBSET Fact]
    BY <2>3, <2>4 DEF LogicType
  <2>6. cur[s].by \in User
    BY <2>1, CurIsRequest DEF Goto
  <2>7. excused' \in SUBSET User
    BY <2>3, <2>6 DEF UserType
  <2>8. DbType' /\ UserType'
    BY <2>2, <2>3, <2>7, SelectType DEF DbType, UserType
  <2>9. LogicType' /\ ConType' /\ CallTrail'
    BY <2>1, <2>2, <2>5, GotoLogic, GotoCon, GotoTrail DEF Places
  <2> QED BY <2>8, <2>9
<1>5. CASE LoginSetUip(s)
  <2>1. Goto(s, "uip", "bind") /\ uip' = uip \cup {cur[s].by}
    BY <1>5 DEF LoginSetUip
  <2>2. UNCHANGED <<dbVars, cur, con, lists, calls, bound, view, left, excused, cache>>
    BY <1>5 DEF LoginSetUip
  <2>3. cur[s].by \in User
    BY <2>1, CurIsRequest DEF Goto
  <2>4. DbType' /\ UserType'
    BY <2>1, <2>2, <2>3 DEF DbType, UserType, dbVars
  <2>5. LogicType' /\ ConType' /\ CallTrail'
    BY <2>1, <2>2, GotoLogic, GotoCon, GotoTrail DEF Places, LogicType, dbVars
  <2> QED BY <2>4, <2>5
<1>6. CASE LoginBind(s)
  <2>1. Goto(s, "bind", "reply") /\ bound' = bound \cup {cur[s].by}
    BY <1>6 DEF LoginBind
  <2>2. UNCHANGED <<dbVars, cur, con, lists, calls, uip, view, left, excused, cache>>
    BY <1>6 DEF LoginBind
  <2>3. cur[s].by \in User
    BY <2>1, CurIsRequest DEF Goto
  <2>4. DbType' /\ UserType'
    BY <2>1, <2>2, <2>3 DEF DbType, UserType, dbVars
  <2>5. LogicType' /\ ConType' /\ CallTrail'
    BY <2>1, <2>2, GotoLogic, GotoCon, GotoTrail DEF Places, LogicType, dbVars
  <2> QED BY <2>4, <2>5
<1> QED BY <1>1, <1>2, <1>3, <1>4, <1>5, <1>6 DEF Login

(* The facts an application is about are facts. *)
LEMMA PairsAreFacts ==
  ASSUME LogicType, NEW s \in Server, logic[s] # "idle"
  PROVE  <<"asked", pair(s)>> \in Fact /\ <<"accepted", pair(s)>> \in Fact
<1>1. cur[s].by \in User /\ cur[s].to \in User
  BY CurIsRequest
<1> QED BY <1>1 DEF pair, Fact

(* The statements outside AddFriend. *)
LEMMA TypeStatements ==
  ASSUME Types, NEW s \in Server, Apply(s) \/ Auth(s) \/ StatementFails(s)
  PROVE  Types'
<1> USE DEF Types
<1>1. CASE Apply(s)
  <2>1. Goto(s, "insert", "route") /\ UNCHANGED <<auto, snap, lost, failed, cur, con, lists, calls, userVars, cache>>
    BY <1>1 DEF Apply
  <2>2. PICK k \in Idle(s) : Write(k, {<<"asked", pair(s)>>})
    BY <1>1 DEF Apply
  <2>3. {<<"asked", pair(s)>>} \in SUBSET Fact
    BY <2>1, PairsAreFacts DEF Goto
  <2>4. DbType'
    BY <2>1, <2>2, <2>3, WriteType DEF DbType, Idle
  <2>5. UserType' /\ LogicType' /\ ConType' /\ CallTrail'
    BY <2>1, GotoLogic, GotoCon, GotoTrail DEF Places, LogicType, UserType, userVars
  <2> QED BY <2>4, <2>5
<1>2. CASE Auth(s)
  <2>1. Goto(s, "update", "begin") /\ UNCHANGED <<auto, snap, lost, failed, cur, con, lists, calls, userVars, cache>>
    BY <1>2 DEF Auth
  <2>2. PICK k \in Idle(s) :
          Write(k, {f \in {<<"accepted", pair(s)>>} : <<"asked", f[2]>> \in db \cup pend[k]})
    BY <1>2 DEF Auth
  <2>3. {f \in {<<"accepted", pair(s)>>} : <<"asked", f[2]>> \in db \cup pend[k]} \in SUBSET Fact
    BY <2>1, PairsAreFacts DEF Goto
  <2>4. DbType'
    BY <2>1, <2>2, <2>3, WriteType DEF DbType, Idle
  <2>5. UserType' /\ LogicType' /\ ConType' /\ CallTrail'
    BY <2>1, GotoLogic, GotoCon, GotoTrail DEF Places, LogicType, UserType, userVars
  <2> QED BY <2>4, <2>5
<1>3. CASE StatementFails(s)
  <2>1. PICK from \in {"insert", "update"}, to \in {"route", "begin"} : Goto(s, from, to)
    BY <1>3 DEF StatementFails, Goto
  <2>2. UNCHANGED <<db, auto, failed, cur, con, lists, calls, userVars, cache>>
    BY <1>3 DEF StatementFails
  <2>3. PICK f \in {<<"asked", pair(s)>>, <<"accepted", pair(s)>>}, k \in Idle(s) :
          \/ lost' = lost \cup {f} /\ UNCHANGED <<pend, snap>>
          \/ /\ lost' = lost \cup {f} \cup pend[k]
             /\ pend' = [pend EXCEPT ![k] = {}]
             /\ snap' = [snap EXCEPT ![k] = None]
    BY <1>3 DEF StatementFails
  <2>4. DbType'
    <3>1. f \in Fact
      BY <2>1, PairsAreFacts DEF Goto
    <3>2. k \in DbConn
      BY DEF Idle
    <3> QED BY <2>2, <2>3, <3>1, <3>2 DEF DbType
  <2>5. UserType'
    BY <2>2 DEF UserType, userVars
  <2>6. LogicType' /\ ConType' /\ CallTrail'
    BY <2>1, <2>2, GotoLogic, GotoCon, GotoTrail DEF Places, LogicType
  <2> QED BY <2>4, <2>5, <2>6
<1> QED BY <1>1, <1>2, <1>3

(* The transaction of AddFriend, and a connection that is replaced. *)
LEMMA TypeAddFriend ==
  ASSUME Types, NEW s \in Server, AddFriend(s)
  PROVE  Types'
<1> USE DEF Types
<1>0. logic[s] # "idle" /\ UNCHANGED <<cur, lists, calls, uip, bound, view, left, cache>>
  BY DEF AddFriend, AddBegin, AddFirst, AddSecond, AddFails, AddCommit, Goto, userVars
<1>1. /\ <<"friend", <<cur[s].by, cur[s].to>>>> \in Fact
      /\ <<"friend", <<cur[s].to, cur[s].by>>>> \in Fact
  BY <1>0, CurIsRequest, FactsToldAreFacts
<1>2. PICK from \in {"begin", "first", "second", "commit"}, to \in {"first", "second", "commit", "route"} :
        Goto(s, from, to)
  BY DEF AddFriend, AddBegin, AddFirst, AddSecond, AddFails, AddCommit, Goto
<1>3. LogicType' /\ CallTrail'
  BY <1>0, <1>2, GotoLogic, GotoTrail DEF Places, LogicType
<1>4. CASE AddBegin(s)
  <2>1. PICK k \in Idle(s) : /\ con' = [con EXCEPT ![s] = k]
                            /\ auto' = [auto EXCEPT ![k] = FALSE]
    BY <1>4 DEF AddBegin
  <2>2. Goto(s, "begin", "first") /\ UNCHANGED <<db, pend, snap, lost, failed, excused>>
    BY <1>4 DEF AddBegin, userVars
  <2>3. k \in DbConn /\ Pool[k] = s /\ k # None
    BY FriendsAssumption DEF Idle
  <2>4. DbType' /\ UserType'
    BY <1>0, <2>1, <2>2 DEF DbType, UserType
  <2>5. ConType'
    BY <2>1, <2>2, <2>3 DEF ConType, Goto, LogicType, DbType
  <2> QED BY <1>3, <2>4, <2>5
<1>5. ASSUME AddFirst(s) \/ AddSecond(s)
      PROVE  Types'
  <2>1. PICK f \in {<<"friend", <<cur[s].by, cur[s].to>>>>, <<"friend", <<cur[s].to, cur[s].by>>>>} :
          Write(con[s], {f})
    BY <1>5 DEF AddFirst, AddSecond
  <2>2. con[s] \in DbConn
    BY <1>5 DEF AddFirst, AddSecond, ConType, Goto
  <2>3. UNCHANGED <<auto, snap, lost, failed, con, excused>>
    BY <1>5 DEF AddFirst, AddSecond, userVars
  <2>4. Goto(s, "first", "second") \/ Goto(s, "second", "commit")
    BY <1>5 DEF AddFirst, AddSecond
  <2>5. {f} \in SUBSET Fact
    BY <1>1
  <2>6. DbType' /\ UserType'
    BY <1>0, <2>1, <2>2, <2>3, <2>5, WriteType DEF DbType, UserType
  <2>7. ConType'
    BY <2>3, <2>4, GotoConInside DEF Places
  <2> QED BY <1>3, <2>6, <2>7
<1>6. ASSUME AddFails(s) \/ AddCommit(s)
      PROVE  Types'
  <2>1. con[s] \in DbConn
    BY <1>6 DEF AddFails, AddCommit, ConType, Goto
  <2>2. /\ auto' = auto /\ con' = [con EXCEPT ![s] = None]
        /\ pend' = [pend EXCEPT ![con[s]] = {}] /\ snap' = [snap EXCEPT ![con[s]] = None]
    BY <1>6 DEF AddFails, AddCommit
  <2>3. /\ pend[con[s]] \in SUBSET Fact
        /\ <<cur[s].by, cur[s].to>> \in User \X User
    BY <1>0, <2>1, CurIsRequest DEF DbType
  <2>4. db' \in SUBSET Fact /\ lost' \in SUBSET Fact /\ failed' \in SUBSET (User \X User)
    BY <1>6, <2>3 DEF AddFails, AddCommit, DbType
  <2>5. excused' \in SUBSET User
    <3>1. between(s) \in SUBSET User
      BY <1>0, CurIsRequest DEF between
    <3> QED BY <1>6, <3>1 DEF AddFails, AddCommit, userVars, UserType
  <2>6. DbType' /\ UserType'
    BY <1>0, <2>1, <2>2, <2>4, <2>5 DEF DbType, UserType
  <2>7. logic' = [logic EXCEPT ![s] = "route"]
    BY <1>6 DEF AddFails, AddCommit, Goto
  <2>8. ConType'
    BY <2>2, <2>7 DEF ConType, LogicType
  <2> QED BY <1>3, <2>6, <2>8
<1> QED BY <1>4, <1>5, <1>6 DEF AddFriend

(* Replacing a broken connection keeps the types: nobody holds it. *)
LEMMA TypeBreak ==
  ASSUME Types, NEW k \in DbConn, Break(k)
  PROVE  Types'
<1>1. UNCHANGED <<db, failed, threadVars, userVars, cache>>
  BY DEF Break
<1>2. /\ con[Pool[k]] # k
      /\ auto' = [auto EXCEPT ![k] = TRUE] /\ lost' = lost \cup pend[k]
      /\ pend' = [pend EXCEPT ![k] = {}] /\ snap' = [snap EXCEPT ![k] = None]
  BY DEF Break
<1>3. DbType'
  BY <1>1, <1>2 DEF Types, DbType
<1>4. ConType'
  BY <1>1, <1>2 DEF Types, ConType, DbType, threadVars
<1>5. LogicType' /\ UserType' /\ CallTrail'
  BY <1>1 DEF Types, LogicType, UserType, CallTrail, threadVars, userVars
<1> QED BY <1>3, <1>4, <1>5 DEF Types

(* The notification of a handler. *)
LEMMA TypeNotify ==
  ASSUME Types, NEW s \in Server, Notify(s) \/ Reply(s)
  PROVE  Types'
<1> USE DEF Types
<1>0. logic[s] # "idle"
  BY DEF Notify, Route, FindLocal, SendLocal, Reply, Goto
<1>1. cur[s] \in Request /\ cur[s].by \in User /\ cur[s].to \in User /\ Home[cur[s].by] = s
  BY <1>0, CurIsRequest DEF LogicType
<1>2. CASE Route(s)
  <2>1. PICK to \in {"reply", "find", "call"} :
          Goto(s, "route", to) /\ (cur[s].to \in uip /\ Home[cur[s].to] # s => to = "call")
    BY <1>2 DEF Route
  <2>2. UNCHANGED <<db, auto, pend, lost, failed, cur, con, lists, userVars>>
    BY <1>2 DEF Route
  <2>3. snap' \in [DbConn -> (SUBSET Fact) \cup {None}] /\ cache' \in SUBSET User
    <3>1. CASE BaseInfo(s, cur[s].by)
      BY <1>1, <3>1, BaseInfoType
    <3>2. CASE UNCHANGED <<cache, snap>>
      BY <3>2 DEF DbType, UserType
    <3> QED BY <1>2, <3>1, <3>2 DEF Route
  <2>4. DbType' /\ UserType'
    BY <2>2, <2>3 DEF DbType, UserType, userVars
  <2>5. LogicType' /\ ConType'
    BY <2>1, <2>2, GotoLogic, GotoCon DEF Places, LogicType
  <2>6. CallTrail'
    <3>1. CASE calls' = calls
      BY <2>1, <2>2, <3>1, GotoTrail DEF Places
    <3>2. CASE calls' # calls
      <4>1. /\ calls' = calls \cup {[req |-> cur[s], pc |-> "find"]}
            /\ logic' = [logic EXCEPT ![s] = "call"] /\ logic[s] = "route"
        BY <1>2, <2>1, <3>2 DEF Route, Goto
      <4>2. \A k \in calls : Home[k.req.by] # s
        BY <4>1 DEF CallTrail
      <4> DEFINE new == [req |-> cur[s], pc |-> "find"]
      <4>3. new \in Call /\ new.req = cur[s]
        BY <1>1 DEF Call
      <4>4. \A k \in calls : Home[k.req.by] \in Server
        BY FriendsAssumption DEF CallTrail, Call, Request
      <4> HIDE DEF new
      <4>5. calls' \in SUBSET Call
        BY <4>1, <4>3 DEF CallTrail, new
      <4>6. \A k \in calls' : logic'[Home[k.req.by]] = "call" /\ cur'[Home[k.req.by]] = k.req
        <5> SUFFICES ASSUME NEW k \in calls'
                     PROVE  logic'[Home[k.req.by]] = "call" /\ cur'[Home[k.req.by]] = k.req
          OBVIOUS
        <5>1. CASE k \in calls
          BY <2>2, <4>1, <4>2, <4>4, <5>1 DEF CallTrail, LogicType
        <5>2. CASE k = new
          BY <1>1, <2>2, <4>1, <4>3, <5>2 DEF LogicType
        <5> QED BY <4>1, <5>1, <5>2 DEF new
      <4>7. \A k, j \in calls' : Home[k.req.by] = Home[j.req.by] => k = j
        BY <1>1, <4>1, <4>2, <4>3 DEF CallTrail, new
      <4> QED BY <4>5, <4>6, <4>7 DEF CallTrail
    <3> QED BY <3>1, <3>2
  <2> QED BY <2>4, <2>5, <2>6
<1>3. CASE FindLocal(s)
  <2>1. PICK to \in {"reply", "send"} : Goto(s, "find", to)
    BY <1>3 DEF FindLocal
  <2>2. UNCHANGED <<dbVars, cur, con, lists, calls, userVars, cache>>
    BY <1>3 DEF FindLocal
  <2>3. DbType' /\ UserType'
    BY <2>2 DEF DbType, UserType, userVars, dbVars
  <2>4. LogicType' /\ ConType' /\ CallTrail'
    BY <2>1, <2>2, GotoLogic, GotoCon, GotoTrail DEF Places, LogicType, dbVars
  <2> QED BY <2>3, <2>4
<1>4. CASE SendLocal(s)
  <2>1. Goto(s, "send", "reply") /\ Tell(cur[s].to, {Note(cur[s])})
    BY <1>4 DEF SendLocal
  <2>2. UNCHANGED <<db, auto, pend, lost, failed, cur, con, lists, calls, uip, bound, left, excused>>
    BY <1>4 DEF SendLocal
  <2>3. snap' \in [DbConn -> (SUBSET Fact) \cup {None}] /\ cache' \in SUBSET User
    <3>1. CASE BaseInfo(s, cur[s].by)
      BY <1>1, <3>1, BaseInfoType
    <3>2. CASE UNCHANGED <<cache, snap>>
      BY <3>2 DEF DbType, UserType
    <3> QED BY <1>4, <3>1, <3>2 DEF SendLocal
  <2>4. {Note(cur[s])} \in SUBSET Fact
    BY <1>1, FactsToldAreFacts
  <2>5. DbType' /\ UserType'
    BY <1>1, <2>1, <2>2, <2>3, <2>4, TellType DEF DbType, UserType
  <2>6. LogicType' /\ ConType' /\ CallTrail'
    BY <2>1, <2>2, GotoLogic, GotoCon, GotoTrail DEF Places, LogicType
  <2> QED BY <2>5, <2>6
<1>5. CASE Reply(s)
  <2>1. /\ Goto(s, "reply", "idle") /\ Tell(cur[s].by, Answer(s))
        /\ lists' = [lists EXCEPT ![s] = {}] /\ cur' = [cur EXCEPT ![s] = None]
    BY <1>5 DEF Reply
  <2>2. UNCHANGED <<dbVars, con, calls, uip, bound, left, excused, cache>>
    BY <1>5 DEF Reply
  <2>3. Answer(s) \in SUBSET Fact
    BY <1>1, FactsToldAreFacts DEF Answer, LogicType
  <2>4. DbType' /\ UserType'
    BY <1>1, <2>1, <2>2, <2>3, TellType DEF DbType, UserType, dbVars
  <2>5. LogicType'
    BY <2>1 DEF LogicType, Goto, Places
  <2>6. ConType'
    BY <2>1, <2>2, GotoCon DEF Places, dbVars
  <2>7. CallTrail'
    <3>1. \A k \in calls : Home[k.req.by] # s /\ Home[k.req.by] \in Server
      BY <2>1, FriendsAssumption DEF CallTrail, Call, Request, Goto
    <3> QED BY <2>1, <2>2, <3>1 DEF CallTrail, Goto, LogicType
  <2> QED BY <2>4, <2>5, <2>6, <2>7
<1> QED BY <1>2, <1>3, <1>4, <1>5 DEF Notify

(* A call moves on: it stays the call of the same handler. *)
LEMMA TypeMoved ==
  ASSUME CallTrail, NEW k \in calls, NEW pc \in {"find", "send", "return"},
         calls' = (calls \ {k}) \cup {[k EXCEPT !.pc = pc]}, UNCHANGED <<logic, cur>>
  PROVE  CallTrail'
<1> DEFINE new == [k EXCEPT !.pc = pc]
<1>1. k \in Call
  BY DEF CallTrail
<1>2. new \in Call /\ new.req = k.req
  BY ONLY <1>1, pc \in {"find", "send", "return"} DEF Call
<1> HIDE DEF new
<1>3. calls' = (calls \ {k}) \cup {new}
  BY DEF new
<1> QED BY <1>2, <1>3 DEF CallTrail

(* The gRPC threads. *)
LEMMA TypeRpc ==
  ASSUME Types, NEW k \in calls, Rpc(k)
  PROVE  Types'
<1> USE DEF Types
<1>1. /\ k.req \in Request /\ k.req.by \in User /\ k.req.to \in User
      /\ Home[k.req.by] \in Server /\ logic[Home[k.req.by]] = "call"
  BY FriendsAssumption DEF CallTrail, Call, Request
<1>2. CASE RpcFind(k)
  <2>1. PICK pc \in {"send", "return"} : calls' = (calls \ {k}) \cup {[k EXCEPT !.pc = pc]}
    BY <1>2 DEF RpcFind
  <2>2. UNCHANGED <<dbVars, logic, cur, con, lists, userVars, cache>>
    BY <1>2 DEF RpcFind
  <2>3. CallTrail'
    BY <2>1, <2>2, TypeMoved
  <2> QED BY <2>2, <2>3 DEF DbType, LogicType, ConType, UserType, dbVars, userVars
<1>3. CASE RpcSend(k)
  <2>1. /\ calls' = (calls \ {k}) \cup {[k EXCEPT !.pc = "return"]}
        /\ Tell(k.req.to, {Note(k.req)})
        /\ UNCHANGED <<db, auto, pend, lost, failed, logic, cur, con, lists, uip, bound, left, excused>>
    BY <1>3 DEF RpcSend
  <2>2. CallTrail'
    BY <2>1, TypeMoved
  <2>3. snap' \in [DbConn -> (SUBSET Fact) \cup {None}] /\ cache' \in SUBSET User
    <3>1. CASE BaseInfo(Home[k.req.to], k.req.by)
      BY <1>1, <3>1, BaseInfoType
    <3>2. CASE UNCHANGED <<cache, snap>>
      BY <3>2 DEF DbType, UserType
    <3> QED BY <1>3, <3>1, <3>2 DEF RpcSend
  <2>4. {Note(k.req)} \in SUBSET Fact
    BY <1>1, FactsToldAreFacts
  <2>5. view' \in [User -> SUBSET Fact]
    BY <1>1, <2>1, <2>4, TellType
  <2> QED BY <2>1, <2>2, <2>3, <2>5 DEF DbType, LogicType, ConType, UserType
<1>4. CASE RpcReturn(k)
  <2>1. /\ calls' = calls \ {k} /\ logic' = [logic EXCEPT ![Home[k.req.by]] = "reply"]
        /\ UNCHANGED <<dbVars, cur, con, lists, userVars, cache>>
    BY <1>4 DEF RpcReturn
  <2>2. DbType' /\ UserType'
    BY <2>1 DEF DbType, UserType, dbVars, userVars
  <2>3. LogicType' /\ ConType'
    BY <1>1, <2>1 DEF LogicType, ConType, dbVars, Places
  <2>4. CallTrail'
    <3>1. \A j \in calls \ {k} : Home[j.req.by] # Home[k.req.by] /\ Home[j.req.by] \in Server
      BY FriendsAssumption DEF CallTrail, Call, Request
    <3> QED BY <1>1, <2>1, <3>1 DEF CallTrail, LogicType
  <2> QED BY <2>2, <2>3, <2>4
<1> QED BY <1>2, <1>3, <1>4 DEF Rpc

(* A connection that ends keeps the types. *)
LEMMA TypeLeave ==
  ASSUME Types, NEW u \in User, Leave(u)
  PROVE  Types'
<1> USE DEF Types
<1> DEFINE Moved(k) == IF k.req.to = u /\ k.pc = "send" THEN [k EXCEPT !.pc = "return"] ELSE k
<1>1. /\ bound' = bound \ {u} /\ view' = [view EXCEPT ![u] = {}] /\ excused' = excused \ {u}
      /\ calls' = {Moved(k) : k \in calls}
      /\ UNCHANGED <<dbVars, logic, cur, con, lists, uip, left, cache>>
  BY DEF Leave
<1>2. DbType' /\ UserType' /\ LogicType' /\ ConType'
  BY <1>1 DEF DbType, UserType, LogicType, ConType, dbVars
<1>3. \A k \in calls : Moved(k) \in Call /\ Moved(k).req = k.req
  <2> SUFFICES ASSUME NEW k \in calls
               PROVE  Moved(k) \in Call /\ Moved(k).req = k.req
    OBVIOUS
  <2>1. k \in Call
    BY DEF CallTrail
  <2>2. [k EXCEPT !.pc = "return"] \in Call /\ [k EXCEPT !.pc = "return"].req = k.req
    BY ONLY <2>1 DEF Call
  <2> QED BY <2>1, <2>2
<1> HIDE DEF Moved
<1>4. CallTrail'
  BY <1>1, <1>3 DEF CallTrail
<1> QED BY <1>2, <1>4
-------------------------------------------------------------------------------
(* Every step keeps the types. *)
LEMMA TypeStep ==
  ASSUME Types, [Next]_vars
  PROVE  Types'
<1>1. ASSUME NEW s \in Server, Take(s) \/ Handler(s)
      PROVE  Types'
  BY <1>1, TypeReads, TypeStatements, TypeAddFriend, TypeNotify DEF Handler
<1>2. CASE UNCHANGED vars
  BY <1>2 DEF vars, dbVars, threadVars, userVars, Types, DbType, LogicType, ConType, UserType, CallTrail
<1> QED BY <1>1, <1>2, TypeRpc, TypeBreak, TypeLeave DEF Next

(* The types hold throughout, with the trail of a call: a gRPC notification under way is
   that of one waiting handler of another server (LogicSystem.cpp:358-464). *)
THEOREM TypesHold == Spec => []Types
<1>1. Init => Types
  BY TypeInit
<1>2. Types /\ [Next]_vars => Types'
  BY TypeStep
<1> QED BY <1>1, <1>2, PTL DEF Spec

(* Every variable has its type; a server's connection is in a transaction exactly while its
   AddFriend holds it, and a handler's request is one of a user of its server. *)
THEOREM TypeCorrect == Spec => []TypeOK
<1>1. Types => TypeOK
  BY TypesAreTypes
<1> QED BY <1>1, TypesHold, PTL
-------------------------------------------------------------------------------
FriendFacts(F) == {f \in F : f[1] = "friend"}

(* What open transactions hold of friendships: nothing unless AddFriend has the connection,
   then nothing, one direction, and both; and what they read was once committed. *)
Open ==
  /\ \A k \in DbConn : auto[k] => pend[k] = {}
  /\ \A k \in DbConn : con[Pool[k]] # k => FriendFacts(pend[k]) = {}
  /\ \A s \in Server :
       /\ logic[s] = "first" => FriendFacts(pend[con[s]]) = {}
       /\ logic[s] = "second" =>
            FriendFacts(pend[con[s]]) = {<<"friend", <<cur[s].by, cur[s].to>>>>}
       /\ logic[s] = "commit" => FriendFacts(pend[con[s]]) = friends(cur[s].by, cur[s].to)
  /\ \A k \in DbConn : snap[k] # None => snap[k] \subseteq db

Tx == {"first", "second", "commit"}

(* A handler outside AddFriend moves, and no transaction changes. *)
LEMMA OpenMove ==
  ASSUME Types, Open, NEW s \in Server, NEW from, NEW to \in Places, Goto(s, from, to),
         {from, to} \cap Tx = {}, UNCHANGED <<db, auto, pend, con>>,
         \A t \in Server \ {s} : cur'[t] = cur[t],
         \A k \in DbConn : snap'[k] \in {snap[k], db}
  PROVE  Open'
<1>1. \A k \in DbConn : snap'[k] # None => snap'[k] \subseteq db'
  BY DEF Open
<1>2. \A t \in Server : logic'[t] \in Tx => logic'[t] = logic[t] /\ cur'[t] = cur[t]
  BY DEF Types, LogicType, Goto, Tx
<1> QED BY <1>1, <1>2 DEF Open, Tx

(* A SELECT opens a snapshot only on what is committed now. *)
LEMMA SelectSnap ==
  ASSUME DbType, NEW K, Select(K)
  PROVE  \A k \in DbConn : snap'[k] \in {snap[k], db}
BY DEF Select

(* So does the reading of a user. *)
LEMMA BaseInfoSnap ==
  ASSUME DbType, NEW s, NEW u, BaseInfo(s, u)
  PROVE  \A k \in DbConn : snap'[k] \in {snap[k], db}
BY SelectSnap DEF BaseInfo

(* Everything a handler does outside AddFriend, but for its own statements. *)
LEMMA OpenReads ==
  ASSUME Types, Open, NEW s \in Server,
         Take(s) \/ Info(s) \/ Login(s) \/ Notify(s) \/ Reply(s)
  PROVE  Open'
<1>0. DbType /\ LogicType
  BY DEF Types
<1>1. PICK from \in Places \ Tx, to \in Places \ Tx : Goto(s, from, to)
  <2>1. CASE Take(s)
    BY <2>1 DEF Take, Places, Tx
  <2>2. CASE Info(s)
    BY <2>2 DEF Info, Places, Tx
  <2>3. CASE Login(s)
    BY <2>3 DEF Login, LoginApplies, LoginFriends, LoginSetUip, LoginBind, Places, Tx
  <2>4. CASE Notify(s)
    BY <2>4 DEF Notify, Route, FindLocal, SendLocal, Places, Tx
  <2>5. CASE Reply(s)
    BY <2>5 DEF Reply, Places, Tx
  <2> QED BY <2>1, <2>2, <2>3, <2>4, <2>5
<1>2. UNCHANGED <<db, auto, pend, con>> /\ \A t \in Server \ {s} : cur'[t] = cur[t]
  BY <1>0 DEF LogicType, Take, Info, Login, LoginApplies, LoginFriends, LoginSetUip, LoginBind,
              Notify, Route, FindLocal, SendLocal, Reply, dbVars
<1>3. \A k \in DbConn : snap'[k] \in {snap[k], db}
  <2>1. CASE UNCHANGED snap
    BY <2>1
  <2>2. ASSUME NEW K, Select(K)
        PROVE  \A k \in DbConn : snap'[k] \in {snap[k], db}
    BY <1>0, <2>2, SelectSnap
  <2>3. ASSUME NEW u, BaseInfo(s, u)
        PROVE  \A k \in DbConn : snap'[k] \in {snap[k], db}
    BY <1>0, <2>3, BaseInfoSnap
  <2>4. CASE Take(s) \/ Reply(s) \/ LoginSetUip(s) \/ LoginBind(s) \/ FindLocal(s)
    BY <2>1, <2>4 DEF Take, Reply, LoginSetUip, LoginBind, FindLocal, dbVars
  <2>5. CASE Info(s)
    BY <2>1, <2>2, <2>3, <2>5 DEF Info, NameInfo
  <2>6. CASE LoginApplies(s)
    BY <2>2, <2>6 DEF LoginApplies
  <2>7. CASE LoginFriends(s)
    BY <2>2, <2>7 DEF LoginFriends
  <2>8. CASE Route(s)
    BY <2>1, <2>3, <2>8 DEF Route
  <2>9. CASE SendLocal(s)
    BY <2>1, <2>3, <2>9 DEF SendLocal
  <2> QED BY <2>4, <2>5, <2>6, <2>7, <2>8, <2>9 DEF Login, Notify
<1> QED BY <1>1, <1>2, <1>3, OpenMove

(* An application and its acceptance are no friendship. *)
LEMMA OpenStatements ==
  ASSUME Types, Open, NEW s \in Server, Apply(s) \/ Auth(s)
  PROVE  Open'
<1>1. PICK k, F : k \in Idle(s) /\ Write(k, F) /\ FriendFacts(F) = {}
  <2>1. CASE Apply(s)
    <3>1. FriendFacts({<<"asked", pair(s)>>}) = {}
      BY DEF FriendFacts
    <3> QED BY <2>1, <3>1 DEF Apply
  <2>2. CASE Auth(s)
    <3>1. \A k \in Idle(s) :
            FriendFacts({f \in {<<"accepted", pair(s)>>} : <<"asked", f[2]>> \in db \cup pend[k]}) = {}
      BY DEF FriendFacts
    <3> QED BY <2>2, <3>1 DEF Auth
  <2> QED BY <2>1, <2>2
<1>2. UNCHANGED <<auto, snap, con, cur>>
  BY DEF Apply, Auth
<1>3. Goto(s, "insert", "route") \/ Goto(s, "update", "begin")
  BY DEF Apply, Auth
<1>4. k \in DbConn /\ Pool[k] = s /\ con[s] # k
  BY <1>1 DEF Idle
<1>5. CASE auto[k]
  <2>1. db' = db \cup F /\ UNCHANGED pend
    BY <1>1, <1>5 DEF Write
  <2>2. \A t \in Server : logic'[t] \in Tx => logic'[t] = logic[t]
    BY <1>3 DEF Types, LogicType, Goto, Tx
  <2>3. \A j \in DbConn : snap'[j] # None => snap'[j] \subseteq db'
    BY <1>2, <2>1 DEF Open
  <2> QED BY <1>2, <2>1, <2>2, <2>3 DEF Open, Tx
<1>6. CASE ~auto[k]
  <2>1. pend' = [pend EXCEPT ![k] = @ \cup F] /\ UNCHANGED db
    BY <1>1, <1>6 DEF Write
  <2>2. FriendFacts(pend'[k]) = FriendFacts(pend[k])
    BY <1>1, <1>4, <2>1 DEF FriendFacts, Types, DbType
  <2>3. \A j \in DbConn \ {k} : pend'[j] = pend[j]
    BY <2>1 DEF Types, DbType
  <2>4. \A t \in Server : logic'[t] \in Tx => logic'[t] = logic[t] /\ con[t] \in DbConn \ {k}
    <3> SUFFICES ASSUME NEW t \in Server, logic'[t] \in Tx
                 PROVE  logic'[t] = logic[t] /\ con[t] \in DbConn \ {k}
      OBVIOUS
    <3>1. t # s /\ logic'[t] = logic[t]
      BY <1>3 DEF Types, LogicType, Goto, Tx
    <3> QED BY <1>4, <3>1 DEF Types, ConType, Tx
  <2>5. /\ \A j \in DbConn : auto[j] => pend'[j] = {}
        /\ \A j \in DbConn : con[Pool[j]] # j => FriendFacts(pend'[j]) = {}
    BY <1>4, <1>6, <2>2, <2>3 DEF Open
  <2>6. \A t \in Server : logic'[t] \in Tx => pend'[con[t]] = pend[con[t]]
    BY <2>3, <2>4
  <2>7. \A j \in DbConn : snap'[j] # None => snap'[j] \subseteq db'
    BY <1>2, <2>1 DEF Open
  <2> QED BY <1>2, <2>4, <2>5, <2>6, <2>7 DEF Open, Tx
<1> QED BY <1>5, <1>6

(* A statement that fails takes no friendship away. *)
LEMMA OpenFails ==
  ASSUME Types, Open, NEW s \in Server, StatementFails(s)
  PROVE  Open'
<1>1. PICK k \in Idle(s) :
        \/ UNCHANGED <<pend, snap>>
        \/ pend' = [pend EXCEPT ![k] = {}] /\ snap' = [snap EXCEPT ![k] = None]
  BY DEF StatementFails
<1>2. UNCHANGED <<db, auto, cur, con>>
  BY DEF StatementFails
<1>3. k \in DbConn /\ Pool[k] = s /\ con[s] # k
  BY DEF Idle
<1>4. \A t \in Server : logic'[t] \in Tx =>
        logic'[t] = logic[t] /\ con[t] \in DbConn \ {k}
  <2> SUFFICES ASSUME NEW t \in Server, logic'[t] \in Tx
               PROVE  logic'[t] = logic[t] /\ con[t] \in DbConn \ {k}
    OBVIOUS
  <2>1. t # s /\ logic'[t] = logic[t]
    BY DEF StatementFails, Types, LogicType, Tx
  <2> QED BY <1>3, <2>1 DEF Types, ConType, Tx
<1>5. /\ \A j \in DbConn \ {k} : pend'[j] = pend[j]
      /\ pend'[k] \in {pend[k], {}}
  BY <1>1, <1>3 DEF Types, DbType
<1>6. FriendFacts(pend'[k]) = {}
  BY <1>3, <1>5 DEF Open, FriendFacts
<1>7. /\ \A j \in DbConn : auto'[j] => pend'[j] = {}
      /\ \A j \in DbConn : con'[Pool[j]] # j => FriendFacts(pend'[j]) = {}
  BY <1>2, <1>5, <1>6 DEF Open
<1>8. \A t \in Server : logic'[t] \in Tx => pend'[con'[t]] = pend[con[t]]
  BY <1>2, <1>4, <1>5
<1>9. \A j \in DbConn : snap'[j] # None => snap'[j] \subseteq db'
  BY <1>1, <1>2, <1>3 DEF Open, Types, DbType
<1> QED BY <1>2, <1>4, <1>7, <1>8, <1>9 DEF Open, Tx

(* Nor do they write one. *)
LEMMA StatementsAddNone ==
  ASSUME Types, FriendsBothWays, NEW s \in Server, Apply(s) \/ Auth(s)
  PROVE  FriendsBothWays'
<1>1. PICK k, F : Write(k, F) /\ \A f \in F : f[1] # "friend"
  <2>1. CASE Apply(s)
    BY <2>1 DEF Apply
  <2>2. CASE Auth(s)
    <3>1. PICK k \in Idle(s) :
            Write(k, {f \in {<<"accepted", pair(s)>>} : <<"asked", f[2]>> \in db \cup pend[k]})
      BY <2>2 DEF Auth
    <3>2. \A f \in {f \in {<<"accepted", pair(s)>>} : <<"asked", f[2]>> \in db \cup pend[k]} :
            f[1] # "friend"
      OBVIOUS
    <3> QED BY <3>1, <3>2
  <2> QED BY <2>1, <2>2
<1>2. \A u, v \in User : <<"friend", <<u, v>>>> \in db' <=> <<"friend", <<u, v>>>> \in db
  BY <1>1 DEF Write
<1> QED BY <1>2 DEF FriendsBothWays

(* AddFriend: one direction, the other, and both are committed or rolled back. *)
LEMMA OpenAddFriend ==
  ASSUME Types, Open, FriendsBothWays, NEW s \in Server, AddFriend(s)
  PROVE  Open' /\ FriendsBothWays'
<1> DEFINE one == <<"friend", <<cur[s].by, cur[s].to>>>>
           other == <<"friend", <<cur[s].to, cur[s].by>>>>
<1>0. cur' = cur
  BY DEF AddFriend, AddBegin, AddFirst, AddSecond, AddFails, AddCommit
<1>1. \A k \in DbConn, t \in Server : con[t] = k => Pool[k] = t
  BY FriendsAssumption DEF Types, ConType
<1>2. CASE AddBegin(s)
  <2>1. PICK k \in Idle(s) : /\ con' = [con EXCEPT ![s] = k]
                            /\ auto' = [auto EXCEPT ![k] = FALSE]
    BY <1>2 DEF AddBegin
  <2>2. /\ UNCHANGED <<db, pend, snap>> /\ logic[s] = "begin"
        /\ logic' = [logic EXCEPT ![s] = "first"]
    BY <1>2 DEF AddBegin, Goto
  <2>3. k \in DbConn /\ Pool[k] = s /\ con[s] # k
    BY DEF Idle
  <2>4. con[s] = None
    BY <2>2 DEF Types, ConType
  <2>5. FriendFacts(pend[k]) = {}
    BY <2>3 DEF Open
  <2>6. \A j \in DbConn : auto'[j] => auto[j]
    BY <2>1 DEF Types, DbType
  <2>7. \A j \in DbConn : con'[Pool[j]] # j => con[Pool[j]] # j
    BY FriendsAssumption, <2>1, <2>4 DEF Types, ConType
  <2>8. \A t \in Server \ {s} : logic'[t] = logic[t] /\ con'[t] = con[t]
    BY <2>1, <2>2 DEF Types, LogicType, ConType
  <2>9. logic'[s] = "first" /\ con'[s] = k
    BY <2>1, <2>2 DEF Types, LogicType, ConType
  <2>10. Open'
    BY <1>0, <2>2, <2>5, <2>6, <2>7, <2>8, <2>9 DEF Open
  <2> QED BY <2>2, <2>10 DEF FriendsBothWays
<1>3. ASSUME AddFirst(s) \/ AddSecond(s)
      PROVE  Open' /\ FriendsBothWays'
  <2>1. logic[s] \in Tx /\ UNCHANGED <<auto, snap, con>>
    BY <1>3 DEF AddFirst, AddSecond, Goto, Tx
  <2>2. con[s] \in DbConn /\ ~auto[con[s]] /\ Pool[con[s]] = s
    BY <2>1 DEF Types, ConType, Tx
  <2>3. PICK f \in {one, other} :
          /\ pend' = [pend EXCEPT ![con[s]] = @ \cup {f}] /\ UNCHANGED db
          /\ \/ f = one /\ logic[s] = "first" /\ logic' = [logic EXCEPT ![s] = "second"]
             \/ f = other /\ logic[s] = "second" /\ logic' = [logic EXCEPT ![s] = "commit"]
    BY <1>3, <2>2 DEF AddFirst, AddSecond, Goto, Write
  <2>4. pend'[con[s]] = pend[con[s]] \cup {f} /\ \A j \in DbConn \ {con[s]} : pend'[j] = pend[j]
    BY <2>2, <2>3 DEF Types, DbType
  <2>5. FriendFacts(pend'[con[s]]) = FriendFacts(pend[con[s]]) \cup {f}
    BY <2>4 DEF FriendFacts
  <2>6. /\ logic'[s] = "second" => FriendFacts(pend'[con[s]]) = {one}
        /\ logic'[s] = "commit" => FriendFacts(pend'[con[s]]) = {one, other}
        /\ logic'[s] # "first"
    <3>1. CASE f = one /\ logic[s] = "first" /\ logic' = [logic EXCEPT ![s] = "second"]
      <4>1. logic'[s] = "second"
        BY <3>1 DEF Types, LogicType
      <4>2. FriendFacts(pend[con[s]]) = {}
        BY <3>1 DEF Open
      <4> QED BY <2>5, <3>1, <4>1, <4>2
    <3>2. CASE f = other /\ logic[s] = "second" /\ logic' = [logic EXCEPT ![s] = "commit"]
      <4>1. logic'[s] = "commit"
        BY <3>2 DEF Types, LogicType
      <4>2. FriendFacts(pend[con[s]]) = {one}
        BY <3>2 DEF Open
      <4> QED BY <2>5, <3>2, <4>1, <4>2
    <3> QED BY <2>3, <3>1, <3>2
  <2>7. \A t \in Server \ {s} : logic'[t] = logic[t] /\ (logic[t] \in Tx => con[t] \in DbConn \ {con[s]})
    BY <1>1, <2>2, <2>3 DEF Types, LogicType, ConType, Tx
  <2>8. /\ \A j \in DbConn : auto[j] => pend'[j] = {}
        /\ \A j \in DbConn : con[Pool[j]] # j => FriendFacts(pend'[j]) = {}
    BY <2>2, <2>4 DEF Open
  <2>9. Open'
    <3>1. \A t \in Server \ {s} :
            logic'[t] \in Tx => logic'[t] = logic[t] /\ pend'[con'[t]] = pend[con[t]]
      BY <2>1, <2>4, <2>7
    <3>2. /\ con' = con /\ auto' = auto /\ db' = db
          /\ \A j \in DbConn : snap'[j] # None => snap'[j] \subseteq db'
      BY <2>1, <2>3 DEF Open
    <3>3. \A t \in Server \ {s} :
            /\ logic'[t] = "first" => FriendFacts(pend'[con'[t]]) = {}
            /\ logic'[t] = "second" =>
                 FriendFacts(pend'[con'[t]]) = {<<"friend", <<cur'[t].by, cur'[t].to>>>>}
            /\ logic'[t] = "commit" => FriendFacts(pend'[con'[t]]) = friends(cur'[t].by, cur'[t].to)
      BY <1>0, <3>1 DEF Open, Tx
    <3>4. /\ logic'[s] # "first"
          /\ logic'[s] = "second" =>
               FriendFacts(pend'[con'[s]]) = {<<"friend", <<cur'[s].by, cur'[s].to>>>>}
          /\ logic'[s] = "commit" => FriendFacts(pend'[con'[s]]) = friends(cur'[s].by, cur'[s].to)
      BY <1>0, <2>6, <3>2 DEF friends
    <3> HIDE DEF one, other
    <3> QED BY <2>8, <3>2, <3>3, <3>4 DEF Open
  <2> QED BY <2>3, <2>9 DEF FriendsBothWays
<1>4. ASSUME AddFails(s) \/ AddCommit(s)
      PROVE  Open' /\ FriendsBothWays'
  <2>1. con[s] \in DbConn /\ Pool[con[s]] = s
    BY <1>4 DEF AddFails, AddCommit, Types, ConType, Goto
  <2>2. /\ auto' = auto /\ con' = [con EXCEPT ![s] = None]
        /\ pend' = [pend EXCEPT ![con[s]] = {}] /\ snap' = [snap EXCEPT ![con[s]] = None]
        /\ logic' = [logic EXCEPT ![s] = "route"]
    BY <1>4 DEF AddFails, AddCommit, Goto
  <2>3. db' = db \/ (db' = db \cup pend[con[s]] /\ logic[s] = "commit")
    BY <1>4 DEF AddFails, AddCommit, Goto
  <2>4. pend'[con[s]] = {} /\ \A j \in DbConn \ {con[s]} : pend'[j] = pend[j]
    BY <2>1, <2>2 DEF Types, DbType
  <2>5. \A t \in Server \ {s} : /\ logic'[t] = logic[t] /\ con'[t] = con[t]
                               /\ logic[t] \in Tx => con[t] \in DbConn \ {con[s]}
    BY <1>1, <2>1, <2>2 DEF Types, LogicType, ConType, Tx
  <2>6. logic'[s] = "route"
    BY <2>2 DEF Types, LogicType
  <2>7. \A j \in DbConn : con'[Pool[j]] # j => j = con[s] \/ con[Pool[j]] # j
    BY <2>1, <2>2 DEF Types, ConType
  <2>8. FriendFacts(pend'[con[s]]) = {}
    BY <2>4 DEF FriendFacts
  <2>9. \A j \in DbConn : snap'[j] # None => snap'[j] \subseteq db'
    BY <2>1, <2>2, <2>3 DEF Open, Types, DbType
  <2>10. Open'
    BY <1>0, <2>2, <2>4, <2>5, <2>6, <2>7, <2>8, <2>9 DEF Open, Tx
  <2>11. FriendsBothWays'
    <3>1. CASE db' = db
      BY <3>1 DEF FriendsBothWays
    <3>2. CASE db' = db \cup pend[con[s]] /\ logic[s] = "commit"
      <4>1. FriendFacts(pend[con[s]]) = {one, other}
        BY <3>2 DEF Open, friends
      <4> SUFFICES ASSUME NEW u \in User, NEW v \in User, <<"friend", <<u, v>>>> \in db'
                   PROVE  <<"friend", <<v, u>>>> \in db'
        BY DEF FriendsBothWays
      <4>2. CASE <<"friend", <<u, v>>>> \in db
        BY <3>2, <4>2 DEF FriendsBothWays
      <4>3. CASE <<"friend", <<u, v>>>> \in pend[con[s]]
        <5>1. <<"friend", <<u, v>>>> \in {one, other}
          BY <4>1, <4>3 DEF FriendFacts
        <5>2. {one, other} \subseteq pend[con[s]]
          BY <4>1 DEF FriendFacts
        <5>3. <<"friend", <<v, u>>>> \in {one, other}
          BY <5>1
        <5> QED BY <3>2, <5>2, <5>3
      <4> QED BY <3>2, <4>2, <4>3
    <3> QED BY <2>3, <3>1, <3>2
  <2> QED BY <2>10, <2>11
<1> QED BY <1>2, <1>3, <1>4 DEF AddFriend

(* A connection that is replaced takes what was not committed with it, which is no
   friendship. *)
LEMMA OpenBreak ==
  ASSUME Types, Open, NEW k \in DbConn, Break(k)
  PROVE  Open'
<1>1. /\ con[Pool[k]] # k /\ UNCHANGED <<db, logic, cur, con>>
      /\ auto' = [auto EXCEPT ![k] = TRUE]
      /\ pend' = [pend EXCEPT ![k] = {}] /\ snap' = [snap EXCEPT ![k] = None]
  BY DEF Break, threadVars
<1>2. \A t \in Server : logic[t] \in Tx => con[t] \in DbConn \ {k}
  BY <1>1 DEF Types, ConType, Tx
<1>3. pend'[k] = {} /\ \A j \in DbConn \ {k} : pend'[j] = pend[j] /\ auto'[j] = auto[j]
  BY <1>1 DEF Types, DbType
<1>4. FriendFacts(pend'[k]) = {}
  BY <1>3 DEF FriendFacts
<1>5. \A j \in DbConn : snap'[j] # None => snap'[j] \subseteq db'
  BY <1>1 DEF Open, Types, DbType
<1> QED BY <1>1, <1>2, <1>3, <1>4, <1>5 DEF Open, Tx

(* Nothing of a transaction changes while a call is served or a client leaves. *)
LEMMA OpenRpc ==
  ASSUME Types, Open, (\E k \in calls : Rpc(k)) \/ (\E u \in User : Leave(u)) \/ UNCHANGED vars
  PROVE  Open'
<1>0. DbType
  BY DEF Types
<1>1. UNCHANGED <<db, auto, pend, con, cur>>
  BY DEF Rpc, RpcFind, RpcSend, RpcReturn, Leave, vars, dbVars, threadVars
<1>2. \A k \in DbConn : snap'[k] \in {snap[k], db}
  <2>1. CASE \E k \in calls : RpcSend(k)
    <3>1. PICK k \in calls : RpcSend(k)
      BY <2>1
    <3>2. CASE BaseInfo(Home[k.req.to], k.req.by)
      BY <1>0, <3>2, BaseInfoSnap
    <3>3. CASE UNCHANGED snap
      BY <3>3
    <3> QED BY <3>1, <3>2, <3>3 DEF RpcSend
  <2>2. CASE UNCHANGED snap
    BY <2>2
  <2> QED BY <2>1, <2>2 DEF Rpc, RpcFind, RpcReturn, Leave, vars, dbVars
<1>3. \A t \in Server : logic'[t] \in Tx => logic'[t] = logic[t]
  BY DEF Rpc, RpcFind, RpcSend, RpcReturn, Leave, vars, threadVars, Types, LogicType, Tx
<1> QED BY <1>1, <1>2, <1>3 DEF Open, Tx

(* So the two hold together at every step. *)
LEMMA OpenStep ==
  Types /\ Open /\ FriendsBothWays /\ [Next]_vars => Open' /\ FriendsBothWays'
<1> SUFFICES ASSUME Types, Open, FriendsBothWays, [Next]_vars
             PROVE  Open' /\ FriendsBothWays'
  OBVIOUS
<1>1. ASSUME UNCHANGED db, Open'
      PROVE  Open' /\ FriendsBothWays'
  BY <1>1 DEF FriendsBothWays
<1>2. ASSUME NEW s \in Server, Take(s) \/ Handler(s)
      PROVE  Open' /\ FriendsBothWays'
  <2>1. CASE Take(s) \/ Info(s) \/ Login(s) \/ StatementFails(s) \/ Notify(s) \/ Reply(s)
    <3>1. Open'
      BY <2>1, OpenReads, OpenFails
    <3>2. UNCHANGED db
      BY <2>1 DEF Take, Info, Login, LoginApplies, LoginFriends, LoginSetUip, LoginBind,
                  StatementFails, Notify, Route, FindLocal, SendLocal, Reply, dbVars
    <3> QED BY <1>1, <3>1, <3>2
  <2>2. CASE Apply(s) \/ Auth(s)
    <3>1. Open'
      BY <2>2, OpenStatements
    <3>2. FriendsBothWays'
      BY <2>2, StatementsAddNone
    <3> QED BY <3>1, <3>2
  <2>3. CASE AddFriend(s)
    BY <2>3, OpenAddFriend
  <2> QED BY <1>2, <2>1, <2>2, <2>3 DEF Handler
<1>3. ASSUME NEW k \in DbConn, Break(k)
      PROVE  Open' /\ FriendsBothWays'
  <2>1. Open'
    BY <1>3, OpenBreak
  <2>2. UNCHANGED db
    BY <1>3 DEF Break
  <2> QED BY <1>1, <2>1, <2>2
<1>4. CASE (\E k \in calls : Rpc(k)) \/ (\E u \in User : Leave(u)) \/ UNCHANGED vars
  <2>1. Open'
    BY <1>4, OpenRpc
  <2>2. UNCHANGED db
    BY <1>4 DEF Rpc, RpcFind, RpcSend, RpcReturn, Leave, vars, dbVars
  <2> QED BY <1>1, <2>1, <2>2
<1> QED BY <1>2, <1>3, <1>4 DEF Next

LEMMA OpenInit == Init => Open /\ FriendsBothWays
BY DEF Init, Open, FriendsBothWays, FriendFacts

(* Friendship is mutual in the tables whatever the servers, users, connections and requests:
   the transaction of MysqlDao.cpp:250-304 holds one direction only while AddFriend is between
   its two statements, commits both, and is rolled back with both. *)
THEOREM FriendsMutual == Spec => []FriendsBothWays
<1> QED BY OpenInit, OpenStep, TypeInit, TypeStep, PTL DEF Spec
-------------------------------------------------------------------------------
(* Every place belongs to its kinds of request. *)
LEMMA KindStep ==
  ASSUME Types, KindAt, [Next]_vars
  PROVE  KindAt'
<1> USE DEF KindAt, Types, LogicType
<1>1. ASSUME NEW s \in Server, Take(s)
      PROVE  KindAt'
  <2>1. PICK r \in Request :
          /\ logic' = [logic EXCEPT ![s] = IF r.kind = "apply" THEN "insert" ELSE "info"]
          /\ cur' = [cur EXCEPT ![s] = r]
    BY <1>1 DEF Take, Goto
  <2>2. /\ logic'[s] \in {"insert", "info"} /\ cur'[s] = r
        /\ logic'[s] = "insert" <=> r.kind = "apply"
        /\ \A t \in Server \ {s} : logic'[t] = logic[t] /\ cur'[t] = cur[t]
    BY <2>1
  <2> QED BY <2>2
<1>2. ASSUME NEW s \in Server, Info(s)
      PROVE  KindAt'
  <2>1. cur' = cur /\ logic[s] = "info"
    BY <1>2 DEF Info, Goto
  <2>2. PICK p : /\ p = CASE cur[s].kind = "login" -> "applies"
                          [] cur[s].kind = "accept" -> "update"
                          [] OTHER -> "reply"
                 /\ logic' = [logic EXCEPT ![s] = p]
    BY <1>2 DEF Info, Goto
  <2>3. \/ p = "applies" /\ cur[s].kind = "login"
        \/ p = "update" /\ cur[s].kind = "accept"
        \/ p = "reply"
    BY <2>2
  <2> QED BY <2>1, <2>2, <2>3
<1>3. ASSUME NEW s \in Server, Login(s)
      PROVE  KindAt'
  BY <1>3 DEF Login, LoginApplies, LoginFriends, LoginSetUip, LoginBind, Goto
<1>4. ASSUME NEW s \in Server, Apply(s) \/ Auth(s)
      PROVE  KindAt'
  BY <1>4 DEF Apply, Auth, Goto
<1>5. ASSUME NEW s \in Server, StatementFails(s)
      PROVE  KindAt'
  <2>1. /\ cur' = cur
        /\ \/ logic[s] = "insert" /\ logic' = [logic EXCEPT ![s] = "route"]
           \/ logic[s] = "update" /\ logic' = [logic EXCEPT ![s] = "begin"]
    BY <1>5 DEF StatementFails
  <2> QED BY <2>1
<1>6. ASSUME NEW s \in Server, AddFriend(s)
      PROVE  KindAt'
  BY <1>6 DEF AddFriend, AddBegin, AddFirst, AddSecond, AddFails, AddCommit, Goto
<1>7. ASSUME NEW s \in Server, Notify(s)
      PROVE  KindAt'
  <2>1. /\ cur' = cur /\ logic[s] \in {"route", "find", "send"}
        /\ \E p \in {"find", "send", "call", "reply"} : logic' = [logic EXCEPT ![s] = p]
    BY <1>7 DEF Notify, Route, FindLocal, SendLocal, Goto
  <2> QED BY <2>1
<1>8. ASSUME NEW s \in Server, Reply(s)
      PROVE  KindAt'
  BY <1>8 DEF Reply, Goto
<1>9. ASSUME NEW k \in calls, Rpc(k)
      PROVE  KindAt'
  BY <1>9 DEF Rpc, RpcFind, RpcSend, RpcReturn
<1>10. CASE (\E k \in DbConn : Break(k)) \/ (\E u \in User : Leave(u)) \/ UNCHANGED vars
  BY <1>10 DEF Break, Leave, vars, threadVars
<1> QED BY <1>1, <1>2, <1>3, <1>4, <1>5, <1>6, <1>7, <1>8, <1>9, <1>10 DEF Next, Handler

(* No row gets lost silently: what was committed or taken away stays so, and an
   application or acceptance that waits goes on waiting, is committed or taken away. *)
LEMMA RowsStay ==
  ASSUME Types, [Next]_vars
  PROVE  /\ db \subseteq db' /\ lost \subseteq lost' /\ failed \subseteq failed'
         /\ \A k \in DbConn : \A f \in pend[k] :
              f[1] # "friend" => f \in pend'[k] \cup db' \cup lost'
<1> USE DEF Types, DbType
<1> DEFINE Stays == /\ db \subseteq db' /\ lost \subseteq lost' /\ failed \subseteq failed'
                    /\ \A k \in DbConn : \A f \in pend[k] :
                         f[1] # "friend" => f \in pend'[k] \cup db' \cup lost'
<1>1. ASSUME UNCHANGED <<db, pend, lost, failed>>
      PROVE  Stays
  BY <1>1
<1>2. ASSUME NEW k \in DbConn, NEW F, Write(k, F), UNCHANGED <<lost, failed>>
      PROVE  Stays
  BY <1>2 DEF Write
<1>3. ASSUME NEW s \in Server, Apply(s) \/ Auth(s)
      PROVE  Stays
  <2>1. UNCHANGED <<lost, failed>> /\ \E k \in DbConn : \E F : Write(k, F)
    BY <1>3 DEF Apply, Auth, Idle
  <2> HIDE DEF Stays
  <2> QED BY <1>2, <2>1
<1>4. ASSUME NEW s \in Server, AddFirst(s) \/ AddSecond(s)
      PROVE  Stays
  <2>1. con[s] \in DbConn
    BY <1>4 DEF AddFirst, AddSecond, Goto, ConType
  <2>2. UNCHANGED <<lost, failed>> /\ \E k \in DbConn : \E F : Write(k, F)
    BY <1>4, <2>1 DEF AddFirst, AddSecond
  <2> HIDE DEF Stays
  <2> QED BY <1>2, <2>2
<1>5. ASSUME NEW s \in Server, AddFails(s) \/ AddCommit(s)
      PROVE  Stays
  <2>1. con[s] \in DbConn
    BY <1>5 DEF AddFails, AddCommit, Goto, ConType
  <2>2. pend' = [pend EXCEPT ![con[s]] = {}] /\ failed \subseteq failed'
    BY <1>5 DEF AddFails, AddCommit
  <2>3. \/ db' = db /\ lost' = lost \cup {f \in pend[con[s]] : f[1] # "friend"}
        \/ db' = db \cup pend[con[s]] /\ lost' = lost
    BY <1>5 DEF AddFails, AddCommit
  <2> QED BY <2>1, <2>2, <2>3
<1>6. ASSUME NEW k \in DbConn, Break(k)
      PROVE  Stays
  BY <1>6 DEF Break
<1>7. ASSUME NEW s \in Server, StatementFails(s)
      PROVE  Stays
  <2>1. PICK k \in Idle(s) :
          \/ lost \subseteq lost' /\ pend' = pend
          \/ lost \cup pend[k] \subseteq lost' /\ pend' = [pend EXCEPT ![k] = {}]
    BY <1>7 DEF StatementFails
  <2>2. k \in DbConn /\ UNCHANGED <<db, failed>>
    BY <1>7 DEF StatementFails, Idle
  <2> QED BY <2>1, <2>2
<1>8. ASSUME NEW s \in Server,
             \/ Take(s) \/ Info(s) \/ Login(s) \/ AddBegin(s) \/ Notify(s) \/ Reply(s)
      PROVE  Stays
  BY <1>1, <1>8 DEF Take, Info, Login, LoginApplies, LoginFriends, LoginSetUip, LoginBind, AddBegin,
              Notify, Route, FindLocal, SendLocal, Reply, dbVars
<1>9. ASSUME (\E k \in calls : Rpc(k)) \/ (\E u \in User : Leave(u)) \/ UNCHANGED vars
      PROVE  Stays
  BY <1>1, <1>9 DEF Rpc, RpcFind, RpcSend, RpcReturn, Leave, vars, dbVars
<1> HIDE DEF Stays, Types, DbType
<1>10. ASSUME NEW s \in Server, Take(s) \/ Handler(s)
       PROVE  Stays
  BY <1>3, <1>4, <1>5, <1>7, <1>8, <1>10 DEF Handler, AddFriend
<1>11. Stays
  BY <1>6, <1>9, <1>10 DEF Next
<1> QED BY <1>11 DEF Stays

(* So what is behind a fact stays behind it. *)
LEMMA BackedStays ==
  ASSUME Types, [Next]_vars, Open', NEW f, behind(f)
  PROVE  behind(f)'
<1>1. /\ db \subseteq db' /\ lost \subseteq lost' /\ failed \subseteq failed'
      /\ \A k \in DbConn : f \in pend[k] /\ f[1] # "friend" => f \in pend'[k] \cup db' \cup lost'
  BY RowsStay
<1>2. ASSUME NEW k \in DbConn, f \in pend'[k]
      PROVE  ~auto'[k]
  BY <1>2 DEF Open
<1> QED BY <1>1, <1>2 DEF behind

(* A fact that is written on a pooled connection has this behind it, and so has what is
   read on one. *)
LEMMA WrittenIsBacked ==
  ASSUME Types, Open', NEW k \in DbConn, NEW F, Write(k, F), NEW f \in F, f[1] # "friend"
  PROVE  behind(f)'
<1>1. CASE auto[k]
  BY <1>1 DEF Write, behind
<1>2. CASE ~auto[k]
  <2>1. f \in pend'[k]
    BY <1>2 DEF Write, Types, DbType
  <2>2. ~auto'[k]
    BY <2>1 DEF Open
  <2> QED BY <2>1, <2>2 DEF behind
<1> QED BY <1>1, <1>2

LEMMA ReadIsBacked ==
  ASSUME Types, Open, NEW s \in Server, NEW k \in Idle(s), NEW f \in Sees(k)
  PROVE  behind(f)
<1>1. k \in DbConn /\ con[Pool[k]] # k
  BY DEF Idle
<1>2. CASE f \in pend[k]
  <2>1. ~auto[k] /\ f[1] # "friend"
    BY <1>1, <1>2 DEF Open, FriendFacts
  <2> QED BY <1>1, <1>2, <2>1 DEF behind
<1>3. CASE f \in db
  BY <1>3 DEF behind
<1>4. CASE f \in snap[k] /\ snap[k] # None
  BY <1>1, <1>4 DEF behind, Open
<1> QED BY <1>2, <1>3, <1>4 DEF Sees

(* What a handler has read, or done, has this behind it. *)
LEMMA ListsStep ==
  ASSUME Types, Open, Open', DoneIsBacked, [Next]_vars, NEW s \in Server, NEW f \in lists'[s]
  PROVE  behind(f)'
<1> USE DEF Types, LogicType
<1>1. CASE f \in lists[s]
  BY <1>1, BackedStays DEF DoneIsBacked
<1>2. ASSUME NEW t \in Server, LoginApplies(t) \/ LoginFriends(t), f \notin lists[s]
      PROVE  behind(f)'
  <2>1. PICK k \in Idle(t) : f \in Sees(k)
    <3>1. CASE LoginApplies(t)
      <4>1. PICK k \in Idle(t) : lists' = [lists EXCEPT ![t] =
                     {g \in Sees(k) : g[1] # "friend" /\ g[2][2] = cur[t].by}]
        BY <3>1 DEF LoginApplies
      <4>2. lists'[s] \subseteq lists[s] \cup Sees(k)
        BY <4>1
      <4> QED BY <1>2, <4>2
    <3>2. CASE LoginFriends(t)
      <4>1. PICK k \in Idle(t) : lists' = [lists EXCEPT ![t] = @ \cup
                     {g \in Sees(k) : g[1] = "friend" /\ g[2][1] = cur[t].by}]
        BY <3>2 DEF LoginFriends
      <4>2. lists'[s] \subseteq lists[s] \cup Sees(k)
        BY <4>1
      <4> QED BY <1>2, <4>2
    <3> QED BY <1>2, <3>1, <3>2
  <2> QED BY <2>1, ReadIsBacked, BackedStays
<1>3. ASSUME NEW t \in Server,
             \/ Take(t) \/ Info(t) \/ LoginSetUip(t) \/ LoginBind(t) \/ Apply(t) \/ Auth(t)
             \/ StatementFails(t) \/ AddFriend(t) \/ Notify(t)
      PROVE  lists' = lists
  BY <1>3 DEF Take, Info, LoginSetUip, LoginBind, Apply, Auth, StatementFails, AddFriend, AddBegin,
              AddFirst, AddSecond, AddFails, AddCommit, Notify, Route, FindLocal, SendLocal
<1>4. ASSUME NEW t \in Server, Reply(t)
      PROVE  lists'[s] \subseteq lists[s]
  BY <1>4 DEF Reply
<1>5. CASE \/ \E k \in calls : Rpc(k)
           \/ \E k \in DbConn : Break(k)
           \/ \E u \in User : Leave(u)
           \/ UNCHANGED vars
  BY <1>1, <1>5 DEF Rpc, RpcFind, RpcSend, RpcReturn, Break, Leave, vars, threadVars
<1> QED BY <1>1, <1>2, <1>3, <1>4, <1>5 DEF Next, Handler, Login

(* What a handler tells is what it has done. *)
LEMMA NoteInOutcome ==
  ASSUME NEW r, r.kind \in {"apply", "accept"}
  PROVE  Note(r) \in Outcome(r)
BY DEF Note, Outcome, friends

(* What a handler has done, before it notifies and answers, has this behind it. *)
LEMMA OutcomeStep ==
  ASSUME Types, Open, Open', KindAt, DoneIsBacked, [Next]_vars, NEW s \in Server,
         logic'[s] \in {"route", "find", "send", "call", "reply"},
         NEW f \in Outcome(cur'[s])
  PROVE  behind(f)'
<1> USE DEF Types, LogicType
<1>1. CASE /\ logic[s] \in {"route", "find", "send", "call", "reply"}
           /\ cur'[s] = cur[s]
  BY <1>1, BackedStays DEF DoneIsBacked
<1>2. CASE Take(s)
  BY <1>2 DEF Take, Goto
<1>3. CASE Info(s)
  <2>1. cur' = cur /\ logic[s] = "info"
    BY <1>3 DEF Info, Goto
  <2>2. logic' = [logic EXCEPT ![s] = CASE cur[s].kind = "login" -> "applies"
                                        [] cur[s].kind = "accept" -> "update"
                                        [] OTHER -> "reply"]
    BY <1>3 DEF Info, Goto
  <2>3. cur[s].kind # "accept" /\ cur[s].kind # "apply"
    BY <2>1, <2>2 DEF KindAt
  <2> QED BY <2>1, <2>3 DEF Outcome
<1>4. CASE Login(s)
  <2>1. cur' = cur /\ cur[s].kind = "login"
    BY <1>4 DEF Login, LoginApplies, LoginFriends, LoginSetUip, LoginBind, Goto, KindAt
  <2> QED BY <2>1 DEF Outcome
<1>5. CASE Apply(s)
  <2>1. cur' = cur /\ cur[s].kind = "apply"
    BY <1>5 DEF Apply, Goto, KindAt
  <2>2. f = <<"asked", pair(s)>>
    BY <2>1 DEF Outcome, pair
  <2>3. PICK k \in DbConn : Write(k, {f})
    BY <1>5, <2>2 DEF Apply, Idle
  <2>4. f[1] # "friend"
    BY <2>2
  <2> QED BY <2>3, <2>4, WrittenIsBacked
<1>6. CASE StatementFails(s)
  <2>1. CASE logic[s] = "insert"
    <3>1. cur' = cur /\ cur[s].kind = "apply" /\ <<"asked", pair(s)>> \in lost'
      BY <1>6, <2>1 DEF StatementFails, KindAt
    <3>2. f = <<"asked", pair(s)>>
      BY <3>1 DEF Outcome, pair
    <3> QED BY <3>1, <3>2 DEF behind
  <2>2. CASE logic[s] = "update"
    BY <1>6, <2>2 DEF StatementFails
  <2> QED BY <1>6, <2>1, <2>2 DEF StatementFails
<1>7. CASE Auth(s) \/ AddBegin(s) \/ AddFirst(s) \/ AddSecond(s)
  BY <1>7 DEF Auth, AddBegin, AddFirst, AddSecond, Goto
<1>8. CASE AddFails(s)
  <2>1. /\ cur' = cur /\ cur[s].kind = "accept"
        /\ <<cur[s].by, cur[s].to>> \in failed'
    BY <1>8 DEF AddFails, Goto, KindAt
  <2>2. f \in friends(cur[s].by, cur[s].to)
    BY <2>1 DEF Outcome
  <2>3. /\ f[1] = "friend"
        /\ <<cur[s].by, cur[s].to>> \in {f[2], <<f[2][2], f[2][1]>>}
    BY <2>2 DEF friends
  <2> QED BY <2>1, <2>3 DEF behind
<1>9. CASE AddCommit(s)
  <2>1. cur' = cur /\ cur[s].kind = "accept" /\ logic[s] = "commit" /\ pend[con[s]] \subseteq db'
    BY <1>9 DEF AddCommit, Goto, KindAt
  <2>2. friends(cur[s].by, cur[s].to) \subseteq pend[con[s]]
    BY <2>1 DEF Open, FriendFacts
  <2> QED BY <2>1, <2>2 DEF Outcome, behind
<1>10. CASE Notify(s)
  BY <1>1, <1>10 DEF Notify, Route, FindLocal, SendLocal, Goto
<1>11. CASE Reply(s)
  BY <1>11 DEF Reply, Goto
<1>12. ASSUME NEW t \in Server, t # s, Take(t) \/ Handler(t)
       PROVE  behind(f)'
  <2>1. logic'[s] = logic[s]
    BY <1>12 DEF Take, Handler, Info, Login, LoginApplies, LoginFriends, LoginSetUip, LoginBind,
       Apply, Auth, StatementFails, AddFriend, AddBegin, AddFirst, AddSecond, AddFails, AddCommit,
       Notify, Route, FindLocal, SendLocal, Reply, Goto
  <2>2. cur'[s] = cur[s]
    BY <1>12 DEF Take, Handler, Info, Login, LoginApplies, LoginFriends, LoginSetUip, LoginBind,
       Apply, Auth, StatementFails, AddFriend, AddBegin, AddFirst, AddSecond, AddFails, AddCommit,
       Notify, Route, FindLocal, SendLocal, Reply
  <2> QED BY <1>1, <2>1, <2>2
<1>13. ASSUME NEW k \in calls, Rpc(k)
       PROVE  behind(f)'
  <2>1. cur' = cur
    BY <1>13 DEF Rpc, RpcFind, RpcSend, RpcReturn
  <2>2. logic' = logic \/ logic' = [logic EXCEPT ![Home[k.req.by]] = "reply"]
    BY <1>13 DEF Rpc, RpcFind, RpcSend, RpcReturn
  <2>3. logic[Home[k.req.by]] = "call"
    BY DEF CallTrail
  <2> QED BY <1>1, <2>1, <2>2, <2>3
<1>14. CASE (\E k \in DbConn : Break(k)) \/ (\E u \in User : Leave(u)) \/ UNCHANGED vars
  BY <1>1, <1>14 DEF Break, Leave, vars, threadVars
<1> QED BY <1>2, <1>3, <1>4, <1>5, <1>6, <1>7, <1>8, <1>9, <1>10, <1>11, <1>12, <1>13, <1>14
        DEF Next, Handler, AddFriend

(* What a client is told has this behind it. *)
LEMMA ToldStep ==
  ASSUME Types, Open, Open', KindAt, DoneIsBacked, ToldIsBacked, [Next]_vars,
         NEW u \in User, NEW f \in view'[u]
  PROVE  behind(f)'
<1> USE DEF Types, LogicType, UserType
<1>1. CASE f \in view[u]
  BY <1>1, BackedStays DEF ToldIsBacked
<1>2. ASSUME NEW w \in User, NEW F, Tell(w, F), \A g \in F : behind(g)
      PROVE  behind(f)'
  <2>1. f \in view[u] \/ f \in F
    BY <1>2 DEF Tell
  <2> QED BY <1>1, <1>2, <2>1, BackedStays
<1>3. ASSUME NEW s \in Server, logic[s] # "idle"
      PROVE  cur[s] \in Request /\ cur[s].by \in User /\ cur[s].to \in User
  BY <1>3, CurIsRequest
<1>4. ASSUME NEW s \in Server, SendLocal(s)
      PROVE  behind(f)'
  <2>1. logic[s] = "send" /\ Tell(cur[s].to, {Note(cur[s])})
    BY <1>4 DEF SendLocal, Goto
  <2>2. Note(cur[s]) \in Outcome(cur[s])
    BY <2>1, NoteInOutcome DEF KindAt
  <2>3. behind(Note(cur[s]))
    BY <2>1, <2>2 DEF DoneIsBacked
  <2> QED BY <1>2, <1>3, <2>1, <2>3
<1>5. ASSUME NEW s \in Server, Reply(s)
      PROVE  behind(f)'
  <2>1. logic[s] = "reply" /\ Tell(cur[s].by, Answer(s))
    BY <1>5 DEF Reply, Goto
  <2>2. \A g \in Answer(s) : g \in lists[s] \cup Outcome(cur[s])
    <3>1. CASE cur[s].kind = "login"
      BY <3>1 DEF Answer
    <3>2. CASE cur[s].kind = "accept"
      BY <3>2 DEF Answer, Outcome, friends
    <3>3. CASE cur[s].kind # "login" /\ cur[s].kind # "accept"
      BY <3>3 DEF Answer
    <3> QED BY <3>1, <3>2, <3>3
  <2>3. \A g \in Answer(s) : behind(g)
    BY <2>1, <2>2 DEF DoneIsBacked
  <2> QED BY <1>2, <1>3, <2>1, <2>3
<1>6. ASSUME NEW k \in calls, RpcSend(k)
      PROVE  behind(f)'
  <2>1. PICK s \in Server : s = Home[k.req.by] /\ logic[s] = "call" /\ cur[s] = k.req
    BY FriendsAssumption DEF CallTrail, Call, Request
  <2>2. behind(Note(k.req))
    BY <2>1, NoteInOutcome DEF KindAt, DoneIsBacked
  <2>3. Tell(k.req.to, {Note(k.req)}) /\ k.req.to \in User
    BY <1>3, <1>6, <2>1 DEF RpcSend
  <2> QED BY <1>2, <2>2, <2>3
<1>7. ASSUME NEW w \in User, Leave(w)
      PROVE  view'[u] \subseteq view[u]
  BY <1>7 DEF Leave
<1>8. ASSUME NEW s \in Server,
             \/ Take(s) \/ Info(s) \/ Login(s) \/ Apply(s) \/ Auth(s) \/ StatementFails(s)
             \/ AddFriend(s) \/ Route(s) \/ FindLocal(s)
      PROVE  view' = view
  BY <1>8 DEF Take, Info, Login, LoginApplies, LoginFriends, LoginSetUip, LoginBind,
       Apply, Auth, StatementFails, AddFriend, AddBegin, AddFirst, AddSecond, AddFails, AddCommit,
       Route, FindLocal, userVars
<1>9. CASE \/ \E k \in calls : RpcFind(k) \/ RpcReturn(k)
           \/ \E k \in DbConn : Break(k)
           \/ UNCHANGED vars
  BY <1>1, <1>9 DEF RpcFind, RpcReturn, Break, vars, userVars
<1> QED BY <1>1, <1>4, <1>5, <1>6, <1>7, <1>8, <1>9 DEF Next, Handler, Notify, Rpc

LEMMA ToldInvStep ==
  Types /\ Open /\ FriendsBothWays /\ ToldInv /\ [Next]_vars => ToldInv'
<1> SUFFICES ASSUME Types, Open, FriendsBothWays, ToldInv, [Next]_vars
             PROVE  ToldInv'
  OBVIOUS
<1>1. Open'
  BY OpenStep
<1>2. KindAt'
  BY KindStep DEF ToldInv
<1>3. DoneIsBacked'
  BY <1>1, ListsStep, OutcomeStep DEF ToldInv, DoneIsBacked
<1>4. ToldIsBacked'
  BY <1>1, ToldStep DEF ToldInv, ToldIsBacked
<1> QED BY <1>2, <1>3, <1>4 DEF ToldInv

LEMMA ToldInit == Init => ToldInv
BY DEF Init, ToldInv, KindAt, DoneIsBacked, ToldIsBacked

(* A friendship that a client is told of is committed or its own AddFriend has failed, which
   AuthFriendApply ignores; it is never one that a transaction still holds.  An
   application is committed, waits in a transaction left open, or was taken away by a
   failure (LogicSystem.cpp:359-464, MysqlDao.cpp:146-304). *)
THEOREM ToldFactsAreBacked == Spec => []ToldIsBacked
<1>1. ToldInv => ToldIsBacked
  BY DEF ToldInv
<1> QED BY <1>1, ToldInit, ToldInvStep, OpenInit, OpenStep, TypeInit, TypeStep, PTL DEF Spec
-------------------------------------------------------------------------------
(* A handler touches no other handler. *)
LEMMA OthersStay ==
  ASSUME Types, NEW s \in Server, Take(s) \/ Handler(s), NEW t \in Server, t # s
  PROVE  logic'[t] = logic[t] /\ cur'[t] = cur[t] /\ lists'[t] = lists[t]
<1> USE DEF Types, LogicType
<1>1. logic'[t] = logic[t]
  BY DEF Take, Handler, Info, Login, LoginApplies, LoginFriends, LoginSetUip, LoginBind,
       Apply, Auth, StatementFails, AddFriend, AddBegin, AddFirst, AddSecond, AddFails, AddCommit,
       Notify, Route, FindLocal, SendLocal, Reply, Goto
<1>2. cur'[t] = cur[t]
  BY DEF Take, Handler, Info, Login, LoginApplies, LoginFriends, LoginSetUip, LoginBind,
       Apply, Auth, StatementFails, AddFriend, AddBegin, AddFirst, AddSecond, AddFails, AddCommit,
       Notify, Route, FindLocal, SendLocal, Reply
<1>3. lists'[t] = lists[t]
  BY DEF Take, Handler, Info, Login, LoginApplies, LoginFriends, LoginSetUip, LoginBind,
       Apply, Auth, StatementFails, AddFriend, AddBegin, AddFirst, AddSecond, AddFails, AddCommit,
       Notify, Route, FindLocal, SendLocal, Reply
<1> QED BY <1>1, <1>2, <1>3

(* Nor does anything else, but for the return of the call it waits for. *)
LEMMA ElsewhereStays ==
  ASSUME Types,
         \/ \E k \in calls : Rpc(k)
         \/ \E k \in DbConn : Break(k)
         \/ \E u \in User : Leave(u)
         \/ UNCHANGED vars
  PROVE  /\ UNCHANGED <<cur, lists, db, con>>
         /\ \A t \in Server :
              \/ logic'[t] = logic[t]
              \/ logic[t] = "call" /\ logic'[t] = "reply"
<1> USE DEF Types, LogicType
<1>1. UNCHANGED <<cur, lists, db, con>>
  BY DEF Rpc, RpcFind, RpcSend, RpcReturn, Break, Leave, vars, threadVars, dbVars
<1>2. ASSUME NEW k \in calls, RpcReturn(k), NEW t \in Server
      PROVE  \/ logic'[t] = logic[t]
             \/ logic[t] = "call" /\ logic'[t] = "reply"
  <2>1. logic[Home[k.req.by]] = "call" /\ logic' = [logic EXCEPT ![Home[k.req.by]] = "reply"]
    BY <1>2 DEF RpcReturn, CallTrail
  <2> QED BY <2>1
<1>3. ASSUME NEW k \in calls, RpcFind(k) \/ RpcSend(k)
      PROVE  logic' = logic
  BY <1>3 DEF RpcFind, RpcSend
<1>4. CASE (\E k \in DbConn : Break(k)) \/ (\E u \in User : Leave(u)) \/ UNCHANGED vars
  BY <1>1, <1>4 DEF Break, Leave, vars, threadVars
<1> QED BY <1>1, <1>2, <1>3, <1>4 DEF Rpc

(* Friendships come into the tables by the commit of AddFriend only. *)
LEMMA NewFriends ==
  ASSUME Types, Open, [Next]_vars, NEW u \in User, NEW v \in User,
         <<"friend", <<u, v>>>> \in db', <<"friend", <<u, v>>>> \notin db
  PROVE  \E s \in Server :
           /\ AddCommit(s)
           /\ <<u, v>> = <<cur[s].by, cur[s].to>> \/ <<u, v>> = <<cur[s].to, cur[s].by>>
<1> DEFINE f == <<"friend", <<u, v>>>>
<1>1. ASSUME NEW s \in Server, Apply(s)
      PROVE  FALSE
  <2>1. PICK k : Write(k, {<<"asked", pair(s)>>})
    BY <1>1 DEF Apply
  <2>2. f \notin {<<"asked", pair(s)>>}
    OBVIOUS
  <2> QED BY <2>1, <2>2 DEF Write
<1>2. ASSUME NEW s \in Server, Auth(s)
      PROVE  FALSE
  <2>1. PICK k : Write(k, {g \in {<<"accepted", pair(s)>>} : <<"asked", g[2]>> \in db \cup pend[k]})
    BY <1>2 DEF Auth
  <2>2. f \notin {g \in {<<"accepted", pair(s)>>} : <<"asked", g[2]>> \in db \cup pend[k]}
    OBVIOUS
  <2> QED BY <2>1, <2>2 DEF Write
<1>3. ASSUME NEW s \in Server, AddFirst(s) \/ AddSecond(s)
      PROVE  db' = db
  <2>1. logic[s] \in {"first", "second"}
    BY <1>3 DEF AddFirst, AddSecond, Goto
  <2>2. ~auto[con[s]]
    BY <2>1 DEF Types, ConType
  <2> QED BY <1>3, <2>2 DEF AddFirst, AddSecond, Write
<1>4. ASSUME NEW s \in Server, AddCommit(s)
      PROVE  <<u, v>> = <<cur[s].by, cur[s].to>> \/ <<u, v>> = <<cur[s].to, cur[s].by>>
  <2>1. logic[s] = "commit" /\ db' = db \cup pend[con[s]]
    BY <1>4 DEF AddCommit, Goto
  <2>2. FriendFacts(pend[con[s]]) = friends(cur[s].by, cur[s].to)
    BY <2>1 DEF Open
  <2>3. f \in friends(cur[s].by, cur[s].to)
    BY <2>1, <2>2 DEF FriendFacts
  <2> QED BY <2>3 DEF friends
<1>5. ASSUME NEW s \in Server,
             \/ Take(s) \/ Info(s) \/ Login(s) \/ StatementFails(s) \/ AddBegin(s)
             \/ AddFails(s) \/ Notify(s) \/ Reply(s)
      PROVE  db' = db
  BY <1>5 DEF Take, Info, Login, LoginApplies, LoginFriends, LoginSetUip, LoginBind, StatementFails,
              AddBegin, AddFails, Notify, Route, FindLocal, SendLocal, Reply, dbVars
<1>6. CASE \/ \E k \in calls : Rpc(k)
           \/ \E k \in DbConn : Break(k)
           \/ \E w \in User : Leave(w)
           \/ UNCHANGED vars
  BY <1>6, ElsewhereStays
<1> QED BY <1>1, <1>2, <1>3, <1>4, <1>5, <1>6 DEF Next, Handler, AddFriend

(* Who gets bound, and who stops being bound or excused. *)
LEMMA BoundStep ==
  ASSUME Types, [Next]_vars, NEW u \in User
  PROVE  /\ uip \subseteq uip'
         /\ u \in bound' => \/ u \in bound
                            \/ /\ LoginBind(Home[u]) /\ cur[Home[u]].by = u
                               /\ bound' = bound \cup {u}
         /\ u \in bound \ bound' => Leave(u)
         /\ u \in excused \ excused' => Leave(u)
<1> USE DEF Types, LogicType, UserType
<1>1. ASSUME NEW s \in Server, LoginBind(s)
      PROVE  /\ bound' = bound \cup {cur[s].by} /\ Home[cur[s].by] = s
             /\ UNCHANGED <<uip, excused>>
  BY <1>1 DEF LoginBind, Goto
<1>2. ASSUME NEW s \in Server, Take(s) \/ Handler(s), ~LoginBind(s)
      PROVE  bound' = bound
  BY <1>2 DEF Take, Handler, Info, Login, LoginApplies, LoginFriends, LoginSetUip,
       Apply, Auth, StatementFails, AddFriend, AddBegin, AddFirst, AddSecond, AddFails, AddCommit,
       Notify, Route, FindLocal, SendLocal, Reply, userVars
<1>3. ASSUME NEW s \in Server, Take(s) \/ Handler(s)
      PROVE  uip \subseteq uip'
  BY <1>3 DEF Take, Handler, Info, Login, LoginApplies, LoginFriends, LoginSetUip, LoginBind,
       Apply, Auth, StatementFails, AddFriend, AddBegin, AddFirst, AddSecond, AddFails, AddCommit,
       Notify, Route, FindLocal, SendLocal, Reply, userVars
<1>4. ASSUME NEW s \in Server, Take(s) \/ Handler(s), ~LoginFriends(s)
      PROVE  excused \subseteq excused'
  BY <1>4 DEF Take, Handler, Info, Login, LoginApplies, LoginSetUip, LoginBind,
       Apply, Auth, StatementFails, AddFriend, AddBegin, AddFirst, AddSecond, AddFails, AddCommit,
       Notify, Route, FindLocal, SendLocal, Reply, userVars
<1>5. ASSUME NEW s \in Server, LoginFriends(s)
      PROVE  excused \subseteq excused'
  <2>1. PICK k \in Idle(s) : excused' = IF auto[k] \/ snap[k] = None THEN excused
                                        ELSE excused \cup {cur[s].by}
    BY <1>5 DEF LoginFriends
  <2> QED BY <2>1
<1>6. ASSUME NEW w \in User, Leave(w)
      PROVE  /\ uip' = uip /\ bound' = bound \ {w} /\ excused' = excused \ {w}
  BY <1>6 DEF Leave
<1>7. CASE \/ \E k \in calls : Rpc(k)
           \/ \E k \in DbConn : Break(k)
           \/ UNCHANGED vars
  BY <1>7 DEF Rpc, RpcFind, RpcSend, RpcReturn, Break, vars, userVars
<1> QED BY <1>1, <1>2, <1>3, <1>4, <1>5, <1>6, <1>7 DEF Next

(* A login moves on through its places. *)
LEMMA LoginBefore ==
  ASSUME Types, KindAt, [Next]_vars, NEW u \in User, NEW s \in Server, s = Home[u],
         loginAt(u, {"info", "applies", "friends", "uip", "bind"})'
  PROVE  \/ /\ Take(s) /\ logic'[s] = "info"
            /\ u \notin bound /\ bound' = bound
         \/ /\ loginAt(u, {"info", "applies", "friends", "uip", "bind"})
            /\ \/ logic'[s] \notin {"uip", "bind"} /\ ~LoginBind(s)
               \/ LoginFriends(s) /\ logic'[s] = "uip"
               \/ LoginSetUip(s) /\ logic[s] = "uip" /\ logic'[s] = "bind"
               \/ logic'[s] = logic[s] /\ lists'[s] = lists[s] /\ ~Take(s) /\ ~Handler(s)
<1> USE DEF Types, LogicType
<1>1. /\ logic'[s] \in {"info", "applies", "friends", "uip", "bind"}
      /\ cur'[s].kind = "login" /\ cur'[s].by = u
  BY DEF loginAt
<1>2. CASE Take(s)
  <2>1. PICK r \in Request :
          /\ Legal(r)
          /\ logic' = [logic EXCEPT ![s] = IF r.kind = "apply" THEN "insert" ELSE "info"]
          /\ cur' = [cur EXCEPT ![s] = r]
    BY <1>2 DEF Take, Goto
  <2>2. r.kind = "login" /\ r.by = u /\ logic'[s] = "info"
    BY <1>1, <2>1
  <2>3. bound' = bound
    BY <1>2 DEF Take
  <2> QED BY <1>2, <2>1, <2>2, <2>3 DEF Legal
<1>3. CASE Info(s)
  <2>1. cur' = cur /\ logic[s] = "info"
    BY <1>3 DEF Info, Goto
  <2>2. logic' = [logic EXCEPT ![s] = CASE cur[s].kind = "login" -> "applies"
                                        [] cur[s].kind = "accept" -> "update"
                                        [] OTHER -> "reply"]
    BY <1>3 DEF Info, Goto
  <2>3. logic'[s] = "applies"
    BY <1>1, <2>1, <2>2
  <2> QED BY <1>1, <2>1, <2>3 DEF loginAt, LoginBind, Goto
<1>4. CASE LoginApplies(s)
  BY <1>1, <1>4 DEF LoginApplies, LoginBind, Goto, loginAt
<1>5. CASE LoginFriends(s)
  BY <1>1, <1>5 DEF LoginFriends, Goto, loginAt
<1>6. CASE LoginSetUip(s)
  BY <1>1, <1>6 DEF LoginSetUip, Goto, loginAt
<1>7. CASE LoginBind(s)
  BY <1>1, <1>7 DEF LoginBind, Goto
<1>8. CASE Apply(s) \/ Auth(s) \/ AddFriend(s) \/ Reply(s)
  BY <1>1, <1>8 DEF Apply, Auth, AddFriend, AddBegin, AddFirst, AddSecond, AddFails, AddCommit,
                    Reply, Goto
<1>9. CASE StatementFails(s)
  BY <1>1, <1>9 DEF StatementFails
<1>10. CASE Notify(s)
  BY <1>1, <1>10 DEF Notify, Route, FindLocal, SendLocal, Goto
<1>11. CASE ~Take(s) /\ ~Handler(s)
  <2>1. logic'[s] = logic[s] /\ cur'[s] = cur[s] /\ lists'[s] = lists[s]
    <3>1. ASSUME NEW t \in Server, t # s, Take(t) \/ Handler(t)
          PROVE  logic'[s] = logic[s] /\ cur'[s] = cur[s] /\ lists'[s] = lists[s]
      BY <3>1, OthersStay
    <3>2. CASE \/ \E k \in calls : Rpc(k)
               \/ \E k \in DbConn : Break(k)
               \/ \E w \in User : Leave(w)
               \/ UNCHANGED vars
      BY <1>1, <3>2, ElsewhereStays
    <3> QED BY <1>11, <3>1, <3>2 DEF Next
  <2> QED BY <1>1, <1>11, <2>1 DEF loginAt
<1> QED BY <1>2, <1>3, <1>4, <1>5, <1>6, <1>7, <1>8, <1>9, <1>10, <1>11 DEF Handler, Login

(* Nobody is bound while a login of his is under way, and before that his uip_<uid>
   is set. *)
LEMMA BoundAfterLogin ==
  ASSUME Types, KindAt, KnownInv, [Next]_vars
  PROVE  /\ (bound \subseteq uip)'
         /\ \A u \in User : loginAt(u, {"bind"})' => u \in uip'
         /\ \A u \in bound' : ~loginAt(u, {"info", "applies", "friends", "uip", "bind"})'
<1> USE DEF Types, UserType
<1>1. ASSUME NEW u \in bound'
      PROVE  u \in uip'
  <2>0. u \in User
    BY TypeStep
  <2>1. CASE u \in bound
    BY <2>0, <2>1, BoundStep DEF KnownInv
  <2>2. CASE LoginBind(Home[u]) /\ cur[Home[u]].by = u
    <3>1. logic[Home[u]] = "bind" /\ cur[Home[u]].kind = "login"
      BY <2>0, <2>2, FriendsAssumption DEF LoginBind, Goto, KindAt
    <3>2. loginAt(u, {"bind"})
      BY <2>2, <3>1 DEF loginAt
    <3> QED BY <2>0, <3>2, BoundStep DEF KnownInv
  <2> QED BY <2>0, <2>1, <2>2, BoundStep
<1>2. ASSUME NEW u \in User, loginAt(u, {"bind"})'
      PROVE  u \in uip'
  <2>1. PICK s \in Server : s = Home[u]
    BY FriendsAssumption
  <2>2. logic'[s] = "bind" /\ loginAt(u, {"info", "applies", "friends", "uip", "bind"})'
    BY <1>2, <2>1 DEF loginAt
  <2>3. CASE LoginSetUip(s) /\ loginAt(u, {"info", "applies", "friends", "uip", "bind"})
    BY <2>1, <2>3 DEF LoginSetUip, loginAt
  <2>4. CASE logic'[s] = logic[s] /\ loginAt(u, {"info", "applies", "friends", "uip", "bind"})
    <3>1. loginAt(u, {"bind"})
      BY <2>1, <2>2, <2>4 DEF loginAt
    <3> QED BY <3>1, BoundStep DEF KnownInv
  <2> QED BY <2>1, <2>2, <2>3, <2>4, LoginBefore
<1>3. ASSUME NEW u \in bound', loginAt(u, {"info", "applies", "friends", "uip", "bind"})'
      PROVE  FALSE
  <2>0. u \in User
    BY TypeStep
  <2>1. PICK s \in Server : s = Home[u]
    BY <2>0, FriendsAssumption
  <2>2. CASE u \in bound
    BY <1>3, <2>0, <2>1, <2>2, LoginBefore DEF KnownInv
  <2>3. CASE u \notin bound /\ LoginBind(s) /\ cur[s].by = u /\ bound' = bound \cup {u}
    <3>1. logic'[s] = "reply"
      BY <2>3 DEF LoginBind, Goto, LogicType
    <3> QED BY <1>3, <2>1, <3>1 DEF loginAt
  <2> QED BY <2>0, <2>1, <2>2, <2>3, BoundStep
<1> QED BY <1>1, <1>2, <1>3

(* A login that has read the friend list keeps up with the tables, or is excused. *)
LEMMA ListStays ==
  ASSUME Types, Open, KindAt, KnownInv, [Next]_vars,
         NEW u \in User, u \notin excused', NEW v \in User,
         <<"friend", <<u, v>>>> \in db', loginAt(u, {"uip", "bind"})'
  PROVE  <<"friend", <<u, v>>>> \in lists'[Home[u]]
<1> USE DEF Types, LogicType
<1> DEFINE f == <<"friend", <<u, v>>>>
<1>1. PICK s \in Server : s = Home[u]
  BY FriendsAssumption
<1>2. logic'[s] \in {"uip", "bind"} /\ loginAt(u, {"info", "applies", "friends", "uip", "bind"})'
  BY <1>1 DEF loginAt
<1>3. loginAt(u, {"info", "applies", "friends", "uip", "bind"})
  BY <1>1, <1>2, LoginBefore
<1>4. logic[s] \in {"info", "applies", "friends", "uip", "bind"} /\ cur[s].by = u /\ u \notin bound
  BY <1>1, <1>3 DEF loginAt, KnownInv
<1>5. u \notin excused
  BY <1>4, BoundStep DEF Leave
<1>6. CASE LoginFriends(s)
  <2>1. PICK k \in Idle(s) :
          LET L == {g \in Sees(k) : g[1] = "friend" /\ g[2][1] = cur[s].by}
          IN  /\ lists' = [lists EXCEPT ![s] = @ \cup L]
              /\ excused' = IF auto[k] \/ snap[k] = None THEN excused
                                                        ELSE excused \cup {cur[s].by}
    BY <1>6 DEF LoginFriends
  <2>2. auto[k] \/ snap[k] = None
    BY <1>4, <2>1
  <2>3. f \in Sees(k)
    <3>1. db' = db
      BY <1>6 DEF LoginFriends
    <3> QED BY <2>2, <3>1 DEF Sees
  <2>4. f[1] = "friend" /\ f[2][1] = cur[s].by
    BY <1>4
  <2>5. f \in lists'[s]
    BY <2>1, <2>3, <2>4
  <2> QED BY <1>1, <2>5
<1>7. CASE LoginSetUip(s) /\ logic[s] = "uip"
  <2>1. UNCHANGED <<db, lists>>
    BY <1>7 DEF LoginSetUip, dbVars
  <2>2. loginAt(u, {"uip", "bind"})
    BY <1>1, <1>3, <1>7 DEF loginAt
  <2> QED BY <1>5, <2>1, <2>2 DEF KnownInv
<1>8. CASE logic'[s] = logic[s] /\ lists'[s] = lists[s] /\ ~Handler(s)
  <2>1. loginAt(u, {"uip", "bind"})
    BY <1>1, <1>2, <1>3, <1>8 DEF loginAt
  <2>2. CASE f \in db
    BY <1>1, <1>5, <1>8, <2>1, <2>2 DEF KnownInv
  <2>3. CASE f \notin db
    <3>1. PICK t \in Server :
            /\ AddCommit(t)
            /\ <<u, v>> = <<cur[t].by, cur[t].to>> \/ <<u, v>> = <<cur[t].to, cur[t].by>>
      BY <2>3, NewFriends
    <3>2. t # s
      BY <1>8, <3>1 DEF Handler, AddFriend
    <3>3. logic[t] = "commit" /\ excused' = excused \cup between(t)
      BY <3>1 DEF AddCommit, Goto
    <3>4. Home[cur[t].by] = t
      BY <3>3
    <3>5. u = cur[t].to
      BY <1>1, <3>1, <3>2, <3>4
    <3>6. u \in between(t)
      BY <1>1, <1>4, <2>1, <3>2, <3>5 DEF between, loginAt
    <3> QED BY <3>3, <3>6
  <2> QED BY <2>2, <2>3
<1> QED BY <1>1, <1>2, <1>6, <1>7, <1>8, LoginBefore

(* A friendship that comes into the tables is on its way to both. *)
LEMMA ComingNew ==
  ASSUME Types, Open, KindAt, [Next]_vars, NEW u \in User, NEW v \in User,
         <<"friend", <<u, v>>>> \in db', <<"friend", <<u, v>>>> \notin db
  PROVE  Coming(u, v)'
<1> USE DEF Types, LogicType
<1>1. PICK s \in Server :
        /\ AddCommit(s)
        /\ <<u, v>> = <<cur[s].by, cur[s].to>> \/ <<u, v>> = <<cur[s].to, cur[s].by>>
  BY NewFriends
<1>2. logic[s] = "commit" /\ logic'[s] = "route" /\ cur' = cur
  BY <1>1 DEF AddCommit, Goto
<1>3. cur[s].kind = "accept" /\ Home[cur[s].by] = s
  BY <1>2 DEF KindAt
<1>4. CASE u = cur[s].by /\ v = cur[s].to
  <2>1. Home[u] = s
    BY <1>3, <1>4
  <2>2. answers(u, v)'
    BY <1>2, <1>3, <1>4, <2>1 DEF answers
  <2> QED BY <2>2 DEF Coming
<1>5. CASE u = cur[s].to /\ v = cur[s].by
  <2>1. Home[v] = s
    BY <1>3, <1>5
  <2>2. notifies(v, u)'
    BY <1>2, <1>3, <1>5, <2>1 DEF notifies
  <2> QED BY <2>2 DEF Coming
<1> QED BY <1>1, <1>4, <1>5

(* A login that binds has the friend in its list. *)
LEMMA ComingBind ==
  ASSUME Types, KindAt, KnownInv, NEW u \in User, NEW v \in User, u \notin excused',
         LoginBind(Home[u]), cur[Home[u]].by = u, <<"friend", <<u, v>>>> \in db'
  PROVE  Coming(u, v)'
<1> USE DEF Types, LogicType
<1>1. PICK s \in Server : s = Home[u]
  BY FriendsAssumption
<1>2. /\ logic[s] = "bind" /\ logic'[s] = "reply"
      /\ UNCHANGED <<db, cur, lists, excused>>
  BY <1>1 DEF LoginBind, Goto, dbVars
<1>3. cur[s].kind = "login"
  BY <1>2 DEF KindAt
<1>4. loginAt(u, {"uip", "bind"})
  BY <1>1, <1>2, <1>3 DEF loginAt
<1>5. <<"friend", <<u, v>>>> \in lists[s]
  BY <1>1, <1>2, <1>4 DEF KnownInv
<1>6. loginAt(u, {"reply"})'
  BY <1>1, <1>2, <1>3 DEF loginAt
<1> QED BY <1>1, <1>2, <1>5, <1>6 DEF Coming

(* What the client of a user was told it knows until the session ends. *)
LEMMA ViewStays ==
  ASSUME Types, [Next]_vars, NEW u \in User, u \in bound', NEW f \in view[u]
  PROVE  f \in view'[u]
<1> USE DEF Types, UserType
<1>1. ASSUME NEW w, NEW F, Tell(w, F)
      PROVE  f \in view'[u]
  BY <1>1 DEF Tell
<1>2. ASSUME NEW s \in Server, SendLocal(s) \/ Reply(s)
      PROVE  f \in view'[u]
  BY <1>1, <1>2 DEF SendLocal, Reply
<1>3. ASSUME NEW k \in calls, RpcSend(k)
      PROVE  f \in view'[u]
  BY <1>1, <1>3 DEF RpcSend
<1>4. ASSUME NEW w \in User, Leave(w)
      PROVE  f \in view'[u]
  BY <1>4 DEF Leave
<1>5. ASSUME NEW s \in Server,
             \/ Take(s) \/ Info(s) \/ Login(s) \/ Apply(s) \/ Auth(s) \/ StatementFails(s)
             \/ AddFriend(s) \/ Route(s) \/ FindLocal(s)
      PROVE  view' = view
  BY <1>5 DEF Take, Info, Login, LoginApplies, LoginFriends, LoginSetUip, LoginBind,
       Apply, Auth, StatementFails, AddFriend, AddBegin, AddFirst, AddSecond, AddFails, AddCommit,
       Route, FindLocal, userVars
<1>6. CASE \/ \E k \in calls : RpcFind(k) \/ RpcReturn(k)
           \/ \E k \in DbConn : Break(k)
           \/ UNCHANGED vars
  BY <1>6 DEF RpcFind, RpcReturn, Break, vars, userVars
<1> QED BY <1>2, <1>3, <1>4, <1>5, <1>6 DEF Next, Handler, Notify, Rpc

(* A handler past its statements goes on notifying, or answers. *)
LEMMA TailOfHandler ==
  ASSUME Types, [Next]_vars, NEW s \in Server,
         logic[s] \in {"route", "find", "send", "call", "reply"}
  PROVE  \/ Reply(s) /\ logic[s] = "reply"
         \/ /\ cur'[s] = cur[s] /\ lists'[s] = lists[s]
            /\ logic'[s] \in {"route", "find", "send", "call", "reply"}
            /\ logic[s] = "reply" => logic'[s] = "reply"
<1> USE DEF Types, LogicType
<1>1. ASSUME Take(s) \/ Handler(s)
      PROVE  Notify(s) \/ Reply(s)
  BY <1>1 DEF Take, Handler, Info, Login, LoginApplies, LoginFriends, LoginSetUip, LoginBind,
       Apply, Auth, StatementFails, AddFriend, AddBegin, AddFirst, AddSecond, AddFails, AddCommit,
       Goto
<1>2. CASE Reply(s)
  BY <1>2 DEF Reply, Goto
<1>3. CASE Notify(s)
  BY <1>3 DEF Notify, Route, FindLocal, SendLocal, Goto
<1>4. ASSUME NEW t \in Server, t # s, Take(t) \/ Handler(t)
      PROVE  cur'[s] = cur[s] /\ lists'[s] = lists[s] /\ logic'[s] = logic[s]
  BY <1>4, OthersStay
<1>5. CASE \/ \E k \in calls : Rpc(k)
           \/ \E k \in DbConn : Break(k)
           \/ \E w \in User : Leave(w)
           \/ UNCHANGED vars
  BY <1>5, ElsewhereStays
<1> QED BY <1>1, <1>2, <1>3, <1>4, <1>5 DEF Next

(* An answer that is due tells the user what it has to. *)
LEMMA AnswerComes ==
  ASSUME Types, [Next]_vars, NEW u \in User, u \in bound, NEW v \in User,
         \/ loginAt(u, {"reply"}) /\ <<"friend", <<u, v>>>> \in lists[Home[u]]
         \/ answers(u, v)
  PROVE  Coming(u, v)'
<1> USE DEF Types, LogicType, UserType
<1> DEFINE f == <<"friend", <<u, v>>>>
<1>1. PICK s \in Server : s = Home[u]
  BY FriendsAssumption
<1>2. /\ logic[s] \in {"route", "find", "send", "call", "reply"}
      /\ cur[s].by = u
  BY <1>1 DEF loginAt, answers
<1>3. CASE Reply(s)
  <2>1. f \in Answer(s)
    <3>1. CASE loginAt(u, {"reply"}) /\ f \in lists[s]
      BY <1>1, <3>1 DEF loginAt, Answer
    <3>2. CASE answers(u, v)
      BY <1>1, <3>2 DEF answers, Answer
    <3> QED BY <1>1, <3>1, <3>2
  <2>2. view' = [view EXCEPT ![u] = @ \cup Answer(s)]
    BY <1>2, <1>3 DEF Reply, Tell
  <2>3. f \in view'[u]
    BY <2>1, <2>2
  <2> QED BY <2>3 DEF Coming
<1>4. CASE /\ cur'[s] = cur[s] /\ lists'[s] = lists[s]
           /\ logic'[s] \in {"route", "find", "send", "call", "reply"}
           /\ logic[s] = "reply" => logic'[s] = "reply"
  <2>1. CASE loginAt(u, {"reply"}) /\ f \in lists[s]
    <3>1. loginAt(u, {"reply"})' /\ f \in lists'[s]
      BY <1>1, <1>4, <2>1 DEF loginAt
    <3> QED BY <1>1, <3>1 DEF Coming
  <2>2. CASE answers(u, v)
    <3>1. answers(u, v)'
      BY <1>1, <1>4, <2>2 DEF answers
    <3> QED BY <3>1 DEF Coming
  <2> QED BY <1>1, <2>1, <2>2
<1> QED BY <1>2, <1>3, <1>4, TailOfHandler

(* The handler that accepts notifies the other user as long as that user is bound. *)
LEMMA HandlerNotifies ==
  ASSUME Types, NEW u \in User, NEW v \in User, u \in bound, u \in bound', bound \subseteq uip,
         notifies(v, u), NEW s \in Server, s = Home[v], Take(s) \/ Handler(s)
  PROVE  Coming(u, v)'
<1> USE DEF Types, LogicType, UserType
<1>1. /\ cur[s].kind = "accept" /\ cur[s].by = v /\ cur[s].to = u
      /\ logic[s] \in {"route", "find", "send", "call"}
  BY DEF notifies
<1>2. Route(s) \/ FindLocal(s) \/ SendLocal(s)
  BY <1>1 DEF Take, Handler, Info, Login, LoginApplies, LoginFriends, LoginSetUip, LoginBind,
       Apply, Auth, StatementFails, AddFriend, AddBegin, AddFirst, AddSecond, AddFails, AddCommit,
       Notify, Reply, Goto
<1>3. CASE Route(s)
  <2>1. cur' = cur /\ logic' = [logic EXCEPT ![s] = IF Home[u] = s THEN "find" ELSE "call"]
    BY <1>1, <1>3 DEF Route, Goto
  <2>2. CASE Home[u] = s
    <3>1. notifies(v, u)'
      BY <1>1, <2>1, <2>2 DEF notifies
    <3> QED BY <3>1 DEF Coming
  <2>3. CASE Home[u] # s
    <3>1. calls' = calls \cup {[req |-> cur[s], pc |-> "find"]}
      BY <1>1, <1>3, <2>3 DEF Route
    <3>2. \E k \in calls' : k.req = cur'[s] /\ k.pc # "return"
      <4>1. PICK k : k = [req |-> cur[s], pc |-> "find"]
        OBVIOUS
      <4>2. k \in calls' /\ k.req = cur'[s] /\ k.pc # "return"
        BY <2>1, <3>1, <4>1
      <4> QED BY <4>2
    <3>3. logic'[s] = "call"
      BY <2>1, <2>3
    <3>4. notifies(v, u)'
      BY <1>1, <2>1, <3>2, <3>3 DEF notifies
    <3> QED BY <3>4 DEF Coming
  <2> QED BY <2>2, <2>3
<1>4. CASE FindLocal(s)
  <2>1. cur' = cur /\ logic'[s] = "send"
    BY <1>1, <1>4 DEF FindLocal, Goto
  <2>2. notifies(v, u)'
    BY <1>1, <2>1 DEF notifies
  <2> QED BY <2>2 DEF Coming
<1>5. CASE SendLocal(s)
  <2>1. view' = [view EXCEPT ![u] = @ \cup {<<"friend", <<u, v>>>>}]
    BY <1>1, <1>5 DEF SendLocal, Tell, Note
  <2>2. <<"friend", <<u, v>>>> \in view'[u]
    BY <2>1
  <2> QED BY <2>2 DEF Coming
<1> QED BY <1>2, <1>3, <1>4, <1>5

(* So does the server it has called. *)
LEMMA CallNotifies ==
  ASSUME Types, NEW u \in User, NEW v \in User, u \in bound, u \in bound',
         notifies(v, u), NEW s \in Server, s = Home[v], [Next]_vars, ~Take(s), ~Handler(s)
  PROVE  Coming(u, v)'
<1> USE DEF Types, LogicType, UserType
<1>1. /\ cur[s].kind = "accept" /\ cur[s].by = v /\ cur[s].to = u
      /\ logic[s] \in {"route", "find", "send", "call"}
  BY DEF notifies
<1>2. ASSUME cur'[s] = cur[s], logic'[s] = logic[s],
             logic[s] = "call" =>
               \A k \in calls : k.req = cur[s] /\ k.pc # "return" =>
                 \E j \in calls' : j.req = cur[s] /\ j.pc # "return"
      PROVE  Coming(u, v)'
  <2>1. notifies(v, u)'
    BY <1>1, <1>2 DEF notifies
  <2> QED BY <2>1 DEF Coming
<1>3. ASSUME NEW t \in Server, Take(t) \/ Handler(t)
      PROVE  Coming(u, v)'
  <2>1. t # s
    BY <1>3
  <2>2. cur'[s] = cur[s] /\ logic'[s] = logic[s]
    BY <1>3, <2>1, OthersStay
  <2>3. calls \subseteq calls'
    BY <1>3 DEF Take, Handler, Info, Login, LoginApplies, LoginFriends, LoginSetUip, LoginBind,
       Apply, Auth, StatementFails, AddFriend, AddBegin, AddFirst, AddSecond, AddFails, AddCommit,
       Notify, Route, FindLocal, SendLocal, Reply, threadVars
  <2> QED BY <1>2, <2>2, <2>3
<1>4. ASSUME NEW k \in calls, RpcFind(k)
      PROVE  Coming(u, v)'
  <2>1. cur' = cur /\ logic' = logic
    BY <1>4 DEF RpcFind
  <2>2. PICK n : /\ n = [k EXCEPT !.pc = IF k.req.to \in bound THEN "send" ELSE "return"]
                 /\ calls' = (calls \ {k}) \cup {n}
    BY <1>4 DEF RpcFind
  <2>3. k \in Call
    BY DEF CallTrail
  <2>4. n.req = k.req /\ (k.req.to = u => n.pc = "send")
    BY <2>2, <2>3 DEF Call
  <2> QED BY <1>1, <1>2, <2>1, <2>2, <2>4
<1>5. ASSUME NEW k \in calls, RpcSend(k)
      PROVE  Coming(u, v)'
  <2>1. cur' = cur /\ logic' = logic
    BY <1>5 DEF RpcSend
  <2>2. CASE k.req = cur[s]
    <3>1. view' = [view EXCEPT ![u] = @ \cup {<<"friend", <<u, v>>>>}]
      BY <1>1, <1>5, <2>2 DEF RpcSend, Tell, Note
    <3>2. <<"friend", <<u, v>>>> \in view'[u]
      BY <3>1
    <3> QED BY <3>2 DEF Coming
  <2>3. CASE k.req # cur[s]
    <3>1. \A j \in calls : j # k => j \in calls'
      BY <1>5 DEF RpcSend
    <3> QED BY <1>2, <2>1, <2>3, <3>1
  <2> QED BY <2>2, <2>3
<1>6. ASSUME NEW k \in calls, RpcReturn(k)
      PROVE  Coming(u, v)'
  <2>1. /\ k.pc = "return" /\ cur' = cur /\ calls' = calls \ {k}
        /\ logic' = [logic EXCEPT ![Home[k.req.by]] = "reply"]
    BY <1>6 DEF RpcReturn
  <2>2. Home[k.req.by] # s
    <3>1. CASE logic[s] # "call"
      BY <3>1 DEF CallTrail
    <3>2. CASE logic[s] = "call"
      <4>1. PICK j \in calls : j.req = cur[s] /\ j.pc # "return"
        BY <3>2 DEF notifies
      <4>2. Home[j.req.by] = s /\ j # k
        BY <1>1, <2>1, <4>1
      <4> QED BY <4>2 DEF CallTrail
    <3> QED BY <3>1, <3>2
  <2>3. logic'[s] = logic[s]
    BY <2>1, <2>2
  <2> QED BY <1>2, <2>1, <2>3
<1>7. ASSUME NEW w \in User, Leave(w)
      PROVE  Coming(u, v)'
  <2>1. w # u /\ cur' = cur /\ logic' = logic
    BY <1>7 DEF Leave
  <2>2. ASSUME NEW k \in calls, k.req = cur[s]
        PROVE  k \in calls'
    BY <1>1, <1>7, <2>1, <2>2 DEF Leave
  <2> QED BY <1>2, <2>1, <2>2
<1>8. CASE (\E k \in DbConn : Break(k)) \/ UNCHANGED vars
  <2>1. cur' = cur /\ logic' = logic /\ calls' = calls
    BY <1>8 DEF Break, vars, threadVars
  <2> QED BY <1>2, <2>1
<1> QED BY <1>3, <1>4, <1>5, <1>6, <1>7, <1>8 DEF Next, Rpc

(* A friend of a user who is logged in is known or on its way, after every step. *)
LEMMA ComingStep ==
  ASSUME Types, Open, KindAt, KnownInv, [Next]_vars,
         NEW u \in User, NEW v \in User, u \in bound', u \notin excused',
         <<"friend", <<u, v>>>> \in db'
  PROVE  Coming(u, v)'
<1>1. CASE LoginBind(Home[u]) /\ cur[Home[u]].by = u
  BY <1>1, ComingBind
<1>2. CASE <<"friend", <<u, v>>>> \notin db
  BY <1>2, ComingNew
<1>3. CASE u \in bound /\ <<"friend", <<u, v>>>> \in db
  <2>1. u \notin excused
    BY BoundStep DEF Leave
  <2>2. Coming(u, v)
    BY <1>3, <2>1 DEF KnownInv
  <2>3. CASE <<"friend", <<u, v>>>> \in view[u]
    BY <2>3, ViewStays DEF Coming
  <2>4. CASE \/ loginAt(u, {"reply"}) /\ <<"friend", <<u, v>>>> \in lists[Home[u]]
             \/ answers(u, v)
    BY <1>3, <2>4, AnswerComes
  <2>5. CASE notifies(v, u)
    <3>1. PICK s \in Server : s = Home[v]
      BY FriendsAssumption
    <3>2. bound \subseteq uip
      BY DEF KnownInv
    <3>3. CASE Take(s) \/ Handler(s)
      BY <1>3, <2>5, <3>1, <3>2, <3>3, HandlerNotifies
    <3>4. CASE ~Take(s) /\ ~Handler(s)
      BY <1>3, <2>5, <3>1, <3>4, CallNotifies
    <3> QED BY <3>3, <3>4
  <2> QED BY <2>2, <2>3, <2>4, <2>5 DEF Coming
<1> QED BY <1>1, <1>2, <1>3, BoundStep

LEMMA KnownInit == Init => KnownInv
BY FriendsAssumption DEF Init, KnownInv, loginAt

LEMMA KnownStep ==
  Types /\ Open /\ KindAt /\ KnownInv /\ [Next]_vars => KnownInv'
<1> SUFFICES ASSUME Types, Open, KindAt, KnownInv, [Next]_vars
             PROVE  KnownInv'
  OBVIOUS
<1>1. /\ (bound \subseteq uip)'
      /\ \A u \in User : loginAt(u, {"bind"})' => u \in uip'
      /\ \A u \in bound' : ~loginAt(u, {"info", "applies", "friends", "uip", "bind"})'
  BY BoundAfterLogin
<1>2. ASSUME NEW u \in User \ excused', NEW v \in User, <<"friend", <<u, v>>>> \in db'
      PROVE  /\ u \in bound' => Coming(u, v)'
             /\ loginAt(u, {"uip", "bind"})' => <<"friend", <<u, v>>>> \in lists'[Home[u]]
  BY <1>2, ComingStep, ListStays
<1> QED BY <1>1, <1>2 DEF KnownInv

LEMMA KnownAtTheEnd == Types /\ KnownInv => KnownFriends
<1> SUFFICES ASSUME Types, KnownInv, settled,
                    NEW u \in bound \ excused, NEW v \in User, <<"friend", <<u, v>>>> \in db
             PROVE  <<"friend", <<u, v>>>> \in view[u]
  BY DEF KnownFriends
<1>1. u \in User \ excused
  BY DEF Types, UserType
<1>2. logic[Home[u]] = "idle" /\ logic[Home[v]] = "idle"
  BY <1>1, FriendsAssumption DEF settled
<1>3. Coming(u, v)
  BY <1>1 DEF KnownInv
<1> QED BY <1>2, <1>3 DEF Coming, loginAt, answers, notifies

(* When all handlers have ended, every user who is logged in knows all friends, but
   for those whose list was read in an old transaction or overtaken by a commit:
   the friendship was committed before the login read the list, or the login had
   set uip_<uid> and bound its session before the other server looked there
   (LogicSystem.cpp:83-232 and 359-464, ChatServiceImpl.cpp:14-118). *)
THEOREM FriendsAreKnown == Spec => []KnownFriends
<1>1. ToldInv => KindAt
  BY DEF ToldInv
<1> QED BY <1>1, KnownAtTheEnd, KnownInit, KnownStep, ToldInit, ToldInvStep, OpenInit, OpenStep,
           TypeInit, TypeStep, PTL DEF Spec
=============================================================================
