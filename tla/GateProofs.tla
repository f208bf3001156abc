----------------------------- MODULE GateProofs -----------------------------
(***************************************************************************)
(* Proofs about the GateServer, for any connections, users, addresses,     *)
(* requests, io threads and pool size.  OwnerSetsPwd is about the step     *)
(* that writes a row, long after the two checks it relies on: IInv adds    *)
(* what each of them has left behind until then.                           *)
(***************************************************************************)
EXTENDS Gate, FiniteSetTheorems, TLAPS

DaoPlaces == {"register", "email", "update", "login"}
Alive(h) == hpc[h] \notin {"reading", "ended"}

(* What TypeOK leaves out: the shape of a request, the MySQL connections counted. *)
Shapes ==
  /\ req = [h \in Conn |-> req[h]]
  /\ \A h \in Conn : Alive(h) => DOMAIN req[h] = {"kind", "user", "email", "secret"}
  /\ mailed \in [Email -> Nat]
  /\ code = [e \in Email |-> code[e]]
  /\ has \subseteq Conn /\ IsFiniteSet(has) /\ wait \subseteq Conn
  /\ idle \in Nat /\ leaked \in Nat

(* Past CheckCode the request has given a code that its address was mailed: codes expire
   and are replaced, but what was mailed stays mailed. *)
CodeGiven ==
  \A h \in Conn : hpc[h] \in {"register", "email", "update"} =>
    req[h].secret \in 1..mailed[req[h].email]

(* Past CheckEmail the account has the address of the request, unless there was none:
   a row keeps its address. *)
AccountMet ==
  \A h \in Conn : hpc[h] = "update" =>
    \/ h \in missing
    \/ row[req[h].user] # None /\ row[req[h].user].email = req[h].email

IInv == TypeOK /\ Shapes /\ OwnerSetsPwd /\ CodeGiven /\ AccountMet
-------------------------------------------------------------------------------
LEMMA InitInductive == Init => IInv
<1> SUFFICES ASSUME Init
             PROVE  IInv
  OBVIOUS
<1>1. Cardinality({}) = 0 /\ IsFiniteSet({})
  BY FS_EmptySet
<1>2. row \in [User -> Row \cup {None}] /\ row \in Tables
  BY GateAssumption DEF Init
<1>3. mailed \in [Email -> 0..MaxCodes]
  BY GateAssumption DEF Init
<1>4. \A e \in Email : code[e] # None => code[e] \in 1..mailed[e]
  BY <1>3, GateAssumption DEF Init
<1>5. TypeOK
  BY <1>1, <1>2, <1>4, GateAssumption DEF Init, TypeOK, HandlerPlaces
<1>6. Shapes
  BY <1>1, <1>3, GateAssumption DEF Init, Shapes, Alive
<1>7. OwnerSetsPwd
  BY <1>2, GateAssumption DEF OwnerSetsPwd
<1>8. CodeGiven /\ AccountMet
  BY DEF Init, CodeGiven, AccountMet
<1>9. QED
  BY <1>5, <1>6, <1>7, <1>8 DEF IInv

(* Connections in the pool, with a handler and lost: together they stay PoolSize. *)
Counted ==
  /\ has \subseteq Conn /\ IsFiniteSet(has)
  /\ idle \in Nat /\ leaked \in Nat
  /\ idle + Cardinality(has) + leaked = PoolSize

LEMMA Dropped ==
  ASSUME Counted, NEW h \in has
  PROVE  /\ Cardinality(has \ {h}) = Cardinality(has) - 1
         /\ IsFiniteSet(has \ {h}) /\ has \ {h} \subseteq Conn
         /\ Cardinality(has) \in Nat \ {0}
<1>1. IsFiniteSet(has) /\ has # {} /\ has \subseteq Conn
  BY DEF Counted
<1>2. Cardinality(has \ {h}) = Cardinality(has) - 1 /\ IsFiniteSet(has \ {h})
  BY <1>1, FS_RemoveElement
<1>3. Cardinality(has) \in Nat /\ Cardinality(has) # 0
  BY <1>1, FS_CardinalityType, FS_EmptySet
<1>4. QED
  BY <1>1, <1>2, <1>3

LEMMA Returned ==
  ASSUME Counted, NEW h \in Conn, ReturnConnection(h)
  PROVE  Counted' /\ has' = has \ {h}
<1>1. h \in has /\ has' = has \ {h} /\ idle' = idle + 1 /\ leaked' = leaked
  BY DEF ReturnConnection
<1>2. /\ Cardinality(has \ {h}) = Cardinality(has) - 1
      /\ IsFiniteSet(has \ {h}) /\ has \ {h} \subseteq Conn
      /\ Cardinality(has) \in Nat \ {0}
  BY <1>1, Dropped
<1>3. PoolSize \in Nat
  BY GateAssumption
<1>4. idle' \in Nat /\ leaked' \in Nat
  BY <1>1 DEF Counted
<1>5. has' \subseteq Conn /\ IsFiniteSet(has') /\ Cardinality(has') = Cardinality(has) - 1
  BY <1>1, <1>2
<1>6. idle' + Cardinality(has') + leaked' = PoolSize
  BY <1>1, <1>2, <1>3, <1>5 DEF Counted
<1>7. QED
  BY <1>1, <1>4, <1>5, <1>6 DEF Counted

(* What the places of connections and what TypeOK says of them amount to, when one
   connection moves to a place where it holds no MySQL connection. *)
LEMMA Moved ==
  ASSUME TypeOK, NEW h \in Conn, NEW from, NEW to, Move(h, from, to),
         to \in HandlerPlaces \cup {"reading", "writing", "silent", "ended"}
  PROVE  /\ hpc' \in [Conn -> HandlerPlaces \cup {"reading", "writing", "silent", "ended"}]
         /\ hpc[h] = from /\ hpc'[h] = to
         /\ \A g \in Conn \ {h} : hpc'[g] = hpc[g]
BY DEF TypeOK, Move

(* A connection ends: whatever had been found out for its request is forgotten with it. *)
LEMMA EndInductive ==
  ASSUME IInv, NEW h \in Conn, NEW from \in {"reading", "writing", "silent"}, End(h, from),
         UNCHANGED <<poolVars, code, mailed, row>>
  PROVE  IInv'
<1>1. Move(h, from, "ended")
  BY DEF End
<1>2. /\ hpc' \in [Conn -> HandlerPlaces \cup {"reading", "writing", "silent", "ended"}]
      /\ hpc[h] = from /\ hpc'[h] = "ended"
      /\ \A g \in Conn \ {h} : hpc'[g] = hpc[g]
  BY <1>1, Moved DEF IInv
<1>3. /\ has' = has /\ idle' = idle /\ leaked' = leaked
      /\ code' = code /\ mailed' = mailed /\ row' = row
      /\ wait' = wait \ {h} /\ missing' = missing \ {h}
      /\ req' = [req EXCEPT ![h] = None]
  BY DEF End, poolVars
<1>4. req' = [g \in Conn |-> req'[g]] /\ \A g \in Conn \ {h} : req'[g] = req[g]
  BY <1>3 DEF IInv, Shapes
<1>5. TypeOK'
  <2>1. h \notin has
    BY <1>2 DEF IInv, TypeOK
  <2>2. \A g \in Conn : hpc'[g] \notin {"reading", "ended"} =>
          req'[g].user \in User /\ req'[g].email \in Email
    BY <1>2, <1>4 DEF IInv, TypeOK
  <2>3. \A g \in has' : hpc'[g] \in DaoPlaces
    BY <1>2, <1>3, <2>1 DEF IInv, TypeOK, Shapes, DaoPlaces
  <2>4. \A g \in wait' : hpc'[g] \in {"writing", "silent"}
    BY <1>2, <1>3 DEF IInv, TypeOK, Shapes
  <2>5. QED
    BY <1>2, <1>3, <2>2, <2>3, <2>4 DEF IInv, TypeOK, DaoPlaces
<1>6. Shapes'
  BY <1>2, <1>3, <1>4 DEF IInv, Shapes, Alive
<1>7. OwnerSetsPwd'
  BY <1>3 DEF IInv, OwnerSetsPwd, Owned
<1>8. CodeGiven'
  BY <1>2, <1>3, <1>4 DEF IInv, CodeGiven
<1>9. AccountMet'
  BY <1>2, <1>3, <1>4 DEF IInv, AccountMet
<1>10. QED
  BY <1>5, <1>6, <1>7, <1>8, <1>9 DEF IInv

LEMMA ReadDoneInductive ==
  ASSUME IInv, NEW h \in Conn, ReadDone(h)
  PROVE  IInv'
<1>1. PICK r \in Requests : \E x \in Secrets(r) :
        /\ req' = [req EXCEPT ![h] = [kind |-> r.kind, user |-> r.user, email |-> r.email, secret |-> x]]
        /\ Move(h, "reading", CASE r.kind = "page" -> "answer"
                                [] r.kind = "method" -> "silent"
                                [] r.kind \in {"register", "reset"} -> "check"
                                [] OTHER -> r.kind)
        /\ wait' = IF r.kind = "method" THEN wait \cup {h} ELSE wait
  BY DEF ReadDone
<1>2. PICK x \in Secrets(r) :
        req' = [req EXCEPT ![h] = [kind |-> r.kind, user |-> r.user, email |-> r.email, secret |-> x]]
  BY <1>1
<1> DEFINE to == CASE r.kind = "page" -> "answer"
                   [] r.kind = "method" -> "silent"
                   [] r.kind \in {"register", "reset"} -> "check"
                   [] OTHER -> r.kind
<1>3. Move(h, "reading", to) /\ wait' = IF r.kind = "method" THEN wait \cup {h} ELSE wait
  BY <1>1
<1>4. r \in Request
  BY GateAssumption
<1>5. r.kind \in {"code", "register", "reset", "login", "page", "method"}
      /\ r.user \in User /\ r.email \in Email
  BY <1>4 DEF Request
<1>6. to \in {"answer", "silent", "check", "code", "login"} /\ (r.kind = "method" => to = "silent")
  BY <1>5
<1> HIDE DEF to
<1>7. /\ hpc' \in [Conn -> HandlerPlaces \cup {"reading", "writing", "silent", "ended"}]
      /\ hpc[h] = "reading" /\ hpc'[h] = to
      /\ \A g \in Conn \ {h} : hpc'[g] = hpc[g]
  BY <1>3, <1>6, Moved DEF IInv, HandlerPlaces
<1>8. /\ has' = has /\ idle' = idle /\ leaked' = leaked
      /\ code' = code /\ mailed' = mailed /\ row' = row /\ missing' = missing
  BY DEF ReadDone, poolVars, dataVars
<1>9. /\ req' = [g \in Conn |-> req'[g]]
      /\ \A g \in Conn \ {h} : req'[g] = req[g]
      /\ req'[h] = [kind |-> r.kind, user |-> r.user, email |-> r.email, secret |-> x]
  BY <1>2 DEF IInv, Shapes
<1>10. TypeOK'
  <2>1. h \notin has
    BY <1>7 DEF IInv, TypeOK
  <2>2. \A g \in Conn : hpc'[g] \notin {"reading", "ended"} =>
          req'[g].user \in User /\ req'[g].email \in Email
    BY <1>5, <1>7, <1>9 DEF IInv, TypeOK
  <2>3. \A g \in has' : hpc'[g] \in DaoPlaces
    BY <1>7, <1>8, <2>1 DEF IInv, TypeOK, Shapes, DaoPlaces
  <2>4. \A g \in wait' : hpc'[g] \in {"writing", "silent"}
    BY <1>3, <1>6, <1>7 DEF IInv, TypeOK, Shapes
  <2>5. QED
    BY <1>7, <1>8, <2>2, <2>3, <2>4 DEF IInv, TypeOK, DaoPlaces
<1>11. DOMAIN req'[h] = {"kind", "user", "email", "secret"}
  BY <1>9
<1>12. Shapes'
  BY <1>3, <1>7, <1>8, <1>9, <1>11 DEF IInv, Shapes, Alive
<1>13. OwnerSetsPwd'
  BY <1>8 DEF IInv, OwnerSetsPwd, Owned
<1>14. CodeGiven'
  BY <1>6, <1>7, <1>8, <1>9 DEF IInv, CodeGiven
<1>15. AccountMet'
  BY <1>6, <1>7, <1>8, <1>9 DEF IInv, AccountMet
<1>16. QED
  BY <1>10, <1>12, <1>13, <1>14, <1>15 DEF IInv

(* The codes: mailed to an address, checked, expired.  No connection changes hands. *)
LEMMA GetVarifyCodeInductive ==
  ASSUME IInv, NEW h \in Conn, GetVarifyCode(h)
  PROVE  IInv'
<1> DEFINE e == req[h].email
<1>1. Move(h, "code", "answer")
  BY DEF GetVarifyCode
<1>2. /\ hpc' \in [Conn -> HandlerPlaces \cup {"reading", "writing", "silent", "ended"}]
      /\ hpc[h] = "code" /\ hpc'[h] = "answer"
      /\ \A g \in Conn \ {h} : hpc'[g] = hpc[g]
  BY <1>1, Moved DEF IInv, HandlerPlaces
<1>3. e \in Email
  BY <1>2 DEF IInv, TypeOK
<1>4. /\ has' = has /\ idle' = idle /\ leaked' = leaked /\ wait' = wait
      /\ req' = req /\ row' = row /\ missing' = missing
  BY DEF GetVarifyCode, poolVars
<1>5. mailed[e] \in Nat
  BY <1>3 DEF IInv, Shapes
<1>6. /\ mailed' \in [Email -> Nat]
      /\ code' = [a \in Email |-> code'[a]]
      /\ \A a \in Email : mailed[a] <= mailed'[a]
      /\ \A a \in Email : code'[a] # None => code'[a] \in 1..mailed'[a]
  <2>1. CASE UNCHANGED <<mailed, code>>
    BY <2>1 DEF IInv, Shapes, TypeOK
  <2>2. CASE /\ mailed' = [mailed EXCEPT ![e] = @ + 1]
             /\ code' = [code EXCEPT ![e] = mailed[e] + 1]
    <3>1. /\ mailed'[e] = mailed[e] + 1 /\ code'[e] = mailed[e] + 1
          /\ \A a \in Email \ {e} : mailed'[a] = mailed[a] /\ code'[a] = code[a]
      BY <1>3, <2>2 DEF IInv, Shapes
    <3>2. code' = [a \in Email |-> code'[a]]
      BY <2>2 DEF IInv, Shapes
    <3>3. mailed' \in [Email -> Nat]
      <4>1. mailed \in [Email -> Nat] /\ mailed[e] + 1 \in Nat
        BY <1>5 DEF IInv, Shapes
      <4>2. QED
        BY <4>1, <2>2
    <3>4. \A a \in Email : mailed[a] \in Nat
      BY DEF IInv, Shapes
    <3>5. \A a \in Email : code[a] # None => code[a] \in 1..mailed[a]
      BY DEF IInv, TypeOK
    <3>6. QED
      BY <3>1, <3>2, <3>3, <3>4, <3>5
  <2>3. QED
    BY <2>1, <2>2 DEF GetVarifyCode
<1>7. TypeOK'
  <2>1. \A g \in has' : hpc'[g] \in DaoPlaces
    BY <1>2, <1>4 DEF IInv, TypeOK, Shapes, DaoPlaces
  <2>2. \A g \in wait' : hpc'[g] \in {"writing", "silent"}
    BY <1>2, <1>4 DEF IInv, TypeOK, Shapes
  <2>3. QED
    BY <1>2, <1>4, <1>6, <2>1, <2>2 DEF IInv, TypeOK, DaoPlaces
<1>8. Shapes'
  BY <1>2, <1>4, <1>6 DEF IInv, Shapes, Alive
<1>9. OwnerSetsPwd'
  BY <1>4 DEF IInv, OwnerSetsPwd, Owned
<1>10. CodeGiven'
  <2>1. SUFFICES ASSUME NEW g \in Conn, hpc'[g] \in {"register", "email", "update"}
                 PROVE  req'[g].secret \in 1..mailed'[req'[g].email]
    BY DEF CodeGiven
  <2>2. g # h /\ hpc[g] \in {"register", "email", "update"} /\ req[g].email \in Email
    BY <1>2, <2>1 DEF IInv, TypeOK
  <2>3. req[g].secret \in 1..mailed[req[g].email]
    BY <2>2 DEF IInv, CodeGiven
  <2>4. /\ mailed[req[g].email] \in Nat /\ mailed'[req[g].email] \in Nat
        /\ mailed[req[g].email] <= mailed'[req[g].email]
    BY <1>6, <2>2 DEF IInv, Shapes
  <2>5. QED
    BY <1>4, <2>3, <2>4
<1>11. AccountMet'
  BY <1>2, <1>4 DEF IInv, AccountMet
<1>12. QED
  BY <1>7, <1>8, <1>9, <1>10, <1>11 DEF IInv

LEMMA ExpireCodeInductive ==
  ASSUME IInv, NEW e \in Email, ExpireCode(e)
  PROVE  IInv'
<1>1. /\ hpc' = hpc /\ req' = req /\ wait' = wait /\ mailed' = mailed /\ row' = row
      /\ has' = has /\ idle' = idle /\ leaked' = leaked /\ missing' = missing
      /\ code' = [code EXCEPT ![e] = None]
  BY DEF ExpireCode, httpVars, poolVars
<1>2. code' = [a \in Email |-> code'[a]] /\ \A a \in Email : code'[a] # None => code'[a] = code[a]
  BY <1>1 DEF IInv, Shapes
<1>3. TypeOK'
  BY <1>1, <1>2 DEF IInv, TypeOK
<1>4. Shapes'
  BY <1>1, <1>2 DEF IInv, Shapes, Alive
<1>5. OwnerSetsPwd' /\ CodeGiven' /\ AccountMet'
  BY <1>1 DEF IInv, OwnerSetsPwd, Owned, CodeGiven, AccountMet
<1>6. QED
  BY <1>3, <1>4, <1>5 DEF IInv

(* Only the code last mailed is let through. *)
LEMMA CheckCodeInductive ==
  ASSUME IInv, NEW h \in Conn, CheckCode(h)
  PROVE  IInv'
<1> DEFINE c == code[req[h].email]
           to == IF c = None \/ c # req[h].secret THEN "answer"
                 ELSE IF req[h].kind = "reset" THEN "email" ELSE "register"
<1>1. Move(h, "check", to)
  BY DEF CheckCode
<1>2. to \in {"answer", "email", "register"} /\ (to # "answer" => c # None /\ c = req[h].secret)
  OBVIOUS
<1> HIDE DEF to
<1>3. /\ hpc' \in [Conn -> HandlerPlaces \cup {"reading", "writing", "silent", "ended"}]
      /\ hpc[h] = "check" /\ hpc'[h] = to
      /\ \A g \in Conn \ {h} : hpc'[g] = hpc[g]
  BY <1>1, <1>2, Moved DEF IInv, HandlerPlaces
<1>4. /\ has' = has /\ idle' = idle /\ leaked' = leaked /\ wait' = wait
      /\ req' = req /\ row' = row /\ missing' = missing /\ code' = code /\ mailed' = mailed
  BY DEF CheckCode, poolVars, dataVars
<1>5. TypeOK'
  <2>1. \A g \in has' : hpc'[g] \in DaoPlaces
    BY <1>3, <1>4 DEF IInv, TypeOK, Shapes, DaoPlaces
  <2>2. \A g \in wait' : hpc'[g] \in {"writing", "silent"}
    BY <1>3, <1>4 DEF IInv, TypeOK, Shapes
  <2>3. QED
    BY <1>3, <1>4, <2>1, <2>2 DEF IInv, TypeOK, DaoPlaces
<1>6. Shapes'
  BY <1>3, <1>4 DEF IInv, Shapes, Alive
<1>7. OwnerSetsPwd'
  BY <1>4 DEF IInv, OwnerSetsPwd, Owned
<1>8. CodeGiven'
  <2>1. req[h].email \in Email
    BY <1>3 DEF IInv, TypeOK
  <2>2. hpc'[h] # "answer" => req[h].secret \in 1..mailed[req[h].email]
    BY <1>2, <1>3, <2>1 DEF IInv, TypeOK
  <2>3. QED
    BY <1>3, <1>4, <2>2 DEF IInv, CodeGiven
<1>9. AccountMet'
  BY <1>2, <1>3, <1>4 DEF IInv, AccountMet
<1>10. QED
  BY <1>5, <1>6, <1>7, <1>8, <1>9 DEF IInv

(* A DAO method takes a connection. *)
LEMMA GetConnectionInductive ==
  ASSUME IInv, NEW h \in Conn, GetConnection(h)
  PROVE  IInv'
<1>1. /\ hpc' = hpc /\ req' = req /\ wait' = wait /\ leaked' = leaked
      /\ code' = code /\ mailed' = mailed /\ row' = row /\ missing' = missing
      /\ has' = has \cup {h} /\ idle' = idle - 1
      /\ hpc[h] \in DaoPlaces /\ h \notin has /\ idle > 0
  BY DEF GetConnection, httpVars, dataVars, DaoPlaces
<1>2. /\ idle \in Nat /\ leaked \in Nat /\ IsFiniteSet(has) /\ has \subseteq Conn
      /\ idle + Cardinality(has) + leaked = PoolSize
  BY DEF IInv, Shapes, TypeOK
<1>3. /\ Cardinality(has') = Cardinality(has) + 1 /\ IsFiniteSet(has')
      /\ Cardinality(has) \in Nat
  BY <1>1, <1>2, FS_AddElement, FS_CardinalityType
<1>4. idle' \in Nat /\ idle' + Cardinality(has') + leaked' = PoolSize
  BY <1>1, <1>2, <1>3
<1>5. TypeOK'
  BY <1>1, <1>4 DEF IInv, TypeOK, DaoPlaces
<1>6. Shapes'
  BY <1>1, <1>2, <1>3, <1>4 DEF IInv, Shapes, Alive
<1>7. OwnerSetsPwd' /\ CodeGiven' /\ AccountMet'
  BY <1>1 DEF IInv, OwnerSetsPwd, Owned, CodeGiven, AccountMet
<1>8. QED
  BY <1>5, <1>6, <1>7 DEF IInv

(* A DAO method that gives its connection back: where the connections and the MySQL
   connections are then, and the parts of IInv that no row is needed for. *)
LEMMA DaoEnds ==
  ASSUME IInv, NEW h \in Conn, NEW from \in DaoPlaces, NEW to \in {"answer", "update", "status"},
         Move(h, from, to), ReturnConnection(h), wait' = wait
  PROVE  /\ hpc' \in [Conn -> HandlerPlaces \cup {"reading", "writing", "silent", "ended"}]
         /\ hpc[h] = from /\ hpc'[h] = to
         /\ \A g \in Conn \ {h} : hpc'[g] = hpc[g]
         /\ Counted'
         /\ \A g \in has' : hpc'[g] \in DaoPlaces
         /\ wait' \subseteq Conn /\ \A g \in wait' : hpc'[g] \in {"writing", "silent"}
         /\ req[h].user \in User /\ req[h].email \in Email
<1>1. /\ hpc' \in [Conn -> HandlerPlaces \cup {"reading", "writing", "silent", "ended"}]
      /\ hpc[h] = from /\ hpc'[h] = to
      /\ \A g \in Conn \ {h} : hpc'[g] = hpc[g]
  BY Moved DEF IInv, HandlerPlaces
<1>2. Counted
  BY DEF Counted, IInv, Shapes, TypeOK
<1>3. Counted' /\ has' = has \ {h}
  BY <1>2, Returned
<1>4. \A g \in has' : g \in Conn \ {h} /\ hpc[g] \in DaoPlaces
  BY <1>3 DEF IInv, TypeOK, Shapes, DaoPlaces
<1>5. \A g \in has' : hpc'[g] \in DaoPlaces
  BY <1>1, <1>4
<1>6. wait' \subseteq Conn /\ \A g \in wait' : hpc'[g] \in {"writing", "silent"}
  BY <1>1 DEF IInv, TypeOK, Shapes, DaoPlaces
<1>7. req[h].user \in User /\ req[h].email \in Email
  BY <1>1 DEF IInv, TypeOK, DaoPlaces
<1>8. QED
  BY <1>1, <1>3, <1>5, <1>6, <1>7

LEMMA StatementFailsInductive ==
  ASSUME IInv, NEW h \in Conn, StatementFails(h)
  PROVE  IInv'
<1>1. /\ req' = req /\ wait' = wait
      /\ code' = code /\ mailed' = mailed /\ row' = row /\ missing' = missing
      /\ hpc[h] \in DaoPlaces /\ Move(h, hpc[h], "answer") /\ ReturnConnection(h)
  BY DEF StatementFails, dataVars, DaoPlaces
<1>2. /\ hpc' \in [Conn -> HandlerPlaces \cup {"reading", "writing", "silent", "ended"}]
      /\ hpc'[h] = "answer" /\ \A g \in Conn \ {h} : hpc'[g] = hpc[g]
      /\ Counted' /\ \A g \in has' : hpc'[g] \in DaoPlaces
      /\ wait' \subseteq Conn /\ \A g \in wait' : hpc'[g] \in {"writing", "silent"}
      /\ req[h].user \in User /\ req[h].email \in Email
  BY <1>1, DaoEnds
<1>3. TypeOK'
  BY <1>1, <1>2 DEF IInv, TypeOK, Counted, DaoPlaces
<1>4. Shapes'
  BY <1>1, <1>2 DEF IInv, Shapes, Counted, Alive, DaoPlaces
<1>5. OwnerSetsPwd'
  BY <1>1 DEF IInv, OwnerSetsPwd, Owned
<1>6. CodeGiven' /\ AccountMet'
  BY <1>1, <1>2 DEF IInv, CodeGiven, AccountMet
<1>7. QED
  BY <1>3, <1>4, <1>5, <1>6 DEF IInv

(* The password a request sets is the owner's. *)
LEMMA OwnersPassword ==
  ASSUME IInv, NEW h \in Conn, hpc[h] \in {"register", "update"}
  PROVE  /\ password(h) \in Password /\ password(h).proven
         /\ password(h).email = req[h].email
         /\ password(h).missing = (h \in missing)
<1>1. req[h].email \in Email /\ req[h].secret \in 1..mailed[req[h].email]
  BY DEF IInv, TypeOK, CodeGiven
<1>2. password(h) = [email |-> req[h].email, proven |-> TRUE, missing |-> h \in missing]
  BY <1>1 DEF password
<1>3. (h \in missing) \in BOOLEAN
  OBVIOUS
<1>4. QED
  BY <1>1, <1>2, <1>3 DEF Password

LEMMA RegUserInductive ==
  ASSUME IInv, NEW h \in Conn, RegUser(h)
  PROVE  IInv'
<1> DEFINE u == req[h].user
           e == req[h].email
           new == [email |-> e, pwd |-> password(h)]
<1>1. /\ req' = req /\ wait' = wait /\ code' = code /\ mailed' = mailed /\ missing' = missing
      /\ Move(h, "register", "answer") /\ ReturnConnection(h)
  BY DEF RegUser
<1>2. /\ hpc' \in [Conn -> HandlerPlaces \cup {"reading", "writing", "silent", "ended"}]
      /\ hpc[h] = "register" /\ hpc'[h] = "answer"
      /\ \A g \in Conn \ {h} : hpc'[g] = hpc[g]
      /\ Counted' /\ \A g \in has' : hpc'[g] \in DaoPlaces
      /\ wait' \subseteq Conn /\ \A g \in wait' : hpc'[g] \in {"writing", "silent"}
      /\ u \in User /\ e \in Email
  BY <1>1, DaoEnds DEF DaoPlaces
<1>3. /\ password(h) \in Password /\ password(h).proven /\ password(h).email = e
  BY <1>2, OwnersPassword
<1>4. new \in Row /\ Owned(new) /\ new.email = e
  BY <1>2, <1>3 DEF Row, Owned
<1>5. row' = row \/ (row[u] = None /\ row' = [row EXCEPT ![u] = new])
  <2>1. row' = IF row[u] = None /\ \A v \in User : row[v] # None => row[v].email # e
               THEN [row EXCEPT ![u] = new] ELSE row
    BY ONLY RegUser(h) DEF RegUser
  <2>2. QED
    BY <2>1
<1> HIDE DEF new
<1>6. /\ row' \in [User -> Row \cup {None}]
      /\ \A v \in User : row[v] # None => row'[v] = row[v]
      /\ \A v \in User : row'[v] = row[v] \/ row'[v] = new
  BY <1>2, <1>4, <1>5 DEF IInv, TypeOK
<1>7. TypeOK'
  BY <1>1, <1>2, <1>6 DEF IInv, TypeOK, Counted, DaoPlaces
<1>8. Shapes'
  BY <1>1, <1>2 DEF IInv, Shapes, Counted, Alive, DaoPlaces
<1>9. OwnerSetsPwd'
  BY <1>4, <1>6 DEF IInv, OwnerSetsPwd
<1>10. CodeGiven'
  BY <1>1, <1>2 DEF IInv, CodeGiven
<1>11. AccountMet'
  <2>1. SUFFICES ASSUME NEW g \in Conn, hpc'[g] = "update", g \notin missing
                 PROVE  row'[req[g].user] # None /\ row'[req[g].user].email = req[g].email
    BY <1>1 DEF AccountMet
  <2>2. g # h /\ hpc[g] = "update" /\ req[g].user \in User
    BY <1>2, <2>1 DEF IInv, TypeOK
  <2>3. row[req[g].user] # None /\ row[req[g].user].email = req[g].email
    BY <2>1, <2>2 DEF IInv, AccountMet
  <2>4. QED
    BY <1>6, <2>2, <2>3
<1>12. QED
  BY <1>7, <1>8, <1>9, <1>10, <1>11 DEF IInv

(* CheckEmail that finds no row keeps the connection for ever, and its caller may go on. *)
LEMMA CheckEmailInductive ==
  ASSUME IInv, NEW h \in Conn, CheckEmail(h)
  PROVE  IInv'
<1> DEFINE u == req[h].user
<1>1. /\ req' = req /\ wait' = wait /\ code' = code /\ mailed' = mailed /\ row' = row
      /\ h \in has
  BY DEF CheckEmail
<1>2. PICK to \in {"update", "answer"} :
        /\ Move(h, "email", to)
        /\ missing \subseteq missing' /\ missing' \subseteq missing \cup {h}
        /\ to = "update" => h \in missing' \/ (row[u] # None /\ row[u].email = req[h].email)
  BY <1>1 DEF CheckEmail
<1>3. /\ hpc' \in [Conn -> HandlerPlaces \cup {"reading", "writing", "silent", "ended"}]
      /\ hpc[h] = "email" /\ hpc'[h] = to
      /\ \A g \in Conn \ {h} : hpc'[g] = hpc[g]
  BY <1>2, Moved DEF IInv, HandlerPlaces
<1>4. Counted' /\ has' = has \ {h}
  <2>1. Counted
    BY DEF Counted, IInv, Shapes, TypeOK
  <2>2. CASE row[u] # None
    BY <2>1, <2>2, Returned DEF CheckEmail
  <2>3. CASE row[u] = None
    <3>1. has' = has \ {h} /\ leaked' = leaked + 1 /\ idle' = idle
      BY <2>3 DEF CheckEmail
    <3>2. /\ Cardinality(has \ {h}) = Cardinality(has) - 1
          /\ IsFiniteSet(has \ {h}) /\ has \ {h} \subseteq Conn
          /\ Cardinality(has) \in Nat \ {0}
      BY <1>1, <2>1, Dropped
    <3>3. idle' \in Nat /\ leaked' \in Nat /\ PoolSize \in Nat
      BY <2>1, <3>1, GateAssumption DEF Counted
    <3>4. idle' + Cardinality(has') + leaked' = PoolSize
      BY <2>1, <3>1, <3>2, <3>3 DEF Counted
    <3>5. QED
      BY <3>1, <3>2, <3>3, <3>4 DEF Counted
  <2>4. QED
    BY <2>2, <2>3
<1>5. TypeOK'
  <2>1. \A g \in has' : g \in Conn \ {h} /\ hpc[g] \in DaoPlaces
    BY <1>4 DEF IInv, TypeOK, Shapes, DaoPlaces
  <2>2. \A g \in has' : hpc'[g] \in DaoPlaces
    BY <1>3, <2>1
  <2>3. \A g \in wait' : hpc'[g] \in {"writing", "silent"}
    BY <1>1, <1>3 DEF IInv, TypeOK, Shapes
  <2>4. missing' \subseteq Conn
    BY <1>2 DEF IInv, TypeOK
  <2>5. idle' + Cardinality(has') + leaked' = PoolSize
    BY <1>4 DEF Counted
  <2>6. QED
    BY <1>1, <1>3, <2>2, <2>3, <2>4, <2>5 DEF IInv, TypeOK, DaoPlaces
<1>6. Shapes'
  BY <1>1, <1>3, <1>4 DEF IInv, Shapes, Counted, Alive
<1>7. OwnerSetsPwd'
  BY <1>1 DEF IInv, OwnerSetsPwd, Owned
<1>8. CodeGiven'
  BY <1>1, <1>3 DEF IInv, CodeGiven
<1>9. AccountMet'
  BY <1>1, <1>2, <1>3 DEF IInv, AccountMet
<1>10. QED
  BY <1>5, <1>6, <1>7, <1>8, <1>9 DEF IInv

LEMMA UpdatePwdInductive ==
  ASSUME IInv, NEW h \in Conn, UpdatePwd(h)
  PROVE  IInv'
<1> DEFINE u == req[h].user
           new == [row[u] EXCEPT !.pwd = password(h)]
<1>1. /\ req' = req /\ wait' = wait /\ code' = code /\ mailed' = mailed /\ missing' = missing
      /\ Move(h, "update", "answer") /\ ReturnConnection(h)
  BY DEF UpdatePwd
<1>2. /\ hpc' \in [Conn -> HandlerPlaces \cup {"reading", "writing", "silent", "ended"}]
      /\ hpc[h] = "update" /\ hpc'[h] = "answer"
      /\ \A g \in Conn \ {h} : hpc'[g] = hpc[g]
      /\ Counted' /\ \A g \in has' : hpc'[g] \in DaoPlaces
      /\ wait' \subseteq Conn /\ \A g \in wait' : hpc'[g] \in {"writing", "silent"}
      /\ u \in User /\ req[h].email \in Email
  BY <1>1, DaoEnds DEF DaoPlaces
<1>3. /\ password(h) \in Password /\ password(h).proven
      /\ password(h).email = req[h].email /\ password(h).missing = (h \in missing)
  BY <1>2, OwnersPassword
<1>4. row[u] # None => new \in Row /\ Owned(new) /\ new.email = row[u].email
  <2>1. row[u] # None => row[u] \in Row
    BY <1>2 DEF IInv, TypeOK
  <2>2. row[u] # None => new \in Row /\ new.pwd = password(h) /\ new.email = row[u].email
    BY <1>3, <2>1 DEF Row
  <2>3. row[u] # None => h \in missing \/ row[u].email = req[h].email
    BY <1>2 DEF IInv, AccountMet
  <2>4. QED
    BY <1>3, <2>2, <2>3 DEF Owned
<1>5. row' = IF row[u] # None THEN [row EXCEPT ![u] = new] ELSE row
  BY ONLY UpdatePwd(h) DEF UpdatePwd
<1> HIDE DEF new
<1>6. row \in [User -> Row \cup {None}]
  BY DEF IInv, TypeOK
<1>7. /\ row' \in [User -> Row \cup {None}]
      /\ \A v \in User : row'[v] = row[v] \/ (row[v] # None /\ v = u /\ row'[v] = new)
  BY <1>2, <1>4, <1>5, <1>6
<1>8. TypeOK'
  BY <1>1, <1>2, <1>7 DEF IInv, TypeOK, Counted, DaoPlaces
<1>9. Shapes'
  BY <1>1, <1>2 DEF IInv, Shapes, Counted, Alive, DaoPlaces
<1>10. OwnerSetsPwd'
  BY <1>4, <1>7 DEF IInv, OwnerSetsPwd
<1>11. CodeGiven'
  BY <1>1, <1>2 DEF IInv, CodeGiven
<1>12. AccountMet'
  <2>1. SUFFICES ASSUME NEW g \in Conn, hpc'[g] = "update", g \notin missing
                 PROVE  row'[req[g].user] # None /\ row'[req[g].user].email = req[g].email
    BY <1>1 DEF AccountMet
  <2>2. g # h /\ hpc[g] = "update" /\ req[g].user \in User
    BY <1>2, <2>1 DEF IInv, TypeOK
  <2>3. row[req[g].user] # None /\ row[req[g].user].email = req[g].email
    BY <2>1, <2>2 DEF IInv, AccountMet
  <2>4. None \notin Row
    BY GateAssumption
  <2>5. QED
    BY <1>4, <1>7, <2>2, <2>3, <2>4
<1>13. QED
  BY <1>8, <1>9, <1>10, <1>11, <1>12 DEF IInv

LEMMA CheckPwdInductive ==
  ASSUME IInv, NEW h \in Conn, CheckPwd(h)
  PROVE  IInv'
<1> DEFINE to == IF fits(h) = {} THEN "answer" ELSE "status"
           u == IF fits(h) = {} THEN req[h].user ELSE CHOOSE v \in fits(h) : TRUE
<1>1. /\ wait' = wait /\ code' = code /\ mailed' = mailed /\ row' = row /\ missing' = missing
      /\ Move(h, "login", to) /\ ReturnConnection(h)
      /\ req' = [req EXCEPT ![h].user = u]
  BY DEF CheckPwd, dataVars
<1>2. /\ hpc' \in [Conn -> HandlerPlaces \cup {"reading", "writing", "silent", "ended"}]
      /\ hpc[h] = "login" /\ hpc'[h] = to
      /\ \A g \in Conn \ {h} : hpc'[g] = hpc[g]
      /\ Counted' /\ \A g \in has' : hpc'[g] \in DaoPlaces
      /\ wait' \subseteq Conn /\ \A g \in wait' : hpc'[g] \in {"writing", "silent"}
      /\ req[h].user \in User /\ req[h].email \in Email
  BY <1>1, DaoEnds DEF DaoPlaces
<1>3. u \in User
  <2>1. fits(h) \subseteq User
    BY DEF fits
  <2>2. QED
    BY <1>2, <2>1
<1>4. to \in {"answer", "status"}
  OBVIOUS
<1> HIDE DEF to, u
<1>5. /\ req' = [g \in Conn |-> req'[g]]
      /\ \A g \in Conn \ {h} : req'[g] = req[g]
      /\ req'[h] = [req[h] EXCEPT !.user = u]
  BY <1>1 DEF IInv, Shapes
<1>6. DOMAIN req[h] = {"kind", "user", "email", "secret"}
  BY <1>2 DEF IInv, Shapes, Alive
<1>7. /\ DOMAIN req'[h] = {"kind", "user", "email", "secret"}
      /\ req'[h].user = u /\ req'[h].email = req[h].email
  BY <1>5, <1>6
<1>8. TypeOK'
  <2>1. \A g \in Conn : hpc'[g] \notin {"reading", "ended"} =>
          req'[g].user \in User /\ req'[g].email \in Email
    BY <1>2, <1>3, <1>5, <1>7 DEF IInv, TypeOK
  <2>2. QED
    BY <1>1, <1>2, <2>1 DEF IInv, TypeOK, Counted, DaoPlaces
<1>9. Shapes'
  <2>1. \A g \in Conn : Alive(g)' => DOMAIN req'[g] = {"kind", "user", "email", "secret"}
    BY <1>2, <1>5, <1>7 DEF IInv, Shapes, Alive
  <2>2. QED
    BY <1>1, <1>2, <1>5, <2>1 DEF IInv, Shapes, Counted
<1>10. OwnerSetsPwd'
  BY <1>1 DEF IInv, OwnerSetsPwd, Owned
<1>11. CodeGiven'
  BY <1>1, <1>2, <1>4, <1>5 DEF IInv, CodeGiven
<1>12. AccountMet'
  BY <1>1, <1>2, <1>4, <1>5 DEF IInv, AccountMet
<1>13. QED
  BY <1>8, <1>9, <1>10, <1>11, <1>12 DEF IInv

(* The handler returns or its call to the StatusServer does: only the place changes, and
   the deadline is waited for. *)
LEMMA AnswerInductive ==
  ASSUME IInv, NEW h \in Conn, GetChatServer(h) \/ Answer(h)
  PROVE  IInv'
<1>1. PICK from \in {"status", "answer"}, to \in {"answer", "writing"} :
        /\ Move(h, from, to) /\ wait' = IF to = "writing" THEN wait \cup {h} ELSE wait
  BY DEF GetChatServer, Answer
<1>2. /\ hpc' \in [Conn -> HandlerPlaces \cup {"reading", "writing", "silent", "ended"}]
      /\ hpc[h] = from /\ hpc'[h] = to
      /\ \A g \in Conn \ {h} : hpc'[g] = hpc[g]
  BY <1>1, Moved DEF IInv, HandlerPlaces
<1>3. /\ has' = has /\ idle' = idle /\ leaked' = leaked
      /\ req' = req /\ row' = row /\ missing' = missing /\ code' = code /\ mailed' = mailed
  BY DEF GetChatServer, Answer, poolVars, dataVars
<1>4. TypeOK'
  <2>1. \A g \in has' : hpc'[g] \in DaoPlaces
    BY <1>2, <1>3 DEF IInv, TypeOK, Shapes, DaoPlaces
  <2>2. \A g \in wait' : hpc'[g] \in {"writing", "silent"}
    BY <1>1, <1>2, <1>3 DEF IInv, TypeOK, Shapes
  <2>3. QED
    BY <1>2, <1>3, <2>1, <2>2 DEF IInv, TypeOK, DaoPlaces
<1>5. Shapes'
  BY <1>1, <1>2, <1>3 DEF IInv, Shapes, Alive
<1>6. OwnerSetsPwd' /\ CodeGiven' /\ AccountMet'
  BY <1>2, <1>3 DEF IInv, OwnerSetsPwd, Owned, CodeGiven, AccountMet
<1>7. QED
  BY <1>4, <1>5, <1>6 DEF IInv
-------------------------------------------------------------------------------
THEOREM Inductive == Spec => []IInv
<1>1. Init => IInv
  BY InitInductive
<1>2. IInv /\ [Next]_vars => IInv'
  <2> SUFFICES ASSUME IInv, [Next]_vars
               PROVE  IInv'
    OBVIOUS
  <2>1. CASE UNCHANGED vars
    BY <2>1 DEF vars, httpVars, poolVars, dataVars, IInv, TypeOK, Shapes, Alive, OwnerSetsPwd,
               Owned, CodeGiven, AccountMet
  <2>2. ASSUME NEW h \in Conn, ReadError(h) \/ WriteDone(h) \/ Deadline(h)
        PROVE  IInv'
    <3>1. UNCHANGED <<poolVars, code, mailed, row>>
      BY <2>2 DEF ReadError, WriteDone, Deadline
    <3>2. PICK from \in {"reading", "writing", "silent"} : End(h, from)
      BY <2>2 DEF ReadError, WriteDone, Deadline, IInv, TypeOK
    <3>3. QED
      BY <3>1, <3>2, EndInductive
  <2>3. ASSUME NEW h \in Conn, ReadDone(h)
        PROVE  IInv'
    BY <2>3, ReadDoneInductive
  <2>4. ASSUME NEW h \in Conn, Handler(h)
        PROVE  IInv'
    BY <2>4, GetVarifyCodeInductive, CheckCodeInductive, GetConnectionInductive,
       RegUserInductive, CheckEmailInductive, UpdatePwdInductive, CheckPwdInductive,
       StatementFailsInductive, AnswerInductive DEF Handler
  <2>5. ASSUME NEW e \in Email, ExpireCode(e)
        PROVE  IInv'
    BY <2>5, ExpireCodeInductive
  <2>6. QED
    BY <2>1, <2>2, <2>3, <2>4, <2>5 DEF Next
<1>3. QED
  BY <1>1, <1>2, PTL DEF Spec

(* The GateServer's state is what TypeOK says, which includes that a MySQL connection is
   in the pool, with exactly one handler in a DAO method, or lost by CheckEmail
   (MysqlDao.cpp:66-104), and that a valid code is one its address was mailed. *)
THEOREM GateTypeOK == Spec => []TypeOK
BY Inductive, PTL DEF IInv

(* However registrations and resets of the same names and addresses overlap, with codes
   that expire, are replaced or are used twice, the password of an account was set by a
   request that had given a code mailed to its address, but for a reset whose CheckEmail
   had found no account (LogicSystem.cpp:186-218). *)
THEOREM OwnersOnly == Spec => []OwnerSetsPwd
BY Inductive, PTL DEF IInv
=============================================================================
