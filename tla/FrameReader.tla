---------------------------- MODULE FrameReader ----------------------------
(***************************************************************************)
(* Where the messages of LogicQueue come from: a session reads a frame, a  *)
(* header and then a body of the length the header gives, in as many       *)
(* pieces as the network delivers, posts it and reads the next one         *)
(* (CSession.cpp, AsyncReadHead, AsyncReadBody, asyncReadFull).  Each io   *)
(* thread serves one session here.                                         *)
(*                                                                         *)
(* A byte is the pair of the number of its frame and its place in it.      *)
(* Ids and lengths are signed, and only their upper limit is checked.  A   *)
(* session that reads past the end of its buffer is not followed any       *)
(* further: what the bytes overwrite is undefined.                         *)
(***************************************************************************)
EXTENDS LogicQueue, Integers

CONSTANTS
  HeadLen,    \* HEAD_TOTAL_LEN
  MaxLength,  \* MAX_LENGTH, which is also the size of _data
  SizeMax,    \* the largest size_t
  Frames      \* Frames[p]: the frames the client of p sends, each an id and a length

ASSUME FrameReaderAssumption ==
  /\ HeadLen \in Nat \ {0}
  /\ MaxLength \in Nat /\ HeadLen <= MaxLength
  /\ SizeMax \in Nat /\ MaxLength < SizeMax
  /\ Frames \in [Producers -> SUBSET [id : Int, len : Int]]

VARIABLES
  frames,   \* frames[p]: the frames the client has sent (history)
  in,       \* in[p]: the bytes of them not read yet
  rpc,      \* what the session reads: "head", "body"; "closed" after an error,
            \* "cleared" when its header was refused, "stuck" when no node could be
            \* made for its body, "overrun" when it has read past the end of _data
  want,     \* total_len of the asyncReadFull under way
  data,     \* _data: the bytes it has read
  head,     \* id and length of the frame being read
  got       \* got[p]: the bodies posted (history)

readerVars == <<frames, in, rpc, want, data, head, got>>

allVars == <<vars, readerVars>>

ReaderInit ==
  /\ Init
  /\ frames = [p \in Producers |-> <<>>]
  /\ in = [p \in Producers |-> <<>>]
  /\ rpc = [p \in Producers |-> "head"]
  /\ want = [p \in Producers |-> HeadLen]
  /\ data = [p \in Producers |-> <<>>]
  /\ head = [p \in Producers |-> [id |-> 0, len |-> 0]]
  /\ got = [p \in Producers |-> <<>>]

Header(n) == [k \in 1..HeadLen |-> <<n, k>>]

Body(n, len) == [k \in 1..len |-> <<n, HeadLen + k>>]

(* How many bytes a client sends behind a header. *)
bodyLen(f) == IF f.len < 0 THEN 0 ELSE f.len

(* A header is accepted. *)
Valid(f) == f.id <= MaxLength /\ f.len <= MaxLength

(* A signed number where a size_t is expected. *)
size_t(len) == IF len < 0 THEN SizeMax + 1 + len ELSE len
-------------------------------------------------------------------------------
(* A client sends one more frame; what it sends to a removed session is nobody's. *)
ClientSend(p) ==
  /\ rpc[p] \in {"head", "body"}
  /\ Len(frames[p]) < MaxPosts
  /\ \E f \in Frames[p] :
       LET n == Len(frames[p]) + 1
       IN  /\ frames' = [frames EXCEPT ![p] = Append(@, f)]
           /\ in' = [in EXCEPT ![p] = @ \o Header(n) \o Body(n, bodyLen(f))]
  /\ UNCHANGED <<vars, rpc, want, data, head, got>>

(* An io thread calls a read handler of its session: not while it is in another
   one, and not after it has left run(). *)
handling(p) == ppc[p] = "reading" /\ rpc[p] \in {"head", "body"}

rest(p) == want[p] - Len(data[p])

(* Some k of the bytes asked for have come, and _data has room for them. *)
Receive(p, k) ==
  /\ handling(p)
  /\ k <= Len(in[p]) /\ Len(data[p]) + k <= MaxLength
  /\ in' = [in EXCEPT ![p] = SubSeq(@, k + 1, Len(@))]

(* Mutant: the next read starts at the same place again. *)
PartialReadForgets(p) ==
  /\ \E k \in 1..Len(in[p]) : k < rest(p) /\ Receive(p, k)
  /\ UNCHANGED <<vars, frames, rpc, want, data, head, got>>

(* asyncReadLen: fewer than asked for; it reads on behind them. *)
PartialRead(p) ==
  /\ \E k \in 1..Len(in[p]) :
       /\ k < rest(p) /\ Receive(p, k)
       /\ data' = [data EXCEPT ![p] = @ \o SubSeq(in[p], 1, k)]
  /\ UNCHANGED <<vars, frames, rpc, want, head, got>>

(* More bytes have come than _data has room for, and they were asked for. *)
Overrun(p) ==
  /\ handling(p)
  /\ \E k \in 1..Len(in[p]) : k <= rest(p) /\ Len(data[p]) + k > MaxLength
  /\ rpc' = [rpc EXCEPT ![p] = "overrun"]
  /\ UNCHANGED <<vars, frames, in, want, data, head, got>>

(* asyncReadFull: clears _data and asks for that many bytes; a session that is
   removed, or stuck, asks for none. *)
ReadFull(p, next, total) ==
  /\ rpc' = [rpc EXCEPT ![p] = next]
  /\ want' = [want EXCEPT ![p] = total]
  /\ data' = [data EXCEPT ![p] = <<>>]

(* The node for the body, whose constructor throws below a length of -1, which ends the
   handler, and AsyncReadBody. *)
BodyAsked(p, len) ==
  \/ len < -1 /\ ReadFull(p, "stuck", 0)
  \/ len >= -1 /\ ReadFull(p, "body", size_t(len))

(* Mutant: the length is not checked. *)
HeadDoneUnchecked(p) ==
  /\ rpc[p] = "head"
  /\ Receive(p, rest(p))
  /\ LET f == frames[p][(data[p] \o in[p])[1][1]]
     IN  /\ head' = [head EXCEPT ![p] = f]
         /\ \/ f.id > MaxLength /\ ReadFull(p, "cleared", 0)
            \/ f.id <= MaxLength /\ BodyAsked(p, f.len)
  /\ UNCHANGED <<vars, frames, got>>

(* Mutant: the largest length is refused too. *)
HeadDoneStrict(p) ==
  /\ rpc[p] = "head"
  /\ Receive(p, rest(p))
  /\ LET f == frames[p][(data[p] \o in[p])[1][1]]
     IN  /\ head' = [head EXCEPT ![p] = f]
         /\ \/ ~(Valid(f) /\ f.len < MaxLength) /\ ReadFull(p, "cleared", 0)
            \/ Valid(f) /\ f.len < MaxLength /\ BodyAsked(p, f.len)
  /\ UNCHANGED <<vars, frames, got>>

(* The header is complete: it is checked, and the session removed, without a
   Close, or its body asked for. *)
HeadDone(p) ==
  /\ rpc[p] = "head"
  /\ Receive(p, rest(p))
  /\ LET f == frames[p][(data[p] \o in[p])[1][1]]
     IN  /\ head' = [head EXCEPT ![p] = f]
         /\ \/ ~Valid(f) /\ ReadFull(p, "cleared", 0)
            \/ Valid(f) /\ BodyAsked(p, f.len)
  /\ UNCHANGED <<vars, frames, got>>

(* The body is complete, at once if it is empty: it is posted and the next header
   read. *)
BodyDone(p) ==
  /\ rpc[p] = "body"
  /\ Receive(p, rest(p))
  /\ got' = [got EXCEPT ![p] = Append(@, data[p] \o SubSeq(in[p], 1, rest(p)))]
  /\ Post(p)
  /\ ReadFull(p, "head", HeadLen)
  /\ UNCHANGED <<frames, head>>

(* A read fails: the session closes and is removed. *)
ReadError(p) ==
  /\ handling(p)
  /\ ReadFull(p, "closed", 0)
  /\ in' = [in EXCEPT ![p] = <<>>]
  /\ UNCHANGED <<vars, frames, head, got>>

Read(p) == PartialRead(p) \/ HeadDone(p) \/ BodyDone(p)

Queue ==
  /\ (\E p \in Producers : IoThread(p)) \/ PoolStop \/ Worker \/ WorkerSpurious \/ Destructor
  /\ UNCHANGED readerVars

ReaderNext ==
  \/ \E p \in Producers : ClientSend(p) \/ Read(p) \/ Overrun(p) \/ ReadError(p)
  \/ Queue

(* Bytes that have come are read, as long as the io thread runs; a thread that
   posts gets the mutex although the logic thread, waking spuriously, may take it
   again and again. *)
ReaderSpec ==
  /\ ReaderInit /\ [][ReaderNext]_allVars
  /\ Fairness
  /\ \A p \in Producers : SF_allVars(Read(p))
-------------------------------------------------------------------------------
(* Only a header with the length -1, which the test of the upper limit lets pass, makes
   a session ask for more bytes than _data holds, and read past its end
   (CSession.cpp:182-193, 235-265); only one with a smaller length leaves it without a
   read.  Else the bytes asked for are those of the body of the next frame. *)
ReaderTypeOK ==
  /\ \A p \in Producers :
       /\ rpc[p] \in {"head", "body", "closed", "cleared", "stuck", "overrun"}
       /\ want[p] > MaxLength \/ rpc[p] = "overrun" => head[p].len = -1
       /\ rpc[p] = "stuck" => head[p].len < -1
       /\ Len(data[p]) <= want[p]
       /\ Len(got[p]) = sent[p]
       /\ rpc[p] = "body" => /\ want[p] = size_t(head[p].len)
                             /\ head[p] = frames[p][sent[p] + 1]

(* However the network cuts the stream into pieces, the body posted as a session's
   n-th message is that of the n-th frame its client sent, no byte of another frame
   in it and none missing; no frame is skipped (CSession.cpp:235-265, 119-131). *)
WholeFrames ==
  \A p \in Producers : \A n \in 1..Len(got[p]) : got[p][n] = Body(n, frames[p][n].len)

(* A frame that has a length of its own and is accepted, as those before it are, is
   taken by the logic thread, unless the read fails, or the server stops, before. *)
FrameIsTaken ==
  \A p \in Producers, n \in 1..MaxPosts :
    (Len(frames[p]) >= n /\ \A i \in 1..n : Valid(frames[p][i]) /\ frames[p][i].len >= 0) ~>
      \/ \E i \in 1..Len(taken) : taken[i].msg = <<p, n>>
      \/ rpc[p] = "closed" /\ sent[p] < n
      \/ ~pooled
=============================================================================
