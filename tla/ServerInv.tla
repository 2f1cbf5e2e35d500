------------------------------ MODULE ServerInv ------------------------------
(***************************************************************************)
(* The inductive invariants of the proofs about the server's threads.      *)
(***************************************************************************)
EXTENDS Server

Enqueuing == {"enqueue", "enqueue_block", "enqueue_wait"}
Completing == {"complete", "complete_block", "complete_wait"}
HasResult(w) == wk[w].pc \in Enqueuing \cup Completing

\* A task in hand is a request's until it is handled; a worker that is to
\* queue a continuation knows its key.  u is a worker's state.
LocalOK(u) ==
  /\ u.pc \in {"lookup", "handle"} => u.task.kind \in {"PING", "CLOSE", "GET"} /\ u.task.req # 0
  /\ u.pc = "continue" => u.task.key \in 1 .. get_seq - 1
  /\ u.pc \in Enqueuing => u.key \in 1 .. get_seq - 1
  /\ u.close /\ u.pc \in Enqueuing \cup Completing => u.out # <<>>
QueuedOK(t) ==
  \/ t.kind \in {"PING", "CLOSE", "GET"} /\ t.req # 0 /\ t.key = 0
  \/ t.kind = "CONTINUE" /\ t.key \in 1 .. get_seq - 1

TypeInv ==
  /\ TypeOK
  /\ \A w \in Worker : LocalOK(wk[w])
  /\ \A i \in DOMAIN queue : QueuedOK(queue[i])
  /\ \A i \in DOMAIN done : done[i].close => done[i].out # <<>>
  /\ \A c \in Conn : conns[c].closing => conns[c].outbox # <<>>
  /\ "delete" \notin Events => published
-----------------------------------------------------------------------------
(* Downloads: one continuation each, of the right connection.              *)

\* A continuation of download k, in the queue or in a worker's hands.
Carrier(t, x, k) ==
  \/ t = "queue" /\ x \in DOMAIN queue /\ queue[x].key = k
  \/ t = "worker" /\ x \in Worker /\ Carries(x, k)
CarrierConn(t, x) == IF t = "queue" THEN queue[x].conn ELSE wk[x].task.conn
Carried(k) == \E t, x : Carrier(t, x, k)

OneCarrier ==
  \A k \in Nat \ {0} : \A t, x, u, y : Carrier(t, x, k) /\ Carrier(u, y, k) => t = u /\ x = y
Stream(k) ==
  /\ \A t, x : Carrier(t, x, k) => CarrierConn(t, x) = gets[k].conn
  /\ Carried(k) => gets[k].offset <= ArtifactSize
  /\ gets[k].sent <= gets[k].offset
  /\ ~ stopping => ReadFails(gets[k].offset) \/ Carried(k)
StreamInv == OneCarrier /\ \A k \in DOMAIN gets : Stream(k)
-----------------------------------------------------------------------------
(* Where an answer is.  What is owed to a client is, for every request, one *)
(* final answer (number -1) and the bytes of a download (their numbers).    *)

Final1 == -1
Gives(f, r, b) ==
  /\ f.req = r
  /\ \/ f.kind \in Final /\ b = Final1
     \/ f.kind = "DATA" /\ b \in BytesOf(f)
In(f, s) == \E i \in DOMAIN s : s[i] = f
GivenBy(s, r, b) == \E i \in DOMAIN s : Gives(s[i], r, b)
Once(s) ==
  \A i, j \in DOMAIN s : \A r \in Nat, b \in Int : Gives(s[i], r, b) /\ Gives(s[j], r, b) => i = j

\* Frames of a connection: a worker's result, a completion, and what was
\* written or is about to be.
Written(c) == wire[c] \o conns[c].outbox
IsPiece(t, x, c) ==
  \/ t = "out" /\ x \in Worker /\ HasResult(x) /\ wk[x].task.conn = c
  \/ t = "done" /\ x \in DOMAIN done /\ done[x].conn = c
  \/ t = "written" /\ x = 0
Piece(t, x, c) == IF t = "out" THEN wk[x].out ELSE IF t = "done" THEN done[x].out ELSE Written(c)

\* A request that nobody handled yet owes all; a download that can be read
\* owes what comes after its offset.
Owes(t, x, c, r, b) ==
  \/ t = "inbox" /\ x \in DOMAIN inbox[c] /\ inbox[c][x].req = r
  \/ t = "queue" /\ x \in DOMAIN queue /\ queue[x].kind # "CONTINUE" /\ queue[x].conn = c /\ queue[x].req = r
  \/ t = "task" /\ x \in Worker /\ wk[x].pc \in {"lookup", "handle"} /\ wk[x].task.conn = c /\ wk[x].task.req = r
  \/ /\ t = "gets" /\ x \in DOMAIN gets /\ gets[x].offset <= ArtifactSize
     /\ gets[x].conn = c /\ gets[x].req = r
     /\ b = Final1 \/ b >= gets[x].offset
Has(t, x, c, r, b) == Owes(t, x, c, r, b) \/ (IsPiece(t, x, c) /\ GivenBy(Piece(t, x, c), r, b))

\* Every answer and every byte is in one place, once.
OnePlace ==
  \A c \in Conn : \A r \in Nat, b \in Int : \A t, x, u, y :
    Has(t, x, c, r, b) /\ Has(u, y, c, r, b) => t = u /\ x = y
OnceInPlace == \A c \in Conn : \A t, x : IsPiece(t, x, c) => Once(Piece(t, x, c))
Numbered == \A c \in Conn : \A r \in Nat, b \in Int : \A t, x : Has(t, x, c, r, b) => r <= sent[c]
AnswerInv == OnePlace /\ OnceInPlace /\ Numbered
-----------------------------------------------------------------------------
(* Nothing is lost of a connection that is not closed.                     *)

Whole(c) == conns[c].state # "closed" /\ ~ conns[c].closing
Holds(c, f) == \E t, x : IsPiece(t, x, c) /\ In(f, Piece(t, x, c))
There(c, r, b) == \E f : Holds(c, f) /\ Gives(f, r, b)
Ended(c, r, n) == \E f : Holds(c, f) /\ f.kind = "OK" /\ f.req = r /\ f.n = n
Covers(c, r, start, end) == \A b \in Nat : There(c, r, b) <=> start <= b /\ b < end
Begun(c) ==
  \A k \in DOMAIN gets : gets[k].conn = c /\ gets[k].offset <= ArtifactSize =>
    Covers(c, gets[k].req, gets[k].offset - gets[k].sent, gets[k].offset)
Complete(c) ==
  \A r, n \in Nat : Ended(c, r, n) => \E start \in 0 .. ArtifactSize : Covers(c, r, start, start + n)
DataInv ==
  \A c \in Conn :
    /\ conns[c].state = "connecting" => sent[c] = 0
    /\ Whole(c) => Begun(c) /\ Complete(c)
=============================================================================
