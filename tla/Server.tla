------------------------------- MODULE Server -------------------------------
(***************************************************************************)
(* The server's threads: one I/O thread, a fixed pool of workers and the   *)
(* thread that calls stop(), joined by a bounded task queue and a          *)
(* completion queue (src/src/transport/fr_server.cpp), together with the   *)
(* part of the dispatcher whose state outlives a request, the GET streams  *)
(* (src/src/service/fr_dispatch.cpp).                                      *)
(*                                                                         *)
(* A download is sent slice by slice: a worker that has read one slice     *)
(* queues a continuation, then hands the slice to the I/O thread, so that  *)
(* the next slice may be read, and handed over, by another worker.         *)
(*                                                                         *)
(* A step is one critical section.  A wait on a condition variable is      *)
(* three steps: the predicate is found false, the thread blocks (releasing *)
(* the mutex it held from the first step on) and is woken by a notify, or  *)
(* for no reason.  A notify reaches only threads that are blocked already. *)
(***************************************************************************)
EXTENDS Integers, FiniteSets, Sequences

CONSTANTS
  Conn,            \* connections clients open
  Worker,          \* cfg.worker_threads threads
  Requests,        \* what clients send
  MaxRequests,     \* bound on the requests of one connection
  MaxConnections,  \* cfg.max_connections
  QueueCapacity,   \* queue_capacity
  HighWater,       \* kDoneQueueHighWater
  ArtifactSize,    \* size of the artifact that is downloaded
  DataSlice,       \* kDataSliceBytes
  Events           \* what may happen: "leave", "idle", "delete", "stop", "spurious"

Request == [kind : {"PING", "CLOSE", "GET", "BAD"}, offset : Nat, length : Nat]

ASSUME RequestAssumption == Requests \subseteq Request /\ Conn # {}
ASSUME CapacityAssumption ==
  /\ QueueCapacity \in Nat \ {0}
  /\ HighWater \in Nat \ {0}
  /\ MaxConnections \in Nat
ASSUME SizeAssumption ==
  /\ ArtifactSize \in Nat
  /\ DataSlice \in Nat \ {0}
  /\ MaxRequests \in Nat
ASSUME EventAssumption == Events \subseteq {"leave", "idle", "delete", "stop", "spurious"}

VARIABLES
  sent,       \* requests a client has sent on each connection
  inbox,      \* requests the I/O thread has not read yet
  left,       \* clients that closed their end
  wire,       \* frames written to each connection
  conns,      \* the connection table
  queue,      \* queue: tasks for the workers
  done,       \* done_queue: results for the I/O thread
  gets,       \* Dispatcher::gets: downloads in progress
  get_seq,    \* Dispatcher::get_seq, from 1 here: key 0 is no key
  published,  \* the artifact exists
  io,         \* position of the I/O thread
  wk,         \* each worker's position and local variables
  stopping,   \* the flag all loops look at
  stopper     \* position of the thread in stop()

client == <<sent, inbox, left>>
vars == <<sent, inbox, left, wire, conns, queue, done, gets, get_seq, published, io, wk,
          stopping, stopper>>
-----------------------------------------------------------------------------
(* Frames, tasks and connections.                                          *)

\* Answers: DATA (len bytes at offset n), OK (n is bytes_sent of a download),
\* and ERROR by its cause: FAILED request, BUSY server, PROTOCOL violation.
Frame(kind, req, n) == [kind |-> kind, req |-> req, n |-> n, len |-> 0]
Final == {"OK", "FAILED", "BUSY"}

\* An error frame carries request id 1 when its sender does not know the id.
ErrorWithoutId(kind, req) == Frame(kind, req, 0)
Error(kind, req) == Frame(kind, IF req = 0 THEN 1 ELSE req, 0)

RequestTask(c, r) ==
  [conn |-> c, req |-> r.req, kind |-> r.kind, offset |-> r.offset, length |-> r.length,
   key |-> 0]
Continuation(c, key) ==
  [conn |-> c, req |-> 0, kind |-> "CONTINUE", offset |-> 0, length |-> 0, key |-> key]
NoTask == [conn |-> CHOOSE c \in Conn : TRUE, req |-> 0, kind |-> "NONE", offset |-> 0,
           length |-> 0, key |-> 0]

NewConnection == [state |-> "connecting", closing |-> FALSE, broken |-> FALSE, outbox |-> <<>>]
Closed == [state |-> "closed", closing |-> FALSE, broken |-> FALSE, outbox |-> <<>>]
IsOpen(c) == conns[c].state = "open"
Open == {c \in Conn : IsOpen(c)}

Fresh == [pc |-> "pop", task |-> NoTask, out |-> <<>>, close |-> FALSE, key |-> 0]

Init ==
  /\ sent = [c \in Conn |-> 0]
  /\ inbox = [c \in Conn |-> <<>>]
  /\ left = {}
  /\ wire = [c \in Conn |-> <<>>]
  /\ conns = [c \in Conn |-> NewConnection]
  /\ queue = <<>>
  /\ done = <<>>
  /\ gets = <<>>
  /\ get_seq = 1
  /\ published = TRUE
  /\ io = "events"
  /\ wk = [w \in Worker |-> Fresh]
  /\ stopping = FALSE
  /\ stopper = "running"
-----------------------------------------------------------------------------
(* Clients and other requests.                                             *)

Send(c) ==
  /\ IsOpen(c) /\ c \notin left /\ sent[c] < MaxRequests
  /\ \E r \in Requests :
       inbox' = [inbox EXCEPT ![c] = Append(@,
                   [req |-> sent[c] + 1, kind |-> r.kind, offset |-> r.offset, length |-> r.length])]
  /\ sent' = [sent EXCEPT ![c] = @ + 1]
  /\ UNCHANGED <<left, wire, conns, queue, done, gets, get_seq, published, io, wk, stopping, stopper>>

Leave(c) ==
  /\ "leave" \in Events
  /\ IsOpen(c) /\ c \notin left
  /\ left' = left \cup {c}
  /\ UNCHANGED <<sent, inbox, wire, conns, queue, done, gets, get_seq, published, io, wk, stopping, stopper>>

\* Another client deletes the artifact.
Delete ==
  /\ "delete" \in Events
  /\ published
  /\ published' = FALSE
  /\ UNCHANGED <<client, wire, conns, queue, done, gets, get_seq, io, wk, stopping, stopper>>
-----------------------------------------------------------------------------
(* Mutexes and condition variables.                                        *)

QueueFree == \A w \in Worker : wk[w].pc # "enqueue_block"
DoneFree == \A w \in Worker : wk[w].pc # "complete_block"

\* The workers' states after notify_one of those that wait at one place.
NotifyOne(ws, wait, resume) ==
  LET blocked == {w \in Worker : ws[w].pc = wait} IN
  IF blocked = {} THEN {ws} ELSE {[ws EXCEPT ![w].pc = resume] : w \in blocked}
NotifyAll(wait, resume) ==
  [w \in Worker |-> IF wk[w].pc = wait THEN [wk[w] EXCEPT !.pc = resume] ELSE wk[w]]
NotifyQueue(ws) == NotifyOne(ws, "enqueue_wait", "enqueue")
NotifyDone(ws) == NotifyOne(ws, "complete_wait", "complete")

Move(w, pc) == [wk EXCEPT ![w].pc = pc]

\* Where a worker goes after a task: its loop looks at the flag.
NextTask == IF stopping THEN "exited" ELSE "pop"

\* What the waiters wait for.
QueueHasRoom == Len(queue) < QueueCapacity
DoneHasRoom == stopping \/ Len(done) < HighWater
-----------------------------------------------------------------------------
(* The I/O thread.                                                         *)

\* close_connection_locked, on_connection_closed included.
close_connections(C, conns1) ==
  /\ conns' = [c \in Conn |-> IF c \in C THEN Closed ELSE conns1[c]]
  /\ gets' = [k \in {k \in DOMAIN gets : gets[k].conn \notin C} |-> gets[k]]

accept_new(c) ==
  /\ io = "events"
  /\ conns[c].state = "connecting"
  /\ stopper \notin {"join", "stopped"}
  /\ conns' = [conns EXCEPT ![c] =
                 IF Cardinality(Open) >= MaxConnections THEN Closed ELSE [@ EXCEPT !.state = "open"]]
  /\ UNCHANGED <<client, wire, queue, done, gets, get_seq, published, io, wk, stopping, stopper>>

\* One frame of a readable connection.  After a malformed header the parser
\* takes nothing more.
on_frame(c) ==
  LET r == Head(inbox[c]) IN
  /\ io = "events"
  /\ IsOpen(c) /\ inbox[c] # <<>>
  /\ inbox' = [inbox EXCEPT ![c] = Tail(@)]
  /\ \/ /\ conns[c].broken
        /\ UNCHANGED <<conns, queue, wk>>
     \/ /\ ~ conns[c].broken /\ r.kind = "BAD"
        /\ conns' = [conns EXCEPT ![c].closing = TRUE, ![c].broken = TRUE,
                                  ![c].outbox = Append(@, Error("PROTOCOL", 0))]
        /\ UNCHANGED <<queue, wk>>
     \/ /\ ~ conns[c].broken /\ r.kind # "BAD"
        /\ QueueFree
        /\ IF QueueHasRoom /\ ~ stopping
           THEN /\ queue' = Append(queue, RequestTask(c, r))
                /\ wk' \in NotifyQueue(wk)
                /\ UNCHANGED conns
           ELSE /\ conns' = [conns EXCEPT ![c].outbox = Append(@, Error("BUSY", r.req))]
                /\ UNCHANGED <<queue, wk>>
  /\ UNCHANGED <<sent, left, wire, done, gets, get_seq, published, io, stopping, stopper>>

\* The peer has closed its end and everything it sent is read.
on_eof(c) ==
  /\ io = "events"
  /\ IsOpen(c) /\ c \in left /\ inbox[c] = <<>>
  /\ close_connections({c}, conns)
  /\ UNCHANGED <<client, wire, queue, done, get_seq, published, io, wk, stopping, stopper>>

events_handled ==
  /\ io = "events"
  /\ io' = "drain"
  /\ UNCHANGED <<client, wire, conns, queue, done, gets, get_seq, published, wk, stopping, stopper>>

\* What connection c makes of one completion: nothing if it is gone, or once
\* it is closing.
Take(conn, c, d) ==
  IF d.conn # c \/ conn.state # "open" \/ conn.closing THEN conn
  ELSE [conn EXCEPT !.outbox = @ \o d.out, !.closing = d.close]

Delivered(c) ==
  LET after[n \in 0 .. Len(done)] == IF n = 0 THEN conns[c] ELSE Take(after[n - 1], c, done[n])
  IN  after[Len(done)]

\* The queue copied instead of swapped.
DrainsACopy ==
  /\ io = "drain"
  /\ DoneFree
  /\ conns' = [c \in Conn |-> Delivered(c)]
  /\ io' = "flush"
  /\ UNCHANGED <<client, wire, queue, done, gets, get_seq, published, wk, stopping, stopper>>

\* The I/O thread takes the whole queue; it notifies nobody.
drain_completions ==
  /\ io = "drain"
  /\ DoneFree
  /\ conns' = [c \in Conn |-> Delivered(c)]
  /\ done' = <<>>
  /\ io' = "flush"
  /\ UNCHANGED <<client, wire, queue, gets, get_seq, published, wk, stopping, stopper>>

\* flush_conn: of the connections in W with something to write, those whose
\* client is there take it all; the others turn out to be closed by the peer.
flush_conns(W) ==
  LET ready == {c \in W \cap Open : conns[c].outbox # <<>> \/ conns[c].closing}
      flushed == ready \ left
      ended == {c \in ready : c \in left \/ conns[c].closing}
  IN
  /\ wire' = [c \in Conn |-> IF c \in flushed THEN wire[c] \o conns[c].outbox ELSE wire[c]]
  /\ close_connections(ended,
       [c \in Conn |-> IF c \in flushed THEN [conns[c] EXCEPT !.outbox = <<>>] ELSE conns[c]])

on_writable(c) ==
  /\ io = "events"
  /\ IsOpen(c) /\ conns[c].outbox # <<>>
  /\ flush_conns({c})
  /\ UNCHANGED <<client, queue, done, get_seq, published, io, wk, stopping, stopper>>

\* W: the connections that are writable now.
flush_writable(W) ==
  /\ io = "flush"
  /\ flush_conns(W)
  /\ io' = "sweep"
  /\ UNCHANGED <<client, queue, done, get_seq, published, wk, stopping, stopper>>

SweepForEver(C) ==
  /\ io = "sweep"
  /\ C \subseteq Open
  /\ C # {} => "idle" \in Events
  /\ close_connections(C, conns)
  /\ io' = "events"
  /\ UNCHANGED <<client, wire, queue, done, get_seq, published, wk, stopping, stopper>>

\* Connections that sent nothing for request_timeout_seconds; then the loop
\* looks at the flag.
sweep_idle(C) ==
  /\ io = "sweep"
  /\ C \subseteq Open
  /\ C # {} => "idle" \in Events
  /\ close_connections(C, conns)
  /\ io' = IF stopping THEN "exited" ELSE "events"
  /\ UNCHANGED <<client, wire, queue, done, get_seq, published, wk, stopping, stopper>>
-----------------------------------------------------------------------------
(* Workers.                                                                *)

\* The queue is polled, never waited for; nobody is notified of the room.
\* The flag was looked at before, so that a task may still be taken when it
\* is set in between.
pop_task(w) ==
  /\ wk[w].pc = "pop"
  /\ QueueFree
  /\ queue # <<>>
  /\ queue' = Tail(queue)
  /\ wk' = [wk EXCEPT ![w] =
              [Fresh EXCEPT !.task = Head(queue),
                 !.pc = IF Head(queue).kind = "CONTINUE" THEN "continue" ELSE "lookup"]]
  /\ UNCHANGED <<client, wire, conns, done, gets, get_seq, published, io, stopping, stopper>>

\* A worker that found the queue empty has slept and looks at the flag again.
worker_exit(w) ==
  /\ wk[w].pc = "pop"
  /\ stopping
  /\ wk' = Move(w, "exited")
  /\ UNCHANGED <<client, wire, conns, queue, done, gets, get_seq, published, io, stopping, stopper>>

\* A task of a connection that is closed is dropped.
find_session(w) ==
  /\ wk[w].pc = "lookup"
  /\ wk' = Move(w, IF IsOpen(wk[w].task.conn) THEN "handle" ELSE NextTask)
  /\ UNCHANGED <<client, wire, conns, queue, done, gets, get_seq, published, io, stopping, stopper>>

\* The continuation key is not handed on.
ResultWithoutKey(w, out, close, key) ==
  wk' = [wk EXCEPT ![w].out = out, ![w].close = close, ![w].pc = "complete"]

\* The worker has a result; key is the download to go on with, or 0.
Result(w, out, close, key) ==
  wk' = [wk EXCEPT ![w].out = out, ![w].close = close, ![w].key = key,
                   ![w].pc = IF key = 0 THEN "complete" ELSE "enqueue"]

\* read_artifact_slice: how much it sends; it throws when the artifact is
\* gone or the offset is beyond its end.
ReadFails(offset) == ~ published \/ offset > ArtifactSize
ReadLength(offset, length) ==
  LET most == IF length > DataSlice THEN DataSlice ELSE length IN
  IF ArtifactSize - offset < most THEN ArtifactSize - offset ELSE most
Data(req, offset, n) == IF n = 0 THEN <<>> ELSE <<[Frame("DATA", req, offset) EXCEPT !.len = n]>>

\* The entry of a download after n bytes, and without the entry.
AdvanceStuck(g, n) == [g EXCEPT !.remaining = @ - n, !.sent = @ + n]
Advance(g, n) == [g EXCEPT !.offset = @ + n, !.remaining = @ - n, !.sent = @ + n]
AddGet(k, g) == [j \in DOMAIN gets \cup {k} |-> IF j = k THEN g ELSE gets[j]]
KeepGet(k) == gets
EraseGet(k) == [j \in DOMAIN gets \ {k} |-> gets[j]]

handle_ping(w) ==
  /\ wk[w].pc = "handle" /\ wk[w].task.kind = "PING"
  /\ Result(w, <<Frame("OK", wk[w].task.req, 0)>>, FALSE, 0)
  /\ UNCHANGED <<client, wire, conns, queue, done, gets, get_seq, published, io, stopping, stopper>>

handle_close(w) ==
  /\ wk[w].pc = "handle" /\ wk[w].task.kind = "CLOSE"
  /\ Result(w, <<Frame("OK", wk[w].task.req, 0)>>, TRUE, 0)
  /\ UNCHANGED <<client, wire, conns, queue, done, gets, get_seq, published, io, stopping, stopper>>

\* GET_ARTIFACT registers the download before it reads: when the read
\* throws, the entry stays.
handle_get(w) ==
  LET t == wk[w].task
      state == [conn |-> t.conn, req |-> t.req, offset |-> t.offset, remaining |-> t.length,
                sent |-> 0]
      n == ReadLength(t.offset, t.length) IN
  /\ wk[w].pc = "handle" /\ t.kind = "GET"
  /\ get_seq' = get_seq + 1
  /\ \/ /\ t.length = 0
        /\ Result(w, <<Frame("OK", t.req, 0)>>, FALSE, 0)
        /\ UNCHANGED gets
     \/ /\ t.length # 0 /\ ReadFails(t.offset)
        /\ gets' = AddGet(get_seq, state)
        /\ Result(w, <<Error("FAILED", t.req)>>, FALSE, 0)
     \/ /\ t.length # 0 /\ ~ ReadFails(t.offset)
        /\ IF n = t.length
           THEN /\ Result(w, Append(Data(t.req, t.offset, n), Frame("OK", t.req, n)), FALSE, 0)
                /\ UNCHANGED gets
           ELSE /\ gets' = AddGet(get_seq, Advance(state, n))
                /\ Result(w, Data(t.req, t.offset, n), FALSE, get_seq)
  /\ UNCHANGED <<client, wire, conns, queue, done, published, io, stopping, stopper>>

\* The next slice of a download, if its connection is still there.  A read
\* that throws is answered by worker_loop, which knows no request id.
handle_get_continue(w) ==
  LET k == wk[w].task.key
      g == gets[k]
      n == ReadLength(g.offset, g.remaining)
      data == Data(g.req, g.offset, n) IN
  /\ wk[w].pc = "continue"
  /\ \/ /\ k \notin DOMAIN gets
        /\ Result(w, <<>>, FALSE, 0)
        /\ UNCHANGED gets
     \/ /\ k \in DOMAIN gets /\ ReadFails(g.offset)
        /\ Result(w, <<Error("FAILED", wk[w].task.req)>>, FALSE, 0)
        /\ UNCHANGED gets
     \/ /\ k \in DOMAIN gets /\ ~ ReadFails(g.offset)
        /\ IF n = g.remaining \/ n = 0
           THEN /\ Result(w, Append(data, Frame("OK", g.req, Advance(g, n).sent)), FALSE, 0)
                /\ gets' = EraseGet(k)
           ELSE /\ gets' = [gets EXCEPT ![k] = Advance(g, n)]
                /\ Result(w, data, FALSE, k)
  /\ UNCHANGED <<client, wire, conns, queue, done, get_seq, published, io, stopping, stopper>>

\* A continuation that finds the queue full is dropped.
EnqueueOrDrop(w) ==
  /\ wk[w].pc = "enqueue"
  /\ QueueFree
  /\ queue' = IF stopping \/ ~ QueueHasRoom THEN queue
              ELSE Append(queue, Continuation(wk[w].task.conn, wk[w].key))
  /\ wk' = Move(w, "complete")
  /\ UNCHANGED <<client, wire, conns, done, gets, get_seq, published, io, stopping, stopper>>

\* enqueue(continuation): waits for room, gives up when the server stops.
enqueue(w) ==
  /\ wk[w].pc = "enqueue"
  /\ QueueFree
  /\ IF stopping
     THEN wk' = Move(w, "complete") /\ UNCHANGED queue
     ELSE IF QueueHasRoom
          THEN /\ queue' = Append(queue, Continuation(wk[w].task.conn, wk[w].key))
               /\ wk' \in NotifyQueue(Move(w, "complete"))
          ELSE wk' = Move(w, "enqueue_block") /\ UNCHANGED queue
  /\ UNCHANGED <<client, wire, conns, done, gets, get_seq, published, io, stopping, stopper>>

push_completion(w) ==
  /\ wk[w].pc = "complete"
  /\ DoneFree
  /\ IF DoneHasRoom
     THEN /\ done' = Append(done, [conn |-> wk[w].task.conn, out |-> wk[w].out,
                                   close |-> wk[w].close])
          /\ wk' \in NotifyDone([wk EXCEPT ![w] = [Fresh EXCEPT !.pc = NextTask]])
     ELSE wk' = Move(w, "complete_block") /\ UNCHANGED done
  /\ UNCHANGED <<client, wire, conns, queue, gets, get_seq, published, io, stopping, stopper>>

\* A thread that found its predicate false blocks and releases the mutex.
block(w) ==
  /\ wk[w].pc \in {"enqueue_block", "complete_block"}
  /\ wk' = Move(w, IF wk[w].pc = "enqueue_block" THEN "enqueue_wait" ELSE "complete_wait")
  /\ UNCHANGED <<client, wire, conns, queue, done, gets, get_seq, published, io, stopping, stopper>>

\* The standard lets a wait end without a notify; nothing guarantees it.
SpuriousWakeup(w) ==
  /\ "spurious" \in Events
  /\ wk[w].pc \in {"enqueue_wait", "complete_wait"}
  /\ wk' = Move(w, IF wk[w].pc = "enqueue_wait" THEN "enqueue" ELSE "complete")
  /\ UNCHANGED <<client, wire, conns, queue, done, gets, get_seq, published, io, stopping, stopper>>
-----------------------------------------------------------------------------
(* Server::stop                                                            *)

stop ==
  /\ "stop" \in Events
  /\ stopper = "running"
  /\ stopping' = TRUE
  /\ stopper' = "notify_queue"
  /\ UNCHANGED <<client, wire, conns, queue, done, gets, get_seq, published, io, wk>>

\* notify_all, without the mutex of the condition variable.
stop_notify_queue ==
  /\ stopper = "notify_queue"
  /\ wk' = NotifyAll("enqueue_wait", "enqueue")
  /\ stopper' = "notify_done"
  /\ UNCHANGED <<client, wire, conns, queue, done, gets, get_seq, published, io, stopping>>

stop_notify_done ==
  /\ stopper = "notify_done"
  /\ wk' = NotifyAll("complete_wait", "complete")
  /\ stopper' = "join"
  /\ UNCHANGED <<client, wire, conns, queue, done, gets, get_seq, published, io, stopping>>

\* The threads are joined, then the connections are closed.
stop_join ==
  /\ stopper = "join"
  /\ io = "exited"
  /\ \A w \in Worker : wk[w].pc = "exited"
  /\ conns' = [c \in Conn |-> Closed]
  /\ stopper' = "stopped"
  /\ UNCHANGED <<client, wire, queue, done, gets, get_seq, published, io, wk, stopping>>
-----------------------------------------------------------------------------
IoThread ==
  \/ \E c \in Conn : accept_new(c) \/ on_frame(c) \/ on_eof(c) \/ on_writable(c)
  \/ events_handled
  \/ drain_completions
  \/ \E W \in SUBSET Conn : flush_writable(W) \/ sweep_idle(W)

WorkerThread(w) ==
  \/ pop_task(w) \/ worker_exit(w) \/ find_session(w)
  \/ handle_ping(w) \/ handle_close(w) \/ handle_get(w) \/ handle_get_continue(w)
  \/ enqueue(w) \/ push_completion(w) \/ block(w)

Stopping == stop_notify_queue \/ stop_notify_done \/ stop_join

Next ==
  \/ \E c \in Conn : Send(c) \/ Leave(c)
  \/ Delete
  \/ IoThread
  \/ \E w \in Worker : WorkerThread(w) \/ SpuriousWakeup(w)
  \/ stop
  \/ Stopping

Spec == Init /\ [][Next]_vars

\* The threads run; a poller that reports a connection again and again gets
\* it read, and a client that stays reads what it is sent.
FairSpec ==
  /\ Spec
  /\ WF_vars(IoThread)
  /\ \A c \in Conn : SF_vars(on_frame(c)) /\ SF_vars(accept_new(c))
  /\ SF_vars(events_handled)
  /\ SF_vars(flush_writable(Conn))
  /\ \A w \in Worker : WF_vars(WorkerThread(w))
  /\ WF_vars(Stopping)
-----------------------------------------------------------------------------
(* Properties.                                                             *)

WorkerPc ==
  {"pop", "lookup", "handle", "continue", "enqueue", "enqueue_block", "enqueue_wait",
   "complete", "complete_block", "complete_wait", "exited"}
FrameType ==
  [kind : {"DATA", "OK", "FAILED", "BUSY", "PROTOCOL"}, req : Nat \ {0}, n : Nat, len : Nat]
TaskType ==
  [conn : Conn, req : Nat, kind : {"NONE", "PING", "CLOSE", "GET", "CONTINUE"},
   offset : Nat, length : Nat, key : Nat]
GetType == [conn : Conn, req : Nat \ {0}, offset : Nat, remaining : Nat \ {0}, sent : Nat]

\* Every queue holds what it is for, no frame carries the reserved request
\* id 0, and an entry of gets always has something left to send.
TypeOK ==
  /\ sent \in [Conn -> Nat]
  /\ inbox \in [Conn -> Seq([req : Nat \ {0}, kind : {"PING", "CLOSE", "GET", "BAD"},
                            offset : Nat, length : Nat])]
  /\ left \in SUBSET Conn
  /\ wire \in [Conn -> Seq(FrameType)]
  /\ conns \in [Conn -> [state : {"connecting", "open", "closed"}, closing : BOOLEAN,
                         broken : BOOLEAN, outbox : Seq(FrameType)]]
  /\ queue \in Seq(TaskType)
  /\ done \in Seq([conn : Conn, out : Seq(FrameType), close : BOOLEAN])
  /\ DOMAIN gets \subseteq 1 .. get_seq - 1
  /\ \A k \in DOMAIN gets : gets[k] \in GetType
  /\ get_seq \in Nat \ {0}
  /\ published \in BOOLEAN
  /\ io \in {"events", "drain", "flush", "sweep", "exited"}
  /\ wk \in [Worker -> [pc : WorkerPc, task : TaskType, out : Seq(FrameType),
                        close : BOOLEAN, key : Nat]]
  /\ stopping \in BOOLEAN
  /\ stopper \in {"running", "notify_queue", "notify_done", "join", "stopped"}

\* A request gets one final answer at most: requests and answers are matched
\* by their id alone (docs/PROTOCOL.md section 1).
OneFinalAnswer ==
  \A c \in Conn : \A i, j \in DOMAIN wire[c] :
    /\ {wire[c][i].kind, wire[c][j].kind} \subseteq Final
    /\ wire[c][i].req = wire[c][j].req
    => i = j

\* The frames a request was answered with, in the order they were written.
AnswersTo(c, req) == SelectSeq(wire[c], LAMBDA f : f.req = req /\ f.kind # "PROTOCOL")

\* The DATA frames of a download arrive in the order of their offsets and
\* none after its final answer (docs/PROTOCOL.md section 5).  It holds with one
\* worker; with two it does not.
DataInOrder ==
  \A c \in Conn : \A req \in 1 .. sent[c] :
    LET s == AnswersTo(c, req) IN
    \A i, j \in DOMAIN s : i < j =>
      s[i].kind = "DATA" /\ (s[j].kind = "DATA" => s[i].n < s[j].n)

\* A download that is registered and can be read is on its way: exactly one
\* continuation of it is queued or in a worker's hands, so that its entry is
\* erased in the end and no two workers advance it at once.  The entry of one
\* whose read threw has none and waits for its connection to close.
Carries(w, k) ==
  \/ wk[w].pc = "continue" /\ wk[w].task.key = k
  \/ wk[w].pc \in {"enqueue", "enqueue_block", "enqueue_wait"} /\ wk[w].key = k
InFlight(k) ==
  Cardinality({i \in DOMAIN queue : queue[i].key = k}) + Cardinality({w \in Worker : Carries(w, k)})
StreamsAlive ==
  ~ stopping => \A k \in DOMAIN gets :
    InFlight(k) <= 1 /\ (ReadFails(gets[k].offset) \/ InFlight(k) = 1)

\* While the server runs, no entry of gets outlives its connection and the
\* connection's last task (the audit remark at on_connection_closed), but for
\* one: a GET whose first read throws after its connection was closed leaves
\* an entry that nothing erases any more.
HasTask(c) ==
  \/ \E i \in DOMAIN queue : queue[i].conn = c
  \/ \E w \in Worker : wk[w].pc \notin {"pop", "exited"} /\ wk[w].task.conn = c
GetsReleased ==
  ~ stopping => \A k \in DOMAIN gets :
    IsOpen(gets[k].conn) \/ HasTask(gets[k].conn) \/ ReadFails(gets[k].offset)

\* Once nothing of a connection is on its way any more, a download that was
\* answered with OK has brought each byte of its range once, in whatever
\* order the workers handed the slices over, and bytes_sent counts them.
Settled(c) ==
  /\ IsOpen(c) /\ conns[c].outbox = <<>>
  /\ ~ HasTask(c)
  /\ \A i \in DOMAIN done : done[i].conn # c
BytesOf(f) == f.n .. f.n + f.len - 1
DataOf(c, req) == {i \in DOMAIN wire[c] : wire[c][i].kind = "DATA" /\ wire[c][i].req = req}
DownloadWhole ==
  \A c \in Conn : Settled(c) => \A i \in DOMAIN wire[c] : wire[c][i].kind = "OK" =>
    LET data == DataOf(c, wire[c][i].req) IN
    /\ \E start \in 0 .. ArtifactSize :
         UNION {BytesOf(wire[c][j]) : j \in data} = start .. start + wire[c][i].n - 1
    /\ \A j, k \in data : j # k => BytesOf(wire[c][j]) \cap BytesOf(wire[c][k]) = {}

\* Every request of a client that stays connected is answered or its
\* connection is closed, unless the server is stopped.
Answered(c, req) == \E i \in DOMAIN AnswersTo(c, req) : AnswersTo(c, req)[i].kind \in Final
EveryRequestAnswered ==
  \A c \in Conn : \A req \in 1 .. MaxRequests :
    sent[c] >= req ~> (Answered(c, req) \/ ~ IsOpen(c) \/ c \in left \/ stopping)

\* A worker that waits for room in a queue goes on (back pressure, not a halt).
EnqueueResumes ==
  \A w \in Worker : wk[w].pc = "enqueue_wait" ~> wk[w].pc # "enqueue_wait"

\* stop() returns: every thread leaves its loop (LIFE-05).
StopReturns == stopping ~> stopper = "stopped"
=============================================================================
