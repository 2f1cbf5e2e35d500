---------------------------- MODULE ServerProofs -----------------------------
(***************************************************************************)
(* Proofs about the server's threads, for every number of connections and  *)
(* workers and every capacity of the queues.                               *)
(***************************************************************************)
EXTENDS ServerInv, FiniteSetTheorems, SequenceTheorems, WellFoundedInduction, TLAPS

USE RequestAssumption, CapacityAssumption, SizeAssumption, EventAssumption

WorkerType == [pc : WorkerPc, task : TaskType, out : Seq(FrameType), close : BOOLEAN, key : Nat]
ConnType == [state : {"connecting", "open", "closed"}, closing : BOOLEAN, broken : BOOLEAN,
             outbox : Seq(FrameType)]
DoneType == [conn : Conn, out : Seq(FrameType), close : BOOLEAN]

-----------------------------------------------------------------------------
(* Wake-ups.                                                               *)

\* What a notify does to the workers' states: at most one of those that wait
\* goes on.
Woken(v, u, wait, resume) == v = u \/ (u.pc = wait /\ v = [u EXCEPT !.pc = resume])

LEMMA NotifyOneWakes ==
  ASSUME NEW ws \in [Worker -> WorkerType], NEW wait \in WorkerPc, NEW resume \in WorkerPc,
         NEW ws1 \in NotifyOne(ws, wait, resume)
  PROVE  /\ ws1 \in [Worker -> WorkerType]
         /\ \A w \in Worker : Woken(ws1[w], ws[w], wait, resume)
<1> DEFINE blocked == {w \in Worker : ws[w].pc = wait}
<1>1. CASE blocked = {}
  BY <1>1 DEF NotifyOne, Woken
<1>2. CASE blocked # {}
  <2>1. PICK v \in blocked : ws1 = [ws EXCEPT ![v].pc = resume]
    BY <1>2 DEF NotifyOne
  <2>2. QED
    BY <2>1 DEF Woken, WorkerType
<1>3. QED
  BY <1>1, <1>2

LEMMA NotifyAllWakes ==
  ASSUME wk \in [Worker -> WorkerType], NEW wait \in WorkerPc, NEW resume \in WorkerPc
  PROVE  /\ NotifyAll(wait, resume) \in [Worker -> WorkerType]
         /\ \A w \in Worker : Woken(NotifyAll(wait, resume)[w], wk[w], wait, resume)
BY DEF NotifyAll, Woken, WorkerType

\* The waiting places are among the workers' positions.
LEMMA Places ==
  /\ {"enqueue_wait", "enqueue", "complete_wait", "complete", "enqueue_block", "complete_block",
      "pop", "lookup", "handle", "continue", "exited"} \subseteq WorkerPc
  /\ \A p \in WorkerPc : p \in Enqueuing \/ p \in Completing \/ p \in {"pop", "lookup", "handle", "continue", "exited"}
BY DEF WorkerPc, Enqueuing, Completing

LEMMA Types ==
  TypeOK <=>
    /\ sent \in [Conn -> Nat]
    /\ inbox \in [Conn -> Seq([req : Nat \ {0}, kind : {"PING", "CLOSE", "GET", "BAD"},
                              offset : Nat, length : Nat])]
    /\ left \in SUBSET Conn
    /\ wire \in [Conn -> Seq(FrameType)]
    /\ conns \in [Conn -> ConnType]
    /\ queue \in Seq(TaskType)
    /\ done \in Seq(DoneType)
    /\ DOMAIN gets \subseteq 1 .. get_seq - 1
    /\ \A k \in DOMAIN gets : gets[k] \in GetType
    /\ get_seq \in Nat \ {0}
    /\ published \in BOOLEAN
    /\ io \in {"events", "drain", "flush", "sweep", "exited"}
    /\ wk \in [Worker -> WorkerType]
    /\ stopping \in BOOLEAN
    /\ stopper \in {"running", "notify_queue", "notify_done", "join", "stopped"}
BY DEF TypeOK, ConnType, DoneType, WorkerType

LEMMA FreshType == NoTask \in TaskType /\ Fresh \in WorkerType
<1>1. (CHOOSE c \in Conn : TRUE) \in Conn
  OBVIOUS
<1>2. NoTask \in TaskType
  BY <1>1 DEF NoTask, TaskType
<1>3. QED
  BY <1>2, Places DEF Fresh, WorkerType
-----------------------------------------------------------------------------
(* The completions are taken one after the other.                          *)

LEMMA LeastNat ==
  ASSUME NEW T \in SUBSET Nat, T # {}
  PROVE  \E x \in T : \A y \in T : x <= y
<1>1. IsWellFoundedOn(OpToRel(<, Nat), Nat)
  BY NatLessThanWellFounded
<1>2. PICK x \in T : \A y \in T : ~ (<<y, x>> \in OpToRel(<, Nat))
  BY <1>1, WFMin
<1>3. \A y \in T : ~ (y < x)
  BY <1>2 DEF OpToRel
<1>4. QED
  BY <1>3

\* The recursive function in Delivered exists: by its smallest missing length.
Steps(g, n, c) == g = [i \in 0 .. n |-> IF i = 0 THEN conns[c] ELSE Take(g[i - 1], c, done[i])]

LEMMA StepsExist ==
  ASSUME NEW c, NEW n \in Nat
  PROVE  \E g : Steps(g, n, c)
<1> DEFINE Bad == {k \in Nat : ~ \E g : Steps(g, k, c)}
<1> SUFFICES ASSUME Bad # {} PROVE FALSE
  OBVIOUS
<1>1. PICK m \in Bad : \A k \in Bad : m <= k
  <2>1. Bad \in SUBSET Nat
    OBVIOUS
  <2>2. QED
    BY <2>1, LeastNat
<1>2. m # 0
  <2>1. Steps([i \in 0 .. 0 |-> conns[c]], 0, c)
    BY DEF Steps
  <2>2. QED
    BY <2>1
<1>3. PICK g : Steps(g, m - 1, c)
  BY <1>1, <1>2
<1> DEFINE h == [i \in 0 .. m |-> IF i = m THEN Take(g[m - 1], c, done[m]) ELSE g[i]]
<1>4. Steps(h, m, c)
  <2>1. \A i \in 0 .. m : h[i] = IF i = 0 THEN conns[c] ELSE Take(h[i - 1], c, done[i])
    <3>1. \A i \in 0 .. m - 1 : g[i] = IF i = 0 THEN conns[c] ELSE Take(g[i - 1], c, done[i])
      BY <1>3, <1>2 DEF Steps
    <3>2. \A i \in 0 .. m - 1 : h[i] = g[i]
      BY <1>2
    <3>3. h[m] = Take(h[m - 1], c, done[m])
      BY <1>2
    <3>4. QED
      BY <1>2, <3>1, <3>2, <3>3
  <2>2. QED
    BY <2>1, Zenon DEF Steps
<1>5. QED
  BY <1>1, <1>4

LEMMA DeliveredSteps ==
  ASSUME NEW c, done \in Seq(DoneType)
  PROVE  \E g : Steps(g, Len(done), c) /\ Delivered(c) = g[Len(done)]
<1>1. \E g : Steps(g, Len(done), c)
  <2>1. Len(done) \in Nat
    OBVIOUS
  <2>2. QED
    BY <2>1, StepsExist, Zenon
<1> DEFINE h == CHOOSE g : Steps(g, Len(done), c)
<1>2. Steps(h, Len(done), c)
  BY <1>1, Zenon
<1>3. Delivered(c) = h[Len(done)]
  BY Zenon DEF Delivered, Steps
<1>4. QED
  BY <1>2, <1>3

\* A connection keeps its type and its state; what closes it leaves something
\* to write.
ClosingWrites(conn) == conn.closing => conn.outbox # <<>>
LEMMA TakeType ==
  ASSUME NEW conn \in ConnType, NEW c \in Conn, NEW d \in DoneType
  PROVE  /\ Take(conn, c, d) \in ConnType
         /\ Take(conn, c, d).state = conn.state
         /\ conn.closing => Take(conn, c, d) = conn
         /\ ClosingWrites(conn) /\ (d.close => d.out # <<>>) => ClosingWrites(Take(conn, c, d))
<1>1. conn.outbox \o d.out \in Seq(FrameType)
  BY DEF ConnType, DoneType
<1>2. d.out # <<>> => conn.outbox \o d.out # <<>>
  BY DEF ConnType, DoneType
<1>3. QED
  BY <1>1, <1>2 DEF Take, ConnType, DoneType, ClosingWrites

LEMMA DeliveredType ==
  ASSUME NEW c \in Conn, conns[c] \in ConnType, done \in Seq(DoneType),
         ClosingWrites(conns[c]), \A i \in DOMAIN done : done[i].close => done[i].out # <<>>
  PROVE  /\ Delivered(c) \in ConnType
         /\ Delivered(c).state = conns[c].state
         /\ conns[c].closing => Delivered(c) = conns[c]
         /\ ClosingWrites(Delivered(c))
<1>1. PICK g : Steps(g, Len(done), c) /\ Delivered(c) = g[Len(done)]
  BY DeliveredSteps
<1> DEFINE Good(x) == /\ x \in ConnType /\ x.state = conns[c].state /\ ClosingWrites(x)
                      /\ conns[c].closing => x = conns[c]
           Bad == {k \in 0 .. Len(done) : ~ Good(g[k])}
<1>2. Bad = {}
  <2> SUFFICES ASSUME Bad # {} PROVE FALSE
    OBVIOUS
  <2>1. PICK m \in Bad : \A k \in Bad : m <= k
    <3>1. Bad \in SUBSET Nat
      OBVIOUS
    <3>2. QED
      BY <3>1, LeastNat
  <2>2. Good(g[0])
    BY <1>1 DEF Steps
  <2>3. m # 0
    BY <2>1, <2>2
  <2>4. m - 1 \in 0 .. Len(done) /\ m \in 1 .. Len(done) /\ Good(g[m - 1])
    BY <2>1, <2>3
  <2>5. g[m] = Take(g[m - 1], c, done[m])
    BY <1>1, <2>1, <2>3 DEF Steps
  <2>6. done[m] \in DoneType /\ (done[m].close => done[m].out # <<>>)
    BY <2>4
  <2>7. Good(g[m])
    <3>1. g[m - 1] \in ConnType
      BY <2>4
    <3>11. PICK p \in ConnType, d \in DoneType : p = g[m - 1] /\ d = done[m]
      BY <2>6, <3>1
    <3>2. /\ Take(p, c, d) \in ConnType /\ Take(p, c, d).state = p.state
          /\ p.closing => Take(p, c, d) = p
          /\ ClosingWrites(p) /\ (d.close => d.out # <<>>) => ClosingWrites(Take(p, c, d))
      BY TakeType
    <3>3. ClosingWrites(p) /\ p.state = conns[c].state /\ (conns[c].closing => p = conns[c])
      BY <2>4, <3>11
    <3>4. QED
      BY <2>5, <2>6, <3>2, <3>3, <3>11
  <2>8. QED
    BY <2>1, <2>7
<1>3. QED
  BY <1>1, <1>2
-----------------------------------------------------------------------------
(* Workers that only wait, go on, or find that there is nothing to do.     *)

\* From u to v: the same task and result, at another place of the same
\* function; or a task that is dropped.
Calm(v, u) ==
  /\ v \in WorkerType
  /\ v.task = u.task /\ v.out = u.out /\ v.close = u.close /\ v.key = u.key
  /\ \/ v.pc = u.pc
     \/ {v.pc, u.pc} \subseteq Enqueuing
     \/ {v.pc, u.pc} \subseteq Completing
     \/ u.pc = "lookup" /\ v.pc = "handle"
     \/ u.pc \in {"pop", "lookup"} /\ v.pc \in {"pop", "exited"}
AllCalm(ws1, ws) == \A w \in Worker : Calm(ws1[w], ws[w])

LEMMA CalmMove ==
  ASSUME wk \in [Worker -> WorkerType], NEW w \in Worker, NEW pc \in WorkerPc,
         Calm([wk[w] EXCEPT !.pc = pc], wk[w])
  PROVE  Move(w, pc) \in [Worker -> WorkerType] /\ AllCalm(Move(w, pc), wk)
BY DEF Move, Calm, AllCalm, WorkerType

LEMMA CalmWake ==
  ASSUME NEW ws \in [Worker -> WorkerType]
  PROVE  /\ \A ws1 \in NotifyQueue(ws) : ws1 \in [Worker -> WorkerType] /\ AllCalm(ws1, ws)
         /\ \A ws1 \in NotifyDone(ws) : ws1 \in [Worker -> WorkerType] /\ AllCalm(ws1, ws)
<1>1. \A v, u \in WorkerType : Woken(v, u, "enqueue_wait", "enqueue") => Calm(v, u)
  BY Places DEF Woken, Calm, WorkerType, Enqueuing
<1>2. \A v, u \in WorkerType : Woken(v, u, "complete_wait", "complete") => Calm(v, u)
  BY Places DEF Woken, Calm, WorkerType, Completing
<1>3. ASSUME NEW ws1 \in NotifyQueue(ws)
      PROVE  ws1 \in [Worker -> WorkerType] /\ AllCalm(ws1, ws)
  BY <1>1, <1>3, NotifyOneWakes, Places DEF NotifyQueue, AllCalm
<1>4. ASSUME NEW ws1 \in NotifyDone(ws)
      PROVE  ws1 \in [Worker -> WorkerType] /\ AllCalm(ws1, ws)
  BY <1>2, <1>4, NotifyOneWakes, Places DEF NotifyDone, AllCalm
<1>5. QED
  BY <1>3, <1>4

LEMMA CalmWakeAll ==
  ASSUME wk \in [Worker -> WorkerType]
  PROVE  /\ NotifyAll("enqueue_wait", "enqueue") \in [Worker -> WorkerType]
         /\ AllCalm(NotifyAll("enqueue_wait", "enqueue"), wk)
         /\ NotifyAll("complete_wait", "complete") \in [Worker -> WorkerType]
         /\ AllCalm(NotifyAll("complete_wait", "complete"), wk)
<1>1. \A v, u \in WorkerType : Woken(v, u, "enqueue_wait", "enqueue") => Calm(v, u)
  BY Places DEF Woken, Calm, WorkerType, Enqueuing
<1>2. \A v, u \in WorkerType : Woken(v, u, "complete_wait", "complete") => Calm(v, u)
  BY Places DEF Woken, Calm, WorkerType, Completing
<1>3. QED
  BY <1>1, <1>2, NotifyAllWakes, Places DEF AllCalm

LEMMA CalmLocal ==
  ASSUME NEW v, NEW u, Calm(v, u), LocalOK(u)
  PROVE  LocalOK(v)
BY DEF Calm, LocalOK, Enqueuing, Completing

LEMMA CalmRefl ==
  ASSUME wk \in [Worker -> WorkerType]
  PROVE  AllCalm(wk, wk)
BY DEF AllCalm, Calm
-----------------------------------------------------------------------------
(* Connections that are closed or flushed.                                 *)

GetsRestricted ==
  /\ DOMAIN gets' \subseteq DOMAIN gets
  /\ \A k \in DOMAIN gets' : gets'[k] = gets[k]

\* What is known of the connections: c.
ConnOK(conn) == conn \in ConnType /\ ClosingWrites(conn)
LEMMA ClosedOK == ConnOK(Closed) /\ ConnOK(NewConnection) /\ <<>> \in Seq(FrameType)
BY DEF Closed, NewConnection, ConnOK, ConnType, ClosingWrites

LEMMA CloseType ==
  ASSUME NEW C \in SUBSET Conn, NEW conns1, \A c \in Conn : c \notin C => ConnOK(conns1[c]),
         close_connections(C, conns1)
  PROVE  /\ conns' \in [Conn -> ConnType]
         /\ \A c \in Conn : ConnOK(conns'[c])
         /\ GetsRestricted
BY ClosedOK DEF close_connections, ConnOK, GetsRestricted

LEMMA FlushType ==
  ASSUME TypeInv, NEW W \in SUBSET Conn, flush_conns(W)
  PROVE  /\ conns' \in [Conn -> ConnType]
         /\ \A c \in Conn : ConnOK(conns'[c])
         /\ GetsRestricted
         /\ wire' \in [Conn -> Seq(FrameType)]
<1> DEFINE ready == {c \in W \cap Open : conns[c].outbox # <<>> \/ conns[c].closing}
           flushed == ready \ left
           ended == {c \in ready : c \in left \/ conns[c].closing}
           conns1 == [c \in Conn |-> IF c \in flushed THEN [conns[c] EXCEPT !.outbox = <<>>] ELSE conns[c]]
<1>1. conns \in [Conn -> ConnType] /\ wire \in [Conn -> Seq(FrameType)]
  BY Types DEF TypeInv
<1>2. wire' = [c \in Conn |-> IF c \in flushed THEN wire[c] \o conns[c].outbox ELSE wire[c]]
      /\ close_connections(ended, conns1)
  BY DEF flush_conns
<1>3. \A c \in Conn : ConnOK(conns[c])
  BY <1>1 DEF TypeInv, ConnOK, ClosingWrites
<1>4. ASSUME NEW c \in Conn, c \notin ended
      PROVE  ConnOK(conns1[c])
  <2>1. CASE c \notin flushed
    BY <2>1, <1>3
  <2>2. CASE c \in flushed
    <3>1. ~ conns[c].closing
      BY <2>2, <1>4
    <3>2. QED
      BY <2>2, <3>1, <1>1, ClosedOK DEF ConnOK, ConnType, ClosingWrites
  <2>3. QED
    BY <2>1, <2>2
<1>5. wire' \in [Conn -> Seq(FrameType)]
  <2>1. \A c \in Conn : wire[c] \o conns[c].outbox \in Seq(FrameType)
    BY <1>1 DEF ConnType
  <2>2. QED
    BY <1>1, <1>2, <2>1
<1>6. ended \in SUBSET Conn
  BY DEF Open
<1> HIDE DEF ended, conns1
<1>7. QED
  BY <1>2, <1>4, <1>5, <1>6, CloseType
-----------------------------------------------------------------------------
(* Types.                                                                  *)

InboxType == Seq([req : Nat \ {0}, kind : {"PING", "CLOSE", "GET", "BAD"}, offset : Nat, length : Nat])
IoType == {"events", "drain", "flush", "sweep", "exited"}
StopperType == {"running", "notify_queue", "notify_done", "join", "stopped"}

LEMMA CalmWorkers ==
  ASSUME TypeInv, UNCHANGED get_seq, AllCalm(wk', wk)
  PROVE  \A w \in Worker : LocalOK(wk[w])'
<1> TAKE w \in Worker
<1>1. LocalOK(wk[w]) /\ Calm(wk'[w], wk[w])
  BY DEF TypeInv, AllCalm
<1>2. LocalOK(wk'[w])
  BY <1>1, CalmLocal
<1>3. QED
  BY <1>2 DEF LocalOK

\* A step that gives no worker anything to do.
LEMMA QuietType ==
  ASSUME TypeInv, UNCHANGED <<get_seq, queue>>,
         wk' \in [Worker -> WorkerType], AllCalm(wk', wk), GetsRestricted,
         conns' \in [Conn -> ConnType], \A c \in Conn : ConnOK(conns'[c]),
         wire' \in [Conn -> Seq(FrameType)],
         done' \in Seq(DoneType), \A i \in DOMAIN done' : done'[i].close => done'[i].out # <<>>,
         sent' \in [Conn -> Nat], inbox' \in [Conn -> InboxType], left' \in SUBSET Conn,
         published' \in BOOLEAN, "delete" \notin Events => published',
         io' \in IoType, stopping' \in BOOLEAN, stopper' \in StopperType
  PROVE  TypeInv'
<1>1. DOMAIN gets' \subseteq 1 .. get_seq' - 1 /\ \A k \in DOMAIN gets' : gets'[k] \in GetType
  BY DEF TypeInv, TypeOK, GetsRestricted
<1>2. get_seq' \in Nat \ {0} /\ queue' \in Seq(TaskType)
  BY DEF TypeInv, TypeOK
<1>3. TypeOK'
  BY <1>1, <1>2 DEF TypeOK, ConnType, DoneType, WorkerType, InboxType, IoType, StopperType
<1>4. \A i \in DOMAIN queue' : QueuedOK(queue[i])'
  BY DEF TypeInv, QueuedOK
<1>5. \A c \in Conn : conns'[c].closing => conns'[c].outbox # <<>>
  BY DEF ConnOK, ClosingWrites
<1>6. QED
  BY <1>3, <1>4, <1>5, CalmWorkers DEF TypeInv

\* What a state that is not changed is.
LEMMA Now ==
  ASSUME TypeInv
  PROVE  /\ wk \in [Worker -> WorkerType] /\ AllCalm(wk, wk)
         /\ conns \in [Conn -> ConnType] /\ \A c \in Conn : ConnOK(conns[c])
         /\ wire \in [Conn -> Seq(FrameType)]
         /\ queue \in Seq(TaskType) /\ \A i \in DOMAIN queue : QueuedOK(queue[i])
         /\ done \in Seq(DoneType) /\ \A i \in DOMAIN done : done[i].close => done[i].out # <<>>
         /\ sent \in [Conn -> Nat] /\ inbox \in [Conn -> InboxType] /\ left \in SUBSET Conn
         /\ published \in BOOLEAN /\ ("delete" \notin Events => published)
         /\ io \in IoType /\ stopping \in BOOLEAN /\ stopper \in StopperType
         /\ DOMAIN gets \subseteq 1 .. get_seq - 1 /\ \A k \in DOMAIN gets : gets[k] \in GetType
         /\ get_seq \in Nat \ {0}
<1>1. /\ wk \in [Worker -> WorkerType] /\ conns \in [Conn -> ConnType]
      /\ wire \in [Conn -> Seq(FrameType)] /\ queue \in Seq(TaskType) /\ done \in Seq(DoneType)
      /\ DOMAIN gets \subseteq 1 .. get_seq - 1 /\ \A k \in DOMAIN gets : gets[k] \in GetType
      /\ get_seq \in Nat \ {0}
      /\ sent \in [Conn -> Nat] /\ inbox \in [Conn -> InboxType] /\ left \in SUBSET Conn
      /\ published \in BOOLEAN /\ io \in IoType /\ stopping \in BOOLEAN /\ stopper \in StopperType
  BY Types DEF TypeInv, InboxType, IoType, StopperType
<1>2. \A c \in Conn : ConnOK(conns[c])
  BY <1>1 DEF TypeInv, ConnOK, ClosingWrites
<1>3. QED
  BY <1>1, <1>2, CalmRefl DEF TypeInv

LEMMA InitType == Init => TypeInv
<1> SUFFICES ASSUME Init PROVE TypeInv
  OBVIOUS
<1>1. wk = [w \in Worker |-> Fresh] /\ queue = <<>> /\ done = <<>> /\ published
  BY DEF Init
<1>2. \A c \in Conn : conns[c] = NewConnection
  BY DEF Init
<1>3. TypeOK
  <2>1. /\ conns \in [Conn -> ConnType] /\ wk \in [Worker -> WorkerType]
    BY FreshType, ClosedOK DEF Init, ConnOK
  <2>2. /\ queue \in Seq(TaskType) /\ done \in Seq(DoneType)
        /\ wire \in [Conn -> Seq(FrameType)] /\ inbox \in [Conn -> InboxType]
    BY ClosedOK DEF Init, InboxType
  <2>3. DOMAIN gets = {}
    BY DEF Init
  <2>4. sent \in [Conn -> Nat] /\ left \in SUBSET Conn /\ get_seq \in Nat \ {0}
    BY DEF Init
  <2>5. /\ published \in BOOLEAN /\ stopping \in BOOLEAN
        /\ io \in {"events", "drain", "flush", "sweep", "exited"}
        /\ stopper \in {"running", "notify_queue", "notify_done", "join", "stopped"}
    BY DEF Init
  <2>6. QED
    BY <2>1, <2>2, <2>3, <2>4, <2>5, Types DEF InboxType
<1>4. LocalOK(Fresh)
  BY DEF Fresh, LocalOK, Enqueuing, Completing
<1>5. \A c \in Conn : conns[c].closing => conns[c].outbox # <<>>
  BY <1>2 DEF NewConnection
<1>6. QED
  BY <1>1, <1>3, <1>4, <1>5 DEF TypeInv

\* The steps that give no worker anything to do.
LEMMA SendType == ASSUME TypeInv, NEW c \in Conn, Send(c) PROVE TypeInv'
<1>1. sent' \in [Conn -> Nat]
  BY Now DEF Send
<1>2. inbox' \in [Conn -> InboxType]
  <2>1. PICK r \in Requests :
          inbox' = [inbox EXCEPT ![c] = Append(@,
                      [req |-> sent[c] + 1, kind |-> r.kind, offset |-> r.offset, length |-> r.length])]
    BY DEF Send
  <2>2. [req |-> sent[c] + 1, kind |-> r.kind, offset |-> r.offset, length |-> r.length]
          \in [req : Nat \ {0}, kind : {"PING", "CLOSE", "GET", "BAD"}, offset : Nat, length : Nat]
    <3>1. r \in Request /\ sent[c] \in Nat
      BY Now
    <3>2. QED
      BY <3>1 DEF Request
  <2>3. inbox \in [Conn -> InboxType]
    BY Now
  <2>4. QED
    BY <2>1, <2>2, <2>3 DEF InboxType
<1>3. UNCHANGED <<left, wire, conns, queue, done, gets, get_seq, published, io, wk, stopping, stopper>>
  BY DEF Send
<1>4. GetsRestricted
  BY <1>3 DEF GetsRestricted
<1>5. QED
  BY <1>1, <1>2, <1>3, <1>4, Now, QuietType

LEMMA LeaveType == ASSUME TypeInv, NEW c \in Conn, Leave(c) PROVE TypeInv'
<1>1. left' \in SUBSET Conn
  BY Now DEF Leave
<1>2. UNCHANGED <<sent, inbox, wire, conns, queue, done, gets, get_seq, published, io, wk, stopping, stopper>>
  BY DEF Leave
<1>3. QED
  BY <1>1, <1>2, Now, QuietType DEF GetsRestricted

LEMMA DeleteType == ASSUME TypeInv, Delete PROVE TypeInv'
<1>1. published' \in BOOLEAN /\ "delete" \in Events
  BY DEF Delete
<1>2. UNCHANGED <<sent, inbox, left, wire, conns, queue, done, gets, get_seq, io, wk, stopping, stopper>>
  BY DEF Delete, client
<1>3. QED
  BY <1>1, <1>2, Now, QuietType DEF GetsRestricted

LEMMA AcceptType == ASSUME TypeInv, NEW c \in Conn, accept_new(c) PROVE TypeInv'
<1>1. conns' \in [Conn -> ConnType] /\ \A d \in Conn : ConnOK(conns'[d])
  <2>1. conns \in [Conn -> ConnType] /\ \A d \in Conn : ConnOK(conns[d])
    BY Now
  <2>2. conns' = [conns EXCEPT ![c] = Closed] \/ conns' = [conns EXCEPT ![c].state = "open"]
    BY DEF accept_new
  <2>3. ConnOK([conns[c] EXCEPT !.state = "open"])
    BY <2>1 DEF ConnOK, ConnType, ClosingWrites
  <2>4. QED
    BY <2>1, <2>2, <2>3, ClosedOK DEF ConnOK
<1>2. UNCHANGED <<sent, inbox, left, wire, queue, done, gets, get_seq, published, io, wk, stopping, stopper>>
  BY DEF accept_new, client
<1>3. QED
  BY <1>1, <1>2, Now, QuietType DEF GetsRestricted

LEMMA EofType == ASSUME TypeInv, NEW c \in Conn, on_eof(c) PROVE TypeInv'
<1>1. close_connections({c}, conns)
  BY DEF on_eof
<1>2. conns' \in [Conn -> ConnType] /\ (\A d \in Conn : ConnOK(conns'[d])) /\ GetsRestricted
  BY <1>1, Now, CloseType
<1>3. UNCHANGED <<sent, inbox, left, wire, queue, done, get_seq, published, io, wk, stopping, stopper>>
  BY DEF on_eof, client
<1>4. QED
  BY <1>2, <1>3, Now, QuietType

LEMMA EventsType == ASSUME TypeInv, events_handled PROVE TypeInv'
<1>1. io' \in IoType
  BY DEF events_handled, IoType
<1>2. UNCHANGED <<sent, inbox, left, wire, conns, queue, done, gets, get_seq, published, wk, stopping, stopper>>
  BY DEF events_handled, client
<1>3. QED
  BY <1>1, <1>2, Now, QuietType DEF GetsRestricted

LEMMA DrainType == ASSUME TypeInv, drain_completions PROVE TypeInv'
<1>1. io' \in IoType /\ done' = <<>>
  BY DEF drain_completions, IoType
<1>2. conns' \in [Conn -> ConnType] /\ \A c \in Conn : ConnOK(conns'[c])
  <2>1. ASSUME NEW c \in Conn
        PROVE  ConnOK(Delivered(c))
    <3>1. conns[c] \in ConnType /\ ClosingWrites(conns[c]) /\ done \in Seq(DoneType)
          /\ \A i \in DOMAIN done : done[i].close => done[i].out # <<>>
      BY Now DEF ConnOK
    <3>2. QED
      BY <3>1, DeliveredType DEF ConnOK
  <2>2. conns' = [c \in Conn |-> Delivered(c)]
    BY DEF drain_completions
  <2>3. QED
    BY <2>1, <2>2 DEF ConnOK
<1>3. UNCHANGED <<sent, inbox, left, wire, queue, gets, get_seq, published, wk, stopping, stopper>>
  BY DEF drain_completions, client
<1>4. done' \in Seq(DoneType) /\ \A i \in DOMAIN done' : done'[i].close => done'[i].out # <<>>
  BY <1>1
<1>5. QED
  BY <1>1, <1>2, <1>3, <1>4, Now, QuietType DEF GetsRestricted

LEMMA WritableType == ASSUME TypeInv, NEW c \in Conn, on_writable(c) PROVE TypeInv'
<1>1. flush_conns({c})
  BY DEF on_writable
<1>2. /\ conns' \in [Conn -> ConnType] /\ \A d \in Conn : ConnOK(conns'[d])
      /\ GetsRestricted /\ wire' \in [Conn -> Seq(FrameType)]
  BY <1>1, FlushType
<1>3. UNCHANGED <<sent, inbox, left, queue, done, get_seq, published, io, wk, stopping, stopper>>
  BY DEF on_writable, client
<1>4. QED
  BY <1>2, <1>3, Now, QuietType

LEMMA FlushWritableType == ASSUME TypeInv, NEW W \in SUBSET Conn, flush_writable(W) PROVE TypeInv'
<1>1. flush_conns(W) /\ io' \in IoType
  BY DEF flush_writable, IoType
<1>2. /\ conns' \in [Conn -> ConnType] /\ \A d \in Conn : ConnOK(conns'[d])
      /\ GetsRestricted /\ wire' \in [Conn -> Seq(FrameType)]
  BY <1>1, FlushType
<1>3. UNCHANGED <<sent, inbox, left, queue, done, get_seq, published, wk, stopping, stopper>>
  BY DEF flush_writable, client
<1>4. QED
  BY <1>1, <1>2, <1>3, Now, QuietType

LEMMA SweepType == ASSUME TypeInv, NEW C \in SUBSET Conn, sweep_idle(C) PROVE TypeInv'
<1>1. close_connections(C, conns) /\ io' \in IoType
  BY DEF sweep_idle, IoType
<1>2. conns' \in [Conn -> ConnType] /\ (\A d \in Conn : ConnOK(conns'[d])) /\ GetsRestricted
  BY <1>1, Now, CloseType
<1>3. UNCHANGED <<sent, inbox, left, wire, queue, done, get_seq, published, wk, stopping, stopper>>
  BY DEF sweep_idle, client
<1>4. QED
  BY <1>1, <1>2, <1>3, Now, QuietType

WorkerQuiet(w) == worker_exit(w) \/ find_session(w) \/ block(w) \/ SpuriousWakeup(w)

LEMMA WorkerQuietStep ==
  ASSUME TypeInv, NEW w \in Worker, WorkerQuiet(w)
  PROVE  /\ wk' \in [Worker -> WorkerType] /\ AllCalm(wk', wk)
         /\ UNCHANGED <<client, wire, conns, queue, done, gets, get_seq, published, io, stopping, stopper>>
<1>1. wk \in [Worker -> WorkerType] /\ wk[w] \in WorkerType
  BY Now
<1>2. \A pc \in WorkerPc : [wk[w] EXCEPT !.pc = pc] \in WorkerType
  BY <1>1 DEF WorkerType
<1>3. CASE worker_exit(w)
  <2>1. Calm([wk[w] EXCEPT !.pc = "exited"], wk[w])
    BY <1>1, <1>2, <1>3, Places DEF worker_exit, Calm, WorkerType
  <2>2. QED
    BY <1>1, <1>3, <2>1, CalmMove, Places DEF worker_exit
<1>4. CASE find_session(w)
  <2>1. /\ Calm([wk[w] EXCEPT !.pc = "handle"], wk[w])
        /\ Calm([wk[w] EXCEPT !.pc = "exited"], wk[w])
        /\ Calm([wk[w] EXCEPT !.pc = "pop"], wk[w])
    BY <1>1, <1>2, <1>4, Places DEF find_session, Calm, WorkerType
  <2>2. wk' = Move(w, "handle") \/ wk' = Move(w, "exited") \/ wk' = Move(w, "pop")
    BY <1>4 DEF find_session, NextTask
  <2>3. QED
    BY <1>1, <1>4, <2>1, <2>2, CalmMove, Places DEF find_session
<1>5. CASE block(w)
  <2>1. \/ wk' = Move(w, "enqueue_wait") /\ wk[w].pc = "enqueue_block"
        \/ wk' = Move(w, "complete_wait") /\ wk[w].pc = "complete_block"
    BY <1>5 DEF block
  <2>2. /\ wk[w].pc = "enqueue_block" => Calm([wk[w] EXCEPT !.pc = "enqueue_wait"], wk[w])
        /\ wk[w].pc = "complete_block" => Calm([wk[w] EXCEPT !.pc = "complete_wait"], wk[w])
    BY <1>1, <1>2, Places DEF Calm, WorkerType, Enqueuing, Completing
  <2>3. QED
    BY <1>1, <1>5, <2>1, <2>2, CalmMove, Places DEF block
<1>6. CASE SpuriousWakeup(w)
  <2>1. \/ wk' = Move(w, "enqueue") /\ wk[w].pc = "enqueue_wait"
        \/ wk' = Move(w, "complete") /\ wk[w].pc = "complete_wait"
    BY <1>6 DEF SpuriousWakeup
  <2>2. /\ wk[w].pc = "enqueue_wait" => Calm([wk[w] EXCEPT !.pc = "enqueue"], wk[w])
        /\ wk[w].pc = "complete_wait" => Calm([wk[w] EXCEPT !.pc = "complete"], wk[w])
    BY <1>1, <1>2, Places DEF Calm, WorkerType, Enqueuing, Completing
  <2>3. QED
    BY <1>1, <1>6, <2>1, <2>2, CalmMove, Places DEF SpuriousWakeup
<1>7. QED
  BY <1>3, <1>4, <1>5, <1>6 DEF WorkerQuiet

LEMMA WorkerQuietType == ASSUME TypeInv, NEW w \in Worker, WorkerQuiet(w) PROVE TypeInv'
<1>1. /\ wk' \in [Worker -> WorkerType] /\ AllCalm(wk', wk)
      /\ UNCHANGED <<sent, inbox, left, wire, conns, queue, done, gets, get_seq, published, io, stopping, stopper>>
  BY WorkerQuietStep DEF client
<1>2. QED
  BY <1>1, Now, QuietType DEF GetsRestricted

LEMMA StopStep ==
  ASSUME TypeInv, stop \/ Stopping
  PROVE  /\ wk' \in [Worker -> WorkerType] /\ AllCalm(wk', wk)
         /\ UNCHANGED <<client, wire, queue, done, gets, get_seq, published, io>>
         /\ conns' \in [Conn -> ConnType] /\ \A c \in Conn : ConnOK(conns'[c])
         /\ conns' = conns \/ conns' = [c \in Conn |-> Closed]
         /\ stopping' \in BOOLEAN /\ (stopping => stopping') /\ stopper' \in StopperType
<1> USE DEF StopperType
<1>1. CASE stop
  BY <1>1, Now DEF stop
<1>2. CASE stop_notify_queue
  BY <1>2, Now, CalmWakeAll DEF stop_notify_queue
<1>3. CASE stop_notify_done
  BY <1>3, Now, CalmWakeAll DEF stop_notify_done
<1>4. CASE stop_join
  BY <1>4, Now, ClosedOK DEF stop_join, ConnOK
<1>5. QED
  BY <1>1, <1>2, <1>3, <1>4 DEF Stopping

LEMMA StopType == ASSUME TypeInv, stop \/ Stopping PROVE TypeInv'
<1>1. /\ wk' \in [Worker -> WorkerType] /\ AllCalm(wk', wk)
      /\ UNCHANGED <<sent, inbox, left, wire, queue, done, gets, get_seq, published, io>>
      /\ conns' \in [Conn -> ConnType] /\ \A c \in Conn : ConnOK(conns'[c])
      /\ stopping' \in BOOLEAN /\ stopper' \in StopperType
  BY StopStep DEF client
<1>2. QED
  BY <1>1, Now, QuietType DEF GetsRestricted

\* The steps that give a worker something to do, or take its result.
LEMMA BusyType ==
  ASSUME TypeInv, get_seq' \in Nat, get_seq <= get_seq',
         wk' \in [Worker -> WorkerType], \A w \in Worker : LocalOK(wk[w])',
         queue' \in Seq(TaskType), \A i \in DOMAIN queue' : QueuedOK(queue[i])',
         done' \in Seq(DoneType), \A i \in DOMAIN done' : done'[i].close => done'[i].out # <<>>,
         DOMAIN gets' \subseteq 1 .. get_seq' - 1, \A k \in DOMAIN gets' : gets'[k] \in GetType,
         conns' \in [Conn -> ConnType], \A c \in Conn : ConnOK(conns'[c]),
         inbox' \in [Conn -> InboxType],
         UNCHANGED <<sent, left, wire, published, io, stopping, stopper>>
  PROVE  TypeInv'
<1>1. get_seq' \in Nat \ {0}
  BY Now
<1>2. TypeOK'
  BY <1>1, Now DEF TypeOK, ConnType, DoneType, WorkerType, InboxType, IoType, StopperType
<1>3. \A c \in Conn : conns'[c].closing => conns'[c].outbox # <<>>
  BY DEF ConnOK, ClosingWrites
<1>4. QED
  BY <1>2, <1>3, Now DEF TypeInv

LEMMA Still ==
  ASSUME TypeInv, get_seq' \in Nat, get_seq <= get_seq'
  PROVE  /\ queue' = queue => \A i \in DOMAIN queue' : QueuedOK(queue[i])'
         /\ \A w \in Worker : wk'[w] = wk[w] => LocalOK(wk[w])'
         /\ \A t : QueuedOK(t) => QueuedOK(t)'
<1>1. \A k : k \in 1 .. get_seq - 1 => k \in 1 .. get_seq' - 1
  BY Now
<1>2. QED
  BY <1>1, Now DEF QueuedOK, TypeInv, LocalOK

\* Sequences whose elements need not be looked at.
LEMMA HeadOf ==
  ASSUME NEW S, NEW s \in Seq(S), s # <<>>
  PROVE  Head(s) \in S /\ Head(s) = s[1] /\ Tail(s) \in Seq(S)
OBVIOUS

LEMMA AppendTo ==
  ASSUME NEW S, NEW s \in Seq(S), NEW e \in S
  PROVE  Append(s, e) \in Seq(S) /\ Append(s, e) # <<>>
OBVIOUS

LEMMA ConcatEmpty ==
  ASSUME NEW S, NEW s \in Seq(S)
  PROVE  s \o <<>> = s
OBVIOUS

LEMMA AppendIs ==
  ASSUME NEW S, NEW s \in Seq(S), NEW e
  PROVE  /\ DOMAIN Append(s, e) = DOMAIN s \cup {Len(s) + 1} /\ Len(s) + 1 \notin DOMAIN s
         /\ \A i \in DOMAIN s : Append(s, e)[i] = s[i]
         /\ Append(s, e)[Len(s) + 1] = e
OBVIOUS

LEMMA TailIs ==
  ASSUME NEW S, NEW s \in Seq(S), s # <<>>
  PROVE  /\ DOMAIN Tail(s) = {i \in Nat \ {0} : i + 1 \in DOMAIN s} /\ 1 \in DOMAIN s
         /\ \A i \in DOMAIN Tail(s) : Tail(s)[i] = s[i + 1]
         /\ \A i \in DOMAIN s : i = 1 \/ (i - 1 \in DOMAIN Tail(s) /\ Tail(s)[i - 1] = s[i])
OBVIOUS

LEMMA OnlyOne ==
  ASSUME NEW S, NEW e \in S
  PROVE  <<e>> \in Seq(S)
OBVIOUS

LEMMA FrameIn ==
  /\ \A kind \in {"DATA", "OK", "FAILED", "BUSY", "PROTOCOL"}, req \in Nat, n \in Nat :
       req # 0 => Frame(kind, req, n) \in FrameType
  /\ \A kind \in {"FAILED", "BUSY", "PROTOCOL"}, req \in Nat : Error(kind, req) \in FrameType
  /\ \A req \in Nat \ {0}, offset \in Nat, n \in Nat : Data(req, offset, n) \in Seq(FrameType)
<1>1. \A kind \in {"DATA", "OK", "FAILED", "BUSY", "PROTOCOL"}, req \in Nat, n \in Nat :
        req # 0 => Frame(kind, req, n) \in FrameType
  BY DEF Frame, FrameType
<1>2. \A kind \in {"FAILED", "BUSY", "PROTOCOL"}, req \in Nat : Error(kind, req) \in FrameType
  BY <1>1 DEF Error
<1>3. \A req \in Nat \ {0}, offset \in Nat, n \in Nat : Data(req, offset, n) \in Seq(FrameType)
  <2>1. \A req \in Nat \ {0}, offset \in Nat, n \in Nat :
          [Frame("DATA", req, offset) EXCEPT !.len = n] \in FrameType
    BY DEF Frame, FrameType
  <2>2. QED
    BY <2>1 DEF Data
<1>4. QED
  BY <1>1, <1>2, <1>3

LEMMA OnFrameType == ASSUME TypeInv, NEW c \in Conn, on_frame(c) PROVE TypeInv'
<1> DEFINE r == Head(inbox[c])
<1>1. inbox[c] \in InboxType /\ inbox[c] # <<>> /\ inbox \in [Conn -> InboxType]
  BY Now DEF on_frame
<1>2. r \in [req : Nat \ {0}, kind : {"PING", "CLOSE", "GET", "BAD"}, offset : Nat, length : Nat]
  BY <1>1, HeadOf, Zenon DEF InboxType, r
<1>3. inbox' \in [Conn -> InboxType]
  BY <1>1 DEF on_frame, InboxType
<1>4. UNCHANGED <<sent, left, wire, done, gets, get_seq, published, io, stopping, stopper>>
  BY DEF on_frame
<1>5. \A w \in Worker : LocalOK(wk[w])
  BY DEF TypeInv
<1> HIDE DEF r
<1>51. /\ get_seq' \in Nat /\ get_seq <= get_seq'
       /\ done' \in Seq(DoneType) /\ \A i \in DOMAIN done' : done'[i].close => done'[i].out # <<>>
       /\ DOMAIN gets' \subseteq 1 .. get_seq' - 1 /\ \A k \in DOMAIN gets' : gets'[k] \in GetType
       /\ UNCHANGED <<sent, left, wire, published, io, stopping, stopper>>
  BY <1>4, Now
<1>6. CASE UNCHANGED <<conns, queue, wk>>
  <2>1. \A w \in Worker : LocalOK(wk[w])'
    BY <1>4, <1>6, CalmWorkers, Now
  <2>2. \A i \in DOMAIN queue' : QueuedOK(queue[i])'
    BY <1>4, <1>6, Still, Now
  <2>3. QED
    BY <1>3, <1>51, <1>6, <2>1, <2>2, BusyType, Now
<1>7. CASE r.kind = "BAD" /\ UNCHANGED <<queue, wk>>
           /\ conns' = [conns EXCEPT ![c].closing = TRUE, ![c].broken = TRUE,
                                     ![c].outbox = Append(@, Error("PROTOCOL", 0))]
  <2>1. \A w \in Worker : LocalOK(wk[w])'
    BY <1>4, <1>7, CalmWorkers, Now
  <2>2. \A i \in DOMAIN queue' : QueuedOK(queue[i])'
    BY <1>4, <1>7, Still, Now
  <2>3. conns' \in [Conn -> ConnType] /\ \A d \in Conn : ConnOK(conns'[d])
    <3>1. conns \in [Conn -> ConnType] /\ (\A d \in Conn : ConnOK(conns[d])) /\ Error("PROTOCOL", 0) \in FrameType
      BY Now, FrameIn
    <3>2. QED
      BY SMTT(60), <1>7, <3>1 DEF ConnOK, ConnType, ClosingWrites
  <2>4. QED
    BY <1>3, <1>51, <1>7, <2>1, <2>2, <2>3, BusyType, Now
<1>8. CASE r.kind # "BAD" /\ queue' = Append(queue, RequestTask(c, r)) /\ wk' \in NotifyQueue(wk)
           /\ UNCHANGED conns
  <2>1. wk' \in [Worker -> WorkerType] /\ \A w \in Worker : LocalOK(wk[w])'
    BY <1>4, <1>8, CalmWorkers, CalmWake, Now
  <2>2. RequestTask(c, r) \in TaskType /\ QueuedOK(RequestTask(c, r))
    BY <1>2, <1>8 DEF RequestTask, TaskType, QueuedOK
  <2>3. queue' \in Seq(TaskType) /\ \A i \in DOMAIN queue' : QueuedOK(queue'[i])
    BY <1>8, <2>2, Now
  <2>4. \A i \in DOMAIN queue' : QueuedOK(queue[i])'
    BY <1>4, <2>3, Still, Now
  <2>5. QED
    BY <1>3, <1>51, <1>8, <2>1, <2>3, <2>4, BusyType, Now
<1>9. CASE conns' = [conns EXCEPT ![c].outbox = Append(@, Error("BUSY", r.req))] /\ UNCHANGED <<queue, wk>>
  <2>1. \A w \in Worker : LocalOK(wk[w])'
    BY <1>4, <1>9, CalmWorkers, Now
  <2>2. \A i \in DOMAIN queue' : QueuedOK(queue[i])'
    BY <1>4, <1>9, Still, Now
  <2>3. conns' \in [Conn -> ConnType] /\ \A d \in Conn : ConnOK(conns'[d])
    <3>1. conns \in [Conn -> ConnType] /\ (\A d \in Conn : ConnOK(conns[d])) /\ Error("BUSY", r.req) \in FrameType
      BY <1>2, Now, FrameIn
    <3>2. [conns[c] EXCEPT !.outbox = Append(@, Error("BUSY", r.req))] \in ConnType
      <4>1. conns[c].outbox \in Seq(FrameType)
        BY <3>1 DEF ConnType
      <4>2. Append(conns[c].outbox, Error("BUSY", r.req)) \in Seq(FrameType)
        BY <3>1, <4>1, AppendTo
      <4>3. QED
        BY <3>1, <4>2 DEF ConnType
    <3>3. conns'[c] = [conns[c] EXCEPT !.outbox = Append(@, Error("BUSY", r.req))]
          /\ conns'[c].outbox = Append(conns[c].outbox, Error("BUSY", r.req))
      BY <1>9, <3>1 DEF ConnType
    <3>4. ClosingWrites(conns'[c])
      <4>1. conns[c].outbox \in Seq(FrameType)
        BY <3>1 DEF ConnType
      <4>2. QED
        BY <3>1, <3>3, <4>1 DEF ClosingWrites
    <3>5. QED
      BY <1>9, <3>1, <3>2, <3>3, <3>4 DEF ConnOK
  <2>4. QED
    BY <1>3, <1>51, <1>9, <2>1, <2>2, <2>3, BusyType, Now
<1>10. QED
  BY <1>6, <1>7, <1>8, <1>9 DEF on_frame, r

LEMMA PopType == ASSUME TypeInv, NEW w \in Worker, pop_task(w) PROVE TypeInv'
<1> DEFINE t == Head(queue)
           u == [Fresh EXCEPT !.task = t, !.pc = IF t.kind = "CONTINUE" THEN "continue" ELSE "lookup"]
<1>1. queue \in Seq(TaskType) /\ queue # <<>> /\ queue' = Tail(queue) /\ wk' = [wk EXCEPT ![w] = u]
  BY Now DEF pop_task
<1>2. t \in TaskType /\ t = queue[1] /\ queue' \in Seq(TaskType)
  BY <1>1, HeadOf
<1>3. QueuedOK(t)
  BY <1>1, <1>2, Now
<1>4. UNCHANGED <<sent, inbox, left, wire, conns, done, gets, get_seq, published, io, stopping, stopper>>
  BY DEF pop_task, client
<1> HIDE DEF t
<1>5. u \in WorkerType /\ LocalOK(u)
  BY <1>2, <1>3, FreshType, Places DEF Fresh, WorkerType, LocalOK, QueuedOK, Enqueuing, Completing
<1> HIDE DEF u
<1>6. wk' \in [Worker -> WorkerType] /\ \A v \in Worker : LocalOK(wk'[v])
  BY <1>1, <1>5, Now DEF TypeInv
<1>7. \A v \in Worker : LocalOK(wk[v])'
  BY <1>4, <1>6 DEF LocalOK
<1>8. \A i \in DOMAIN queue' : QueuedOK(queue[i])'
  <2>1. \A i \in DOMAIN queue' : QueuedOK(queue'[i])
    BY <1>1, Now
  <2>2. QED
    BY <1>4, <2>1, Still, Now
<1>9. QED
  BY <1>1, <1>2, <1>4, <1>6, <1>7, <1>8, BusyType, Now

\* What a worker that has a result is.
LEMMA ResultStep ==
  ASSUME TypeInv, NEW w \in Worker, NEW out \in Seq(FrameType), NEW close \in BOOLEAN, NEW key \in Nat,
         Result(w, out, close, key)
  PROVE  /\ wk' \in [Worker -> WorkerType]
         /\ \A v \in Worker \ {w} : wk'[v] = wk[v]
         /\ wk'[w].task = wk[w].task /\ wk'[w].out = out /\ wk'[w].close = close /\ wk'[w].key = key
         /\ wk'[w].pc = IF key = 0 THEN "complete" ELSE "enqueue"
<1>1. wk \in [Worker -> WorkerType] /\ wk[w] \in WorkerType
  BY Now
<1> DEFINE u == [wk[w] EXCEPT !.out = out, !.close = close, !.key = key,
                              !.pc = IF key = 0 THEN "complete" ELSE "enqueue"]
<1>2. u \in WorkerType
  BY <1>1, Places DEF WorkerType
<1>3. wk' = [wk EXCEPT ![w] = u]
  BY <1>1 DEF Result
<1>4. /\ u.task = wk[w].task /\ u.out = out /\ u.close = close /\ u.key = key
      /\ u.pc = IF key = 0 THEN "complete" ELSE "enqueue"
  BY <1>1 DEF WorkerType
<1> HIDE DEF u
<1>5. QED
  BY <1>1, <1>2, <1>3, <1>4

LEMMA ResultType ==
  ASSUME TypeInv, NEW w \in Worker, NEW out \in Seq(FrameType), NEW close \in BOOLEAN, NEW key \in Nat,
         Result(w, out, close, key), close => out # <<>>,
         get_seq' \in Nat, get_seq <= get_seq', key = 0 \/ key \in 1 .. get_seq' - 1,
         DOMAIN gets' \subseteq 1 .. get_seq' - 1, \A k \in DOMAIN gets' : gets'[k] \in GetType,
         UNCHANGED <<client, wire, conns, queue, done, published, io, stopping, stopper>>
  PROVE  TypeInv'
<1>1. /\ wk' \in [Worker -> WorkerType]
      /\ \A v \in Worker \ {w} : wk'[v] = wk[v]
      /\ wk'[w].out = out /\ wk'[w].close = close /\ wk'[w].key = key
      /\ wk'[w].pc = IF key = 0 THEN "complete" ELSE "enqueue"
  BY ResultStep
<1>2. LocalOK(wk[w])'
  BY <1>1 DEF LocalOK, Enqueuing, Completing
<1>3. \A v \in Worker : LocalOK(wk[v])'
  BY <1>1, <1>2, Still
<1>4. \A i \in DOMAIN queue' : QueuedOK(queue[i])'
  BY Still
<1>5. UNCHANGED <<sent, inbox, left, wire, conns, queue, done, published, io, stopping, stopper>>
  BY DEF client
<1>6. QED
  BY <1>1, <1>3, <1>4, <1>5, BusyType, Now

LEMMA PingType == ASSUME TypeInv, NEW w \in Worker, handle_ping(w) \/ handle_close(w) PROVE TypeInv'
<1> DEFINE out == <<Frame("OK", wk[w].task.req, 0)>>
<1>1. out \in Seq(FrameType) /\ out # <<>>
  <2>1. wk[w] \in WorkerType /\ wk[w].task.req # 0
    BY Now DEF TypeInv, LocalOK, handle_ping, handle_close
  <2>2. Frame("OK", wk[w].task.req, 0) \in FrameType
    BY <2>1, FrameIn DEF WorkerType, TaskType
  <2>3. QED
    BY <2>2
<1>2. PICK close \in BOOLEAN : Result(w, out, close, 0)
  BY DEF handle_ping, handle_close
<1>3. UNCHANGED <<client, wire, conns, queue, done, gets, get_seq, published, io, stopping, stopper>>
  BY DEF handle_ping, handle_close
<1> HIDE DEF out
<1>4. /\ get_seq' \in Nat /\ get_seq <= get_seq'
      /\ DOMAIN gets' \subseteq 1 .. get_seq' - 1 /\ \A k \in DOMAIN gets' : gets'[k] \in GetType
  BY <1>3, Now
<1>5. QED
  BY <1>1, <1>2, <1>3, <1>4, ResultType

LEMMA ReadLengthType ==
  ASSUME NEW offset \in Nat, NEW length \in Nat, ~ ReadFails(offset)
  PROVE  /\ ReadLength(offset, length) \in Nat
         /\ ReadLength(offset, length) <= length
         /\ offset + ReadLength(offset, length) <= ArtifactSize
BY DEF ReadFails, ReadLength

LEMMA AddGetType ==
  ASSUME NEW k, NEW g
  PROVE  /\ DOMAIN AddGet(k, g) = DOMAIN gets \cup {k}
         /\ AddGet(k, g)[k] = g
         /\ \A j \in DOMAIN gets : j # k => AddGet(k, g)[j] = gets[j]
BY DEF AddGet

\* The three ways GET_ARTIFACT ends that leave an entry or none.
LEMMA HandleGetCases ==
  ASSUME TypeInv, NEW w \in Worker, handle_get(w)
  PROVE  LET t == wk[w].task
             n == ReadLength(t.offset, t.length)
             state == [conn |-> t.conn, req |-> t.req, offset |-> t.offset, remaining |-> t.length,
                       sent |-> 0] IN
         /\ t.conn \in Conn /\ t.req \in Nat \ {0} /\ t.offset \in Nat /\ t.length \in Nat
         /\ wk[w].pc = "handle"
         /\ get_seq' = get_seq + 1
         /\ UNCHANGED <<client, wire, conns, queue, done, published, io, stopping, stopper>>
         /\ \/ t.length = 0 /\ Result(w, <<Frame("OK", t.req, 0)>>, FALSE, 0) /\ UNCHANGED gets
            \/ /\ t.length # 0 /\ ReadFails(t.offset)
               /\ Result(w, <<Error("FAILED", t.req)>>, FALSE, 0)
               /\ gets' = AddGet(get_seq, state)
            \/ /\ t.length # 0 /\ ~ ReadFails(t.offset) /\ n = t.length
               /\ Result(w, Append(Data(t.req, t.offset, n), Frame("OK", t.req, n)), FALSE, 0)
               /\ UNCHANGED gets
            \/ /\ t.length # 0 /\ ~ ReadFails(t.offset) /\ n # t.length
               /\ Result(w, Data(t.req, t.offset, n), FALSE, get_seq)
               /\ gets' = AddGet(get_seq, Advance(state, n))
<1>1. wk[w] \in WorkerType /\ wk[w].task.req # 0
  BY Now DEF TypeInv, LocalOK, handle_get
<1>2. QED
  BY <1>1 DEF handle_get, WorkerType, TaskType

LEMMA GetTypeStep == ASSUME TypeInv, NEW w \in Worker, handle_get(w) PROVE TypeInv'
<1> DEFINE t == wk[w].task
           n == ReadLength(t.offset, t.length)
           state == [conn |-> t.conn, req |-> t.req, offset |-> t.offset, remaining |-> t.length,
                     sent |-> 0]
<1>1. /\ t.conn \in Conn /\ t.req \in Nat \ {0} /\ t.offset \in Nat /\ t.length \in Nat
      /\ get_seq' = get_seq + 1
      /\ UNCHANGED <<client, wire, conns, queue, done, published, io, stopping, stopper>>
  BY HandleGetCases
<1>2. get_seq \in Nat \ {0} /\ get_seq' \in Nat /\ get_seq <= get_seq' /\ get_seq \in 1 .. get_seq' - 1
  BY <1>1, Now
<1>3. DOMAIN gets \subseteq 1 .. get_seq' - 1 /\ \A k \in DOMAIN gets : gets[k] \in GetType
  BY <1>1, Now
<1>4. ASSUME NEW g \in GetType, gets' = AddGet(get_seq, g)
      PROVE  DOMAIN gets' \subseteq 1 .. get_seq' - 1 /\ \A k \in DOMAIN gets' : gets'[k] \in GetType
  <2>1. DOMAIN gets' = DOMAIN gets \cup {get_seq} /\ gets'[get_seq] = g
        /\ \A j \in DOMAIN gets : j # get_seq => gets'[j] = gets[j]
    <3>1. DOMAIN AddGet(get_seq, g) = DOMAIN gets \cup {get_seq} /\ AddGet(get_seq, g)[get_seq] = g
          /\ \A j \in DOMAIN gets : j # get_seq => AddGet(get_seq, g)[j] = gets[j]
      BY DEF AddGet
    <3>2. QED
      BY <1>4, <3>1
  <2>2. QED
    BY <1>2, <1>3, <1>4, <2>1
<1>5. CASE t.length = 0 /\ Result(w, <<Frame("OK", t.req, 0)>>, FALSE, 0) /\ UNCHANGED gets
  <2>1. <<Frame("OK", t.req, 0)>> \in Seq(FrameType)
    <3>1. Frame("OK", t.req, 0) \in FrameType
      BY <1>1, FrameIn
    <3>2. QED
      BY <3>1, OnlyOne
  <2>2. QED
    BY <1>1, <1>2, <1>3, <1>5, <2>1, ResultType
<1>6. CASE /\ t.length # 0 /\ ReadFails(t.offset)
           /\ Result(w, <<Error("FAILED", t.req)>>, FALSE, 0)
           /\ gets' = AddGet(get_seq, state)
  <2>1. <<Error("FAILED", t.req)>> \in Seq(FrameType)
    BY <1>1, FrameIn, OnlyOne
  <2>2. state \in GetType
    BY <1>1, <1>6 DEF GetType
  <2>3. DOMAIN gets' \subseteq 1 .. get_seq' - 1 /\ \A k \in DOMAIN gets' : gets'[k] \in GetType
    BY <1>4, <1>6, <2>2
  <2>4. QED
    BY <1>1, <1>2, <1>6, <2>1, <2>3, ResultType
<1>7. CASE /\ t.length # 0 /\ ~ ReadFails(t.offset) /\ n = t.length
           /\ Result(w, Append(Data(t.req, t.offset, n), Frame("OK", t.req, n)), FALSE, 0)
           /\ UNCHANGED gets
  <2>1. n \in Nat
    BY <1>1, <1>7, ReadLengthType
  <2>2. Append(Data(t.req, t.offset, n), Frame("OK", t.req, n)) \in Seq(FrameType)
    BY <1>1, <2>1, FrameIn, AppendTo
  <2>3. QED
    BY <1>1, <1>2, <1>3, <1>7, <2>2, ResultType
<1>8. CASE /\ t.length # 0 /\ ~ ReadFails(t.offset) /\ n # t.length
           /\ Result(w, Data(t.req, t.offset, n), FALSE, get_seq)
           /\ gets' = AddGet(get_seq, Advance(state, n))
  <2>1. n \in Nat /\ n <= t.length
    BY <1>1, <1>8, ReadLengthType
  <2>2. Data(t.req, t.offset, n) \in Seq(FrameType)
    BY <1>1, <2>1, FrameIn
  <2>3. Advance(state, n) \in GetType
    <3> HIDE DEF n
    <3>1. t.length - n \in Nat \ {0} /\ t.offset + n \in Nat /\ 0 + n \in Nat
      BY <1>1, <1>8, <2>1
    <3>2. QED
      BY <1>1, <3>1 DEF GetType, Advance
  <2>4. DOMAIN gets' \subseteq 1 .. get_seq' - 1 /\ \A k \in DOMAIN gets' : gets'[k] \in GetType
    BY <1>4, <1>8, <2>3
  <2>5. QED
    BY <1>1, <1>2, <1>8, <2>2, <2>4, ResultType
<1>9. QED
  BY <1>5, <1>6, <1>7, <1>8, HandleGetCases

LEMMA AdvanceIs ==
  ASSUME NEW g \in GetType, NEW n \in Nat
  PROVE  /\ Advance(g, n).conn = g.conn /\ Advance(g, n).req = g.req
         /\ Advance(g, n).offset = g.offset + n /\ Advance(g, n).sent = g.sent + n
         /\ Advance(g, n).remaining = g.remaining - n
BY DEF Advance, GetType

\* The ways a continuation ends.
LEMMA ContinueCases ==
  ASSUME TypeInv, NEW w \in Worker, handle_get_continue(w)
  PROVE  LET k == wk[w].task.key
             g == gets[k]
             n == ReadLength(g.offset, g.remaining) IN
         /\ wk[w].pc = "continue" /\ k \in Nat \ {0}
         /\ UNCHANGED <<client, wire, conns, queue, done, get_seq, published, io, stopping, stopper>>
         /\ \/ k \notin DOMAIN gets /\ Result(w, <<>>, FALSE, 0) /\ UNCHANGED gets
            \/ /\ k \in DOMAIN gets /\ ReadFails(g.offset)
               /\ Result(w, <<Error("FAILED", wk[w].task.req)>>, FALSE, 0) /\ UNCHANGED gets
            \/ /\ k \in DOMAIN gets /\ ~ ReadFails(g.offset) /\ (n = g.remaining \/ n = 0)
               /\ Result(w, Append(Data(g.req, g.offset, n), Frame("OK", g.req, Advance(g, n).sent)), FALSE, 0)
               /\ gets' = EraseGet(k)
            \/ /\ k \in DOMAIN gets /\ ~ ReadFails(g.offset) /\ n # g.remaining /\ n # 0
               /\ Result(w, Data(g.req, g.offset, n), FALSE, k)
               /\ gets' = [gets EXCEPT ![k] = Advance(g, n)]
<1> DEFINE k == wk[w].task.key
           g == gets[k]
           n == ReadLength(g.offset, g.remaining)
<1>1. k \in Nat \ {0}
  <2>1. wk[w].pc = "continue"
    BY DEF handle_get_continue
  <2>2. wk[w].task.key \in 1 .. get_seq - 1 /\ get_seq \in Nat
    BY <2>1, Now DEF TypeInv, LocalOK
  <2>3. QED
    BY <2>2
<1>2. QED
  BY <1>1 DEF handle_get_continue

LEMMA ContinueType == ASSUME TypeInv, NEW w \in Worker, handle_get_continue(w) PROVE TypeInv'
<1> DEFINE k == wk[w].task.key
           g == gets[k]
           n == ReadLength(g.offset, g.remaining)
<1>1. /\ UNCHANGED <<client, wire, conns, queue, done, get_seq, published, io, stopping, stopper>>
      /\ k \in Nat \ {0}
  BY ContinueCases
<1>2. get_seq' \in Nat /\ get_seq <= get_seq'
  BY <1>1, Now
<1>3. DOMAIN gets \subseteq 1 .. get_seq' - 1 /\ \A j \in DOMAIN gets : gets[j] \in GetType
  BY <1>1, Now
<1>4. k \in DOMAIN gets => g \in GetType /\ k \in 1 .. get_seq' - 1
  BY <1>3
<1>5. ASSUME k \in DOMAIN gets, ~ ReadFails(g.offset)
      PROVE  n \in Nat /\ n <= g.remaining /\ Data(g.req, g.offset, n) \in Seq(FrameType)
  <2>1. g.offset \in Nat /\ g.remaining \in Nat /\ g.req \in Nat \ {0}
    BY <1>4, <1>5 DEF GetType
  <2>2. n \in Nat /\ n <= g.remaining
    BY <1>5, <2>1, ReadLengthType
  <2>3. QED
    BY <2>1, <2>2, FrameIn
<1>6. CASE k \notin DOMAIN gets /\ Result(w, <<>>, FALSE, 0) /\ UNCHANGED gets
  <2>1. <<>> \in Seq(FrameType)
    OBVIOUS
  <2>2. QED
    BY <1>1, <1>2, <1>3, <1>6, <2>1, ResultType
<1>7. CASE /\ k \in DOMAIN gets /\ ReadFails(g.offset)
           /\ Result(w, <<Error("FAILED", wk[w].task.req)>>, FALSE, 0) /\ UNCHANGED gets
  <2>1. wk[w].task.req \in Nat
    BY Now DEF WorkerType, TaskType
  <2>2. <<Error("FAILED", wk[w].task.req)>> \in Seq(FrameType)
    BY <2>1, FrameIn, OnlyOne
  <2>3. QED
    BY <1>1, <1>2, <1>3, <1>7, <2>2, ResultType
<1>8. CASE /\ k \in DOMAIN gets /\ ~ ReadFails(g.offset) /\ (n = g.remaining \/ n = 0)
           /\ Result(w, Append(Data(g.req, g.offset, n), Frame("OK", g.req, Advance(g, n).sent)), FALSE, 0)
           /\ gets' = EraseGet(k)
  <2>1. Advance(g, n).sent \in Nat /\ g.req \in Nat \ {0}
    <3> HIDE DEF g, n
    <3>1. QED
      <4>1. g \in GetType /\ n \in Nat
        BY <1>4, <1>5, <1>8
      <4>2. Advance(g, n).sent = g.sent + n
        BY <4>1, AdvanceIs
      <4>3. QED
        BY <4>1, <4>2 DEF GetType
  <2>2. Append(Data(g.req, g.offset, n), Frame("OK", g.req, Advance(g, n).sent)) \in Seq(FrameType)
    <3> HIDE DEF g, n
    <3>1. QED
      BY <1>5, <1>8, <2>1, FrameIn, AppendTo
  <2>3. DOMAIN gets' \subseteq 1 .. get_seq' - 1 /\ \A j \in DOMAIN gets' : gets'[j] \in GetType
    BY <1>3, <1>8 DEF EraseGet
  <2>4. QED
    BY <1>1, <1>2, <1>8, <2>2, <2>3, ResultType
<1>9. CASE /\ k \in DOMAIN gets /\ ~ ReadFails(g.offset) /\ n # g.remaining /\ n # 0
           /\ Result(w, Data(g.req, g.offset, n), FALSE, k)
           /\ gets' = [gets EXCEPT ![k] = Advance(g, n)]
  <2>1. Advance(g, n) \in GetType
    <3> HIDE DEF g, n
    <3>1. g.remaining - n \in Nat \ {0} /\ g.offset + n \in Nat /\ g.sent + n \in Nat
      BY <1>4, <1>5, <1>9 DEF GetType
    <3>2. QED
      BY <1>4, <1>9, <3>1 DEF GetType, Advance
  <2>2. DOMAIN gets' \subseteq 1 .. get_seq' - 1 /\ \A j \in DOMAIN gets' : gets'[j] \in GetType
    <3> HIDE DEF g, n
    <3>1. QED
      BY <1>3, <1>9, <2>1
  <2>3. k = 0 \/ k \in 1 .. get_seq' - 1
    BY <1>4, <1>9
  <2>4. QED
    BY <1>1, <1>2, <1>5, <1>9, <2>2, <2>3, ResultType
<1>10. QED
  BY <1>6, <1>7, <1>8, <1>9, ContinueCases

\* How the workers go on when one of them moves and then notifies another.
LEMMA EnqueueStep ==
  ASSUME TypeInv, NEW w \in Worker, enqueue(w)
  PROVE  /\ wk' \in [Worker -> WorkerType] /\ wk[w].pc = "enqueue"
         /\ UNCHANGED <<client, wire, conns, done, gets, get_seq, published, io, stopping, stopper>>
         /\ \/ /\ UNCHANGED queue /\ AllCalm(wk', wk)
               /\ wk'[w].pc = "enqueue_block" /\ ~ stopping /\ \A v \in Worker \ {w} : wk'[v] = wk[v]
            \/ /\ queue' = queue /\ stopping
               /\ wk'[w] = [wk[w] EXCEPT !.pc = "complete"] /\ \A v \in Worker \ {w} : Calm(wk'[v], wk[v])
            \/ /\ queue' = Append(queue, Continuation(wk[w].task.conn, wk[w].key)) /\ ~ stopping
               /\ wk'[w] = [wk[w] EXCEPT !.pc = "complete"] /\ \A v \in Worker \ {w} : Calm(wk'[v], wk[v])
<1>1. wk \in [Worker -> WorkerType] /\ wk[w] \in WorkerType /\ wk[w].pc = "enqueue" /\ AllCalm(wk, wk)
  BY Now DEF enqueue
<1>2. [wk[w] EXCEPT !.pc = "complete"] \in WorkerType /\ [wk[w] EXCEPT !.pc = "enqueue_block"] \in WorkerType
  BY <1>1, Places DEF WorkerType
<1>3. UNCHANGED <<client, wire, conns, done, gets, get_seq, published, io, stopping, stopper>>
  BY DEF enqueue
<1>4. CASE UNCHANGED queue /\ wk' = Move(w, "enqueue_block") /\ ~ stopping
  <2>1. Calm([wk[w] EXCEPT !.pc = "enqueue_block"], wk[w])
    BY <1>1, <1>2 DEF Calm, WorkerType, Enqueuing
  <2>2. wk' \in [Worker -> WorkerType] /\ AllCalm(wk', wk) /\ wk'[w].pc = "enqueue_block"
        /\ \A v \in Worker \ {w} : wk'[v] = wk[v]
    BY <1>1, <1>2, <1>4, <2>1 DEF Move, AllCalm, WorkerType
  <2>3. QED
    BY <1>1, <1>3, <1>4, <2>2
<1>5. CASE UNCHANGED queue /\ stopping /\ wk' = Move(w, "complete")
  <2>1. /\ wk' \in [Worker -> WorkerType] /\ wk'[w] = [wk[w] EXCEPT !.pc = "complete"]
        /\ \A v \in Worker \ {w} : Calm(wk'[v], wk[v])
    BY <1>1, <1>2, <1>5 DEF Move, AllCalm
  <2>2. QED
    BY <1>1, <1>3, <1>5, <2>1
<1>6. CASE queue' = Append(queue, Continuation(wk[w].task.conn, wk[w].key)) /\ ~ stopping
           /\ wk' \in NotifyQueue(Move(w, "complete"))
  <2> DEFINE ws == Move(w, "complete")
  <2>1. ws \in [Worker -> WorkerType] /\ ws[w] = [wk[w] EXCEPT !.pc = "complete"]
        /\ \A v \in Worker \ {w} : ws[v] = wk[v]
    BY <1>1, <1>2 DEF Move
  <2>2. wk' \in [Worker -> WorkerType] /\ AllCalm(wk', ws)
        /\ \A v \in Worker : Woken(wk'[v], ws[v], "enqueue_wait", "enqueue")
    <3> HIDE DEF ws
    <3>1. QED
      BY <1>6, <2>1, CalmWake, NotifyOneWakes, Places DEF NotifyQueue, ws
  <2>3. ws[w].pc = "complete"
    BY <1>1, <2>1 DEF WorkerType
  <2>4. wk'[w] = ws[w]
    BY <2>2, <2>3 DEF Woken
  <2> HIDE DEF ws
  <2>5. \A v \in Worker \ {w} : Calm(wk'[v], wk[v])
    BY <2>1, <2>2 DEF AllCalm
  <2>6. QED
    BY <1>1, <1>3, <1>6, <2>1, <2>2, <2>4, <2>5
<1>7. QED
  BY <1>4, <1>5, <1>6 DEF enqueue

LEMMA PushStep ==
  ASSUME TypeInv, NEW w \in Worker, push_completion(w)
  PROVE  /\ wk' \in [Worker -> WorkerType] /\ wk[w].pc = "complete"
         /\ UNCHANGED <<client, wire, conns, queue, gets, get_seq, published, io, stopping, stopper>>
         /\ \/ UNCHANGED done /\ AllCalm(wk', wk)
            \/ /\ done' = Append(done, [conn |-> wk[w].task.conn, out |-> wk[w].out, close |-> wk[w].close])
               /\ wk'[w].pc \in {"pop", "exited"} /\ \A v \in Worker \ {w} : Calm(wk'[v], wk[v])
<1>1. wk \in [Worker -> WorkerType] /\ wk[w] \in WorkerType /\ wk[w].pc = "complete" /\ AllCalm(wk, wk)
  BY Now DEF push_completion
<1>2. UNCHANGED <<client, wire, conns, queue, gets, get_seq, published, io, stopping, stopper>>
  BY DEF push_completion
<1>3. CASE UNCHANGED done /\ wk' = Move(w, "complete_block")
  <2>1. [wk[w] EXCEPT !.pc = "complete_block"] \in WorkerType
    BY <1>1, Places DEF WorkerType
  <2>2. Calm([wk[w] EXCEPT !.pc = "complete_block"], wk[w])
    BY <1>1, <2>1 DEF Calm, WorkerType, Completing
  <2>3. wk' \in [Worker -> WorkerType] /\ AllCalm(wk', wk)
    BY <1>1, <1>3, <2>2, CalmMove, Places
  <2>4. QED
    BY <1>1, <1>2, <1>3, <2>3
<1>4. CASE /\ done' = Append(done, [conn |-> wk[w].task.conn, out |-> wk[w].out, close |-> wk[w].close])
           /\ wk' \in NotifyDone([wk EXCEPT ![w] = [Fresh EXCEPT !.pc = NextTask]])
  <2> DEFINE ws == [wk EXCEPT ![w] = [Fresh EXCEPT !.pc = NextTask]]
  <2>1. [Fresh EXCEPT !.pc = NextTask] \in WorkerType /\ [Fresh EXCEPT !.pc = NextTask].pc \in {"pop", "exited"}
    BY FreshType, Places DEF NextTask, WorkerType
  <2>2. ws \in [Worker -> WorkerType] /\ ws[w].pc \in {"pop", "exited"} /\ \A v \in Worker \ {w} : ws[v] = wk[v]
    BY <1>1, <2>1
  <2>3. wk' \in [Worker -> WorkerType] /\ AllCalm(wk', ws)
        /\ \A v \in Worker : Woken(wk'[v], ws[v], "complete_wait", "complete")
    <3> HIDE DEF ws
    <3>1. QED
      BY <1>4, <2>2, CalmWake, NotifyOneWakes, Places DEF NotifyDone, ws
  <2> HIDE DEF ws
  <2>4. wk'[w].pc \in {"pop", "exited"}
    BY <2>2, <2>3 DEF Woken
  <2>5. \A v \in Worker \ {w} : Calm(wk'[v], wk[v])
    BY <2>2, <2>3 DEF AllCalm
  <2>6. QED
    BY <1>1, <1>2, <1>4, <2>3, <2>4, <2>5
<1>5. QED
  BY <1>3, <1>4 DEF push_completion

LEMMA CalmOthers ==
  ASSUME TypeInv, UNCHANGED get_seq, NEW w \in Worker,
         \A v \in Worker \ {w} : Calm(wk'[v], wk[v])
  PROVE  \A v \in Worker \ {w} : LocalOK(wk[v])'
<1> TAKE v \in Worker \ {w}
<1>1. LocalOK(wk[v]) /\ Calm(wk'[v], wk[v])
  BY DEF TypeInv
<1>2. LocalOK(wk'[v])
  BY <1>1, CalmLocal
<1>3. QED
  BY <1>2 DEF LocalOK

LEMMA EnqueueType == ASSUME TypeInv, NEW w \in Worker, enqueue(w) PROVE TypeInv'
<1>1. /\ wk' \in [Worker -> WorkerType] /\ wk[w].pc = "enqueue"
      /\ UNCHANGED <<sent, inbox, left, wire, conns, done, gets, get_seq, published, io, stopping, stopper>>
  BY EnqueueStep DEF client
<1>2. /\ wk[w] \in WorkerType /\ LocalOK(wk[w])
  BY Now DEF TypeInv
<1>3. /\ get_seq' \in Nat /\ get_seq <= get_seq'
      /\ done' \in Seq(DoneType) /\ \A i \in DOMAIN done' : done'[i].close => done'[i].out # <<>>
      /\ DOMAIN gets' \subseteq 1 .. get_seq' - 1 /\ \A k \in DOMAIN gets' : gets'[k] \in GetType
      /\ conns' \in [Conn -> ConnType] /\ \A c \in Conn : ConnOK(conns'[c])
      /\ inbox' \in [Conn -> InboxType]
  BY <1>1, Now
<1>4. \A v \in Worker : LocalOK(wk[v])'
  <2>1. CASE AllCalm(wk', wk)
    BY <1>1, <2>1, CalmWorkers
  <2>2. CASE wk'[w] = [wk[w] EXCEPT !.pc = "complete"] /\ \A v \in Worker \ {w} : Calm(wk'[v], wk[v])
    <3>1. \A v \in Worker \ {w} : LocalOK(wk[v])'
      BY <1>1, <2>2, CalmOthers
    <3>2. LocalOK([wk[w] EXCEPT !.pc = "complete"])
      BY <1>1, <1>2 DEF LocalOK, WorkerType, Enqueuing, Completing
    <3>3. LocalOK(wk[w])'
      BY <1>1, <2>2, <3>2 DEF LocalOK
    <3>4. QED
      BY <3>1, <3>3
  <2>3. QED
    BY <2>1, <2>2, EnqueueStep
<1>5. queue' \in Seq(TaskType) /\ \A i \in DOMAIN queue' : QueuedOK(queue[i])'
  <2>1. CASE UNCHANGED queue
    BY <1>3, <2>1, Still, Now
  <2>2. CASE queue' = Append(queue, Continuation(wk[w].task.conn, wk[w].key))
    <3>1. Continuation(wk[w].task.conn, wk[w].key) \in TaskType
      BY <1>2 DEF WorkerType, TaskType, Continuation
    <3>2. QueuedOK(Continuation(wk[w].task.conn, wk[w].key))
      BY <1>1, <1>2 DEF QueuedOK, Continuation, LocalOK, Enqueuing
    <3>3. queue' \in Seq(TaskType) /\ \A i \in DOMAIN queue' : QueuedOK(queue'[i])
      BY <2>2, <3>1, <3>2, Now
    <3>4. QED
      BY <1>3, <3>3, Still
  <2>3. QED
    BY <2>1, <2>2, EnqueueStep
<1>6. QED
  BY <1>1, <1>3, <1>4, <1>5, BusyType

LEMMA PushType == ASSUME TypeInv, NEW w \in Worker, push_completion(w) PROVE TypeInv'
<1>1. /\ wk' \in [Worker -> WorkerType] /\ wk[w].pc = "complete"
      /\ UNCHANGED <<sent, inbox, left, wire, conns, queue, gets, get_seq, published, io, stopping, stopper>>
  BY PushStep DEF client
<1>2. /\ wk[w] \in WorkerType /\ LocalOK(wk[w])
  BY Now DEF TypeInv
<1>3. /\ get_seq' \in Nat /\ get_seq <= get_seq'
      /\ DOMAIN gets' \subseteq 1 .. get_seq' - 1 /\ \A k \in DOMAIN gets' : gets'[k] \in GetType
      /\ conns' \in [Conn -> ConnType] /\ \A c \in Conn : ConnOK(conns'[c])
      /\ inbox' \in [Conn -> InboxType] /\ queue' \in Seq(TaskType)
  BY <1>1, Now
<1>4. \A v \in Worker : LocalOK(wk[v])'
  <2>1. CASE AllCalm(wk', wk)
    BY <1>1, <2>1, CalmWorkers
  <2>2. CASE wk'[w].pc \in {"pop", "exited"} /\ \A v \in Worker \ {w} : Calm(wk'[v], wk[v])
    <3>1. \A v \in Worker \ {w} : LocalOK(wk[v])'
      BY <1>1, <2>2, CalmOthers
    <3>2. LocalOK(wk[w])'
      BY <2>2 DEF LocalOK, Enqueuing, Completing
    <3>3. QED
      BY <3>1, <3>2
  <2>3. QED
    BY <2>1, <2>2, PushStep
<1>5. done' \in Seq(DoneType) /\ \A i \in DOMAIN done' : done'[i].close => done'[i].out # <<>>
  <2>1. CASE UNCHANGED done
    BY <2>1, Now
  <2> DEFINE d == [conn |-> wk[w].task.conn, out |-> wk[w].out, close |-> wk[w].close]
  <2>2. CASE done' = Append(done, d)
    <3>1. d \in DoneType
      BY <1>2 DEF WorkerType, TaskType, DoneType
    <3>2. d.close => d.out # <<>>
      BY <1>1, <1>2 DEF LocalOK, Completing
    <3> HIDE DEF d
    <3>3. QED
      BY <2>2, <3>1, <3>2, Now
  <2>3. QED
    BY <2>1, <2>2, PushStep
<1>6. \A i \in DOMAIN queue' : QueuedOK(queue[i])'
  BY <1>1, <1>3, Still
<1>7. QED
  BY <1>1, <1>3, <1>4, <1>5, <1>6, BusyType

LEMMA UnchangedType == ASSUME TypeInv, UNCHANGED vars PROVE TypeInv'
<1>1. /\ UNCHANGED <<sent, inbox, left, wire, conns, queue, done, gets, get_seq, published, io, wk,
                     stopping, stopper>>
  BY DEF vars
<1>2. QED
  BY <1>1, Now, QuietType DEF GetsRestricted

\* The steps of the specification.
LEMMA Steps1 ==
  ASSUME [Next]_vars
  PROVE  \/ UNCHANGED vars
         \/ \E c \in Conn : \/ Send(c) \/ Leave(c) \/ accept_new(c) \/ on_frame(c) \/ on_eof(c)
                            \/ on_writable(c)
         \/ Delete \/ events_handled \/ drain_completions
         \/ \E W \in SUBSET Conn : flush_writable(W) \/ sweep_idle(W)
         \/ \E w \in Worker : \/ WorkerQuiet(w) \/ pop_task(w) \/ handle_ping(w) \/ handle_close(w)
                              \/ handle_get(w) \/ handle_get_continue(w)
                              \/ enqueue(w) \/ push_completion(w)
         \/ stop \/ Stopping
BY DEF Next, IoThread, WorkerThread, WorkerQuiet

LEMMA TypeStep == ASSUME TypeInv, [Next]_vars PROVE TypeInv'
<1>1. ASSUME NEW c \in Conn,
             Send(c) \/ Leave(c) \/ accept_new(c) \/ on_frame(c) \/ on_eof(c) \/ on_writable(c)
      PROVE  TypeInv'
  BY <1>1, SendType, LeaveType, AcceptType, OnFrameType, EofType, WritableType
<1>2. ASSUME NEW W \in SUBSET Conn, flush_writable(W) \/ sweep_idle(W)
      PROVE  TypeInv'
  BY <1>2, FlushWritableType, SweepType
<1>3. ASSUME NEW w \in Worker,
             \/ WorkerQuiet(w) \/ pop_task(w) \/ handle_ping(w) \/ handle_close(w)
             \/ handle_get(w) \/ handle_get_continue(w) \/ enqueue(w) \/ push_completion(w)
      PROVE  TypeInv'
  BY <1>3, WorkerQuietType, PopType, PingType, GetTypeStep, ContinueType, EnqueueType, PushType
<1>4. CASE Delete \/ events_handled \/ drain_completions \/ stop \/ Stopping \/ UNCHANGED vars
  BY <1>4, DeleteType, EventsType, DrainType, StopType, UnchangedType
<1>5. QED
  BY <1>1, <1>2, <1>3, <1>4, Steps1

\* Every queue holds what it is for, no frame carries the reserved request id
\* 0, and an entry of gets always has something left to send
\* (dispatch_loop, worker_loop and enqueue in fr_server.cpp).
THEOREM TypeCorrect == Spec => []TypeOK
<1>1. TypeInv => TypeOK
  BY DEF TypeInv
<1>2. QED
  BY <1>1, InitType, TypeStep, PTL DEF Spec
-----------------------------------------------------------------------------
(* Downloads.                                                              *)

\* Keys that were never given out are nowhere.
LEMMA KeysGiven ==
  ASSUME TypeInv, NEW k \in Nat \ {0}, NEW t, NEW x, Carrier(t, x, k)
  PROVE  k \in 1 .. get_seq - 1
<1>1. CASE t = "queue" /\ x \in DOMAIN queue /\ queue[x].key = k
  <2>1. QueuedOK(queue[x])
    BY <1>1, Now
  <2>2. QED
    BY <1>1, <2>1 DEF QueuedOK
<1>2. CASE t = "worker" /\ x \in Worker /\ Carries(x, k)
  <2>1. LocalOK(wk[x])
    BY <1>2 DEF TypeInv
  <2>2. QED
    BY <1>2, <2>1 DEF Carries, LocalOK, Enqueuing
<1>3. QED
  BY <1>1, <1>2 DEF Carrier

LEMMA CalmCarries ==
  ASSUME NEW w, Calm(wk'[w], wk[w]), NEW k
  PROVE  (Carries(w, k)' <=> Carries(w, k)) /\ wk'[w].task.conn = wk[w].task.conn
BY DEF Calm, Carries, Enqueuing, Completing

\* What is said of a download that no step touches.
LEMMA SameStream ==
  ASSUME NEW k, Stream(k), gets'[k] = gets[k],
         stopping => stopping', published' => published,
         \A t, x : Carrier(t, x, k)' <=> Carrier(t, x, k),
         \A t, x : Carrier(t, x, k) => CarrierConn(t, x)' = CarrierConn(t, x)
  PROVE  Stream(k)'
<1>1. Carried(k)' <=> Carried(k)
  BY DEF Carried
<1>2. ReadFails(gets[k].offset) => ReadFails(gets[k].offset)'
  BY DEF ReadFails
<1>3. QED
  BY <1>1, <1>2 DEF Stream

\* A step that moves no continuation.
LEMMA StreamSame ==
  ASSUME StreamInv, TypeInv, GetsRestricted,
         stopping => stopping', published' => published,
         \A k \in Nat \ {0} : \A t, x : Carrier(t, x, k)' <=> Carrier(t, x, k),
         \A k \in Nat \ {0} : \A t, x : Carrier(t, x, k) => CarrierConn(t, x)' = CarrierConn(t, x)
  PROVE  StreamInv'
<1>1. OneCarrier'
  BY DEF StreamInv, OneCarrier
<1>2. ASSUME NEW k \in DOMAIN gets'
      PROVE  Stream(k)'
  <2>1. k \in DOMAIN gets /\ gets'[k] = gets[k] /\ k \in Nat \ {0}
    BY <1>2, Now DEF GetsRestricted
  <2>2. QED
    BY <2>1, SameStream DEF StreamInv
<1>3. QED
  BY <1>1, <1>2 DEF StreamInv

LEMMA CalmCarriers ==
  ASSUME AllCalm(wk', wk), NEW t, NEW x, NEW k,
         t = "queue" => (x \in DOMAIN queue' /\ queue'[x].key = k <=> x \in DOMAIN queue /\ queue[x].key = k),
         t = "queue" /\ x \in DOMAIN queue => queue'[x].conn = queue[x].conn
  PROVE  (Carrier(t, x, k)' <=> Carrier(t, x, k)) /\ (Carrier(t, x, k) => CarrierConn(t, x)' = CarrierConn(t, x))
<1>1. CASE t = "queue"
  BY <1>1 DEF Carrier, CarrierConn
<1>2. CASE t = "worker" /\ x \in Worker
  <2>1. (Carries(x, k)' <=> Carries(x, k)) /\ wk'[x].task.conn = wk[x].task.conn
    BY <1>2, CalmCarries DEF AllCalm
  <2>2. QED
    BY <1>2, <2>1 DEF Carrier, CarrierConn
<1>3. CASE t # "queue" /\ ~ (t = "worker" /\ x \in Worker)
  BY <1>3 DEF Carrier
<1>4. QED
  BY <1>1, <1>2, <1>3

LEMMA StreamQuiet ==
  ASSUME StreamInv, TypeInv, UNCHANGED <<get_seq, queue>>, GetsRestricted, AllCalm(wk', wk),
         stopping => stopping', published' => published
  PROVE  StreamInv'
<1>1. \A k \in Nat \ {0} : \A t, x :
        (Carrier(t, x, k)' <=> Carrier(t, x, k)) /\ (Carrier(t, x, k) => CarrierConn(t, x)' = CarrierConn(t, x))
  BY CalmCarriers
<1>2. QED
  BY <1>1, StreamSame

\* A request is queued under no key.
LEMMA StreamOnFrame == ASSUME StreamInv, TypeInv, NEW c \in Conn, on_frame(c) PROVE StreamInv'
<1>1. /\ UNCHANGED <<gets, get_seq, published, stopping>>
      /\ AllCalm(wk', wk)
      /\ UNCHANGED queue \/ queue' = Append(queue, RequestTask(c, Head(inbox[c])))
  BY Now, CalmWake DEF on_frame
<1>2. ASSUME queue' = Append(queue, RequestTask(c, Head(inbox[c]))),
             NEW k \in Nat \ {0}, NEW x
      PROVE  /\ x \in DOMAIN queue' /\ queue'[x].key = k <=> x \in DOMAIN queue /\ queue[x].key = k
             /\ x \in DOMAIN queue => queue'[x].conn = queue[x].conn
  <2>1. queue \in Seq(TaskType)
    BY Now
  <2> DEFINE t == RequestTask(c, Head(inbox[c]))
  <2>2. t.key = 0
    BY DEF RequestTask
  <2>3. queue' = Append(queue, t)
    BY <1>2
  <2> HIDE DEF t
  <2>4. /\ DOMAIN queue' = DOMAIN queue \cup {Len(queue) + 1} /\ Len(queue) + 1 \notin DOMAIN queue
        /\ \A i \in DOMAIN queue : queue'[i] = queue[i]
        /\ queue'[Len(queue) + 1] = t
    BY <2>1, <2>3, AppendIs
  <2>5. QED
    BY <2>2, <2>4
<1>3. \A k \in Nat \ {0} : \A t, x :
        (Carrier(t, x, k)' <=> Carrier(t, x, k)) /\ (Carrier(t, x, k) => CarrierConn(t, x)' = CarrierConn(t, x))
  BY <1>1, <1>2, CalmCarriers
<1>4. QED
  BY <1>1, <1>3, StreamSame DEF GetsRestricted

LEMMA InitStream == Init => StreamInv
<1> SUFFICES ASSUME Init PROVE StreamInv
  OBVIOUS
<1>1. DOMAIN gets = {} /\ DOMAIN queue = {} /\ wk = [w \in Worker |-> Fresh]
  BY DEF Init
<1>2. \A t, x, k : ~ Carrier(t, x, k)
  BY <1>1 DEF Carrier, Carries, Fresh
<1>3. QED
  BY <1>1, <1>2 DEF StreamInv, OneCarrier

\* A step that only takes continuations away, of downloads that are no longer
\* there or cannot be read, or when the server stops.
LEMMA StreamLoses ==
  ASSUME StreamInv, TypeInv, GetsRestricted,
         stopping => stopping', published' => published,
         \A k \in Nat \ {0} : \A t, x :
           Carrier(t, x, k)' => Carrier(t, x, k) /\ CarrierConn(t, x)' = CarrierConn(t, x),
         \A k \in DOMAIN gets' : \/ stopping' \/ ReadFails(gets'[k].offset)
                                 \/ \A t, x : Carrier(t, x, k) => Carrier(t, x, k)'
  PROVE  StreamInv'
<1>1. OneCarrier'
  BY DEF StreamInv, OneCarrier
<1>2. ASSUME NEW k \in DOMAIN gets'
      PROVE  Stream(k)'
  <2>1. k \in DOMAIN gets /\ gets'[k] = gets[k] /\ k \in Nat \ {0}
    BY <1>2, Now DEF GetsRestricted
  <2>2. Carried(k)' => Carried(k)
    BY <2>1 DEF Carried
  <2>3. ReadFails(gets'[k].offset) => ReadFails(gets[k].offset)'
    BY <2>1 DEF ReadFails
  <2>4. ReadFails(gets[k].offset) => ReadFails(gets[k].offset)'
    BY <2>1 DEF ReadFails
  <2>5. (~ stopping => ReadFails(gets[k].offset) \/ Carried(k))'
    BY <2>1, <2>3, <2>4 DEF StreamInv, Stream, Carried
  <2>6. QED
    BY <2>1, <2>2, <2>5 DEF StreamInv, Stream
<1>3. QED
  BY <1>1, <1>2 DEF StreamInv

\* What carries a continuation after a worker has got a result.
LEMMA ResultCarriers ==
  ASSUME TypeInv, NEW w \in Worker, NEW out \in Seq(FrameType), NEW close \in BOOLEAN, NEW key \in Nat,
         Result(w, out, close, key), UNCHANGED queue, wk[w].pc \in {"handle", "continue"}
  PROVE  \A k \in Nat \ {0} : \A t, x :
           /\ ~ (t = "worker" /\ x = w) =>
                /\ Carrier(t, x, k)' <=> Carrier(t, x, k)
                /\ Carrier(t, x, k) => CarrierConn(t, x)' = CarrierConn(t, x)
           /\ Carrier("worker", w, k)' <=> k = key
           /\ CarrierConn("worker", w)' = wk[w].task.conn
           /\ Carrier("worker", w, k) <=> wk[w].pc = "continue" /\ wk[w].task.key = k
<1>1. /\ \A v \in Worker \ {w} : wk'[v] = wk[v]
      /\ wk'[w].task = wk[w].task /\ wk'[w].key = key
      /\ wk'[w].pc = IF key = 0 THEN "complete" ELSE "enqueue"
  BY ResultStep
<1>2. \A v \in Worker \ {w} : \A k : Carries(v, k)' <=> Carries(v, k)
  BY <1>1 DEF Carries
<1>3. \A k \in Nat \ {0} : Carries(w, k)' <=> k = key
  BY <1>1 DEF Carries
<1>4. \A k \in Nat \ {0} : Carries(w, k) <=> wk[w].pc = "continue" /\ wk[w].task.key = k
  BY DEF Carries
<1>5. ASSUME NEW k \in Nat \ {0}, NEW t, NEW x, ~ (t = "worker" /\ x = w)
      PROVE  (Carrier(t, x, k)' <=> Carrier(t, x, k))
  BY <1>2, <1>5 DEF Carrier
<1>6. ASSUME NEW k \in Nat \ {0}, NEW t, NEW x, ~ (t = "worker" /\ x = w), Carrier(t, x, k)
      PROVE  CarrierConn(t, x)' = CarrierConn(t, x)
  BY <1>1, <1>6 DEF CarrierConn, Carrier
<1>7. QED
  BY ZenonT(60), <1>1, <1>3, <1>4, <1>5, <1>6 DEF Carrier, CarrierConn

LEMMA StreamPing ==
  ASSUME StreamInv, TypeInv, NEW w \in Worker, handle_ping(w) \/ handle_close(w)
  PROVE  StreamInv'
<1>1. wk[w].pc = "handle" /\ UNCHANGED <<gets, queue, get_seq, published, stopping>>
  BY DEF handle_ping, handle_close
<1>2. PICK out \in Seq(FrameType), close \in BOOLEAN : Result(w, out, close, 0)
  <2>1. wk[w] \in WorkerType /\ wk[w].task.req # 0
    BY <1>1, Now DEF TypeInv, LocalOK
  <2>2. Frame("OK", wk[w].task.req, 0) \in FrameType
    BY <2>1, FrameIn DEF WorkerType, TaskType
  <2>3. <<Frame("OK", wk[w].task.req, 0)>> \in Seq(FrameType)
    BY <2>2, OnlyOne
  <2>4. QED
    BY <2>3 DEF handle_ping, handle_close
<1>3. \A k \in Nat \ {0} : \A t, x :
        Carrier(t, x, k)' <=> Carrier(t, x, k)
  BY <1>1, <1>2, ResultCarriers
<1>4. \A k \in Nat \ {0} : \A t, x : Carrier(t, x, k) => CarrierConn(t, x)' = CarrierConn(t, x)
  BY <1>1, <1>2, ResultCarriers
<1>5. QED
  BY <1>1, <1>3, <1>4, StreamSame DEF GetsRestricted

LEMMA StreamGet ==
  ASSUME StreamInv, TypeInv, NEW w \in Worker, handle_get(w)
  PROVE  StreamInv'
<1> DEFINE t == wk[w].task
           n == ReadLength(t.offset, t.length)
           state == [conn |-> t.conn, req |-> t.req, offset |-> t.offset, remaining |-> t.length,
                     sent |-> 0]
<1>1. /\ t.conn \in Conn /\ t.req \in Nat \ {0} /\ t.offset \in Nat /\ t.length \in Nat
      /\ wk[w].pc = "handle"
      /\ UNCHANGED <<client, wire, conns, queue, done, published, io, stopping, stopper>>
  BY HandleGetCases
<1>2. PICK key \in Nat \ {0} : key = get_seq
  BY Now
<1>3. \A k \in DOMAIN gets : k \in Nat \ {0} /\ k # key
  BY <1>2, Now
<1>4. \A u, x : ~ Carrier(u, x, key)
  BY <1>2, KeysGiven, Now
<1>5. ASSUME NEW out \in Seq(FrameType), NEW close \in BOOLEAN, Result(w, out, close, 0)
      PROVE  \A k \in Nat \ {0} : \A u, x :
               /\ Carrier(u, x, k)' <=> Carrier(u, x, k)
               /\ Carrier(u, x, k) => CarrierConn(u, x)' = CarrierConn(u, x)
  BY <1>1, <1>5, ResultCarriers
<1>6. ASSUME NEW out \in Seq(FrameType), NEW close \in BOOLEAN, Result(w, out, close, 0),
             UNCHANGED gets
      PROVE  StreamInv'
  BY <1>1, <1>5, <1>6, StreamSame DEF GetsRestricted
<1>7. CASE t.length = 0 /\ Result(w, <<Frame("OK", t.req, 0)>>, FALSE, 0) /\ UNCHANGED gets
  <2>1. Frame("OK", t.req, 0) \in FrameType
    BY <1>1, FrameIn
  <2>2. <<Frame("OK", t.req, 0)>> \in Seq(FrameType)
    BY <2>1, OnlyOne
  <2>3. QED
    BY <1>6, <1>7, <2>2
<1>8. CASE /\ t.length # 0 /\ ReadFails(t.offset)
           /\ Result(w, <<Error("FAILED", t.req)>>, FALSE, 0)
           /\ gets' = AddGet(get_seq, state)
  <2>1. <<Error("FAILED", t.req)>> \in Seq(FrameType)
    BY <1>1, FrameIn, OnlyOne
  <2>2. \A k \in Nat \ {0} : \A u, x :
          /\ Carrier(u, x, k)' <=> Carrier(u, x, k)
          /\ Carrier(u, x, k) => CarrierConn(u, x)' = CarrierConn(u, x)
    BY <1>5, <1>8, <2>1
  <2>3. OneCarrier'
    BY <2>2 DEF StreamInv, OneCarrier
  <2>4. DOMAIN gets' = DOMAIN gets \cup {key} /\ gets'[key] = state
        /\ \A j \in DOMAIN gets : gets'[j] = gets[j]
    BY <1>2, <1>3, <1>8 DEF AddGet
  <2>5. state.offset = t.offset /\ state.sent = 0
    OBVIOUS
  <2> HIDE DEF state
  <2>6. ASSUME NEW k \in DOMAIN gets
        PROVE  Stream(k)'
    <3>1. k \in Nat \ {0} /\ gets'[k] = gets[k]
      BY <1>3, <2>4
    <3>2. QED
      BY <1>1, <2>2, <3>1, SameStream DEF StreamInv
  <2>7. Stream(key)'
    <3>1. \A u, x : ~ Carrier(u, x, key)'
      BY <1>4, <2>2
    <3>2. ReadFails(gets[key].offset)'
      BY <1>1, <1>8, <2>4, <2>5 DEF ReadFails
    <3>3. gets'[key].sent <= gets'[key].offset
      BY <1>1, <2>4, <2>5
    <3>4. QED
      BY <3>1, <3>2, <3>3 DEF Stream, Carried
  <2>8. QED
    BY <2>3, <2>4, <2>6, <2>7 DEF StreamInv
<1>9. CASE /\ t.length # 0 /\ ~ ReadFails(t.offset) /\ n = t.length
           /\ Result(w, Append(Data(t.req, t.offset, n), Frame("OK", t.req, n)), FALSE, 0)
           /\ UNCHANGED gets
  <2>1. n \in Nat
    BY <1>1, <1>9, ReadLengthType
  <2>2. Append(Data(t.req, t.offset, n), Frame("OK", t.req, n)) \in Seq(FrameType)
    BY <1>1, <2>1, FrameIn, AppendTo
  <2>3. QED
    BY <1>6, <1>9, <2>2
<1>10. CASE /\ t.length # 0 /\ ~ ReadFails(t.offset) /\ n # t.length
            /\ Result(w, Data(t.req, t.offset, n), FALSE, get_seq)
            /\ gets' = AddGet(get_seq, Advance(state, n))
  <2>1. n \in Nat /\ t.offset + n <= ArtifactSize
    BY <1>1, <1>10, ReadLengthType
  <2>2. Data(t.req, t.offset, n) \in Seq(FrameType)
    BY <1>1, <2>1, FrameIn
  <2>3. \A k \in Nat \ {0} : \A u, x :
          /\ ~ (u = "worker" /\ x = w) =>
               /\ Carrier(u, x, k)' <=> Carrier(u, x, k)
               /\ Carrier(u, x, k) => CarrierConn(u, x)' = CarrierConn(u, x)
          /\ Carrier("worker", w, k)' <=> k = key
          /\ ~ Carrier("worker", w, k)
          /\ CarrierConn("worker", w)' = t.conn
    <3>1. PICK out \in Seq(FrameType), close \in BOOLEAN : Result(w, out, close, key)
      BY <1>2, <1>10, <2>2
    <3>2. QED
      BY <1>1, <3>1, ResultCarriers
  <2>4. \A u, x : Carrier(u, x, key)' <=> u = "worker" /\ x = w
    BY <1>4, <2>3
  <2>5. \A k \in Nat \ {0} : k # key => \A u, x :
          /\ Carrier(u, x, k)' <=> Carrier(u, x, k)
          /\ Carrier(u, x, k) => CarrierConn(u, x)' = CarrierConn(u, x)
    BY <2>3
  <2>6. OneCarrier'
    BY <2>4, <2>5 DEF StreamInv, OneCarrier
  <2>7. /\ Advance(state, n).offset = t.offset + n /\ Advance(state, n).sent = 0 + n
        /\ Advance(state, n).conn = t.conn
    <3>1. state \in GetType
      BY <1>1, <1>10 DEF GetType
    <3>2. QED
      BY <2>1, <3>1, AdvanceIs
  <2>8. DOMAIN gets' = DOMAIN gets \cup {key} /\ gets'[key] = Advance(state, n)
        /\ \A j \in DOMAIN gets : gets'[j] = gets[j]
    BY <1>2, <1>3, <1>10 DEF AddGet
  <2> HIDE DEF state, n
  <2>9. ASSUME NEW k \in DOMAIN gets
        PROVE  Stream(k)'
    <3>1. k \in Nat \ {0} /\ k # key /\ gets'[k] = gets[k]
      BY <1>3, <2>8
    <3>2. QED
      BY <1>1, <2>5, <3>1, SameStream DEF StreamInv
  <2>10. Stream(key)'
    <3>1. \A u, x : Carrier(u, x, key)' => CarrierConn(u, x)' = gets'[key].conn
      BY <2>3, <2>4, <2>7, <2>8
    <3>2. Carried(key)'
      BY <2>4 DEF Carried
    <3>3. gets'[key].offset <= ArtifactSize /\ gets'[key].sent <= gets'[key].offset
      BY <1>1, <2>1, <2>7, <2>8
    <3>4. QED
      BY <3>1, <3>2, <3>3 DEF Stream
  <2>11. QED
    BY <2>6, <2>8, <2>9, <2>10 DEF StreamInv
<1>11. QED
  BY <1>7, <1>8, <1>9, <1>10, HandleGetCases

LEMMA StreamContinue ==
  ASSUME StreamInv, TypeInv, NEW w \in Worker, handle_get_continue(w)
  PROVE  StreamInv'
<1> DEFINE g(k) == gets[k]
           n(k) == ReadLength(g(k).offset, g(k).remaining)
<1>1. PICK k \in Nat \ {0} : k = wk[w].task.key
  BY ContinueCases
<1>2. /\ wk[w].pc = "continue"
      /\ UNCHANGED <<client, wire, conns, queue, done, get_seq, published, io, stopping, stopper>>
  BY ContinueCases
<1>3. k \in DOMAIN gets => gets[k] \in GetType
  BY Now
<1>4. Carrier("worker", w, k)
  BY <1>1, <1>2 DEF Carrier, Carries
<1>5. \A u, x : Carrier(u, x, k) => u = "worker" /\ x = w
  BY <1>4 DEF StreamInv, OneCarrier
<1>6. ASSUME NEW out \in Seq(FrameType), NEW close \in BOOLEAN, Result(w, out, close, 0),
             GetsRestricted, k \in DOMAIN gets' => ReadFails(gets[k].offset)
      PROVE  StreamInv'
  <2>1. \A j \in Nat \ {0} : \A u, x :
          /\ ~ (u = "worker" /\ x = w) =>
               /\ Carrier(u, x, j)' <=> Carrier(u, x, j)
               /\ Carrier(u, x, j) => CarrierConn(u, x)' = CarrierConn(u, x)
          /\ Carrier("worker", w, j)' <=> j = 0
          /\ Carrier("worker", w, j) <=> j = k
    BY <1>1, <1>2, <1>6, ResultCarriers
  <2>2. \A j \in Nat \ {0} : \A u, x :
          Carrier(u, x, j)' => Carrier(u, x, j) /\ CarrierConn(u, x)' = CarrierConn(u, x)
    BY <2>1
  <2>3. \A j \in DOMAIN gets' : \/ stopping' \/ ReadFails(gets'[j].offset)
                                \/ \A u, x : Carrier(u, x, j) => Carrier(u, x, j)'
    <3>1. \A j \in DOMAIN gets' : j \in DOMAIN gets /\ j \in Nat \ {0} /\ gets'[j] = gets[j]
      BY <1>6, Now DEF GetsRestricted
    <3>2. QED
      BY <1>6, <2>1, <3>1
  <2>4. QED
    BY <1>2, <1>6, <2>2, <2>3, StreamLoses
<1>7. k \in DOMAIN gets /\ ~ ReadFails(g(k).offset) =>
        /\ n(k) \in Nat /\ g(k).offset + n(k) <= ArtifactSize
        /\ Data(g(k).req, g(k).offset, n(k)) \in Seq(FrameType)
  <2> SUFFICES ASSUME k \in DOMAIN gets, ~ ReadFails(g(k).offset)
               PROVE  /\ n(k) \in Nat /\ g(k).offset + n(k) <= ArtifactSize
                      /\ Data(g(k).req, g(k).offset, n(k)) \in Seq(FrameType)
    OBVIOUS
  <2>1. g(k).offset \in Nat /\ g(k).remaining \in Nat /\ g(k).req \in Nat \ {0}
    BY <1>3 DEF GetType
  <2>2. n(k) \in Nat /\ g(k).offset + n(k) <= ArtifactSize
    BY <2>1, ReadLengthType
  <2>3. QED
    BY <2>1, <2>2, FrameIn
<1>8. CASE k \notin DOMAIN gets /\ Result(w, <<>>, FALSE, 0) /\ UNCHANGED gets
  <2>1. <<>> \in Seq(FrameType)
    OBVIOUS
  <2>2. QED
    BY <1>6, <1>8, <2>1 DEF GetsRestricted
<1>9. CASE /\ k \in DOMAIN gets /\ ReadFails(g(k).offset)
           /\ Result(w, <<Error("FAILED", wk[w].task.req)>>, FALSE, 0) /\ UNCHANGED gets
  <2>1. wk[w].task.req \in Nat
    BY Now DEF WorkerType, TaskType
  <2>2. <<Error("FAILED", wk[w].task.req)>> \in Seq(FrameType)
    BY <2>1, FrameIn, OnlyOne
  <2>3. QED
    BY <1>6, <1>9, <2>2 DEF GetsRestricted
<1>10. CASE /\ k \in DOMAIN gets /\ ~ ReadFails(g(k).offset) /\ (n(k) = g(k).remaining \/ n(k) = 0)
            /\ Result(w, Append(Data(g(k).req, g(k).offset, n(k)),
                                Frame("OK", g(k).req, Advance(g(k), n(k)).sent)), FALSE, 0)
            /\ gets' = EraseGet(k)
  <2>1. g(k).sent + n(k) \in Nat /\ g(k).req \in Nat \ {0} /\ Advance(g(k), n(k)).sent = g(k).sent + n(k)
    <3> HIDE DEF g, n
    <3>1. g(k) \in GetType /\ n(k) \in Nat
      BY <1>3, <1>7, <1>10 DEF g
    <3>2. QED
      BY <3>1, AdvanceIs DEF GetType
  <2>2. PICK out \in Seq(FrameType), close \in BOOLEAN : Result(w, out, close, 0)
    <3> HIDE DEF g, n
    <3>1. Frame("OK", g(k).req, g(k).sent + n(k)) \in FrameType
      BY <2>1, FrameIn
    <3>2. Append(Data(g(k).req, g(k).offset, n(k)),
                                Frame("OK", g(k).req, Advance(g(k), n(k)).sent)) \in Seq(FrameType)
      BY <1>7, <1>10, <2>1, <3>1, AppendTo
    <3>3. QED
      BY <1>10, <3>2
  <2>3. GetsRestricted /\ k \notin DOMAIN gets'
    BY <1>10 DEF GetsRestricted, EraseGet
  <2>4. QED
    BY <1>6, <2>2, <2>3
<1>11. CASE /\ k \in DOMAIN gets /\ ~ ReadFails(g(k).offset) /\ n(k) # g(k).remaining /\ n(k) # 0
            /\ Result(w, Data(g(k).req, g(k).offset, n(k)), FALSE, k)
            /\ gets' = [gets EXCEPT ![k] = Advance(g(k), n(k))]
  <2>1. \A j \in Nat \ {0} : \A u, x :
          /\ ~ (u = "worker" /\ x = w) =>
               /\ Carrier(u, x, j)' <=> Carrier(u, x, j)
               /\ Carrier(u, x, j) => CarrierConn(u, x)' = CarrierConn(u, x)
          /\ Carrier("worker", w, j)' <=> j = k
          /\ CarrierConn("worker", w)' = wk[w].task.conn
          /\ Carrier("worker", w, j) <=> j = k
    <3>1. PICK out \in Seq(FrameType), close \in BOOLEAN : Result(w, out, close, k)
      BY <1>7, <1>11
    <3>2. QED
      BY <1>1, <1>2, <3>1, ResultCarriers
  <2>2. CarrierConn("worker", w) = wk[w].task.conn
    BY DEF CarrierConn
  <2>3. \A j \in Nat \ {0} : \A u, x :
          /\ Carrier(u, x, j)' <=> Carrier(u, x, j)
          /\ Carrier(u, x, j) => CarrierConn(u, x)' = CarrierConn(u, x)
    BY <2>1, <2>2
  <2>4. OneCarrier'
    BY <2>3 DEF StreamInv, OneCarrier
  <2>5. /\ g(k) \in GetType /\ n(k) \in Nat /\ g(k).offset + n(k) <= ArtifactSize
        /\ Advance(g(k), n(k)).offset = g(k).offset + n(k) /\ Advance(g(k), n(k)).sent = g(k).sent + n(k)
        /\ Advance(g(k), n(k)).conn = g(k).conn
    <3>1. g(k) \in GetType /\ n(k) \in Nat /\ g(k).offset + n(k) <= ArtifactSize
      BY <1>3, <1>7, <1>11
    <3> HIDE DEF g, n
    <3>2. QED
      BY <3>1, AdvanceIs
  <2>6. DOMAIN gets' = DOMAIN gets /\ gets'[k] = Advance(g(k), n(k))
        /\ \A j \in DOMAIN gets : j # k => gets'[j] = gets[j]
    BY <1>11
  <2>7. ASSUME NEW j \in DOMAIN gets, j # k
        PROVE  Stream(j)'
    <3>1. j \in Nat \ {0} /\ gets'[j] = gets[j]
      BY <2>6, <2>7, Now
    <3>2. QED
      BY <1>2, <2>3, <3>1, SameStream DEF StreamInv
  <2>8. Stream(k) /\ g(k) = gets[k]
    BY <1>11 DEF StreamInv
  <2> HIDE DEF g, n
  <2>9. Stream(k)'
    <3>1. \A u, x : Carrier(u, x, k)' => CarrierConn(u, x)' = gets'[k].conn
      BY <2>3, <2>5, <2>6, <2>8 DEF Stream
    <3>2. Carried(k)'
      BY <1>4, <2>3 DEF Carried
    <3>3. gets'[k].offset <= ArtifactSize /\ gets'[k].sent <= gets'[k].offset
      <4>1. g(k).sent <= g(k).offset /\ g(k).sent \in Nat /\ g(k).offset \in Nat
        BY <2>5, <2>8 DEF Stream, GetType
      <4>2. QED
        BY <2>5, <2>6, <4>1
    <3>4. QED
      BY <3>1, <3>2, <3>3 DEF Stream
  <2>10. QED
    BY <2>4, <2>6, <2>7, <2>9 DEF StreamInv
<1>12. QED
  BY <1>1, <1>8, <1>9, <1>10, <1>11, ContinueCases

LEMMA PopStep ==
  ASSUME TypeInv, NEW w \in Worker, pop_task(w)
  PROVE  /\ queue \in Seq(TaskType) /\ queue # <<>> /\ queue' = Tail(queue) /\ 1 \in DOMAIN queue
         /\ wk[w].pc = "pop" /\ wk'[w].task = queue[1]
         /\ wk'[w].pc = IF queue[1].kind = "CONTINUE" THEN "continue" ELSE "lookup"
         /\ wk' \in [Worker -> WorkerType] /\ \A v \in Worker \ {w} : wk'[v] = wk[v]
         /\ UNCHANGED <<client, wire, conns, done, gets, get_seq, published, io, stopping, stopper>>
<1> DEFINE u == [Fresh EXCEPT !.task = Head(queue), !.pc = IF Head(queue).kind = "CONTINUE" THEN "continue" ELSE "lookup"]
<1>1. queue \in Seq(TaskType) /\ queue # <<>> /\ queue' = Tail(queue) /\ wk' = [wk EXCEPT ![w] = u]
      /\ wk[w].pc = "pop"
  BY Now DEF pop_task
<1>2. Head(queue) = queue[1] /\ Head(queue) \in TaskType /\ 1 \in DOMAIN queue
  BY <1>1, HeadOf, TailIs
<1>3. u \in WorkerType /\ u.task = Head(queue) /\ u.pc = IF Head(queue).kind = "CONTINUE" THEN "continue" ELSE "lookup"
  BY <1>2, FreshType, Places DEF Fresh, WorkerType
<1> HIDE DEF u
<1>4. wk' \in [Worker -> WorkerType] /\ wk'[w] = u /\ \A v \in Worker \ {w} : wk'[v] = wk[v]
  BY <1>1, <1>3, Now
<1>5. UNCHANGED <<client, wire, conns, done, gets, get_seq, published, io, stopping, stopper>>
  BY DEF pop_task
<1>6. QED
  BY <1>1, <1>2, <1>3, <1>4, <1>5

LEMMA StreamPop ==
  ASSUME StreamInv, TypeInv, NEW w \in Worker, pop_task(w)
  PROVE  StreamInv'
<1>1. /\ queue \in Seq(TaskType) /\ queue # <<>> /\ queue' = Tail(queue) /\ 1 \in DOMAIN queue
      /\ wk[w].pc = "pop" /\ wk'[w].task = queue[1]
      /\ wk'[w].pc = IF queue[1].kind = "CONTINUE" THEN "continue" ELSE "lookup"
      /\ \A v \in Worker \ {w} : wk'[v] = wk[v]
      /\ UNCHANGED <<gets, get_seq, published, stopping>>
  BY PopStep
<1>2. QueuedOK(queue[1])
  BY <1>1, Now
<1>3. /\ DOMAIN queue' = {i \in Nat \ {0} : i + 1 \in DOMAIN queue}
      /\ \A i \in DOMAIN queue' : queue'[i] = queue[i + 1]
      /\ \A i \in DOMAIN queue : i = 1 \/ (i - 1 \in DOMAIN queue' /\ queue'[i - 1] = queue[i])
  BY <1>1, TailIs
<1>4. \A k \in Nat \ {0} : \A x :
        Carrier("queue", x, k)' =>
          /\ x \in Nat \ {0} /\ Carrier("queue", x + 1, k)
          /\ CarrierConn("queue", x)' = CarrierConn("queue", x + 1)
  BY <1>3 DEF Carrier, CarrierConn
<1>5. \A k \in Nat \ {0} : \A x :
        x # w => /\ Carrier("worker", x, k)' <=> Carrier("worker", x, k)
                 /\ Carrier("worker", x, k) => CarrierConn("worker", x)' = CarrierConn("worker", x)
  BY <1>1 DEF Carrier, CarrierConn, Carries
<1>6. \A k \in Nat \ {0} :
        /\ Carrier("worker", w, k)' <=> Carrier("queue", 1, k)
        /\ CarrierConn("worker", w)' = CarrierConn("queue", 1)
        /\ ~ Carrier("worker", w, k)
  BY <1>1, <1>2 DEF Carrier, CarrierConn, Carries, QueuedOK
<1>7. \A k, t, x : Carrier(t, x, k)' => t \in {"queue", "worker"}
  BY DEF Carrier
<1>8. \A k, t, x : Carrier(t, x, k) => t \in {"queue", "worker"}
  BY DEF Carrier
<1>9. OneCarrier'
  <2> SUFFICES ASSUME NEW k \in Nat \ {0}, NEW t, NEW x, NEW u, NEW y, Carrier(t, x, k)', Carrier(u, y, k)'
               PROVE  t = u /\ x = y
    BY DEF OneCarrier
  <2>1. \A a, p, b, q : Carrier(a, p, k) /\ Carrier(b, q, k) => a = b /\ p = q
    BY DEF StreamInv, OneCarrier
  <2>2. CASE t = "queue" /\ u = "queue"
    BY <1>4, <2>1, <2>2
  <2>3. CASE t = "queue" /\ u = "worker"
    <3>1. x \in Nat \ {0} /\ Carrier("queue", x + 1, k)
      BY <1>4, <2>3
    <3>2. CASE y = w
      BY <1>6, <2>1, <2>3, <3>1, <3>2
    <3>3. CASE y # w
      BY <1>5, <2>1, <2>3, <3>1, <3>3
    <3>4. QED
      BY <3>2, <3>3
  <2>4. CASE t = "worker" /\ u = "queue"
    <3>1. y \in Nat \ {0} /\ Carrier("queue", y + 1, k)
      BY <1>4, <2>4
    <3>2. CASE x = w
      BY <1>6, <2>1, <2>4, <3>1, <3>2
    <3>3. CASE x # w
      BY <1>5, <2>1, <2>4, <3>1, <3>3
    <3>4. QED
      BY <3>2, <3>3
  <2>5. CASE t = "worker" /\ u = "worker"
    <3>1. CASE x = w /\ y # w
      BY <1>5, <1>6, <2>1, <2>5, <3>1
    <3>2. CASE y = w /\ x # w
      BY <1>5, <1>6, <2>1, <2>5, <3>2
    <3>3. CASE x # w /\ y # w
      BY <1>5, <2>1, <2>5, <3>3
    <3>4. QED
      BY <2>5, <3>1, <3>2, <3>3
  <2>6. QED
    BY <1>7, <2>2, <2>3, <2>4, <2>5
<1>10. ASSUME NEW k \in DOMAIN gets
       PROVE  Stream(k)'
  <2>1. k \in Nat \ {0} /\ gets' = gets /\ stopping' = stopping /\ Stream(k)
    BY <1>1, Now DEF StreamInv
  <2>2. \A t, x : Carrier(t, x, k)' => CarrierConn(t, x)' = gets[k].conn
    <3> SUFFICES ASSUME NEW t, NEW x, Carrier(t, x, k)' PROVE CarrierConn(t, x)' = gets[k].conn
      OBVIOUS
    <3>1. CASE t = "queue"
      BY <1>4, <2>1, <3>1 DEF Stream
    <3>2. CASE t = "worker" /\ x = w
      BY <1>6, <2>1, <3>2 DEF Stream
    <3>3. CASE t = "worker" /\ x # w
      BY <1>5, <2>1, <3>3 DEF Stream
    <3>4. QED
      BY <1>7, <3>1, <3>2, <3>3
  <2>3. Carried(k)' => Carried(k)
    <3> SUFFICES ASSUME NEW t, NEW x, Carrier(t, x, k)' PROVE Carried(k)
      BY DEF Carried
    <3>1. CASE t = "queue"
      BY <1>4, <2>1, <3>1 DEF Carried
    <3>2. CASE t = "worker" /\ x = w
      BY <1>6, <2>1, <3>2 DEF Carried
    <3>3. CASE t = "worker" /\ x # w
      BY <1>5, <2>1, <3>3 DEF Carried
    <3>4. QED
      BY <1>7, <3>1, <3>2, <3>3
  <2>4. Carried(k) => Carried(k)'
    <3> SUFFICES ASSUME NEW t, NEW x, Carrier(t, x, k) PROVE Carried(k)'
      BY DEF Carried
    <3>1. CASE t = "queue" /\ x = 1
      BY <1>6, <2>1, <3>1 DEF Carried
    <3>2. CASE t = "queue" /\ x # 1
      <4>1. Carrier("queue", x - 1, k)'
        BY <1>3, <3>2 DEF Carrier
      <4>2. QED
        BY <4>1 DEF Carried
    <3>3. CASE t = "worker"
      BY <1>5, <1>6, <2>1, <3>3 DEF Carried
    <3>4. QED
      BY <1>8, <3>1, <3>2, <3>3
  <2>5. ReadFails(gets[k].offset) => ReadFails(gets[k].offset)'
    BY <1>1 DEF ReadFails
  <2>6. QED
    BY <2>1, <2>2, <2>3, <2>4, <2>5 DEF Stream
<1>11. QED
  BY <1>1, <1>9, <1>10 DEF StreamInv

LEMMA StreamEnqueue ==
  ASSUME StreamInv, TypeInv, NEW w \in Worker, enqueue(w)
  PROVE  StreamInv'
<1>1. wk[w].pc = "enqueue" /\ UNCHANGED <<gets, get_seq, published, stopping>>
  BY EnqueueStep
<1>2. queue \in Seq(TaskType) /\ wk[w] \in WorkerType
  BY Now
<1>3. \A k \in Nat \ {0} : Carrier("worker", w, k) <=> wk[w].key = k
  BY <1>1 DEF Carrier, Carries
<1>4. CASE UNCHANGED queue /\ AllCalm(wk', wk)
  BY <1>1, <1>4, StreamQuiet DEF GetsRestricted
<1>5. ASSUME wk'[w] = [wk[w] EXCEPT !.pc = "complete"], \A v \in Worker \ {w} : Calm(wk'[v], wk[v])
      PROVE  \A k \in Nat \ {0} : \A x :
               /\ ~ Carrier("worker", w, k)'
               /\ x # w => /\ Carrier("worker", x, k)' <=> Carrier("worker", x, k)
                           /\ Carrier("worker", x, k) => CarrierConn("worker", x)' = CarrierConn("worker", x)
  <2>1. wk'[w].pc = "complete"
    BY <1>2, <1>5 DEF WorkerType
  <2>2. \A k \in Nat \ {0} : ~ Carrier("worker", w, k)'
    BY <2>1 DEF Carrier, Carries
  <2>3. ASSUME NEW k \in Nat \ {0}, NEW x \in Worker \ {w}
        PROVE  (Carries(x, k)' <=> Carries(x, k)) /\ wk'[x].task.conn = wk[x].task.conn
    BY <1>5, CalmCarries
  <2>4. QED
    BY <2>2, <2>3 DEF Carrier, CarrierConn
<1>6. CASE /\ queue' = queue /\ stopping
           /\ wk'[w] = [wk[w] EXCEPT !.pc = "complete"] /\ \A v \in Worker \ {w} : Calm(wk'[v], wk[v])
  <2>1. \A k \in Nat \ {0} : \A x : Carrier("queue", x, k)' <=> Carrier("queue", x, k)
    BY <1>6 DEF Carrier
  <2>2. \A x : CarrierConn("queue", x)' = CarrierConn("queue", x)
    BY <1>6 DEF CarrierConn
  <2>3. \A k \in Nat \ {0} : \A t, x :
          Carrier(t, x, k)' => Carrier(t, x, k) /\ CarrierConn(t, x)' = CarrierConn(t, x)
    <3> SUFFICES ASSUME NEW k \in Nat \ {0}, NEW t, NEW x, Carrier(t, x, k)'
                 PROVE  Carrier(t, x, k) /\ CarrierConn(t, x)' = CarrierConn(t, x)
      OBVIOUS
    <3>1. t = "queue" \/ t = "worker"
      BY DEF Carrier
    <3>2. QED
      BY <1>5, <1>6, <2>1, <2>2, <3>1
  <2>4. QED
    BY <1>1, <1>6, <2>3, StreamLoses DEF GetsRestricted
<1>7. CASE /\ queue' = Append(queue, Continuation(wk[w].task.conn, wk[w].key)) /\ ~ stopping
           /\ wk'[w] = [wk[w] EXCEPT !.pc = "complete"] /\ \A v \in Worker \ {w} : Calm(wk'[v], wk[v])
  <2> DEFINE new == Continuation(wk[w].task.conn, wk[w].key)
             last == Len(queue) + 1
  <2>1. new.key = wk[w].key /\ new.conn = wk[w].task.conn
    BY DEF Continuation
  <2>2. queue' = Append(queue, new)
    BY <1>7
  <2> HIDE DEF new
  <2>3. /\ DOMAIN queue' = DOMAIN queue \cup {last} /\ last \notin DOMAIN queue
        /\ \A i \in DOMAIN queue : queue'[i] = queue[i]
        /\ queue'[last] = new
    BY <1>2, <2>2, AppendIs
  <2> HIDE DEF last
  <2>4. PICK l : l = last
    OBVIOUS
  <2>5. \A k \in Nat \ {0} : \A x :
          x # l => /\ Carrier("queue", x, k)' <=> Carrier("queue", x, k)
                   /\ Carrier("queue", x, k) => CarrierConn("queue", x)' = CarrierConn("queue", x)
    BY <2>3, <2>4 DEF Carrier, CarrierConn
  <2>6. \A k \in Nat \ {0} :
          /\ Carrier("queue", l, k)' <=> Carrier("worker", w, k)
          /\ CarrierConn("queue", l)' = CarrierConn("worker", w)
          /\ ~ Carrier("queue", l, k)
    BY <1>3, <2>1, <2>3, <2>4 DEF Carrier, CarrierConn
  <2>7. \A k \in Nat \ {0} : \A x :
          /\ ~ Carrier("worker", w, k)'
          /\ x # w => /\ Carrier("worker", x, k)' <=> Carrier("worker", x, k)
                      /\ Carrier("worker", x, k) => CarrierConn("worker", x)' = CarrierConn("worker", x)
    BY <1>5, <1>7
  <2>8. \A k, t, x : Carrier(t, x, k)' => t \in {"queue", "worker"}
    BY DEF Carrier
  <2>9. \A k, t, x : Carrier(t, x, k) => t \in {"queue", "worker"}
    BY DEF Carrier
  \* Where a continuation was before.
  <2>10. ASSUME NEW k \in Nat \ {0}, NEW t, NEW x, Carrier(t, x, k)'
         PROVE  \/ t = "queue" /\ x = l /\ Carrier("worker", w, k) /\ CarrierConn(t, x)' = CarrierConn("worker", w)
                \/ /\ ~ (t = "queue" /\ x = l) /\ ~ (t = "worker" /\ x = w)
                   /\ Carrier(t, x, k) /\ CarrierConn(t, x)' = CarrierConn(t, x)
    BY <2>5, <2>6, <2>7, <2>8, <2>10
  <2>11. OneCarrier'
    <3> SUFFICES ASSUME NEW k \in Nat \ {0}, NEW t, NEW x, NEW u, NEW y, Carrier(t, x, k)', Carrier(u, y, k)'
                 PROVE  t = u /\ x = y
      BY DEF OneCarrier
    <3>1. \A a, p, b, q : Carrier(a, p, k) /\ Carrier(b, q, k) => a = b /\ p = q
      BY DEF StreamInv, OneCarrier
    <3>2. QED
      BY <2>10, <3>1
  <2>12. ASSUME NEW k \in DOMAIN gets
         PROVE  Stream(k)'
    <3>1. k \in Nat \ {0} /\ gets' = gets /\ stopping' = stopping /\ Stream(k)
      BY <1>1, Now DEF StreamInv
    <3>2. \A t, x : Carrier(t, x, k)' => CarrierConn(t, x)' = gets[k].conn
      BY <2>10, <3>1 DEF Stream
    <3>3. Carried(k)' => Carried(k)
      BY <2>10, <3>1 DEF Carried
    <3>4. Carried(k) => Carried(k)'
      <4> SUFFICES ASSUME NEW t, NEW x, Carrier(t, x, k) PROVE Carried(k)'
        BY DEF Carried
      <4>1. CASE t = "worker" /\ x = w
        BY <2>6, <3>1, <4>1 DEF Carried
      <4>2. CASE ~ (t = "worker" /\ x = w)
        <5>1. Carrier(t, x, k)'
          BY <2>5, <2>6, <2>7, <2>9, <3>1, <4>2
        <5>2. QED
          BY <5>1 DEF Carried
      <4>3. QED
        BY <4>1, <4>2
    <3>5. ReadFails(gets[k].offset) => ReadFails(gets[k].offset)'
      BY <1>1 DEF ReadFails
    <3>6. QED
      BY <3>1, <3>2, <3>3, <3>4, <3>5 DEF Stream
  <2>13. QED
    BY <1>1, <2>11, <2>12 DEF StreamInv
<1>8. QED
  BY <1>4, <1>6, <1>7, EnqueueStep

LEMMA StreamPush ==
  ASSUME StreamInv, TypeInv, NEW w \in Worker, push_completion(w)
  PROVE  StreamInv'
<1>1. wk[w].pc = "complete" /\ UNCHANGED <<queue, gets, get_seq, published, stopping>>
  BY PushStep
<1>2. CASE AllCalm(wk', wk)
  BY <1>1, <1>2, StreamQuiet DEF GetsRestricted
<1>3. CASE wk'[w].pc \in {"pop", "exited"} /\ \A v \in Worker \ {w} : Calm(wk'[v], wk[v])
  <2>1. \A k : ~ Carries(w, k) /\ ~ Carries(w, k)'
    BY <1>1, <1>3 DEF Carries
  <2>2. \A k : \A v \in Worker \ {w} : (Carries(v, k)' <=> Carries(v, k)) /\ wk'[v].task.conn = wk[v].task.conn
    BY <1>3, CalmCarries
  <2>3. \A k \in Nat \ {0} : \A t, x :
          /\ Carrier(t, x, k)' <=> Carrier(t, x, k)
          /\ Carrier(t, x, k) => CarrierConn(t, x)' = CarrierConn(t, x)
    BY <1>1, <2>1, <2>2 DEF Carrier, CarrierConn
  <2>4. QED
    BY <1>1, <2>3, StreamSame DEF GetsRestricted
<1>4. QED
  BY <1>2, <1>3, PushStep

LEMMA StreamStep == ASSUME StreamInv, TypeInv, [Next]_vars PROVE StreamInv'
<1>1. ASSUME NEW c \in Conn, Send(c) \/ Leave(c) \/ accept_new(c)
      PROVE  StreamInv'
  <2>1. UNCHANGED <<get_seq, queue, gets, wk, stopping, published>>
    BY <1>1 DEF Send, Leave, accept_new
  <2>2. QED
    BY <2>1, Now, StreamQuiet DEF GetsRestricted
<1>2. ASSUME NEW c \in Conn, on_eof(c) \/ on_writable(c)
      PROVE  StreamInv'
  <2>1. UNCHANGED <<get_seq, queue, wk, stopping, published>>
    BY <1>2 DEF on_eof, on_writable
  <2>2. GetsRestricted
    BY <1>2, FlushType, CloseType, Now DEF on_eof, on_writable
  <2>3. QED
    BY <2>1, <2>2, Now, StreamQuiet
<1>3. ASSUME NEW W \in SUBSET Conn, flush_writable(W) \/ sweep_idle(W)
      PROVE  StreamInv'
  <2>1. UNCHANGED <<get_seq, queue, wk, stopping, published>>
    BY <1>3 DEF flush_writable, sweep_idle
  <2>2. GetsRestricted
    BY <1>3, FlushType, CloseType, Now DEF flush_writable, sweep_idle
  <2>3. QED
    BY <2>1, <2>2, Now, StreamQuiet
<1>4. CASE Delete \/ events_handled \/ drain_completions \/ UNCHANGED vars
  <2>1. UNCHANGED <<get_seq, queue, gets, wk, stopping>> /\ (published' => published)
    BY <1>4 DEF Delete, events_handled, drain_completions, vars
  <2>2. QED
    BY <2>1, Now, StreamQuiet DEF GetsRestricted
<1>5. CASE stop \/ Stopping
  BY <1>5, StopStep, StreamQuiet DEF GetsRestricted
<1>6. ASSUME NEW w \in Worker,
             \/ WorkerQuiet(w) \/ pop_task(w) \/ handle_ping(w) \/ handle_close(w)
             \/ handle_get(w) \/ handle_get_continue(w) \/ enqueue(w) \/ push_completion(w)
      PROVE  StreamInv'
  <2>1. CASE WorkerQuiet(w)
    BY <2>1, WorkerQuietStep, StreamQuiet DEF GetsRestricted
  <2>2. QED
    BY <1>6, <2>1, StreamPop, StreamPing, StreamGet, StreamContinue, StreamEnqueue, StreamPush
<1>7. QED
  BY <1>1, <1>2, <1>3, <1>4, <1>5, <1>6, StreamOnFrame, Steps1

LEMMA Streams == Spec => [](TypeInv /\ StreamInv)
<1>1. Init => TypeInv /\ StreamInv
  BY InitType, InitStream
<1>2. TypeInv /\ StreamInv /\ [Next]_vars => (TypeInv /\ StreamInv)'
  BY TypeStep, StreamStep
<1>3. QED
  BY <1>1, <1>2, PTL DEF Spec

\* A set of which all elements are equal.
LEMMA AtMostOne ==
  ASSUME NEW S, \A x, y \in S : x = y
  PROVE  IsFiniteSet(S) /\ Cardinality(S) \in {0, 1} /\ (Cardinality(S) = 0 <=> S = {})
<1>1. CASE S = {}
  BY <1>1, FS_EmptySet
<1>2. CASE S # {}
  <2>1. PICK x : S = {x}
    BY <1>2
  <2>2. IsFiniteSet({x}) /\ Cardinality({x}) = 1
    BY FS_Singleton
  <2>3. IsFiniteSet(S) /\ Cardinality(S) = 1
    BY <2>1, <2>2
  <2>4. QED
    BY <1>2, <2>3
<1>3. QED
  BY <1>1, <1>2

\* A download that is registered and can be read is on its way: exactly one
\* continuation of it is queued or in a worker's hands (handle_get,
\* handle_get_continue and enqueue: it is queued before the slice is handed
\* over, and by one worker).
THEOREM StreamsAliveHolds == Spec => []StreamsAlive
<1>1. TypeInv /\ StreamInv => StreamsAlive
  <2> SUFFICES ASSUME TypeInv, StreamInv, ~ stopping, NEW k \in DOMAIN gets
               PROVE  InFlight(k) <= 1 /\ (ReadFails(gets[k].offset) \/ InFlight(k) = 1)
    BY DEF StreamsAlive
  <2> DEFINE Q == {i \in DOMAIN queue : queue[i].key = k}
             W == {w \in Worker : Carries(w, k)}
  <2>1. k \in Nat \ {0} /\ Stream(k)
    BY Now DEF StreamInv
  <2>2. \A t, x, u, y : Carrier(t, x, k) /\ Carrier(u, y, k) => t = u /\ x = y
    BY <2>1 DEF StreamInv, OneCarrier
  <2>3. /\ \A i \in Q : Carrier("queue", i, k)
        /\ \A w \in W : Carrier("worker", w, k)
    BY DEF Carrier
  <2>4. Q = {} \/ W = {}
    BY <2>2, <2>3
  <2>5. ReadFails(gets[k].offset) \/ Q # {} \/ W # {}
    <3>1. CASE ReadFails(gets[k].offset)
      BY <3>1
    <3>2. CASE Carried(k)
      <4>1. PICK t, x : Carrier(t, x, k)
        BY <3>2 DEF Carried
      <4>2. QED
        BY <4>1 DEF Carrier
    <3>3. QED
      BY <2>1, <3>1, <3>2 DEF Stream
  <2>6. (\A x, y \in Q : x = y) /\ (\A x, y \in W : x = y)
    BY <2>2, <2>3
  <2> HIDE DEF Q, W
  <2>7. /\ Cardinality(Q) \in {0, 1} /\ (Cardinality(Q) = 0 <=> Q = {})
        /\ Cardinality(W) \in {0, 1} /\ (Cardinality(W) = 0 <=> W = {})
    BY <2>6, AtMostOne
  <2>8. InFlight(k) = Cardinality(Q) + Cardinality(W)
    BY DEF InFlight, Q, W
  <2>9. QED
    BY <2>4, <2>5, <2>7, <2>8
<1>2. QED
  BY <1>1, Streams, PTL

\* While the server runs, no entry of gets outlives its connection and the
\* connection's last task, but for one whose read throws (on_connection_closed
\* and handle_get).
THEOREM GetsReleasedHolds == Spec => []GetsReleased
<1>1. TypeInv /\ StreamInv => GetsReleased
  <2> SUFFICES ASSUME TypeInv, StreamInv, ~ stopping, NEW k \in DOMAIN gets, ~ ReadFails(gets[k].offset)
               PROVE  HasTask(gets[k].conn)
    BY DEF GetsReleased
  <2>1. Stream(k)
    BY DEF StreamInv
  <2>2. PICK t, x : Carrier(t, x, k) /\ CarrierConn(t, x) = gets[k].conn
    BY <2>1 DEF Stream, Carried
  <2>3. CASE t = "queue" /\ x \in DOMAIN queue
    BY <2>2, <2>3 DEF HasTask, CarrierConn
  <2>4. CASE t = "worker" /\ x \in Worker /\ Carries(x, k)
    BY <2>2, <2>4 DEF HasTask, CarrierConn, Carries
  <2>5. QED
    BY <2>2, <2>3, <2>4 DEF Carrier
<1>2. QED
  BY <1>1, Streams, PTL
-----------------------------------------------------------------------------
(* What frames give.                                                       *)

LEMMA GivesIs ==
  /\ \A kind \in Final : \A req, n, r, b : Gives(Frame(kind, req, n), r, b) <=> r = req /\ b = Final1
  /\ \A req, n, r, b : ~ Gives(Frame("PROTOCOL", req, n), r, b)
BY DEF Gives, Frame, Final

LEMMA DataGives ==
  ASSUME NEW req \in Nat \ {0}, NEW offset \in Nat, NEW n \in Nat
  PROVE  /\ \A r \in Nat, b \in Int : GivenBy(Data(req, offset, n), r, b) <=> r = req /\ offset <= b /\ b < offset + n
         /\ Once(Data(req, offset, n))
<1> DEFINE f == [Frame("DATA", req, offset) EXCEPT !.len = n]
<1>1. f.kind = "DATA" /\ f.req = req /\ f.n = offset /\ f.len = n
  BY DEF Frame
<1>2. \A r \in Nat, b \in Int : Gives(f, r, b) <=> r = req /\ offset <= b /\ b < offset + n
  <2> HIDE DEF f
  <2>1. QED
    BY <1>1 DEF Gives, BytesOf, Final, Final1
<1>3. CASE n = 0
  BY <1>3 DEF Data, GivenBy, Once
<1>4. CASE n # 0
  <2>1. Data(req, offset, n) = <<f>>
    BY <1>4 DEF Data
  <2> HIDE DEF f
  <2>2. DOMAIN <<f>> = {1} /\ <<f>>[1] = f
    OBVIOUS
  <2>3. QED
    BY <1>2, <2>1, <2>2 DEF GivenBy, Once
<1>5. QED
  BY <1>3, <1>4

LEMMA OneGives ==
  ASSUME NEW f
  PROVE  /\ \A r, b : GivenBy(<<f>>, r, b) <=> Gives(f, r, b)
         /\ Once(<<f>>)
<1>1. DOMAIN <<f>> = {1} /\ <<f>>[1] = f
  OBVIOUS
<1>2. QED
  BY <1>1 DEF GivenBy, Once

LEMMA EmptyGives ==
  /\ \A r, b : ~ GivenBy(<<>>, r, b)
  /\ Once(<<>>)
BY DEF GivenBy, Once

LEMMA ConcatIs ==
  ASSUME NEW S, NEW s \in Seq(S), NEW u \in Seq(S)
  PROVE  /\ s \o u \in Seq(S)
         /\ \A i \in DOMAIN s : i \in DOMAIN (s \o u) /\ (s \o u)[i] = s[i]
         /\ \A i \in DOMAIN u : Len(s) + i \in DOMAIN (s \o u) /\ (s \o u)[Len(s) + i] = u[i]
         /\ \A i \in DOMAIN (s \o u) :
              \/ i \in DOMAIN s
              \/ i - Len(s) \in DOMAIN u /\ i \in Nat /\ (s \o u)[i] = u[i - Len(s)]
         /\ Len(s) \in Nat /\ DOMAIN s \subseteq Nat /\ DOMAIN u \subseteq Nat
OBVIOUS

LEMMA ConcatGives ==
  ASSUME NEW S, NEW s \in Seq(S), NEW u \in Seq(S)
  PROVE  /\ \A r, b : GivenBy(s \o u, r, b) <=> GivenBy(s, r, b) \/ GivenBy(u, r, b)
         /\ Once(s) /\ Once(u) /\ (\A r \in Nat, b \in Int : ~ (GivenBy(s, r, b) /\ GivenBy(u, r, b)))
              => Once(s \o u)
         /\ Once(s \o u) => Once(s) /\ Once(u)
<1> DEFINE su == s \o u
           L == Len(s)
<1>1. /\ \A i \in DOMAIN s : i \in DOMAIN su /\ su[i] = s[i]
      /\ \A i \in DOMAIN u : L + i \in DOMAIN su /\ su[L + i] = u[i]
      /\ \A i \in DOMAIN su :
              \/ i \in DOMAIN s
              \/ i - L \in DOMAIN u /\ i \in Nat /\ su[i] = u[i - L]
      /\ L \in Nat /\ DOMAIN s \subseteq Nat /\ DOMAIN u \subseteq Nat
  BY ConcatIs
<1> HIDE DEF su, L
<1>2. \A r, b : GivenBy(su, r, b) <=> GivenBy(s, r, b) \/ GivenBy(u, r, b)
  BY <1>1 DEF GivenBy
<1>3. ASSUME Once(s), Once(u), \A r \in Nat, b \in Int : ~ (GivenBy(s, r, b) /\ GivenBy(u, r, b))
      PROVE  Once(su)
  <2> SUFFICES ASSUME NEW i \in DOMAIN su, NEW j \in DOMAIN su, NEW r \in Nat, NEW b \in Int,
                      Gives(su[i], r, b), Gives(su[j], r, b)
               PROVE  i = j
    BY DEF Once
  <2>1. CASE i \in DOMAIN s /\ j \in DOMAIN s
    BY <1>1, <1>3, <2>1 DEF Once
  <2>2. CASE i \in DOMAIN s /\ j \notin DOMAIN s
    BY <1>1, <1>3, <2>2 DEF GivenBy
  <2>3. CASE i \notin DOMAIN s /\ j \in DOMAIN s
    BY <1>1, <1>3, <2>3 DEF GivenBy
  <2>4. CASE i \notin DOMAIN s /\ j \notin DOMAIN s
    <3>1. i - L \in DOMAIN u /\ j - L \in DOMAIN u /\ su[i] = u[i - L] /\ su[j] = u[j - L] /\ i \in Nat /\ j \in Nat
      BY <1>1, <2>4
    <3>2. i - L = j - L
      BY <1>3, <3>1 DEF Once
    <3>3. QED
      BY <1>1, <3>1, <3>2
  <2>5. QED
    BY <2>1, <2>2, <2>3, <2>4
<1>4. ASSUME Once(su)
      PROVE  Once(s) /\ Once(u)
  <2>1. Once(s)
    BY <1>1, <1>4 DEF Once
  <2>2. Once(u)
    <3> SUFFICES ASSUME NEW i \in DOMAIN u, NEW j \in DOMAIN u, NEW r \in Nat, NEW b \in Int,
                        Gives(u[i], r, b), Gives(u[j], r, b)
                 PROVE  i = j
      BY DEF Once
    <3>1. L + i = L + j
      BY <1>1, <1>4 DEF Once
    <3>2. QED
      BY <1>1, <3>1
  <2>3. QED
    BY <2>1, <2>2
<1>5. QED
  BY <1>2, <1>3, <1>4 DEF su

LEMMA AppendGives ==
  ASSUME NEW S, NEW s \in Seq(S), NEW f \in S
  PROVE  /\ \A r, b : GivenBy(Append(s, f), r, b) <=> GivenBy(s, r, b) \/ Gives(f, r, b)
         /\ Once(s) /\ (\A r \in Nat, b \in Int : ~ (GivenBy(s, r, b) /\ Gives(f, r, b)))
              => Once(Append(s, f))
<1>1. <<f>> \in Seq(S) /\ Append(s, f) = s \o <<f>>
  OBVIOUS
<1>2. /\ \A r, b : GivenBy(s \o <<f>>, r, b) <=> GivenBy(s, r, b) \/ GivenBy(<<f>>, r, b)
      /\ Once(s) /\ Once(<<f>>) /\ (\A r \in Nat, b \in Int : ~ (GivenBy(s, r, b) /\ GivenBy(<<f>>, r, b)))
              => Once(s \o <<f>>)
  BY <1>1, ConcatGives
<1>3. QED
  BY <1>1, <1>2, OneGives

\* The answer and the bytes of a read.
LEMMA DataThenOk ==
  ASSUME NEW req \in Nat \ {0}, NEW offset \in Nat, NEW n \in Nat, NEW total \in Nat
  PROVE  LET s == Append(Data(req, offset, n), Frame("OK", req, total)) IN
         /\ s \in Seq(FrameType)
         /\ \A r \in Nat, b \in Int :
              GivenBy(s, r, b) <=> r = req /\ (b = Final1 \/ (offset <= b /\ b < offset + n))
         /\ Once(s)
<1> DEFINE d == Data(req, offset, n)
           f == Frame("OK", req, total)
<1>1. d \in Seq(FrameType) /\ f \in FrameType
  BY FrameIn
<1>2. Append(d, f) \in Seq(FrameType)
  BY <1>1, AppendTo
<1>3. /\ \A r \in Nat, b \in Int : GivenBy(d, r, b) <=> r = req /\ offset <= b /\ b < offset + n
      /\ Once(d)
  BY DataGives
<1>4. \A r, b : Gives(f, r, b) <=> r = req /\ b = Final1
  BY GivesIs DEF Final
<1> HIDE DEF d, f
<1>5. \A r \in Nat, b \in Int : GivenBy(Append(d, f), r, b) <=> GivenBy(d, r, b) \/ Gives(f, r, b)
  BY <1>1, AppendGives
<1>6. \A r \in Nat, b \in Int : ~ (GivenBy(d, r, b) /\ Gives(f, r, b))
  BY <1>3, <1>4 DEF Final1
<1>7. Once(Append(d, f))
  BY <1>1, <1>3, <1>6, AppendGives
<1>8. QED
  BY <1>2, <1>3, <1>4, <1>5, <1>7 DEF d, f
-----------------------------------------------------------------------------
(* Steps that move no answer.                                              *)

\* What is written of a connection is kept, but for what was about to be
\* written when the connection is closed.
Kept(c) ==
  /\ Written(c)' = Written(c) \/ Written(c)' = wire[c]
  /\ Whole(c)' => Whole(c) /\ Written(c)' = Written(c)
QuietStep ==
  /\ UNCHANGED <<sent, inbox, queue, done, get_seq>>
  /\ AllCalm(wk', wk)
  /\ GetsRestricted
  /\ \A c \in Conn : Kept(c)

LEMMA SameKept ==
  ASSUME NEW c, wire'[c] = wire[c], conns'[c].outbox = conns[c].outbox,
         conns'[c].closing = conns[c].closing, conns[c].state = "closed" => conns'[c].state = "closed"
  PROVE  Kept(c)
BY DEF Kept, Written, Whole

LEMMA ClosedKept ==
  ASSUME TypeInv, NEW c \in Conn, wire'[c] = wire[c], conns'[c] = Closed
  PROVE  Kept(c)
<1>1. wire[c] \in Seq(FrameType)
  BY Now
<1>2. wire[c] \o <<>> = wire[c]
  BY <1>1
<1>3. QED
  BY <1>2 DEF Kept, Written, Whole, Closed

LEMMA CloseKept ==
  ASSUME TypeInv, NEW C \in SUBSET Conn, close_connections(C, conns), UNCHANGED wire
  PROVE  \A c \in Conn : Kept(c)
<1> TAKE c \in Conn
<1>1. conns'[c] = IF c \in C THEN Closed ELSE conns[c]
  BY DEF close_connections
<1>2. QED
  BY <1>1, SameKept, ClosedKept

LEMMA FlushKept ==
  ASSUME TypeInv, NEW W \in SUBSET Conn, flush_conns(W)
  PROVE  \A c \in Conn : Kept(c)
<1> DEFINE ready == {c \in W \cap Open : conns[c].outbox # <<>> \/ conns[c].closing}
           flushed == ready \ left
           ended == {c \in ready : c \in left \/ conns[c].closing}
           conns1 == [c \in Conn |-> IF c \in flushed THEN [conns[c] EXCEPT !.outbox = <<>>] ELSE conns[c]]
<1> SUFFICES ASSUME NEW c \in Conn PROVE Kept(c)
  OBVIOUS
<1>1. conns[c] \in ConnType /\ wire[c] \in Seq(FrameType)
  BY Now
<1>2. wire'[c] = IF c \in flushed THEN wire[c] \o conns[c].outbox ELSE wire[c]
  BY DEF flush_conns
<1>3. conns'[c] = IF c \in ended THEN Closed ELSE conns1[c]
  BY DEF flush_conns, close_connections
<1>4. c \in ended /\ c \notin flushed => c \in left
  OBVIOUS
<1>5. c \in flushed /\ c \notin ended => ~ conns[c].closing
  OBVIOUS
<1>6. conns1[c] = IF c \in flushed THEN [conns[c] EXCEPT !.outbox = <<>>] ELSE conns[c]
  OBVIOUS
<1> HIDE DEF ready, flushed, ended, conns1
<1>7. CASE c \in flushed
  <2>1. wire[c] \o conns[c].outbox \in Seq(FrameType)
    BY <1>1 DEF ConnType
  <2>2. conns'[c].outbox = <<>>
    BY <1>1, <1>3, <1>6, <1>7 DEF Closed, ConnType
  <2>3. (wire[c] \o conns[c].outbox) \o <<>> = wire[c] \o conns[c].outbox
    BY <2>1, ConcatEmpty
  <2>4. Written(c)' = Written(c)
    BY <1>2, <1>7, <2>2, <2>3 DEF Written
  <2>5. Whole(c)' => Whole(c)
    BY <1>1, <1>3, <1>6, <1>7 DEF Whole, Closed, ConnType
  <2>6. QED
    BY <2>4, <2>5 DEF Kept
<1>8. CASE c \notin flushed /\ c \in ended
  BY <1>2, <1>3, <1>8, ClosedKept
<1>9. CASE c \notin flushed /\ c \notin ended
  BY <1>2, <1>3, <1>6, <1>9, SameKept
<1>10. QED
  BY <1>7, <1>8, <1>9

LEMMA QuietSteps ==
  ASSUME TypeInv,
         \/ \E c \in Conn : Leave(c) \/ accept_new(c) \/ on_eof(c) \/ on_writable(c)
         \/ Delete \/ events_handled \/ UNCHANGED vars
         \/ \E W \in SUBSET Conn : flush_writable(W) \/ sweep_idle(W)
         \/ \E w \in Worker : WorkerQuiet(w)
         \/ stop \/ Stopping
  PROVE  QuietStep
<1>1. ASSUME NEW c \in Conn, Leave(c)
      PROVE  QuietStep
  <2>1. UNCHANGED <<sent, inbox, queue, done, get_seq, wk, gets, wire, conns>>
    BY <1>1 DEF Leave
  <2>2. QED
    BY <2>1, Now, SameKept DEF QuietStep, GetsRestricted
<1>2. CASE Delete \/ events_handled \/ UNCHANGED vars
  <2>1. UNCHANGED <<sent, inbox, queue, done, get_seq, wk, gets, wire, conns>>
    BY <1>2 DEF Delete, events_handled, vars, client
  <2>2. QED
    BY <2>1, Now, SameKept DEF QuietStep, GetsRestricted
<1>3. ASSUME NEW c \in Conn, accept_new(c)
      PROVE  QuietStep
  <2>1. UNCHANGED <<sent, inbox, queue, done, get_seq, wk, gets, wire>>
    BY <1>3 DEF accept_new, client
  <2>2. \A d \in Conn : Kept(d)
    <3> TAKE d \in Conn
    <3>1. conns[d] \in ConnType /\ conns \in [Conn -> ConnType]
      BY Now
    <3>2. \/ conns' = [conns EXCEPT ![c] = Closed]
          \/ conns' = [conns EXCEPT ![c].state = "open"] /\ conns[c].state = "connecting"
      BY <1>3 DEF accept_new
    <3>3. CASE d = c /\ conns' = [conns EXCEPT ![c] = Closed]
      BY <2>1, <3>1, <3>3, ClosedKept
    <3>4. CASE d = c /\ conns' = [conns EXCEPT ![c].state = "open"] /\ conns[c].state = "connecting"
      <4>1. conns'[d] = [conns[d] EXCEPT !.state = "open"]
        BY <3>1, <3>4
      <4>2. QED
        BY <2>1, <3>1, <3>4, <4>1, SameKept DEF ConnType
    <3>5. CASE d # c
      BY <2>1, <3>1, <3>2, <3>5, SameKept
    <3>6. QED
      BY <3>2, <3>3, <3>4, <3>5
  <2>3. QED
    BY <2>1, <2>2, Now DEF QuietStep, GetsRestricted
<1>4. ASSUME NEW c \in Conn, on_eof(c) \/ on_writable(c)
      PROVE  QuietStep
  <2>1. UNCHANGED <<sent, inbox, queue, done, get_seq, wk>>
    BY <1>4 DEF on_eof, on_writable, client
  <2>2. (close_connections({c}, conns) /\ UNCHANGED wire) \/ flush_conns({c})
    BY <1>4 DEF on_eof, on_writable
  <2>3. GetsRestricted
    BY <2>2, FlushType, CloseType, Now
  <2>4. \A d \in Conn : Kept(d)
    BY <2>2, FlushKept, CloseKept
  <2>5. QED
    BY <2>1, <2>3, <2>4, Now DEF QuietStep
<1>5. ASSUME NEW W \in SUBSET Conn, flush_writable(W) \/ sweep_idle(W)
      PROVE  QuietStep
  <2>1. UNCHANGED <<sent, inbox, queue, done, get_seq, wk>>
    BY <1>5 DEF flush_writable, sweep_idle, client
  <2>2. (close_connections(W, conns) /\ UNCHANGED wire) \/ flush_conns(W)
    BY <1>5 DEF flush_writable, sweep_idle
  <2>3. GetsRestricted
    BY <2>2, FlushType, CloseType, Now
  <2>4. \A d \in Conn : Kept(d)
    BY <2>2, FlushKept, CloseKept
  <2>5. QED
    BY <2>1, <2>3, <2>4, Now DEF QuietStep
<1>6. ASSUME NEW w \in Worker, WorkerQuiet(w)
      PROVE  QuietStep
  <2>1. AllCalm(wk', wk) /\ UNCHANGED <<sent, inbox, wire, conns, queue, done, gets, get_seq>>
    BY <1>6, WorkerQuietStep DEF client
  <2>2. QED
    BY <2>1, SameKept DEF QuietStep, GetsRestricted
<1>7. CASE stop \/ Stopping
  <2>1. AllCalm(wk', wk) /\ UNCHANGED <<sent, inbox, wire, queue, done, gets, get_seq>>
        /\ (conns' = conns \/ conns' = [c \in Conn |-> Closed])
    BY <1>7, StopStep DEF client
  <2>2. QED
    BY <2>1, SameKept, ClosedKept DEF QuietStep, GetsRestricted
<1>8. QED
  BY <1>1, <1>2, <1>3, <1>4, <1>5, <1>6, <1>7
-----------------------------------------------------------------------------
(* One place for every answer.                                             *)

OnePlaceOf(c) ==
  \A r \in Nat, b \in Int : \A t, x, u, y : Has(t, x, c, r, b) /\ Has(u, y, c, r, b) => t = u /\ x = y
OnceOf(c) == \A t, x : IsPiece(t, x, c) => Once(Piece(t, x, c))
NumberedOf(c) == \A r \in Nat, b \in Int : \A t, x : Has(t, x, c, r, b) => r <= sent[c]

LEMMA AnswerParts == AnswerInv <=> \A c \in Conn : OnePlaceOf(c) /\ OnceOf(c) /\ NumberedOf(c)
BY DEF AnswerInv, OnePlace, OnceInPlace, Numbered, OnePlaceOf, OnceOf, NumberedOf

\* What a step may do with the answers owed to c: it moves those of one place
\* (T, X) elsewhere, each to one place, leaves all others where they are, and
\* shifts the places S by one.
Origin(S, t, x) == IF t = S THEN x + 1 ELSE x
Moves(c, S, T, X) ==
  /\ sent'[c] = sent[c]
  /\ \A t, x : t = S /\ (\E r \in Nat, b \in Int : Has(t, x, c, r, b)') => x \in Nat
  /\ \A r \in Nat, b \in Int : \A t, x :
       Has(t, x, c, r, b)' => Has(t, Origin(S, t, x), c, r, b) \/ Has(T, X, c, r, b)
  /\ \A r \in Nat, b \in Int : Has(T, X, c, r, b) =>
       \A t, x, u, y : Has(t, x, c, r, b)' /\ Has(u, y, c, r, b)' => t = u /\ x = y

LEMMA MovesKeep ==
  ASSUME NEW c, OnePlaceOf(c), NumberedOf(c), NEW S, NEW T, NEW X, Moves(c, S, T, X)
  PROVE  OnePlaceOf(c)' /\ NumberedOf(c)'
<1>1. ASSUME NEW r \in Nat, NEW b \in Int, NEW t, NEW x, NEW u, NEW y,
             Has(t, x, c, r, b)', Has(u, y, c, r, b)'
      PROVE  t = u /\ x = y
  <2>1. CASE Has(T, X, c, r, b)
    BY <1>1, <2>1 DEF Moves
  <2>2. CASE ~ Has(T, X, c, r, b)
    <3>1. Has(t, Origin(S, t, x), c, r, b) /\ Has(u, Origin(S, u, y), c, r, b)
      BY <1>1, <2>2 DEF Moves
    <3>2. t = u /\ Origin(S, t, x) = Origin(S, u, y)
      BY <3>1 DEF OnePlaceOf
    <3>3. t = S => x \in Nat /\ y \in Nat
      BY <1>1, <3>2 DEF Moves
    <3>4. QED
      BY <3>2, <3>3 DEF Origin
  <2>3. QED
    BY <2>1, <2>2
<1>2. ASSUME NEW r \in Nat, NEW b \in Int, NEW t, NEW x, Has(t, x, c, r, b)'
      PROVE  r <= sent'[c]
  BY <1>2 DEF Moves, NumberedOf
<1>3. QED
  BY <1>1, <1>2 DEF OnePlaceOf, NumberedOf

LEMMA StaysKeep ==
  ASSUME NEW c, OnePlaceOf(c), NumberedOf(c), sent'[c] = sent[c],
         \A r \in Nat, b \in Int : \A t, x : Has(t, x, c, r, b)' => Has(t, x, c, r, b)
  PROVE  OnePlaceOf(c)' /\ NumberedOf(c)'
<1>1. OnePlaceOf(c)'
  BY DEF OnePlaceOf
<1>2. NumberedOf(c)'
  BY DEF NumberedOf
<1>3. QED
  BY <1>1, <1>2

\* Where the frames of a connection are.
LEMMA Kinds ==
  ASSUME NEW t, NEW x, NEW c, NEW r, NEW b, Has(t, x, c, r, b)
  PROVE  t \in {"inbox", "queue", "task", "gets", "out", "done", "written"}
BY DEF Has, Owes, IsPiece

LEMMA KeptGives ==
  ASSUME TypeInv, NEW c \in Conn, Kept(c)
  PROVE  /\ \A r, b : GivenBy(Written(c), r, b)' => GivenBy(Written(c), r, b)
         /\ Once(Written(c)) => Once(Written(c))'
<1>1. wire[c] \in Seq(FrameType) /\ conns[c].outbox \in Seq(FrameType)
  BY Now DEF ConnType
<1>2. /\ \A r, b : GivenBy(Written(c), r, b) <=> GivenBy(wire[c], r, b) \/ GivenBy(conns[c].outbox, r, b)
      /\ Once(Written(c)) => Once(wire[c])
  BY <1>1, ConcatGives DEF Written
<1>3. PICK s : s = Written(c)' /\ (s = Written(c) \/ s = wire[c])
  BY DEF Kept
<1>4. \A r, b : GivenBy(Written(c), r, b)' <=> GivenBy(s, r, b)
  BY <1>3 DEF GivenBy, Gives, BytesOf
<1>5. Once(Written(c))' <=> Once(s)
  BY <1>3 DEF Once, Gives, BytesOf
<1>6. QED
  BY <1>2, <1>3, <1>4, <1>5

\* The places that a step leaves alone.
LEMMA InboxSame ==
  ASSUME NEW c, inbox'[c] = inbox[c]
  PROVE  \A x, r, b : Has("inbox", x, c, r, b)' <=> Has("inbox", x, c, r, b)
BY DEF Has, Owes, IsPiece

LEMMA QueueSame ==
  ASSUME NEW c, queue' = queue
  PROVE  \A x, r, b : Has("queue", x, c, r, b)' <=> Has("queue", x, c, r, b)
BY DEF Has, Owes, IsPiece

LEMMA TaskSame ==
  ASSUME NEW c, NEW x, Calm(wk'[x], wk[x])
  PROVE  \A r, b : Has("task", x, c, r, b)' => Has("task", x, c, r, b)
BY DEF Has, Owes, IsPiece, Calm, Enqueuing, Completing

LEMMA OutSame ==
  ASSUME NEW c, NEW x, Calm(wk'[x], wk[x])
  PROVE  /\ \A r, b : Has("out", x, c, r, b)' <=> Has("out", x, c, r, b)
         /\ IsPiece("out", x, c)' <=> IsPiece("out", x, c)
         /\ Piece("out", x, c)' = Piece("out", x, c)
<1>1. IsPiece("out", x, c)' <=> IsPiece("out", x, c)
  BY DEF IsPiece, HasResult, Calm, Enqueuing, Completing
<1>2. Piece("out", x, c)' = Piece("out", x, c)
  BY DEF Piece, Calm
<1>3. \A r, b : Has("out", x, c, r, b)' <=> Has("out", x, c, r, b)
  BY <1>1, <1>2 DEF Has, Owes
<1>4. QED
  BY <1>1, <1>2, <1>3

LEMMA GetsSame ==
  ASSUME NEW c, NEW k, k \in DOMAIN gets' => k \in DOMAIN gets /\ gets'[k] = gets[k]
  PROVE  \A r, b : Has("gets", k, c, r, b)' => Has("gets", k, c, r, b)
BY DEF Has, Owes, IsPiece

LEMMA DoneSame ==
  ASSUME NEW c, done' = done
  PROVE  \A x : /\ \A r, b : Has("done", x, c, r, b)' <=> Has("done", x, c, r, b)
                /\ IsPiece("done", x, c)' <=> IsPiece("done", x, c)
                /\ Piece("done", x, c)' = Piece("done", x, c)
<1> TAKE x
<1>1. IsPiece("done", x, c)' <=> IsPiece("done", x, c)
  BY DEF IsPiece
<1>2. Piece("done", x, c)' = Piece("done", x, c)
  BY DEF Piece
<1>3. \A r, b : Has("done", x, c, r, b)' <=> Has("done", x, c, r, b)
  BY <1>1, <1>2 DEF Has, Owes
<1>4. QED
  BY <1>1, <1>2, <1>3

LEMMA WrittenIs ==
  ASSUME NEW c
  PROVE  /\ \A x, r, b : Has("written", x, c, r, b) <=> x = 0 /\ GivenBy(Written(c), r, b)
         /\ \A x, r, b : Has("written", x, c, r, b)' <=> x = 0 /\ GivenBy(Written(c), r, b)'
BY DEF Has, Owes, IsPiece, Piece

LEMMA OnceFrom ==
  ASSUME NEW c,
         \A x \in Worker : IsPiece("out", x, c)' => Once(Piece("out", x, c)'),
         \A x \in DOMAIN done' : IsPiece("done", x, c)' => Once(Piece("done", x, c)'),
         Once(Written(c)')
  PROVE  OnceOf(c)'
<1> SUFFICES ASSUME NEW t, NEW x, IsPiece(t, x, c)' PROVE Once(Piece(t, x, c)')
  BY DEF OnceOf
<1>1. CASE t = "out" /\ x \in Worker
  BY <1>1
<1>2. CASE t = "done" /\ x \in DOMAIN done'
  BY <1>2
<1>3. CASE t = "written"
  BY <1>3 DEF Piece
<1>4. QED
  BY <1>1, <1>2, <1>3 DEF IsPiece

LEMMA KindsNext ==
  ASSUME NEW t, NEW x, NEW c, NEW r, NEW b, Has(t, x, c, r, b)'
  PROVE  /\ t \in {"inbox", "queue", "task", "gets", "out", "done", "written"}
         /\ t \in {"task", "out"} => x \in Worker
         /\ t = "gets" => x \in DOMAIN gets'
         /\ t = "inbox" => x \in DOMAIN inbox'[c]
         /\ t = "queue" => x \in DOMAIN queue'
         /\ t = "done" => x \in DOMAIN done'
         /\ t = "written" => x = 0
BY DEF Has, Owes, IsPiece

LEMMA OnceNow ==
  ASSUME NEW c, OnceOf(c)
  PROVE  /\ \A x : IsPiece("out", x, c) => Once(Piece("out", x, c))
         /\ \A x : IsPiece("done", x, c) => Once(Piece("done", x, c))
         /\ Once(Written(c))
<1>1. IsPiece("written", 0, c) /\ Piece("written", 0, c) = Written(c)
  BY DEF IsPiece, Piece
<1>2. QED
  BY <1>1 DEF OnceOf

LEMMA AnswerQuiet ==
  ASSUME TypeInv, AnswerInv, QuietStep
  PROVE  AnswerInv'
<1> SUFFICES ASSUME NEW c \in Conn PROVE OnePlaceOf(c)' /\ OnceOf(c)' /\ NumberedOf(c)'
  BY DEF AnswerInv, OnePlace, OnceInPlace, Numbered, OnePlaceOf, OnceOf, NumberedOf
<1>1. /\ UNCHANGED <<sent, inbox, queue, done>> /\ Kept(c)
      /\ \A x \in Worker : Calm(wk'[x], wk[x])
      /\ \A k \in DOMAIN gets' : k \in DOMAIN gets /\ gets'[k] = gets[k]
  BY DEF QuietStep, AllCalm, GetsRestricted
<1>2. OnePlaceOf(c) /\ OnceOf(c) /\ NumberedOf(c)
  BY AnswerParts
<1>3. /\ \A r, b : GivenBy(Written(c), r, b)' => GivenBy(Written(c), r, b)
      /\ Once(Written(c)) => Once(Written(c))'
  BY <1>1, KeptGives
<1>4. \A r \in Nat, b \in Int : \A t, x : Has(t, x, c, r, b)' => Has(t, x, c, r, b)
  <2> SUFFICES ASSUME NEW r \in Nat, NEW b \in Int, NEW t, NEW x, Has(t, x, c, r, b)'
               PROVE  Has(t, x, c, r, b)
    OBVIOUS
  <2>1. CASE t = "inbox"
    BY <1>1, <2>1, InboxSame
  <2>2. CASE t = "queue"
    BY <1>1, <2>2, QueueSame
  <2>3. CASE t = "task"
    BY <1>1, <2>3, TaskSame, KindsNext
  <2>4. CASE t = "out"
    BY <1>1, <2>4, OutSame, KindsNext
  <2>5. CASE t = "gets"
    BY <1>1, <2>5, GetsSame
  <2>6. CASE t = "done"
    BY <1>1, <2>6, DoneSame
  <2>7. CASE t = "written"
    BY <1>3, <2>7, WrittenIs
  <2>8. QED
    BY <2>1, <2>2, <2>3, <2>4, <2>5, <2>6, <2>7, KindsNext
<1>5. OnePlaceOf(c)' /\ NumberedOf(c)'
  BY <1>1, <1>2, <1>4, StaysKeep
<1>6. OnceOf(c)'
  <2>1. /\ \A x : IsPiece("out", x, c) => Once(Piece("out", x, c))
        /\ \A x : IsPiece("done", x, c) => Once(Piece("done", x, c))
        /\ Once(Written(c))
    BY <1>2, OnceNow
  <2>2. \A x \in Worker : IsPiece("out", x, c)' => Once(Piece("out", x, c)')
    <3> SUFFICES ASSUME NEW x \in Worker, IsPiece("out", x, c)' PROVE Once(Piece("out", x, c)')
      OBVIOUS
    <3>1. IsPiece("out", x, c) /\ Piece("out", x, c)' = Piece("out", x, c)
      BY <1>1, OutSame
    <3>2. QED
      BY <2>1, <3>1
  <2>3. \A x \in DOMAIN done' : IsPiece("done", x, c)' => Once(Piece("done", x, c)')
    <3> SUFFICES ASSUME NEW x, IsPiece("done", x, c)' PROVE Once(Piece("done", x, c)')
      OBVIOUS
    <3>1. IsPiece("done", x, c) /\ Piece("done", x, c)' = Piece("done", x, c)
      BY <1>1, DoneSame
    <3>2. QED
      BY <2>1, <3>1
  <2>4. Once(Written(c)')
    BY <1>3, <2>1
  <2>5. QED
    BY <2>2, <2>3, <2>4, OnceFrom
<1>7. QED
  BY <1>5, <1>6

LEMMA HasSame ==
  ASSUME NEW c, NEW r, NEW b, NEW t, NEW x, Has(t, x, c, r, b)',
         t = "inbox" => inbox'[c] = inbox[c],
         t = "queue" => queue' = queue,
         t \in {"task", "out"} => Calm(wk'[x], wk[x]),
         t = "gets" => x \in DOMAIN gets /\ gets'[x] = gets[x],
         t = "done" => done' = done,
         t = "written" => (GivenBy(Written(c), r, b)' => GivenBy(Written(c), r, b))
  PROVE  Has(t, x, c, r, b)
<1>1. CASE t = "inbox"
  BY <1>1, InboxSame
<1>2. CASE t = "queue"
  BY <1>2, QueueSame
<1>3. CASE t = "task"
  BY <1>3, TaskSame
<1>4. CASE t = "out"
  BY <1>4, OutSame
<1>5. CASE t = "gets"
  BY <1>5, GetsSame
<1>6. CASE t = "done"
  BY <1>6, DoneSame
<1>7. CASE t = "written"
  BY <1>7, WrittenIs
<1>8. QED
  BY <1>1, <1>2, <1>3, <1>4, <1>5, <1>6, <1>7, KindsNext

LEMMA OnceKeeps ==
  ASSUME NEW c, OnceOf(c), done' = done, Once(Written(c)'),
         \A x \in Worker : Calm(wk'[x], wk[x]) \/ (IsPiece("out", x, c)' => Once(Piece("out", x, c)'))
  PROVE  OnceOf(c)'
<1>1. /\ \A x : IsPiece("out", x, c) => Once(Piece("out", x, c))
      /\ \A x : IsPiece("done", x, c) => Once(Piece("done", x, c))
      /\ Once(Written(c))
  BY OnceNow
<1>2. \A x \in Worker : IsPiece("out", x, c)' => Once(Piece("out", x, c)')
  <2> SUFFICES ASSUME NEW x \in Worker, IsPiece("out", x, c)' PROVE Once(Piece("out", x, c)')
    OBVIOUS
  <2>1. CASE Calm(wk'[x], wk[x])
    <3>1. IsPiece("out", x, c) /\ Piece("out", x, c)' = Piece("out", x, c)
      BY <2>1, OutSame
    <3>2. QED
      BY <1>1, <3>1
  <2>2. QED
    BY <2>1
<1>3. \A x \in DOMAIN done' : IsPiece("done", x, c)' => Once(Piece("done", x, c)')
  <2> SUFFICES ASSUME NEW x, IsPiece("done", x, c)' PROVE Once(Piece("done", x, c)')
    OBVIOUS
  <2>1. IsPiece("done", x, c) /\ Piece("done", x, c)' = Piece("done", x, c)
    BY DoneSame
  <2>2. QED
    BY <1>1, <2>1
<1>4. QED
  BY <1>2, <1>3, OnceFrom

LEMMA WrittenSame ==
  ASSUME NEW c, wire'[c] = wire[c], conns'[c].outbox = conns[c].outbox
  PROVE  Written(c)' = Written(c) /\ \A r, b : GivenBy(Written(c), r, b)' <=> GivenBy(Written(c), r, b)
<1>1. Written(c)' = Written(c)
  BY DEF Written
<1>2. QED
  BY <1>1

\* The answers of one place (T, X) move to another one (N, Y).
LEMMA MovesOne ==
  ASSUME NEW c, OnePlaceOf(c), NumberedOf(c), sent'[c] = sent[c],
         NEW S, NEW T, NEW X, NEW N, NEW Y, N # S,
         \A t, x : t = S /\ (\E r \in Nat, b \in Int : Has(t, x, c, r, b)') => x \in Nat,
         \A r \in Nat, b \in Int : \A t, x : Has(t, x, c, r, b)' /\ ~ (t = N /\ x = Y) =>
           Has(t, Origin(S, t, x), c, r, b) /\ ~ (t = T /\ Origin(S, t, x) = X),
         \A r \in Nat, b \in Int : Has(N, Y, c, r, b)' => Has(N, Y, c, r, b) \/ Has(T, X, c, r, b)
  PROVE  OnePlaceOf(c)' /\ NumberedOf(c)'
<1>1. Origin(S, N, Y) = Y
  BY DEF Origin
<1>2. ASSUME NEW r \in Nat, NEW b \in Int, Has(T, X, c, r, b), NEW t, NEW x, Has(t, x, c, r, b)'
      PROVE  t = N /\ x = Y
  <2> SUFFICES ASSUME ~ (t = N /\ x = Y) PROVE FALSE
    OBVIOUS
  <2>1. Has(t, Origin(S, t, x), c, r, b) /\ ~ (t = T /\ Origin(S, t, x) = X)
    BY <1>2
  <2>2. QED
    BY <1>2, <2>1 DEF OnePlaceOf
<1>3. ASSUME NEW r \in Nat, NEW b \in Int, NEW t, NEW x, Has(t, x, c, r, b)'
      PROVE  Has(t, Origin(S, t, x), c, r, b) \/ Has(T, X, c, r, b)
  <2>1. CASE t = N /\ x = Y
    BY <1>1, <1>3, <2>1
  <2>2. QED
    BY <1>3, <2>1
<1>4. Moves(c, S, T, X)
  BY <1>2, <1>3 DEF Moves
<1>5. QED
  BY <1>4, MovesKeep

LEMMA AnswerSend == ASSUME TypeInv, AnswerInv, NEW d \in Conn, Send(d) PROVE AnswerInv'
<1> SUFFICES ASSUME NEW c \in Conn PROVE OnePlaceOf(c)' /\ OnceOf(c)' /\ NumberedOf(c)'
  BY DEF AnswerInv, OnePlace, OnceInPlace, Numbered, OnePlaceOf, OnceOf, NumberedOf
<1>1. /\ UNCHANGED <<wire, conns, queue, done, gets, wk>>
      /\ sent' = [sent EXCEPT ![d] = @ + 1]
  BY DEF Send
<1>2. OnePlaceOf(c) /\ OnceOf(c) /\ NumberedOf(c)
  BY AnswerParts
<1>3. \A x \in Worker : Calm(wk'[x], wk[x])
  BY <1>1, Now DEF AllCalm
<1>4. Written(c)' = Written(c) /\ \A r, b : GivenBy(Written(c), r, b)' <=> GivenBy(Written(c), r, b)
  BY <1>1, WrittenSame
<1>5. OnceOf(c)'
  BY <1>1, <1>2, <1>3, <1>4, OnceKeeps, OnceNow
<1>6. ASSUME NEW r, NEW b, NEW t, NEW x, Has(t, x, c, r, b)', t = "inbox" => inbox'[c] = inbox[c]
      PROVE  Has(t, x, c, r, b)
  BY <1>1, <1>3, <1>4, <1>6, HasSame, KindsNext
<1>7. PICK e : inbox' = [inbox EXCEPT ![d] = Append(@, e)] /\ e.req = sent[d] + 1
  <2>1. PICK q \in Requests : inbox' = [inbox EXCEPT ![d] = Append(@,
                   [req |-> sent[d] + 1, kind |-> q.kind, offset |-> q.offset, length |-> q.length])]
    BY DEF Send
  <2> DEFINE m == [req |-> sent[d] + 1, kind |-> q.kind, offset |-> q.offset, length |-> q.length]
  <2>2. m.req = sent[d] + 1 /\ inbox' = [inbox EXCEPT ![d] = Append(@, m)]
    BY <2>1
  <2> HIDE DEF m
  <2>3. QED
    BY <2>2
<1>71. inbox \in [Conn -> InboxType] /\ sent \in [Conn -> Nat]
  BY Now
<1>72. PICK M : InboxType = Seq(M)
  BY DEF InboxType
<1>8. CASE c # d
  <2>1. inbox'[c] = inbox[c]
    BY <1>7, <1>71, <1>8, Zenon
  <2>2. sent'[c] = sent[c]
    BY <1>1, <1>71, <1>8
  <2>3. QED
    BY <1>2, <1>5, <1>6, <2>1, <2>2, StaysKeep
<1>9. CASE c = d
  <2>1. inbox[c] \in InboxType /\ inbox'[c] = Append(inbox[c], e) /\ sent'[c] = sent[c] + 1 /\ sent[c] \in Nat
    BY <1>1, <1>7, <1>71, <1>9
  <2> DEFINE L == Len(inbox[c]) + 1
  <2>2. /\ DOMAIN inbox'[c] = DOMAIN inbox[c] \cup {L}
        /\ \A i \in DOMAIN inbox[c] : inbox'[c][i] = inbox[c][i]
        /\ inbox'[c][L] = e
    BY <1>72, <2>1, AppendIs
  <2> HIDE DEF L
  <2>3. ASSUME NEW r \in Nat, NEW b \in Int, NEW t, NEW x, Has(t, x, c, r, b)'
        PROVE  \/ Has(t, x, c, r, b) /\ r <= sent[c]
               \/ t = "inbox" /\ x = L /\ r = sent[c] + 1
    <3>1. CASE t # "inbox"
      BY <1>2, <1>6, <2>3, <3>1 DEF NumberedOf
    <3>2. CASE t = "inbox"
      <4>1. x \in DOMAIN inbox'[c] /\ inbox'[c][x].req = r
        BY <2>3, <3>2 DEF Has, Owes, IsPiece
      <4>2. CASE x = L
        BY <1>7, <1>9, <2>2, <3>2, <4>1, <4>2
      <4>3. CASE x # L
        <5>1. x \in DOMAIN inbox[c] /\ inbox[c][x].req = r
          BY <2>2, <4>1, <4>3
        <5>2. Has(t, x, c, r, b)
          BY <3>2, <5>1 DEF Has, Owes
        <5>3. QED
          BY <1>2, <5>2 DEF NumberedOf
      <4>4. QED
        BY <4>2, <4>3
    <3>3. QED
      BY <3>1, <3>2
  <2>4. OnePlaceOf(c)'
    <3> SUFFICES ASSUME NEW r \in Nat, NEW b \in Int, NEW t, NEW x, NEW u, NEW y,
                        Has(t, x, c, r, b)', Has(u, y, c, r, b)'
                 PROVE  t = u /\ x = y
      BY DEF OnePlaceOf
    <3>1. ~ (r <= sent[c] /\ r = sent[c] + 1)
      BY <2>1
    <3>2. QED
      BY <1>2, <2>3, <3>1 DEF OnePlaceOf
  <2>5. NumberedOf(c)'
    <3> SUFFICES ASSUME NEW r \in Nat, NEW b \in Int, NEW t, NEW x, Has(t, x, c, r, b)'
                 PROVE  r <= sent'[c]
      BY DEF NumberedOf
    <3>1. r <= sent[c] \/ r = sent[c] + 1
      BY <2>3
    <3>2. QED
      BY <2>1, <3>1
  <2>6. QED
    BY <1>5, <2>4, <2>5
<1>10. QED
  BY <1>8, <1>9

LEMMA ConcatAppend ==
  ASSUME NEW S, NEW s \in Seq(S), NEW u \in Seq(S), NEW f \in S
  PROVE  s \o Append(u, f) = Append(s \o u, f)
OBVIOUS

LEMMA WrittenAppend ==
  ASSUME TypeInv, NEW c \in Conn, NEW f \in FrameType, wire'[c] = wire[c],
         conns'[c].outbox = Append(conns[c].outbox, f)
  PROVE  /\ Written(c)' = Append(Written(c), f) /\ Written(c) \in Seq(FrameType)
         /\ \A r, b : GivenBy(Written(c), r, b)' <=> GivenBy(Written(c), r, b) \/ Gives(f, r, b)
<1>1. wire[c] \in Seq(FrameType) /\ conns[c].outbox \in Seq(FrameType)
  BY Now DEF ConnType
<1>2. wire[c] \o Append(conns[c].outbox, f) = Append(wire[c] \o conns[c].outbox, f)
  <2>1. \A s, u \in Seq(FrameType) : s \o Append(u, f) = Append(s \o u, f)
    BY ConcatAppend
  <2>2. QED
    BY <1>1, <2>1, Zenon
<1>3. wire[c] \o conns[c].outbox \in Seq(FrameType)
  BY <1>1
<1>4. Written(c)' = Append(Written(c), f) /\ Written(c) \in Seq(FrameType)
  BY <1>2, <1>3 DEF Written
<1>5. QED
  BY <1>4, AppendGives

\* What on_frame does, by cases.
LEMMA FrameCases ==
  ASSUME TypeInv, NEW d \in Conn, on_frame(d)
  PROVE  LET m == inbox[d][1] IN
         /\ inbox[d] \in InboxType /\ inbox[d] # <<>> /\ inbox'[d] = Tail(inbox[d])
         /\ \A c \in Conn \ {d} : inbox'[c] = inbox[c] /\ conns'[c] = conns[c]
         /\ m \in [req : Nat \ {0}, kind : {"PING", "CLOSE", "GET", "BAD"}, offset : Nat, length : Nat]
         /\ AllCalm(wk', wk)
         /\ UNCHANGED <<sent, left, wire, done, gets, get_seq, published, io, stopping, stopper>>
         /\ conns'[d].state = conns[d].state /\ (conns[d].closing => conns'[d].closing)
         /\ \/ UNCHANGED <<queue, conns>>
            \/ /\ UNCHANGED queue /\ conns'[d].closing
               /\ conns'[d].outbox = Append(conns[d].outbox, Error("PROTOCOL", 0))
            \/ /\ UNCHANGED queue /\ conns'[d].closing = conns[d].closing
               /\ conns'[d].outbox = Append(conns[d].outbox, Error("BUSY", m.req))
            \/ /\ UNCHANGED conns /\ queue' = Append(queue, RequestTask(d, m)) /\ m.kind # "BAD"
<1> DEFINE r == Head(inbox[d])
<1>1. inbox[d] \in InboxType /\ inbox[d] # <<>> /\ inbox \in [Conn -> InboxType]
      /\ conns \in [Conn -> ConnType]
  BY Now DEF on_frame
<1>2. inbox'[d] = Tail(inbox[d]) /\ \A c \in Conn \ {d} : inbox'[c] = inbox[c]
  <2>1. inbox' = [inbox EXCEPT ![d] = Tail(@)]
    BY DEF on_frame
  <2>2. QED
    BY <1>1, <2>1
<1>3. r = inbox[d][1] /\ r \in [req : Nat \ {0}, kind : {"PING", "CLOSE", "GET", "BAD"}, offset : Nat, length : Nat]
  BY <1>1, HeadOf, Zenon DEF InboxType
<1>4. AllCalm(wk', wk) /\ UNCHANGED <<sent, left, wire, done, gets, get_seq, published, io, stopping, stopper>>
  BY Now, CalmWake DEF on_frame
<1>5. \/ UNCHANGED <<queue, conns>>
      \/ /\ UNCHANGED queue
         /\ conns' = [conns EXCEPT ![d].closing = TRUE, ![d].broken = TRUE,
                                   ![d].outbox = Append(@, Error("PROTOCOL", 0))]
      \/ UNCHANGED queue /\ conns' = [conns EXCEPT ![d].outbox = Append(@, Error("BUSY", r.req))]
      \/ UNCHANGED conns /\ queue' = Append(queue, RequestTask(d, r)) /\ r.kind # "BAD"
  BY DEF on_frame
<1> HIDE DEF r
<1>6. CASE UNCHANGED <<queue, conns>>
  BY <1>1, <1>2, <1>3, <1>4, <1>6
<1>7. CASE /\ UNCHANGED queue
           /\ conns' = [conns EXCEPT ![d].closing = TRUE, ![d].broken = TRUE,
                                     ![d].outbox = Append(@, Error("PROTOCOL", 0))]
  <2>1. conns'[d].closing /\ conns'[d].outbox = Append(conns[d].outbox, Error("PROTOCOL", 0))
        /\ conns'[d].state = conns[d].state
        /\ \A c \in Conn \ {d} : conns'[c] = conns[c]
    BY <1>1, <1>7 DEF ConnType
  <2>2. QED
    BY <1>1, <1>2, <1>3, <1>4, <1>7, <2>1
<1>8. CASE UNCHANGED queue /\ conns' = [conns EXCEPT ![d].outbox = Append(@, Error("BUSY", r.req))]
  <2>1. conns'[d].closing = conns[d].closing /\ conns'[d].outbox = Append(conns[d].outbox, Error("BUSY", r.req))
        /\ conns'[d].state = conns[d].state
        /\ \A c \in Conn \ {d} : conns'[c] = conns[c]
    BY <1>1, <1>8 DEF ConnType
  <2>2. QED
    BY <1>1, <1>2, <1>3, <1>4, <1>8, <2>1
<1>9. CASE UNCHANGED conns /\ queue' = Append(queue, RequestTask(d, r)) /\ r.kind # "BAD"
  BY <1>1, <1>2, <1>3, <1>4, <1>9
<1>10. QED
  BY <1>5, <1>6, <1>7, <1>8, <1>9

LEMMA AnswerOnFrame == ASSUME TypeInv, AnswerInv, NEW d \in Conn, on_frame(d) PROVE AnswerInv'
<1> SUFFICES ASSUME NEW c \in Conn PROVE OnePlaceOf(c)' /\ OnceOf(c)' /\ NumberedOf(c)'
  BY DEF AnswerInv, OnePlace, OnceInPlace, Numbered, OnePlaceOf, OnceOf, NumberedOf
<1> DEFINE m == inbox[d][1]
<1>1. /\ inbox[d] \in InboxType /\ inbox[d] # <<>> /\ inbox'[d] = Tail(inbox[d])
      /\ \A e \in Conn \ {d} : inbox'[e] = inbox[e] /\ conns'[e] = conns[e]
      /\ m.req \in Nat \ {0}
      /\ \A x \in Worker : Calm(wk'[x], wk[x])
      /\ UNCHANGED <<sent, wire, done, gets>>
      /\ \/ UNCHANGED <<queue, conns>>
         \/ UNCHANGED queue /\ conns'[d].outbox = Append(conns[d].outbox, Error("PROTOCOL", 0))
         \/ UNCHANGED queue /\ conns'[d].outbox = Append(conns[d].outbox, Error("BUSY", m.req))
         \/ UNCHANGED conns /\ queue' = Append(queue, RequestTask(d, m))
  BY FrameCases DEF AllCalm
<1>2. OnePlaceOf(c) /\ OnceOf(c) /\ NumberedOf(c)
  BY AnswerParts
<1>3. ASSUME NEW r, NEW b, NEW t, NEW x, Has(t, x, c, r, b)',
             t = "inbox" => inbox'[c] = inbox[c], t = "queue" => queue' = queue,
             t = "written" => (GivenBy(Written(c), r, b)' => GivenBy(Written(c), r, b))
      PROVE  Has(t, x, c, r, b)
  BY <1>1, <1>3, HasSame, KindsNext
<1>4. \A e \in Conn : conns'[e] = conns[e] =>
        Written(e)' = Written(e) /\ \A r, b : GivenBy(Written(e), r, b)' <=> GivenBy(Written(e), r, b)
  BY <1>1, WrittenSame
\* The queue: what is new there is of connection d.
<1>5. queue \in Seq(TaskType)
  BY Now
<1>6. PICK L : L = Len(queue) + 1
  OBVIOUS
<1>7. ASSUME NEW r, NEW b, NEW x, Has("queue", x, c, r, b)', ~ (x = L /\ c = d)
      PROVE  Has("queue", x, c, r, b)
  <2>1. CASE queue' = queue
    BY <1>3, <1>7, <2>1
  <2> DEFINE new == RequestTask(d, m)
  <2>2. CASE queue' = Append(queue, new)
    <3>1. new.conn = d
      BY DEF RequestTask
    <3>2. queue' = Append(queue, new)
      BY <2>2
    <3> HIDE DEF new
    <3>3. /\ DOMAIN queue' = DOMAIN queue \cup {L}
          /\ \A i \in DOMAIN queue : queue'[i] = queue[i]
          /\ queue'[L] = new
      BY <1>5, <1>6, <3>2, AppendIs
    <3>4. /\ x \in DOMAIN queue' /\ queue'[x].kind # "CONTINUE" /\ queue'[x].conn = c /\ queue'[x].req = r
      BY <1>7 DEF Has, Owes, IsPiece
    <3>5. x # L
      BY <1>7, <3>1, <3>3, <3>4
    <3>6. QED
      BY <3>3, <3>4, <3>5 DEF Has, Owes
  <2>3. QED
    BY <1>1, <2>1, <2>2
<1>8. CASE c # d
  <2>1. inbox'[c] = inbox[c] /\ conns'[c] = conns[c] /\ sent' = sent
    BY <1>1, <1>8
  <2>2. ASSUME NEW r \in Nat, NEW b \in Int, NEW t, NEW x, Has(t, x, c, r, b)'
        PROVE  Has(t, x, c, r, b)
    <3>1. CASE t = "queue"
      BY <1>7, <1>8, <2>2, <3>1
    <3>2. CASE t # "queue"
      BY <1>3, <1>4, <2>1, <2>2, <3>2
    <3>3. QED
      BY <3>1, <3>2
  <2>3. Once(Written(c)')
    BY <1>2, <1>4, <2>1, OnceNow
  <2>4. OnceOf(c)'
    BY <1>1, <1>2, <2>3, OnceKeeps
  <2>5. QED
    BY <1>2, <2>1, <2>2, <2>4, StaysKeep
<1>9. CASE c = d
  <2>1. PICK M : InboxType = Seq(M)
    BY DEF InboxType
  <2>2. /\ DOMAIN inbox'[c] = {i \in Nat \ {0} : i + 1 \in DOMAIN inbox[c]} /\ 1 \in DOMAIN inbox[c]
        /\ \A i \in DOMAIN inbox'[c] : inbox'[c][i] = inbox[c][i + 1]
    <3>1. inbox[c] \in Seq(M) /\ inbox[c] # <<>> /\ inbox'[c] = Tail(inbox[c])
      BY <1>1, <1>9, <2>1
    <3>2. QED
      BY <3>1, TailIs
  <2>3. \A r, b : Has("inbox", 1, c, r, b) <=> m.req = r
    BY <1>9, <2>2 DEF Has, Owes, IsPiece
  <2>4. ASSUME NEW r, NEW b, NEW x, Has("inbox", x, c, r, b)'
        PROVE  x \in Nat /\ Has("inbox", x + 1, c, r, b) /\ x + 1 # 1
    <3>1. x \in DOMAIN inbox'[c] /\ inbox'[c][x].req = r
      BY <2>4 DEF Has, Owes, IsPiece
    <3>2. x \in Nat \ {0} /\ x + 1 \in DOMAIN inbox[c] /\ inbox[c][x + 1].req = r
      BY <2>2, <3>1
    <3>3. QED
      BY <3>2 DEF Has, Owes
  <2> HIDE DEF m
  <2>5. \A t, x : t = "inbox" /\ (\E r \in Nat, b \in Int : Has(t, x, c, r, b)') => x \in Nat
    BY <2>4
  <2>6. sent'[c] = sent[c]
    BY <1>1
  \* Nothing or a frame is written.
  <2>7. ASSUME UNCHANGED queue, Once(Written(c)'),
               \A r \in Nat, b \in Int :
                 GivenBy(Written(c), r, b)' => GivenBy(Written(c), r, b) \/ m.req = r
        PROVE  OnePlaceOf(c)' /\ OnceOf(c)' /\ NumberedOf(c)'
    <3>1. \A r \in Nat, b \in Int : \A t, x : Has(t, x, c, r, b)' /\ ~ (t = "written" /\ x = 0) =>
            Has(t, Origin("inbox", t, x), c, r, b) /\ ~ (t = "inbox" /\ Origin("inbox", t, x) = 1)
      <4> SUFFICES ASSUME NEW r \in Nat, NEW b \in Int, NEW t, NEW x, Has(t, x, c, r, b)',
                          ~ (t = "written" /\ x = 0)
                   PROVE  Has(t, Origin("inbox", t, x), c, r, b) /\ ~ (t = "inbox" /\ Origin("inbox", t, x) = 1)
        OBVIOUS
      <4>1. CASE t = "inbox"
        BY <2>4, <4>1 DEF Origin
      <4>2. CASE t # "inbox"
        <5>1. t # "written"
          BY KindsNext
        <5>2. Has(t, x, c, r, b)
          BY <1>3, <2>7, <4>2, <5>1
        <5>3. QED
          BY <4>2, <5>2 DEF Origin
      <4>3. QED
        BY <4>1, <4>2
    <3>2. \A r \in Nat, b \in Int :
            Has("written", 0, c, r, b)' => Has("written", 0, c, r, b) \/ Has("inbox", 1, c, r, b)
      BY <2>3, <2>7, WrittenIs
    <3>3. OnePlaceOf(c)' /\ NumberedOf(c)'
      BY <1>2, <2>5, <2>6, <3>1, <3>2, MovesOne
    <3>4. OnceOf(c)'
      BY <1>1, <1>2, <2>7, OnceKeeps
    <3>5. QED
      BY <3>3, <3>4
  <2>8. CASE UNCHANGED <<queue, conns>>
    <3>1. Once(Written(c)') /\ \A r, b : GivenBy(Written(c), r, b)' <=> GivenBy(Written(c), r, b)
      BY <1>2, <1>4, <2>8, OnceNow
    <3>2. QED
      BY <2>7, <2>8, <3>1
  <2>9. ASSUME NEW f \in FrameType, UNCHANGED queue, conns'[d].outbox = Append(conns[d].outbox, f),
               \A r, b : Gives(f, r, b) => r = m.req
        PROVE  OnePlaceOf(c)' /\ OnceOf(c)' /\ NumberedOf(c)'
    <3>1. /\ Written(c)' = Append(Written(c), f) /\ Written(c) \in Seq(FrameType)
          /\ \A r, b : GivenBy(Written(c), r, b)' <=> GivenBy(Written(c), r, b) \/ Gives(f, r, b)
      BY <1>1, <1>9, <2>9, WrittenAppend
    <3>2. ASSUME NEW r \in Nat, NEW b \in Int, GivenBy(Written(c), r, b), Gives(f, r, b)
          PROVE  FALSE
      <4>1. Has("written", 0, c, r, b) /\ Has("inbox", 1, c, r, b)
        BY <2>3, <2>9, <3>2, WrittenIs
      <4>2. QED
        BY <1>2, <4>1 DEF OnePlaceOf
    <3>3. Once(Written(c)')
      BY <1>2, <2>9, <3>1, <3>2, AppendGives, OnceNow
    <3>4. QED
      BY <2>7, <2>9, <3>1, <3>3
  <2>10. CASE UNCHANGED queue /\ conns'[d].outbox = Append(conns[d].outbox, Error("PROTOCOL", 0))
    <3>1. Error("PROTOCOL", 0) \in FrameType
      BY FrameIn
    <3>2. \A r, b : ~ Gives(Error("PROTOCOL", 0), r, b)
      BY GivesIs DEF Error
    <3>3. QED
      BY <2>9, <2>10, <3>1, <3>2
  <2>11. CASE UNCHANGED queue /\ conns'[d].outbox = Append(conns[d].outbox, Error("BUSY", m.req))
    <3>1. Error("BUSY", m.req) \in FrameType
      BY <1>1, FrameIn DEF m
    <3>2. \A r, b : Gives(Error("BUSY", m.req), r, b) => r = m.req
      <4>1. Error("BUSY", m.req) = Frame("BUSY", m.req, 0)
        BY <1>1 DEF Error, m
      <4>2. QED
        BY <4>1, GivesIs DEF Final
    <3>3. QED
      BY <2>9, <2>11, <3>1, <3>2
  <2>12. CASE UNCHANGED conns /\ queue' = Append(queue, RequestTask(d, m))
    <3>1. \A r, b : GivenBy(Written(c), r, b)' <=> GivenBy(Written(c), r, b)
      BY <1>4, <2>12
    <3>2. \A r \in Nat, b \in Int : \A t, x : Has(t, x, c, r, b)' /\ ~ (t = "queue" /\ x = L) =>
            Has(t, Origin("inbox", t, x), c, r, b) /\ ~ (t = "inbox" /\ Origin("inbox", t, x) = 1)
      <4> SUFFICES ASSUME NEW r \in Nat, NEW b \in Int, NEW t, NEW x, Has(t, x, c, r, b)',
                          ~ (t = "queue" /\ x = L)
                   PROVE  Has(t, Origin("inbox", t, x), c, r, b) /\ ~ (t = "inbox" /\ Origin("inbox", t, x) = 1)
        OBVIOUS
      <4>1. CASE t = "inbox"
        BY <2>4, <4>1 DEF Origin
      <4>2. CASE t = "queue"
        BY <1>7, <4>2 DEF Origin
      <4>3. CASE t # "inbox" /\ t # "queue"
        <5>1. Has(t, x, c, r, b)
          BY <1>3, <3>1, <4>3
        <5>2. QED
          BY <4>3, <5>1 DEF Origin
      <4>4. QED
        BY <4>1, <4>2, <4>3
    <3>3. \A r \in Nat, b \in Int :
            Has("queue", L, c, r, b)' => Has("queue", L, c, r, b) \/ Has("inbox", 1, c, r, b)
      <4> DEFINE new == RequestTask(d, m)
      <4>1. new.req = m.req
        BY DEF RequestTask
      <4>2. queue' = Append(queue, new)
        BY <2>12
      <4> HIDE DEF new
      <4>3. queue'[L] = new
        BY <1>5, <1>6, <4>2, AppendIs
      <4>4. QED
        BY <2>3, <4>1, <4>3 DEF Has, Owes, IsPiece
    <3>4. OnePlaceOf(c)' /\ NumberedOf(c)'
      BY <1>2, <2>5, <2>6, <3>2, <3>3, MovesOne
    <3>5. Once(Written(c)')
      BY <1>2, <1>4, <2>12, OnceNow
    <3>6. OnceOf(c)'
      BY <1>1, <1>2, <3>5, OnceKeeps
    <3>7. QED
      BY <3>4, <3>6
  <2>13. QED
    BY <1>1, <2>8, <2>10, <2>11, <2>12 DEF m
<1>10. QED
  BY <1>8, <1>9
-----------------------------------------------------------------------------
(* Completions become frames to write.                                     *)

LEMMA ConcatIn ==
  ASSUME NEW S, NEW s \in Seq(S), NEW u \in Seq(S)
  PROVE  \A f : In(f, s \o u) <=> In(f, s) \/ In(f, u)
<1> TAKE f
<1> DEFINE su == s \o u
<1>1. /\ \A i \in DOMAIN s : i \in DOMAIN su /\ su[i] = s[i]
      /\ \A i \in DOMAIN u : Len(s) + i \in DOMAIN su /\ su[Len(s) + i] = u[i]
      /\ \A i \in DOMAIN su : i \in DOMAIN s \/ (i - Len(s) \in DOMAIN u /\ su[i] = u[i - Len(s)])
  BY ConcatIs
<1> HIDE DEF su
<1>2. In(f, s) \/ In(f, u) => In(f, su)
  BY <1>1 DEF In
<1>3. In(f, su) => In(f, s) \/ In(f, u)
  BY <1>1 DEF In
<1>4. QED
  BY <1>2, <1>3 DEF su

LEMMA GivenIn ==
  \A s, r, b : GivenBy(s, r, b) <=> \E f : In(f, s) /\ Gives(f, r, b)
BY DEF GivenBy, In

LEMMA ConcatThree ==
  ASSUME NEW S, NEW s \in Seq(S), NEW t \in Seq(S), NEW u \in Seq(S)
  PROVE  s \o (t \o u) = (s \o t) \o u
BY ConcatAssociative

\* What a connection has to write after n completions.
Taken(c, x, n) ==
  LET out == wire[c] \o x.outbox
      from(f) == In(f, Written(c)) \/ \E i \in 1 .. n : done[i].conn = c /\ In(f, done[i].out) IN
  /\ x \in ConnType /\ x.state = conns[c].state
  /\ Once(out)
  /\ \A f : In(f, out) => from(f)
  /\ x.state = "open" /\ ~ x.closing => ~ conns[c].closing /\ \A f : from(f) => In(f, out)

LEMMA TakenNext ==
  ASSUME TypeInv, NEW c \in Conn, OnePlaceOf(c), OnceOf(c), NEW m \in 1 .. Len(done), NEW x,
         Taken(c, x, m - 1)
  PROVE  Taken(c, Take(x, c, done[m]), m)
<1>1. done[m] \in DoneType /\ m \in DOMAIN done /\ x \in ConnType /\ wire[c] \in Seq(FrameType)
  BY Now DEF Taken
<1> DEFINE d == done[m]
           y == Take(x, c, d)
           outX == wire[c] \o x.outbox
           outY == wire[c] \o y.outbox
           early(f) == \E i \in 1 .. m - 1 : done[i].conn = c /\ In(f, done[i].out)
           late(f) == \E i \in 1 .. m : done[i].conn = c /\ In(f, done[i].out)
<1>2. y \in ConnType /\ y.state = x.state /\ (x.closing => y = x)
  BY <1>1, TakeType
<1>3. /\ x.state = conns[c].state /\ Once(outX)
      /\ \A f : In(f, outX) => In(f, Written(c)) \/ early(f)
      /\ x.state = "open" /\ ~ x.closing =>
           ~ conns[c].closing /\ \A f : In(f, Written(c)) \/ early(f) => In(f, outX)
  BY DEF Taken
<1>4. \A f : late(f) <=> early(f) \/ (d.conn = c /\ In(f, d.out))
  OBVIOUS
<1>5. \/ y = x /\ (d.conn # c \/ x.state # "open" \/ x.closing)
      \/ y.outbox = x.outbox \o d.out /\ d.conn = c /\ x.state = "open" /\ ~ x.closing
  <2>1. \A z \in ConnType, e \in DoneType :
          \/ Take(z, c, e) = z /\ (e.conn # c \/ z.state # "open" \/ z.closing)
          \/ Take(z, c, e).outbox = z.outbox \o e.out /\ e.conn = c /\ z.state = "open" /\ ~ z.closing
    BY DEF Take, ConnType
  <2>2. QED
    BY <1>1, <2>1, Zenon
<1>6. x.outbox \in Seq(FrameType) /\ d.out \in Seq(FrameType) /\ outX \in Seq(FrameType)
  BY <1>1 DEF ConnType, DoneType
<1>7. ASSUME NEW i \in 1 .. m - 1, done[i].conn = c, d.conn = c,
             NEW r \in Nat, NEW b \in Int, GivenBy(done[i].out, r, b), GivenBy(d.out, r, b)
      PROVE  FALSE
  <2>1. i \in DOMAIN done /\ i # m
    BY Now
  <2>2. Has("done", i, c, r, b) /\ Has("done", m, c, r, b)
    BY <1>1, <1>7, <2>1 DEF Has, IsPiece, Piece
  <2>3. QED
    BY <2>1, <2>2 DEF OnePlaceOf
<1>8. ASSUME d.conn = c, NEW r \in Nat, NEW b \in Int, GivenBy(Written(c), r, b), GivenBy(d.out, r, b)
      PROVE  FALSE
  <2>1. Has("written", 0, c, r, b)
    BY <1>8, WrittenIs
  <2>2. Has("done", m, c, r, b)
    BY <1>1, <1>8 DEF Has, IsPiece, Piece
  <2>3. QED
    BY <2>1, <2>2 DEF OnePlaceOf
<1>9. d.conn = c => Once(d.out)
  <2>1. d.conn = c => IsPiece("done", m, c) /\ Piece("done", m, c) = d.out
    BY <1>1 DEF IsPiece, Piece
  <2>2. QED
    BY <2>1 DEF OnceOf
<1>10. ASSUME d.conn = c, NEW r \in Nat, NEW b \in Int, GivenBy(outX, r, b), GivenBy(d.out, r, b)
       PROVE  FALSE
  <2>1. PICK f : In(f, outX) /\ Gives(f, r, b)
    BY <1>10, GivenIn
  <2>2. In(f, Written(c)) \/ early(f)
    BY <1>3, <2>1
  <2>3. CASE In(f, Written(c))
    BY <1>8, <1>10, <2>1, <2>3, GivenIn
  <2>4. CASE early(f)
    <3>1. PICK i \in 1 .. m - 1 : done[i].conn = c /\ In(f, done[i].out)
      BY <2>4
    <3>2. GivenBy(done[i].out, r, b)
      BY <2>1, <3>1, GivenIn
    <3>3. QED
      BY <1>7, <1>10, <3>1, <3>2
  <2>5. QED
    BY <2>2, <2>3, <2>4
<1> HIDE DEF d, y, outX, outY, early, late
<1>11. CASE y = x /\ (d.conn # c \/ x.state # "open" \/ x.closing)
  <2>1. outY = outX
    BY <1>11 DEF outX, outY
  <2>2. /\ \A f : In(f, outY) => In(f, Written(c)) \/ late(f)
        /\ y.state = "open" /\ ~ y.closing =>
             ~ conns[c].closing /\ \A f : In(f, Written(c)) \/ late(f) => In(f, outY)
    BY <1>3, <1>4, <1>11, <2>1
  <2>3. Once(outY) /\ y.state = conns[c].state
    BY <1>3, <1>11, <2>1
  <2>4. QED
    BY <1>2, <2>2, <2>3 DEF Taken, y, d, outY, late
<1>12. CASE y.outbox = x.outbox \o d.out /\ d.conn = c /\ x.state = "open" /\ ~ x.closing
  <2>1. outY = outX \o d.out
    <3>1. \A s, u, v \in Seq(FrameType) : s \o (u \o v) = (s \o u) \o v
      BY SMTT(60), ConcatThree
    <3>2. wire[c] \o (x.outbox \o d.out) = (wire[c] \o x.outbox) \o d.out
      BY <1>1, <1>6, <3>1, Zenon
    <3>3. QED
      BY <1>12, <3>2, Zenon DEF outX, outY
  <2>2. \A f : In(f, outY) <=> In(f, outX) \/ In(f, d.out)
    BY <1>6, <2>1, ConcatIn
  <2>3. Once(outY)
    BY <1>3, <1>6, <1>9, <1>10, <1>12, <2>1, ConcatGives
  <2>4. /\ \A f : In(f, outY) => In(f, Written(c)) \/ late(f)
        /\ y.state = "open" /\ ~ y.closing =>
             ~ conns[c].closing /\ \A f : In(f, Written(c)) \/ late(f) => In(f, outY)
    BY <1>3, <1>4, <1>12, <2>2
  <2>5. QED
    BY <1>2, <1>3, <2>3, <2>4 DEF Taken, y, d, outY, late
<1>13. QED
  BY <1>5, <1>11, <1>12 DEF y, d

LEMMA DrainStep ==
  ASSUME TypeInv, NEW c \in Conn, OnePlaceOf(c), OnceOf(c), drain_completions
  PROVE  /\ done' = <<>> /\ Taken(c, conns'[c], Len(done))
         /\ wire' = wire /\ conns'[c].state = conns[c].state
<1>1. PICK g : Steps(g, Len(done), c) /\ Delivered(c) = g[Len(done)]
  BY Now, DeliveredSteps
<1>2. Len(done) \in Nat /\ conns[c] \in ConnType
  BY Now
<1> DEFINE Bad == {k \in 0 .. Len(done) : ~ Taken(c, g[k], k)}
<1>3. Bad = {}
  <2> SUFFICES ASSUME Bad # {} PROVE FALSE
    OBVIOUS
  <2>1. PICK m \in Bad : \A k \in Bad : m <= k
    <3>1. Bad \in SUBSET Nat
      OBVIOUS
    <3>2. QED
      BY <3>1, LeastNat
  <2>2. Taken(c, g[0], 0)
    <3>1. g[0] = conns[c]
      BY <1>1, <1>2 DEF Steps
    <3>2. Once(Written(c))
      BY OnceNow
    <3>3. Taken(c, conns[c], 0)
      BY <1>2, <3>2 DEF Taken, Written
    <3>4. QED
      BY <3>1, <3>3
  <2>3. m # 0
    BY <2>1, <2>2
  <2>4. m - 1 \in 0 .. Len(done) /\ m \in 1 .. Len(done) /\ Taken(c, g[m - 1], m - 1)
    BY <1>2, <2>1, <2>3
  <2>5. g[m] = Take(g[m - 1], c, done[m])
    BY <1>1, <2>1, <2>3 DEF Steps
  <2>6. Taken(c, g[m], m)
    BY <2>4, <2>5, TakenNext
  <2>7. QED
    BY <2>1, <2>6
<1>4. Taken(c, Delivered(c), Len(done))
  BY <1>1, <1>2, <1>3
<1>5. conns'[c] = Delivered(c) /\ done' = <<>> /\ wire' = wire
  BY DEF drain_completions
<1> HIDE DEF Bad
<1>6. Taken(c, conns'[c], Len(done))
  BY <1>4, <1>5
<1>7. QED
  BY <1>5, <1>6 DEF Taken

LEMMA AnswerDrain == ASSUME TypeInv, AnswerInv, drain_completions PROVE AnswerInv'
<1> SUFFICES ASSUME NEW c \in Conn PROVE OnePlaceOf(c)' /\ OnceOf(c)' /\ NumberedOf(c)'
  BY DEF AnswerInv, OnePlace, OnceInPlace, Numbered, OnePlaceOf, OnceOf, NumberedOf
<1>1. OnePlaceOf(c) /\ OnceOf(c) /\ NumberedOf(c)
  BY AnswerParts
<1>2. UNCHANGED <<sent, inbox, wire, queue, gets, wk>> /\ \A x \in Worker : Calm(wk'[x], wk[x])
  <2>1. UNCHANGED <<sent, inbox, wire, queue, gets, wk>>
    BY DEF drain_completions, client
  <2>2. QED
    BY <2>1, Now DEF AllCalm
<1>3. done' = <<>> /\ Taken(c, conns'[c], Len(done)) /\ wire' = wire
  BY <1>1, DrainStep
<1>4. Once(Written(c)') /\ \A f : In(f, Written(c)') =>
        In(f, Written(c)) \/ \E i \in 1 .. Len(done) : done[i].conn = c /\ In(f, done[i].out)
  <2>1. Written(c)' = wire[c] \o conns'[c].outbox
    BY <1>3 DEF Written
  <2>2. QED
    BY <1>3, <2>1 DEF Taken
<1>5. ASSUME NEW r, NEW b, NEW x, Has("written", x, c, r, b)'
      PROVE  x = 0 /\ (Has("written", 0, c, r, b) \/ \E i : Has("done", i, c, r, b))
  <2>1. x = 0 /\ GivenBy(Written(c)', r, b)
    <3>1. x = 0 /\ GivenBy(Written(c), r, b)'
      BY <1>5, WrittenIs
    <3>2. QED
      BY <3>1
  <2>2. PICK f : In(f, Written(c)') /\ Gives(f, r, b)
    BY <2>1, GivenIn
  <2>3. CASE In(f, Written(c))
    BY <2>1, <2>2, <2>3, GivenIn, WrittenIs
  <2>4. CASE \E i \in 1 .. Len(done) : done[i].conn = c /\ In(f, done[i].out)
    <3>1. PICK i \in 1 .. Len(done) : done[i].conn = c /\ In(f, done[i].out)
      BY <2>4
    <3>2. i \in DOMAIN done /\ GivenBy(done[i].out, r, b)
      BY <2>2, <3>1, GivenIn, Now
    <3>3. Has("done", i, c, r, b)
      BY <3>1, <3>2 DEF Has, IsPiece, Piece
    <3>4. QED
      BY <2>1, <3>3
  <2>5. QED
    BY <1>4, <2>2, <2>3, <2>4
<1>6. ASSUME NEW r, NEW b, NEW t, NEW x, Has(t, x, c, r, b)', t # "written"
      PROVE  t # "done" /\ Has(t, x, c, r, b)
  <2>1. t # "done"
    BY <1>3, <1>6, KindsNext
  <2>2. QED
    BY <1>2, <1>6, <2>1, HasSame, KindsNext
<1>7. ASSUME NEW r \in Nat, NEW b \in Int, NEW t, NEW x, NEW u, NEW y,
             Has(t, x, c, r, b)', Has(u, y, c, r, b)'
      PROVE  t = u /\ x = y
  <2>1. CASE t = "written" /\ u = "written"
    BY <1>5, <1>7, <2>1
  <2>2. CASE t # "written" /\ u # "written"
    BY <1>1, <1>6, <1>7, <2>2 DEF OnePlaceOf
  <2>3. CASE t = "written" /\ u # "written"
    BY <1>1, <1>5, <1>6, <1>7, <2>3 DEF OnePlaceOf
  <2>4. CASE t # "written" /\ u = "written"
    BY <1>1, <1>5, <1>6, <1>7, <2>4 DEF OnePlaceOf
  <2>5. QED
    BY <2>1, <2>2, <2>3, <2>4
<1>8. ASSUME NEW r \in Nat, NEW b \in Int, NEW t, NEW x, Has(t, x, c, r, b)'
      PROVE  r <= sent'[c]
  <2>1. \E u, y : Has(u, y, c, r, b)
    BY <1>5, <1>6, <1>8
  <2>2. QED
    BY <1>1, <1>2, <2>1 DEF NumberedOf
<1>9. OnePlaceOf(c)' /\ NumberedOf(c)'
  BY <1>7, <1>8 DEF OnePlaceOf, NumberedOf
<1>10. OnceOf(c)'
  <2>1. \A x \in Worker : IsPiece("out", x, c)' => Once(Piece("out", x, c)')
    <3> SUFFICES ASSUME NEW x \in Worker, IsPiece("out", x, c)' PROVE Once(Piece("out", x, c)')
      OBVIOUS
    <3>1. IsPiece("out", x, c) /\ Piece("out", x, c)' = Piece("out", x, c)
      BY <1>2, OutSame
    <3>2. QED
      BY <1>1, <3>1, OnceNow
  <2>2. DOMAIN done' = {}
    BY <1>3
  <2>3. QED
    BY <1>4, <2>1, <2>2, OnceFrom
<1>11. QED
  BY <1>9, <1>10
-----------------------------------------------------------------------------
(* A task is taken.                                                        *)

LEMMA AnswerPop == ASSUME TypeInv, AnswerInv, NEW w \in Worker, pop_task(w) PROVE AnswerInv'
<1> SUFFICES ASSUME NEW c \in Conn PROVE OnePlaceOf(c)' /\ OnceOf(c)' /\ NumberedOf(c)'
  BY DEF AnswerInv, OnePlace, OnceInPlace, Numbered, OnePlaceOf, OnceOf, NumberedOf
<1>1. OnePlaceOf(c) /\ OnceOf(c) /\ NumberedOf(c)
  BY AnswerParts
<1>2. /\ queue \in Seq(TaskType) /\ queue # <<>> /\ queue' = Tail(queue)
      /\ wk'[w].task = queue[1]
      /\ wk'[w].pc = IF queue[1].kind = "CONTINUE" THEN "continue" ELSE "lookup"
      /\ wk[w].pc = "pop"
      /\ \A v \in Worker \ {w} : wk'[v] = wk[v]
      /\ UNCHANGED <<sent, inbox, wire, conns, done, gets>>
  BY PopStep DEF client
<1>3. /\ DOMAIN queue' = {i \in Nat \ {0} : i + 1 \in DOMAIN queue} /\ 1 \in DOMAIN queue
      /\ \A i \in DOMAIN queue' : queue'[i] = queue[i + 1]
  BY <1>2, TailIs
<1>4. \A v \in Worker \ {w} : Calm(wk'[v], wk[v])
  BY <1>2, Now DEF AllCalm
<1>5. Written(c)' = Written(c) /\ \A r, b : GivenBy(Written(c), r, b)' <=> GivenBy(Written(c), r, b)
  BY <1>2, WrittenSame
<1>6. ~ IsPiece("out", w, c)' /\ \A r, b : ~ Has("out", w, c, r, b)'
  BY <1>2 DEF IsPiece, HasResult, Has, Owes, Enqueuing, Completing
<1>7. \A r, b : ~ Has("task", w, c, r, b)
  BY <1>2 DEF Has, Owes, IsPiece
<1>8. ASSUME NEW r \in Nat, NEW b \in Int, NEW t, NEW x, Has(t, x, c, r, b)', ~ (t = "task" /\ x = w)
      PROVE  Has(t, Origin("queue", t, x), c, r, b) /\ ~ (t = "queue" /\ Origin("queue", t, x) = 1)
  <2>1. CASE t = "queue"
    <3>1. x \in DOMAIN queue' /\ queue'[x].kind # "CONTINUE" /\ queue'[x].conn = c /\ queue'[x].req = r
      BY <1>8, <2>1 DEF Has, Owes, IsPiece
    <3>2. x \in Nat \ {0} /\ x + 1 \in DOMAIN queue /\ queue'[x] = queue[x + 1]
      BY <1>3, <3>1
    <3>3. Has("queue", x + 1, c, r, b)
      BY <3>1, <3>2 DEF Has, Owes
    <3>4. QED
      BY <2>1, <3>2, <3>3 DEF Origin
  <2>2. CASE t # "queue"
    <3>1. t \in {"task", "out"} => x \in Worker \ {w}
      BY <1>6, <1>8, KindsNext
    <3>2. Has(t, x, c, r, b)
      BY <1>2, <1>4, <1>5, <1>8, <2>2, <3>1, HasSame, KindsNext
    <3>3. QED
      BY <2>2, <3>2 DEF Origin
  <2>3. QED
    BY <2>1, <2>2
<1>9. ASSUME NEW r \in Nat, NEW b \in Int, Has("task", w, c, r, b)'
      PROVE  Has("queue", 1, c, r, b)
  <2>1. wk'[w].pc \in {"lookup", "handle"} /\ wk'[w].task.conn = c /\ wk'[w].task.req = r
    BY <1>9 DEF Has, Owes, IsPiece
  <2>2. queue[1].kind # "CONTINUE" /\ queue[1].conn = c /\ queue[1].req = r
    BY <1>2, <2>1
  <2>3. QED
    BY <1>3, <2>2 DEF Has, Owes
<1>10. ASSUME NEW r \in Nat, NEW b \in Int, NEW x, Has("queue", x, c, r, b)'
       PROVE  x \in Nat
  BY <1>3, <1>10, KindsNext
<1>11. OnePlaceOf(c)' /\ NumberedOf(c)'
  <2>1. sent'[c] = sent[c]
    BY <1>2
  <2>2. \A t, x : t = "queue" /\ (\E r \in Nat, b \in Int : Has(t, x, c, r, b)') => x \in Nat
    BY <1>10
  <2>3. \A r \in Nat, b \in Int : \A t, x : Has(t, x, c, r, b)' /\ ~ (t = "task" /\ x = w) =>
          Has(t, Origin("queue", t, x), c, r, b) /\ ~ (t = "queue" /\ Origin("queue", t, x) = 1)
    BY <1>8
  <2>4. \A r \in Nat, b \in Int :
          Has("task", w, c, r, b)' => Has("task", w, c, r, b) \/ Has("queue", 1, c, r, b)
    BY <1>9
  <2>5. QED
    BY <1>1, <2>1, <2>2, <2>3, <2>4, MovesOne
<1>12. OnceOf(c)'
  <2>1. Once(Written(c)')
    BY <1>1, <1>5, OnceNow
  <2>2. \A x \in Worker : Calm(wk'[x], wk[x]) \/ (IsPiece("out", x, c)' => Once(Piece("out", x, c)'))
    BY <1>4, <1>6
  <2>3. QED
    BY <1>1, <1>2, <2>1, <2>2, OnceKeeps
<1>13. QED
  BY <1>11, <1>12
-----------------------------------------------------------------------------
(* A task is handled: its answers go to the worker's result and, for a     *)
(* download that goes on, to its entry.                                    *)

LEMMA MovesTwo ==
  ASSUME NEW c, OnePlaceOf(c), NumberedOf(c), sent'[c] = sent[c],
         NEW T, NEW X, NEW N, NEW Y, NEW M, NEW Z,
         \A r \in Nat, b \in Int : \A t, x :
           Has(t, x, c, r, b)' /\ ~ (t = N /\ x = Y) /\ ~ (t = M /\ x = Z) =>
             Has(t, x, c, r, b) /\ ~ (t = T /\ x = X),
         \A r \in Nat, b \in Int : Has(N, Y, c, r, b)' => Has(T, X, c, r, b),
         \A r \in Nat, b \in Int : Has(M, Z, c, r, b)' => Has(T, X, c, r, b),
         \A r \in Nat, b \in Int : ~ (Has(N, Y, c, r, b)' /\ Has(M, Z, c, r, b)')
  PROVE  OnePlaceOf(c)' /\ NumberedOf(c)'
<1>1. ASSUME NEW r \in Nat, NEW b \in Int, NEW t, NEW x, Has(t, x, c, r, b)'
      PROVE  Has(t, x, c, r, b) \/ Has(T, X, c, r, b)
  BY <1>1
<1>2. ASSUME NEW r \in Nat, NEW b \in Int, NEW t, NEW x, NEW u, NEW y,
             Has(t, x, c, r, b)', Has(u, y, c, r, b)'
      PROVE  t = u /\ x = y
  <2>1. CASE Has(T, X, c, r, b)
    <3>1. ASSUME NEW s, NEW z, Has(s, z, c, r, b)'
          PROVE  (s = N /\ z = Y) \/ (s = M /\ z = Z)
      <4> SUFFICES ASSUME ~ (s = N /\ z = Y), ~ (s = M /\ z = Z) PROVE FALSE
        OBVIOUS
      <4>1. Has(s, z, c, r, b) /\ ~ (s = T /\ z = X)
        BY <3>1
      <4>2. QED
        BY <2>1, <4>1 DEF OnePlaceOf
    <3>2. ~ (Has(N, Y, c, r, b)' /\ Has(M, Z, c, r, b)')
      OBVIOUS
    <3>3. (t = N /\ x = Y) \/ (t = M /\ x = Z)
      BY <1>2, <3>1
    <3>4. (u = N /\ y = Y) \/ (u = M /\ y = Z)
      BY <1>2, <3>1
    <3>5. QED
      BY <1>2, <3>2, <3>3, <3>4
  <2>2. CASE ~ Has(T, X, c, r, b)
    <3>1. Has(t, x, c, r, b) /\ Has(u, y, c, r, b)
      BY <1>1, <1>2, <2>2
    <3>2. QED
      BY <3>1 DEF OnePlaceOf
  <2>3. QED
    BY <2>1, <2>2
<1>3. ASSUME NEW r \in Nat, NEW b \in Int, NEW t, NEW x, Has(t, x, c, r, b)'
      PROVE  r <= sent'[c]
  BY <1>1, <1>3 DEF NumberedOf
<1>4. QED
  BY <1>2, <1>3 DEF OnePlaceOf, NumberedOf

LEMMA ResultPlace ==
  ASSUME TypeInv, NEW w \in Worker, NEW out \in Seq(FrameType), NEW close \in BOOLEAN, NEW key \in Nat,
         Result(w, out, close, key), wk[w].pc \in {"handle", "continue"}, NEW c
  PROVE  /\ \A v \in Worker \ {w} : Calm(wk'[v], wk[v])
         /\ IsPiece("out", w, c)' <=> wk[w].task.conn = c
         /\ Piece("out", w, c)' = out
         /\ ~ IsPiece("out", w, c)
         /\ \A r, b : ~ Has("task", w, c, r, b)'
         /\ \A r, b : Has("out", w, c, r, b)' <=> wk[w].task.conn = c /\ GivenBy(out, r, b)
         /\ \A r, b : Has("task", w, c, r, b) <=>
              wk[w].pc = "handle" /\ wk[w].task.conn = c /\ wk[w].task.req = r
<1>1. /\ \A v \in Worker \ {w} : wk'[v] = wk[v]
      /\ wk'[w].task = wk[w].task /\ wk'[w].out = out
      /\ wk'[w].pc \in {"complete", "enqueue"}
  BY ResultStep
<1>2. \A v \in Worker \ {w} : Calm(wk'[v], wk[v])
  BY <1>1, Now DEF AllCalm
<1>3. IsPiece("out", w, c)' <=> wk[w].task.conn = c
  BY <1>1 DEF IsPiece, HasResult, Enqueuing, Completing
<1>4. Piece("out", w, c)' = out
  BY <1>1 DEF Piece
<1>5. ~ IsPiece("out", w, c)
  BY DEF IsPiece, HasResult, Enqueuing, Completing
<1>6. \A r, b : ~ Has("task", w, c, r, b)'
  BY <1>1 DEF Has, Owes, IsPiece
<1>7. \A r, b : Has("out", w, c, r, b)' <=> wk[w].task.conn = c /\ GivenBy(out, r, b)
  <2> TAKE r, b
  <2>1. Has("out", w, c, r, b)' <=> IsPiece("out", w, c)' /\ GivenBy(Piece("out", w, c)', r, b)
    BY DEF Has, Owes
  <2>2. QED
    BY <1>3, <1>4, <2>1
<1>8. \A r, b : Has("task", w, c, r, b) <=>
        wk[w].pc = "handle" /\ wk[w].task.conn = c /\ wk[w].task.req = r
  BY DEF Has, Owes, IsPiece
<1>9. QED
  BY <1>2, <1>3, <1>4, <1>5, <1>6, <1>7, <1>8

\* z is the download whose entry changes; the answers were the task's or,
\* for a continuation, the entry's.
LEMMA AnswerResult ==
  ASSUME TypeInv, AnswerInv, NEW w \in Worker, NEW out \in Seq(FrameType), NEW close \in BOOLEAN,
         NEW key \in Nat, Result(w, out, close, key), wk[w].pc \in {"handle", "continue"},
         UNCHANGED <<sent, inbox, wire, conns, queue, done>>, Once(out), NEW z, NEW T, NEW X,
         (T = "task" /\ X = w) \/ (T = "gets" /\ X = z),
         \A k \in DOMAIN gets' : k = z \/ (k \in DOMAIN gets /\ gets'[k] = gets[k]),
         \A c \in Conn, r \in Nat, b \in Int :
           /\ wk[w].task.conn = c /\ GivenBy(out, r, b) => Has(T, X, c, r, b)
           /\ Has("gets", z, c, r, b)' =>
                Has(T, X, c, r, b) /\ ~ (wk[w].task.conn = c /\ GivenBy(out, r, b))
  PROVE  AnswerInv'
<1> SUFFICES ASSUME NEW c \in Conn PROVE OnePlaceOf(c)' /\ OnceOf(c)' /\ NumberedOf(c)'
  BY DEF AnswerInv, OnePlace, OnceInPlace, Numbered, OnePlaceOf, OnceOf, NumberedOf
<1>1. OnePlaceOf(c) /\ OnceOf(c) /\ NumberedOf(c)
  BY AnswerParts
<1>2. /\ \A v \in Worker \ {w} : Calm(wk'[v], wk[v])
      /\ Piece("out", w, c)' = out
      /\ \A r, b : ~ Has("task", w, c, r, b)'
      /\ \A r, b : Has("out", w, c, r, b)' <=> wk[w].task.conn = c /\ GivenBy(out, r, b)
  BY ResultPlace
<1>3. Written(c)' = Written(c) /\ \A r, b : GivenBy(Written(c), r, b)' <=> GivenBy(Written(c), r, b)
  BY WrittenSame
<1>4. \A r \in Nat, b \in Int : \A t, x :
        Has(t, x, c, r, b)' /\ ~ (t = "out" /\ x = w) /\ ~ (t = "gets" /\ x = z) =>
          Has(t, x, c, r, b) /\ ~ (t = T /\ x = X)
  <2> SUFFICES ASSUME NEW r \in Nat, NEW b \in Int, NEW t, NEW x, Has(t, x, c, r, b)',
                      ~ (t = "out" /\ x = w), ~ (t = "gets" /\ x = z)
               PROVE  Has(t, x, c, r, b) /\ ~ (t = T /\ x = X)
    OBVIOUS
  <2>1. ~ (t = "task" /\ x = w)
    BY <1>2
  <2>2. t \in {"task", "out"} => Calm(wk'[x], wk[x])
    BY <1>2, <2>1, KindsNext
  <2>3. t = "gets" => x \in DOMAIN gets /\ gets'[x] = gets[x]
    BY KindsNext
  <2>4. Has(t, x, c, r, b)
    BY <1>3, <2>2, <2>3, HasSame
  <2>5. QED
    BY <2>1, <2>4
<1>5. \A r \in Nat, b \in Int : Has("out", w, c, r, b)' => Has(T, X, c, r, b)
  BY <1>2
<1>6. \A r \in Nat, b \in Int : Has("gets", z, c, r, b)' => Has(T, X, c, r, b)
  OBVIOUS
<1>7. \A r \in Nat, b \in Int : ~ (Has("out", w, c, r, b)' /\ Has("gets", z, c, r, b)')
  BY <1>2
<1>8. sent'[c] = sent[c]
  OBVIOUS
<1>9. OnePlaceOf(c)' /\ NumberedOf(c)'
  BY <1>1, <1>4, <1>5, <1>6, <1>7, <1>8, MovesTwo
<1>10. OnceOf(c)'
  <2>1. Once(Written(c)')
    BY <1>1, <1>3, OnceNow
  <2>2. \A x \in Worker : Calm(wk'[x], wk[x]) \/ (IsPiece("out", x, c)' => Once(Piece("out", x, c)'))
    BY <1>2
  <2>3. QED
    BY <1>1, <2>1, <2>2, OnceKeeps
<1>11. QED
  BY <1>9, <1>10

LEMMA AnswerPing ==
  ASSUME TypeInv, AnswerInv, NEW w \in Worker, handle_ping(w) \/ handle_close(w)
  PROVE  AnswerInv'
<1> DEFINE f == Frame("OK", wk[w].task.req, 0)
           t == wk[w].task
<1>1. wk[w].pc = "handle" /\ UNCHANGED <<sent, inbox, wire, conns, queue, done, gets>>
  BY DEF handle_ping, handle_close, client
<1>2. f \in FrameType
  <2>1. wk[w] \in WorkerType /\ wk[w].task.req # 0
    BY <1>1, Now DEF TypeInv, LocalOK
  <2>2. QED
    BY <2>1, FrameIn DEF WorkerType, TaskType
<1>3. \A r, b : Gives(f, r, b) <=> r = t.req /\ b = Final1
  BY GivesIs DEF Final
<1>4. PICK close \in BOOLEAN : Result(w, <<f>>, close, 0)
  BY DEF handle_ping, handle_close
<1> HIDE DEF f
<1>5. <<f>> \in Seq(FrameType)
  BY <1>2, OnlyOne
<1>6. Once(<<f>>) /\ \A r, b : GivenBy(<<f>>, r, b) <=> Gives(f, r, b)
  BY OneGives
<1> DEFINE out == <<f>>
<1>7. /\ Result(w, out, close, 0) /\ out \in Seq(FrameType) /\ Once(out)
      /\ \A r, b : GivenBy(out, r, b) => r = t.req
  BY <1>3, <1>4, <1>5, <1>6
<1> HIDE DEF out
<1>8. \A c \in Conn, r \in Nat, b \in Int :
        t.conn = c /\ GivenBy(out, r, b) => Has("task", w, c, r, b)
  BY <1>1, <1>7 DEF Has, Owes
<1>9. \A c \in Conn, r \in Nat, b \in Int : ~ Has("gets", 0, c, r, b)'
  <2>1. 0 \notin DOMAIN gets'
    BY <1>1, Now
  <2>2. QED
    BY <2>1, KindsNext
<1>10. \A k \in DOMAIN gets' : k \in DOMAIN gets /\ gets'[k] = gets[k]
  BY <1>1
<1>11. QED
  BY <1>1, <1>7, <1>8, <1>9, <1>10, AnswerResult

\* The OK frames among what is read.
LEMMA OkFrames ==
  ASSUME NEW req \in Nat \ {0}, NEW offset \in Nat, NEW n \in Nat, NEW total \in Nat
  PROVE  /\ \A f : In(f, Data(req, offset, n)) => f.kind = "DATA"
         /\ \A f : In(f, Append(Data(req, offset, n), Frame("OK", req, total))) =>
              f.kind = "DATA" \/ f = Frame("OK", req, total)
<1> DEFINE d == Data(req, offset, n)
           e == Frame("OK", req, total)
<1>1. d \in Seq(FrameType) /\ e \in FrameType
  BY FrameIn
<1>2. \A f : In(f, d) => f.kind = "DATA"
  <2> DEFINE one == [Frame("DATA", req, offset) EXCEPT !.len = n]
  <2>1. one.kind = "DATA" /\ d = IF n = 0 THEN <<>> ELSE <<one>>
    BY DEF Frame, Data
  <2> HIDE DEF one
  <2>2. \A f : In(f, <<>>) \/ In(f, <<one>>) => f = one
    BY DEF In
  <2>3. \A f : In(f, d) => In(f, <<>>) \/ In(f, <<one>>)
    BY <2>1
  <2>4. QED
    BY <2>1, <2>2, <2>3
<1> HIDE DEF d, e
<1>3. \A f : In(f, Append(d, e)) => In(f, d) \/ f = e
  <2>1. DOMAIN Append(d, e) = DOMAIN d \cup {Len(d) + 1} /\ Append(d, e)[Len(d) + 1] = e
        /\ \A i \in DOMAIN d : Append(d, e)[i] = d[i]
    BY <1>1, AppendIs
  <2>2. QED
    BY <2>1 DEF In
<1>4. QED
  BY <1>2, <1>3 DEF d, e

\* What a list of frames gives: the final answer if fin, and a range of bytes.
Brings(out, req, fin, from, to) ==
  \A r \in Nat, b \in Int :
    GivenBy(out, r, b) <=> r = req /\ ((fin /\ b = Final1) \/ (from <= b /\ b < to))
Oks(out, req, total) == \A f : In(f, out) /\ f.kind = "OK" => f.req = req /\ f.n = total
NoOks(out) == \A f : In(f, out) => f.kind # "OK"

LEMMA OneFrame ==
  ASSUME NEW kind \in Final, NEW req \in Nat \ {0}, NEW n \in Nat, NEW at \in Nat
  PROVE  LET out == <<Frame(kind, req, n)>> IN
         /\ out \in Seq(FrameType) /\ Once(out)
         /\ Brings(out, req, TRUE, at, at)
         /\ kind = "OK" => Oks(out, req, n)
         /\ kind # "OK" => NoOks(out)
<1> DEFINE f == Frame(kind, req, n)
           out == <<f>>
<1>1. f \in FrameType /\ f.kind = kind /\ f.req = req /\ f.n = n
  BY FrameIn DEF Final, Frame
<1>2. \A r, b : Gives(f, r, b) <=> r = req /\ b = Final1
  BY GivesIs
<1> HIDE DEF f
<1>3. out \in Seq(FrameType) /\ Once(out) /\ \A r, b : GivenBy(out, r, b) <=> Gives(f, r, b)
  BY <1>1, OnlyOne, OneGives
<1>4. \A e : In(e, out) => e = f
  BY DEF In
<1> HIDE DEF out
<1>5. Brings(out, req, TRUE, at, at)
  BY <1>2, <1>3 DEF Brings
<1>6. (kind = "OK" => Oks(out, req, n)) /\ (kind # "OK" => NoOks(out))
  BY <1>1, <1>4 DEF Oks, NoOks
<1>7. QED
  BY <1>3, <1>5, <1>6 DEF out, f

LEMMA DataFrames ==
  ASSUME NEW req \in Nat \ {0}, NEW offset \in Nat, NEW n \in Nat, NEW total \in Nat
  PROVE  LET out == Data(req, offset, n)
             all == Append(Data(req, offset, n), Frame("OK", req, total)) IN
         /\ out \in Seq(FrameType) /\ Once(out)
         /\ Brings(out, req, FALSE, offset, offset + n) /\ NoOks(out)
         /\ all \in Seq(FrameType) /\ Once(all)
         /\ Brings(all, req, TRUE, offset, offset + n) /\ Oks(all, req, total)
<1> DEFINE out == Data(req, offset, n)
           all == Append(Data(req, offset, n), Frame("OK", req, total))
           ok == Frame("OK", req, total)
<1>1. out \in Seq(FrameType) /\ all \in Seq(FrameType)
  BY FrameIn, DataThenOk
<1>2. Once(out) /\ \A r \in Nat, b \in Int : GivenBy(out, r, b) <=> r = req /\ offset <= b /\ b < offset + n
  BY DataGives
<1>3. Once(all) /\ \A r \in Nat, b \in Int :
        GivenBy(all, r, b) <=> r = req /\ (b = Final1 \/ (offset <= b /\ b < offset + n))
  BY DataThenOk
<1>4. /\ \A f : In(f, out) => f.kind = "DATA"
      /\ \A f : In(f, all) => f.kind = "DATA" \/ f = ok
  BY OkFrames
<1>5. ok.req = req /\ ok.n = total
  BY DEF Frame
<1> HIDE DEF out, all, ok
<1>6. Brings(out, req, FALSE, offset, offset + n) /\ Brings(all, req, TRUE, offset, offset + n)
  BY <1>2, <1>3 DEF Brings
<1>7. NoOks(out) /\ Oks(all, req, total)
  BY <1>4, <1>5 DEF NoOks, Oks
<1>8. QED
  BY <1>1, <1>2, <1>3, <1>6, <1>7 DEF out, all

\* What GET_ARTIFACT hands over while artifacts are not deleted: an answer
\* that is complete, or a first slice and an entry for the rest, or an entry
\* that cannot be read.
GetDone(t, out, key) ==
  \E n \in Nat :
    /\ n = 0 \/ t.offset + n <= ArtifactSize
    /\ gets' = gets
    /\ Brings(out, t.req, TRUE, t.offset, t.offset + n) /\ Oks(out, t.req, n)
GetFails(t, out, key) ==
  \E g : /\ gets' = AddGet(get_seq, g) /\ ~ (g.offset <= ArtifactSize)
         /\ Brings(out, t.req, TRUE, t.offset, t.offset) /\ NoOks(out)
GetGoesOn(t, out, key) ==
  \E g : \E n \in Nat :
    /\ gets' = AddGet(get_seq, g)
    /\ g.conn = t.conn /\ g.req = t.req /\ g.offset = t.offset + n /\ g.sent = n
    /\ Brings(out, t.req, FALSE, t.offset, t.offset + n) /\ NoOks(out)

LEMMA GetResult ==
  ASSUME TypeInv, "delete" \notin Events, NEW w \in Worker, handle_get(w)
  PROVE  /\ wk[w].task.conn \in Conn /\ wk[w].task.req \in Nat \ {0} /\ wk[w].task.offset \in Nat
         /\ wk[w].pc = "handle"
         /\ UNCHANGED <<sent, inbox, wire, conns, queue, done>>
         /\ \E out \in Seq(FrameType), close \in BOOLEAN, key \in Nat :
              /\ Result(w, out, close, key) /\ Once(out)
              /\ \/ GetDone(wk[w].task, out, key)
                 \/ GetFails(wk[w].task, out, key)
                 \/ GetGoesOn(wk[w].task, out, key)
<1> DEFINE t == wk[w].task
           n == ReadLength(t.offset, t.length)
           state == [conn |-> t.conn, req |-> t.req, offset |-> t.offset, remaining |-> t.length,
                     sent |-> 0]
           Good(out, key) == GetDone(t, out, key) \/ GetFails(t, out, key) \/ GetGoesOn(t, out, key)
           Goal == \E out \in Seq(FrameType), close \in BOOLEAN, key \in Nat :
                     Result(w, out, close, key) /\ Once(out) /\ Good(out, key)
<1>1. /\ t.conn \in Conn /\ t.req \in Nat \ {0} /\ t.offset \in Nat /\ t.length \in Nat
      /\ wk[w].pc = "handle" /\ get_seq' = get_seq + 1
      /\ UNCHANGED <<sent, inbox, wire, conns, queue, done>>
      /\ \/ t.length = 0 /\ Result(w, <<Frame("OK", t.req, 0)>>, FALSE, 0) /\ UNCHANGED gets
         \/ /\ t.length # 0 /\ ReadFails(t.offset)
            /\ Result(w, <<Error("FAILED", t.req)>>, FALSE, 0)
            /\ gets' = AddGet(get_seq, state)
         \/ /\ t.length # 0 /\ ~ ReadFails(t.offset) /\ n = t.length
            /\ Result(w, Append(Data(t.req, t.offset, n), Frame("OK", t.req, n)), FALSE, 0)
            /\ UNCHANGED gets
         \/ /\ t.length # 0 /\ ~ ReadFails(t.offset) /\ n # t.length
            /\ Result(w, Data(t.req, t.offset, n), FALSE, get_seq)
            /\ gets' = AddGet(get_seq, Advance(state, n))
  BY HandleGetCases DEF client
<1>2. t.length # 0 => state \in GetType
  BY <1>1 DEF GetType
<1>3. state.conn = t.conn /\ state.req = t.req /\ state.offset = t.offset /\ state.sent = 0
  OBVIOUS
<1>4. ~ ReadFails(t.offset) => n \in Nat /\ t.offset + n <= ArtifactSize
  BY <1>1, ReadLengthType
<1>5. get_seq \in Nat /\ published
  BY Now DEF TypeInv
<1> SUFFICES Goal
  BY <1>1
<1> HIDE DEF t, n, state, Good
<1>6. ASSUME NEW out \in Seq(FrameType), NEW close \in BOOLEAN, NEW key \in Nat,
             Result(w, out, close, key), Once(out), Good(out, key)
      PROVE  Goal
  BY <1>6
<1> HIDE DEF Goal
<1>7. CASE t.length = 0 /\ Result(w, <<Frame("OK", t.req, 0)>>, FALSE, 0) /\ UNCHANGED gets
  <2>1. <<Frame("OK", t.req, 0)>> \in Seq(FrameType)
    BY <1>1, OneFrame DEF Final
  <2>2. PICK out \in Seq(FrameType), close \in BOOLEAN :
          Result(w, out, close, 0) /\ out = <<Frame("OK", t.req, 0)>>
    BY <1>7, <2>1
  <2>3. Once(out) /\ Oks(out, t.req, 0)
    BY <1>1, <2>2, OneFrame DEF Final
  <2>4. Brings(out, t.req, TRUE, t.offset, t.offset + 0)
    <3>1. Brings(out, t.req, TRUE, t.offset, t.offset)
      BY <1>1, <2>2, OneFrame DEF Final
    <3>2. QED
      BY <1>1, <3>1 DEF Brings
  <2>5. PICK n0 \in Nat : n0 = 0 /\ Brings(out, t.req, TRUE, t.offset, t.offset + n0) /\ Oks(out, t.req, n0)
    BY <2>3, <2>4
  <2>6. GetDone(t, out, 0)
    BY <1>7, <2>5 DEF GetDone
  <2>7. QED
    BY <1>6, <2>2, <2>3, <2>6 DEF Good
<1>8. CASE /\ t.length # 0 /\ ReadFails(t.offset)
           /\ Result(w, <<Error("FAILED", t.req)>>, FALSE, 0)
           /\ gets' = AddGet(get_seq, state)
  <2>1. Error("FAILED", t.req) = Frame("FAILED", t.req, 0)
    BY <1>1 DEF Error
  <2>2. <<Frame("FAILED", t.req, 0)>> \in Seq(FrameType)
    BY <1>1, OneFrame DEF Final
  <2>3. PICK out \in Seq(FrameType), close \in BOOLEAN :
          Result(w, out, close, 0) /\ out = <<Frame("FAILED", t.req, 0)>>
    BY <1>8, <2>1, <2>2
  <2>4. Once(out) /\ Brings(out, t.req, TRUE, t.offset, t.offset) /\ NoOks(out)
    BY <1>1, <2>3, OneFrame DEF Final
  <2>5. ~ (state.offset <= ArtifactSize)
    BY <1>1, <1>3, <1>5, <1>8 DEF ReadFails
  <2>6. GetFails(t, out, 0)
    BY <1>8, <2>4, <2>5 DEF GetFails
  <2>7. QED
    BY <1>6, <2>3, <2>4, <2>6 DEF Good
<1>9. CASE /\ t.length # 0 /\ ~ ReadFails(t.offset) /\ n = t.length
           /\ Result(w, Append(Data(t.req, t.offset, n), Frame("OK", t.req, n)), FALSE, 0)
           /\ UNCHANGED gets
  <2>1. Append(Data(t.req, t.offset, n), Frame("OK", t.req, n)) \in Seq(FrameType)
    BY <1>1, <1>4, <1>9, DataFrames
  <2>2. PICK out \in Seq(FrameType), close \in BOOLEAN :
          Result(w, out, close, 0) /\ out = Append(Data(t.req, t.offset, n), Frame("OK", t.req, n))
    BY <1>9, <2>1
  <2>3. Once(out) /\ Brings(out, t.req, TRUE, t.offset, t.offset + n) /\ Oks(out, t.req, n)
    BY <1>1, <1>4, <1>9, <2>2, DataFrames
  <2>4. GetDone(t, out, 0)
    BY <1>4, <1>9, <2>3 DEF GetDone
  <2>5. QED
    BY <1>6, <2>2, <2>3, <2>4 DEF Good
<1>10. CASE /\ t.length # 0 /\ ~ ReadFails(t.offset) /\ n # t.length
            /\ Result(w, Data(t.req, t.offset, n), FALSE, get_seq)
            /\ gets' = AddGet(get_seq, Advance(state, n))
  <2>1. Data(t.req, t.offset, n) \in Seq(FrameType)
    BY <1>1, <1>4, <1>10, DataFrames
  <2>2. PICK out \in Seq(FrameType), close \in BOOLEAN, key \in Nat :
          Result(w, out, close, key) /\ out = Data(t.req, t.offset, n)
    BY <1>5, <1>10, <2>1
  <2>3. Once(out) /\ Brings(out, t.req, FALSE, t.offset, t.offset + n) /\ NoOks(out)
    BY <1>1, <1>4, <1>10, <2>2, DataFrames
  <2> DEFINE g == Advance(state, n)
  <2>4. g.conn = t.conn /\ g.req = t.req /\ g.offset = t.offset + n /\ g.sent = 0 + n
    BY <1>2, <1>3, <1>4, <1>10, AdvanceIs
  <2>5. gets' = AddGet(get_seq, g) /\ n \in Nat
    BY <1>4, <1>10
  <2> HIDE DEF g
  <2>6. g.sent = n
    BY <2>4, <2>5
  <2>7. GetGoesOn(t, out, key)
    BY <2>3, <2>4, <2>5, <2>6 DEF GetGoesOn
  <2>8. QED
    BY <1>6, <2>2, <2>3, <2>7 DEF Good
<1>11. QED
  BY <1>1, <1>7, <1>8, <1>9, <1>10 DEF t, n, state

LEMMA AddedGet ==
  ASSUME NEW z, NEW g, gets' = AddGet(z, g)
  PROVE  /\ DOMAIN gets' = DOMAIN gets \cup {z} /\ gets'[z] = g
         /\ \A k \in DOMAIN gets : k # z => gets'[k] = gets[k]
BY DEF AddGet

LEMMA AnswerGet ==
  ASSUME TypeInv, AnswerInv, "delete" \notin Events, NEW w \in Worker, handle_get(w)
  PROVE  AnswerInv'
<1> DEFINE t == wk[w].task
<1>1. /\ t.conn \in Conn /\ t.req \in Nat \ {0} /\ t.offset \in Nat
      /\ wk[w].pc = "handle" /\ UNCHANGED <<sent, inbox, wire, conns, queue, done>>
  BY GetResult
<1>2. PICK out \in Seq(FrameType), close \in BOOLEAN, key \in Nat :
        /\ Result(w, out, close, key) /\ Once(out)
        /\ GetDone(t, out, key) \/ GetFails(t, out, key) \/ GetGoesOn(t, out, key)
  BY GetResult
<1>21. PICK z : z = get_seq
  OBVIOUS
<1>3. z \notin DOMAIN gets
  <2>1. get_seq \in Nat /\ DOMAIN gets \subseteq 1 .. get_seq - 1
    BY Now
  <2>2. QED
    BY <1>21, <2>1
<1>4. wk[w].pc \in {"handle", "continue"}
  BY <1>1
<1>5. \A c, r, b : t.conn = c /\ r = t.req => Has("task", w, c, r, b)
  BY <1>1 DEF Has, Owes
<1> HIDE DEF t
<1>6. \A r \in Nat, b \in Int : GivenBy(out, r, b) => r = t.req
  BY <1>2 DEF GetDone, GetFails, GetGoesOn, Brings
<1>7. /\ \A k \in DOMAIN gets' : k = z \/ (k \in DOMAIN gets /\ gets'[k] = gets[k])
      /\ \A c \in Conn, r \in Nat, b \in Int : Has("gets", z, c, r, b)' =>
           c = t.conn /\ r = t.req /\ ~ GivenBy(out, r, b)
  <2>1. CASE GetDone(t, out, key)
    BY <1>3, <2>1, KindsNext DEF GetDone
  <2>2. CASE GetFails(t, out, key)
    <3>1. PICK g : gets' = AddGet(get_seq, g) /\ ~ (g.offset <= ArtifactSize)
      BY <2>2 DEF GetFails
    <3>2. /\ DOMAIN gets' = DOMAIN gets \cup {z} /\ gets'[z] = g
          /\ \A k \in DOMAIN gets : k # z => gets'[k] = gets[k]
      <4>1. gets' = AddGet(z, g)
        BY <1>21, <3>1
      <4>2. QED
        BY <4>1, AddedGet
    <3>3. \A c \in Conn, r \in Nat, b \in Int : ~ Has("gets", z, c, r, b)'
      BY <3>1, <3>2 DEF Has, Owes, IsPiece
    <3>4. QED
      BY <3>2, <3>3
  <2>3. CASE GetGoesOn(t, out, key)
    <3>0. PICK g : \E n \in Nat :
            /\ gets' = AddGet(get_seq, g)
            /\ g.conn = t.conn /\ g.req = t.req /\ g.offset = t.offset + n
            /\ Brings(out, t.req, FALSE, t.offset, t.offset + n)
      BY <2>3 DEF GetGoesOn
    <3>1. PICK n \in Nat :
            /\ gets' = AddGet(get_seq, g)
            /\ g.conn = t.conn /\ g.req = t.req /\ g.offset = t.offset + n
            /\ Brings(out, t.req, FALSE, t.offset, t.offset + n)
      BY <3>0
    <3>2. /\ DOMAIN gets' = DOMAIN gets \cup {z} /\ gets'[z] = g
          /\ \A k \in DOMAIN gets : k # z => gets'[k] = gets[k]
      <4>1. gets' = AddGet(z, g)
        BY <1>21, <3>1
      <4>2. QED
        BY <4>1, AddedGet
    <3>3. ASSUME NEW c \in Conn, NEW r \in Nat, NEW b \in Int, Has("gets", z, c, r, b)'
          PROVE  c = t.conn /\ r = t.req /\ ~ GivenBy(out, r, b)
      <4>1. g.conn = c /\ g.req = r /\ (b = Final1 \/ b >= g.offset)
        BY <3>2, <3>3 DEF Has, Owes, IsPiece
      <4>2. GivenBy(out, r, b) => t.offset <= b /\ b < t.offset + n
        BY <3>1 DEF Brings
      <4>3. QED
        BY <1>1, <3>1, <4>1, <4>2 DEF Final1
    <3>4. QED
      BY <3>2, <3>3
  <2>4. QED
    BY <1>2, <2>1, <2>2, <2>3
<1>8. \A c \in Conn, r \in Nat, b \in Int :
        /\ wk[w].task.conn = c /\ GivenBy(out, r, b) => Has("task", w, c, r, b)
        /\ Has("gets", z, c, r, b)' =>
             Has("task", w, c, r, b) /\ ~ (wk[w].task.conn = c /\ GivenBy(out, r, b))
  BY <1>5, <1>6, <1>7 DEF t
<1>9. \A k \in DOMAIN gets' : k = z \/ (k \in DOMAIN gets /\ gets'[k] = gets[k])
  BY <1>7
<1>10. QED
  BY <1>1, <1>2, <1>4, <1>8, <1>9, AnswerResult
-----------------------------------------------------------------------------
(* A continuation is handled.                                              *)

ContinueDone(g, k, out) ==
  \E n \in Nat :
    /\ g.offset + n <= ArtifactSize
    /\ gets' = EraseGet(k)
    /\ Brings(out, g.req, TRUE, g.offset, g.offset + n) /\ Oks(out, g.req, g.sent + n)
ContinueOn(g, k, out) ==
  \E h : \E n \in Nat :
    /\ gets' = [gets EXCEPT ![k] = h]
    /\ h.conn = g.conn /\ h.req = g.req /\ h.offset = g.offset + n /\ h.sent = g.sent + n
    /\ Brings(out, g.req, FALSE, g.offset, g.offset + n) /\ NoOks(out)

LEMMA ContinueResult ==
  ASSUME TypeInv, StreamInv, "delete" \notin Events, NEW w \in Worker, handle_get_continue(w)
  PROVE  LET k == wk[w].task.key
             g == gets[k] IN
         /\ wk[w].pc = "continue"
         /\ UNCHANGED <<sent, inbox, wire, conns, queue, done>>
         /\ k \in DOMAIN gets => /\ g \in GetType /\ g.conn = wk[w].task.conn
                                 /\ g.offset <= ArtifactSize /\ g.sent <= g.offset
         /\ \E out \in Seq(FrameType), close \in BOOLEAN, key \in Nat :
              /\ Result(w, out, close, key) /\ Once(out)
              /\ \/ k \notin DOMAIN gets /\ out = <<>> /\ UNCHANGED gets
                 \/ k \in DOMAIN gets /\ ContinueDone(g, k, out)
                 \/ k \in DOMAIN gets /\ ContinueOn(g, k, out)
<1> DEFINE k == wk[w].task.key
           g == gets[k]
           n == ReadLength(g.offset, g.remaining)
           Good(out) == \/ k \notin DOMAIN gets /\ out = <<>> /\ UNCHANGED gets
                        \/ k \in DOMAIN gets /\ ContinueDone(g, k, out)
                        \/ k \in DOMAIN gets /\ ContinueOn(g, k, out)
           Goal == \E out \in Seq(FrameType), close \in BOOLEAN, key \in Nat :
                     Result(w, out, close, key) /\ Once(out) /\ Good(out)
<1>1. /\ wk[w].pc = "continue" /\ k \in Nat \ {0}
      /\ UNCHANGED <<sent, inbox, wire, conns, queue, done>>
      /\ \/ k \notin DOMAIN gets /\ Result(w, <<>>, FALSE, 0) /\ UNCHANGED gets
         \/ /\ k \in DOMAIN gets /\ ReadFails(g.offset)
            /\ Result(w, <<Error("FAILED", wk[w].task.req)>>, FALSE, 0) /\ UNCHANGED gets
         \/ /\ k \in DOMAIN gets /\ ~ ReadFails(g.offset) /\ (n = g.remaining \/ n = 0)
            /\ Result(w, Append(Data(g.req, g.offset, n), Frame("OK", g.req, Advance(g, n).sent)), FALSE, 0)
            /\ gets' = EraseGet(k)
         \/ /\ k \in DOMAIN gets /\ ~ ReadFails(g.offset) /\ n # g.remaining /\ n # 0
            /\ Result(w, Data(g.req, g.offset, n), FALSE, k)
            /\ gets' = [gets EXCEPT ![k] = Advance(g, n)]
  BY ContinueCases DEF client
<1>2. k \in DOMAIN gets => /\ g \in GetType /\ g.conn = wk[w].task.conn
                           /\ g.offset <= ArtifactSize /\ g.sent <= g.offset
  <2>1. Carrier("worker", w, k) /\ CarrierConn("worker", w) = wk[w].task.conn
    BY <1>1 DEF Carrier, Carries, CarrierConn
  <2>2. Carried(k)
    BY <2>1 DEF Carried
  <2>3. k \in DOMAIN gets => Stream(k) /\ g \in GetType
    BY Now DEF StreamInv
  <2>4. QED
    BY <2>1, <2>2, <2>3 DEF Stream
<1>3. SUFFICES Goal
  BY <1>1, <1>2
<1>4. k \in DOMAIN gets => ~ ReadFails(g.offset) /\ n \in Nat /\ g.offset + n <= ArtifactSize
                           /\ g.req \in Nat \ {0} /\ g.offset \in Nat /\ g.sent \in Nat
  <2>1. published
    BY Now DEF TypeInv
  <2>2. k \in DOMAIN gets => g.req \in Nat \ {0} /\ g.offset \in Nat /\ g.sent \in Nat /\ g.remaining \in Nat
    BY <1>2 DEF GetType
  <2>3. k \in DOMAIN gets => ~ ReadFails(g.offset)
    BY <1>2, <2>1, <2>2 DEF ReadFails
  <2>4. QED
    BY <2>2, <2>3, ReadLengthType
<1>5. k \in DOMAIN gets => /\ Advance(g, n).conn = g.conn /\ Advance(g, n).req = g.req
                           /\ Advance(g, n).offset = g.offset + n /\ Advance(g, n).sent = g.sent + n
  BY <1>2, <1>4, AdvanceIs
<1> HIDE DEF k, g, n, Good
<1>6. ASSUME NEW out \in Seq(FrameType), NEW close \in BOOLEAN, NEW key \in Nat,
             Result(w, out, close, key), Once(out), Good(out)
      PROVE  Goal
  BY <1>6
<1> HIDE DEF Goal
<1>7. CASE k \notin DOMAIN gets /\ Result(w, <<>>, FALSE, 0) /\ UNCHANGED gets
  <2>1. <<>> \in Seq(FrameType) /\ Once(<<>>)
    BY EmptyGives, ClosedOK
  <2>2. PICK out \in Seq(FrameType), close \in BOOLEAN : Result(w, out, close, 0) /\ out = <<>>
    BY <1>7, <2>1
  <2>3. QED
    BY <1>6, <1>7, <2>1, <2>2 DEF Good
<1>8. CASE /\ k \in DOMAIN gets /\ ~ ReadFails(g.offset) /\ (n = g.remaining \/ n = 0)
           /\ Result(w, Append(Data(g.req, g.offset, n), Frame("OK", g.req, Advance(g, n).sent)), FALSE, 0)
           /\ gets' = EraseGet(k)
  <2>1. Advance(g, n).sent = g.sent + n /\ g.sent + n \in Nat
    BY <1>4, <1>5, <1>8
  <2>2. PICK m \in Nat : m = g.sent + n /\ m = Advance(g, n).sent
    BY <2>1
  <2>3. Append(Data(g.req, g.offset, n), Frame("OK", g.req, m)) \in Seq(FrameType)
    BY <1>4, <1>8, <2>2, DataFrames
  <2>4. PICK out \in Seq(FrameType), close \in BOOLEAN :
          Result(w, out, close, 0) /\ out = Append(Data(g.req, g.offset, n), Frame("OK", g.req, m))
    BY <1>8, <2>2, <2>3
  <2>5. Once(out) /\ Brings(out, g.req, TRUE, g.offset, g.offset + n) /\ Oks(out, g.req, m)
    BY <1>4, <1>8, <2>2, <2>4, DataFrames
  <2>6. ContinueDone(g, k, out)
    BY <1>4, <1>8, <2>2, <2>5 DEF ContinueDone
  <2>7. QED
    BY <1>6, <1>8, <2>4, <2>5, <2>6 DEF Good
<1>9. CASE /\ k \in DOMAIN gets /\ ~ ReadFails(g.offset) /\ n # g.remaining /\ n # 0
           /\ Result(w, Data(g.req, g.offset, n), FALSE, k)
           /\ gets' = [gets EXCEPT ![k] = Advance(g, n)]
  <2>1. Data(g.req, g.offset, n) \in Seq(FrameType)
    BY <1>4, <1>9, DataFrames
  <2>2. PICK out \in Seq(FrameType), close \in BOOLEAN, key \in Nat :
          Result(w, out, close, key) /\ out = Data(g.req, g.offset, n)
    BY <1>1, <1>9, <2>1
  <2>3. Once(out) /\ Brings(out, g.req, FALSE, g.offset, g.offset + n) /\ NoOks(out)
    BY <1>4, <1>9, <2>2, DataFrames
  <2> DEFINE h == Advance(g, n)
  <2>4. h.conn = g.conn /\ h.req = g.req /\ h.offset = g.offset + n /\ h.sent = g.sent + n
    BY <1>5, <1>9
  <2>5. gets' = [gets EXCEPT ![k] = h] /\ n \in Nat
    BY <1>4, <1>9
  <2> HIDE DEF h
  <2>6. ContinueOn(g, k, out)
    BY <2>3, <2>4, <2>5 DEF ContinueOn
  <2>7. QED
    BY <1>6, <1>9, <2>2, <2>3, <2>6 DEF Good
<1>10. QED
  BY <1>1, <1>4, <1>7, <1>8, <1>9 DEF k, g, n

LEMMA AnswerContinue ==
  ASSUME TypeInv, StreamInv, AnswerInv, "delete" \notin Events, NEW w \in Worker, handle_get_continue(w)
  PROVE  AnswerInv'
<1>9. PICK k : k = wk[w].task.key
  OBVIOUS
<1> DEFINE g == gets[k]
<1>1. /\ wk[w].pc = "continue"
      /\ UNCHANGED <<sent, inbox, wire, conns, queue, done>>
      /\ k \in DOMAIN gets => /\ g \in GetType /\ g.conn = wk[w].task.conn
                              /\ g.offset <= ArtifactSize /\ g.sent <= g.offset
  BY <1>9, ContinueResult
<1>2. PICK out \in Seq(FrameType), close \in BOOLEAN, key \in Nat :
        /\ Result(w, out, close, key) /\ Once(out)
        /\ \/ k \notin DOMAIN gets /\ out = <<>> /\ UNCHANGED gets
           \/ k \in DOMAIN gets /\ ContinueDone(g, k, out)
           \/ k \in DOMAIN gets /\ ContinueOn(g, k, out)
  BY <1>9, ContinueResult
<1>3. wk[w].pc \in {"handle", "continue"}
  BY <1>1
<1>4. \A c, r, b : k \in DOMAIN gets /\ g.conn = c /\ g.req = r /\ (b = Final1 \/ b >= g.offset) =>
        Has("gets", k, c, r, b)
  BY <1>1 DEF Has, Owes
<1>5. /\ \A j \in DOMAIN gets' : j = k \/ (j \in DOMAIN gets /\ gets'[j] = gets[j])
      /\ \A r \in Nat, b \in Int : GivenBy(out, r, b) =>
           k \in DOMAIN gets /\ r = g.req /\ (b = Final1 \/ b >= g.offset)
      /\ \A c \in Conn, r \in Nat, b \in Int : Has("gets", k, c, r, b)' =>
           /\ k \in DOMAIN gets /\ c = g.conn /\ r = g.req /\ (b = Final1 \/ b >= g.offset)
           /\ ~ GivenBy(out, r, b)
  <2>1. CASE k \notin DOMAIN gets /\ out = <<>> /\ UNCHANGED gets
    <3>1. \A c, r, b : ~ Has("gets", k, c, r, b)'
      BY <2>1, KindsNext
    <3>2. QED
      BY <2>1, <3>1, EmptyGives
  <2>2. CASE k \in DOMAIN gets /\ ContinueDone(g, k, out)
    <3>1. PICK n \in Nat : gets' = EraseGet(k) /\ Brings(out, g.req, TRUE, g.offset, g.offset + n)
      BY <2>2 DEF ContinueDone
    <3>2. k \notin DOMAIN gets' /\ \A j \in DOMAIN gets' : j \in DOMAIN gets /\ gets'[j] = gets[j]
      BY <3>1 DEF EraseGet
    <3>3. \A c, r, b : ~ Has("gets", k, c, r, b)'
      BY <3>2, KindsNext
    <3>4. \A r \in Nat, b \in Int : GivenBy(out, r, b) => r = g.req /\ (b = Final1 \/ b >= g.offset)
      BY <1>1, <2>2, <3>1 DEF Brings, GetType
    <3>5. QED
      BY <2>2, <3>2, <3>3, <3>4
  <2>3. CASE k \in DOMAIN gets /\ ContinueOn(g, k, out)
    <3>0. PICK h : \E n \in Nat :
            /\ gets' = [gets EXCEPT ![k] = h]
            /\ h.conn = g.conn /\ h.req = g.req /\ h.offset = g.offset + n
            /\ Brings(out, g.req, FALSE, g.offset, g.offset + n)
      BY <2>3 DEF ContinueOn
    <3>1. PICK n \in Nat :
            /\ gets' = [gets EXCEPT ![k] = h]
            /\ h.conn = g.conn /\ h.req = g.req /\ h.offset = g.offset + n
            /\ Brings(out, g.req, FALSE, g.offset, g.offset + n)
      BY <3>0
    <3>2. gets'[k] = h /\ \A j \in DOMAIN gets' : j = k \/ (j \in DOMAIN gets /\ gets'[j] = gets[j])
      BY <2>3, <3>1
    <3>3. g.offset \in Nat
      BY <1>1, <2>3 DEF GetType
    <3>4. \A r \in Nat, b \in Int : GivenBy(out, r, b) => r = g.req /\ g.offset <= b /\ b < g.offset + n
      BY <3>1 DEF Brings
    <3> HIDE DEF g
    <3>5. ASSUME NEW c \in Conn, NEW r \in Nat, NEW b \in Int, Has("gets", k, c, r, b)'
          PROVE  /\ c = g.conn /\ r = g.req /\ (b = Final1 \/ b >= g.offset)
                 /\ ~ GivenBy(out, r, b)
      <4>1. h.conn = c /\ h.req = r /\ (b = Final1 \/ b >= h.offset)
        BY <3>2, <3>5 DEF Has, Owes, IsPiece
      <4>2. QED
        BY <3>1, <3>3, <3>4, <4>1 DEF Final1
    <3>6. QED
      BY <2>3, <3>2, <3>3, <3>4, <3>5
  <2>4. QED
    BY <1>2, <2>1, <2>2, <2>3
<1>6. \A c \in Conn, r \in Nat, b \in Int :
        /\ wk[w].task.conn = c /\ GivenBy(out, r, b) => Has("gets", k, c, r, b)
        /\ Has("gets", k, c, r, b)' =>
             Has("gets", k, c, r, b) /\ ~ (wk[w].task.conn = c /\ GivenBy(out, r, b))
  BY <1>1, <1>4, <1>5
<1>7. \A j \in DOMAIN gets' : j = k \/ (j \in DOMAIN gets /\ gets'[j] = gets[j])
  BY <1>5
<1>8. QED
  BY <1>1, <1>2, <1>3, <1>6, <1>7, AnswerResult
-----------------------------------------------------------------------------
(* A result waits for the queues and becomes a completion.                 *)

LEMMA AnswerEnqueue == ASSUME TypeInv, AnswerInv, NEW w \in Worker, enqueue(w) PROVE AnswerInv'
<1>1. /\ wk[w].pc = "enqueue"
      /\ UNCHANGED <<sent, inbox, wire, conns, done, gets, get_seq>>
      /\ \/ UNCHANGED queue /\ AllCalm(wk', wk)
         \/ /\ queue' = queue \/ queue' = Append(queue, Continuation(wk[w].task.conn, wk[w].key))
            /\ wk'[w] = [wk[w] EXCEPT !.pc = "complete"] /\ \A v \in Worker \ {w} : Calm(wk'[v], wk[v])
  BY EnqueueStep DEF client
<1>2. CASE UNCHANGED queue /\ AllCalm(wk', wk)
  <2>1. QuietStep
    BY <1>1, <1>2, SameKept DEF QuietStep, GetsRestricted
  <2>2. QED
    BY <2>1, AnswerQuiet
<1>3. CASE /\ queue' = queue \/ queue' = Append(queue, Continuation(wk[w].task.conn, wk[w].key))
           /\ wk'[w] = [wk[w] EXCEPT !.pc = "complete"] /\ \A v \in Worker \ {w} : Calm(wk'[v], wk[v])
  <2> SUFFICES ASSUME NEW c \in Conn PROVE OnePlaceOf(c)' /\ OnceOf(c)' /\ NumberedOf(c)'
    BY DEF AnswerInv, OnePlace, OnceInPlace, Numbered, OnePlaceOf, OnceOf, NumberedOf
  <2>1. OnePlaceOf(c) /\ OnceOf(c) /\ NumberedOf(c)
    BY AnswerParts
  <2>2. Written(c)' = Written(c) /\ \A r, b : GivenBy(Written(c), r, b)' <=> GivenBy(Written(c), r, b)
    BY <1>1, WrittenSame
  <2>3. wk'[w].pc = "complete" /\ wk'[w].task = wk[w].task /\ wk'[w].out = wk[w].out
    BY <1>3, Now DEF WorkerType
  <2>4. /\ IsPiece("out", w, c)' <=> IsPiece("out", w, c)
        /\ Piece("out", w, c)' = Piece("out", w, c)
    BY <1>1, <2>3 DEF IsPiece, HasResult, Piece, Enqueuing, Completing
  <2>5. \A r, b : Has("out", w, c, r, b)' => Has("out", w, c, r, b)
    BY <2>4 DEF Has, Owes
  <2>6. \A r, b : ~ Has("task", w, c, r, b)'
    BY <2>3 DEF Has, Owes, IsPiece
  <2>7. \A x, r, b : Has("queue", x, c, r, b)' => Has("queue", x, c, r, b)
    <3> DEFINE e == Continuation(wk[w].task.conn, wk[w].key)
    <3>1. e.kind = "CONTINUE" /\ queue \in Seq(TaskType)
      BY Now DEF Continuation
    <3>2. queue' = queue \/ queue' = Append(queue, e)
      BY <1>3
    <3> HIDE DEF e
    <3>3. CASE queue' = queue
      BY <3>3, QueueSame
    <3>4. CASE queue' = Append(queue, e)
      <4>1. /\ DOMAIN queue' = DOMAIN queue \cup {Len(queue) + 1}
            /\ \A i \in DOMAIN queue : queue'[i] = queue[i]
            /\ queue'[Len(queue) + 1] = e
        BY <3>1, <3>4, AppendIs
      <4>2. ASSUME NEW x, NEW r, NEW b, Has("queue", x, c, r, b)'
            PROVE  Has("queue", x, c, r, b)
        <5>1. x \in DOMAIN queue' /\ queue'[x].kind # "CONTINUE" /\ queue'[x].conn = c /\ queue'[x].req = r
          BY <4>2 DEF Has, Owes, IsPiece
        <5>2. x \in DOMAIN queue /\ queue[x] = queue'[x]
          BY <3>1, <4>1, <5>1
        <5>3. QED
          BY <5>1, <5>2 DEF Has, Owes
      <4>3. QED
        BY <4>2
    <3>5. QED
      BY <3>2, <3>3, <3>4
  <2>8. \A r \in Nat, b \in Int : \A t, x : Has(t, x, c, r, b)' => Has(t, x, c, r, b)
    <3> SUFFICES ASSUME NEW r \in Nat, NEW b \in Int, NEW t, NEW x, Has(t, x, c, r, b)'
                 PROVE  Has(t, x, c, r, b)
      OBVIOUS
    <3>1. CASE t = "queue"
      BY <2>7, <3>1
    <3>2. CASE t \in {"out", "task"} /\ x = w
      BY <2>5, <2>6, <3>2
    <3>3. CASE t # "queue" /\ ~ (t \in {"out", "task"} /\ x = w)
      <4>1. t \in {"task", "out"} => Calm(wk'[x], wk[x])
        BY <1>3, <3>3, KindsNext
      <4>2. QED
        BY <1>1, <2>2, <3>3, <4>1, HasSame, KindsNext
    <3>4. QED
      BY <3>1, <3>2, <3>3
  <2>9. OnePlaceOf(c)' /\ NumberedOf(c)'
    BY <1>1, <2>1, <2>8, StaysKeep
  <2>10. OnceOf(c)'
    <3>1. Once(Written(c)') /\ (IsPiece("out", w, c) => Once(Piece("out", w, c)))
      BY <2>1, <2>2, OnceNow
    <3>2. \A x \in Worker : Calm(wk'[x], wk[x]) \/ (IsPiece("out", x, c)' => Once(Piece("out", x, c)'))
      BY <1>3, <2>4, <3>1
    <3>3. QED
      BY <1>1, <2>1, <3>1, <3>2, OnceKeeps
  <2>11. QED
    BY <2>9, <2>10
<1>4. QED
  BY <1>1, <1>2, <1>3

LEMMA AnswerPush == ASSUME TypeInv, AnswerInv, NEW w \in Worker, push_completion(w) PROVE AnswerInv'
<1> DEFINE e == [conn |-> wk[w].task.conn, out |-> wk[w].out, close |-> wk[w].close]
<1>1. /\ wk[w].pc = "complete"
      /\ UNCHANGED <<sent, inbox, wire, conns, queue, gets, get_seq>>
      /\ \/ UNCHANGED done /\ AllCalm(wk', wk)
         \/ /\ done' = Append(done, e)
            /\ wk'[w].pc \in {"pop", "exited"} /\ \A v \in Worker \ {w} : Calm(wk'[v], wk[v])
  BY PushStep DEF client
<1>2. e.conn = wk[w].task.conn /\ e.out = wk[w].out
  OBVIOUS
<1> HIDE DEF e
<1>3. CASE UNCHANGED done /\ AllCalm(wk', wk)
  <2>1. QuietStep
    BY <1>1, <1>3, SameKept DEF QuietStep, GetsRestricted
  <2>2. QED
    BY <2>1, AnswerQuiet
<1>4. CASE /\ done' = Append(done, e)
           /\ wk'[w].pc \in {"pop", "exited"} /\ \A v \in Worker \ {w} : Calm(wk'[v], wk[v])
  <2> SUFFICES ASSUME NEW c \in Conn PROVE OnePlaceOf(c)' /\ OnceOf(c)' /\ NumberedOf(c)'
    BY DEF AnswerInv, OnePlace, OnceInPlace, Numbered, OnePlaceOf, OnceOf, NumberedOf
  <2>1. OnePlaceOf(c) /\ OnceOf(c) /\ NumberedOf(c)
    BY AnswerParts
  <2>2. Written(c)' = Written(c) /\ \A r, b : GivenBy(Written(c), r, b)' <=> GivenBy(Written(c), r, b)
    BY <1>1, WrittenSame
  <2>3. PICK L : L = Len(done) + 1
    OBVIOUS
  <2>4. /\ DOMAIN done' = DOMAIN done \cup {L} /\ L \notin DOMAIN done
        /\ \A i \in DOMAIN done : done'[i] = done[i]
        /\ done'[L] = e
    BY <1>4, <2>3, Now, AppendIs
  <2>5. /\ IsPiece("out", w, c) <=> e.conn = c
        /\ Piece("out", w, c) = e.out
        /\ ~ IsPiece("out", w, c)'
        /\ \A r, b : ~ Has("out", w, c, r, b)' /\ ~ Has("task", w, c, r, b)'
    BY <1>1, <1>2, <1>4 DEF IsPiece, HasResult, Piece, Has, Owes, Enqueuing, Completing
  <2>6. /\ IsPiece("done", L, c)' <=> e.conn = c
        /\ Piece("done", L, c)' = e.out
        /\ \A i \in DOMAIN done :
             /\ IsPiece("done", i, c)' <=> IsPiece("done", i, c)
             /\ Piece("done", i, c)' = Piece("done", i, c)
    BY <2>4 DEF IsPiece, Piece
  <2>7. \A r, b : Has("done", L, c, r, b)' => Has("out", w, c, r, b)
    <3> TAKE r, b
    <3>1. Has("done", L, c, r, b)' => IsPiece("done", L, c)' /\ GivenBy(Piece("done", L, c)', r, b)
      BY DEF Has, Owes
    <3>2. IsPiece("out", w, c) /\ GivenBy(Piece("out", w, c), r, b) => Has("out", w, c, r, b)
      BY DEF Has
    <3>3. QED
      BY <2>5, <2>6, <3>1, <3>2
  <2>8. \A i \in DOMAIN done : \A r, b : Has("done", i, c, r, b)' => Has("done", i, c, r, b)
    BY <2>6 DEF Has, Owes
  <2>9. \A r \in Nat, b \in Int : \A t, x : Has(t, x, c, r, b)' /\ ~ (t = "done" /\ x = L) =>
          Has(t, Origin("none", t, x), c, r, b) /\ ~ (t = "out" /\ Origin("none", t, x) = w)
    <3> SUFFICES ASSUME NEW r \in Nat, NEW b \in Int, NEW t, NEW x, Has(t, x, c, r, b)',
                        ~ (t = "done" /\ x = L)
                 PROVE  Has(t, Origin("none", t, x), c, r, b) /\ ~ (t = "out" /\ Origin("none", t, x) = w)
      OBVIOUS
    <3>1. Origin("none", t, x) = x
      BY KindsNext DEF Origin
    <3>2. ~ (t \in {"out", "task"} /\ x = w)
      BY <2>5
    <3>3. CASE t = "done"
      <4>1. x \in DOMAIN done
        BY <2>4, <3>3, KindsNext
      <4>2. QED
        BY <2>8, <3>1, <3>3, <4>1
    <3>4. CASE t # "done"
      <4>1. t \in {"task", "out"} => Calm(wk'[x], wk[x])
        BY <1>4, <3>2, KindsNext
      <4>2. Has(t, x, c, r, b)
        BY <1>1, <2>2, <3>4, <4>1, HasSame, KindsNext
      <4>3. QED
        BY <3>1, <3>2, <4>2
    <3>5. QED
      BY <3>3, <3>4
  <2>10. OnePlaceOf(c)' /\ NumberedOf(c)'
    <3>1. \A t, x : t = "none" /\ (\E r \in Nat, b \in Int : Has(t, x, c, r, b)') => x \in Nat
      BY KindsNext
    <3>2. \A r \in Nat, b \in Int :
            Has("done", L, c, r, b)' => Has("done", L, c, r, b) \/ Has("out", w, c, r, b)
      BY <2>7
    <3>3. sent'[c] = sent[c] /\ "done" # "none"
      BY <1>1
    <3>4. QED
      BY <2>1, <2>9, <3>1, <3>2, <3>3, MovesOne
  <2>11. OnceOf(c)'
    <3>1. /\ \A x : IsPiece("out", x, c) => Once(Piece("out", x, c))
          /\ \A x : IsPiece("done", x, c) => Once(Piece("done", x, c))
          /\ Once(Written(c))
      BY <2>1, OnceNow
    <3>2. \A x \in Worker : IsPiece("out", x, c)' => Once(Piece("out", x, c)')
      <4> SUFFICES ASSUME NEW x \in Worker, IsPiece("out", x, c)' PROVE Once(Piece("out", x, c)')
        OBVIOUS
      <4>1. x # w
        BY <2>5
      <4>2. IsPiece("out", x, c) /\ Piece("out", x, c)' = Piece("out", x, c)
        BY <1>4, <4>1, OutSame
      <4>3. QED
        BY <3>1, <4>2
    <3>3. \A x \in DOMAIN done' : IsPiece("done", x, c)' => Once(Piece("done", x, c)')
      <4> SUFFICES ASSUME NEW x, x \in DOMAIN done', IsPiece("done", x, c)' PROVE Once(Piece("done", x, c)')
        OBVIOUS
      <4>1. CASE x = L
        BY <2>5, <2>6, <3>1, <4>1
      <4>2. CASE x \in DOMAIN done
        <5>1. IsPiece("done", x, c) /\ Piece("done", x, c)' = Piece("done", x, c)
          BY <2>6, <4>2
        <5>2. QED
          BY <3>1, <5>1
      <4>3. QED
        BY <2>4, <4>1, <4>2
    <3>4. Once(Written(c)')
      BY <2>2, <3>1
    <3>5. QED
      BY <3>2, <3>3, <3>4, OnceFrom
  <2>12. QED
    BY <2>10, <2>11
<1>5. QED
  BY <1>1, <1>3, <1>4
-----------------------------------------------------------------------------
(* One final answer.                                                       *)

LEMMA InitNothing ==
  ASSUME Init, NEW c \in Conn
  PROVE  /\ \A t, x, r, b : ~ Has(t, x, c, r, b)
         /\ \A t, x : IsPiece(t, x, c) => t = "written"
         /\ Written(c) = <<>>
<1>1. /\ inbox[c] = <<>> /\ wire[c] = <<>> /\ conns[c] = NewConnection
      /\ queue = <<>> /\ done = <<>> /\ gets = <<>>
      /\ \A w \in Worker : wk[w] = Fresh
  BY DEF Init
<1>2. DOMAIN inbox[c] = {} /\ DOMAIN queue = {} /\ DOMAIN done = {} /\ DOMAIN gets = {}
  BY <1>1
<1>3. Written(c) = <<>>
  BY <1>1 DEF Written, NewConnection
<1>4. \A w \in Worker : wk[w].pc = "pop"
  BY <1>1 DEF Fresh
<1>5. \A t, x : IsPiece(t, x, c) => t = "written"
  BY <1>2, <1>4 DEF IsPiece, HasResult, Enqueuing, Completing
<1>6. \A t, x, r, b : ~ Owes(t, x, c, r, b)
  BY <1>2, <1>4 DEF Owes
<1>7. \A t, x, r, b : ~ (IsPiece(t, x, c) /\ GivenBy(Piece(t, x, c), r, b))
  BY <1>3, <1>5, EmptyGives DEF Piece
<1>8. QED
  BY <1>3, <1>5, <1>6, <1>7 DEF Has

LEMMA InitAnswer == Init => AnswerInv
<1> SUFFICES ASSUME Init, NEW c \in Conn PROVE OnePlaceOf(c) /\ OnceOf(c) /\ NumberedOf(c)
  BY AnswerParts
<1>1. OnePlaceOf(c) /\ NumberedOf(c)
  BY InitNothing DEF OnePlaceOf, NumberedOf
<1>2. OnceOf(c)
  <2> SUFFICES ASSUME NEW t, NEW x, IsPiece(t, x, c) PROVE Once(Piece(t, x, c))
    BY DEF OnceOf
  <2>1. t = "written" /\ Written(c) = <<>>
    BY InitNothing
  <2>2. Piece(t, x, c) = <<>>
    BY <2>1 DEF Piece
  <2>3. QED
    BY <2>2, EmptyGives
<1>3. QED
  BY <1>1, <1>2

LEMMA AnswerStep ==
  ASSUME TypeInv, StreamInv, AnswerInv, "delete" \notin Events, [Next]_vars
  PROVE  AnswerInv'
<1>1. ASSUME \/ \E c \in Conn : Leave(c) \/ accept_new(c) \/ on_eof(c) \/ on_writable(c)
             \/ Delete \/ events_handled \/ UNCHANGED vars
             \/ \E W \in SUBSET Conn : flush_writable(W) \/ sweep_idle(W)
             \/ \E w \in Worker : WorkerQuiet(w)
             \/ stop \/ Stopping
      PROVE  AnswerInv'
  <2>1. QuietStep
    BY <1>1, QuietSteps
  <2>2. QED
    BY <2>1, AnswerQuiet
<1>2. ASSUME NEW c \in Conn, Send(c) \/ on_frame(c)
      PROVE  AnswerInv'
  BY <1>2, AnswerSend, AnswerOnFrame
<1>3. CASE drain_completions
  BY <1>3, AnswerDrain
<1>4. ASSUME NEW w \in Worker,
             \/ pop_task(w) \/ handle_ping(w) \/ handle_close(w) \/ handle_get(w)
             \/ handle_get_continue(w) \/ enqueue(w) \/ push_completion(w)
      PROVE  AnswerInv'
  BY <1>4, AnswerPop, AnswerPing, AnswerGet, AnswerContinue, AnswerEnqueue, AnswerPush
<1>5. QED
  BY <1>1, <1>2, <1>3, <1>4, Steps1

LEMMA Answers ==
  ASSUME "delete" \notin Events
  PROVE  Spec => [](TypeInv /\ StreamInv /\ AnswerInv)
<1>1. Init => AnswerInv
  BY InitAnswer
<1>2. TypeInv /\ StreamInv /\ AnswerInv /\ [Next]_vars => AnswerInv'
  BY AnswerStep
<1>3. Spec => [](TypeInv /\ StreamInv)
  BY Streams
<1>4. QED
  BY <1>1, <1>2, <1>3, PTL DEF Spec

\* A request gets one final answer at most, whichever worker answers it and
\* however its frames wait for the I/O thread, while no artifact is deleted
\* (the read of a deleted one is answered under a request id that worker_loop
\* makes up).
THEOREM OneFinalAnswerHolds == ASSUME "delete" \notin Events PROVE Spec => []OneFinalAnswer
<1>1. TypeInv /\ AnswerInv => OneFinalAnswer
  <2> SUFFICES ASSUME TypeInv, AnswerInv, NEW c \in Conn, NEW i \in DOMAIN wire[c], NEW j \in DOMAIN wire[c],
                      {wire[c][i].kind, wire[c][j].kind} \subseteq Final,
                      wire[c][i].req = wire[c][j].req
               PROVE  i = j
    BY DEF OneFinalAnswer
  <2>1. wire[c] \in Seq(FrameType) /\ conns[c].outbox \in Seq(FrameType)
    BY Now DEF ConnType
  <2>2. Once(wire[c])
    <3>1. Once(Written(c))
      BY AnswerParts, OnceNow
    <3>2. QED
      BY <2>1, <3>1, ConcatGives DEF Written
  <2> DEFINE r == wire[c][i].req
  <2>3. r \in Nat
    <3>1. wire[c][i] \in FrameType
      BY <2>1
    <3>2. QED
      BY <3>1 DEF FrameType
  <2>4. Gives(wire[c][i], r, Final1) /\ Gives(wire[c][j], r, Final1)
    BY DEF Gives
  <2>5. Final1 \in Int
    BY DEF Final1
  <2> HIDE DEF r
  <2>6. QED
    BY <2>2, <2>3, <2>4, <2>5 DEF Once
<1>2. QED
  BY <1>1, Answers, PTL
-----------------------------------------------------------------------------
(* The bytes that were handed over.                                        *)

OutHolds(x, c, f) == HasResult(x) /\ wk[x].task.conn = c /\ In(f, wk[x].out)
DoneHolds(i, c, f) == done[i].conn = c /\ In(f, done[i].out)

LEMMA HoldsIs ==
  ASSUME NEW c, NEW f
  PROVE  /\ Holds(c, f) <=> \/ \E x \in Worker : OutHolds(x, c, f)
                            \/ \E i \in DOMAIN done : DoneHolds(i, c, f)
                            \/ In(f, Written(c))
         /\ Holds(c, f)' <=> \/ \E x \in Worker : OutHolds(x, c, f)'
                             \/ \E i \in DOMAIN done' : DoneHolds(i, c, f)'
                             \/ In(f, Written(c)')
<1>1. Holds(c, f) => \/ \E x \in Worker : OutHolds(x, c, f)
                     \/ \E i \in DOMAIN done : DoneHolds(i, c, f)
                     \/ In(f, Written(c))
  BY DEF Holds, IsPiece, Piece, OutHolds, DoneHolds
<1>2. ASSUME NEW x \in Worker, OutHolds(x, c, f)
      PROVE  Holds(c, f)
  <2>1. IsPiece("out", x, c) /\ In(f, Piece("out", x, c))
    BY <1>2 DEF IsPiece, Piece, OutHolds
  <2>2. QED
    BY <2>1 DEF Holds
<1>3. ASSUME NEW i \in DOMAIN done, DoneHolds(i, c, f)
      PROVE  Holds(c, f)
  <2>1. IsPiece("done", i, c) /\ In(f, Piece("done", i, c))
    BY <1>3 DEF IsPiece, Piece, DoneHolds
  <2>2. QED
    BY <2>1 DEF Holds
<1>4. ASSUME In(f, Written(c))
      PROVE  Holds(c, f)
  <2>1. IsPiece("written", 0, c) /\ In(f, Piece("written", 0, c))
    BY <1>4 DEF IsPiece, Piece
  <2>2. QED
    BY <2>1 DEF Holds
<1>5. Holds(c, f)' => \/ \E x \in Worker : OutHolds(x, c, f)'
                      \/ \E i \in DOMAIN done' : DoneHolds(i, c, f)'
                      \/ In(f, Written(c)')
  BY DEF Holds, IsPiece, Piece, OutHolds, DoneHolds, In
<1>6. ASSUME NEW x \in Worker, OutHolds(x, c, f)'
      PROVE  Holds(c, f)'
  <2>1. IsPiece("out", x, c)' /\ In(f, Piece("out", x, c))'
    BY <1>6 DEF IsPiece, Piece, OutHolds
  <2>2. QED
    BY <2>1 DEF Holds
<1>7. ASSUME NEW i \in DOMAIN done', DoneHolds(i, c, f)'
      PROVE  Holds(c, f)'
  <2>1. IsPiece("done", i, c)' /\ In(f, Piece("done", i, c))'
    BY <1>7 DEF IsPiece, Piece, DoneHolds
  <2>2. QED
    BY <2>1 DEF Holds
<1>8. ASSUME In(f, Written(c)')
      PROVE  Holds(c, f)'
  <2>1. IsPiece("written", 0, c)' /\ In(f, Piece("written", 0, c))'
    BY <1>8 DEF IsPiece, Piece
  <2>2. QED
    BY <2>1 DEF Holds
<1>9. QED
  BY <1>1, <1>2, <1>3, <1>4, <1>5, <1>6, <1>7, <1>8

LEMMA CalmHolds ==
  ASSUME NEW x, Calm(wk'[x], wk[x])
  PROVE  \A c, f : OutHolds(x, c, f)' <=> OutHolds(x, c, f)
BY DEF OutHolds, HasResult, Calm, Enqueuing, Completing

\* What is held is somewhere.
LEMMA HeldHas ==
  ASSUME NEW c, NEW f, Holds(c, f), NEW r, NEW b, Gives(f, r, b)
  PROVE  \E x : \E t \in {"out", "done", "written"} : Has(t, x, c, r, b)
<1>1. PICK t, x : IsPiece(t, x, c) /\ In(f, Piece(t, x, c))
  BY DEF Holds
<1>2. GivenBy(Piece(t, x, c), r, b)
  BY <1>1 DEF GivenBy, In
<1>3. Has(t, x, c, r, b) /\ t \in {"out", "done", "written"}
  BY <1>1, <1>2 DEF Has, IsPiece
<1>4. QED
  BY <1>3

\* Steps that hand nothing over.
Answering == {"DATA", "OK"}
LEMMA GivesData ==
  ASSUME NEW f, NEW r, NEW b \in Nat, Gives(f, r, b)
  PROVE  f.kind \in Answering
BY DEF Gives, Final1, Answering

LEMMA ThereSame ==
  ASSUME NEW c, \A f : f.kind \in Answering => (Holds(c, f)' <=> Holds(c, f))
  PROVE  /\ \A r, b \in Nat : There(c, r, b)' <=> There(c, r, b)
         /\ \A r, n : Ended(c, r, n)' <=> Ended(c, r, n)
<1>1. \A r, b \in Nat : There(c, r, b)' <=> There(c, r, b)
  BY GivesData DEF There
<1>2. \A r, n : Ended(c, r, n)' <=> Ended(c, r, n)
  BY DEF Ended, Answering
<1>3. QED
  BY <1>1, <1>2

\* Where every download entry left is as it was, so is what has come.
Same(c) == \A f : f.kind \in Answering => (Holds(c, f)' <=> Holds(c, f))
LEMMA DataSame ==
  ASSUME NEW c, Begun(c), Complete(c), Same(c), \A k \in DOMAIN gets : gets[k].req \in Nat,
         \A k \in DOMAIN gets' : gets'[k].conn = c /\ gets'[k].offset <= ArtifactSize =>
           k \in DOMAIN gets /\ gets'[k] = gets[k]
  PROVE  Begun(c)' /\ Complete(c)'
<1>1. /\ \A r, b \in Nat : There(c, r, b)' <=> There(c, r, b)
      /\ \A r, n : Ended(c, r, n)' <=> Ended(c, r, n)
  BY ThereSame DEF Same
<1>2. \A r \in Nat : \A start, end : Covers(c, r, start, end)' <=> Covers(c, r, start, end)
  BY <1>1 DEF Covers
<1>3. Begun(c)'
  <2>1. ASSUME NEW k \in DOMAIN gets', gets'[k].conn = c, gets'[k].offset <= ArtifactSize
        PROVE  Covers(c, gets[k].req, gets[k].offset - gets[k].sent, gets[k].offset)'
    <3>1. k \in DOMAIN gets /\ gets'[k] = gets[k] /\ gets[k].req \in Nat
      BY <2>1
    <3>2. PICK r, start, end : r = gets[k].req /\ start = gets[k].offset - gets[k].sent /\ end = gets[k].offset
      OBVIOUS
    <3>3. Covers(c, r, start, end)
      BY <2>1, <3>1, <3>2 DEF Begun
    <3>4. Covers(c, r, start, end)'
      BY <1>2, <3>1, <3>2, <3>3
    <3>5. r = gets'[k].req /\ start = gets'[k].offset - gets'[k].sent /\ end = gets'[k].offset
      BY <3>1, <3>2
    <3>6. QED
      BY <3>4, <3>5
  <2>2. QED
    BY <2>1 DEF Begun
<1>4. Complete(c)'
  <2>1. ASSUME NEW r \in Nat, NEW n \in Nat, Ended(c, r, n)'
        PROVE  \E start \in 0 .. ArtifactSize : Covers(c, r, start, start + n)'
    <3>1. Ended(c, r, n)
      BY <1>1, <2>1
    <3>2. PICK start \in 0 .. ArtifactSize : Covers(c, r, start, start + n)
      BY <3>1 DEF Complete
    <3>3. QED
      BY <1>2, <3>2
  <2>2. QED
    BY <2>1 DEF Complete
<1>5. QED
  BY <1>3, <1>4

LEMMA QuietHolds ==
  ASSUME NEW c, AllCalm(wk', wk), done' = done, Written(c)' = Written(c)
  PROVE  Same(c)
<1> SUFFICES ASSUME NEW f PROVE Holds(c, f)' <=> Holds(c, f)
  BY DEF Same
<1>1. \A x \in Worker : OutHolds(x, c, f)' <=> OutHolds(x, c, f)
  BY CalmHolds DEF AllCalm
<1>2. \A i : DoneHolds(i, c, f)' <=> DoneHolds(i, c, f)
  BY DEF DoneHolds
<1>3. In(f, Written(c)') <=> In(f, Written(c))
  OBVIOUS
<1>4. QED
  BY <1>1, <1>2, <1>3, HoldsIs

LEMMA InAppend ==
  ASSUME NEW S, NEW s \in Seq(S), NEW e, e \in S
  PROVE  \A f : In(f, Append(s, e)) <=> In(f, s) \/ f = e
<1>1. Append(s, e) \in Seq(S) /\ Len(Append(s, e)) = Len(s) + 1
      /\ Append(s, e)[Len(s) + 1] = e /\ \A i \in 1 .. Len(s) : Append(s, e)[i] = s[i]
  OBVIOUS
<1>2. DOMAIN Append(s, e) = 1 .. Len(s) + 1 /\ DOMAIN s = 1 .. Len(s) /\ Len(s) \in Nat
  BY <1>1
<1>3. PICK z : z = Append(s, e)
  OBVIOUS
<1>4. ASSUME NEW f, In(f, z) PROVE In(f, s) \/ f = e
  BY <1>1, <1>2, <1>3, <1>4 DEF In
<1>5. ASSUME NEW f, In(f, s) PROVE In(f, z)
  BY <1>1, <1>2, <1>3, <1>5 DEF In
<1>6. In(e, z)
  BY <1>1, <1>2, <1>3 DEF In
<1>7. QED
  BY <1>3, <1>4, <1>5, <1>6

LEMMA SendHolds ==
  ASSUME NEW d \in Conn, Send(d), NEW c
  PROVE  Same(c) /\ GetsRestricted /\ conns' = conns
<1>1. UNCHANGED <<wire, conns, wk, done, gets>>
  BY DEF Send
<1>2. \A f : Holds(c, f)' <=> Holds(c, f)
  BY <1>1 DEF Holds, IsPiece, Piece, Written, HasResult
<1>3. QED
  BY <1>1, <1>2 DEF Same, GetsRestricted

LEMMA FrameHolds ==
  ASSUME TypeInv, NEW d \in Conn, on_frame(d), NEW c \in Conn
  PROVE  /\ Same(c) /\ GetsRestricted
         /\ conns'[c].state = conns[c].state /\ (conns[c].closing => conns'[c].closing)
<1>1. AllCalm(wk', wk) /\ UNCHANGED <<sent, wire, done, gets>>
  BY FrameCases
<1>2. GetsRestricted
  BY <1>1 DEF GetsRestricted
<1>3. CASE c # d
  <2>1. conns'[c] = conns[c]
    BY <1>3, FrameCases
  <2>2. QED
    BY <1>1, <1>2, <2>1, QuietHolds DEF Written
<1>4. CASE c = d
  <2>1. conns'[d].state = conns[d].state /\ (conns[d].closing => conns'[d].closing)
    BY FrameCases
  <2>2. CASE UNCHANGED conns
    BY <1>1, <1>2, <1>4, <2>1, <2>2, QuietHolds DEF Written
  <2>3. ASSUME NEW kind \in {"PROTOCOL", "BUSY"}, NEW r \in Nat,
               conns'[d].outbox = Append(conns[d].outbox, Error(kind, r))
        PROVE  Same(d)
    <3>1. PICK e : e = Error(kind, r)
      OBVIOUS
    <3>2. e \in FrameType /\ e.kind = kind
      BY <2>3, <3>1, FrameIn DEF Error, Frame
    <3>3. Written(d)' = Append(Written(d), e) /\ Written(d) \in Seq(FrameType)
      BY <1>1, <2>3, <3>1, <3>2, WrittenAppend
    <3>4. \A f : In(f, Append(Written(d), e)) <=> In(f, Written(d)) \/ f = e
      BY <3>2, <3>3, InAppend
    <3>5. \A f : f.kind \in Answering => (In(f, Written(d)') <=> In(f, Written(d)))
      BY <2>3, <3>2, <3>3, <3>4 DEF Answering
    <3>6. \A x \in Worker : \A f : OutHolds(x, d, f)' <=> OutHolds(x, d, f)
      BY <1>1, CalmHolds DEF AllCalm
    <3>7. \A i, f : DoneHolds(i, d, f)' <=> DoneHolds(i, d, f)
      BY <1>1 DEF DoneHolds
    <3>8. ASSUME NEW f, f.kind \in Answering
          PROVE  Holds(d, f)' <=> Holds(d, f)
      BY <1>1, <3>5, <3>6, <3>7, <3>8, HoldsIs
    <3>9. QED
      BY <3>8 DEF Same
  <2>4. CASE conns'[d].outbox = Append(conns[d].outbox, Error("PROTOCOL", 0))
    BY <1>2, <1>4, <2>1, <2>3, <2>4
  <2>5. CASE conns'[d].outbox = Append(conns[d].outbox, Error("BUSY", inbox[d][1].req))
    <3>1. inbox[d][1].req \in Nat
      BY FrameCases
    <3>2. QED
      BY <1>2, <1>4, <2>1, <2>3, <2>5, <3>1
  <2>6. QED
    BY <2>2, <2>4, <2>5, FrameCases
<1>5. QED
  BY <1>3, <1>4

LEMMA DrainHolds ==
  ASSUME TypeInv, AnswerInv, drain_completions, NEW c \in Conn, conns'[c].state = "open",
         ~ conns'[c].closing
  PROVE  Same(c) /\ GetsRestricted /\ conns[c].state = "open" /\ ~ conns[c].closing
<1>1. UNCHANGED <<wk, gets, wire>>
  BY DEF drain_completions
<1>2. /\ done' = <<>> /\ Taken(c, conns'[c], Len(done))
      /\ wire' = wire /\ conns'[c].state = conns[c].state
  BY AnswerParts, DrainStep
<1>3. /\ \A f : In(f, Written(c)') <=> In(f, Written(c)) \/ \E i \in 1 .. Len(done) : DoneHolds(i, c, f)
      /\ ~ conns[c].closing
  <2>1. Written(c)' = wire[c] \o conns'[c].outbox
    BY <1>1 DEF Written
  <2>2. QED
    BY <1>2, <2>1 DEF Taken, DoneHolds
<1>4. DOMAIN done = 1 .. Len(done) /\ DOMAIN done' = {}
  BY <1>2, Now
<1>5. \A x \in Worker : \A f : OutHolds(x, c, f)' <=> OutHolds(x, c, f)
  BY <1>1 DEF OutHolds, HasResult
<1>6. \A f : Holds(c, f)' <=> Holds(c, f)
  BY <1>3, <1>4, <1>5, HoldsIs
<1>7. QED
  BY <1>1, <1>2, <1>3, <1>6 DEF Same, GetsRestricted

LEMMA PopHolds ==
  ASSUME TypeInv, NEW w \in Worker, pop_task(w), NEW c
  PROVE  Same(c) /\ GetsRestricted /\ conns' = conns
<1>1. /\ wk[w].pc = "pop" /\ wk'[w].pc \in {"continue", "lookup"}
      /\ \A v \in Worker \ {w} : wk'[v] = wk[v]
      /\ UNCHANGED <<wire, conns, done, gets>>
  BY PopStep
<1>2. \A x \in Worker \ {w} : \A f : OutHolds(x, c, f)' <=> OutHolds(x, c, f)
  BY <1>1 DEF OutHolds, HasResult
<1>3. \A f : ~ OutHolds(w, c, f)' /\ ~ OutHolds(w, c, f)
  BY <1>1 DEF OutHolds, HasResult, Enqueuing, Completing
<1>4. \A i, f : DoneHolds(i, c, f)' <=> DoneHolds(i, c, f)
  BY <1>1 DEF DoneHolds
<1>5. Written(c)' = Written(c)
  BY <1>1 DEF Written
<1>6. \A f : Holds(c, f)' <=> Holds(c, f)
  BY <1>1, <1>2, <1>3, <1>4, <1>5, HoldsIs
<1>7. QED
  BY <1>1, <1>6 DEF Same, GetsRestricted

LEMMA EnqueueHolds ==
  ASSUME TypeInv, NEW w \in Worker, enqueue(w), NEW c
  PROVE  Same(c) /\ GetsRestricted /\ conns' = conns
<1>1. UNCHANGED <<wire, conns, done, gets>> /\ wk[w].pc = "enqueue"
  BY EnqueueStep
<1>2. Written(c)' = Written(c)
  BY <1>1 DEF Written
<1>3. CASE AllCalm(wk', wk)
  BY <1>1, <1>2, <1>3, QuietHolds DEF GetsRestricted
<1>4. CASE wk'[w] = [wk[w] EXCEPT !.pc = "complete"] /\ \A v \in Worker \ {w} : Calm(wk'[v], wk[v])
  <2>1. wk'[w].task = wk[w].task /\ wk'[w].out = wk[w].out /\ wk'[w].pc = "complete"
    <3>1. wk[w] \in WorkerType
      BY Now
    <3>2. QED
      BY <1>4, <3>1 DEF WorkerType
  <2>2. \A x \in Worker \ {w} : \A f : OutHolds(x, c, f)' <=> OutHolds(x, c, f)
    BY <1>4, CalmHolds
  <2>3. \A f : OutHolds(w, c, f)' <=> OutHolds(w, c, f)
    BY <1>1, <2>1 DEF OutHolds, HasResult, Enqueuing, Completing
  <2>4. \A i, f : DoneHolds(i, c, f)' <=> DoneHolds(i, c, f)
    BY <1>1 DEF DoneHolds
  <2>5. \A f : Holds(c, f)' <=> Holds(c, f)
    BY <1>1, <1>2, <2>2, <2>3, <2>4, HoldsIs
  <2>6. QED
    BY <1>1, <2>5 DEF Same, GetsRestricted
<1>5. QED
  BY <1>3, <1>4, EnqueueStep

LEMMA PushHolds ==
  ASSUME TypeInv, NEW w \in Worker, push_completion(w), NEW c
  PROVE  Same(c) /\ GetsRestricted /\ conns' = conns
<1>1. UNCHANGED <<wire, conns, gets>> /\ wk[w].pc = "complete"
  BY PushStep
<1>2. Written(c)' = Written(c)
  BY <1>1 DEF Written
<1>3. CASE UNCHANGED done /\ AllCalm(wk', wk)
  BY <1>1, <1>2, <1>3, QuietHolds DEF GetsRestricted
<1>4. CASE /\ done' = Append(done, [conn |-> wk[w].task.conn, out |-> wk[w].out, close |-> wk[w].close])
           /\ wk'[w].pc \in {"pop", "exited"} /\ \A v \in Worker \ {w} : Calm(wk'[v], wk[v])
  <2> DEFINE e == [conn |-> wk[w].task.conn, out |-> wk[w].out, close |-> wk[w].close]
  <2>1. /\ done \in Seq(DoneType) /\ e \in DoneType
    <3>1. wk[w] \in WorkerType
      BY Now
    <3>2. QED
      BY <3>1, Now DEF WorkerType, DoneType, TaskType
  <2>2. e.conn = wk[w].task.conn /\ e.out = wk[w].out
    OBVIOUS
  <2>3. done' = Append(done, e)
    BY <1>4
  <2> HIDE DEF e
  <2>4. PICK n : /\ DOMAIN done' = DOMAIN done \cup {n} /\ done'[n] = e
                 /\ \A i \in DOMAIN done : done'[i] = done[i]
    <3>1. /\ DOMAIN done' = DOMAIN done \cup {Len(done) + 1} /\ done'[Len(done) + 1] = e
          /\ \A i \in DOMAIN done : done'[i] = done[i]
      BY <2>1, <2>3
    <3>2. QED
      BY <3>1
  <2>5. \A x \in Worker \ {w} : \A f : OutHolds(x, c, f)' <=> OutHolds(x, c, f)
    BY <1>4, CalmHolds
  <2>6. \A f : ~ OutHolds(w, c, f)'
    BY <1>4 DEF OutHolds, HasResult, Enqueuing, Completing
  <2>7. \A f : OutHolds(w, c, f) <=> DoneHolds(n, c, f)'
    BY <1>1, <2>2, <2>4 DEF OutHolds, DoneHolds, HasResult, Completing
  <2>8. \A i \in DOMAIN done : \A f : DoneHolds(i, c, f)' <=> DoneHolds(i, c, f)
    BY <2>4 DEF DoneHolds
  <2>9. n \in DOMAIN done' /\ DOMAIN done \subseteq DOMAIN done'
    BY <2>4
  <2>10. ASSUME NEW f, Holds(c, f) PROVE Holds(c, f)'
    BY <1>2, <2>5, <2>7, <2>8, <2>9, <2>10, HoldsIs
  <2>11. ASSUME NEW f, Holds(c, f)' PROVE Holds(c, f)
    <3>1. CASE \E x \in Worker : OutHolds(x, c, f)'
      BY <2>5, <2>6, <3>1, HoldsIs
    <3>2. CASE \E i \in DOMAIN done' : DoneHolds(i, c, f)'
      BY <2>4, <2>7, <2>8, <3>2, HoldsIs
    <3>3. CASE In(f, Written(c)')
      BY <1>2, <3>3, HoldsIs
    <3>4. QED
      BY <2>11, <3>1, <3>2, <3>3, HoldsIs
  <2>12. QED
    BY <1>1, <2>10, <2>11 DEF Same, GetsRestricted
<1>5. QED
  BY <1>3, <1>4, PushStep

-----------------------------------------------------------------------------
(* Steps that hand over an answer or a slice.                              *)

LEMMA ResultHolds ==
  ASSUME TypeInv, NEW w \in Worker, NEW out \in Seq(FrameType), NEW close \in BOOLEAN, NEW key \in Nat,
         Result(w, out, close, key), wk[w].pc \in {"handle", "continue"},
         UNCHANGED <<wire, conns, done>>, NEW c
  PROVE  \A f : Holds(c, f)' <=> Holds(c, f) \/ (wk[w].task.conn = c /\ In(f, out))
<1>1. /\ \A v \in Worker \ {w} : Calm(wk'[v], wk[v])
      /\ IsPiece("out", w, c)' <=> wk[w].task.conn = c
      /\ Piece("out", w, c)' = out
      /\ ~ IsPiece("out", w, c)
  BY ResultPlace
<1>2. \A f : OutHolds(w, c, f)' <=> wk[w].task.conn = c /\ In(f, out)
  BY <1>1 DEF OutHolds, IsPiece, Piece
<1>3. \A f : ~ OutHolds(w, c, f)
  BY <1>1 DEF OutHolds, IsPiece
<1>4. \A x \in Worker \ {w} : \A f : OutHolds(x, c, f)' <=> OutHolds(x, c, f)
  BY <1>1, CalmHolds
<1>5. \A i, f : DoneHolds(i, c, f)' <=> DoneHolds(i, c, f)
  BY DEF DoneHolds
<1>6. Written(c)' = Written(c) /\ done' = done
  BY DEF Written
<1>7. QED
  BY <1>2, <1>3, <1>4, <1>5, <1>6, HoldsIs

\* While a request's final answer is owed it was not given, and no download
\* but the one that owes it has its request id.
LEMMA Owed ==
  ASSUME AnswerInv, NEW c \in Conn, NEW r \in Nat, NEW T \in {"task", "gets"}, NEW X,
         Has(T, X, c, r, Final1)
  PROVE  /\ \A n : ~ Ended(c, r, n)
         /\ \A k \in DOMAIN gets : gets[k].conn = c /\ gets[k].offset <= ArtifactSize /\ gets[k].req = r =>
              T = "gets" /\ k = X
<1>1. Final1 \in Int
  BY DEF Final1
<1>2. \A t, x : Has(t, x, c, r, Final1) => t = T /\ x = X
  BY <1>1, AnswerParts DEF OnePlaceOf
<1>3. ASSUME NEW n, Ended(c, r, n) PROVE FALSE
  <2>1. PICK f : Holds(c, f) /\ f.kind = "OK" /\ f.req = r
    BY <1>3 DEF Ended
  <2>2. Gives(f, r, Final1)
    BY <2>1 DEF Gives, Final
  <2>3. QED
    BY <1>2, <2>1, <2>2, HeldHas
<1>4. ASSUME NEW k \in DOMAIN gets, gets[k].conn = c, gets[k].offset <= ArtifactSize, gets[k].req = r
      PROVE  T = "gets" /\ k = X
  <2>1. Has("gets", k, c, r, Final1)
    BY <1>4 DEF Has, Owes
  <2>2. QED
    BY <1>2, <2>1
<1>5. QED
  BY <1>3, <1>4

\* A request that nobody handled has no bytes yet.
LEMMA NoBytes ==
  ASSUME AnswerInv, NEW c \in Conn, NEW r \in Nat, NEW X, \A b \in Int : Has("task", X, c, r, b)
  PROVE  \A start : \A end \in Nat : end = start => Covers(c, r, start, end)
<1>1. ASSUME NEW b \in Nat, There(c, r, b) PROVE FALSE
  <2>1. PICK f : Holds(c, f) /\ Gives(f, r, b)
    BY <1>1 DEF There
  <2>2. PICK x : \E t \in {"out", "done", "written"} : Has(t, x, c, r, b)
    BY <2>1, HeldHas
  <2>3. b \in Int /\ Has("task", X, c, r, b)
    OBVIOUS
  <2>4. QED
    BY <2>2, <2>3, AnswerParts DEF OnePlaceOf
<1>2. QED
  BY <1>1 DEF Covers

\* What a connection has after the bytes from .. to - 1 of request req are
\* handed over, and, where out has an OK frame, its answer.
HandsOver(c, out, req, fin, start, from, to) ==
  /\ start <= from /\ from <= to
  /\ \A f : Holds(c, f)' <=> Holds(c, f) \/ In(f, out)
  /\ Brings(out, req, fin, from, to) /\ Covers(c, req, start, from) /\ \A n : ~ Ended(c, req, n)
  /\ NoOks(out) \/ (Oks(out, req, to - start) /\ (start = to \/ start <= ArtifactSize))
  /\ \A k \in DOMAIN gets' : gets'[k].conn = c /\ gets'[k].offset <= ArtifactSize =>
       \/ k \in DOMAIN gets /\ gets'[k] = gets[k] /\ gets[k].req \in Nat /\ gets[k].req # req
       \/ gets'[k].req = req /\ gets'[k].offset = to /\ gets'[k].offset - gets'[k].sent = start
LEMMA DataResult ==
  ASSUME NEW c, Begun(c), Complete(c), NEW out, NEW req \in Nat, NEW fin \in BOOLEAN,
         NEW start \in Nat, NEW from \in Nat, NEW to \in Nat,
         HandsOver(c, out, req, fin, start, from, to)
  PROVE  Begun(c)' /\ Complete(c)'
<1>01. /\ start <= from /\ from <= to
       /\ \A f : Holds(c, f)' <=> Holds(c, f) \/ In(f, out)
       /\ Brings(out, req, fin, from, to) /\ Covers(c, req, start, from) /\ \A n : ~ Ended(c, req, n)
  BY DEF HandsOver
<1>02. NoOks(out) \/ (Oks(out, req, to - start) /\ (start = to \/ start <= ArtifactSize))
  BY DEF HandsOver
<1>03. \A k \in DOMAIN gets' : gets'[k].conn = c /\ gets'[k].offset <= ArtifactSize =>
         \/ k \in DOMAIN gets /\ gets'[k] = gets[k] /\ gets[k].req \in Nat /\ gets[k].req # req
         \/ gets'[k].req = req /\ gets'[k].offset = to /\ gets'[k].offset - gets'[k].sent = start
  BY DEF HandsOver
<1>1. \A r, b \in Nat : There(c, r, b)' <=> There(c, r, b) \/ GivenBy(out, r, b)
  BY <1>01 DEF There, GivenBy, In
<1>2. \A r, b \in Nat : GivenBy(out, r, b) <=> r = req /\ from <= b /\ b < to
  <2> SUFFICES ASSUME NEW r \in Nat, NEW b \in Nat
               PROVE  GivenBy(out, r, b) <=> r = req /\ from <= b /\ b < to
    OBVIOUS
  <2>1. b \in Int /\ b # Final1
    BY DEF Final1
  <2>2. QED
    BY <1>01, <2>1 DEF Brings
<1>3. Covers(c, req, start, to)'
  BY <1>01, <1>1, <1>2 DEF Covers
<1>4. \A r \in Nat : r # req => \A s, e : Covers(c, r, s, e)' <=> Covers(c, r, s, e)
  BY <1>1, <1>2 DEF Covers
<1>5. Begun(c)'
  <2>1. ASSUME NEW k \in DOMAIN gets', gets'[k].conn = c, gets'[k].offset <= ArtifactSize
        PROVE  Covers(c, gets[k].req, gets[k].offset - gets[k].sent, gets[k].offset)'
    <3>1. PICK r, s, e : r = gets'[k].req /\ s = gets'[k].offset - gets'[k].sent /\ e = gets'[k].offset
      OBVIOUS
    <3>2. CASE k \in DOMAIN gets /\ gets'[k] = gets[k] /\ gets[k].req \in Nat /\ gets[k].req # req
      <4>1. Covers(c, r, s, e)
        BY <2>1, <3>1, <3>2 DEF Begun
      <4>2. Covers(c, r, s, e)'
        BY <1>4, <3>1, <3>2, <4>1
      <4>3. QED
        BY <3>1, <4>2
    <3>3. CASE gets'[k].req = req /\ gets'[k].offset = to /\ gets'[k].offset - gets'[k].sent = start
      BY <1>3, <3>3
    <3>4. QED
      BY <1>03, <2>1, <3>2, <3>3
  <2>2. QED
    BY <2>1 DEF Begun
<1>6. Complete(c)'
  <2>1. ASSUME NEW r \in Nat, NEW n \in Nat, Ended(c, r, n)'
        PROVE  \E s \in 0 .. ArtifactSize : Covers(c, r, s, s + n)'
    <3>1. PICK f : Holds(c, f)' /\ f.kind = "OK" /\ f.req = r /\ f.n = n
      BY <2>1 DEF Ended
    <3>2. CASE Holds(c, f)
      <4>1. Ended(c, r, n)
        BY <3>1, <3>2 DEF Ended
      <4>2. r # req /\ \E s \in 0 .. ArtifactSize : Covers(c, r, s, s + n)
        BY <1>01, <4>1 DEF Complete
      <4>3. QED
        BY <1>4, <4>2
    <3>3. CASE In(f, out)
      <4>1. r = req /\ n = to - start /\ (start = to \/ start <= ArtifactSize)
        BY <1>02, <3>1, <3>3 DEF Oks, NoOks
      <4>2. CASE start <= ArtifactSize
        <5>1. start \in 0 .. ArtifactSize /\ start + n = to
          BY <4>1, <4>2, SizeAssumption
        <5>2. QED
          BY <1>3, <4>1, <5>1
      <4>3. CASE start = to
        <5>1. Covers(c, req, 0, 0)'
          BY <1>3, <4>3 DEF Covers
        <5>2. 0 \in 0 .. ArtifactSize /\ 0 + n = 0
          BY <4>1, <4>3, SizeAssumption
        <5>3. QED
          BY <4>1, <5>1, <5>2
      <4>4. QED
        BY <4>1, <4>2, <4>3
    <3>4. QED
      BY <1>01, <3>1, <3>2, <3>3
  <2>2. QED
    BY <2>1 DEF Complete
<1>7. QED
  BY <1>5, <1>6

LEMMA DataPing ==
  ASSUME TypeInv, AnswerInv, NEW w \in Worker, handle_ping(w) \/ handle_close(w), NEW c \in Conn,
         Begun(c), Complete(c)
  PROVE  Begun(c)' /\ Complete(c)'
<1> DEFINE t == wk[w].task
           answer == <<Frame("OK", t.req, 0)>>
<1>1. wk[w].pc = "handle" /\ UNCHANGED <<sent, inbox, wire, conns, queue, done, gets>>
  BY DEF handle_ping, handle_close, client
<1>2. t.req \in Nat \ {0} /\ \A k \in DOMAIN gets : gets[k].req \in Nat
  <2>1. wk[w] \in WorkerType /\ wk[w].task.req # 0
    BY <1>1, Now DEF TypeInv, LocalOK
  <2>2. \A k \in DOMAIN gets : gets[k] \in GetType
    BY Now
  <2>3. QED
    BY <2>1, <2>2 DEF WorkerType, TaskType, GetType
<1>3. answer \in Seq(FrameType) /\ Brings(answer, t.req, TRUE, 0, 0) /\ Oks(answer, t.req, 0)
  BY <1>2, OneFrame DEF Final
<1>31. \E close \in BOOLEAN : Result(w, answer, close, 0)
  BY DEF handle_ping, handle_close
<1> HIDE DEF answer
<1>32. PICK out : out = answer
  OBVIOUS
<1>33. out \in Seq(FrameType) /\ Brings(out, t.req, TRUE, 0, 0) /\ Oks(out, t.req, 0)
  BY <1>3, <1>32
<1>4. PICK close \in BOOLEAN : Result(w, out, close, 0)
  BY <1>31, <1>32
<1>5. \A f : Holds(c, f)' <=> Holds(c, f) \/ (t.conn = c /\ In(f, out))
  BY <1>1, <1>33, <1>4, ResultHolds
<1>6. CASE t.conn # c
  <2>1. Same(c)
    BY <1>5, <1>6 DEF Same
  <2>2. QED
    BY <1>1, <1>2, <2>1, DataSame
<1>7. CASE t.conn = c
  <2>1. \A b \in Int : Has("task", w, c, t.req, b)
    BY <1>1, <1>7 DEF Has, Owes
  <2>2. PICK r \in Nat : r = t.req
    BY <1>2
  <2>3. Has("task", w, c, r, Final1) /\ \A b \in Int : Has("task", w, c, r, b)
    BY <2>1, <2>2 DEF Final1
  <2>4. /\ \A n : ~ Ended(c, r, n)
        /\ \A k \in DOMAIN gets : gets[k].conn = c /\ gets[k].offset <= ArtifactSize => gets[k].req # r
    BY <2>3, Owed
  <2>0. PICK z \in Nat : z = 0
    OBVIOUS
  <2>5. Covers(c, r, z, z)
    BY <2>3, NoBytes
  <2>6. \A f : Holds(c, f)' <=> Holds(c, f) \/ In(f, out)
    BY <1>5, <1>7
  <2>7. \A k \in DOMAIN gets' : gets'[k].conn = c /\ gets'[k].offset <= ArtifactSize =>
          \/ k \in DOMAIN gets /\ gets'[k] = gets[k] /\ gets[k].req \in Nat /\ gets[k].req # r
          \/ gets'[k].req = r /\ gets'[k].offset = z /\ gets'[k].offset - gets'[k].sent = z
    BY <1>1, <1>2, <2>4
  <2>8. NoOks(out) \/ (Oks(out, r, z - z) /\ (z = z \/ z <= ArtifactSize))
    <3>1. z - z = 0
      OBVIOUS
    <3>2. QED
      BY <1>33, <2>2, <3>1
  <2>9. PICK fin \in BOOLEAN : fin
    OBVIOUS
  <2>91. Brings(out, r, fin, z, z) /\ z <= z
    BY <1>33, <2>0, <2>2, <2>9 DEF Brings
  <2>10. HandsOver(c, out, r, fin, z, z, z)
    BY <2>4, <2>5, <2>6, <2>7, <2>8, <2>91 DEF HandsOver
  <2>11. QED
    BY <2>10, DataResult
<1>8. QED
  BY <1>6, <1>7

LEMMA DataGet ==
  ASSUME TypeInv, AnswerInv, "delete" \notin Events, NEW w \in Worker, handle_get(w), NEW c \in Conn,
         Begun(c), Complete(c)
  PROVE  Begun(c)' /\ Complete(c)'
<1> DEFINE t == wk[w].task
<1>1. /\ t.conn \in Conn /\ t.req \in Nat \ {0} /\ t.offset \in Nat
      /\ wk[w].pc = "handle" /\ UNCHANGED <<sent, inbox, wire, conns, queue, done>>
  BY GetResult
<1>2. PICK out \in Seq(FrameType), close \in BOOLEAN, key \in Nat :
        /\ Result(w, out, close, key)
        /\ GetDone(t, out, key) \/ GetFails(t, out, key) \/ GetGoesOn(t, out, key)
  BY GetResult
<1>3. \A k \in DOMAIN gets : gets[k].req \in Nat
  <2>1. \A k \in DOMAIN gets : gets[k] \in GetType
    BY Now
  <2>2. QED
    BY <2>1 DEF GetType
<1>4. \A f : Holds(c, f)' <=> Holds(c, f) \/ (t.conn = c /\ In(f, out))
  BY <1>1, <1>2, ResultHolds
<1>5. PICK r \in Nat, from \in Nat : r = t.req /\ from = t.offset
  BY <1>1
<1>6. \E n \in Nat, fin \in BOOLEAN :
        /\ Brings(out, r, fin, from, from + n)
        /\ NoOks(out) \/ (Oks(out, r, n) /\ (n = 0 \/ from + n <= ArtifactSize))
        /\ \A k \in DOMAIN gets' :
             \/ k \in DOMAIN gets /\ gets'[k] = gets[k]
             \/ ~ (gets'[k].offset <= ArtifactSize)
             \/ /\ gets'[k].conn = t.conn /\ gets'[k].req = r
                /\ gets'[k].offset = from + n /\ gets'[k].sent = n
  <2>1. CASE GetDone(t, out, key)
    BY <1>5, <2>1 DEF GetDone
  <2>2. CASE GetFails(t, out, key)
    <3>0. PICK q : q = get_seq
      OBVIOUS
    <3>1. PICK g : /\ gets' = AddGet(q, g) /\ ~ (g.offset <= ArtifactSize)
                   /\ Brings(out, r, TRUE, from, from) /\ NoOks(out)
      BY <1>5, <2>2, <3>0 DEF GetFails
    <3>11. gets' = AddGet(q, g)
      BY <3>1
    <3>12. /\ DOMAIN gets' = DOMAIN gets \cup {q} /\ gets'[q] = g
           /\ \A k \in DOMAIN gets : k # q => gets'[k] = gets[k]
      BY <3>11, AddedGet
    <3>2. \A k \in DOMAIN gets' :
            (k \in DOMAIN gets /\ gets'[k] = gets[k]) \/ ~ (gets'[k].offset <= ArtifactSize)
      BY <3>1, <3>12
    <3>3. from + 0 = from
      OBVIOUS
    <3>4. QED
      BY <3>1, <3>2, <3>3
  <2>3. CASE GetGoesOn(t, out, key)
    <3>0. PICK q : q = get_seq
      OBVIOUS
    <3>1. PICK g : \E n \in Nat :
            /\ gets' = AddGet(q, g)
            /\ g.conn = t.conn /\ g.req = r /\ g.offset = from + n /\ g.sent = n
            /\ Brings(out, r, FALSE, from, from + n) /\ NoOks(out)
      BY <1>5, <2>3, <3>0 DEF GetGoesOn
    <3>11. gets' = AddGet(q, g)
      BY <3>1
    <3>12. /\ DOMAIN gets' = DOMAIN gets \cup {q} /\ gets'[q] = g
           /\ \A k \in DOMAIN gets : k # q => gets'[k] = gets[k]
      BY <3>11, AddedGet
    <3>2. \A k \in DOMAIN gets' : (k \in DOMAIN gets /\ gets'[k] = gets[k]) \/ gets'[k] = g
      BY <3>1, <3>12
    <3>3. QED
      BY <3>1, <3>2
  <2>4. QED
    BY <1>2, <2>1, <2>2, <2>3
<1>7. PICK n \in Nat, fin \in BOOLEAN :
        /\ Brings(out, r, fin, from, from + n)
        /\ NoOks(out) \/ (Oks(out, r, n) /\ (n = 0 \/ from + n <= ArtifactSize))
        /\ \A k \in DOMAIN gets' :
             \/ k \in DOMAIN gets /\ gets'[k] = gets[k]
             \/ ~ (gets'[k].offset <= ArtifactSize)
             \/ /\ gets'[k].conn = t.conn /\ gets'[k].req = r
                /\ gets'[k].offset = from + n /\ gets'[k].sent = n
  BY <1>6
<1>8. CASE t.conn # c
  <2>1. Same(c)
    BY <1>4, <1>8 DEF Same
  <2>2. \A k \in DOMAIN gets' : gets'[k].conn = c /\ gets'[k].offset <= ArtifactSize =>
          k \in DOMAIN gets /\ gets'[k] = gets[k]
    BY <1>7, <1>8
  <2>3. QED
    BY <1>3, <2>1, <2>2, DataSame
<1>9. CASE t.conn = c
  <2>1. \A b \in Int : Has("task", w, c, r, b)
    BY <1>1, <1>5, <1>9 DEF Has, Owes
  <2>2. Has("task", w, c, r, Final1)
    BY <2>1 DEF Final1
  <2>3. /\ \A m : ~ Ended(c, r, m)
        /\ \A k \in DOMAIN gets : gets[k].conn = c /\ gets[k].offset <= ArtifactSize => gets[k].req # r
    BY <2>2, Owed
  <2>4. Covers(c, r, from, from)
    BY <2>1, NoBytes
  <2>5. \A f : Holds(c, f)' <=> Holds(c, f) \/ In(f, out)
    BY <1>4, <1>9
  <2>6. PICK to \in Nat : to = from + n
    OBVIOUS
  <2>7. \A k \in DOMAIN gets' : gets'[k].conn = c /\ gets'[k].offset <= ArtifactSize =>
          \/ k \in DOMAIN gets /\ gets'[k] = gets[k] /\ gets[k].req \in Nat /\ gets[k].req # r
          \/ gets'[k].req = r /\ gets'[k].offset = to /\ gets'[k].offset - gets'[k].sent = from
    <3> SUFFICES ASSUME NEW k \in DOMAIN gets', gets'[k].conn = c, gets'[k].offset <= ArtifactSize
                 PROVE  \/ k \in DOMAIN gets /\ gets'[k] = gets[k] /\ gets[k].req \in Nat /\ gets[k].req # r
                        \/ gets'[k].req = r /\ gets'[k].offset = to /\ gets'[k].offset - gets'[k].sent = from
      OBVIOUS
    <3>1. CASE k \in DOMAIN gets /\ gets'[k] = gets[k]
      BY <1>3, <2>3, <3>1
    <3>2. CASE gets'[k].req = r /\ gets'[k].offset = from + n /\ gets'[k].sent = n
      BY <2>6, <3>2
    <3>3. QED
      BY <1>7, <3>1, <3>2
  <2>8. NoOks(out) \/ (Oks(out, r, to - from) /\ (from = to \/ from <= ArtifactSize))
    <3>1. to - from = n /\ (n = 0 => from = to) /\ (from + n <= ArtifactSize => from <= ArtifactSize)
      BY <2>6, SizeAssumption
    <3>2. QED
      BY <1>7, <3>1
  <2>9. Brings(out, r, fin, from, to) /\ from <= from /\ from <= to
    BY <1>7, <2>6
  <2>10. HandsOver(c, out, r, fin, from, from, to)
    BY <2>3, <2>4, <2>5, <2>7, <2>8, <2>9 DEF HandsOver
  <2>11. QED
    BY <2>10, DataResult
<1>10. QED
  BY <1>8, <1>9

LEMMA DataContinue ==
  ASSUME TypeInv, StreamInv, AnswerInv, "delete" \notin Events, NEW w \in Worker,
         handle_get_continue(w), NEW c \in Conn, Begun(c), Complete(c)
  PROVE  Begun(c)' /\ Complete(c)'
<1>1. PICK k, g, o : k = wk[w].task.key /\ g = gets[k] /\ o = wk[w].task.conn
  OBVIOUS
<1>2. /\ wk[w].pc = "continue" /\ UNCHANGED <<sent, inbox, wire, conns, queue, done>>
      /\ k \in DOMAIN gets => g \in GetType /\ g.conn = o /\ g.offset <= ArtifactSize /\ g.sent <= g.offset
  BY <1>1, ContinueResult
<1>3. PICK out \in Seq(FrameType), close \in BOOLEAN, key \in Nat :
        /\ Result(w, out, close, key)
        /\ \/ k \notin DOMAIN gets /\ out = <<>> /\ UNCHANGED gets
           \/ k \in DOMAIN gets /\ ContinueDone(g, k, out)
           \/ k \in DOMAIN gets /\ ContinueOn(g, k, out)
  BY <1>1, ContinueResult
<1>4. \A j \in DOMAIN gets : gets[j].req \in Nat
  <2>1. \A j \in DOMAIN gets : gets[j] \in GetType
    BY Now
  <2>2. QED
    BY <2>1 DEF GetType
<1>5. \A f : Holds(c, f)' <=> Holds(c, f) \/ (o = c /\ In(f, out))
  BY <1>1, <1>2, <1>3, ResultHolds
<1>6. CASE k \notin DOMAIN gets /\ out = <<>> /\ UNCHANGED gets
  <2>1. \A f : ~ In(f, out)
    BY <1>6 DEF In
  <2>2. Same(c)
    BY <1>5, <2>1 DEF Same
  <2>3. QED
    BY <1>4, <1>6, <2>2, DataSame
<1>7. CASE k \in DOMAIN gets /\ (ContinueDone(g, k, out) \/ ContinueOn(g, k, out))
  <2>1. PICK r \in Nat, from \in Nat, was \in Nat :
          r = g.req /\ from = g.offset /\ was = g.sent /\ from <= ArtifactSize /\ was <= from
    BY <1>2, <1>7 DEF GetType
  <2>2. PICK n \in Nat, fin \in BOOLEAN :
          /\ Brings(out, r, fin, from, from + n)
          /\ NoOks(out) \/ Oks(out, r, was + n)
          /\ \A j \in DOMAIN gets' :
               \/ j # k /\ j \in DOMAIN gets /\ gets'[j] = gets[j]
               \/ /\ gets'[j].conn = o /\ gets'[j].req = r
                  /\ gets'[j].offset = from + n /\ gets'[j].sent = was + n
    <3>1. CASE ContinueDone(g, k, out)
      <4>1. PICK n \in Nat : /\ gets' = EraseGet(k)
                             /\ Brings(out, r, TRUE, from, from + n) /\ Oks(out, r, was + n)
        BY <2>1, <3>1 DEF ContinueDone
      <4>2. \A j \in DOMAIN gets' : j # k /\ j \in DOMAIN gets /\ gets'[j] = gets[j]
        BY <4>1 DEF EraseGet
      <4>3. QED
        BY <4>1, <4>2
    <3>2. CASE ContinueOn(g, k, out)
      <4>1. PICK h : \E n \in Nat :
              /\ gets' = [gets EXCEPT ![k] = h]
              /\ h.conn = o /\ h.req = r /\ h.offset = from + n /\ h.sent = was + n
              /\ Brings(out, r, FALSE, from, from + n) /\ NoOks(out)
        BY <1>2, <1>7, <2>1, <3>2 DEF ContinueOn
      <4>2. \A j \in DOMAIN gets' : (j # k /\ j \in DOMAIN gets /\ gets'[j] = gets[j]) \/ gets'[j] = h
        <5>1. gets' = [gets EXCEPT ![k] = h]
          BY <4>1
        <5>2. QED
          BY <5>1
      <4>3. QED
        BY <4>1, <4>2
    <3>3. QED
      BY <1>7, <3>1, <3>2
  <2>3. CASE o # c
    <3>1. Same(c)
      BY <1>5, <2>3 DEF Same
    <3>2. \A j \in DOMAIN gets' : gets'[j].conn = c /\ gets'[j].offset <= ArtifactSize =>
            j \in DOMAIN gets /\ gets'[j] = gets[j]
      BY <2>2, <2>3
    <3>3. QED
      BY <1>4, <3>1, <3>2, DataSame
  <2>4. CASE o = c
    <3>1. Has("gets", k, c, r, Final1)
      BY <1>1, <1>2, <1>7, <2>1, <2>4 DEF Has, Owes
    <3>2. /\ \A m : ~ Ended(c, r, m)
          /\ \A j \in DOMAIN gets : gets[j].conn = c /\ gets[j].offset <= ArtifactSize /\ gets[j].req = r =>
               j = k
      BY <3>1, Owed
    <3>3. PICK start \in Nat : start = from - was
      BY <2>1
    <3>4. Covers(c, r, start, from)
      <4>1. Covers(c, g.req, g.offset - g.sent, g.offset)
        BY <1>1, <1>2, <1>7, <2>4 DEF Begun
      <4>2. QED
        BY <2>1, <3>3, <4>1
    <3>5. \A f : Holds(c, f)' <=> Holds(c, f) \/ In(f, out)
      BY <1>5, <2>4
    <3>6. PICK to \in Nat : to = from + n
      OBVIOUS
    <3>7. to - start = was + n /\ (from + n) - (was + n) = start
      BY <3>3, <3>6
    <3>71. start <= from /\ from <= to
      BY <3>3, <3>6
    <3>72. start <= ArtifactSize
      BY <2>1, <3>3, SizeAssumption
    <3>8. \A j \in DOMAIN gets' : gets'[j].conn = c /\ gets'[j].offset <= ArtifactSize =>
            \/ j \in DOMAIN gets /\ gets'[j] = gets[j] /\ gets[j].req \in Nat /\ gets[j].req # r
            \/ gets'[j].req = r /\ gets'[j].offset = to /\ gets'[j].offset - gets'[j].sent = start
      <4> SUFFICES ASSUME NEW j \in DOMAIN gets', gets'[j].conn = c, gets'[j].offset <= ArtifactSize
                   PROVE  \/ j \in DOMAIN gets /\ gets'[j] = gets[j] /\ gets[j].req \in Nat /\ gets[j].req # r
                          \/ gets'[j].req = r /\ gets'[j].offset = to /\ gets'[j].offset - gets'[j].sent = start
        OBVIOUS
      <4>1. CASE j # k /\ j \in DOMAIN gets /\ gets'[j] = gets[j]
        BY <1>4, <3>2, <4>1
      <4>2. CASE gets'[j].req = r /\ gets'[j].offset = from + n /\ gets'[j].sent = was + n
        BY <3>6, <3>7, <4>2
      <4>3. QED
        BY <2>2, <4>1, <4>2
    <3>9. NoOks(out) \/ (Oks(out, r, to - start) /\ (start = to \/ start <= ArtifactSize))
      BY <2>2, <3>7, <3>72
    <3>10. Brings(out, r, fin, from, to)
      BY <2>2, <3>6
    <3>11. \A m : ~ Ended(c, r, m)
      BY <3>2
    <3>12. HandsOver(c, out, r, fin, start, from, to)
      BY <3>11, <3>4, <3>5, <3>71, <3>8, <3>9, <3>10 DEF HandsOver
    <3>13. QED
      BY <3>12, DataResult
  <2>5. QED
    BY <2>3, <2>4
<1>8. QED
  BY <1>3, <1>6, <1>7

-----------------------------------------------------------------------------
(* What a connection has received is complete.                             *)

LEMMA HeldFrame ==
  ASSUME TypeInv, NEW c \in Conn, NEW f, Holds(c, f)
  PROVE  f \in FrameType
<1>1. PICK t, x : IsPiece(t, x, c) /\ In(f, Piece(t, x, c))
  BY DEF Holds
<1>2. Piece(t, x, c) \in Seq(FrameType)
  <2>1. CASE t = "out"
    BY <1>1, <2>1, Now DEF IsPiece, Piece, WorkerType
  <2>2. CASE t = "done"
    <3>1. x \in DOMAIN done /\ Piece(t, x, c) = done[x].out
      BY <1>1, <2>2 DEF IsPiece, Piece
    <3>2. \A i \in DOMAIN done : done[i] \in DoneType
      BY Now
    <3>3. QED
      BY <3>1, <3>2 DEF DoneType
  <2>3. CASE t = "written"
    <3>1. wire[c] \in Seq(FrameType) /\ conns[c] \in ConnType
      BY Now
    <3>2. Written(c) \in Seq(FrameType)
      BY <3>1 DEF Written, ConnType
    <3>3. QED
      BY <2>3, <3>2 DEF Piece
  <2>4. QED
    BY <1>1, <2>1, <2>2, <2>3 DEF IsPiece
<1>3. QED
  BY <1>1, <1>2 DEF In

\* A connection on which nothing was asked has nothing.
Idle == \A c \in Conn : sent[c] = 0 => Begun(c) /\ Complete(c)
LEMMA IdleHolds == ASSUME TypeInv, AnswerInv PROVE Idle
<1> SUFFICES ASSUME NEW c \in Conn, sent[c] = 0 PROVE Begun(c) /\ Complete(c)
  BY DEF Idle
<1>1. Final1 \in Int
  BY DEF Final1
<1>2. \A r \in Nat : \A t, x : Has(t, x, c, r, Final1) => r = 0
  <2>1. \A r \in Nat : \A t, x : Has(t, x, c, r, Final1) => r <= 0
    BY <1>1, AnswerParts DEF NumberedOf
  <2>2. QED
    BY <2>1
<1>3. Begun(c)
  <2> SUFFICES ASSUME NEW k \in DOMAIN gets, gets[k].conn = c, gets[k].offset <= ArtifactSize
               PROVE  FALSE
    BY DEF Begun
  <2>1. gets[k].req \in Nat \ {0}
    <3>1. gets[k] \in GetType
      BY Now
    <3>2. QED
      BY <3>1 DEF GetType
  <2>2. Has("gets", k, c, gets[k].req, Final1)
    BY DEF Has, Owes
  <2>3. QED
    BY <1>2, <2>1, <2>2
<1>4. Complete(c)
  <2> SUFFICES ASSUME NEW r \in Nat, NEW n \in Nat, Ended(c, r, n)
               PROVE  FALSE
    BY DEF Complete
  <2>1. PICK f : Holds(c, f) /\ f.kind = "OK" /\ f.req = r
    BY DEF Ended
  <2>2. f.req # 0
    <3>1. f \in FrameType
      BY <2>1, HeldFrame
    <3>2. QED
      BY <3>1 DEF FrameType
  <2>3. Gives(f, r, Final1)
    BY <2>1 DEF Gives, Final
  <2>4. PICK x : \E t \in {"out", "done", "written"} : Has(t, x, c, r, Final1)
    BY <2>1, <2>3, HeldHas
  <2>5. QED
    BY <1>2, <2>1, <2>2, <2>4
<1>5. QED
  BY <1>3, <1>4

\* Nothing is asked before the connection is accepted.
LEMMA CloseState ==
  ASSUME NEW C \in SUBSET Conn, NEW conns1, close_connections(C, conns1), NEW c \in Conn,
         conns'[c].state = "connecting"
  PROVE  c \notin C /\ conns'[c] = conns1[c]
BY DEF close_connections, Closed

LEMMA Connecting ==
  ASSUME TypeInv, AnswerInv, [Next]_vars, NEW c \in Conn, conns'[c].state = "connecting",
         conns[c].state = "connecting" => sent[c] = 0
  PROVE  sent'[c] = 0
<1>1. conns \in [Conn -> ConnType] /\ sent \in [Conn -> Nat]
  BY Now
<1>2. ASSUME conns[c].state = "connecting", sent'[c] = sent[c] PROVE sent'[c] = 0
  BY <1>2
<1>3. ASSUME NEW d \in Conn, Send(d)
      PROVE  sent'[c] = 0
  <2>1. conns' = conns /\ d # c /\ sent' = [sent EXCEPT ![d] = @ + 1]
    BY <1>3 DEF Send, IsOpen
  <2>2. QED
    BY <1>1, <1>2, <2>1
<1>4. ASSUME NEW d \in Conn, accept_new(d)
      PROVE  sent'[c] = 0
  BY <1>1, <1>2, <1>4 DEF accept_new, client, ConnType
<1>5. ASSUME NEW d \in Conn, on_frame(d)
      PROVE  sent'[c] = 0
  <2>1. conns'[c].state = conns[c].state /\ sent' = sent
    BY <1>5, FrameHolds, FrameCases
  <2>2. QED
    BY <1>2, <2>1
<1>6. ASSUME NEW d \in Conn, on_eof(d)
      PROVE  sent'[c] = 0
  <2>1. {d} \in SUBSET Conn /\ close_connections({d}, conns) /\ sent' = sent
    BY <1>6 DEF on_eof, client
  <2>2. QED
    BY <1>2, <2>1, CloseState
<1>7. ASSUME NEW W \in SUBSET Conn, flush_conns(W), sent' = sent
      PROVE  sent'[c] = 0
  <2> DEFINE ready == {d \in W \cap Open : conns[d].outbox # <<>> \/ conns[d].closing}
             flushed == ready \ left
             ended == {d \in ready : d \in left \/ conns[d].closing}
             conns1 == [d \in Conn |-> IF d \in flushed THEN [conns[d] EXCEPT !.outbox = <<>>] ELSE conns[d]]
  <2>1. ended \in SUBSET Conn /\ close_connections(ended, conns1)
    BY <1>7 DEF flush_conns
  <2>2. conns1[c].state = conns[c].state
    BY <1>1 DEF ConnType
  <2> HIDE DEF ended, conns1
  <2>3. conns'[c] = conns1[c]
    BY <2>1, CloseState, Zenon DEF close_connections, Closed
  <2>4. QED
    BY <1>2, <1>7, <2>2, <2>3
<1>8. ASSUME NEW W \in SUBSET Conn, sweep_idle(W)
      PROVE  sent'[c] = 0
  <2>1. close_connections(W, conns) /\ sent' = sent
    BY <1>8 DEF sweep_idle, client
  <2>2. QED
    BY <1>2, <2>1, CloseState
<1>9. CASE drain_completions
  <2>1. conns'[c].state = conns[c].state /\ sent' = sent
    BY <1>9, AnswerParts, DrainStep DEF drain_completions, client
  <2>2. QED
    BY <1>2, <2>1
<1>10. CASE stop \/ Stopping
  <2>1. (conns' = conns \/ conns' = [d \in Conn |-> Closed]) /\ sent' = sent
    BY <1>10, StopStep DEF client
  <2>2. QED
    BY <1>2, <2>1 DEF Closed
<1>11. ASSUME UNCHANGED <<conns, sent>>
       PROVE  sent'[c] = 0
  BY <1>2, <1>11
<1>12. CASE UNCHANGED vars \/ Delete \/ events_handled \/ \E d \in Conn : Leave(d)
  BY <1>11, <1>12 DEF vars, Delete, events_handled, Leave, client
<1>13. ASSUME NEW w \in Worker,
              \/ WorkerQuiet(w) \/ pop_task(w) \/ handle_ping(w) \/ handle_close(w)
              \/ handle_get(w) \/ handle_get_continue(w) \/ enqueue(w) \/ push_completion(w)
       PROVE  sent'[c] = 0
  <2>1. UNCHANGED <<conns, sent>>
    BY <1>13 DEF WorkerQuiet, worker_exit, find_session, block, SpuriousWakeup, pop_task, handle_ping,
         handle_close, handle_get, handle_get_continue, enqueue, push_completion, client
  <2>2. QED
    BY <1>11, <2>1
<1>14. ASSUME NEW d \in Conn, on_writable(d)
       PROVE  sent'[c] = 0
  <2>1. {d} \in SUBSET Conn /\ flush_conns({d}) /\ sent' = sent
    BY <1>14 DEF on_writable, client
  <2>2. QED
    BY <1>7, <2>1
<1>15. ASSUME NEW W \in SUBSET Conn, flush_writable(W)
       PROVE  sent'[c] = 0
  <2>1. flush_conns(W) /\ sent' = sent
    BY <1>15 DEF flush_writable, client
  <2>2. QED
    BY <1>7, <2>1
<1>16. QED
  BY <1>3, <1>4, <1>5, <1>6, <1>8, <1>9, <1>10, <1>12, <1>13, <1>14, <1>15, Steps1

LEMMA InitData == ASSUME Init, TypeInv, AnswerInv PROVE DataInv
<1>1. \A c \in Conn : sent[c] = 0
  BY DEF Init
<1>2. QED
  BY <1>1, IdleHolds DEF Idle, DataInv

LEMMA DataStep ==
  ASSUME TypeInv, StreamInv, AnswerInv, DataInv, "delete" \notin Events, [Next]_vars, Idle'
  PROVE  DataInv'
<1> SUFFICES ASSUME NEW c \in Conn
             PROVE  /\ (conns[c].state = "connecting" => sent[c] = 0)'
                    /\ Whole(c)' => Begun(c)' /\ Complete(c)'
  BY DEF DataInv
<1>1. conns'[c].state = "connecting" => sent'[c] = 0
  BY Connecting DEF DataInv
<1>2. CASE conns'[c].state = "connecting"
  <2>1. sent'[c] = 0
    BY <1>1, <1>2
  <2>2. (sent[c] = 0 => Begun(c) /\ Complete(c))'
    BY DEF Idle
  <2>3. QED
    BY <2>1, <2>2
<1>3. ASSUME conns'[c].state # "connecting", Whole(c)'
      PROVE  Begun(c)' /\ Complete(c)'
  <2>1. conns[c] \in ConnType /\ \A k \in DOMAIN gets : gets[k].req \in Nat
    <3>1. \A k \in DOMAIN gets : gets[k] \in GetType
      BY Now
    <3>2. QED
      BY <3>1, Now DEF GetType
  <2>2. ASSUME Whole(c), Same(c), GetsRestricted
        PROVE  Begun(c)' /\ Complete(c)'
    <3>1. Begun(c) /\ Complete(c)
      BY <2>2 DEF DataInv
    <3>2. \A k \in DOMAIN gets' : gets'[k].conn = c /\ gets'[k].offset <= ArtifactSize =>
            k \in DOMAIN gets /\ gets'[k] = gets[k]
      BY <2>2 DEF GetsRestricted
    <3>3. QED
      BY <2>1, <2>2, <3>1, <3>2, DataSame
  <2>3. ASSUME \/ \E d \in Conn : Leave(d) \/ accept_new(d) \/ on_eof(d) \/ on_writable(d)
               \/ Delete \/ events_handled \/ UNCHANGED vars
               \/ \E W \in SUBSET Conn : flush_writable(W) \/ sweep_idle(W)
               \/ \E w \in Worker : WorkerQuiet(w)
               \/ stop \/ Stopping
        PROVE  Begun(c)' /\ Complete(c)'
    <3>1. QuietStep
      BY <2>3, QuietSteps
    <3>2. AllCalm(wk', wk) /\ done' = done /\ GetsRestricted /\ Whole(c) /\ Written(c)' = Written(c)
      BY <1>3, <3>1 DEF QuietStep, Kept
    <3>3. QED
      BY <2>2, <3>2, QuietHolds
  <2>4. ASSUME NEW d \in Conn, Send(d) PROVE Begun(c)' /\ Complete(c)'
    <3>1. Same(c) /\ GetsRestricted /\ conns' = conns
      BY <2>4, SendHolds
    <3>2. QED
      BY <1>3, <2>2, <3>1 DEF Whole
  <2>5. ASSUME NEW d \in Conn, on_frame(d) PROVE Begun(c)' /\ Complete(c)'
    <3>1. /\ Same(c) /\ GetsRestricted
          /\ conns'[c].state = conns[c].state /\ (conns[c].closing => conns'[c].closing)
      BY <2>5, FrameHolds
    <3>2. QED
      BY <1>3, <2>2, <3>1 DEF Whole
  <2>6. CASE drain_completions
    <3>1. conns'[c].state = conns[c].state
      BY <2>6, AnswerParts, DrainStep
    <3>2. conns'[c].state = "open" /\ ~ conns'[c].closing
      BY <1>3, <2>1, <3>1 DEF Whole, ConnType
    <3>3. Same(c) /\ GetsRestricted /\ conns[c].state = "open" /\ ~ conns[c].closing
      BY <2>6, <3>2, DrainHolds
    <3>4. QED
      BY <2>2, <3>3 DEF Whole
  <2>7. ASSUME NEW w \in Worker, pop_task(w) \/ enqueue(w) \/ push_completion(w)
        PROVE  Begun(c)' /\ Complete(c)'
    <3>1. Same(c) /\ GetsRestricted /\ conns' = conns
      BY <2>7, PopHolds, EnqueueHolds, PushHolds
    <3>2. QED
      BY <1>3, <2>2, <3>1 DEF Whole
  <2>8. ASSUME NEW w \in Worker,
               handle_ping(w) \/ handle_close(w) \/ handle_get(w) \/ handle_get_continue(w)
        PROVE  Begun(c)' /\ Complete(c)'
    <3>1. conns' = conns
      BY <2>8 DEF handle_ping, handle_close, handle_get, handle_get_continue
    <3>2. Begun(c) /\ Complete(c)
      BY <1>3, <3>1 DEF Whole, DataInv
    <3>3. QED
      BY <2>8, <3>2, DataPing, DataGet, DataContinue
  <2>9. QED
    BY <2>3, <2>4, <2>5, <2>6, <2>7, <2>8, Steps1
<1>4. QED
  BY <1>1, <1>2, <1>3

LEMMA Downloads ==
  ASSUME "delete" \notin Events
  PROVE  Spec => [](TypeInv /\ AnswerInv /\ DataInv)
<1>1. Spec => [](TypeInv /\ StreamInv /\ AnswerInv)
  BY Answers
<1>2. TypeInv /\ AnswerInv => Idle
  BY IdleHolds
<1>3. Init /\ TypeInv /\ AnswerInv => DataInv
  BY InitData
<1>4. TypeInv /\ StreamInv /\ AnswerInv /\ DataInv /\ [Next]_vars /\ Idle' => DataInv'
  BY DataStep
<1>5. QED
  BY <1>1, <1>2, <1>3, <1>4, PTL DEF Spec

\* A download that was answered with OK has brought each byte of its range
\* once, when nothing of its connection is on its way any more, although two
\* workers read its slices and hand them over in any order, while no artifact
\* is deleted.
THEOREM DownloadWholeHolds == ASSUME "delete" \notin Events PROVE Spec => []DownloadWhole
<1>1. TypeInv /\ AnswerInv /\ DataInv => DownloadWhole
  <2> SUFFICES ASSUME TypeInv, AnswerInv, DataInv, NEW c \in Conn, Settled(c),
                      NEW i \in DOMAIN wire[c], wire[c][i].kind = "OK"
               PROVE  LET data == DataOf(c, wire[c][i].req) IN
                      /\ \E start \in 0 .. ArtifactSize :
                           UNION {BytesOf(wire[c][j]) : j \in data} = start .. start + wire[c][i].n - 1
                      /\ \A j, k \in data : j # k => BytesOf(wire[c][j]) \cap BytesOf(wire[c][k]) = {}
    BY DEF DownloadWhole
  <2>1. /\ wire[c] \in Seq(FrameType) /\ conns[c] \in ConnType /\ ClosingWrites(conns[c])
        /\ \A j \in DOMAIN wire[c] : wire[c][j] \in FrameType
    <3>1. wire[c] \in Seq(FrameType) /\ conns[c] \in ConnType /\ ConnOK(conns[c])
      BY Now
    <3>2. QED
      BY <3>1 DEF ConnOK
  <2>2. Whole(c)
    BY <2>1 DEF Settled, IsOpen, ClosingWrites, Whole, ConnType
  <2>3. Written(c) = wire[c]
    BY <2>1, ConcatEmpty DEF Settled, Written
  <2>4. ASSUME NEW f
        PROVE  Holds(c, f) <=> In(f, wire[c])
    <3>1. ASSUME NEW x \in Worker, OutHolds(x, c, f) PROVE FALSE
      BY <3>1 DEF OutHolds, HasResult, Enqueuing, Completing, Settled, HasTask
    <3>2. ASSUME NEW k \in DOMAIN done, DoneHolds(k, c, f) PROVE FALSE
      BY <3>2 DEF DoneHolds, Settled
    <3>3. QED
      BY <2>3, <3>1, <3>2, HoldsIs
  <2>5. PICK r \in Nat, n \in Nat : r = wire[c][i].req /\ n = wire[c][i].n
    BY <2>1 DEF FrameType
  <2>6. Ended(c, r, n)
    <3>1. In(wire[c][i], wire[c])
      BY DEF In
    <3>2. QED
      BY <2>4, <2>5, <3>1 DEF Ended
  <2>7. PICK start \in 0 .. ArtifactSize : Covers(c, r, start, start + n)
    BY <2>2, <2>6 DEF DataInv, Complete
  <2>8. ASSUME NEW j \in DataOf(c, r), NEW b \in BytesOf(wire[c][j])
        PROVE  j \in DOMAIN wire[c] /\ b \in Nat /\ Gives(wire[c][j], r, b)
    <3>1. j \in DOMAIN wire[c] /\ wire[c][j].kind = "DATA" /\ wire[c][j].req = r
      BY DEF DataOf
    <3>2. wire[c][j].n \in Nat /\ wire[c][j].len \in Nat
      BY <2>1, <3>1 DEF FrameType
    <3>3. QED
      BY <3>1, <3>2 DEF BytesOf, Gives
  <2>9. UNION {BytesOf(wire[c][j]) : j \in DataOf(c, r)} = start .. start + n - 1
    <3>1. ASSUME NEW j \in DataOf(c, r), NEW b \in BytesOf(wire[c][j])
          PROVE  b \in start .. start + n - 1
      <4>1. There(c, r, b) /\ b \in Nat
        <5>1. In(wire[c][j], wire[c])
          BY <2>8 DEF In
        <5>2. QED
          BY <2>4, <2>8, <5>1 DEF There
      <4>2. start <= b /\ b < start + n
        BY <2>7, <4>1 DEF Covers
      <4>3. QED
        BY <4>1, <4>2, SizeAssumption
    <3>2. ASSUME NEW b \in start .. start + n - 1
          PROVE  \E j \in DataOf(c, r) : b \in BytesOf(wire[c][j])
      <4>1. b \in Nat /\ start <= b /\ b < start + n
        BY SizeAssumption
      <4>2. There(c, r, b)
        BY <2>7, <4>1 DEF Covers
      <4>3. PICK f : In(f, wire[c]) /\ Gives(f, r, b)
        BY <2>4, <4>2 DEF There
      <4>4. PICK j \in DOMAIN wire[c] : wire[c][j] = f
        BY <4>3 DEF In
      <4>5. b # Final1
        BY <4>1 DEF Final1
      <4>6. QED
        BY <4>3, <4>4, <4>5 DEF Gives, DataOf
    <3> DEFINE U == UNION {BytesOf(wire[c][j]) : j \in DataOf(c, r)}
               I == start .. start + n - 1
    <3>3. \A b : b \in U <=> \E j \in DataOf(c, r) : b \in BytesOf(wire[c][j])
      OBVIOUS
    <3>4. \A b : b \in U => b \in I
      BY <3>1, <3>3
    <3>5. \A b : b \in I => b \in U
      BY <3>2, <3>3
    <3> HIDE DEF U, I
    <3>6. U = I
      BY <3>4, <3>5
    <3>7. QED
      BY <3>6 DEF U, I
  <2>10. \A j, k \in DataOf(c, r) : j # k => BytesOf(wire[c][j]) \cap BytesOf(wire[c][k]) = {}
    <3>1. Once(wire[c])
      BY <2>3, AnswerParts, OnceNow
    <3>2. SUFFICES ASSUME NEW j \in DataOf(c, r), NEW k \in DataOf(c, r), j # k,
                          NEW b \in BytesOf(wire[c][j]), b \in BytesOf(wire[c][k])
                   PROVE  FALSE
      OBVIOUS
    <3>3. /\ j \in DOMAIN wire[c] /\ k \in DOMAIN wire[c] /\ b \in Int
          /\ Gives(wire[c][j], r, b) /\ Gives(wire[c][k], r, b)
      BY <2>8, <3>2
    <3>4. QED
      BY <3>1, <3>2, <3>3 DEF Once
  <2>11. QED
    BY <2>5, <2>7, <2>9, <2>10
<1>2. QED
  BY <1>1, Downloads, PTL
=============================================================================
