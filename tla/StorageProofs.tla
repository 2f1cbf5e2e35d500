---------------------------- MODULE StorageProofs ----------------------------
(***************************************************************************)
(* Proofs about the storage engine, for every set of sessions, names,      *)
(* chunks and owners, every configuration and every choice of the threads  *)
(* that bypass the mutex: types; no published artifact ever lacks a chunk, *)
(* and the collector removes only files nothing refers to.                 *)
(*                                                                         *)
(* The argument for safety: a transaction belongs to the thread that is in *)
(* it (TxOwner), artifacts change only in the worker's (TxViews), so what a*)
(* crash would leave differs from what the connection sees only while the  *)
(* worker is inside its transaction.  Between validation and publication   *)
(* the worker is the only thread that could remove a chunk file, and it is *)
(* busy (PublishReady); between the collector's check and its unlink the   *)
(* worker is the only thread that could refer to the chunk again, and it   *)
(* is busy too (GcTarget).                                                 *)
(***************************************************************************)
EXTENDS StorageInv, TLAPS

USE DEF env, tables

-----------------------------------------------------------------------------
(* Local variables of the threads.                                         *)

LEMMA LabelFacts ==
  /\ "idle" \in Labels /\ "create" \in Labels /\ "put_reload" \in Labels
  /\ "put_store" \in Labels /\ "put_rename" \in Labels /\ "put_begin" \in Labels
  /\ "put_register" \in Labels /\ "commit_transition" \in Labels
  /\ "commit_changes" \in Labels /\ "commit_validate" \in Labels
  /\ "commit_begin" \in Labels /\ "commit_publish" \in Labels
  /\ "commit_reopen" \in Labels /\ "abort_begin" \in Labels
  /\ "abort_transition" \in Labels /\ "abort_commit" \in Labels
  /\ "delete_row" \in Labels /\ "delete_commit" \in Labels /\ "gc_next" \in Labels
  /\ "gc_remove" \in Labels /\ "gc_delete" \in Labels /\ "maint_temp" \in Labels
  /\ "maint_expire" \in Labels /\ "maint_rollback" \in Labels
  /\ "maint_select" \in Labels /\ "maint_next" \in Labels /\ "mark_select" \in Labels
  /\ "mark_delete" \in Labels /\ "mark_next" \in Labels /\ "mark_parts" \in Labels
  /\ "mark_update" \in Labels /\ "expire" \in Labels /\ "gc_reactivate" \in Labels
BY DEF Labels

LEMMA IdleType == Idle \in Local /\ Args(Idle) /\ Cont(Idle) = "idle"
<1>1. Idle \in Local
  BY DEF Idle, Local, Labels, Live
<1>2. Cont(Idle) = "idle" /\ Idle.pc = "idle"
  BY DEF Idle, Cont, MarkPc
<1>3. QED
  BY <1>1, <1>2 DEF Args, MarkPc, PutPc, CommitPc, AbortPc

\* What the record of a thread that moves on to a label without touching its
\* other variables still satisfies.
LEMMA MoveType ==
  ASSUME NEW l \in Local, NEW label \in Labels
  PROVE  LET m == [l EXCEPT !.pc = label] IN
         /\ m \in Local
         /\ m.pc = label /\ m.s = l.s /\ m.ordinal = l.ordinal /\ m.data = l.data
         /\ m.ret = l.ret /\ m.from = l.from /\ m.manifest = l.manifest /\ m.cur = l.cur
BY DEF Local

LEMMA LocalFacts ==
  ASSUME NEW l \in Local
  PROVE  /\ l.pc \in Labels /\ l.ret \in Labels
         /\ l.s \in Session \cup {Nil} /\ l.now \in Nat /\ l.ordinal \in Nat
         /\ l.data \in Digest \cup {Nil} /\ l.cur \in Digest \cup {Nil}
         /\ l.todo \in SUBSET Digest /\ l.sessions \in SUBSET Session
         /\ l.from \in Live \cup {"NONE"} /\ l.manifest \in Seq(Digest)
         /\ l.name \in Name \cup {Nil} /\ l.dry \in BOOLEAN
BY DEF Local

LEMMA RetNotMark == ASSUME NEW r \in Returns PROVE r \notin MarkPc /\ r \in Labels
BY DEF Returns, MarkPc, Labels
-----------------------------------------------------------------------------
(* The tables.                                                             *)

\* What a step does to the tables and to the disk, as far as types go.
TablesStep ==
  /\ Tables' \in DatabaseType
  /\ disk' \in DatabaseType
  /\ SameIds'
  /\ \A s \in Session : sess[s] # NoSession => sess'[s] # NoSession

LEMMA TablesFacts ==
  ASSUME TypeOK
  PROVE  /\ Tables \in DatabaseType
         /\ disk.sess \in [Session -> SessionRow \cup {NoSession}]
         /\ disk.part \in SUBSET PartRow
         /\ disk.chunk \in [Digest -> ChunkRow]
         /\ disk.artifact \in [Name -> ArtifactRow \cup {NoArtifact}]
BY DEF TypeOK, Tables, DatabaseType

LEMMA NoTablesStep ==
  ASSUME TypeInv, UNCHANGED tables, UNCHANGED disk
  PROVE  TablesStep
<1>1. Tables' = Tables
  BY DEF Tables
<1>2. QED
  BY <1>1, TablesFacts DEF TypeInv, TypeOK, TablesStep, SameIds

LEMMA AutocommitStep ==
  ASSUME TypeInv, Autocommit,
         sess' \in [Session -> SessionRow \cup {NoSession}],
         part' \in SUBSET PartRow, chunk' \in [Digest -> ChunkRow],
         artifact' \in [Name -> ArtifactRow \cup {NoArtifact}],
         \A s \in Session : sess[s] = NoSession <=> sess'[s] = NoSession
  PROVE  TablesStep
<1>1. Tables' \in DatabaseType
  BY DEF Tables, DatabaseType
<1>2. Tables'.sess = sess'
  BY DEF Tables
<1>3. CASE tx = NoTx
  BY <1>1, <1>2, <1>3 DEF TablesStep, Autocommit, SameIds
<1>4. CASE tx # NoTx
  BY <1>1, <1>4 DEF TablesStep, Autocommit, SameIds, TypeInv, TypeOK
<1>5. QED
  BY <1>3, <1>4

LEMMA CommitStep ==
  ASSUME TypeInv, COMMIT,
         sess' \in [Session -> SessionRow \cup {NoSession}],
         part' \in SUBSET PartRow, chunk' \in [Digest -> ChunkRow],
         artifact' \in [Name -> ArtifactRow \cup {NoArtifact}],
         \A s \in Session : sess[s] # NoSession => sess'[s] # NoSession
  PROVE  TablesStep
<1>1. Tables' \in DatabaseType
  BY DEF Tables, DatabaseType
<1>2. Tables'.sess = sess'
  BY DEF Tables
<1>3. QED
  BY <1>1, <1>2 DEF TablesStep, COMMIT, SameIds

LEMMA RollbackStep ==
  ASSUME TypeInv, ROLLBACK
  PROVE  TablesStep
<1>1. Tables' \in DatabaseType
  BY TablesFacts DEF TypeInv, ROLLBACK, Tables, DatabaseType
<1>2. QED
  BY <1>1 DEF TypeInv, TypeOK, TablesStep, ROLLBACK, SameIds

\* A step of thread t: its own record and the tables are all that needs a
\* closer look.
LEMMA ThreadStep ==
  ASSUME TypeInv, NEW t \in Thread, NEW l \in Local, Set(t, l), Args(l),
         Cont(l) \in CommitPc => sess[l.s] # NoSession,
         TablesStep, tx' \in Thread \cup {NoTx}, changes' \in BOOLEAN,
         files' \in SUBSET Digest, temp' \in SUBSET Digest,
         UNCHANGED <<clock, crashes>>, up' \in BOOLEAN
  PROVE  TypeInv'
<1>1. loc' \in [Thread -> Local]
  BY DEF Set, TypeInv, TypeOK
<1>2. /\ sess' \in [Session -> SessionRow \cup {NoSession}]
      /\ part' \in SUBSET PartRow
      /\ chunk' \in [Digest -> ChunkRow]
      /\ artifact' \in [Name -> ArtifactRow \cup {NoArtifact}]
  BY DEF TablesStep, Tables, DatabaseType
<1>3. TypeOK'
  BY <1>1, <1>2 DEF TypeOK, TypeInv, TablesStep
<1>4. ASSUME NEW u \in Thread PROVE Args(loc'[u]) /\ Commits(loc[u])'
  <2>1. CASE u = t
    <3>1. loc'[u] = l
      BY <2>1 DEF Set, TypeInv, TypeOK
    <3>2. Cont(l) \in CommitPc => sess'[l.s] # NoSession
      BY DEF Args, TablesStep
    <3>3. QED
      BY <3>1, <3>2 DEF Commits
  <2>2. CASE u # t
    <3>1. loc'[u] = loc[u] /\ Args(loc[u]) /\ Commits(loc[u])
      BY <2>2 DEF Set, TypeInv, TypeOK, LocalsOK
    <3>2. QED
      BY <3>1 DEF Commits, Args, TablesStep
  <2>3. QED
    BY <2>1, <2>2
<1>5. QED
  BY <1>3, <1>4 DEF TypeInv, LocalsOK, TablesStep

\* A thread that goes on inside the same operation keeps its arguments.
LEMMA SameArgs ==
  ASSUME NEW l, NEW m, Args(l), Cont(m) = Cont(l), m.pc \in MarkPc => m.ret \in Returns,
         m.s = l.s, m.ordinal = l.ordinal, m.data = l.data, m.from = l.from,
         Cont(l) # "delete_row", m.pc # "expire"
  PROVE  Args(m)
BY DEF Args

\* Thread t moves on with arguments that fit its new position.
MovesWell(t) ==
  \E m \in Local : /\ Set(t, m) /\ Args(m)
                   /\ Cont(m) \in CommitPc => sess[m.s] # NoSession

LEMMA OwnFacts ==
  ASSUME TypeInv, NEW t \in Thread
  PROVE  loc[t] \in Local /\ Args(loc[t]) /\ Commits(loc[t])
BY DEF TypeInv, TypeOK, LocalsOK
-----------------------------------------------------------------------------
(* Types, operation by operation.                                          *)

\* Moves inside mark_unreferenced_parts, and back to the caller.
LEMMA InsideMark ==
  ASSUME TypeInv, NEW t \in Thread, loc[t].pc \in MarkPc,
         NEW m \in Local, m.pc \in MarkPc \cup {loc[t].ret}, m.s = loc[t].s,
         m.ordinal = loc[t].ordinal, m.data = loc[t].data, m.ret = loc[t].ret,
         m.from = loc[t].from, m.pc # "expire"
  PROVE  /\ Args(m) /\ Cont(m) = Cont(loc[t])
         /\ Cont(m) \in CommitPc => sess[m.s] # NoSession
<1>1. loc[t] \in Local /\ Args(loc[t]) /\ Commits(loc[t])
  BY OwnFacts
<1>2. loc[t].ret \in Returns
  BY <1>1 DEF Args
<1>3. Cont(m) = Cont(loc[t]) /\ Cont(loc[t]) # "delete_row"
  BY <1>2, RetNotMark DEF Cont, Returns
<1>4. QED
  BY <1>1, <1>2, <1>3, SameArgs DEF Commits

\* Going on with the next digest, or leaving the loop.
LEMMA MarkNextType ==
  ASSUME TypeInv, NEW t \in Thread, loc[t].pc \in MarkPc, NEW d, MarkNext(t, d)
  PROVE  \E m \in Local : /\ Set(t, m) /\ Args(m) /\ Cont(m) = Cont(loc[t])
                          /\ Cont(m) \in CommitPc => sess[m.s] # NoSession
<1> DEFINE rest == loc[t].todo \ {d}
           label == IF rest = {} THEN loc[t].ret ELSE "mark_next"
           m == [loc[t] EXCEPT !.todo = rest, !.cur = Nil, !.pc = label]
<1>1. /\ loc[t] \in Local /\ label \in Labels /\ label \in MarkPc \cup {loc[t].ret}
      /\ label # "expire"
  BY OwnFacts, LocalFacts, LabelFacts DEF MarkPc, Args, Returns
<1>2. rest \in SUBSET Digest
  BY <1>1, LocalFacts
<1>3. /\ m \in Local /\ m.pc = label /\ m.s = loc[t].s /\ m.ordinal = loc[t].ordinal
      /\ m.data = loc[t].data /\ m.ret = loc[t].ret /\ m.from = loc[t].from
  <2> HIDE DEF rest, label
  <2> QED BY <1>1, <1>2 DEF Local
<1>4. Args(m) /\ Cont(m) = Cont(loc[t]) /\ (Cont(m) \in CommitPc => sess[m.s] # NoSession)
  <2> HIDE DEF m, label
  <2> QED BY <1>1, <1>3, InsideMark
<1>5. Set(t, m)
  BY DEF MarkNext
<1>6. QED
  <2> HIDE DEF m
  <2> QED BY <1>3, <1>4, <1>5

LEMMA MarkType ==
  ASSUME TypeInv, NEW t \in Thread, mark_unreferenced_parts(t)
  PROVE  TypeInv'
<1>a. /\ loc[t] \in Local /\ loc[t].ret \in Labels
      /\ changes \in BOOLEAN /\ tx \in Thread \cup {NoTx} /\ files \in SUBSET Digest
      /\ temp \in SUBSET Digest /\ up \in BOOLEAN
  BY OwnFacts, LocalFacts DEF TypeInv, TypeOK
<1>b. \A x : Changed(x) => changes' \in BOOLEAN
  BY DEF Changed
<1>1. CASE mark_select(t)
  <2> DEFINE D == DigestsOf(loc[t].s)
             m == [loc[t] EXCEPT !.todo = D, !.pc = "mark_delete"]
  <2>1. D \in SUBSET Digest
    BY DEF TypeInv, TypeOK, DigestsOf, PartsOf, PartRow
  <2>2. /\ m \in Local /\ m.pc = "mark_delete" /\ m.s = loc[t].s
        /\ m.ordinal = loc[t].ordinal /\ m.data = loc[t].data
        /\ m.ret = loc[t].ret /\ m.from = loc[t].from
    <3> HIDE DEF D
    <3> QED BY <1>a, <2>1, LabelFacts DEF Local
  <2>3. loc[t].pc \in MarkPc /\ Set(t, m) /\ TablesStep
    BY <1>1, NoTablesStep DEF mark_select, At, MarkPc
  <2>4. Args(m) /\ (Cont(m) \in CommitPc => sess[m.s] # NoSession)
    <3> HIDE DEF m
    <3> QED BY <2>2, <2>3, InsideMark DEF MarkPc
  <2>5. QED
    <3> HIDE DEF m
    <3> QED BY <1>1, <1>a, <2>2, <2>3, <2>4, ThreadStep DEF mark_select
<1>2. CASE delete_parts(t)
  <2> DEFINE label == IF loc[t].todo = {} THEN loc[t].ret ELSE "mark_next"
             m == [loc[t] EXCEPT !.pc = label]
  <2>1. label \in Labels /\ label \in MarkPc \cup {loc[t].ret} /\ label # "expire"
    BY <1>2, <1>a, OwnFacts, LabelFacts DEF delete_parts, At, MarkPc, Args, Returns
  <2>2. /\ m \in Local /\ m.pc = label /\ m.s = loc[t].s
        /\ m.ordinal = loc[t].ordinal /\ m.data = loc[t].data
        /\ m.ret = loc[t].ret /\ m.from = loc[t].from
    <3> HIDE DEF label
    <3> QED BY <1>a, <2>1, MoveType
  <2>3. loc[t].pc \in MarkPc /\ Set(t, m)
    BY <1>2 DEF delete_parts, At, MarkPc, Goto
  <2>4. Args(m) /\ (Cont(m) \in CommitPc => sess[m.s] # NoSession)
    <3> HIDE DEF m, label
    <3> QED BY <2>1, <2>2, <2>3, InsideMark
  <2>5. TablesStep
    BY <1>2, AutocommitStep DEF delete_parts, TypeInv, TypeOK
  <2>6. QED
    <3> HIDE DEF m
    <3> QED BY <1>2, <1>a, <1>b, <2>2, <2>3, <2>4, <2>5, ThreadStep DEF delete_parts
<1>3. CASE mark_manifests(t)
  <2>1. PICK d \in loc[t].todo :
          IF InManifest(d) THEN MarkNext(t, d)
          ELSE Set(t, [loc[t] EXCEPT !.cur = d, !.pc = "mark_parts"])
    BY <1>3 DEF mark_manifests
  <2>2. TablesStep /\ loc[t].pc \in MarkPc
    BY <1>3, NoTablesStep DEF mark_manifests, At, MarkPc
  <2>3. MovesWell(t)
    <3>1. CASE InManifest(d)
      BY <2>1, <2>2, <3>1, MarkNextType DEF MovesWell
    <3>2. CASE ~ InManifest(d)
      <4> DEFINE m == [loc[t] EXCEPT !.cur = d, !.pc = "mark_parts"]
      <4>1. /\ m \in Local /\ m.pc = "mark_parts" /\ m.s = loc[t].s
            /\ m.ordinal = loc[t].ordinal /\ m.data = loc[t].data
            /\ m.ret = loc[t].ret /\ m.from = loc[t].from
        <5>1. d \in Digest
          BY <1>a, LocalFacts
        <5>2. QED
          BY <1>a, <5>1, LabelFacts DEF Local
      <4>2. Set(t, m)
        BY <2>1, <3>2
      <4>3. QED
        <5> HIDE DEF m
        <5> QED BY <2>2, <4>1, <4>2, InsideMark DEF MarkPc, MovesWell
    <3>3. QED
      BY <3>1, <3>2
  <2>4. QED
    BY <1>3, <1>a, <2>2, <2>3, ThreadStep DEF mark_manifests, MovesWell
<1>4. CASE mark_parts(t)
  <2>2. TablesStep /\ loc[t].pc \in MarkPc
    BY <1>4, NoTablesStep DEF mark_parts, At, MarkPc
  <2>3. MovesWell(t)
    <3>1. CASE InLiveSession(loc[t].cur)
      BY <1>4, <2>2, <3>1, MarkNextType DEF mark_parts, MovesWell
    <3>2. CASE ~ InLiveSession(loc[t].cur)
      <4> DEFINE m == [loc[t] EXCEPT !.pc = "mark_update"]
      <4>1. /\ m \in Local /\ m.pc = "mark_update" /\ m.s = loc[t].s
            /\ m.ordinal = loc[t].ordinal /\ m.data = loc[t].data
            /\ m.ret = loc[t].ret /\ m.from = loc[t].from
        BY <1>a, MoveType, LabelFacts
      <4>2. Set(t, m)
        BY <1>4, <3>2 DEF mark_parts, Goto
      <4>3. QED
        <5> HIDE DEF m
        <5> QED BY <2>2, <4>1, <4>2, InsideMark DEF MarkPc, MovesWell
    <3>3. QED
      BY <3>1, <3>2
  <2>4. QED
    BY <1>4, <1>a, <2>2, <2>3, ThreadStep DEF mark_parts, MovesWell
<1>5. CASE mark_update(t)
  <2>1. loc[t].pc \in MarkPc
    BY <1>5 DEF mark_update, At, MarkPc
  <2>2. PendingChunk(loc[t].now) \in ChunkRow
    BY <1>a, LocalFacts DEF PendingChunk, ChunkRow
  <2>3. chunk' \in [Digest -> ChunkRow]
    BY <1>5, <2>2 DEF mark_update, TypeInv, TypeOK
  <2>4. TablesStep
    BY <1>5, <2>3, AutocommitStep DEF mark_update, TypeInv, TypeOK
  <2>5. MovesWell(t)
    BY <1>5, <2>1, MarkNextType DEF mark_update, MovesWell
  <2>6. QED
    BY <1>5, <1>a, <1>b, <2>4, <2>5, ThreadStep DEF mark_update, MovesWell
<1>6. QED
  BY <1>1, <1>2, <1>3, <1>4, <1>5 DEF mark_unreferenced_parts

LEMMA DoneType ==
  ASSUME NEW t \in Thread, Done(t)
  PROVE  MovesWell(t)
BY IdleType DEF Done, MovesWell, CommitPc

\* A thread goes on in the operation it is in.
LEMMA GotoType ==
  ASSUME TypeInv, NEW t \in Thread, NEW label \in Labels, Goto(t, label),
         loc[t].pc \notin MarkPc, label \notin MarkPc,
         label \in PutPc => loc[t].pc \in PutPc,
         label \in CommitPc => loc[t].pc \in CommitPc,
         label \in AbortPc => loc[t].pc \in AbortPc, label # "delete_row"
  PROVE  MovesWell(t)
<1> DEFINE m == [loc[t] EXCEPT !.pc = label]
<1>1. loc[t] \in Local /\ Args(loc[t]) /\ Commits(loc[t])
  BY OwnFacts
<1>2. /\ m \in Local /\ m.pc = label /\ m.s = loc[t].s /\ m.ordinal = loc[t].ordinal
      /\ m.data = loc[t].data /\ m.from = loc[t].from
  BY <1>1, MoveType
<1>3. Set(t, m)
  BY DEF Goto
<1>4. Cont(loc[t]) = loc[t].pc /\ Cont(m) = label
  BY <1>2 DEF Cont
<1>5. QED
  <2>1. label # "expire"
    BY DEF MarkPc
  <2> HIDE DEF m
  <2> QED BY <1>1, <1>2, <1>3, <1>4, <2>1 DEF MovesWell, Args, Commits

\* A thread starts an operation, or mark_unreferenced_parts on its way to ret.
LEMMA StartType ==
  ASSUME NEW t \in Thread, NEW m \in Local, Set(t, m),
         m.pc \in MarkPc => m.ret \in Returns, m.pc = "expire" => m.s \in Session,
         NEW c, c = (IF m.pc \in MarkPc THEN m.ret ELSE m.pc),
         c \in PutPc => m.s \in Session /\ m.ordinal \in Ordinal /\ m.data \in Digest,
         c \in CommitPc => m.s \in Session /\ sess[m.s] # NoSession,
         c \in AbortPc => m.s \in Session /\ m.from \in Live,
         c = "delete_row" => m.name \in Name
  PROVE  MovesWell(t)
BY DEF MovesWell, Args, Cont

\* The update of one session's state.
LEMMA StateType ==
  ASSUME TypeInv, NEW s \in Session, sess[s] # NoSession, NEW v \in Live \cup Terminal,
         sess' = [sess EXCEPT ![s].state = v]
  PROVE  /\ sess' \in [Session -> SessionRow \cup {NoSession}]
         /\ \A r \in Session : sess[r] = NoSession <=> sess'[r] = NoSession
<1>1. sess[s] \in SessionRow /\ sess \in [Session -> SessionRow \cup {NoSession}]
  BY DEF TypeInv, TypeOK
<1>2. [sess[s] EXCEPT !.state = v] \in SessionRow
  BY <1>1 DEF SessionRow
<1>3. \A x \in SessionRow : x # NoSession
  BY DEF SessionRow, NoSession, Live, Terminal
<1>4. sess' = [sess EXCEPT ![s] = [sess[s] EXCEPT !.state = v]]
  OBVIOUS
<1>5. QED
  BY <1>1, <1>2, <1>3, <1>4

LEMMA TransitionType ==
  ASSUME TypeInv, NEW s \in Session, NEW from \in Live, NEW v \in Live \cup Terminal,
         transition(s, from, v)
  PROVE  /\ sess' \in [Session -> SessionRow \cup {NoSession}]
         /\ \A r \in Session : sess[r] = NoSession <=> sess'[r] = NoSession
<1>1. CASE sess[s].state = from
  <2>1. sess[s] # NoSession
    BY <1>1 DEF NoSession, Live
  <2>2. QED
    BY <1>1, <2>1, StateType DEF transition
<1>2. CASE sess[s].state # from
  BY <1>2 DEF transition, TypeInv, TypeOK
<1>3. QED
  BY <1>1, <1>2

\* Expiry at the start of put_chunk and commit_session.
LEMMA ExpireType ==
  ASSUME TypeInv, NEW t \in Thread, expire_session_if_due(t)
  PROVE  TypeInv'
<1> DEFINE m == [loc[t] EXCEPT !.pc = "mark_select"]
<1>1. /\ loc[t] \in Local /\ Args(loc[t]) /\ loc[t].pc = "expire" /\ loc[t].pc \in MarkPc
      /\ loc[t].s \in Session
  BY OwnFacts DEF expire_session_if_due, At, Args, MarkPc
<1>2. /\ m \in Local /\ m.pc = "mark_select" /\ m.s = loc[t].s
      /\ m.ordinal = loc[t].ordinal /\ m.data = loc[t].data
      /\ m.ret = loc[t].ret /\ m.from = loc[t].from
  BY <1>1, MoveType, LabelFacts
<1>3. Set(t, m)
  BY DEF expire_session_if_due, Goto
<1>4. Args(m) /\ (Cont(m) \in CommitPc => sess[m.s] # NoSession)
  <2> HIDE DEF m
  <2> QED BY <1>1, <1>2, InsideMark DEF MarkPc
<1>5. TablesStep
  BY <1>1, TransitionType, AutocommitStep
     DEF expire_session_if_due, Live, Terminal, TypeInv, TypeOK
<1>6. QED
  <2> HIDE DEF m
  <2> QED BY <1>2, <1>3, <1>4, <1>5, ThreadStep
          DEF expire_session_if_due, Changed, TypeInv, TypeOK

LEMMA BeginType ==
  ASSUME TypeInv, NEW t \in Thread, NEW label \in Labels,
         BEGIN(t, label) \/ BeginFails(t),
         loc[t].pc \notin MarkPc, label \notin MarkPc,
         label \in PutPc => loc[t].pc \in PutPc,
         label \in CommitPc => loc[t].pc \in CommitPc,
         label \in AbortPc => loc[t].pc \in AbortPc, label # "delete_row"
  PROVE  MovesWell(t) /\ tx' \in Thread \cup {NoTx}
<1>1. CASE BEGIN(t, label)
  BY <1>1, GotoType DEF BEGIN
<1>2. CASE BeginFails(t)
  BY <1>2, DoneType DEF BeginFails, TypeInv, TypeOK
<1>3. QED
  BY <1>1, <1>2

LEMMA CreateType ==
  ASSUME TypeInv, NEW t \in Thread, create_session(t) \/ create_insert(t)
  PROVE  TypeInv'
<1>a. /\ loc[t] \in Local /\ loc[t].now \in Nat /\ clock \in Nat
      /\ changes \in BOOLEAN /\ tx \in Thread \cup {NoTx} /\ files \in SUBSET Digest
      /\ temp \in SUBSET Digest /\ up \in BOOLEAN
  BY OwnFacts, LocalFacts DEF TypeInv, TypeOK
<1>1. CASE create_session(t)
  <2> DEFINE m == [Idle EXCEPT !.now = clock, !.pc = "create"]
  <2>1. m \in Local /\ m.pc = "create"
    BY ZenonT(60), <1>a, IdleType, LabelFacts DEF Local
  <2>2. Set(t, m)
    BY <1>1 DEF create_session
  <2>3. MovesWell(t)
    <3> HIDE DEF m
    <3> QED BY <2>1, <2>2, StartType DEF MarkPc, PutPc, CommitPc, AbortPc
  <2>4. QED
    BY <1>1, <1>a, <2>3, NoTablesStep, ThreadStep DEF create_session, MovesWell
<1>2. CASE create_insert(t)
  <2>1. PICK r \in CreateRequests :
          \/ ROLLBACK
          \/ /\ \E s \in Session :
                  /\ sess[s] = NoSession
                  /\ sess' = [sess EXCEPT ![s] =
                       [state |-> "OPEN", owner |-> r.owner, name |-> r.name,
                        size |-> r.size, digest |-> r.digest,
                        expires_at |-> loc[t].now + SessionLifetime]]
             /\ UNCHANGED <<part, chunk, artifact>>
             /\ COMMIT
    BY <1>2 DEF create_insert
  <2>2. TablesStep
    <3>1. CASE ROLLBACK
      BY <3>1, RollbackStep
    <3>2. CASE ~ ROLLBACK
      <4>1. PICK s \in Session :
              /\ sess[s] = NoSession
              /\ sess' = [sess EXCEPT ![s] =
                   [state |-> "OPEN", owner |-> r.owner, name |-> r.name,
                    size |-> r.size, digest |-> r.digest,
                    expires_at |-> loc[t].now + SessionLifetime]]
        BY <2>1, <3>2
      <4>2. [state |-> "OPEN", owner |-> r.owner, name |-> r.name,
             size |-> r.size, digest |-> r.digest,
             expires_at |-> loc[t].now + SessionLifetime] \in SessionRow
        BY <1>a, RequestAssumption, ConfigAssumption DEF CreateRequest, SessionRow, Live
      <4>3. \A q \in Session : sess[q] # NoSession => sess'[q] # NoSession
        BY <4>1 DEF TypeInv, TypeOK
      <4>4. QED
        BY <2>1, <3>2, <4>1, <4>2, <4>3, CommitStep DEF TypeInv, TypeOK
    <3>3. QED
      BY <3>1, <3>2
  <2>3. tx' \in Thread \cup {NoTx}
    BY <2>1 DEF ROLLBACK, COMMIT
  <2>4. QED
    BY <1>2, <1>a, <2>2, <2>3, DoneType, ThreadStep DEF create_insert, MovesWell
<1>3. QED
  BY <1>1, <1>2

LEMMA PutType ==
  ASSUME TypeInv, NEW t \in Thread,
         \/ put_chunk(t) \/ put_reload(t) \/ write_temp_file(t) \/ rename_into_place(t)
         \/ put_begin(t) \/ put_register(t)
  PROVE  TypeInv'
<1>a. /\ loc[t] \in Local /\ Args(loc[t]) /\ clock \in Nat
      /\ changes \in BOOLEAN /\ tx \in Thread \cup {NoTx} /\ files \in SUBSET Digest
      /\ temp \in SUBSET Digest /\ up \in BOOLEAN
  BY OwnFacts DEF TypeInv, TypeOK
<1>b. loc[t].pc \in PutPc =>
        /\ loc[t].s \in Session /\ loc[t].ordinal \in Ordinal /\ loc[t].data \in Digest
        /\ loc[t].pc \notin MarkPc
  BY <1>a DEF Args, Cont, PutPc, MarkPc
<1>1. CASE put_chunk(t)
  <2>1. PICK s \in Session, o \in Ordinal, d \in Digest :
          Set(t, [Idle EXCEPT !.s = s, !.now = clock, !.ordinal = o, !.data = d,
                    !.ret = "put_reload",
                    !.pc = IF Due(s, clock) THEN "expire" ELSE "put_reload"])
    BY <1>1 DEF put_chunk
  <2> DEFINE label == IF Due(s, clock) THEN "expire" ELSE "put_reload"
             m == [Idle EXCEPT !.s = s, !.now = clock, !.ordinal = o, !.data = d,
                     !.ret = "put_reload", !.pc = label]
  <2>2. label \in {"expire", "put_reload"} /\ Set(t, m)
    BY <2>1
  <2>3. /\ m \in Local /\ m.pc = label /\ m.s = s /\ m.ordinal = o /\ m.data = d
        /\ m.ret = "put_reload"
    <3> HIDE DEF label
    <3> QED BY ZenonT(60), <1>a, <2>2, IdleType, LabelFacts, OrdinalAssumption DEF Local
  <2>4. MovesWell(t)
    <3> HIDE DEF m, label
    <3> QED BY <2>2, <2>3, StartType DEF MarkPc, Returns, CommitPc, AbortPc
  <2>5. QED
    <3> HIDE DEF m
    <3> QED BY <1>1, <1>a, <2>4, NoTablesStep, ThreadStep DEF put_chunk, MovesWell
<1>2. CASE put_reload(t)
  <2>1. MovesWell(t)
    BY <1>2, <1>b, GotoType, DoneType, LabelFacts
       DEF put_reload, At, PutPc, CommitPc, AbortPc, MarkPc
  <2>2. QED
    BY <1>2, <1>a, <2>1, NoTablesStep, ThreadStep DEF put_reload, MovesWell
<1>3. CASE write_temp_file(t)
  <2>1. MovesWell(t)
    BY <1>3, <1>b, GotoType, LabelFacts
       DEF write_temp_file, At, PutPc, CommitPc, AbortPc, MarkPc
  <2>2. temp' \in SUBSET Digest
    BY <1>3, <1>a, <1>b DEF write_temp_file, At, PutPc
  <2>3. QED
    BY <1>3, <1>a, <2>1, <2>2, NoTablesStep, ThreadStep DEF write_temp_file, MovesWell
<1>4. CASE rename_into_place(t)
  <2>1. MovesWell(t)
    BY <1>4, <1>b, GotoType, DoneType, LabelFacts
       DEF rename_into_place, At, PutPc, CommitPc, AbortPc, MarkPc
  <2>2. temp' \in SUBSET Digest /\ files' \in SUBSET Digest
    BY <1>4, <1>a, <1>b DEF rename_into_place, At, PutPc
  <2>3. QED
    BY <1>4, <1>a, <2>1, <2>2, NoTablesStep, ThreadStep DEF rename_into_place, MovesWell
<1>5. CASE put_begin(t)
  <2>1. MovesWell(t) /\ tx' \in Thread \cup {NoTx}
    BY <1>5, <1>b, BeginType, LabelFacts
       DEF put_begin, At, PutPc, CommitPc, AbortPc, MarkPc
  <2>2. QED
    BY <1>5, <1>a, <2>1, NoTablesStep, ThreadStep DEF put_begin, MovesWell
<1>6. CASE put_register(t)
  <2>1. loc[t].s \in Session /\ loc[t].ordinal \in Ordinal /\ loc[t].data \in Digest
    BY <1>6, <1>b DEF put_register, At, PutPc
  <2>2. TablesStep /\ tx' \in Thread \cup {NoTx}
    <3>1. CASE ROLLBACK
      BY <3>1, RollbackStep DEF ROLLBACK
    <3>2. CASE ~ ROLLBACK
      <4>1. [session |-> loc[t].s, ordinal |-> loc[t].ordinal, digest |-> loc[t].data]
              \in PartRow
        BY <2>1 DEF PartRow
      <4>2. part' \in SUBSET PartRow
        BY <1>6, <3>2, <4>1 DEF put_register, TypeInv, TypeOK
      <4>3. reactivated({loc[t].data}) \in [Digest -> ChunkRow]
        BY DEF reactivated, ChunkRow, TypeInv, TypeOK
      <4>4. chunk' \in [Digest -> ChunkRow]
        BY <1>6, <3>2, <4>3 DEF put_register, ChunkRow
      <4>5. QED
        BY <1>6, <3>2, <4>2, <4>4, CommitStep DEF put_register, COMMIT, TypeInv, TypeOK
    <3>3. QED
      BY <3>1, <3>2
  <2>3. QED
    BY <1>6, <1>a, <2>2, DoneType, ThreadStep DEF put_register, MovesWell
<1>7. QED
  BY <1>1, <1>2, <1>3, <1>4, <1>5, <1>6

\* A manifest that passed the validation is a sequence of chunks that are on
\* disk.
LEMMA CountType == ASSUME NEW size \in Nat PROVE chunk_count(size) \in Nat
<1>1. (size + ChunkSize - 1) % SizeModulus \in Nat
  BY SizeAssumption
<1>2. \A x \in Nat : x \div ChunkSize \in Nat
  BY SizeAssumption
<1>3. QED
  BY <1>1, <1>2 DEF chunk_count

LEMMA ManifestType ==
  ASSUME TypeInv, NEW s \in Session, sess[s] # NoSession, Complete(s)
  PROVE  ManifestOf(s) \in Seq(Digest) /\ Range(ManifestOf(s)) \subseteq files
<1> DEFINE n == chunk_count(sess[s].size)
<1>1. n \in Nat
  <2>1. sess[s] \in SessionRow
    BY DEF TypeInv, TypeOK
  <2>2. sess[s].size \in Nat
    BY <2>1, SizeAssumption DEF SessionRow
  <2>3. QED
    BY <2>2, CountType
<1>2. ASSUME NEW i \in 1 .. n
      PROVE  (CHOOSE p \in PartsOf(s) : p.ordinal = i - 1).digest \in Digest
  <2>1. i - 1 \in {p.ordinal : p \in PartsOf(s)}
    <3>1. {p.ordinal : p \in PartsOf(s)} = 0 .. n - 1
      BY DEF Complete
    <3> HIDE DEF n
    <3>2. i - 1 \in 0 .. n - 1
      BY <1>1
    <3> QED BY <3>1, <3>2
  <2>2. \E p \in PartsOf(s) : p.ordinal = i - 1
    BY <2>1
  <2>3. (CHOOSE p \in PartsOf(s) : p.ordinal = i - 1) \in PartRow
    BY <2>2 DEF PartsOf, TypeInv, TypeOK
  <2>4. QED
    BY <2>3 DEF PartRow
<1>3. ManifestOf(s) \in [1 .. n -> Digest]
  BY <1>2 DEF ManifestOf
<1>4. QED
  BY <1>1, <1>3 DEF Complete

LEMMA CommitType ==
  ASSUME TypeInv, NEW t \in Thread,
         \/ commit_session(t) \/ commit_transition(t) \/ commit_changes(t)
         \/ commit_validate(t) \/ commit_begin(t) \/ commit_publish(t) \/ commit_reopen(t)
  PROVE  TypeInv'
<1>a. /\ loc[t] \in Local /\ Args(loc[t]) /\ Commits(loc[t]) /\ clock \in Nat
      /\ changes \in BOOLEAN /\ tx \in Thread \cup {NoTx} /\ files \in SUBSET Digest
      /\ temp \in SUBSET Digest /\ up \in BOOLEAN
  BY OwnFacts DEF TypeInv, TypeOK
<1>b. loc[t].pc \in CommitPc =>
        loc[t].s \in Session /\ sess[loc[t].s] # NoSession /\ loc[t].pc \notin MarkPc
  BY <1>a DEF Args, Commits, Cont, CommitPc, MarkPc
<1>c. \A x : Changed(x) => changes' \in BOOLEAN
  BY DEF Changed
<1>1. CASE commit_session(t)
  <2>1. PICK s \in Session :
          /\ sess[s] # NoSession
          /\ Set(t, [Idle EXCEPT !.s = s, !.now = clock, !.ret = "commit_transition",
                       !.pc = IF Due(s, clock) THEN "expire" ELSE "commit_transition"])
    BY <1>1 DEF commit_session
  <2> DEFINE label == IF Due(s, clock) THEN "expire" ELSE "commit_transition"
             m == [Idle EXCEPT !.s = s, !.now = clock, !.ret = "commit_transition",
                     !.pc = label]
  <2>2. label \in {"expire", "commit_transition"} /\ Set(t, m)
    BY <2>1
  <2>3. m \in Local /\ m.pc = label /\ m.s = s /\ m.ret = "commit_transition"
    <3> HIDE DEF label
    <3> QED BY ZenonT(60), <1>a, <2>2, IdleType, LabelFacts DEF Local
  <2>4. MovesWell(t)
    <3> HIDE DEF m, label
    <3> QED BY <2>1, <2>2, <2>3, StartType DEF MarkPc, Returns, PutPc, AbortPc
  <2>5. QED
    <3> HIDE DEF m
    <3> QED BY <1>1, <1>a, <2>4, NoTablesStep, ThreadStep DEF commit_session, MovesWell
<1>2. CASE commit_transition(t)
  <2>1. MovesWell(t) /\ loc[t].s \in Session
    BY <1>2, <1>b, GotoType, LabelFacts
       DEF commit_transition, At, PutPc, CommitPc, AbortPc, MarkPc
  <2>2. TablesStep
    BY <1>2, <2>1, TransitionType, AutocommitStep
       DEF commit_transition, Live, TypeInv, TypeOK
  <2>3. QED
    BY <1>2, <1>a, <1>c, <2>1, <2>2, ThreadStep DEF commit_transition, MovesWell
<1>3. CASE commit_changes(t)
  <2>1. MovesWell(t)
    BY <1>3, <1>b, GotoType, DoneType, LabelFacts
       DEF commit_changes, At, PutPc, CommitPc, AbortPc, MarkPc
  <2>2. QED
    BY <1>3, <1>a, <2>1, NoTablesStep, ThreadStep DEF commit_changes, MovesWell
<1>4. CASE commit_validate(t)
  <2>1. loc[t].s \in Session /\ sess[loc[t].s] # NoSession
    BY <1>4, <1>b DEF commit_validate, At, CommitPc
  <2>2. MovesWell(t)
    <3>1. CASE Complete(loc[t].s)
      <4> DEFINE mf == ManifestOf(loc[t].s)
                 m == [loc[t] EXCEPT !.manifest = mf, !.pc = "commit_begin"]
      <4>1. mf \in Seq(Digest)
        BY <2>1, <3>1, ManifestType
      <4>2. m \in Local /\ m.pc = "commit_begin" /\ m.s = loc[t].s
        <5> HIDE DEF mf
        <5> QED BY <1>a, <4>1, LabelFacts DEF Local
      <4>3. Set(t, m)
        BY <1>4, <3>1 DEF commit_validate
      <4>4. QED
        <5> HIDE DEF m
        <5> QED BY <2>1, <4>2, <4>3, StartType DEF MarkPc, PutPc, AbortPc
    <3>2. CASE ~ Complete(loc[t].s)
      BY <1>4, <1>b, <3>2, GotoType, LabelFacts
         DEF commit_validate, At, PutPc, CommitPc, AbortPc, MarkPc
    <3>3. QED
      BY <3>1, <3>2
  <2>3. QED
    BY <1>4, <1>a, <2>2, NoTablesStep, ThreadStep DEF commit_validate, MovesWell
<1>5. CASE commit_begin(t)
  <2>1. MovesWell(t) /\ tx' \in Thread \cup {NoTx}
    BY <1>5, <1>b, BeginType, LabelFacts
       DEF commit_begin, At, PutPc, CommitPc, AbortPc, MarkPc
  <2>2. QED
    BY <1>5, <1>a, <2>1, NoTablesStep, ThreadStep DEF commit_begin, MovesWell
<1>6. CASE commit_publish(t)
  <2> DEFINE s == loc[t].s
             n == sess[s].name
  <2>1. s \in Session /\ sess[s] # NoSession /\ sess[s] \in SessionRow
    BY <1>6, <1>b DEF commit_publish, At, CommitPc, TypeInv, TypeOK
  <2>2. CASE artifact[n] # NoArtifact
    <3>1. TablesStep /\ tx' \in Thread \cup {NoTx}
      BY <1>6, <2>2, RollbackStep DEF commit_publish, ROLLBACK
    <3>2. MovesWell(t)
      BY <1>6, <1>b, <2>2, GotoType, LabelFacts
         DEF commit_publish, At, PutPc, CommitPc, AbortPc, MarkPc
    <3>3. QED
      BY <1>6, <1>a, <3>1, <3>2, ThreadStep DEF commit_publish, MovesWell
  <2>3. CASE artifact[n] = NoArtifact
    <3>1. [creator |-> sess[s].owner, size |-> sess[s].size,
           digest |-> sess[s].digest, manifest |-> loc[t].manifest] \in ArtifactRow
      BY <1>a, <2>1, LocalFacts DEF SessionRow, ArtifactRow
    <3>2. artifact' \in [Name -> ArtifactRow \cup {NoArtifact}]
      BY <1>6, <2>3, <3>1 DEF commit_publish, TypeInv, TypeOK
    <3>3. reactivated(Range(loc[t].manifest)) \in [Digest -> ChunkRow]
      BY DEF reactivated, ChunkRow, TypeInv, TypeOK
    <3>4. TablesStep /\ tx' \in Thread \cup {NoTx}
      BY <1>6, <2>1, <2>3, <3>2, <3>3, StateType, CommitStep
         DEF commit_publish, COMMIT, Terminal, TypeInv, TypeOK
    <3>5. QED
      BY <1>6, <1>a, <2>3, <3>4, DoneType, ThreadStep DEF commit_publish, MovesWell
  <2>4. QED
    BY <2>2, <2>3
<1>7. CASE commit_reopen(t)
  <2>1. loc[t].s \in Session
    BY <1>7, <1>b DEF commit_reopen, At, CommitPc
  <2>2. TablesStep
    BY <1>7, <2>1, TransitionType, AutocommitStep DEF commit_reopen, Live, TypeInv, TypeOK
  <2>3. QED
    BY <1>7, <1>a, <2>2, DoneType, ThreadStep DEF commit_reopen, MovesWell
<1>8. QED
  BY <1>1, <1>2, <1>3, <1>4, <1>5, <1>6, <1>7

LEMMA AbortType ==
  ASSUME TypeInv, NEW t \in Thread, Aborter(t)
  PROVE  TypeInv'
<1>a. /\ loc[t] \in Local /\ Args(loc[t]) /\ Commits(loc[t]) /\ clock \in Nat
      /\ changes \in BOOLEAN /\ tx \in Thread \cup {NoTx} /\ files \in SUBSET Digest
      /\ temp \in SUBSET Digest /\ up \in BOOLEAN
  BY OwnFacts DEF TypeInv, TypeOK
<1>b. loc[t].pc \in AbortPc =>
        loc[t].s \in Session /\ loc[t].from \in Live /\ loc[t].pc \notin MarkPc
  BY <1>a DEF Args, Cont, AbortPc, MarkPc
<1>1. CASE abort_session(t)
  <2>1. PICK s \in Session :
          /\ sess[s].state \in Live
          /\ Set(t, [Idle EXCEPT !.s = s, !.now = clock, !.from = sess[s].state,
                                 !.pc = "abort_begin"])
    BY <1>1 DEF abort_session
  <2> DEFINE v == sess[s].state
             m == [Idle EXCEPT !.s = s, !.now = clock, !.from = v, !.pc = "abort_begin"]
  <2>2. m \in Local /\ m.pc = "abort_begin" /\ m.s = s /\ m.from = v
    <3>1. v \in Live
      BY <2>1
    <3> HIDE DEF v
    <3> QED BY <1>a, <3>1, IdleType, LabelFacts DEF Local
  <2>3. MovesWell(t)
    <3>1. Set(t, m)
      BY <2>1
    <3> HIDE DEF m
    <3> QED BY <2>1, <2>2, <3>1, StartType DEF MarkPc, PutPc, CommitPc
  <2>4. QED
    BY <1>1, <1>a, <2>3, NoTablesStep, ThreadStep DEF abort_session, MovesWell
<1>2. CASE abort_begin(t)
  <2>1. MovesWell(t) /\ tx' \in Thread \cup {NoTx}
    BY <1>2, <1>b, BeginType, LabelFacts
       DEF abort_begin, At, PutPc, CommitPc, AbortPc, MarkPc
  <2>2. QED
    BY <1>2, <1>a, <2>1, NoTablesStep, ThreadStep DEF abort_begin, MovesWell
<1>3. CASE abort_transition(t)
  <2>1. loc[t].s \in Session /\ loc[t].from \in Live
    BY <1>3, <1>b DEF abort_transition, At, AbortPc
  <2>2. TablesStep
    BY <1>3, <2>1, TransitionType, AutocommitStep
       DEF abort_transition, Terminal, TypeInv, TypeOK
  <2> DEFINE m == [loc[t] EXCEPT !.pc = "mark_select", !.ret = "abort_commit"]
  <2>3. m \in Local /\ m.pc = "mark_select" /\ m.ret = "abort_commit"
    BY <1>a, LabelFacts DEF Local
  <2>4. MovesWell(t)
    <3>1. Set(t, m)
      BY <1>3 DEF abort_transition
    <3> HIDE DEF m
    <3> QED BY <2>3, <3>1, StartType DEF MarkPc, Returns, PutPc, CommitPc, AbortPc
  <2>5. QED
    BY <1>3, <1>a, <2>2, <2>4, ThreadStep DEF abort_transition, MovesWell, Changed
<1>4. CASE abort_commit(t)
  <2>1. TablesStep /\ tx' \in Thread \cup {NoTx}
    BY <1>4, CommitStep DEF abort_commit, COMMIT, TypeInv, TypeOK
  <2>2. QED
    BY <1>4, <1>a, <2>1, DoneType, ThreadStep DEF abort_commit, MovesWell
<1>5. QED
  BY <1>1, <1>2, <1>3, <1>4 DEF Aborter

LEMMA DeleteType ==
  ASSUME TypeInv, NEW t \in Thread,
         delete_artifact(t) \/ delete_row(t) \/ delete_commit(t)
  PROVE  TypeInv'
<1>a. /\ loc[t] \in Local /\ clock \in Nat
      /\ changes \in BOOLEAN /\ tx \in Thread \cup {NoTx} /\ files \in SUBSET Digest
      /\ temp \in SUBSET Digest /\ up \in BOOLEAN
  BY OwnFacts DEF TypeInv, TypeOK
<1>1. CASE delete_artifact(t)
  <2>1. PICK n \in Name :
          Set(t, [Idle EXCEPT !.now = clock, !.name = n, !.pc = "delete_row"])
    BY <1>1 DEF delete_artifact
  <2> DEFINE m == [Idle EXCEPT !.now = clock, !.name = n, !.pc = "delete_row"]
  <2>2. m \in Local /\ m.pc = "delete_row" /\ m.name = n
    BY <1>a, IdleType, LabelFacts DEF Local
  <2>3. MovesWell(t)
    <3>1. Set(t, m)
      BY <2>1
    <3> HIDE DEF m
    <3> QED BY <2>2, <3>1, StartType DEF MarkPc, PutPc, CommitPc, AbortPc
  <2>4. QED
    BY <1>1, <1>a, <2>3, NoTablesStep, ThreadStep DEF delete_artifact, MovesWell
<1>2. CASE delete_row(t)
  <2> DEFINE n == loc[t].name
             D == Range(artifact[n].manifest)
             label == IF D = {} THEN "delete_commit" ELSE "mark_next"
             m == [loc[t] EXCEPT !.todo = D, !.ret = "delete_commit", !.pc = label]
  <2>1. CASE artifact[n] = NoArtifact
    BY <1>2, <1>a, <2>1, RollbackStep, DoneType, ThreadStep
       DEF delete_row, ROLLBACK, MovesWell
  <2>2. CASE artifact[n] # NoArtifact
    <3>1. /\ artifact' = [artifact EXCEPT ![n] = NoArtifact]
          /\ UNCHANGED <<sess, part, chunk, disk, tx>>
          /\ Set(t, m)
      BY <1>2, <2>2 DEF delete_row
    <3>2. D \in SUBSET Digest
      <4>1. n \in Name
        BY <1>2, OwnFacts DEF Args, Cont, MarkPc, delete_row, At
      <4>2. artifact[n] \in ArtifactRow
        BY <2>2, <4>1 DEF TypeInv, TypeOK
      <4>3. QED
        BY <4>2 DEF ArtifactRow, Range
    <3>3. m \in Local /\ m.pc = label /\ m.ret = "delete_commit"
      <4>1. label \in Labels
        BY LabelFacts
      <4> HIDE DEF label, D
      <4> QED BY <1>a, <3>2, <4>1, LabelFacts DEF Local
    <3>4. MovesWell(t)
      <4>1. label \in {"delete_commit", "mark_next"}
        OBVIOUS
      <4> HIDE DEF m, label
      <4> QED BY <3>1, <3>3, <4>1, StartType DEF MarkPc, Returns, PutPc, CommitPc, AbortPc
    <3>5. TablesStep
      <4>1. artifact' \in [Name -> ArtifactRow \cup {NoArtifact}]
        BY <3>1 DEF TypeInv, TypeOK
      <4>2. Tables' \in DatabaseType
        BY <3>1, <4>1 DEF Tables, DatabaseType, TypeInv, TypeOK
      <4>3. QED
        BY <3>1, <4>2 DEF TablesStep, SameIds, TypeInv, TypeOK
    <3>6. QED
      <4> HIDE DEF m
      <4> QED BY <1>2, <1>a, <3>1, <3>4, <3>5, ThreadStep DEF delete_row, MovesWell
  <2>3. QED
    BY <2>1, <2>2
<1>3. CASE delete_commit(t)
  <2>1. TablesStep /\ tx' \in Thread \cup {NoTx}
    BY <1>3, CommitStep DEF delete_commit, COMMIT, TypeInv, TypeOK
  <2>2. QED
    BY <1>3, <1>a, <2>1, DoneType, ThreadStep DEF delete_commit, MovesWell
<1>4. QED
  BY <1>1, <1>2, <1>3

LEMMA GcNextType ==
  ASSUME TypeInv, NEW t \in Thread, NEW d, GcNext(t, d)
  PROVE  MovesWell(t)
<1> DEFINE rest == loc[t].todo \ {d}
           m == [loc[t] EXCEPT !.todo = rest, !.cur = Nil, !.pc = "gc_next"]
<1>1. CASE rest = {}
  BY <1>1, DoneType DEF GcNext
<1>2. CASE rest # {}
  <2>1. loc[t] \in Local /\ rest \in SUBSET Digest
    BY OwnFacts, LocalFacts
  <2>2. m \in Local /\ m.pc = "gc_next"
    <3> HIDE DEF rest
    <3> QED BY <2>1, LabelFacts DEF Local
  <2>3. Set(t, m)
    BY <1>2 DEF GcNext
  <2>4. QED
    <3> HIDE DEF m
    <3> QED BY <2>2, <2>3, StartType DEF MarkPc, PutPc, CommitPc, AbortPc
<1>3. QED
  BY <1>1, <1>2

LEMMA GcType ==
  ASSUME TypeInv, NEW t \in Thread,
         \/ collect_garbage(t) \/ gc_check(t) \/ gc_reactivate(t) \/ gc_remove(t)
         \/ gc_delete(t)
  PROVE  TypeInv'
<1>a. /\ loc[t] \in Local /\ loc[t].todo \in SUBSET Digest
      /\ changes \in BOOLEAN /\ tx \in Thread \cup {NoTx} /\ files \in SUBSET Digest
      /\ temp \in SUBSET Digest /\ up \in BOOLEAN
  BY OwnFacts, LocalFacts DEF TypeInv, TypeOK
<1>1. CASE collect_garbage(t)
  <2>1. PICK dry_run \in BOOLEAN :
          Set(t, [Idle EXCEPT !.todo = GcCandidates, !.dry = dry_run, !.pc = "gc_next"])
    BY <1>1 DEF collect_garbage
  <2> DEFINE m == [Idle EXCEPT !.todo = GcCandidates, !.dry = dry_run, !.pc = "gc_next"]
  <2>2. m \in Local /\ m.pc = "gc_next"
    <3>1. GcCandidates \in SUBSET Digest
      BY DEF GcCandidates
    <3> QED BY <3>1, IdleType, LabelFacts DEF Local
  <2>3. MovesWell(t)
    <3>1. Set(t, m)
      BY <2>1
    <3> HIDE DEF m
    <3> QED BY <2>2, <3>1, StartType DEF MarkPc, PutPc, CommitPc, AbortPc
  <2>4. QED
    BY <1>1, <1>a, <2>3, NoTablesStep, ThreadStep DEF collect_garbage, MovesWell
<1>2. CASE gc_check(t)
  <2>1. PICK d \in loc[t].todo :
          \/ GcNext(t, d)
          \/ Set(t, [loc[t] EXCEPT !.cur = d,
                       !.pc = IF StillReferenced(d) THEN "gc_reactivate" ELSE "gc_remove"])
    BY <1>2 DEF gc_check
  <2>2. MovesWell(t)
    <3>1. CASE GcNext(t, d)
      BY <3>1, GcNextType
    <3>2. CASE ~ GcNext(t, d)
      <4> DEFINE label == IF StillReferenced(d) THEN "gc_reactivate" ELSE "gc_remove"
                 m == [loc[t] EXCEPT !.cur = d, !.pc = label]
      <4>1. label \in {"gc_reactivate", "gc_remove"} /\ Set(t, m)
        BY <2>1, <3>2
      <4>2. m \in Local /\ m.pc = label
        <5> HIDE DEF label
        <5> QED BY <1>a, <4>1, LabelFacts DEF Local
      <4>3. QED
        <5> HIDE DEF m, label
        <5> QED BY <4>1, <4>2, StartType DEF MarkPc, PutPc, CommitPc, AbortPc
    <3>3. QED
      BY <3>1, <3>2
  <2>3. QED
    BY <1>2, <1>a, <2>2, NoTablesStep, ThreadStep DEF gc_check, MovesWell
<1>3. CASE gc_reactivate(t)
  <2>1. chunk' \in [Digest -> ChunkRow]
    BY <1>3 DEF gc_reactivate, TypeInv, TypeOK, ChunkRow
  <2>2. TablesStep
    BY <1>3, <2>1, AutocommitStep DEF gc_reactivate, TypeInv, TypeOK
  <2>3. QED
    BY <1>3, <1>a, <2>2, GcNextType, ThreadStep DEF gc_reactivate, MovesWell
<1>4. CASE gc_remove(t)
  <2>1. MovesWell(t)
    BY <1>4, GotoType, LabelFacts DEF gc_remove, At, PutPc, CommitPc, AbortPc, MarkPc
  <2>2. files' \in SUBSET Digest
    BY <1>4, <1>a DEF gc_remove
  <2>3. QED
    BY <1>4, <1>a, <2>1, <2>2, NoTablesStep, ThreadStep DEF gc_remove, MovesWell
<1>5. CASE gc_delete(t)
  <2>1. chunk' \in [Digest -> ChunkRow]
    BY <1>5 DEF gc_delete, TypeInv, TypeOK, ChunkRow
  <2>2. TablesStep
    BY <1>5, <2>1, AutocommitStep DEF gc_delete, TypeInv, TypeOK
  <2>3. QED
    BY <1>5, <1>a, <2>2, GcNextType, ThreadStep DEF gc_delete, MovesWell
<1>6. QED
  BY <1>1, <1>2, <1>3, <1>4, <1>5

\* The updates of many sessions' states at once.
LEMMA StatesType ==
  ASSUME TypeInv, NEW S \in SUBSET Session, \A s \in S : sess[s] # NoSession,
         NEW v \in Live \cup Terminal,
         sess' = [s \in Session |->
                    IF s \in S THEN [sess[s] EXCEPT !.state = v] ELSE sess[s]]
  PROVE  /\ sess' \in [Session -> SessionRow \cup {NoSession}]
         /\ \A r \in Session : sess[r] = NoSession <=> sess'[r] = NoSession
<1>1. \A s \in S : [sess[s] EXCEPT !.state = v] \in SessionRow
  <2> TAKE s \in S
  <2>1. sess[s] \in SessionRow
    BY DEF TypeInv, TypeOK
  <2>2. QED
    BY <2>1 DEF SessionRow
<1>2. \A x \in SessionRow : x # NoSession
  BY DEF SessionRow, NoSession, Live, Terminal
<1>3. QED
  BY <1>1, <1>2 DEF TypeInv, TypeOK

LEMMA MaintType ==
  ASSUME TypeInv, NEW t \in Thread, t = "maint", Maintenance
  PROVE  TypeInv'
<1>a. /\ loc[t] \in Local /\ loc[t].sessions \in SUBSET Session /\ clock \in Nat
      /\ changes \in BOOLEAN /\ tx \in Thread \cup {NoTx} /\ files \in SUBSET Digest
      /\ temp \in SUBSET Digest /\ up \in BOOLEAN
  BY OwnFacts, LocalFacts DEF TypeInv, TypeOK
<1>b. \A x : Changed(x) => changes' \in BOOLEAN
  BY DEF Changed
<1>1. CASE run_maintenance(t)
  <2> DEFINE m == [Idle EXCEPT !.now = clock, !.pc = "maint_temp"]
  <2>1. m \in Local /\ m.pc = "maint_temp"
    BY <1>a, IdleType, LabelFacts DEF Local
  <2>2. MovesWell(t)
    <3>1. Set(t, m)
      BY <1>1 DEF run_maintenance
    <3> HIDE DEF m
    <3> QED BY <2>1, <3>1, StartType DEF MarkPc, PutPc, CommitPc, AbortPc
  <2>3. QED
    BY <1>1, <1>a, <2>2, NoTablesStep, ThreadStep DEF run_maintenance, MovesWell
<1>2. CASE cleanup_temp_files(t)
  <2>1. MovesWell(t)
    BY <1>2, GotoType, LabelFacts
       DEF cleanup_temp_files, At, PutPc, CommitPc, AbortPc, MarkPc
  <2>2. temp' \in SUBSET Digest
    BY <1>2 DEF cleanup_temp_files
  <2>3. QED
    BY <1>2, <1>a, <2>1, <2>2, NoTablesStep, ThreadStep DEF cleanup_temp_files, MovesWell
<1>3. CASE maint_expire(t)
  <2> DEFINE due == {s \in Session : Due(s, loc[t].now)}
  <2>1. \A s \in due : sess[s] # NoSession
    BY DEF Due, NoSession
  <2>2. TablesStep
    BY <1>3, <2>1, StatesType, AutocommitStep DEF maint_expire, Terminal, TypeInv, TypeOK
  <2>3. MovesWell(t)
    BY <1>3, GotoType, LabelFacts DEF maint_expire, At, PutPc, CommitPc, AbortPc, MarkPc
  <2>4. QED
    BY <1>3, <1>a, <1>b, <2>2, <2>3, ThreadStep DEF maint_expire, MovesWell
<1>4. CASE maint_rollback(t)
  <2> DEFINE committing == {s \in Session : sess[s].state = "COMMITTING"}
  <2>1. \A s \in committing : sess[s] # NoSession
    BY DEF NoSession
  <2>2. TablesStep
    BY <1>4, <2>1, StatesType, AutocommitStep DEF maint_rollback, Live, TypeInv, TypeOK
  <2>3. MovesWell(t)
    BY <1>4, GotoType, LabelFacts DEF maint_rollback, At, PutPc, CommitPc, AbortPc, MarkPc
  <2>4. QED
    BY <1>4, <1>a, <1>b, <2>2, <2>3, ThreadStep DEF maint_rollback, MovesWell
<1>5. CASE maint_select(t)
  <2> DEFINE ended == {s \in Session : sess[s].state \in {"EXPIRED", "ABORTED"}}
             m == [loc[t] EXCEPT !.pc = "maint_next", !.sessions = ended]
  <2>1. m \in Local /\ m.pc = "maint_next"
    <3>1. ended \in SUBSET Session
      OBVIOUS
    <3> HIDE DEF ended
    <3> QED BY <1>a, <3>1, LabelFacts DEF Local
  <2>2. MovesWell(t)
    <3>1. Set(t, m)
      BY <1>5 DEF maint_select
    <3> HIDE DEF m
    <3> QED BY <2>1, <3>1, StartType DEF MarkPc, PutPc, CommitPc, AbortPc
  <2>3. QED
    BY <1>5, <1>a, <2>2, NoTablesStep, ThreadStep DEF maint_select, MovesWell
<1>6. CASE maint_next(t)
  <2>1. MovesWell(t)
    <3>1. CASE Done(t)
      BY <3>1, DoneType
    <3>2. CASE ~ Done(t)
      <4>1. PICK s \in loc[t].sessions :
              Set(t, [loc[t] EXCEPT !.s = s, !.sessions = @ \ {s}, !.ret = "maint_next",
                                    !.pc = "mark_select"])
        BY <1>6, <3>2 DEF maint_next
      <4> DEFINE rest == loc[t].sessions \ {s}
                 m == [loc[t] EXCEPT !.s = s, !.sessions = rest, !.ret = "maint_next",
                                     !.pc = "mark_select"]
      <4>2. m \in Local /\ m.pc = "mark_select" /\ m.ret = "maint_next"
        <5>1. rest \in SUBSET Session /\ s \in Session
          BY <1>a
        <5> HIDE DEF rest
        <5> QED BY <1>a, <5>1, LabelFacts DEF Local
      <4>3. Set(t, m)
        BY <4>1
      <4>4. QED
        <5> HIDE DEF m
        <5> QED BY <4>2, <4>3, StartType DEF MarkPc, Returns, PutPc, CommitPc, AbortPc
    <3>3. QED
      BY <3>1, <3>2
  <2>2. QED
    BY <1>6, <1>a, <2>1, NoTablesStep, ThreadStep DEF maint_next, MovesWell
<1>7. QED
  BY <1>1, <1>2, <1>3, <1>4, <1>5, <1>6 DEF Maintenance

LEMMA EnvType ==
  ASSUME TypeInv, Tick \/ Crash
  PROVE  TypeInv'
<1>1. CASE Tick
  BY <1>1 DEF Tick, TypeInv, TypeOK, LocalsOK, Commits, SameIds, Args, Cont
<1>2. CASE Crash
  <2> DEFINE m == [Idle EXCEPT !.now = clock, !.pc = "maint_temp"]
  <2>1. m \in Local /\ m.pc = "maint_temp"
    BY IdleType, LabelFacts DEF Local, TypeInv, TypeOK
  <2>2. Args(m) /\ Cont(m) = "maint_temp"
    <3> HIDE DEF m
    <3> QED BY <2>1 DEF Args, Cont, MarkPc, PutPc, CommitPc, AbortPc
  <2>3. loc' = [u \in Thread |-> IF u = "maint" THEN m ELSE Idle]
    BY <1>2 DEF Crash
  <2>4. TypeOK'
    <3> HIDE DEF m
    <3>1. loc' \in [Thread -> Local]
      BY <2>1, <2>3, IdleType
    <3>2. /\ sess' \in [Session -> SessionRow \cup {NoSession}]
          /\ part' \in SUBSET PartRow
          /\ chunk' \in [Digest -> ChunkRow]
          /\ artifact' \in [Name -> ArtifactRow \cup {NoArtifact}]
      BY <1>2, TablesFacts DEF Crash, TypeInv
    <3>3. crashes' \in Nat /\ clock' \in Nat
      BY <1>2 DEF Crash, TypeInv, TypeOK
    <3>4. QED
      BY <1>2, <3>1, <3>2, <3>3 DEF Crash, TypeInv, TypeOK
  <2>5. SameIds'
    BY <1>2 DEF Crash, TypeInv, SameIds
  <2>6. LocalsOK'
    <3> HIDE DEF m
    <3> QED BY <2>2, <2>3, IdleType DEF LocalsOK, Commits, CommitPc
  <2>7. QED
    BY <2>4, <2>5, <2>6 DEF TypeInv
<1>3. QED
  BY <1>1, <1>2

LEMMA InitType == Init => TypeInv
<1> SUFFICES ASSUME Init PROVE TypeInv
  OBVIOUS
<1>1. disk \in DatabaseType
  BY DEF Init, DatabaseType, Tables, ChunkRow
<1>2. loc \in [Thread -> Local]
  BY IdleType DEF Init
<1>3. TypeOK
  BY <1>1, <1>2 DEF Init, TypeOK, Thread, ChunkRow, NoTx
<1>4. LocalsOK
  BY IdleType DEF Init, LocalsOK, Commits, CommitPc
<1>5. SameIds
  BY DEF Init, SameIds, Tables
<1>6. QED
  BY <1>3, <1>4, <1>5 DEF TypeInv

LEMMA NextType == TypeInv /\ [Next]_vars => TypeInv'
<1> SUFFICES ASSUME TypeInv, [Next]_vars PROVE TypeInv'
  OBVIOUS
<1>a. "worker" \in Thread /\ "admin" \in Thread /\ "maint" \in Thread
  BY DEF Thread
<1>1. CASE Worker
  BY <1>1, <1>a, CreateType, PutType, CommitType, DeleteType, GcType, ExpireType
     DEF Worker
<1>2. CASE \E t \in {"worker", "admin"} : Aborter(t)
  BY <1>2, <1>a, AbortType
<1>3. CASE Maintenance
  BY <1>3, <1>a, MaintType
<1>4. CASE \E t \in Thread : mark_unreferenced_parts(t)
  BY <1>4, MarkType
<1>5. CASE Tick \/ Crash
  BY <1>5, EnvType
<1>6. CASE UNCHANGED vars
  BY <1>6 DEF vars, TypeInv, TypeOK, LocalsOK, Commits, SameIds, Args, Cont
<1>7. QED
  BY <1>1, <1>2, <1>3, <1>4, <1>5, <1>6 DEF Next

\* Every row of every table, on the connection and on disk, every chunk file
\* and every local variable of the three threads keeps its type, whatever the
\* interleaving of create_session, put_chunk, commit_session, abort_session,
\* delete_artifact, collect_garbage, run_maintenance and crashes.
THEOREM TypeCorrect == Spec => []TypeOK
<1>1. TypeInv => TypeOK
  BY DEF TypeInv
<1>2. QED
  BY <1>1, InitType, NextType, PTL DEF Spec

-----------------------------------------------------------------------------
(* Safety.                                                                 *)

Safe == TxOwner /\ TxViews /\ PublishReady /\ GcTarget /\ PublishedIntact

\* Positions where the worker relies on what it found earlier.
Relies == {"commit_begin", "commit_publish", "gc_remove"}

LEMMA ThreadFacts ==
  /\ "worker" \in Thread /\ "admin" \in Thread /\ "maint" \in Thread
  /\ NoTx \notin Thread
BY DEF Thread, NoTx

\* How a step of thread t that leaves it at m may treat the transaction.
TxStep(t, m) ==
  \/ tx' = tx /\ (Cont(m) \in TxPc <=> Cont(loc[t]) \in TxPc)
  \/ tx = NoTx /\ tx' = t /\ Cont(m) \in TxPc
  \/ tx' = NoTx /\ Cont(loc[t]) \in TxPc /\ Cont(m) \notin TxPc

LEMMA OwnerStep ==
  ASSUME TypeInv, TxOwner, NEW t \in Thread, NEW m, Set(t, m), TxStep(t, m)
  PROVE  TxOwner'
<1> SUFFICES ASSUME NEW u \in Thread PROVE (tx = u <=> Cont(loc[u]) \in TxPc)'
  BY DEF TxOwner
<1>1. /\ loc'[t] = m
      /\ u # t => loc'[u] = loc[u]
  BY DEF Set, TypeInv, TypeOK
<1>2. /\ tx = u <=> Cont(loc[u]) \in TxPc
      /\ tx = t <=> Cont(loc[t]) \in TxPc
  BY DEF TxOwner
<1>3. Cont(loc[u])' = Cont(loc'[u])
  BY DEF Cont
<1>4. CASE u = t
  BY <1>1, <1>2, <1>3, <1>4, ThreadFacts DEF TxStep
<1>5. CASE u # t
  BY <1>1, <1>2, <1>3, <1>5, ThreadFacts DEF TxStep
<1>6. QED
  BY <1>4, <1>5

\* Artifacts stay intact when none is added and no file goes.
LEMMA IntactStep ==
  ASSUME PublishedIntact, files \subseteq files',
         artifact' \in {artifact, disk.artifact},
         disk'.artifact \in {artifact, disk.artifact}
  PROVE  PublishedIntact'
BY DEF PublishedIntact, Intact

\* What is left to look at in a step of thread t.
LEMMA SafeStep ==
  ASSUME TypeInv, Safe, NEW t \in Thread, NEW m \in Local, Set(t, m), TxStep(t, m),
         tx' # "worker" => disk'.artifact = artifact',
         PublishedIntact',
         t # "worker" =>
           /\ artifact' = artifact
           /\ files \subseteq files'
           /\ \A d : InLiveSession(d)' => InLiveSession(d),
         t = "worker" =>
           /\ m.pc \in {"commit_begin", "commit_publish"} => Range(m.manifest) \subseteq files'
           /\ m.pc = "gc_remove" => ~ InManifest(m.cur)' /\ ~ InLiveSession(m.cur)'
  PROVE  Safe'
<1>1. TxOwner'
  BY OwnerStep DEF Safe
<1>2. TxViews'
  BY DEF TxViews
<1>3. PublishReady' /\ GcTarget'
  <2>1. CASE t = "worker"
    <3>1. loc'["worker"] = m
      BY <2>1 DEF Set, TypeInv, TypeOK
    <3>2. QED
      BY <2>1, <3>1 DEF PublishReady, GcTarget, chunk_referenced, InManifest, InLiveSession
  <2>2. CASE t # "worker"
    <3>1. loc'["worker"] = loc["worker"]
      BY <2>2, ThreadFacts DEF Set, TypeInv, TypeOK
    <3>2. PublishReady'
      BY <2>2, <3>1 DEF PublishReady, Safe
    <3>3. GcTarget'
      BY <2>2, <3>1 DEF GcTarget, Safe, chunk_referenced, InManifest, InLiveSession
    <3>4. QED
      BY <3>2, <3>3
  <2>3. QED
    BY <2>1, <2>2
<1>4. QED
  BY <1>1, <1>2, <1>3 DEF Safe

\* A step of any thread that reads, or writes rows other than artifacts.
LEMMA QuietStep ==
  ASSUME TypeInv, Safe, NEW t \in Thread, NEW m \in Local, Set(t, m), TxStep(t, m),
         UNCHANGED artifact, files \subseteq files',
         \/ UNCHANGED disk /\ (UNCHANGED tx \/ tx = NoTx)
         \/ Autocommit /\ UNCHANGED tx
         \/ COMMIT,
         t # "worker" => \A d : InLiveSession(d)' => InLiveSession(d),
         t = "worker" => m.pc \notin Relies
  PROVE  Safe'
<1>1. Tables'.artifact = artifact'
  BY DEF Tables
<1>2. disk'.artifact \in {artifact, disk.artifact}
  BY <1>1 DEF Autocommit, COMMIT
<1>3. tx' # "worker" => disk'.artifact = artifact'
  <2>1. CASE UNCHANGED disk /\ (UNCHANGED tx \/ tx = NoTx)
    BY <2>1 DEF Safe, TxViews, NoTx
  <2>2. CASE Autocommit /\ UNCHANGED tx
    BY <1>1, <2>2 DEF Autocommit, Safe, TxViews
  <2>3. CASE COMMIT
    BY <1>1, <2>3 DEF COMMIT
  <2>4. QED
    BY <2>1, <2>2, <2>3
<1>4. PublishedIntact'
  BY <1>2, IntactStep DEF Safe
<1>5. QED
  BY <1>3, <1>4, SafeStep DEF Relies

\* The same for the worker alone, for which only its new position matters.
LEMMA WorkerStep ==
  ASSUME TypeInv, Safe, NEW m \in Local, Set("worker", m), TxStep("worker", m),
         UNCHANGED artifact, files \subseteq files',
         \/ UNCHANGED disk /\ (UNCHANGED tx \/ tx = NoTx)
         \/ Autocommit /\ UNCHANGED tx
         \/ COMMIT,
         m.pc \notin Relies
  PROVE  Safe'
BY QuietStep, ThreadFacts

\* A step of the worker that ends its transaction with a ROLLBACK.
LEMMA UndoStep ==
  ASSUME TypeInv, Safe, NEW m \in Local, Set("worker", m), ROLLBACK, UNCHANGED files,
         Cont(loc["worker"]) \in TxPc, Cont(m) \notin TxPc, m.pc \notin Relies
  PROVE  Safe'
<1>1. PublishedIntact'
  BY IntactStep DEF Safe, ROLLBACK
<1>2. QED
  BY <1>1, SafeStep, ThreadFacts DEF ROLLBACK, TxStep, Relies

LEMMA DoneMove ==
  ASSUME NEW t \in Thread, Done(t)
  PROVE  /\ Set(t, Idle) /\ Idle \in Local /\ Cont(Idle) \notin TxPc
         /\ Idle.pc \notin Relies
BY IdleType DEF Done, Idle, TxPc, Relies

LEMMA GotoMove ==
  ASSUME TypeInv, NEW t \in Thread, NEW label \in Labels, Goto(t, label), label \notin MarkPc
  PROVE  \E m \in Local : /\ Set(t, m) /\ Cont(m) = label /\ m.pc = label
                          /\ m.manifest = loc[t].manifest /\ m.cur = loc[t].cur
<1> DEFINE m == [loc[t] EXCEPT !.pc = label]
<1>1. m \in Local /\ m.pc = label /\ m.manifest = loc[t].manifest /\ m.cur = loc[t].cur
  BY OwnFacts, MoveType
<1>2. Set(t, m)
  BY DEF Goto
<1>3. QED
  <2> HIDE DEF m
  <2> QED BY <1>1, <1>2 DEF Cont

LEMMA PutSafe ==
  ASSUME TypeInv, Safe,
         \/ put_reload("worker") \/ write_temp_file("worker") \/ rename_into_place("worker")
         \/ put_begin("worker") \/ put_register("worker")
  PROVE  Safe'
<1>1. CASE put_reload("worker")
  <2>1. Cont(loc["worker"]) = "put_reload"
    BY <1>1 DEF put_reload, At, Cont, MarkPc
  <2>2. PICK m \in Local : Set("worker", m) /\ Cont(m) \notin TxPc /\ m.pc \notin Relies
    BY <1>1, GotoMove, DoneMove, LabelFacts, ThreadFacts DEF put_reload, MarkPc, TxPc, Relies
  <2>3. TxStep("worker", m)
    BY <1>1, <2>1, <2>2 DEF put_reload, TxStep, TxPc
  <2>4. QED
    BY <1>1, <2>2, <2>3, WorkerStep DEF put_reload
<1>2. CASE write_temp_file("worker")
  <2>1. Cont(loc["worker"]) = "put_store"
    BY <1>2 DEF write_temp_file, At, Cont, MarkPc
  <2>2. PICK m \in Local : Set("worker", m) /\ Cont(m) \notin TxPc /\ m.pc \notin Relies
    BY <1>2, GotoMove, LabelFacts, ThreadFacts DEF write_temp_file, MarkPc, TxPc, Relies
  <2>3. TxStep("worker", m)
    BY <1>2, <2>1, <2>2 DEF write_temp_file, TxStep, TxPc
  <2>4. QED
    BY <1>2, <2>2, <2>3, WorkerStep DEF write_temp_file
<1>3. CASE rename_into_place("worker")
  <2>1. Cont(loc["worker"]) = "put_rename"
    BY <1>3 DEF rename_into_place, At, Cont, MarkPc
  <2>2. PICK m \in Local : Set("worker", m) /\ Cont(m) \notin TxPc /\ m.pc \notin Relies
    BY <1>3, GotoMove, DoneMove, LabelFacts, ThreadFacts DEF rename_into_place, MarkPc, TxPc, Relies
  <2>3. files \subseteq files'
    BY <1>3 DEF rename_into_place
  <2>4. TxStep("worker", m)
    BY <1>3, <2>1, <2>2 DEF rename_into_place, TxStep, TxPc
  <2>5. QED
    BY <1>3, <2>2, <2>3, <2>4, WorkerStep DEF rename_into_place
<1>4. CASE put_begin("worker")
  <2>1. Cont(loc["worker"]) = "put_begin"
    BY <1>4 DEF put_begin, At, Cont, MarkPc
  <2>2. CASE BEGIN("worker", "put_register")
    <3>1. PICK m \in Local : Set("worker", m) /\ Cont(m) = "put_register" /\ m.pc \notin Relies
      BY <2>2, GotoMove, LabelFacts, ThreadFacts DEF BEGIN, MarkPc, Relies
    <3>2. TxStep("worker", m)
      BY <2>2, <3>1 DEF BEGIN, TxStep, TxPc
    <3>3. QED
      BY <1>4, <2>2, <3>1, <3>2, WorkerStep DEF put_begin, BEGIN
  <2>3. CASE BeginFails("worker")
    <3>1. TxStep("worker", Idle)
      BY <2>1, <2>3, DoneMove, ThreadFacts DEF BeginFails, TxStep, TxPc
    <3>2. QED
      BY <1>4, <2>3, <3>1, DoneMove, ThreadFacts, WorkerStep DEF put_begin, BeginFails
  <2>4. QED
    BY <1>4, <2>2, <2>3 DEF put_begin
<1>5. CASE put_register("worker")
  <2>1. Cont(loc["worker"]) = "put_register"
    BY <1>5 DEF put_register, At, Cont, MarkPc
  <2>2. CASE ROLLBACK
    BY <1>5, <2>1, <2>2, DoneMove, ThreadFacts, UndoStep DEF put_register, TxPc
  <2>3. CASE ~ ROLLBACK
    <3>1. COMMIT /\ UNCHANGED artifact
      BY <1>5, <2>3 DEF put_register
    <3>2. TxStep("worker", Idle)
      BY <1>5, <2>1, <3>1, DoneMove, ThreadFacts DEF put_register, COMMIT, TxStep, TxPc
    <3>3. QED
      BY <1>5, <3>1, <3>2, DoneMove, ThreadFacts, WorkerStep DEF put_register
  <2>4. QED
    BY <2>2, <2>3
<1>6. QED
  BY <1>1, <1>2, <1>3, <1>4, <1>5

\* A session found due: the conditional update, then its parts.
LEMMA ExpireSafe ==
  ASSUME TypeInv, Safe, expire_session_if_due("worker")
  PROVE  Safe'
<1> DEFINE m == [loc["worker"] EXCEPT !.pc = "mark_select"]
<1>1. m \in Local /\ m.pc = "mark_select" /\ m.ret = loc["worker"].ret
  BY OwnFacts, ThreadFacts, MoveType, LabelFacts
<1>2. /\ Set("worker", m) /\ Autocommit /\ UNCHANGED <<artifact, tx, files>>
      /\ loc["worker"].pc = "expire"
  BY DEF expire_session_if_due, Goto, At
<1>3. QED
  <2> HIDE DEF m
  <2>1. Cont(m) = Cont(loc["worker"])
    BY <1>1, <1>2 DEF Cont, MarkPc
  <2>2. TxStep("worker", m)
    BY <1>2, <2>1 DEF TxStep
  <2>3. QED
    BY <1>1, <1>2, <2>2, WorkerStep DEF Relies

LEMMA StartSafe ==
  ASSUME TypeInv, Safe,
         \/ create_session("worker") \/ put_chunk("worker") \/ commit_session("worker")
         \/ delete_artifact("worker") \/ collect_garbage("worker")
  PROVE  Safe'
<1>a. At("worker", "idle") /\ Cont(loc["worker"]) = "idle" /\ clock \in Nat
  BY DEF create_session, put_chunk, commit_session, delete_artifact, collect_garbage,
         MayStart, At, Cont, MarkPc, TypeInv, TypeOK
<1>1. CASE create_session("worker")
  <2> DEFINE m == [Idle EXCEPT !.now = clock, !.pc = "create"]
  <2>1. m \in Local /\ m.pc = "create"
    BY <1>a, IdleType, LabelFacts DEF Local
  <2>2. Set("worker", m)
    BY <1>1 DEF create_session
  <2>3. QED
    <3> HIDE DEF m
    <3>1. TxStep("worker", m)
      BY <1>1, <2>1 DEF create_session, TxStep, TxPc, Cont, MarkPc
    <3>2. QED
      BY <1>1, <2>1, <2>2, <3>1, WorkerStep DEF create_session, Relies
<1>b. ASSUME NEW m \in Local, Set("worker", m), UNCHANGED <<artifact, disk, tx, files>>,
             m.ret \in {"put_reload", "commit_transition"}, m.pc \in {"expire", m.ret}
      PROVE  Safe'
  <2>1. Cont(m) \notin TxPc /\ m.pc \notin Relies
    BY <1>b DEF Cont, MarkPc, TxPc, Relies
  <2>2. TxStep("worker", m)
    BY <1>a, <1>b, <2>1 DEF TxStep, TxPc
  <2>3. QED
    BY <1>b, <2>1, <2>2, WorkerStep
<1>2. CASE put_chunk("worker")
  <2>1. PICK s \in Session, o \in Ordinal, d \in Digest :
          Set("worker", [Idle EXCEPT !.s = s, !.now = clock, !.ordinal = o, !.data = d,
                           !.ret = "put_reload",
                           !.pc = IF Due(s, clock) THEN "expire" ELSE "put_reload"])
    BY <1>2 DEF put_chunk
  <2> DEFINE label == IF Due(s, clock) THEN "expire" ELSE "put_reload"
             m == [Idle EXCEPT !.s = s, !.now = clock, !.ordinal = o, !.data = d,
                               !.ret = "put_reload", !.pc = label]
  <2>2. label \in {"expire", "put_reload"}
    OBVIOUS
  <2>3. m \in Local /\ m.pc = label /\ m.ret = "put_reload"
    <3>1. label \in Labels
      BY <2>2, LabelFacts
    <3> HIDE DEF label
    <3> QED BY <1>a, <3>1, IdleType, OrdinalAssumption, LabelFacts DEF Local
  <2>4. Set("worker", m)
    BY <2>1
  <2>5. QED
    <3> HIDE DEF m, label
    <3> QED BY <1>2, <1>b, <2>2, <2>3, <2>4 DEF put_chunk
<1>3. CASE commit_session("worker")
  <2>1. PICK s \in Session :
          Set("worker", [Idle EXCEPT !.s = s, !.now = clock, !.ret = "commit_transition",
                           !.pc = IF Due(s, clock) THEN "expire" ELSE "commit_transition"])
    BY <1>3 DEF commit_session
  <2> DEFINE label == IF Due(s, clock) THEN "expire" ELSE "commit_transition"
             m == [Idle EXCEPT !.s = s, !.now = clock, !.ret = "commit_transition",
                               !.pc = label]
  <2>2. label \in {"expire", "commit_transition"}
    OBVIOUS
  <2>3. m \in Local /\ m.pc = label /\ m.ret = "commit_transition"
    <3>1. label \in Labels
      BY <2>2, LabelFacts
    <3> HIDE DEF label
    <3> QED BY <1>a, <3>1, IdleType, LabelFacts DEF Local
  <2>4. Set("worker", m)
    BY <2>1
  <2>5. QED
    <3> HIDE DEF m, label
    <3> QED BY <1>3, <1>b, <2>2, <2>3, <2>4 DEF commit_session
<1>4. CASE delete_artifact("worker")
  <2>1. PICK n \in Name :
          /\ tx = NoTx
          /\ tx' = "worker"
          /\ Set("worker", [Idle EXCEPT !.now = clock, !.name = n, !.pc = "delete_row"])
    BY <1>4 DEF delete_artifact
  <2> DEFINE m == [Idle EXCEPT !.now = clock, !.name = n, !.pc = "delete_row"]
  <2>2. m \in Local /\ m.pc = "delete_row"
    BY <1>a, IdleType, LabelFacts DEF Local
  <2>3. Set("worker", m)
    BY <2>1
  <2>4. QED
    <3> HIDE DEF m
    <3>1. TxStep("worker", m)
      BY <2>1, <2>2 DEF TxStep, TxPc, Cont, MarkPc
    <3>2. QED
      BY <1>4, <2>1, <2>2, <2>3, <3>1, WorkerStep DEF delete_artifact, Relies
<1>5. CASE collect_garbage("worker")
  <2>1. PICK dry_run \in BOOLEAN :
          Set("worker", [Idle EXCEPT !.todo = GcCandidates, !.dry = dry_run, !.pc = "gc_next"])
    BY <1>5 DEF collect_garbage
  <2> DEFINE m == [Idle EXCEPT !.todo = GcCandidates, !.dry = dry_run, !.pc = "gc_next"]
  <2>2. m \in Local /\ m.pc = "gc_next"
    <3>1. GcCandidates \in SUBSET Digest
      BY DEF GcCandidates
    <3> QED BY <3>1, IdleType, LabelFacts DEF Local
  <2>3. Set("worker", m)
    BY <2>1
  <2>4. QED
    <3> HIDE DEF m
    <3>1. TxStep("worker", m)
      BY <1>5, <1>a, <2>2 DEF collect_garbage, TxStep, TxPc, Cont, MarkPc
    <3>2. QED
      BY <1>5, <2>2, <2>3, <3>1, WorkerStep DEF collect_garbage, Relies
<1>6. QED
  BY <1>1, <1>2, <1>3, <1>4, <1>5

LEMMA CreateSafe ==
  ASSUME TypeInv, Safe, create_insert("worker")
  PROVE  Safe'
<1>1. Cont(loc["worker"]) = "create" /\ Done("worker") /\ UNCHANGED files
  BY DEF create_insert, At, Cont, MarkPc
<1>2. ROLLBACK \/ (COMMIT /\ UNCHANGED artifact)
  BY DEF create_insert
<1>3. CASE ROLLBACK
  BY <1>1, <1>3, DoneMove, ThreadFacts, UndoStep DEF TxPc
<1>4. CASE COMMIT /\ UNCHANGED artifact
  <2>1. TxStep("worker", Idle)
    BY <1>1, <1>4, DoneMove, ThreadFacts DEF COMMIT, TxStep, TxPc
  <2>2. QED
    BY <1>1, <1>4, <2>1, DoneMove, ThreadFacts, WorkerStep
<1>5. QED
  BY <1>2, <1>3, <1>4

LEMMA CommitSafe ==
  ASSUME TypeInv, Safe,
         \/ commit_transition("worker") \/ commit_changes("worker")
         \/ commit_validate("worker") \/ commit_begin("worker")
         \/ commit_publish("worker") \/ commit_reopen("worker")
  PROVE  Safe'
<1> DEFINE w == "worker"
<1>a. /\ loc[w] \in Local /\ w \in Thread
      /\ loc[w].pc \in CommitPc => loc[w].s \in Session /\ sess[loc[w].s] # NoSession
  BY OwnFacts, ThreadFacts DEF Args, Commits, Cont, CommitPc, MarkPc
<1>1. CASE commit_transition(w)
  <2>1. Cont(loc[w]) = "commit_transition"
    BY <1>1 DEF commit_transition, At, Cont, MarkPc
  <2>2. PICK m \in Local : Set(w, m) /\ Cont(m) = "commit_changes" /\ m.pc = "commit_changes"
    BY <1>1, GotoMove, LabelFacts, ThreadFacts DEF commit_transition, MarkPc
  <2>3. TxStep(w, m)
    BY <1>1, <2>1, <2>2 DEF commit_transition, TxStep, TxPc
  <2>4. QED
    BY <1>1, <2>2, <2>3, WorkerStep DEF commit_transition, Relies
<1>2. CASE commit_changes(w)
  <2>1. Cont(loc[w]) = "commit_changes"
    BY <1>2 DEF commit_changes, At, Cont, MarkPc
  <2>2. PICK m \in Local : Set(w, m) /\ Cont(m) \notin TxPc /\ m.pc \notin Relies
    BY <1>2, GotoMove, DoneMove, LabelFacts, ThreadFacts
       DEF commit_changes, MarkPc, TxPc, Relies
  <2>3. TxStep(w, m)
    BY <1>2, <2>1, <2>2 DEF commit_changes, TxStep, TxPc
  <2>4. QED
    BY <1>2, <2>2, <2>3, WorkerStep DEF commit_changes
<1>3. CASE commit_validate(w)
  <2>1. Cont(loc[w]) = "commit_validate" /\ loc[w].s \in Session /\ sess[loc[w].s] # NoSession
    BY <1>3, <1>a DEF commit_validate, At, Cont, MarkPc, CommitPc
  <2>2. CASE Complete(loc[w].s)
    <3> DEFINE mf == ManifestOf(loc[w].s)
               m == [loc[w] EXCEPT !.manifest = mf, !.pc = "commit_begin"]
    <3>1. mf \in Seq(Digest) /\ Range(mf) \subseteq files
      BY <2>1, <2>2, ManifestType
    <3>2. m \in Local /\ m.pc = "commit_begin" /\ m.manifest = mf
      <4> HIDE DEF mf
      <4> QED BY <1>a, <3>1, LabelFacts DEF Local
    <3>3. Set(w, m)
      BY <1>3, <2>2 DEF commit_validate
    <3>4. TxStep(w, m)
      <4> HIDE DEF m
      <4> QED BY <1>3, <2>1, <3>2 DEF commit_validate, TxStep, TxPc, Cont, MarkPc
    <3>5. PublishedIntact'
      BY <1>3, IntactStep DEF commit_validate, Safe
    <3>6. tx' # "worker" => disk'.artifact = artifact'
      BY <1>3 DEF commit_validate, Safe, TxViews
    <3>7. QED
      <4>1. Range(m.manifest) \subseteq files'
        <5> HIDE DEF m
        <5> QED BY <1>3, <3>1, <3>2 DEF commit_validate
      <4> HIDE DEF m
      <4> QED BY <3>2, <3>3, <3>4, <3>5, <3>6, <4>1, SafeStep, ThreadFacts
  <2>3. CASE ~ Complete(loc[w].s)
    <3>1. PICK m \in Local : Set(w, m) /\ Cont(m) \notin TxPc /\ m.pc \notin Relies
      BY <1>3, <2>3, GotoMove, LabelFacts, ThreadFacts
         DEF commit_validate, MarkPc, TxPc, Relies
    <3>2. TxStep(w, m)
      BY <1>3, <2>1, <3>1 DEF commit_validate, TxStep, TxPc
    <3>3. QED
      BY <1>3, <3>1, <3>2, WorkerStep DEF commit_validate
  <2>4. QED
    BY <2>2, <2>3
<1>4. CASE commit_begin(w)
  <2>1. Cont(loc[w]) = "commit_begin" /\ Range(loc[w].manifest) \subseteq files
    BY <1>4 DEF commit_begin, At, Cont, MarkPc, Safe, PublishReady
  <2>2. CASE BEGIN(w, "commit_publish")
    <3>1. PICK m \in Local : /\ Set(w, m) /\ Cont(m) = "commit_publish"
                             /\ m.pc = "commit_publish" /\ m.manifest = loc[w].manifest
      BY <2>2, GotoMove, LabelFacts, ThreadFacts DEF BEGIN, MarkPc
    <3>2. TxStep(w, m)
      BY <2>2, <3>1 DEF BEGIN, TxStep, TxPc
    <3>3. PublishedIntact'
      BY <1>4, IntactStep DEF commit_begin, Safe
    <3>4. tx' # "worker" => disk'.artifact = artifact'
      BY <2>2 DEF BEGIN
    <3>5. QED
      <4>1. Range(m.manifest) \subseteq files'
        BY <1>4, <2>1, <3>1 DEF commit_begin
      <4> QED BY <3>1, <3>2, <3>3, <3>4, <4>1, SafeStep, ThreadFacts
  <2>3. CASE BeginFails(w)
    <3>1. TxStep(w, Idle)
      BY <2>1, <2>3, DoneMove, ThreadFacts DEF BeginFails, TxStep, TxPc
    <3>2. QED
      BY <1>4, <2>3, <3>1, DoneMove, ThreadFacts, WorkerStep DEF commit_begin, BeginFails
  <2>4. QED
    BY <1>4, <2>2, <2>3 DEF commit_begin
<1>5. CASE commit_publish(w)
  <2> DEFINE s == loc[w].s
             n == sess[s].name
             row == [creator |-> sess[s].owner, size |-> sess[s].size,
                     digest |-> sess[s].digest, manifest |-> loc[w].manifest]
  <2>1. Cont(loc[w]) = "commit_publish" /\ Range(loc[w].manifest) \subseteq files
    BY <1>5 DEF commit_publish, At, Cont, MarkPc, Safe, PublishReady
  <2>2. CASE artifact[n] # NoArtifact
    <3>1. PICK m \in Local : Set(w, m) /\ Cont(m) = "commit_reopen" /\ m.pc = "commit_reopen"
      BY <1>5, <2>2, GotoMove, LabelFacts, ThreadFacts DEF commit_publish, MarkPc
    <3>2. QED
      BY <1>5, <2>1, <2>2, <3>1, UndoStep DEF commit_publish, TxPc, Relies
  <2>3. CASE artifact[n] = NoArtifact
    <3>1. /\ artifact' = [artifact EXCEPT ![n] = row] /\ COMMIT /\ Done(w) /\ UNCHANGED files
      BY <1>5, <2>3 DEF commit_publish
    <3>2. Intact(artifact)'
      <4>1. artifact \in [Name -> ArtifactRow \cup {NoArtifact}] /\ row.manifest = loc[w].manifest
        BY DEF TypeInv, TypeOK
      <4>2. QED
        <5> HIDE DEF row, n
        <5> QED BY <2>1, <3>1, <4>1 DEF Intact, Safe, PublishedIntact
    <3>3. disk'.artifact = artifact'
      BY <3>1 DEF COMMIT, Tables
    <3>4. PublishedIntact'
      BY <3>2, <3>3 DEF PublishedIntact, Intact
    <3>5. TxStep(w, Idle)
      BY <2>1, <3>1, DoneMove, ThreadFacts DEF COMMIT, TxStep, TxPc
    <3>6. QED
      BY <3>1, <3>3, <3>4, <3>5, DoneMove, ThreadFacts, SafeStep DEF Relies
  <2>4. QED
    BY <2>2, <2>3
<1>6. CASE commit_reopen(w)
  <2>1. Cont(loc[w]) = "commit_reopen"
    BY <1>6 DEF commit_reopen, At, Cont, MarkPc
  <2>2. TxStep(w, Idle)
    BY <1>6, <2>1, DoneMove, ThreadFacts DEF commit_reopen, TxStep, TxPc
  <2>3. QED
    BY <1>6, <2>2, DoneMove, ThreadFacts, WorkerStep DEF commit_reopen
<1>7. QED
  BY <1>1, <1>2, <1>3, <1>4, <1>5, <1>6

LEMMA DeleteSafe ==
  ASSUME TypeInv, Safe, delete_row("worker") \/ delete_commit("worker")
  PROVE  Safe'
<1> DEFINE w == "worker"
<1>1. CASE delete_row(w)
  <2> DEFINE n == loc[w].name
             D == Range(artifact[n].manifest)
             label == IF D = {} THEN "delete_commit" ELSE "mark_next"
             m == [loc[w] EXCEPT !.todo = D, !.ret = "delete_commit", !.pc = label]
  <2>1. Cont(loc[w]) = "delete_row" /\ UNCHANGED files
    BY <1>1 DEF delete_row, At, Cont, MarkPc
  <2>2. CASE artifact[n] = NoArtifact
    BY <1>1, <2>1, <2>2, DoneMove, ThreadFacts, UndoStep DEF delete_row, TxPc
  <2>3. CASE artifact[n] # NoArtifact
    <3>1. /\ artifact' = [artifact EXCEPT ![n] = NoArtifact]
          /\ UNCHANGED <<disk, tx>>
          /\ Set(w, m)
      BY <1>1, <2>3 DEF delete_row
    <3>2. m \in Local /\ m.pc = label /\ m.ret = "delete_commit"
      <4>1. label \in Labels
        BY LabelFacts
      <4>2. n \in Name
        BY <1>1, OwnFacts, ThreadFacts DEF Args, Cont, MarkPc, delete_row, At
      <4>3. artifact[n] \in ArtifactRow
        BY <2>3, <4>2 DEF TypeInv, TypeOK
      <4>4. D \in SUBSET Digest
        BY <4>3 DEF ArtifactRow, Range
      <4>5. loc[w] \in Local
        BY OwnFacts, ThreadFacts
      <4> HIDE DEF label, D
      <4> QED BY <4>1, <4>4, <4>5, LabelFacts DEF Local
    <3>3. Cont(m) = "delete_commit" /\ m.pc \notin Relies
      <4>1. label \in {"delete_commit", "mark_next"}
        OBVIOUS
      <4> HIDE DEF m, label
      <4> QED BY <3>2, <4>1 DEF Cont, MarkPc, Relies
    <3>4. PublishedIntact'
      BY <2>1, <3>1 DEF Safe, PublishedIntact, Intact, TypeInv, TypeOK
    <3>5. tx' = "worker"
      BY <2>1, <3>1, ThreadFacts DEF Safe, TxOwner, TxPc
    <3>6. QED
      <4> HIDE DEF m
      <4>1. TxStep(w, m)
        BY <2>1, <3>1, <3>3 DEF TxStep, TxPc
      <4>2. QED
        BY <3>1, <3>2, <3>3, <3>4, <3>5, <4>1, ThreadFacts, SafeStep DEF Relies
  <2>4. QED
    BY <2>2, <2>3
<1>2. CASE delete_commit(w)
  <2>1. Cont(loc[w]) = "delete_commit"
    BY <1>2 DEF delete_commit, At, Cont, MarkPc
  <2>2. TxStep(w, Idle)
    BY <1>2, <2>1, DoneMove, ThreadFacts DEF delete_commit, COMMIT, TxStep, TxPc
  <2>3. QED
    BY <1>2, <2>2, DoneMove, ThreadFacts, WorkerStep DEF delete_commit
<1>3. QED
  BY <1>1, <1>2

LEMMA GcNextMove ==
  ASSUME TypeInv, NEW d, GcNext("worker", d)
  PROVE  \E m \in Local : Set("worker", m) /\ Cont(m) \notin TxPc /\ m.pc \notin Relies
<1> DEFINE rest == loc["worker"].todo \ {d}
           m == [loc["worker"] EXCEPT !.todo = rest, !.cur = Nil, !.pc = "gc_next"]
<1>1. CASE rest = {}
  BY <1>1, DoneMove, ThreadFacts DEF GcNext
<1>2. CASE rest # {}
  <2>1. loc["worker"] \in Local /\ rest \in SUBSET Digest
    BY OwnFacts, LocalFacts, ThreadFacts
  <2>2. m \in Local /\ m.pc = "gc_next"
    <3> HIDE DEF rest
    <3> QED BY <2>1, LabelFacts DEF Local
  <2>3. Set("worker", m)
    BY <1>2 DEF GcNext
  <2>4. QED
    <3> HIDE DEF m
    <3> QED BY <2>2, <2>3 DEF Cont, MarkPc, TxPc, Relies
<1>3. QED
  BY <1>1, <1>2

\* At the unlink the chunk is in no manifest, neither on the connection nor
\* on disk.
LEMMA GcSafe ==
  ASSUME TypeInv, Safe,
         \/ gc_check("worker") \/ gc_reactivate("worker")
         \/ gc_remove("worker") \/ gc_delete("worker")
  PROVE  Safe'
<1> DEFINE w == "worker"
<1>1. CASE gc_check(w)
  <2>1. Cont(loc[w]) = "gc_next" /\ UNCHANGED <<tx, files>> /\ loc[w] \in Local
    BY <1>1, OwnFacts, ThreadFacts DEF gc_check, At, Cont, MarkPc
  <2>2. PICK d \in loc[w].todo :
          \/ GcNext(w, d)
          \/ Set(w, [loc[w] EXCEPT !.cur = d, !.pc = "gc_reactivate"])
          \/ /\ ~ chunk_referenced(d)
             /\ Set(w, [loc[w] EXCEPT !.cur = d, !.pc = "gc_remove"])
    BY <1>1 DEF gc_check, StillReferenced
  <2>3. CASE GcNext(w, d)
    <3>1. PICK m \in Local : Set(w, m) /\ Cont(m) \notin TxPc /\ m.pc \notin Relies
      BY <2>3, GcNextMove
    <3>2. TxStep(w, m)
      BY <2>1, <3>1 DEF TxStep, TxPc
    <3>3. QED
      BY <1>1, <3>1, <3>2, WorkerStep DEF gc_check
  <2>r. CASE Set(w, [loc[w] EXCEPT !.cur = d, !.pc = "gc_reactivate"])
    <3> DEFINE m == [loc[w] EXCEPT !.cur = d, !.pc = "gc_reactivate"]
    <3>1. m \in Local /\ m.pc = "gc_reactivate"
      <4>1. d \in Digest
        BY <2>1, LocalFacts
      <4>2. QED
        BY <2>1, <4>1, LabelFacts DEF Local
    <3>2. Set(w, m)
      BY <2>r
    <3>3. QED
      <4> HIDE DEF m
      <4>1. TxStep(w, m)
        BY <2>1, <3>1 DEF TxStep, TxPc, Cont, MarkPc
      <4>2. QED
        BY <1>1, <3>1, <3>2, <4>1, WorkerStep DEF gc_check, Relies
  <2>4. CASE /\ ~ chunk_referenced(d)
             /\ Set(w, [loc[w] EXCEPT !.cur = d, !.pc = "gc_remove"])
    <3>0. UNCHANGED <<tables, disk, files, tx>>
      BY <1>1 DEF gc_check
    <3> DEFINE m == [loc[w] EXCEPT !.cur = d, !.pc = "gc_remove"]
    <3>1. m \in Local /\ m.pc = "gc_remove" /\ m.cur = d
      <4>1. d \in Digest
        BY <2>1, LocalFacts
      <4>2. QED
        BY <2>1, <4>1, LabelFacts DEF Local
    <3>2. ~ InManifest(d)' /\ ~ InLiveSession(d)'
      BY <2>4, <3>0 DEF chunk_referenced, InManifest, InLiveSession
    <3>3. PublishedIntact'
      BY <3>0, IntactStep DEF Safe
    <3>4. tx' # "worker" => disk'.artifact = artifact'
      BY <3>0 DEF Safe, TxViews
    <3>5. Set(w, m)
      BY <2>4
    <3>6. PICK q \in Local : Set(w, q) /\ q.pc = "gc_remove" /\ q.cur = d
      <4> HIDE DEF m
      <4> QED BY <3>1, <3>5
    <3>7. TxStep(w, q)
      BY <2>1, <3>6 DEF TxStep, TxPc, Cont, MarkPc
    <3>8. ~ InManifest(q.cur)' /\ ~ InLiveSession(q.cur)'
      BY <3>2, <3>6 DEF InManifest, InLiveSession
    <3>9. QED
      BY <3>3, <3>4, <3>6, <3>7, <3>8, SafeStep, ThreadFacts
  <2>5. QED
    BY <2>2, <2>3, <2>r, <2>4
<1>r. CASE gc_reactivate(w)
  <2>1. Cont(loc[w]) = "gc_reactivate"
    BY <1>r DEF gc_reactivate, At, Cont, MarkPc
  <2>2. PICK m \in Local : Set(w, m) /\ Cont(m) \notin TxPc /\ m.pc \notin Relies
    BY <1>r, GcNextMove DEF gc_reactivate
  <2>3. TxStep(w, m)
    BY <1>r, <2>1, <2>2 DEF gc_reactivate, TxStep, TxPc
  <2>4. QED
    BY <1>r, <2>2, <2>3, WorkerStep DEF gc_reactivate
<1>2. CASE gc_remove(w)
  <2> DEFINE d == loc[w].cur
  <2>1. /\ Cont(loc[w]) = "gc_remove" /\ ~ InManifest(d)
        /\ files' = files \ {d} /\ UNCHANGED <<artifact, disk, tx>>
    BY <1>2 DEF gc_remove, At, Cont, MarkPc, Safe, GcTarget, chunk_referenced
  <2>2. tx # "worker" /\ disk.artifact = artifact
    BY <2>1, ThreadFacts DEF Safe, TxOwner, TxViews, TxPc
  <2>3. PublishedIntact'
    BY <2>1, <2>2 DEF Safe, PublishedIntact, Intact, InManifest
  <2>4. PICK m \in Local : Set(w, m) /\ Cont(m) = "gc_delete" /\ m.pc = "gc_delete"
    BY <1>2, GotoMove, LabelFacts, ThreadFacts DEF gc_remove, MarkPc
  <2>5. TxStep(w, m)
    BY <2>1, <2>4 DEF TxStep, TxPc
  <2>6. QED
    BY <2>1, <2>2, <2>3, <2>4, <2>5, SafeStep, ThreadFacts
<1>3. CASE gc_delete(w)
  <2>1. Cont(loc[w]) = "gc_delete"
    BY <1>3 DEF gc_delete, At, Cont, MarkPc
  <2>2. PICK m \in Local : Set(w, m) /\ Cont(m) \notin TxPc /\ m.pc \notin Relies
    BY <1>3, GcNextMove DEF gc_delete
  <2>3. TxStep(w, m)
    BY <1>3, <2>1, <2>2 DEF gc_delete, TxStep, TxPc
  <2>4. QED
    BY <1>3, <2>2, <2>3, WorkerStep DEF gc_delete
<1>4. QED
  BY <1>1, <1>r, <1>2, <1>3

\* mark_unreferenced_parts goes on inside the caller's operation.
LEMMA MarkMove ==
  ASSUME TypeInv, NEW t \in Thread, mark_unreferenced_parts(t)
  PROVE  \E m \in Local : /\ Set(t, m) /\ Cont(m) = Cont(loc[t])
                          /\ Cont(loc[t]) \in Returns
<1>a. loc[t] \in Local /\ loc[t].pc \in MarkPc
  BY OwnFacts DEF mark_unreferenced_parts, mark_select, delete_parts, mark_manifests,
                  mark_parts, mark_update, At, MarkPc
<1>b. loc[t].ret \in Returns /\ Cont(loc[t]) = loc[t].ret /\ loc[t].ret \notin MarkPc
  BY <1>a, OwnFacts, RetNotMark DEF Args, Cont
<1>1. ASSUME NEW m \in Local, Set(t, m), m.ret = loc[t].ret,
             m.pc \in MarkPc \cup {loc[t].ret}
      PROVE  \E q \in Local : /\ Set(t, q) /\ Cont(q) = Cont(loc[t])
                              /\ Cont(loc[t]) \in Returns
  BY <1>1, <1>b DEF Cont
<1>2. CASE mark_select(t)
  <2> DEFINE D == DigestsOf(loc[t].s)
             m == [loc[t] EXCEPT !.todo = D, !.pc = "mark_delete"]
  <2>1. D \in SUBSET Digest
    BY DEF TypeInv, TypeOK, DigestsOf, PartsOf, PartRow
  <2>2. m \in Local /\ m.pc = "mark_delete" /\ m.ret = loc[t].ret
    <3> HIDE DEF D
    <3> QED BY <1>a, <2>1, LabelFacts DEF Local
  <2>3. Set(t, m)
    BY <1>2 DEF mark_select
  <2>4. QED
    <3> HIDE DEF m
    <3> QED BY <1>1, <2>2, <2>3 DEF MarkPc
<1>3. CASE delete_parts(t)
  <2> DEFINE label == IF loc[t].todo = {} THEN loc[t].ret ELSE "mark_next"
             m == [loc[t] EXCEPT !.pc = label]
  <2>1. label \in Labels /\ label \in MarkPc \cup {loc[t].ret}
    BY <1>b, RetNotMark, LabelFacts DEF MarkPc
  <2>2. m \in Local /\ m.pc = label /\ m.ret = loc[t].ret
    <3> HIDE DEF label
    <3> QED BY <1>a, <2>1, MoveType
  <2>3. Set(t, m)
    BY <1>3 DEF delete_parts, Goto
  <2>4. QED
    <3> HIDE DEF m, label
    <3> QED BY <1>1, <2>1, <2>2, <2>3
<1>4. CASE \E d : MarkNext(t, d)
  BY <1>4, <1>a, <1>b, MarkNextType
<1>5. CASE \E d \in loc[t].todo : Set(t, [loc[t] EXCEPT !.cur = d, !.pc = "mark_parts"])
  <2>1. PICK d \in loc[t].todo : Set(t, [loc[t] EXCEPT !.cur = d, !.pc = "mark_parts"])
    BY <1>5
  <2> DEFINE m == [loc[t] EXCEPT !.cur = d, !.pc = "mark_parts"]
  <2>2. m \in Local /\ m.pc = "mark_parts" /\ m.ret = loc[t].ret
    <3>1. d \in Digest
      BY <1>a, LocalFacts
    <3>2. QED
      BY <1>a, <3>1, LabelFacts DEF Local
  <2>3. Set(t, m)
    BY <2>1
  <2>4. QED
    <3> HIDE DEF m
    <3> QED BY <1>1, <2>2, <2>3 DEF MarkPc
<1>6. CASE Goto(t, "mark_update")
  <2> DEFINE m == [loc[t] EXCEPT !.pc = "mark_update"]
  <2>1. m \in Local /\ m.pc = "mark_update" /\ m.ret = loc[t].ret
    BY <1>a, MoveType, LabelFacts
  <2>2. Set(t, m)
    BY <1>6 DEF Goto
  <2>3. QED
    <3> HIDE DEF m
    <3> QED BY <1>1, <2>1, <2>2 DEF MarkPc
<1>7. CASE mark_manifests(t)
  BY <1>4, <1>5, <1>7 DEF mark_manifests
<1>8. CASE mark_parts(t)
  BY <1>4, <1>6, <1>8 DEF mark_parts
<1>9. CASE mark_update(t)
  BY <1>4, <1>9 DEF mark_update
<1>10. QED
  BY <1>2, <1>3, <1>7, <1>8, <1>9 DEF mark_unreferenced_parts

LEMMA MarkSafe ==
  ASSUME TypeInv, Safe, NEW t \in Thread, mark_unreferenced_parts(t)
  PROVE  Safe'
<1>1. PICK m \in Local : /\ Set(t, m) /\ Cont(m) = Cont(loc[t])
                         /\ Cont(loc[t]) \in Returns
  BY MarkMove
<1>2. m.pc \notin Relies
  BY <1>1 DEF Relies, Returns, Cont, MarkPc
<1>3. /\ UNCHANGED <<tx, artifact, files, sess>> /\ part' \subseteq part
      /\ Autocommit \/ UNCHANGED disk
  BY DEF mark_unreferenced_parts, mark_select, delete_parts, mark_manifests,
         mark_parts, mark_update
<1>4. \A d : InLiveSession(d)' => InLiveSession(d)
  BY <1>3 DEF InLiveSession
<1>5. TxStep(t, m)
  BY <1>1, <1>3 DEF TxStep
<1>6. QED
  BY <1>1, <1>2, <1>3, <1>4, <1>5, QuietStep

LEMMA AbortSafe ==
  ASSUME TypeInv, Safe, NEW t \in Thread, Aborter(t)
  PROVE  Safe'
<1>1. CASE abort_session(t)
  <2>1. Cont(loc[t]) = "idle"
    BY <1>1 DEF abort_session, MayStart, At, Cont, MarkPc
  <2>2. PICK s \in Session :
          /\ sess[s].state \in Live
          /\ Set(t, [Idle EXCEPT !.s = s, !.now = clock, !.from = sess[s].state,
                                 !.pc = "abort_begin"])
    BY <1>1 DEF abort_session
  <2> DEFINE v == sess[s].state
             m == [Idle EXCEPT !.s = s, !.now = clock, !.from = v, !.pc = "abort_begin"]
  <2>3. m \in Local /\ m.pc = "abort_begin"
    <3>1. v \in Live /\ clock \in Nat
      BY <2>2 DEF TypeInv, TypeOK
    <3> HIDE DEF v
    <3> QED BY <3>1, IdleType, LabelFacts DEF Local
  <2>4. Set(t, m)
    BY <2>2
  <2>5. TxStep(t, m) /\ m.pc \notin Relies
    <3> HIDE DEF m
    <3> QED BY <1>1, <2>1, <2>3 DEF abort_session, TxStep, TxPc, Cont, MarkPc, Relies
  <2>6. \A d : InLiveSession(d)' => InLiveSession(d)
    BY <1>1 DEF abort_session, InLiveSession
  <2>7. QED
    <3> HIDE DEF m
    <3> QED BY <1>1, <2>3, <2>4, <2>5, <2>6, QuietStep DEF abort_session
<1>2. CASE abort_begin(t)
  <2>1. Cont(loc[t]) = "abort_begin"
    BY <1>2 DEF abort_begin, At, Cont, MarkPc
  <2>2. \A d : InLiveSession(d)' => InLiveSession(d)
    BY <1>2 DEF abort_begin, InLiveSession
  <2>3. CASE BEGIN(t, "abort_transition")
    <3>1. PICK m \in Local : /\ Set(t, m) /\ Cont(m) = "abort_transition"
                             /\ m.pc = "abort_transition"
      BY <2>3, GotoMove, LabelFacts DEF BEGIN, MarkPc
    <3>2. TxStep(t, m) /\ m.pc \notin Relies
      BY <2>3, <3>1 DEF BEGIN, TxStep, TxPc, Relies
    <3>3. QED
      BY <1>2, <2>2, <2>3, <3>1, <3>2, QuietStep DEF abort_begin, BEGIN
  <2>4. CASE BeginFails(t)
    <3>1. TxStep(t, Idle)
      BY <2>1, <2>4, DoneMove DEF BeginFails, TxStep, TxPc
    <3>2. QED
      BY <1>2, <2>2, <2>4, <3>1, DoneMove, QuietStep DEF abort_begin, BeginFails
  <2>5. QED
    BY <1>2, <2>3, <2>4 DEF abort_begin
<1>3. CASE abort_transition(t)
  <2>1. Cont(loc[t]) = "abort_transition"
    BY <1>3 DEF abort_transition, At, Cont, MarkPc
  <2> DEFINE m == [loc[t] EXCEPT !.pc = "mark_select", !.ret = "abort_commit"]
  <2>2. m \in Local /\ m.pc = "mark_select" /\ m.ret = "abort_commit"
    BY OwnFacts, LabelFacts DEF Local
  <2>3. Set(t, m) /\ Autocommit /\ UNCHANGED <<artifact, part, tx, files>>
    BY <1>3 DEF abort_transition
  <2>4. TxStep(t, m) /\ m.pc \notin Relies
    <3> HIDE DEF m
    <3> QED BY <2>1, <2>2, <2>3 DEF TxStep, TxPc, Cont, MarkPc, Relies
  <2>5. \A d : InLiveSession(d)' => InLiveSession(d)
    <3>1. \A s \in Session : sess'[s].state \in Live => sess[s].state \in Live
      BY <1>3 DEF abort_transition, transition, Live, TypeInv, TypeOK
    <3>2. \A p \in part : p.session \in Session
      BY DEF TypeInv, TypeOK, PartRow
    <3>3. QED
      BY <2>3, <3>1, <3>2 DEF InLiveSession
  <2>6. QED
    <3> HIDE DEF m
    <3> QED BY <2>2, <2>3, <2>4, <2>5, QuietStep
<1>4. CASE abort_commit(t)
  <2>1. Cont(loc[t]) = "abort_commit"
    BY <1>4 DEF abort_commit, At, Cont, MarkPc
  <2>2. TxStep(t, Idle)
    BY <1>4, <2>1, DoneMove DEF abort_commit, COMMIT, TxStep, TxPc
  <2>3. \A d : InLiveSession(d)' => InLiveSession(d)
    BY <1>4 DEF abort_commit, InLiveSession
  <2>4. QED
    BY <1>4, <2>2, <2>3, DoneMove, QuietStep DEF abort_commit
<1>5. QED
  BY <1>1, <1>2, <1>3, <1>4 DEF Aborter

\* Maintenance takes no transaction, touches no artifact and no file in
\* place, and makes no session live that was not.
LEMMA MaintSafe ==
  ASSUME TypeInv, Safe, Maintenance
  PROVE  Safe'
<1> DEFINE t == "maint"
<1>a. t \in Thread /\ t # "worker" /\ loc[t] \in Local /\ loc[t].sessions \in SUBSET Session
  BY ThreadFacts, OwnFacts, LocalFacts
<1>b. \A p \in part : p.session \in Session
  BY DEF TypeInv, TypeOK, PartRow
<1>c. ASSUME NEW m \in Local, Set(t, m), Cont(m) \notin TxPc, Cont(loc[t]) \notin TxPc,
             UNCHANGED <<artifact, part, tx, files>>, Autocommit \/ UNCHANGED disk,
             \A s \in Session : sess'[s].state \in Live => sess[s].state \in Live
      PROVE  Safe'
  <2>1. \A d : InLiveSession(d)' => InLiveSession(d)
    BY <1>b, <1>c DEF InLiveSession
  <2>2. TxStep(t, m)
    BY <1>c DEF TxStep
  <2>3. QED
    BY <1>a, <1>c, <2>1, <2>2, QuietStep
<1>1. CASE run_maintenance(t)
  <2> DEFINE m == [Idle EXCEPT !.now = clock, !.pc = "maint_temp"]
  <2>1. m \in Local /\ m.pc = "maint_temp"
    BY IdleType, LabelFacts DEF Local, TypeInv, TypeOK
  <2>2. Set(t, m) /\ Cont(loc[t]) = "idle"
    BY <1>1 DEF run_maintenance, MayStart, At, Cont, MarkPc
  <2>3. Cont(m) \notin TxPc
    <3> HIDE DEF m
    <3> QED BY <2>1 DEF Cont, MarkPc, TxPc
  <2>4. QED
    <3> HIDE DEF m
    <3> QED BY <1>1, <1>c, <2>1, <2>2, <2>3 DEF run_maintenance, TxPc
<1>2. CASE cleanup_temp_files(t)
  <2>1. PICK m \in Local : Set(t, m) /\ Cont(m) = "maint_expire"
    BY <1>2, <1>a, GotoMove, LabelFacts DEF cleanup_temp_files, MarkPc
  <2>2. Cont(loc[t]) = "maint_temp"
    BY <1>2 DEF cleanup_temp_files, At, Cont, MarkPc
  <2>3. QED
    BY <1>2, <1>c, <2>1, <2>2 DEF cleanup_temp_files, TxPc
<1>3. CASE maint_expire(t)
  <2>1. PICK m \in Local : Set(t, m) /\ Cont(m) = "maint_rollback"
    BY <1>3, <1>a, GotoMove, LabelFacts DEF maint_expire, MarkPc
  <2>2. Cont(loc[t]) = "maint_expire"
    BY <1>3 DEF maint_expire, At, Cont, MarkPc
  <2>3. \A s \in Session : sess'[s].state \in Live => sess[s].state \in Live
    <3> TAKE s \in Session
    <3>1. CASE Due(s, loc[t].now)
      BY <3>1 DEF Due, Live
    <3>2. CASE ~ Due(s, loc[t].now)
      BY <1>3, <3>2 DEF maint_expire
    <3>3. QED
      BY <3>1, <3>2
  <2>4. QED
    BY <1>3, <1>c, <2>1, <2>2, <2>3 DEF maint_expire, TxPc
<1>4. CASE maint_rollback(t)
  <2>1. PICK m \in Local : Set(t, m) /\ Cont(m) = "maint_select"
    BY <1>4, <1>a, GotoMove, LabelFacts DEF maint_rollback, MarkPc
  <2>2. Cont(loc[t]) = "maint_rollback"
    BY <1>4 DEF maint_rollback, At, Cont, MarkPc
  <2>3. \A s \in Session : sess'[s].state \in Live => sess[s].state \in Live
    BY <1>4 DEF maint_rollback, Live
  <2>4. QED
    BY <1>4, <1>c, <2>1, <2>2, <2>3 DEF maint_rollback, TxPc
<1>5. CASE maint_select(t)
  <2> DEFINE ended == {s \in Session : sess[s].state \in {"EXPIRED", "ABORTED"}}
             m == [loc[t] EXCEPT !.pc = "maint_next", !.sessions = ended]
  <2>1. m \in Local /\ m.pc = "maint_next"
    <3>1. ended \in SUBSET Session
      OBVIOUS
    <3> HIDE DEF ended
    <3> QED BY <1>a, <3>1, LabelFacts DEF Local
  <2>2. Set(t, m) /\ Cont(loc[t]) = "maint_select"
    BY <1>5 DEF maint_select, At, Cont, MarkPc
  <2>3. Cont(m) \notin TxPc
    <3> HIDE DEF m
    <3> QED BY <2>1 DEF Cont, MarkPc, TxPc
  <2>4. QED
    <3> HIDE DEF m
    <3> QED BY <1>5, <1>c, <2>1, <2>2, <2>3 DEF maint_select, TxPc
<1>6. CASE maint_next(t)
  <2>1. Cont(loc[t]) = "maint_next"
    BY <1>6 DEF maint_next, At, Cont, MarkPc
  <2>2. CASE Done(t)
    BY <1>6, <1>a, <1>c, <2>1, <2>2, DoneMove DEF maint_next, TxPc
  <2>3. CASE ~ Done(t)
    <3>1. PICK s \in loc[t].sessions :
            Set(t, [loc[t] EXCEPT !.s = s, !.sessions = @ \ {s}, !.ret = "maint_next",
                                  !.pc = "mark_select"])
      BY <1>6, <2>3 DEF maint_next
    <3> DEFINE rest == loc[t].sessions \ {s}
               m == [loc[t] EXCEPT !.s = s, !.sessions = rest, !.ret = "maint_next",
                                   !.pc = "mark_select"]
    <3>2. m \in Local /\ m.pc = "mark_select" /\ m.ret = "maint_next"
      <4>1. rest \in SUBSET Session /\ s \in Session
        BY <1>a
      <4> HIDE DEF rest
      <4> QED BY <1>a, <4>1, LabelFacts DEF Local
    <3>3. Set(t, m)
      BY <3>1
    <3>4. Cont(m) \notin TxPc
      <4> HIDE DEF m
      <4> QED BY <3>2 DEF Cont, MarkPc, TxPc
    <3>5. QED
      <4> HIDE DEF m
      <4> QED BY <1>6, <1>c, <2>1, <3>2, <3>3, <3>4 DEF maint_next, TxPc
  <2>4. QED
    BY <2>2, <2>3
<1>7. QED
  BY <1>1, <1>2, <1>3, <1>4, <1>5, <1>6 DEF Maintenance

LEMMA EnvSafe ==
  ASSUME TypeInv, Safe, Tick \/ Crash
  PROVE  Safe'
<1>1. CASE Tick
  BY <1>1 DEF Tick, Safe, TxOwner, TxViews, PublishReady, GcTarget, PublishedIntact,
              Intact, chunk_referenced, InManifest, InLiveSession, Cont
<1>2. CASE Crash
  <2> DEFINE m == [Idle EXCEPT !.now = clock, !.pc = "maint_temp"]
  <2>1. m.pc = "maint_temp"
    BY IdleType DEF Local
  <2>2. Cont(m) \notin TxPc /\ Cont(Idle) \notin TxPc /\ Idle.pc \notin Relies
    <3> HIDE DEF m
    <3> QED BY <2>1, IdleType DEF Cont, MarkPc, TxPc, Relies, Idle
  <2>3. loc' = [u \in Thread |-> IF u = "maint" THEN m ELSE Idle]
    BY <1>2 DEF Crash
  <2>4. TxOwner'
    <3> HIDE DEF m
    <3> SUFFICES ASSUME NEW u \in Thread PROVE (tx = u <=> Cont(loc[u]) \in TxPc)'
      BY DEF TxOwner
    <3>1. tx' # u
      BY <1>2, ThreadFacts DEF Crash
    <3>2. Cont(loc'[u]) \notin TxPc
      BY <2>2, <2>3
    <3>3. QED
      BY <3>1, <3>2 DEF Cont
  <2>5. TxViews'
    BY <1>2 DEF Crash, TxViews
  <2>6. loc'["worker"].pc \notin Relies
    <3> HIDE DEF m
    <3> QED BY <2>2, <2>3, ThreadFacts
  <2>7. PublishedIntact'
    BY <1>2, IntactStep DEF Crash, Safe
  <2>8. QED
    BY <2>4, <2>5, <2>6, <2>7 DEF Safe, PublishReady, GcTarget, Relies
<1>3. QED
  BY <1>1, <1>2
-----------------------------------------------------------------------------
LEMMA InitSafe == Init => Safe
<1> SUFFICES ASSUME Init PROVE Safe
  OBVIOUS
<1>1. \A t \in Thread : loc[t] = Idle /\ tx # t
  BY ThreadFacts DEF Init
<1>2. TxOwner
  BY <1>1, IdleType DEF TxOwner, TxPc
<1>3. loc["worker"].pc = "idle"
  BY <1>1, ThreadFacts DEF Idle
<1>4. TxViews /\ PublishedIntact
  BY DEF Init, TxViews, PublishedIntact, Intact, Tables
<1>5. QED
  BY <1>2, <1>3, <1>4 DEF Safe, PublishReady, GcTarget

LEMMA NextSafe == TypeInv /\ Safe /\ [Next]_vars => Safe'
<1> SUFFICES ASSUME TypeInv, Safe, [Next]_vars PROVE Safe'
  OBVIOUS
<1>1. CASE Worker
  BY <1>1, StartSafe, CreateSafe, PutSafe, CommitSafe, DeleteSafe, GcSafe,
     ExpireSafe DEF Worker
<1>2. CASE \E t \in {"worker", "admin"} : Aborter(t)
  BY <1>2, ThreadFacts, AbortSafe
<1>3. CASE Maintenance
  BY <1>3, MaintSafe
<1>4. CASE \E t \in Thread : mark_unreferenced_parts(t)
  BY <1>4, MarkSafe
<1>5. CASE Tick \/ Crash
  BY <1>5, EnvSafe
<1>6. CASE UNCHANGED vars
  BY <1>6 DEF vars, Safe, TxOwner, TxViews, PublishReady, GcTarget, PublishedIntact,
              Intact, chunk_referenced, InManifest, InLiveSession, Cont
<1>7. QED
  BY <1>1, <1>2, <1>3, <1>4, <1>5, <1>6 DEF Next

\* The inductive invariant holds in every reachable state of the engine.
THEOREM InvariantHolds == Spec => []StorageInvariant
<1>1. Init => TypeInv /\ Safe
  BY InitType, InitSafe
<1>2. TypeInv /\ Safe /\ [Next]_vars => TypeInv' /\ Safe'
  BY NextType, NextSafe
<1>3. TypeInv /\ Safe => StorageInvariant
  BY DEF StorageInvariant, Safe
<1>4. QED
  BY <1>1, <1>2, <1>3, PTL DEF Spec

\* A chunk named by a published manifest always has its file, on the
\* connection's view and on what a crash would leave, whatever commit_session,
\* delete_artifact, collect_garbage, abort_session and run_maintenance do
\* between each other's statements.
THEOREM NoMissingChunk == Spec => []PublishedIntact
<1>1. StorageInvariant => PublishedIntact
  BY DEF StorageInvariant
<1>2. QED
  BY <1>1, InvariantHolds, PTL

\* collect_garbage never unlinks the file of a chunk that a manifest or a
\* live session refers to at that moment, although its check and its unlink
\* are separate steps and SESSION_ABORT and maintenance run between them.
THEOREM CollectorKeepsReferenced == Spec => GcKeepsReferenced
<1>1. StorageInvariant /\ [Next]_vars =>
        [\A d \in files \ files' : ~ chunk_referenced(d)]_vars
  <2> SUFFICES ASSUME StorageInvariant, Next, NEW d \in files \ files'
               PROVE  ~ chunk_referenced(d)
    OBVIOUS
  <2>1. gc_remove("worker")
    BY DEF Next, Worker, Aborter, Maintenance, mark_unreferenced_parts, Tick, Crash,
           create_session, create_insert, put_chunk, put_reload, write_temp_file,
           rename_into_place, put_begin, put_register, commit_session,
           commit_transition, commit_changes, commit_validate, commit_begin,
           commit_publish, commit_reopen, delete_artifact, delete_row, delete_commit,
           collect_garbage, gc_check, gc_reactivate, gc_delete,
           expire_session_if_due, abort_session, abort_begin,
           abort_transition, abort_commit, run_maintenance, cleanup_temp_files,
           maint_expire, maint_rollback, maint_select, maint_next, mark_select,
           delete_parts, mark_manifests, mark_parts, mark_update
  <2>2. d = loc["worker"].cur
    BY <2>1 DEF gc_remove
  <2>3. QED
    BY <2>1, <2>2 DEF gc_remove, At, StorageInvariant, GcTarget
<1>2. QED
  BY <1>1, InvariantHolds, PTL DEF Spec, GcKeepsReferenced
-----------------------------------------------------------------------------
(* Where threads go.                                                       *)

LEMMA GotoAt ==
  ASSUME TypeInv, NEW t \in Thread, NEW label \in Labels, Goto(t, label)
  PROVE  \E m : /\ Set(t, m) /\ m.pc = label /\ m.s = loc[t].s /\ m.manifest = loc[t].manifest
                /\ m.ret = loc[t].ret /\ m.cur = loc[t].cur /\ m.todo = loc[t].todo
                /\ m.data = loc[t].data
                /\ (label \notin MarkPc => Cont(m) = label)
<1>1. loc[t] \in Local
  BY OwnFacts
<1>2. PICK m : m = [loc[t] EXCEPT !.pc = label]
  OBVIOUS
<1>3. /\ m.pc = label /\ m.s = loc[t].s /\ m.manifest = loc[t].manifest
      /\ m.ret = loc[t].ret /\ m.cur = loc[t].cur /\ m.todo = loc[t].todo /\ m.data = loc[t].data
  BY <1>1, <1>2 DEF Local
<1>4. Set(t, m)
  BY <1>2 DEF Goto
<1>5. QED
  BY <1>3, <1>4 DEF Cont

LEMMA DoneAt ==
  ASSUME NEW t \in Thread, Done(t)
  PROVE  Set(t, Idle) /\ Idle.pc = "idle" /\ Cont(Idle) = "idle"
BY IdleType DEF Done, Idle

\* The first position of an operation.
StartsAt(m) ==
  /\ \/ m.pc \in {"create", "put_reload", "commit_transition", "delete_row", "gc_next", "maint_temp"}
     \/ m.pc = "expire" /\ m.ret \in {"put_reload", "commit_transition"}
     \/ m.pc = "abort_begin" /\ sess[m.s].state = m.from
  /\ Cont(m) = "put_reload" => m.s \in Session /\ sess[m.s].state = "OPEN"

LEMMA StartAt ==
  ASSUME TypeInv, NEW t \in Thread,
         \/ create_session(t) \/ put_chunk(t) \/ commit_session(t) \/ delete_artifact(t)
         \/ collect_garbage(t) \/ run_maintenance(t) \/ abort_session(t)
  PROVE  \E m : Set(t, m) /\ StartsAt(m)
<1>a. Idle \in Local
  BY IdleType
<1>1. CASE create_session(t)
  <2>1. PICK m : m = [Idle EXCEPT !.now = clock, !.pc = "create"]
    OBVIOUS
  <2>2. m.pc = "create"
    BY <1>a, <2>1 DEF Local
  <2>3. Set(t, m)
    BY <1>1, <2>1 DEF create_session
  <2>4. QED
    BY <2>2, <2>3 DEF StartsAt, Cont, MarkPc
<1>2. CASE put_chunk(t)
  <2>1. PICK s \in Session, o \in Ordinal, d \in Digest, p \in {"expire", "put_reload"} :
          /\ sess[s].state = "OPEN"
          /\ Set(t, [Idle EXCEPT !.s = s, !.now = clock, !.ordinal = o, !.data = d, !.ret = "put_reload", !.pc = p])
    BY <1>2 DEF put_chunk
  <2>2. PICK m : m = [Idle EXCEPT !.s = s, !.now = clock, !.ordinal = o, !.data = d, !.ret = "put_reload", !.pc = p]
    OBVIOUS
  <2>3. m.pc = p /\ m.ret = "put_reload" /\ m.s = s
    BY <1>a, <2>2 DEF Local
  <2>4. QED
    BY <2>1, <2>2, <2>3 DEF StartsAt, Cont, MarkPc
<1>3. CASE commit_session(t)
  <2>1. PICK s \in Session, p \in {"expire", "commit_transition"} :
          Set(t, [Idle EXCEPT !.s = s, !.now = clock, !.ret = "commit_transition", !.pc = p])
    BY <1>3 DEF commit_session
  <2>2. PICK m : m = [Idle EXCEPT !.s = s, !.now = clock, !.ret = "commit_transition", !.pc = p]
    OBVIOUS
  <2>3. m.pc = p /\ m.ret = "commit_transition"
    BY <1>a, <2>2 DEF Local
  <2>4. QED
    BY <2>1, <2>2, <2>3 DEF StartsAt, Cont, MarkPc
<1>4. CASE delete_artifact(t)
  <2>1. PICK n \in Name : Set(t, [Idle EXCEPT !.now = clock, !.name = n, !.pc = "delete_row"])
    BY <1>4 DEF delete_artifact
  <2>2. PICK m : m = [Idle EXCEPT !.now = clock, !.name = n, !.pc = "delete_row"]
    OBVIOUS
  <2>3. m.pc = "delete_row"
    BY <1>a, <2>2 DEF Local
  <2>4. QED
    BY <2>1, <2>2, <2>3 DEF StartsAt, Cont, MarkPc
<1>5. CASE collect_garbage(t)
  <2>1. PICK dry_run \in BOOLEAN : Set(t, [Idle EXCEPT !.todo = GcCandidates, !.dry = dry_run, !.pc = "gc_next"])
    BY <1>5 DEF collect_garbage
  <2>2. PICK m : m = [Idle EXCEPT !.todo = GcCandidates, !.dry = dry_run, !.pc = "gc_next"]
    OBVIOUS
  <2>3. m.pc = "gc_next"
    BY <1>a, <2>2 DEF Local
  <2>4. QED
    BY <2>1, <2>2, <2>3 DEF StartsAt, Cont, MarkPc
<1>6. CASE run_maintenance(t)
  <2>1. PICK m : m = [Idle EXCEPT !.now = clock, !.pc = "maint_temp"]
    OBVIOUS
  <2>2. m.pc = "maint_temp"
    BY <1>a, <2>1 DEF Local
  <2>3. Set(t, m)
    BY <1>6, <2>1 DEF run_maintenance
  <2>4. QED
    BY <2>2, <2>3 DEF StartsAt, Cont, MarkPc
<1>7. CASE abort_session(t)
  <2>1. PICK s \in Session :
          Set(t, [Idle EXCEPT !.s = s, !.now = clock, !.from = sess[s].state, !.pc = "abort_begin"])
    BY <1>7 DEF abort_session
  <2>2. PICK v : v = sess[s].state
    OBVIOUS
  <2>3. PICK m : m = [Idle EXCEPT !.s = s, !.now = clock, !.from = v, !.pc = "abort_begin"]
    OBVIOUS
  <2>4. m.pc = "abort_begin" /\ m.s = s /\ m.from = v
    BY <1>a, <2>3 DEF Local
  <2>5. QED
    BY <2>1, <2>2, <2>3, <2>4 DEF StartsAt, Cont, MarkPc
<1>8. QED
  BY <1>1, <1>2, <1>3, <1>4, <1>5, <1>6, <1>7

\* Inside collect_garbage, with what the second check found.
GcPc == {"gc_next", "gc_reactivate", "gc_remove", "gc_delete"}
Collects(m) ==
  /\ m.pc \in GcPc \cup {"idle"}
  /\ m.pc = "gc_reactivate" => chunk_referenced(m.cur)
  /\ m.pc = "gc_remove" => ~ chunk_referenced(m.cur)
  /\ m.pc = "gc_delete" => gc_remove("worker") /\ m.cur = loc["worker"].cur

LEMMA GcAt ==
  ASSUME TypeInv,
         \/ gc_check("worker") \/ gc_reactivate("worker") \/ gc_remove("worker") \/ gc_delete("worker")
  PROVE  \E m : Set("worker", m) /\ Collects(m)
<1> DEFINE l == loc["worker"]
<1>1. l \in Local /\ "worker" \in Thread
  BY OwnFacts, ThreadFacts
<1>2. ASSUME NEW d, GcNext("worker", d) PROVE \E m : Set("worker", m) /\ Collects(m)
  <2>1. CASE Done("worker")
    BY <1>1, <2>1, DoneAt DEF Collects, GcPc
  <2>2. CASE ~ Done("worker")
    <3>1. PICK m : m = [l EXCEPT !.todo = l.todo \ {d}, !.cur = Nil, !.pc = "gc_next"]
      OBVIOUS
    <3>2. m.pc = "gc_next"
      BY <1>1, <3>1 DEF Local
    <3>3. Set("worker", m)
      BY <1>2, <2>2, <3>1 DEF GcNext
    <3>4. QED
      BY <3>2, <3>3 DEF Collects, GcPc
  <2>3. QED
    BY <2>1, <2>2
<1>3. ASSUME NEW d, NEW label \in {"gc_reactivate", "gc_remove"},
             label = "gc_reactivate" => chunk_referenced(d), label = "gc_remove" => ~ chunk_referenced(d),
             Set("worker", [l EXCEPT !.cur = d, !.pc = label])
      PROVE  \E m : Set("worker", m) /\ Collects(m)
  <2>1. PICK m : m = [l EXCEPT !.cur = d, !.pc = label]
    OBVIOUS
  <2>2. m.pc = label /\ m.cur = d
    BY <1>1, <2>1 DEF Local
  <2>3. QED
    BY <1>3, <2>1, <2>2 DEF Collects, GcPc
<1>4. CASE gc_check("worker")
  <2>1. PICK d : \/ GcNext("worker", d)
                 \/ Set("worker", [l EXCEPT !.cur = d, !.pc = IF chunk_referenced(d) THEN "gc_reactivate" ELSE "gc_remove"])
    BY <1>4 DEF gc_check, StillReferenced
  <2>2. CASE chunk_referenced(d)
    BY <1>2, <1>3, <2>1, <2>2
  <2>3. CASE ~ chunk_referenced(d)
    BY <1>2, <1>3, <2>1, <2>3
  <2>4. QED
    BY <2>2, <2>3
<1>5. CASE gc_reactivate("worker") \/ gc_delete("worker")
  BY <1>2, <1>5 DEF gc_reactivate, gc_delete
<1>6. CASE gc_remove("worker")
  BY <1>1, <1>6, GotoAt, LabelFacts DEF gc_remove, Collects, GcPc
<1>7. QED
  BY <1>4, <1>5, <1>6

LEMMA MarkKeeps ==
  ASSUME TypeInv, NEW t \in Thread, mark_unreferenced_parts(t)
  PROVE  loc'[t].s = loc[t].s /\ loc'[t].pc # "expire"
<1>1. loc[t] \in Local /\ loc \in [Thread -> Local] /\ loc[t].pc \in MarkPc
  BY OwnFacts DEF TypeInv, TypeOK, mark_unreferenced_parts, mark_select, delete_parts, mark_manifests,
                  mark_parts, mark_update, At, MarkPc
<1>2. loc[t].ret # "expire"
  BY <1>1, OwnFacts, RetNotMark DEF Args, MarkPc
<1> DEFINE P(p) == p \in MarkPc \ {"expire"} \/ p = loc[t].ret
<1>3. ASSUME NEW a, NEW b, NEW p, P(p), Set(t, [loc[t] EXCEPT !.todo = a, !.cur = b, !.pc = p])
      PROVE  loc'[t].s = loc[t].s /\ loc'[t].pc # "expire"
  BY <1>1, <1>2, <1>3 DEF Set, Local
<1>4. ASSUME NEW p, P(p), Goto(t, p)
      PROVE  loc'[t].s = loc[t].s /\ loc'[t].pc # "expire"
  BY <1>1, <1>2, <1>4 DEF Goto, Set, Local
<1>5. ASSUME NEW d, NEW p, P(p), Set(t, [loc[t] EXCEPT !.cur = d, !.pc = p])
      PROVE  loc'[t].s = loc[t].s /\ loc'[t].pc # "expire"
  BY <1>1, <1>2, <1>5 DEF Set, Local
<1>6. ASSUME NEW a, NEW p, P(p), Set(t, [loc[t] EXCEPT !.todo = a, !.pc = p])
      PROVE  loc'[t].s = loc[t].s /\ loc'[t].pc # "expire"
  BY <1>1, <1>2, <1>6 DEF Set, Local
<1>7. ASSUME NEW d, MarkNext(t, d)
      PROVE  loc'[t].s = loc[t].s /\ loc'[t].pc # "expire"
  <2>1. PICK a, p : a = loc[t].todo \ {d} /\ p = IF a = {} THEN loc[t].ret ELSE "mark_next"
    OBVIOUS
  <2>2. Set(t, [loc[t] EXCEPT !.todo = a, !.cur = Nil, !.pc = p])
    BY <1>7, <2>1 DEF MarkNext
  <2>3. P(p)
    BY <2>1 DEF MarkPc
  <2>4. QED
    BY <1>3, <2>2, <2>3
<1>8. CASE mark_select(t)
  BY <1>6, <1>8 DEF mark_select, MarkPc
<1>9. CASE delete_parts(t)
  <2>1. PICK p : p = IF loc[t].todo = {} THEN loc[t].ret ELSE "mark_next"
    OBVIOUS
  <2>2. Goto(t, p)
    BY <1>9, <2>1 DEF delete_parts
  <2>3. P(p)
    BY <2>1 DEF MarkPc
  <2>4. QED
    BY <1>4, <2>2, <2>3
<1>10. CASE mark_manifests(t)
  BY <1>5, <1>7, <1>10 DEF mark_manifests, MarkPc
<1>11. CASE mark_parts(t) \/ mark_update(t)
  BY <1>4, <1>7, <1>11 DEF mark_parts, mark_update, MarkPc
<1>12. QED
  BY <1>8, <1>9, <1>10, <1>11 DEF mark_unreferenced_parts

\* UPDATE of the state of some sessions that exist.
Updated(D, v) ==
  /\ \A s \in D : s \in Session /\ sess[s] # NoSession
  /\ \A s \in Session : /\ s \in D => sess'[s].state = v /\ sess'[s].owner = sess[s].owner
                        /\ s \notin D => sess'[s] = sess[s]

LEMMA UpdateOne ==
  ASSUME TypeInv, NEW s \in Session, sess[s] # NoSession, NEW v, sess' = [sess EXCEPT ![s].state = v]
  PROVE  Updated({s}, v)
<1>1. sess \in [Session -> SessionRow \cup {NoSession}] /\ sess[s] \in SessionRow
  BY DEF TypeInv, TypeOK
<1>2. sess'[s] = [sess[s] EXCEPT !.state = v]
  BY <1>1
<1>3. sess'[s].state = v /\ sess'[s].owner = sess[s].owner
  BY <1>1, <1>2 DEF SessionRow
<1>4. \A u \in Session : u # s => sess'[u] = sess[u]
  BY <1>1
<1>5. QED
  BY <1>3, <1>4 DEF Updated

LEMMA UpdateMany ==
  ASSUME TypeInv, NEW D, \A s \in D : s \in Session /\ sess[s] # NoSession, NEW v,
         sess' = [s \in Session |-> IF s \in D THEN [sess[s] EXCEPT !.state = v] ELSE sess[s]]
  PROVE  Updated(D, v)
<1>1. SUFFICES ASSUME NEW s \in D PROVE sess'[s].state = v /\ sess'[s].owner = sess[s].owner
  BY DEF Updated
<1>2. sess[s] \in SessionRow
  BY DEF TypeInv, TypeOK
<1>3. sess'[s] = [sess[s] EXCEPT !.state = v]
  OBVIOUS
<1>4. QED
  BY <1>2, <1>3 DEF SessionRow

\* The conditional UPDATE.
LEMMA UpdateFrom ==
  ASSUME TypeInv, NEW s \in Session, NEW from \in Live, NEW to, transition(s, from, to)
  PROVE  \E D : /\ Updated(D, to) /\ \A u \in D : u = s /\ sess[u].state = from
                /\ (sess[s].state = from => s \in D)
<1>1. CASE sess[s].state = from
  <2>1. sess[s] # NoSession
    BY <1>1 DEF NoSession, Live
  <2>2. Updated({s}, to)
    BY <1>1, <2>1, UpdateOne DEF transition
  <2>3. QED
    BY <1>1, <2>2
<1>2. CASE sess[s].state # from
  <2>1. Updated({}, to)
    BY <1>2 DEF transition, Updated
  <2>2. QED
    BY <1>2, <2>1
<1>3. QED
  BY <1>1, <1>2
-----------------------------------------------------------------------------
(* A chunk some client was told is stored is there.                        *)

\* What a statement does to the disk, or leaves to the open transaction.
DiskStep ==
  \/ disk' = Tables'
  \/ /\ disk' = disk /\ files \subseteq files'
     /\ tx' = NoTx => tx = NoTx /\ UNCHANGED tables
     /\ tx' = "admin" \/ tx # "admin"

LEMMA StoredStep ==
  ASSUME TypeInv, StoredInv, NEW t \in Thread, NEW m, Set(t, m), ~ At(t, "idle") \/ MayStart(t),
         Stored(Tables)', DiskStep, tx' # "maint",
         t = "worker" => WorkerStored(m)', t # "worker" => WorkerStored(loc["worker"])'
  PROVE  StoredInv'
<1>1. loc'[t] = m /\ \A u \in Thread \ {t} : loc'[u] = loc[u]
  BY DEF Set, TypeInv, TypeOK
<1>2. WorkerStored(loc["worker"])'
  BY <1>1 DEF WorkerStored, Cont
<1>3. tx' = NoTx => disk' = Tables'
  BY DEF DiskStep, StoredInv, Tables
<1>4. (~ AbortsApart \/ tx' # "admin") => Stored(disk)'
  <2>1. CASE disk' = Tables'
    <3>1. Stored(disk)' <=> Stored(Tables)'
      BY <2>1 DEF Stored
    <3>2. QED
      BY <3>1
  <2>2. CASE disk' # Tables'
    <3>1. SUFFICES ASSUME ~ AbortsApart \/ tx # "admin" PROVE Stored(disk)'
      BY <2>2 DEF DiskStep
    <3>2. Stored(disk) /\ disk' = disk /\ files \subseteq files'
      BY <2>2, <3>1 DEF DiskStep, StoredInv
    <3>3. QED
      BY <3>2 DEF Stored
  <2>3. QED
    BY <2>1, <2>2
<1>5. ~ AbortsApart => At("worker", "idle")' \/ At("admin", "idle")'
  <2>1. SUFFICES ASSUME ~ AbortsApart PROVE At("worker", "idle")' \/ At("admin", "idle")'
    OBVIOUS
  <2>2. CASE t = "worker"
    <3>1. At("admin", "idle")
      <4>1. CASE ~ At(t, "idle")
        BY <2>1, <2>2, <4>1 DEF StoredInv
      <4>2. CASE MayStart(t) /\ "admin" \in Callers
        BY <2>1, <2>2, <4>2, ThreadFacts, ThreadAssumption DEF MayStart, AbortsApart
      <4>3. CASE "admin" \notin Callers
        BY <4>3 DEF StoredInv
      <4>4. QED
        BY <4>1, <4>2, <4>3
    <3>2. QED
      BY <1>1, <2>2, <3>1, ThreadFacts DEF At
  <2>3. CASE t = "admin"
    <3>1. At("worker", "idle")
      <4>1. CASE ~ At(t, "idle")
        BY <2>1, <2>3, <4>1 DEF StoredInv
      <4>2. CASE MayStart(t)
        BY <2>1, <2>3, <4>2, ThreadFacts, ThreadAssumption DEF MayStart, AbortsApart
      <4>3. QED
        BY <4>1, <4>2
    <3>2. QED
      BY <1>1, <2>3, <3>1, ThreadFacts DEF At
  <2>4. CASE t \notin {"worker", "admin"}
    BY <1>1, <2>1, <2>4, ThreadFacts DEF StoredInv, At
  <2>5. QED
    BY <2>2, <2>3, <2>4
<1>6. "admin" \notin Callers => At("admin", "idle")'
  BY <1>1, ThreadFacts DEF StoredInv, At, MayStart
<1>7. QED
  BY <1>2, <1>3, <1>4, <1>5, <1>6 DEF StoredInv, AbortsApart

\* Nothing that a live session relies on goes away.
Keeping ==
  /\ part' \subseteq part /\ files \subseteq files'
  /\ \A s \in Session : sess[s] # NoSession =>
       sess'[s] # NoSession /\ (sess'[s].state \in Live => sess[s].state \in Live)
  /\ \A d \in Digest : chunk[d] # NoChunk => chunk'[d] # NoChunk

LEMMA KeepingStored ==
  ASSUME TypeInv, StoredInv, Keeping
  PROVE  Stored(Tables)' /\ \A m : (Cont(m) \in PutPc => m.s \in Session) /\ WorkerStored(m) => WorkerStored(m)'
<1>1. \A p \in part : /\ p.session \in Session /\ p.digest \in Digest /\ sess[p.session] # NoSession
                      /\ sess[p.session].state \in Live => p.digest \in files /\ chunk[p.digest] # NoChunk
  BY DEF TypeInv, TypeOK, PartRow, StoredInv, Stored, Tables
<1>2. \A p \in part' : /\ sess'[p.session] # NoSession
                       /\ sess'[p.session].state \in Live => p.digest \in files' /\ chunk'[p.digest] # NoChunk
  BY <1>1 DEF Keeping
<1>3. Stored(Tables)'
  BY <1>2 DEF Stored, Tables
<1>4. \A d : InLiveSession(d)' => InLiveSession(d)
  BY <1>1 DEF Keeping, InLiveSession
<1>5. ASSUME NEW m, Cont(m) \in PutPc => m.s \in Session, WorkerStored(m) PROVE WorkerStored(m)'
  BY <1>4, <1>5 DEF WorkerStored, Keeping, Cont
<1>6. QED
  BY <1>3, <1>5

LEMMA KeepingStep ==
  ASSUME TypeInv, StoredInv, NEW t \in Thread, NEW m, Set(t, m), ~ At(t, "idle") \/ MayStart(t),
         Keeping, DiskStep, tx' # "maint", t = "worker" => WorkerStored(m)'
  PROVE  StoredInv'
<1>1. "worker" \in Thread /\ WorkerStored(loc["worker"])
  BY ThreadFacts DEF StoredInv
<1>2. Cont(loc["worker"]) \in PutPc => loc["worker"].s \in Session
  BY <1>1, OwnFacts DEF Args
<1>3. PICK l : l = loc["worker"]
  OBVIOUS
<1>4. WorkerStored(l)'
  BY <1>1, <1>2, <1>3, KeepingStored
<1>5. t # "worker" => loc'["worker"] = l
  BY <1>1, <1>3 DEF Set, TypeInv, TypeOK
<1>6. t # "worker" => WorkerStored(loc["worker"])'
  BY <1>4, <1>5 DEF WorkerStored, Cont
<1>7. QED
  BY <1>6, KeepingStored, StoredStep

\* The positions of the worker at which it relies on something.
Watched == {"gc_remove", "gc_delete", "put_begin", "put_register"}

LEMMA Unwatched ==
  ASSUME NEW m, m.pc \notin Watched, Cont(m) \notin PutPc
  PROVE  WorkerStored(m)' /\ WorkerStored(m)
BY DEF WorkerStored, Watched, Cont

LEMMA UpdatedKeeps ==
  ASSUME NEW D, NEW v, Updated(D, v), v \in Live \cup Terminal, v \in Live => \A s \in D : sess[s].state \in Live,
         UNCHANGED <<part, chunk, files>>
  PROVE  Keeping
<1>1. v # "NONE"
  BY DEF Live, Terminal
<1>2. \A s \in Session : sess[s] # NoSession =>
        sess'[s] # NoSession /\ (sess'[s].state \in Live => sess[s].state \in Live)
  BY <1>1 DEF Updated, NoSession
<1>3. QED
  BY <1>2 DEF Keeping

LEMMA SameKeeps ==
  ASSUME UNCHANGED <<sess, part, chunk>>, files \subseteq files'
  PROVE  Keeping
BY DEF Keeping

LEMMA AutocommitDisk ==
  ASSUME Autocommit, UNCHANGED <<tx, files>>
  PROVE  DiskStep
BY DEF Autocommit, DiskStep

LEMMA StartStored ==
  ASSUME TypeInv, StoredInv, NEW t \in Thread,
         \/ /\ t = "worker"
            /\ \/ create_session(t) \/ put_chunk(t) \/ commit_session(t) \/ delete_artifact(t)
               \/ collect_garbage(t)
         \/ run_maintenance(t) \/ abort_session(t)
  PROVE  StoredInv'
<1>1. PICK m : Set(t, m) /\ StartsAt(m)
  BY StartAt
<1>2. MayStart(t) /\ UNCHANGED <<tables, disk, files>>
  BY DEF create_session, put_chunk, commit_session, delete_artifact, collect_garbage, run_maintenance, abort_session
<1>3. tx' = tx \/ (tx = NoTx /\ tx' = "worker")
  BY DEF create_session, put_chunk, commit_session, delete_artifact, collect_garbage, run_maintenance, abort_session
<1>4. tx' # "maint" /\ DiskStep
  BY <1>2, <1>3 DEF StoredInv, DiskStep, NoTx
<1>5. Keeping
  BY <1>2, SameKeeps
<1>6. WorkerStored(m)'
  <2>1. m.pc \notin Watched
    BY <1>1 DEF StartsAt, Watched
  <2>2. CASE Cont(m) \notin PutPc
    BY <2>1, <2>2, Unwatched
  <2>3. CASE Cont(m) \in PutPc
    <3>1. Cont(m) = "put_reload"
      BY <1>1, <2>3 DEF StartsAt, Cont, MarkPc, PutPc
    <3>2. m.s \in Session /\ sess'[m.s] # NoSession
      BY <1>1, <1>2, <3>1 DEF StartsAt, NoSession
    <3>3. QED
      BY <2>1, <3>2 DEF WorkerStored, Watched
  <2>4. QED
    BY <2>2, <2>3
<1>7. QED
  BY <1>1, <1>2, <1>4, <1>5, <1>6, KeepingStep

\* The worker gives its own transaction up.
LEMMA RollbackStored ==
  ASSUME TypeInv, Safe, StoredInv, Cont(loc["worker"]) \in TxPc, ROLLBACK, UNCHANGED files, NEW m, Set("worker", m),
         ~ At("worker", "idle"), m.pc \notin Watched, Cont(m) \notin PutPc
  PROVE  StoredInv'
<1>1. "worker" \in Thread /\ tx = "worker"
  BY ThreadFacts DEF Safe, TxOwner
<1>2. Stored(disk)
  BY <1>1 DEF StoredInv
<1>3. sess' = disk.sess /\ part' = disk.part /\ chunk' = disk.chunk /\ artifact' = disk.artifact /\ disk' = disk /\ tx' = NoTx
  BY DEF ROLLBACK
<1>4. Stored(Tables)'
  BY <1>2, <1>3 DEF Stored, Tables
<1>5. disk' = Tables'
  BY <1>3 DEF Tables, TypeInv, TypeOK, DatabaseType
<1>6. tx' # "maint" /\ DiskStep
  BY <1>3, <1>5 DEF DiskStep, NoTx
<1>7. QED
  BY <1>1, <1>4, <1>6, Unwatched, StoredStep

LEMMA CreateStored ==
  ASSUME TypeInv, Safe, StoredInv, create_insert("worker")
  PROVE  StoredInv'
<1>1. /\ "worker" \in Thread /\ loc["worker"].pc = "create" /\ ~ At("worker", "idle") /\ Cont(loc["worker"]) \in TxPc
      /\ Set("worker", Idle) /\ Idle.pc = "idle" /\ Cont(Idle) = "idle" /\ UNCHANGED files
  BY ThreadFacts, DoneAt DEF create_insert, At, Cont, MarkPc, TxPc
<1>2. Idle.pc \notin Watched /\ Cont(Idle) \notin PutPc
  BY <1>1 DEF Watched, PutPc
<1>3. CASE ROLLBACK
  BY <1>1, <1>2, <1>3, RollbackStored
<1>4. CASE ~ ROLLBACK
  <2>1. PICK r \in CreateRequests, s \in Session :
          /\ sess[s] = NoSession
          /\ sess' = [sess EXCEPT ![s] =
               [state |-> "OPEN", owner |-> r.owner, name |-> r.name, size |-> r.size,
                digest |-> r.digest, expires_at |-> loc["worker"].now + SessionLifetime]]
    BY <1>4 DEF create_insert
  <2>2. \A u \in Session : sess[u] # NoSession => sess'[u] = sess[u]
    BY <2>1 DEF TypeInv, TypeOK
  <2>3. UNCHANGED <<part, chunk>> /\ tx' = NoTx /\ disk' = Tables'
    BY <1>4 DEF create_insert, COMMIT
  <2>4. Keeping
    BY <1>1, <2>2, <2>3 DEF Keeping
  <2>5. tx' # "maint" /\ DiskStep
    BY <2>3 DEF DiskStep, NoTx
  <2>6. QED
    BY <1>1, <1>2, <2>4, <2>5, Unwatched, KeepingStep
<1>5. QED
  BY <1>3, <1>4

LEMMA PutStored ==
  ASSUME TypeInv, Safe, StoredInv,
         \/ put_reload("worker") \/ write_temp_file("worker") \/ rename_into_place("worker")
         \/ put_begin("worker") \/ put_register("worker")
  PROVE  StoredInv'
<1> DEFINE l == loc["worker"]
<1>1. /\ "worker" \in Thread /\ l \in Local /\ l.pc \in PutPc /\ Cont(l) = l.pc /\ ~ At("worker", "idle")
      /\ WorkerStored(l)
  BY ThreadFacts, OwnFacts DEF put_reload, write_temp_file, rename_into_place, put_begin, put_register, At, Cont,
     MarkPc, PutPc, StoredInv
<1>2. l.s \in Session /\ l.data \in Digest /\ sess[l.s] # NoSession
  BY <1>1, OwnFacts DEF Args, WorkerStored
<1>3. Idle.pc \notin Watched /\ Cont(Idle) \notin PutPc
  BY IdleType DEF Idle, Watched, PutPc
<1>4. CASE put_register("worker") /\ ROLLBACK
  <2>1. Set("worker", Idle) /\ Cont(l) \in TxPc /\ UNCHANGED files
    BY <1>1, <1>4, DoneAt DEF put_register, At, TxPc
  <2>2. QED
    BY <1>1, <1>3, <1>4, <2>1, RollbackStored
<1>5. CASE put_register("worker") /\ ~ ROLLBACK
  <2>1. Set("worker", Idle) /\ l.data \in files
    BY <1>1, <1>5, DoneAt DEF put_register, At, WorkerStored
  <2>2. PICK q : q = [session |-> l.s, ordinal |-> l.ordinal, digest |-> l.data]
    OBVIOUS
  <2>3. q.session = l.s /\ q.digest = l.data
    BY <2>2
  <2>4. /\ part' = part \cup {q} /\ UNCHANGED <<sess, files>> /\ disk' = Tables' /\ tx' = NoTx
        /\ chunk' = [reactivated({l.data}) EXCEPT ![l.data] = IF @ = NoChunk THEN ActiveChunk ELSE @]
    BY <1>5, <2>2 DEF put_register, COMMIT
  <2>5. \A d \in Digest : d # l.data => chunk'[d] = chunk[d]
    BY <1>2, <2>4 DEF reactivated
  <2>6. chunk'[l.data] # NoChunk
    BY <1>2, <2>4 DEF reactivated, ActiveChunk, NoChunk
  <2>7. \A p \in part : /\ p.digest \in Digest /\ sess[p.session] # NoSession
                        /\ sess[p.session].state \in Live => p.digest \in files /\ chunk[p.digest] # NoChunk
    BY DEF TypeInv, TypeOK, PartRow, StoredInv, Stored, Tables
  <2>8. \A p \in part' : /\ sess'[p.session] # NoSession
                         /\ sess'[p.session].state \in Live => p.digest \in files' /\ chunk'[p.digest] # NoChunk
    BY <1>2, <2>1, <2>3, <2>4, <2>5, <2>6, <2>7
  <2>9. Stored(Tables)'
    BY <2>8 DEF Stored, Tables
  <2>10. tx' # "maint" /\ DiskStep
    BY <2>4 DEF DiskStep, NoTx
  <2>11. QED
    BY <1>1, <1>3, <2>1, <2>9, <2>10, Unwatched, StoredStep
<1>6. CASE ~ put_register("worker")
  <2>1. UNCHANGED <<tables, disk>> /\ files \subseteq files'
    BY <1>6 DEF put_reload, write_temp_file, rename_into_place, put_begin
  <2>2. tx' = tx \/ (tx = NoTx /\ tx' = "worker")
    BY <1>6 DEF put_reload, write_temp_file, rename_into_place, put_begin, BEGIN, BeginFails
  <2>3. Keeping /\ DiskStep /\ tx' # "maint"
    BY <2>1, <2>2, SameKeeps DEF DiskStep, NoTx, StoredInv
  <2>4. CASE Done("worker")
    BY <1>1, <1>3, <2>3, <2>4, DoneAt, Unwatched, KeepingStep
  <2>5. CASE ~ Done("worker")
    <3>1. PICK label \in {"put_store", "put_rename", "put_begin", "put_register"} :
            /\ Goto("worker", label)
            /\ label \in {"put_begin", "put_register"} => l.data \in files'
      <4>1. CASE put_reload("worker") \/ write_temp_file("worker")
        BY <2>5, <4>1 DEF put_reload, write_temp_file
      <4>2. CASE rename_into_place("worker")
        BY <2>5, <4>2 DEF rename_into_place
      <4>3. CASE put_begin("worker")
        BY <1>1, <2>5, <4>3 DEF put_begin, BEGIN, BeginFails, WorkerStored, At
      <4>4. QED
        BY <1>6, <4>1, <4>2, <4>3
    <3>2. PICK m : Set("worker", m) /\ m.pc = label /\ m.s = l.s /\ m.data = l.data /\ Cont(m) = label
      BY <1>1, <3>1, GotoAt, LabelFacts DEF MarkPc
    <3>3. WorkerStored(m)'
      BY <1>2, <2>1, <3>1, <3>2 DEF WorkerStored
    <3>4. QED
      BY <1>1, <2>3, <3>2, <3>3, KeepingStep
  <2>6. QED
    BY <2>4, <2>5
<1>7. QED
  BY <1>4, <1>5, <1>6

\* UPDATE of one session's state, in a step that changes no other table.
LEMMA TransitionStored ==
  ASSUME TypeInv, StoredInv, NEW t \in Thread, ~ At(t, "idle"), NEW m, Set(t, m), t = "worker" => WorkerStored(m)',
         NEW s \in Session, NEW from \in Live, NEW to \in Live \cup Terminal, transition(s, from, to),
         UNCHANGED <<part, chunk, tx, files>>, Autocommit
  PROVE  StoredInv'
<1>1. PICK D : Updated(D, to) /\ \A u \in D : sess[u].state = from
  BY UpdateFrom
<1>2. Keeping
  BY <1>1, UpdatedKeeps
<1>3. DiskStep /\ tx' # "maint"
  BY AutocommitDisk DEF StoredInv
<1>4. QED
  BY <1>2, <1>3, KeepingStep

LEMMA CommitStored ==
  ASSUME TypeInv, Safe, StoredInv,
         \/ commit_transition("worker") \/ commit_changes("worker")
         \/ commit_validate("worker") \/ commit_begin("worker")
         \/ commit_publish("worker") \/ commit_reopen("worker")
  PROVE  StoredInv'
<1> DEFINE l == loc["worker"]
<1>1. "worker" \in Thread /\ l \in Local /\ l.pc \in CommitPc /\ Cont(l) = l.pc /\ ~ At("worker", "idle")
  BY ThreadFacts, OwnFacts DEF commit_transition, commit_changes, commit_validate, commit_begin, commit_publish,
     commit_reopen, At, Cont, MarkPc, CommitPc
<1>2. l.s \in Session /\ sess[l.s] # NoSession
  BY <1>1, OwnFacts DEF Args, Commits
<1>3. PICK m : Set("worker", m) /\ m.pc \in CommitPc \cup {"idle"}
  <2>1. CASE Done("worker")
    BY <1>1, <2>1, DoneAt
  <2>2. CASE \E label \in CommitPc : Goto("worker", label)
    BY <1>1, <2>2, GotoAt, LabelFacts DEF CommitPc
  <2>3. CASE commit_validate("worker") /\ ~ Goto("worker", "commit_reopen")
    <3>1. PICK mf : mf = ManifestOf(l.s)
      OBVIOUS
    <3>2. PICK m : m = [l EXCEPT !.manifest = mf, !.pc = "commit_begin"]
      OBVIOUS
    <3>3. m.pc = "commit_begin"
      BY <1>1, <3>2 DEF Local
    <3>4. Set("worker", m)
      BY <2>3, <3>1, <3>2 DEF commit_validate
    <3>5. QED
      BY <3>3, <3>4 DEF CommitPc
  <2>4. QED
    BY <2>1, <2>2, <2>3 DEF commit_transition, commit_changes, commit_validate, commit_begin, commit_publish,
       commit_reopen, BEGIN, BeginFails, CommitPc
<1>4. m.pc \notin Watched /\ Cont(m) \notin PutPc
  BY <1>3 DEF CommitPc, Watched, Cont, MarkPc, PutPc
<1>5. CASE commit_transition("worker") \/ commit_reopen("worker")
  BY <1>1, <1>2, <1>3, <1>4, <1>5, Unwatched, TransitionStored DEF commit_transition, commit_reopen, Live
<1>6. CASE commit_changes("worker") \/ commit_validate("worker") \/ commit_begin("worker")
  <2>1. UNCHANGED <<tables, disk, files>> /\ (tx' = tx \/ (tx = NoTx /\ tx' = "worker"))
    BY <1>6 DEF commit_changes, commit_validate, commit_begin, BEGIN, BeginFails
  <2>2. Keeping /\ DiskStep /\ tx' # "maint"
    BY <2>1, SameKeeps DEF DiskStep, NoTx, StoredInv
  <2>3. QED
    BY <1>1, <1>3, <1>4, <2>2, Unwatched, KeepingStep
<1>7. CASE commit_publish("worker") /\ ROLLBACK
  <2>1. Cont(l) \in TxPc /\ UNCHANGED files
    BY <1>1, <1>7 DEF commit_publish, At, TxPc
  <2>2. QED
    BY <1>1, <1>3, <1>4, <1>7, <2>1, RollbackStored
<1>8. CASE commit_publish("worker") /\ ~ ROLLBACK
  <2>1. /\ sess' = [sess EXCEPT ![l.s].state = "COMPLETED"] /\ chunk' = reactivated(Range(l.manifest))
        /\ UNCHANGED <<part, files>> /\ disk' = Tables' /\ tx' = NoTx
    BY <1>8 DEF commit_publish, COMMIT
  <2>2. Updated({l.s}, "COMPLETED")
    BY <1>2, <2>1, UpdateOne
  <2>3. \A s \in Session : sess[s] # NoSession =>
          sess'[s] # NoSession /\ (sess'[s].state \in Live => sess[s].state \in Live)
    BY <2>2 DEF Updated, NoSession, Live
  <2>4. \A d \in Digest : chunk[d] # NoChunk => chunk'[d] # NoChunk
    BY <2>1 DEF reactivated, NoChunk, ActiveChunk
  <2>5. Keeping /\ DiskStep /\ tx' # "maint"
    BY <2>1, <2>3, <2>4 DEF Keeping, DiskStep, NoTx
  <2>6. QED
    BY <1>1, <1>3, <1>4, <2>5, Unwatched, KeepingStep
<1>9. QED
  BY <1>5, <1>6, <1>7, <1>8

LEMMA AbortStored ==
  ASSUME TypeInv, StoredInv, NEW t \in Thread, t # "maint",
         abort_begin(t) \/ abort_transition(t) \/ abort_commit(t)
  PROVE  StoredInv'
<1>1. /\ ~ At(t, "idle") /\ loc[t] \in Local /\ UNCHANGED files
      /\ Idle.pc \notin Watched /\ Cont(Idle) \notin PutPc
  BY OwnFacts, IdleType DEF abort_begin, abort_transition, abort_commit, At, Idle, Watched, PutPc
<1>2. CASE abort_begin(t)
  <2>1. PICK m : Set(t, m) /\ m.pc \notin Watched /\ Cont(m) \notin PutPc
    <3>1. CASE Done(t)
      BY <1>1, <3>1, DoneAt
    <3>2. CASE Goto(t, "abort_transition")
      BY <3>2, GotoAt, LabelFacts DEF Watched, PutPc, MarkPc
    <3>3. QED
      BY <1>2, <3>1, <3>2 DEF abort_begin, BEGIN, BeginFails
  <2>2. UNCHANGED <<tables, disk>> /\ (tx' = tx \/ (tx = NoTx /\ tx' = t))
    BY <1>2 DEF abort_begin, BEGIN, BeginFails
  <2>3. Keeping /\ DiskStep /\ tx' # "maint"
    BY <1>1, <2>2, SameKeeps, ThreadFacts DEF DiskStep, NoTx, StoredInv
  <2>4. QED
    BY <1>1, <2>1, <2>3, Unwatched, KeepingStep
<1>3. CASE abort_transition(t)
  <2>1. loc[t].s \in Session /\ loc[t].from \in Live
    BY <1>3, OwnFacts DEF abort_transition, At, Args, Cont, MarkPc, AbortPc
  <2>2. PICK m : m = [loc[t] EXCEPT !.pc = "mark_select", !.ret = "abort_commit"]
    OBVIOUS
  <2>3. m.pc = "mark_select" /\ m.ret = "abort_commit"
    BY <1>1, <2>2 DEF Local
  <2>4. m.pc \notin Watched /\ Cont(m) \notin PutPc
    BY <2>3 DEF Watched, Cont, MarkPc, PutPc
  <2>5. Set(t, m)
    BY <1>3, <2>2 DEF abort_transition
  <2>6. QED
    BY <1>1, <1>3, <2>1, <2>4, <2>5, Unwatched, TransitionStored DEF abort_transition, Terminal
<1>4. CASE abort_commit(t)
  <2>1. UNCHANGED tables /\ disk' = Tables' /\ tx' = NoTx /\ Done(t)
    BY <1>4 DEF abort_commit, COMMIT
  <2>2. Keeping /\ DiskStep /\ tx' # "maint"
    BY <1>1, <2>1, SameKeeps DEF DiskStep, NoTx
  <2>3. QED
    BY <1>1, <2>1, <2>2, DoneAt, Unwatched, KeepingStep
<1>5. QED
  BY <1>2, <1>3, <1>4

LEMMA DeleteStored ==
  ASSUME TypeInv, Safe, StoredInv, delete_row("worker") \/ delete_commit("worker")
  PROVE  StoredInv'
<1> DEFINE l == loc["worker"]
<1>1. /\ "worker" \in Thread /\ l \in Local /\ ~ At("worker", "idle") /\ Cont(l) \in TxPc /\ UNCHANGED files
      /\ Idle.pc \notin Watched /\ Cont(Idle) \notin PutPc
  BY ThreadFacts, OwnFacts, IdleType DEF delete_row, delete_commit, At, Cont, MarkPc, TxPc, Idle, Watched, PutPc
<1>2. CASE delete_row("worker") /\ artifact[l.name] = NoArtifact
  BY <1>1, <1>2, DoneAt, RollbackStored DEF delete_row
<1>3. CASE delete_row("worker") /\ artifact[l.name] # NoArtifact
  <2>1. PICK D : D = Range(artifact[l.name].manifest)
    OBVIOUS
  <2>2. PICK p : p = IF D = {} THEN "delete_commit" ELSE "mark_next"
    OBVIOUS
  <2>3. PICK m : m = [l EXCEPT !.todo = D, !.ret = "delete_commit", !.pc = p]
    OBVIOUS
  <2>4. m.pc = p /\ m.ret = "delete_commit"
    BY <1>1, <2>3 DEF Local
  <2>5. Set("worker", m) /\ UNCHANGED <<sess, part, chunk, disk, tx>>
    BY <1>3, <2>1, <2>2, <2>3 DEF delete_row
  <2>6. m.pc \notin Watched /\ Cont(m) \notin PutPc
    BY <2>2, <2>4 DEF Watched, Cont, MarkPc, PutPc
  <2>7. tx # NoTx
    BY <1>1, ThreadFacts DEF Safe, TxOwner
  <2>8. Keeping /\ DiskStep /\ tx' # "maint"
    BY <1>1, <2>5, <2>7, SameKeeps DEF DiskStep, StoredInv
  <2>9. QED
    BY <1>1, <2>5, <2>6, <2>8, Unwatched, KeepingStep
<1>4. CASE delete_commit("worker")
  <2>1. UNCHANGED tables /\ disk' = Tables' /\ tx' = NoTx /\ Done("worker")
    BY <1>4 DEF delete_commit, COMMIT
  <2>2. Keeping /\ DiskStep /\ tx' # "maint"
    BY <1>1, <2>1, SameKeeps DEF DiskStep, NoTx
  <2>3. QED
    BY <1>1, <2>1, <2>2, DoneAt, Unwatched, KeepingStep
<1>5. QED
  BY <1>2, <1>3, <1>4

\* The collector takes nothing a live session has: neither of what the
\* connection sees nor, unless aborts go on meanwhile, of what is on disk.
LEMMA GcStored ==
  ASSUME TypeInv, Safe, StoredInv,
         \/ gc_check("worker") \/ gc_reactivate("worker") \/ gc_remove("worker") \/ gc_delete("worker")
  PROVE  StoredInv'
<1> DEFINE l == loc["worker"]
<1>1. /\ "worker" \in Thread /\ l.pc \in GcPc /\ ~ At("worker", "idle") /\ Cont(l) = l.pc
      /\ UNCHANGED <<sess, part, tx>> /\ tx' # "maint"
  BY ThreadFacts DEF gc_check, gc_reactivate, gc_remove, gc_delete, At, GcPc, Cont, MarkPc, StoredInv
<1>2. PICK m : Set("worker", m) /\ Collects(m)
  BY GcAt
<1>3. \A d : InLiveSession(d)' <=> InLiveSession(d)
  BY <1>1 DEF InLiveSession
<1>4. WorkerStored(m)'
  <2>1. Cont(m) \notin PutPc /\ m.pc \notin {"put_begin", "put_register"}
    BY <1>2 DEF Collects, GcPc, Cont, MarkPc, PutPc
  <2>2. m.pc \in {"gc_remove", "gc_delete"} => ~ InLiveSession(m.cur)
    BY <1>2 DEF Collects, chunk_referenced, gc_remove, At, StoredInv, WorkerStored
  <2>3. QED
    BY <1>3, <2>1, <2>2 DEF WorkerStored, Cont
<1>5. chunk \in [Digest -> ChunkRow]
  BY DEF TypeInv, TypeOK
<1>6. CASE gc_check("worker") \/ gc_reactivate("worker")
  <2>1. UNCHANGED files /\ \A d \in Digest : chunk[d] # NoChunk => chunk'[d] # NoChunk
    <3>1. CASE gc_check("worker")
      BY <3>1 DEF gc_check
    <3>2. CASE gc_reactivate("worker")
      BY <1>5, <3>2 DEF gc_reactivate, NoChunk, ActiveChunk
    <3>3. QED
      BY <1>6, <3>1, <3>2
  <2>2. Keeping
    BY <1>1, <2>1 DEF Keeping
  <2>3. DiskStep
    <3>1. CASE gc_check("worker")
      BY <1>1, <2>1, <3>1 DEF gc_check, DiskStep
    <3>2. CASE gc_reactivate("worker")
      BY <1>1, <2>1, <3>2, AutocommitDisk DEF gc_reactivate
    <3>3. QED
      BY <1>6, <3>1, <3>2
  <2>4. QED
    BY <1>1, <1>2, <1>4, <2>2, <2>3, KeepingStep
<1>7. \A p \in part : /\ p.digest \in Digest /\ sess[p.session] # NoSession
                      /\ sess[p.session].state \in Live => p.digest \in files /\ chunk[p.digest] # NoChunk
  BY DEF TypeInv, TypeOK, PartRow, StoredInv, Stored, Tables
<1>8. CASE gc_delete("worker")
  <2>1. ~ InLiveSession(l.cur)
    BY <1>8 DEF gc_delete, At, StoredInv, WorkerStored
  <2>2. \A d \in Digest : d # l.cur => chunk'[d] = chunk[d]
    BY <1>5, <1>8 DEF gc_delete
  <2>3. UNCHANGED files /\ Autocommit
    BY <1>8 DEF gc_delete
  <2>4. \A p \in part' : /\ sess'[p.session] # NoSession
                         /\ sess'[p.session].state \in Live => p.digest \in files' /\ chunk'[p.digest] # NoChunk
    BY <1>1, <1>7, <2>1, <2>2, <2>3 DEF InLiveSession
  <2>5. Stored(Tables)'
    BY <2>4 DEF Stored, Tables
  <2>6. QED
    BY <1>1, <1>2, <1>4, <2>3, <2>5, AutocommitDisk, StoredStep
<1>9. CASE gc_remove("worker")
  <2>1. ~ InLiveSession(l.cur) /\ files' = files \ {l.cur} /\ UNCHANGED <<tables, disk>>
    BY <1>9 DEF gc_remove, At, StoredInv, WorkerStored
  <2>2. \A p \in part : /\ sess[p.session] # NoSession
                        /\ sess[p.session].state \in Live => p.digest \in files' /\ chunk[p.digest] # NoChunk
    BY <1>7, <2>1 DEF InLiveSession
  <2>3. Stored(Tables)'
    BY <2>1, <2>2 DEF Stored, Tables
  <2>4. CASE tx = NoTx
    <3>1. disk' = Tables'
      BY <2>1, <2>4 DEF StoredInv, Tables
    <3>2. QED
      BY <1>1, <1>2, <1>4, <2>3, <3>1, StoredStep DEF DiskStep
  <2>5. CASE tx # NoTx
    <3>1. tx = "admin"
      <4>1. Cont(l) \notin TxPc
        BY <1>1 DEF GcPc, TxPc
      <4>2. tx # "worker" /\ tx # "maint" /\ tx \in Thread
        BY <1>1, <2>5, <4>1 DEF Safe, TxOwner, StoredInv, TypeInv, TypeOK
      <4>3. QED
        BY <4>2 DEF Thread
    <3>2. ~ At("admin", "idle")
      BY <3>1, ThreadFacts DEF Safe, TxOwner, At, Cont, MarkPc, TxPc
    <3>3. AbortsApart /\ "admin" \in Callers
      BY <1>1, <3>2 DEF StoredInv
    <3>4. loc'["worker"] = m /\ loc'["admin"] = loc["admin"]
      BY <1>1, <1>2, ThreadFacts DEF Set, TypeInv, TypeOK
    <3>5. WorkerStored(loc["worker"])'
      BY <1>4, <3>4 DEF WorkerStored, Cont
    <3>6. QED
      BY <1>1, <2>3, <2>5, <3>1, <3>3, <3>5 DEF StoredInv, AbortsApart
  <2>6. QED
    BY <2>4, <2>5
<1>10. QED
  BY <1>6, <1>8, <1>9

LEMMA ExpireStored ==
  ASSUME TypeInv, StoredInv, expire_session_if_due("worker")
  PROVE  StoredInv'
<1> DEFINE l == loc["worker"]
<1>1. "worker" \in Thread /\ ~ At("worker", "idle") /\ l.pc = "expire" /\ Cont(l) = l.ret /\ WorkerStored(l)
  BY ThreadFacts DEF expire_session_if_due, At, Cont, MarkPc, StoredInv
<1>2. l.s \in Session
  BY <1>1, OwnFacts DEF Args
<1>3. PICK m : Set("worker", m) /\ m.pc = "mark_select" /\ m.s = l.s /\ m.ret = l.ret
  BY <1>1, GotoAt, LabelFacts DEF expire_session_if_due
<1>4. PICK D : Updated(D, "EXPIRED")
  BY <1>2, UpdateFrom DEF expire_session_if_due, Live
<1>5. WorkerStored(m)'
  <2>1. Cont(m) = Cont(l)
    BY <1>1, <1>3 DEF Cont, MarkPc
  <2>2. Cont(l) \in PutPc => sess'[l.s] # NoSession
    BY <1>1, <1>2, <1>4 DEF WorkerStored, Updated, NoSession
  <2>3. QED
    BY <1>3, <2>1, <2>2 DEF WorkerStored, Cont
<1>6. QED
  BY <1>1, <1>2, <1>3, <1>5, TransitionStored DEF expire_session_if_due, Live, Terminal

LEMMA MaintStored ==
  ASSUME TypeInv, StoredInv,
         \/ cleanup_temp_files("maint") \/ maint_expire("maint") \/ maint_rollback("maint")
         \/ maint_select("maint") \/ maint_next("maint")
  PROVE  StoredInv'
<1> DEFINE l == loc["maint"]
<1>1. "maint" \in Thread /\ "maint" # "worker" /\ ~ At("maint", "idle") /\ UNCHANGED <<part, chunk, tx, files>> /\ tx' # "maint"
  BY ThreadFacts DEF cleanup_temp_files, maint_expire, maint_rollback, maint_select, maint_next, At, StoredInv
<1>2. PICK m : Set("maint", m)
  <2>1. CASE cleanup_temp_files("maint") \/ maint_expire("maint") \/ maint_rollback("maint")
    BY <2>1 DEF cleanup_temp_files, maint_expire, maint_rollback, Goto
  <2>2. CASE maint_select("maint")
    BY <2>2 DEF maint_select
  <2>3. CASE maint_next("maint")
    BY <2>3 DEF maint_next, Done
  <2>4. QED
    BY <2>1, <2>2, <2>3
<1>3. CASE maint_expire("maint")
  <2>1. PICK D : D = {s \in Session : Due(s, l.now)}
    OBVIOUS
  <2>2. \A s \in D : s \in Session /\ sess[s] # NoSession
    BY <2>1 DEF Due, NoSession
  <2>3. Updated(D, "EXPIRED")
    BY <1>3, <2>1, <2>2, UpdateMany DEF maint_expire
  <2>4. Keeping
    BY <1>1, <2>3, UpdatedKeeps DEF Live, Terminal
  <2>5. QED
    BY <1>1, <1>2, <1>3, <2>4, AutocommitDisk, KeepingStep DEF maint_expire
<1>4. CASE maint_rollback("maint")
  <2>1. PICK D : D = {s \in Session : sess[s].state = "COMMITTING"}
    OBVIOUS
  <2>2. \A s \in D : s \in Session /\ sess[s] # NoSession /\ sess[s].state \in Live
    BY <2>1 DEF NoSession, Live
  <2>3. Updated(D, "OPEN")
    BY <1>4, <2>1, <2>2, UpdateMany DEF maint_rollback
  <2>4. Keeping
    BY <1>1, <2>2, <2>3, UpdatedKeeps DEF Live
  <2>5. QED
    BY <1>1, <1>2, <1>4, <2>4, AutocommitDisk, KeepingStep DEF maint_rollback
<1>5. CASE cleanup_temp_files("maint") \/ maint_select("maint") \/ maint_next("maint")
  <2>1. UNCHANGED <<tables, disk>>
    BY <1>5 DEF cleanup_temp_files, maint_select, maint_next
  <2>2. Keeping /\ DiskStep
    BY <1>1, <2>1, SameKeeps DEF DiskStep
  <2>3. QED
    BY <1>1, <1>2, <2>2, KeepingStep
<1>6. QED
  BY <1>3, <1>4, <1>5

LEMMA MarkStored ==
  ASSUME TypeInv, StoredInv, NEW t \in Thread, mark_unreferenced_parts(t)
  PROVE  StoredInv'
<1> DEFINE l == loc[t]
<1>1. PICK m \in Local : Set(t, m) /\ Cont(m) = Cont(l) /\ Cont(l) \in Returns
  BY MarkMove
<1>2. m.s = l.s /\ (Cont(l) \in PutPc => l.s \in Session)
  <2>1. loc'[t] = m
    BY <1>1 DEF Set, TypeInv, TypeOK
  <2>2. QED
    BY <2>1, MarkKeeps, OwnFacts DEF Args
<1>3. ~ At(t, "idle") /\ UNCHANGED <<sess, tx, files>> /\ part' \subseteq part /\ tx' # "maint"
  BY DEF mark_unreferenced_parts, mark_select, delete_parts, mark_manifests, mark_parts, mark_update, At, StoredInv
<1>4. \A d \in Digest : chunk[d] # NoChunk => chunk'[d] # NoChunk
  <2>1. CASE mark_update(t)
    <3>1. chunk \in [Digest -> ChunkRow]
      BY DEF TypeInv, TypeOK
    <3>2. QED
      BY <2>1, <3>1 DEF mark_update, PendingChunk, NoChunk
  <2>2. CASE ~ mark_update(t)
    BY <2>2 DEF mark_unreferenced_parts, mark_select, delete_parts, mark_manifests, mark_parts
  <2>3. QED
    BY <2>1, <2>2
<1>5. Keeping
  BY <1>3, <1>4 DEF Keeping
<1>6. UNCHANGED <<tables, disk>> \/ Autocommit
  BY DEF mark_unreferenced_parts, mark_select, delete_parts, mark_manifests, mark_parts, mark_update
<1>7. DiskStep
  BY <1>3, <1>6, AutocommitDisk DEF DiskStep
<1>8. t = "worker" => WorkerStored(m)'
  <2>1. m.pc \notin Watched
    BY <1>1 DEF Watched, Cont, MarkPc, Returns
  <2>2. t = "worker" => (Cont(m) \in PutPc => sess'[m.s] # NoSession)
    BY <1>1, <1>2, <1>3 DEF StoredInv, WorkerStored
  <2>3. QED
    BY <2>1, <2>2 DEF WorkerStored, Watched, Cont
<1>9. QED
  BY <1>1, <1>3, <1>5, <1>7, <1>8, KeepingStep

LEMMA NextStored ==
  ASSUME TypeInv, Safe, StoredInv, ~ AbortsApart \/ MaxCrashes = 0, [Next]_vars
  PROVE  StoredInv'
<1>1. CASE Worker
  BY <1>1, ThreadFacts, StartStored, CreateStored, PutStored, CommitStored, DeleteStored, GcStored, ExpireStored
  DEF Worker
<1>2. CASE \E t \in {"worker", "admin"} : Aborter(t)
  BY <1>2, ThreadFacts, StartStored, AbortStored DEF Aborter
<1>3. CASE Maintenance
  BY <1>3, ThreadFacts, StartStored, MaintStored DEF Maintenance
<1>4. CASE \E t \in Thread : mark_unreferenced_parts(t)
  BY <1>4, MarkStored
<1>5. CASE Tick \/ UNCHANGED vars
  <2>1. UNCHANGED <<sess, part, chunk, artifact, disk, tx, files, loc>>
    BY <1>5 DEF Tick, vars
  <2>2. QED
    BY <2>1 DEF StoredInv, Stored, Tables, AbortsApart, At, WorkerStored, InLiveSession, Cont
<1>6. CASE Crash
  <2>1. Stored(disk)
    BY <1>6, ConfigAssumption DEF Crash, StoredInv, TypeInv, TypeOK
  <2>2. /\ sess' = disk.sess /\ part' = disk.part /\ chunk' = disk.chunk /\ artifact' = disk.artifact
        /\ disk' = disk /\ files' = files /\ tx' = NoTx
    BY <1>6 DEF Crash
  <2>3. Stored(Tables)' /\ Stored(disk)'
    BY <2>1, <2>2 DEF Stored, Tables
  <2>4. disk' = Tables'
    BY <2>2 DEF Tables, TypeInv, TypeOK, DatabaseType
  <2>5. loc'["worker"] = Idle /\ loc'["admin"] = Idle
    BY <1>6, ThreadFacts DEF Crash
  <2>6. Idle.pc = "idle" /\ Cont(Idle) = "idle"
    BY IdleType DEF Idle
  <2>7. WorkerStored(Idle)'
    BY <2>6, Unwatched DEF Watched, PutPc
  <2>8. WorkerStored(loc["worker"])'
    BY <2>5, <2>7 DEF WorkerStored, Cont
  <2>9. QED
    BY <2>2, <2>3, <2>4, <2>5, <2>6, <2>8 DEF StoredInv, AbortsApart, At, NoTx
<1>7. QED
  BY <1>1, <1>2, <1>3, <1>4, <1>5, <1>6 DEF Next

\* A chunk that put_chunk reported, in a session that can still be committed,
\* has its file and its row, whatever the collector, aborts, maintenance and
\* recovery do.  SESSION_ABORT outside the mutex is one exception: a crash may
\* then undo an abort of which the collector has already drawn consequences.
THEOREM ChunksStored == (~ AbortsApart \/ MaxCrashes = 0) => (Spec => []RegisteredStored)
<1>1. SUFFICES ASSUME ~ AbortsApart \/ MaxCrashes = 0 PROVE Spec => []RegisteredStored
  OBVIOUS
<1>2. Init => StoredInv
  <2>1. SUFFICES ASSUME Init PROVE StoredInv
    OBVIOUS
  <2>2. part = {} /\ disk = Tables /\ tx = NoTx /\ disk.part = {}
    BY <2>1 DEF Init, Tables
  <2>3. Stored(Tables) /\ Stored(disk)
    BY <2>2 DEF Stored, Tables
  <2>4. loc["worker"] = Idle /\ loc["admin"] = Idle
    BY <2>1, ThreadFacts DEF Init
  <2>5. Idle.pc = "idle" /\ Cont(Idle) = "idle"
    BY IdleType DEF Idle
  <2>6. WorkerStored(Idle)
    BY <2>5, Unwatched DEF Watched, PutPc
  <2>7. QED
    BY <2>2, <2>3, <2>4, <2>5, <2>6 DEF StoredInv, At, NoTx
<1>3. StorageInvariant => TypeInv /\ Safe
  BY DEF StorageInvariant, Safe
<1>4. TypeInv /\ Safe /\ StoredInv /\ [Next]_vars => StoredInv'
  BY <1>1, NextStored
<1>5. StoredInv => RegisteredStored
  BY DEF StoredInv, Stored, Tables, RegisteredStored
<1>6. QED
  BY <1>2, <1>3, <1>4, <1>5, InvariantHolds, PTL DEF Spec
=============================================================================
