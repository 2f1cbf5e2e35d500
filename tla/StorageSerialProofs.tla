------------------------ MODULE StorageSerialProofs --------------------------
(***************************************************************************)
(* What the storage engine guarantees when its callers serialise their     *)
(* calls, as storage.hpp asks for (Unlocked = {}), crashes included.       *)
(*                                                                         *)
(* The argument: at most one thread is inside an operation, so that what   *)
(* it found at one statement holds at the next, and what a crash would     *)
(* leave differs from what the connection sees only while an abort or a    *)
(* deletion is to be committed.                                            *)
(***************************************************************************)
EXTENDS StorageProofs, FiniteSetTheorems

USE DEF env, tables

Own(t) ==
  /\ Alone(t) /\ Uncommitted(loc[t]) /\ SessionKept(loc[t]) /\ OnlyCommitting(loc[t])
  /\ Committer(t, loc[t])
  /\ ~ up => t = "maint"

\* The thread that takes a step is the one inside an operation, or everybody
\* was idle.
LEMMA Acts ==
  ASSUME TypeInv, SerialInv, Unlocked = {}, NEW t \in Thread, ~ At(t, "idle") \/ MayStart(t)
  PROVE  Own(t)
<1>1. PICK v \in Thread : Own(v)
  BY DEF SerialInv, Own
<1>2. CASE v = t
  BY <1>1, <1>2
<1>3. CASE v # t
  <2>1. At(t, "idle")
    BY <1>1, <1>3 DEF Own, Alone
  <2>2. Alone(t) /\ up
    BY <2>1 DEF MayStart, Alone
  <2>3. loc[t].pc = "idle" /\ loc[v].pc = "idle"
    BY <1>3, <2>1, <2>2 DEF Alone, At
  <2>4. Uncommitted(loc[t])
    BY <1>1, <2>3 DEF Own, Uncommitted, Cont, MarkPc
  <2>5. SessionKept(loc[t])
    BY <2>3 DEF SessionKept, CommittingPc, StoringPc, AbortPc
  <2>6. OnlyCommitting(loc[t])
    BY <1>1, <2>2, <2>3 DEF Own, OnlyCommitting, CommittingPc
  <2>7. QED
    BY <2>2, <2>3, <2>4, <2>5, <2>6 DEF Own, Committer, CommittingPc
<1>4. QED
  BY <1>2, <1>3

\* Sessions move along FR-UP-07.
Follows(f, g) ==
  \A s \in Session : g[s].state \in MayFollow[f[s].state] \cup {f[s].state}

LEMMA PendingFollows ==
  ASSUME TypeInv, NEW t \in Thread, Own(t)
  PROVE  Follows(disk.sess, sess)
<1>1. CASE Cont(loc[t]) = "abort_commit"
  <2>1. PICK u \in Session : /\ disk.sess[u].state \in Live
                             /\ sess = [disk.sess EXCEPT ![u].state = "ABORTED"]
    BY <1>1 DEF Own, Uncommitted
  <2>2. disk.sess \in [Session -> SessionRow \cup {NoSession}]
    BY DEF TypeInv, TypeOK, DatabaseType
  <2>3. disk.sess[u] \in SessionRow
    BY <2>1, <2>2 DEF NoSession, Live
  <2>4. sess[u].state = "ABORTED"
    BY <2>1, <2>2, <2>3 DEF SessionRow
  <2>5. \A s \in Session : s # u => sess[s] = disk.sess[s]
    BY <2>1, <2>2
  <2>6. "ABORTED" \in MayFollow[disk.sess[u].state]
    BY <2>1 DEF MayFollow, Live
  <2>7. QED
    BY <2>4, <2>5, <2>6 DEF Follows
<1>2. CASE Cont(loc[t]) # "abort_commit"
  <2>1. disk.sess = sess
    BY <1>2 DEF Own, Uncommitted, Tables
  <2>2. QED
    BY <2>1 DEF Follows
<1>3. QED
  BY <1>1, <1>2

LEMMA SerialStep ==
  ASSUME TypeInv, SerialInv, NEW t \in Thread, Own(t), NEW m, Set(t, m),
         Uncommitted(m)', SessionKept(m)', OnlyCommitting(m)', Committer(t, m), ~ up' => t = "maint",
         WithinLimit(sess'),
         disk'.sess \in {disk.sess, sess'},
         disk'.sess # disk.sess => Follows(disk.sess, sess')
  PROVE  SerialInv' /\ Follows(disk.sess, disk'.sess)
<1>1. loc'[t] = m /\ \A u \in Thread \ {t} : loc'[u] = loc[u]
  BY DEF Set, TypeInv, TypeOK
<1>2. Alone(t)'
  BY <1>1 DEF Own, Alone, At
<1>3. Uncommitted(loc[t])' /\ SessionKept(loc[t])' /\ OnlyCommitting(loc[t])' /\ Committer(t, loc[t])'
  BY <1>1 DEF Uncommitted, SessionKept, OnlyCommitting, Committer, Cont
<1>4. WithinLimit(disk'.sess)
  BY DEF SerialInv
<1>5. WithinLimit(sess)' /\ WithinLimit(disk.sess)'
  BY <1>4 DEF WithinLimit, Held
<1>6. SerialInv'
  BY <1>2, <1>3, <1>5 DEF SerialInv
<1>7. QED
  BY <1>6 DEF Follows

\* A step that leaves the sessions alone.
LEMMA SameStep ==
  ASSUME TypeInv, SerialInv, NEW t \in Thread, Own(t), NEW m, Set(t, m), sess' = sess,
         Uncommitted(m)', SessionKept(m)', OnlyCommitting(m)', Committer(t, m), ~ up' => t = "maint",
         disk'.sess \in {disk.sess, sess}
  PROVE  SerialInv' /\ Follows(disk.sess, disk'.sess)
<1>1. WithinLimit(sess')
  BY DEF SerialInv
<1>2. Follows(disk.sess, sess')
  BY PendingFollows
<1>3. QED
  BY <1>1, <1>2, SerialStep

\* Positions at which a thread relies on the state of a session.
Watchful == CommittingPc \cup {"commit_changes", "expire"} \cup StoringPc \cup AbortPc
Pending == {"abort_commit", "delete_commit"}

LEMMA CalmKept ==
  ASSUME NEW m, m.pc \notin Watchful
  PROVE  SessionKept(m)'
BY DEF SessionKept, Watchful

\* While nobody is committing and nobody recovers, no session is COMMITTING.
LEMMA NoneCommitting ==
  ASSUME NEW t \in Thread, Own(t),
         loc[t].pc \notin CommittingPc \cup {"commit_changes"}, up \/ loc[t].pc \notin RecoveringPc
  PROVE  \A s \in Session : sess[s].state # "COMMITTING"
BY DEF Own, OnlyCommitting

\* A step that changes nothing but the thread's position.
LEMMA MoveStep ==
  ASSUME TypeInv, SerialInv, NEW t \in Thread, Own(t), NEW m, Set(t, m), UNCHANGED <<tables, disk>>,
         Cont(loc[t]) \notin Pending, Cont(m) \notin Pending,
         SessionKept(m)', OnlyCommitting(m)', Committer(t, m), ~ up' => t = "maint"
  PROVE  SerialInv' /\ Follows(disk.sess, disk'.sess)
<1>1. Uncommitted(m)'
  BY DEF Own, Uncommitted, Pending, Cont, Tables
<1>2. QED
  BY <1>1, SameStep

LEMMA CalmStep ==
  ASSUME TypeInv, SerialInv, NEW t \in Thread, Own(t), NEW m, Set(t, m), UNCHANGED <<tables, disk>>,
         Cont(loc[t]) \notin Pending, loc[t].pc \notin CommittingPc \cup {"commit_changes"},
         up \/ loc[t].pc \notin RecoveringPc,
         Cont(m) \notin Pending, m.pc \notin Watchful, ~ up' => t = "maint"
  PROVE  SerialInv' /\ Follows(disk.sess, disk'.sess)
<1>1. OnlyCommitting(m)'
  BY NoneCommitting DEF OnlyCommitting
<1>2. QED
  BY <1>1, CalmKept, MoveStep DEF Committer, Watchful

\* A ROLLBACK of a transaction in which nothing was done.
LEMMA RollbackSame ==
  ASSUME NEW t \in Thread, Own(t), Cont(loc[t]) \notin Pending, ROLLBACK
  PROVE  UNCHANGED <<tables, disk>>
BY DEF ROLLBACK, Own, Uncommitted, Pending, Tables

LEMMA NoOpenTx ==
  ASSUME TypeInv, Safe, NEW t \in Thread, Own(t), Cont(loc[t]) \notin TxPc
  PROVE  tx = NoTx
<1>1. \A u \in Thread : Cont(loc[u]) \notin TxPc
  BY DEF Own, Alone, At, Cont, MarkPc, TxPc
<1>2. \A u \in Thread : tx # u
  BY <1>1 DEF Safe, TxOwner
<1>3. QED
  BY <1>2 DEF TypeInv, TypeOK
-----------------------------------------------------------------------------
(* Operation by operation.                                                 *)

LEMMA StartSerial ==
  ASSUME TypeInv, SerialInv, Unlocked = {}, NEW t \in Thread,
         \/ create_session(t) \/ put_chunk(t) \/ commit_session(t) \/ delete_artifact(t)
         \/ collect_garbage(t) \/ run_maintenance(t) \/ abort_session(t)
  PROVE  SerialInv' /\ Follows(disk.sess, disk'.sess)
<1>1. MayStart(t) /\ UNCHANGED <<tables, disk, env>>
  BY DEF create_session, put_chunk, commit_session, delete_artifact, collect_garbage, run_maintenance,
         abort_session
<1>2. Own(t) /\ up' /\ up /\ loc[t].pc = "idle" /\ Cont(loc[t]) = "idle"
  BY <1>1, Acts DEF MayStart, At, Cont, MarkPc
<1>3. \A s \in Session : sess[s].state # "COMMITTING"
  BY <1>2, NoneCommitting DEF CommittingPc
<1>4. PICK m : Set(t, m) /\ StartsAt(m)
  BY StartAt
<1>5. Cont(m) \notin Pending
  BY <1>4 DEF StartsAt, Cont, MarkPc, Pending
<1>6. SessionKept(m)'
  BY <1>1, <1>4 DEF StartsAt, SessionKept, CommittingPc, StoringPc, AbortPc
<1>7. OnlyCommitting(m)'
  BY <1>1, <1>3 DEF OnlyCommitting
<1>8. QED
  BY <1>1, <1>2, <1>4, <1>5, <1>6, <1>7, MoveStep DEF StartsAt, Pending, Committer, CommittingPc

LEMMA PutSerial ==
  ASSUME TypeInv, SerialInv, Unlocked = {},
         \/ put_reload("worker") \/ write_temp_file("worker") \/ rename_into_place("worker")
         \/ put_begin("worker") \/ put_register("worker")
  PROVE  SerialInv' /\ Follows(disk.sess, disk'.sess)
<1> DEFINE l == loc["worker"]
<1>1. l.pc \in {"put_reload"} \cup StoringPc /\ ~ At("worker", "idle") /\ UNCHANGED env
  BY DEF put_reload, write_temp_file, rename_into_place, put_begin, put_register, At, StoringPc
<1>2. "worker" \in Thread /\ Own("worker") /\ up /\ up'
  <2>1. "worker" \in Thread /\ Own("worker")
    BY <1>1, Acts, ThreadFacts
  <2>2. QED
    BY <1>1, <2>1 DEF Own
<1>3. Cont(l) = l.pc /\ l.pc \notin Pending /\ l.pc \notin CommittingPc \cup {"commit_changes"}
  BY <1>1 DEF Cont, MarkPc, Pending, StoringPc, CommittingPc
<1>4. \A s \in Session : sess[s].state # "COMMITTING"
  BY <1>2, <1>3, NoneCommitting
<1>5. put_register("worker") /\ ~ ROLLBACK => sess' = sess /\ disk' = Tables' /\ Done("worker")
  BY DEF put_register, COMMIT
<1>6. CASE put_register("worker") /\ ~ ROLLBACK
  <2>1. Uncommitted(Idle)'
    BY <1>5, <1>6, <1>2, DoneAt DEF Uncommitted, Cont, Tables
  <2>2. SessionKept(Idle)'
    BY <1>2, <1>5, <1>6, DoneAt, CalmKept DEF Watchful, CommittingPc, StoringPc, AbortPc
  <2>3. OnlyCommitting(Idle)'
    BY <1>4, <1>5, <1>6 DEF OnlyCommitting
  <2>4. disk'.sess = sess'
    BY <1>5, <1>6 DEF Tables
  <2>5. QED
    BY <1>2, <1>5, <1>6, <2>1, <2>2, <2>3, <2>4, DoneAt, SameStep DEF Committer, CommittingPc
<1>7. CASE ~ (put_register("worker") /\ ~ ROLLBACK)
  <2>1. UNCHANGED <<tables, disk>>
    <3>1. CASE ROLLBACK
      BY <1>2, <1>3, <3>1, RollbackSame
    <3>2. CASE ~ ROLLBACK
      BY <1>7, <3>2 DEF put_reload, write_temp_file, rename_into_place, put_begin
    <3>3. QED
      BY <3>1, <3>2
  <2>2. CASE Done("worker")
    BY <1>2, <1>3, <2>1, <2>2, DoneAt, CalmStep DEF Watchful, CommittingPc, StoringPc, AbortPc, Pending
  <2>3. CASE ~ Done("worker")
    <3>1. PICK label \in {"put_store", "put_rename", "put_begin", "put_register"} : Goto("worker", label)
      BY <2>3 DEF put_reload, write_temp_file, rename_into_place, put_begin, put_register, BEGIN, BeginFails
    <3>2. sess[l.s].state = "OPEN"
      <4>1. CASE l.pc = "put_reload"
        BY <2>3, <4>1 DEF put_reload, write_temp_file, rename_into_place, put_begin, put_register, At
      <4>2. CASE l.pc \in StoringPc
        BY <1>2, <4>2 DEF Own, SessionKept
      <4>3. QED
        BY <1>1, <4>1, <4>2
    <3>3. PICK m : Set("worker", m) /\ m.pc = label /\ m.s = l.s /\ Cont(m) = label
      BY <1>2, <3>1, GotoAt, LabelFacts DEF MarkPc
    <3>4. SessionKept(m)'
      BY <2>1, <3>2, <3>3 DEF SessionKept, CommittingPc, AbortPc
    <3>5. OnlyCommitting(m)'
      BY <1>4, <2>1 DEF OnlyCommitting
    <3>6. QED
      BY <1>2, <1>3, <2>1, <3>3, <3>4, <3>5, MoveStep DEF Pending, Committer, CommittingPc
  <2>4. QED
    BY <2>2, <2>3
<1>8. QED
  BY <1>6, <1>7
-----------------------------------------------------------------------------
(* Operations that change sessions.                                        *)

LEMMA LimitStep ==
  ASSUME NEW f, NEW g, WithinLimit(f),
         \A s \in Session : g[s].state \in Live => f[s].state \in Live /\ g[s].owner = f[s].owner
  PROVE  WithinLimit(g)
<1>1. SUFFICES ASSUME NEW o \in Owner
               PROVE  IsFiniteSet(Held(g, o)) /\ Cardinality(Held(g, o)) <= MaxSessionsPerOwner
  BY DEF WithinLimit
<1>2. Held(g, o) \subseteq Held(f, o)
  BY DEF Held
<1>3. IsFiniteSet(Held(f, o)) /\ Cardinality(Held(f, o)) <= MaxSessionsPerOwner
  BY DEF WithinLimit
<1>4. IsFiniteSet(Held(g, o)) /\ Cardinality(Held(g, o)) <= Cardinality(Held(f, o))
  BY <1>2, <1>3, FS_Subset
<1>5. Cardinality(Held(g, o)) \in Nat /\ Cardinality(Held(f, o)) \in Nat
  BY <1>3, <1>4, FS_CardinalityType
<1>6. QED
  BY <1>3, <1>4, <1>5, ConfigAssumption

\* A statement outside a transaction, or the last of one, that moves sessions
\* along FR-UP-07.
LEMMA UpdateStep ==
  ASSUME TypeInv, SerialInv, NEW t \in Thread, Own(t), Cont(loc[t]) \notin Pending, NEW m, Set(t, m),
         NEW D, NEW v, Updated(D, v), disk' = Tables',
         \A s \in D : sess[s].state \in Live /\ v \in MayFollow[sess[s].state],
         Cont(m) \notin Pending, SessionKept(m)', OnlyCommitting(m)', Committer(t, m), ~ up' => t = "maint"
  PROVE  SerialInv' /\ Follows(disk.sess, disk'.sess)
<1>1. disk.sess = sess /\ disk'.sess = sess'
  BY DEF Own, Uncommitted, Tables, Pending
<1>2. Uncommitted(m)'
  BY DEF Uncommitted, Pending, Cont
<1>3. Follows(sess, sess')
  BY DEF Follows, Updated
<1>4. WithinLimit(sess')
  <2>1. \A s \in Session : sess'[s].state \in Live => sess[s].state \in Live /\ sess'[s].owner = sess[s].owner
    BY DEF Updated
  <2>2. WithinLimit(sess)
    BY DEF SerialInv
  <2>3. QED
    BY <2>1, <2>2, LimitStep
<1>5. QED
  BY <1>1, <1>2, <1>3, <1>4, SerialStep

LEMMA ExpireSerial ==
  ASSUME TypeInv, Safe, SerialInv, Unlocked = {}, expire_session_if_due("worker")
  PROVE  SerialInv' /\ Follows(disk.sess, disk'.sess)
<1> DEFINE l == loc["worker"]
<1>1. l.pc = "expire" /\ l.s \in Session /\ ~ At("worker", "idle") /\ up' = up /\ "worker" \in Thread
  <2>1. l.pc = "expire" /\ up' = up /\ "worker" \in Thread
    BY ThreadFacts DEF expire_session_if_due, At
  <2>2. QED
    BY <2>1, OwnFacts DEF Args, At
<1>2. Own("worker") /\ up /\ l.ret \in {"put_reload", "commit_transition"}
  <2>1. Own("worker")
    BY <1>1, Acts
  <2>2. QED
    BY <1>1, <2>1 DEF Own, SessionKept
<1>3. Cont(l) \notin Pending /\ Cont(l) \notin TxPc
  BY <1>1, <1>2 DEF Cont, MarkPc, Pending, TxPc
<1>4. disk' = Tables'
  BY <1>1, <1>2, <1>3, NoOpenTx DEF expire_session_if_due, Autocommit
<1>5. PICK D : Updated(D, "EXPIRED") /\ \A u \in D : u = l.s /\ sess[u].state = "OPEN"
  BY <1>1, UpdateFrom DEF expire_session_if_due, Live
<1>6. PICK m : Set("worker", m) /\ m.pc = "mark_select" /\ m.ret = l.ret
  BY <1>1, GotoAt, LabelFacts DEF expire_session_if_due
<1>7. Cont(m) \notin Pending
  BY <1>2, <1>6 DEF Cont, MarkPc, Pending
<1>8. SessionKept(m)'
  BY <1>6, CalmKept DEF Watchful, CommittingPc, StoringPc, AbortPc
<1>9. OnlyCommitting(m)'
  <2>1. \A s \in Session : sess[s].state # "COMMITTING"
    BY <1>1, <1>2, NoneCommitting DEF CommittingPc
  <2>2. QED
    BY <1>5, <2>1 DEF OnlyCommitting, Updated
<1>10. \A s \in D : sess[s].state \in Live /\ "EXPIRED" \in MayFollow[sess[s].state]
  BY <1>5 DEF Live, MayFollow
<1>11. QED
  BY <1>1, <1>2, <1>3, <1>4, <1>5, <1>6, <1>7, <1>8, <1>9, <1>10, UpdateStep DEF Committer

\* create_session counts the OPEN sessions; none is COMMITTING meanwhile.
LEMMA CreateSerial ==
  ASSUME TypeInv, SerialInv, Unlocked = {}, create_insert("worker")
  PROVE  SerialInv' /\ Follows(disk.sess, disk'.sess)
<1> DEFINE l == loc["worker"]
<1>1. l.pc = "create" /\ ~ At("worker", "idle") /\ up' = up /\ "worker" \in Thread /\ Done("worker")
  BY ThreadFacts DEF create_insert, At
<1>2. Own("worker") /\ up /\ Cont(l) \notin Pending
  <2>1. Own("worker")
    BY <1>1, Acts
  <2>2. QED
    BY <1>1, <2>1 DEF Own, Cont, MarkPc, Pending
<1>3. \A s \in Session : sess[s].state # "COMMITTING"
  BY <1>1, <1>2, NoneCommitting DEF CommittingPc
<1>4. CASE ROLLBACK
  <2>1. UNCHANGED <<tables, disk>>
    BY <1>1, <1>2, <1>4, RollbackSame
  <2>2. QED
    BY <1>1, <1>2, <2>1, DoneAt, CalmStep DEF Watchful, CommittingPc, StoringPc, AbortPc, Pending
<1>5. CASE ~ ROLLBACK
  <2>1. PICK r \in CreateRequests, s \in Session :
          /\ ~ AtSessionLimit(r.owner) /\ sess[s] = NoSession
          /\ sess' = [sess EXCEPT ![s] = [state |-> "OPEN", owner |-> r.owner, name |-> r.name, size |-> r.size,
                                          digest |-> r.digest, expires_at |-> l.now + SessionLifetime]]
    BY <1>5 DEF create_insert
  <2>2. disk' = Tables' /\ disk.sess = sess
    BY <1>2, <1>5 DEF create_insert, COMMIT, Own, Uncommitted, Pending, Tables
  <2>3. disk'.sess = sess'
    BY <2>2 DEF Tables
  <2>4. PICK x : x = [state |-> "OPEN", owner |-> r.owner, name |-> r.name, size |-> r.size,
                      digest |-> r.digest, expires_at |-> l.now + SessionLifetime]
    OBVIOUS
  <2>5. x.owner = r.owner /\ x.state = "OPEN"
    BY <2>4
  <2>6. /\ sess'[s] = x /\ \A u \in Session : u # s => sess'[u] = sess[u]
        /\ sess[s].state = "NONE"
    BY <2>1, <2>4 DEF TypeInv, TypeOK, NoSession
  <2>7. Follows(disk.sess, sess')
    BY <2>2, <2>5, <2>6 DEF Follows, MayFollow
  <2>8. WithinLimit(sess')
    <3>1. SUFFICES ASSUME NEW o \in Owner
                   PROVE  IsFiniteSet(Held(sess', o)) /\ Cardinality(Held(sess', o)) <= MaxSessionsPerOwner
      BY DEF WithinLimit
    <3>2. IsFiniteSet(Held(sess, o)) /\ Cardinality(Held(sess, o)) <= MaxSessionsPerOwner
      BY DEF SerialInv, WithinLimit
    <3>3. CASE o # r.owner
      <4>1. Held(sess', o) = Held(sess, o)
        BY <2>5, <2>6, <3>3 DEF Held, Live
      <4>2. QED
        BY <3>2, <4>1
    <3>4. CASE o = r.owner
      <4>1. Held(sess', o) = Held(sess, o) \cup {s} /\ s \notin Held(sess, o)
        BY <2>5, <2>6, <3>4 DEF Held, Live
      <4>2. Held(sess, o) = OpenSessions(o)
        BY <1>3 DEF Held, OpenSessions, Live
      <4>3. Cardinality(Held(sess, o)) \in Nat
        BY <3>2, FS_CardinalityType
      <4>4. Cardinality(Held(sess, o)) + 1 <= MaxSessionsPerOwner
        BY <2>1, <3>4, <4>2, <4>3, ConfigAssumption DEF AtSessionLimit
      <4>5. IsFiniteSet(Held(sess', o)) /\ Cardinality(Held(sess', o)) = Cardinality(Held(sess, o)) + 1
        BY <3>2, <4>1, FS_AddElement
      <4>6. QED
        BY <4>4, <4>5
    <3>5. QED
      BY <3>3, <3>4
  <2>9. Uncommitted(Idle)'
    BY <1>1, <2>2, DoneAt DEF Uncommitted, Cont
  <2>10. SessionKept(Idle)'
    BY <1>1, DoneAt, CalmKept DEF Watchful, CommittingPc, StoringPc, AbortPc
  <2>11. OnlyCommitting(Idle)'
    BY <1>3, <2>5, <2>6 DEF OnlyCommitting
  <2>12. QED
    BY <1>1, <1>2, <2>3, <2>7, <2>8, <2>9, <2>10, <2>11, DoneAt, SerialStep DEF Committer, CommittingPc
<1>6. QED
  BY <1>4, <1>5

LEMMA CommitSerial ==
  ASSUME TypeInv, Safe, SerialInv, Unlocked = {},
         \/ commit_transition("worker") \/ commit_changes("worker")
         \/ commit_validate("worker") \/ commit_begin("worker")
         \/ commit_publish("worker") \/ commit_reopen("worker")
  PROVE  SerialInv' /\ Follows(disk.sess, disk'.sess)
<1> DEFINE l == loc["worker"]
<1>1. /\ l.pc \in CommitPc /\ Cont(l) = l.pc /\ Cont(l) \notin Pending /\ "worker" \in Thread
      /\ ~ At("worker", "idle") /\ up' = up
  BY ThreadFacts DEF commit_transition, commit_changes, commit_validate, commit_begin, commit_publish,
     commit_reopen, At, Cont, MarkPc, CommitPc, Pending
<1>2. l.s \in Session /\ sess[l.s] # NoSession
  BY <1>1, OwnFacts DEF Args, Commits
<1>3. Own("worker") /\ up /\ up'
  <2>1. Own("worker")
    BY <1>1, Acts
  <2>2. QED
    BY <1>1, <2>1 DEF Own
<1>4. \A s \in Session : sess[s].state = "COMMITTING" =>
        l.pc \in CommittingPc \cup {"commit_changes"} /\ s = l.s
  BY <1>3 DEF Own, OnlyCommitting
<1>5. CASE commit_transition("worker")
  <2>1. l.pc = "commit_transition"
    BY <1>5 DEF commit_transition, At
  <2>2. disk' = Tables'
    BY <1>1, <1>3, <1>5, <2>1, NoOpenTx DEF commit_transition, Autocommit, TxPc
  <2>3. PICK D : /\ Updated(D, "COMMITTING") /\ \A u \in D : u = l.s /\ sess[u].state = "OPEN"
                 /\ (sess[l.s].state = "OPEN" => l.s \in D)
    BY <1>2, <1>5, UpdateFrom DEF commit_transition, Live
  <2>4. PICK m : Set("worker", m) /\ m.pc = "commit_changes" /\ m.s = l.s /\ Cont(m) = "commit_changes"
    BY <1>1, <1>5, GotoAt, LabelFacts DEF commit_transition, MarkPc
  <2>5. loc'["worker"] = m
    BY <1>1, <2>4 DEF Set, TypeInv, TypeOK
  <2>6. changes' <=> sess[l.s].state = "OPEN"
    BY <1>5, <2>4, <2>5 DEF commit_transition, Changed
  <2>7. \A s \in Session : sess[s].state # "COMMITTING"
    BY <1>4, <2>1 DEF CommittingPc
  <2>8. sess'[l.s].state = "COMMITTING" <=> sess[l.s].state = "OPEN"
    BY <1>2, <2>3, <2>7 DEF Updated
  <2>9. SessionKept(m)'
    BY <2>4, <2>6, <2>8 DEF SessionKept, CommittingPc, StoringPc, AbortPc
  <2>10. OnlyCommitting(m)'
    BY <2>3, <2>4, <2>7 DEF OnlyCommitting, Updated
  <2>11. \A s \in D : sess[s].state \in Live /\ "COMMITTING" \in MayFollow[sess[s].state]
    BY <2>3 DEF Live, MayFollow
  <2>12. QED
    BY <1>1, <1>3, <2>2, <2>3, <2>4, <2>9, <2>10, <2>11, UpdateStep DEF Pending, Committer, CommittingPc
<1>6. CASE commit_changes("worker")
  <2>1. l.pc = "commit_changes" /\ UNCHANGED <<tables, disk>> /\ (changes <=> sess[l.s].state = "COMMITTING")
    BY <1>3, <1>6 DEF commit_changes, At, Own, SessionKept
  <2>2. CASE changes
    <3>1. PICK m : Set("worker", m) /\ m.pc = "commit_validate" /\ m.s = l.s /\ Cont(m) = "commit_validate"
      BY <1>1, <1>6, <2>2, GotoAt, LabelFacts DEF commit_changes, MarkPc
    <3>2. SessionKept(m)'
      BY <2>1, <2>2, <3>1 DEF SessionKept, CommittingPc, StoringPc, AbortPc
    <3>3. OnlyCommitting(m)'
      BY <1>4, <2>1, <3>1 DEF OnlyCommitting, CommittingPc
    <3>4. QED
      BY <1>1, <1>3, <2>1, <3>1, <3>2, <3>3, MoveStep DEF Pending, Committer, CommittingPc
  <2>3. CASE ~ changes
    <3>1. Done("worker")
      BY <1>6, <2>3 DEF commit_changes
    <3>2. SessionKept(Idle)'
      BY <1>1, <3>1, DoneAt, CalmKept DEF Watchful, CommittingPc, StoringPc, AbortPc
    <3>3. OnlyCommitting(Idle)'
      BY <1>4, <2>1, <2>3 DEF OnlyCommitting
    <3>4. QED
      BY <1>1, <1>3, <2>1, <3>1, <3>2, <3>3, DoneAt, MoveStep DEF Pending, Committer, CommittingPc
  <2>4. QED
    BY <2>2, <2>3
<1>7. ASSUME NEW m, Set("worker", m), UNCHANGED <<tables, disk>>, l.pc \in CommittingPc, m.s = l.s,
             m.pc \in CommittingPc, Cont(m) = m.pc
      PROVE  SerialInv' /\ Follows(disk.sess, disk'.sess)
  <2>1. SessionKept(m)'
    BY <1>3, <1>7 DEF Own, SessionKept, CommittingPc, StoringPc, AbortPc
  <2>2. OnlyCommitting(m)'
    BY <1>4, <1>7 DEF OnlyCommitting
  <2>3. QED
    BY <1>1, <1>3, <1>7, <2>1, <2>2, MoveStep DEF Pending, Committer, CommittingPc
<1>8. CASE commit_validate("worker")
  <2>1. l.pc \in CommittingPc /\ UNCHANGED <<tables, disk>>
    BY <1>8 DEF commit_validate, At, CommittingPc
  <2>2. PICK m : Set("worker", m) /\ m.s = l.s /\ m.pc \in {"commit_begin", "commit_reopen"}
    <3>1. CASE Goto("worker", "commit_reopen")
      BY <1>1, <3>1, GotoAt, LabelFacts
    <3>2. CASE ~ Goto("worker", "commit_reopen")
      <4>1. PICK mf : mf = ManifestOf(l.s)
        OBVIOUS
      <4>2. PICK m : m = [l EXCEPT !.manifest = mf, !.pc = "commit_begin"]
        OBVIOUS
      <4>3. m.s = l.s /\ m.pc = "commit_begin"
        BY <1>1, <4>2, OwnFacts DEF Local
      <4>4. Set("worker", m)
        BY <1>8, <3>2, <4>1, <4>2 DEF commit_validate
      <4>5. QED
        BY <4>3, <4>4
    <3>3. QED
      BY <3>1, <3>2
  <2>3. m.pc \in CommittingPc /\ Cont(m) = m.pc
    BY <2>2 DEF CommittingPc, Cont, MarkPc
  <2>4. QED
    BY <1>7, <2>1, <2>2, <2>3
<1>9. CASE commit_begin("worker")
  <2>1. l.pc = "commit_begin" /\ UNCHANGED <<tables, disk>>
    BY <1>9 DEF commit_begin, At
  <2>2. tx = NoTx
    BY <1>1, <1>3, <2>1, NoOpenTx DEF TxPc
  <2>3. Goto("worker", "commit_publish")
    BY <1>9, <2>2 DEF commit_begin, BEGIN, BeginFails
  <2>4. PICK m : Set("worker", m) /\ m.s = l.s /\ m.pc = "commit_publish" /\ Cont(m) = m.pc
    BY <1>1, <2>3, GotoAt, LabelFacts DEF MarkPc
  <2>5. QED
    BY <1>7, <2>1, <2>4 DEF CommittingPc
<1>10. CASE commit_publish("worker") /\ ROLLBACK
  <2>1. l.pc = "commit_publish" /\ UNCHANGED <<tables, disk>>
    BY <1>1, <1>3, <1>10, RollbackSame DEF commit_publish, At
  <2>2. CASE Goto("worker", "commit_reopen")
    <3>1. PICK m : Set("worker", m) /\ m.s = l.s /\ m.pc = "commit_reopen" /\ Cont(m) = m.pc
      BY <1>1, <2>2, GotoAt, LabelFacts DEF MarkPc
    <3>2. QED
      BY <1>7, <2>1, <3>1 DEF CommittingPc
  <2>3. CASE ~ Goto("worker", "commit_reopen")
    <3>1. sess' = [sess EXCEPT ![l.s].state = "COMPLETED"]
      BY <1>10, <2>3 DEF commit_publish
    <3>2. sess'[l.s].state = "COMPLETED"
      BY ZenonT(60), <1>2, <3>1, UpdateOne DEF Updated
    <3>3. sess[l.s].state = "COMMITTING"
      BY <1>3, <2>1 DEF Own, SessionKept, CommittingPc
    <3>4. QED
      BY <2>1, <3>2, <3>3
  <2>4. QED
    BY <2>2, <2>3
<1>11. CASE commit_publish("worker") /\ ~ ROLLBACK
  <2>1. /\ l.pc = "commit_publish" /\ disk' = Tables' /\ Done("worker")
        /\ sess' = [sess EXCEPT ![l.s].state = "COMPLETED"]
    BY <1>11 DEF commit_publish, At, COMMIT
  <2>2. Updated({l.s}, "COMPLETED")
    BY <1>2, <2>1, UpdateOne
  <2>3. sess[l.s].state = "COMMITTING"
    BY <1>3, <2>1 DEF Own, SessionKept, CommittingPc
  <2>4. \A s \in {l.s} : sess[s].state \in Live /\ "COMPLETED" \in MayFollow[sess[s].state]
    BY <2>3 DEF Live, MayFollow
  <2>5. SessionKept(Idle)'
    BY <1>1, <2>1, DoneAt, CalmKept DEF Watchful, CommittingPc, StoringPc, AbortPc
  <2>6. OnlyCommitting(Idle)'
    BY <1>2, <1>4, <2>2 DEF OnlyCommitting, Updated
  <2>7. QED
    BY <1>1, <1>3, <2>1, <2>2, <2>4, <2>5, <2>6, DoneAt, UpdateStep DEF Pending, Committer, CommittingPc
<1>12. CASE commit_reopen("worker")
  <2>1. l.pc = "commit_reopen" /\ Done("worker")
    BY <1>12 DEF commit_reopen, At
  <2>2. disk' = Tables'
    BY <1>1, <1>3, <1>12, <2>1, NoOpenTx DEF commit_reopen, Autocommit, TxPc
  <2>3. PICK D : /\ Updated(D, "OPEN") /\ \A u \in D : u = l.s /\ sess[u].state = "COMMITTING"
                 /\ (sess[l.s].state = "COMMITTING" => l.s \in D)
    BY <1>2, <1>12, UpdateFrom DEF commit_reopen, Live
  <2>4. \A s \in D : sess[s].state \in Live /\ "OPEN" \in MayFollow[sess[s].state]
    BY <2>3 DEF Live, MayFollow
  <2>5. SessionKept(Idle)'
    BY <1>1, <2>1, DoneAt, CalmKept DEF Watchful, CommittingPc, StoringPc, AbortPc
  <2>6. OnlyCommitting(Idle)'
    BY <1>2, <1>4, <2>3 DEF OnlyCommitting, Updated
  <2>7. QED
    BY <1>1, <1>3, <2>1, <2>2, <2>3, <2>4, <2>5, <2>6, DoneAt, UpdateStep DEF Pending, Committer, CommittingPc
<1>13. QED
  BY <1>5, <1>6, <1>8, <1>9, <1>10, <1>11, <1>12

LEMMA AbortSerial ==
  ASSUME TypeInv, Safe, SerialInv, Unlocked = {}, NEW t \in Thread, t # "maint",
         abort_begin(t) \/ abort_transition(t) \/ abort_commit(t)
  PROVE  SerialInv' /\ Follows(disk.sess, disk'.sess)
<1> DEFINE l == loc[t]
<1>1. l.pc \in {"abort_begin", "abort_transition", "abort_commit"} /\ Cont(l) = l.pc /\ ~ At(t, "idle") /\ up' = up
  BY DEF abort_begin, abort_transition, abort_commit, At, Cont, MarkPc
<1>2. Own(t) /\ up /\ up'
  <2>1. Own(t)
    BY <1>1, Acts
  <2>2. QED
    BY <1>1, <2>1 DEF Own
<1>3. \A s \in Session : sess[s].state # "COMMITTING"
  BY <1>1, <1>2, NoneCommitting DEF CommittingPc
<1>4. CASE abort_begin(t)
  <2>1. l.pc = "abort_begin" /\ UNCHANGED <<tables, disk>>
    BY <1>4 DEF abort_begin, At
  <2>2. CASE Done(t)
    BY <1>1, <1>2, <2>1, <2>2, DoneAt, CalmStep DEF Watchful, CommittingPc, StoringPc, AbortPc, Pending
  <2>3. CASE ~ Done(t)
    <3>1. Goto(t, "abort_transition")
      BY <1>4, <2>3 DEF abort_begin, BEGIN, BeginFails
    <3>2. PICK m : m = [l EXCEPT !.pc = "abort_transition"]
      OBVIOUS
    <3>3. m.pc = "abort_transition" /\ m.s = l.s /\ m.from = l.from
      BY <3>2, OwnFacts DEF Local
    <3>4. Set(t, m)
      BY <3>1, <3>2 DEF Goto
    <3>5. SessionKept(m)'
      BY <1>2, <2>1, <3>3 DEF Own, SessionKept, CommittingPc, StoringPc, AbortPc
    <3>6. OnlyCommitting(m)'
      BY <1>3, <2>1 DEF OnlyCommitting
    <3>7. Cont(m) \notin Pending /\ Cont(l) \notin Pending
      BY <1>1, <2>1, <3>3 DEF Cont, MarkPc, Pending
    <3>8. QED
      BY <1>2, <2>1, <3>4, <3>5, <3>6, <3>3, <3>7, MoveStep DEF Committer, CommittingPc
  <2>4. QED
    BY <2>2, <2>3
<1>5. CASE abort_transition(t)
  <2>1. l.pc = "abort_transition" /\ l.s \in Session /\ l.from \in Live
    <3>1. l.pc = "abort_transition"
      BY <1>5 DEF abort_transition, At
    <3>2. QED
      BY <1>1, <3>1, OwnFacts DEF Args, AbortPc
  <2>2. tx = t /\ disk = Tables
    BY <1>1, <1>2, <2>1, ThreadFacts DEF Safe, TxOwner, TxPc, Own, Uncommitted
  <2>3. disk' = disk /\ disk.sess = sess
    BY <1>5, <2>2, ThreadFacts DEF abort_transition, Autocommit, Tables
  <2>4. sess[l.s].state = l.from /\ sess[l.s] # NoSession
    BY <1>2, <2>1 DEF Own, SessionKept, AbortPc, NoSession, Live
  <2>5. sess' = [sess EXCEPT ![l.s].state = "ABORTED"]
    BY <1>5, <2>4 DEF abort_transition, transition
  <2>6. Updated({l.s}, "ABORTED")
    BY <2>1, <2>4, <2>5, UpdateOne
  <2>7. PICK m : m = [l EXCEPT !.pc = "mark_select", !.ret = "abort_commit"]
    OBVIOUS
  <2>8. m.pc = "mark_select" /\ m.ret = "abort_commit" /\ m.s = l.s
    BY <2>7, OwnFacts DEF Local
  <2>9. Set(t, m)
    BY <1>5, <2>7 DEF abort_transition
  <2>10. Cont(m) = "abort_commit"
    BY <2>8 DEF Cont, MarkPc
  <2>11. Uncommitted(m)'
    BY <2>1, <2>3, <2>4, <2>5, <2>8, <2>10 DEF Uncommitted, Cont
  <2>12. SessionKept(m)'
    BY <2>8, CalmKept DEF Watchful, CommittingPc, StoringPc, AbortPc
  <2>13. OnlyCommitting(m)'
    BY <1>3, <2>6 DEF OnlyCommitting, Updated
  <2>14. WithinLimit(sess')
    <3>1. \A s \in Session : sess'[s].state \in Live => sess[s].state \in Live /\ sess'[s].owner = sess[s].owner
      BY <2>6 DEF Updated, Live
    <3>2. QED
      BY <3>1, LimitStep DEF SerialInv
  <2>15. QED
    BY <1>2, <2>3, <2>8, <2>9, <2>11, <2>12, <2>13, <2>14, SerialStep DEF Committer, CommittingPc
<1>6. CASE abort_commit(t)
  <2>1. sess' = sess /\ disk' = Tables' /\ Done(t)
    BY <1>6 DEF abort_commit, COMMIT
  <2>2. disk'.sess = sess
    BY <2>1 DEF Tables
  <2>3. Uncommitted(Idle)'
    BY <2>1, DoneAt DEF Uncommitted, Cont
  <2>4. SessionKept(Idle)'
    BY <2>1, DoneAt, CalmKept DEF Watchful, CommittingPc, StoringPc, AbortPc
  <2>5. OnlyCommitting(Idle)'
    BY <1>3, <2>1 DEF OnlyCommitting
  <2>6. QED
    BY <1>2, <2>1, <2>2, <2>3, <2>4, <2>5, DoneAt, SameStep DEF Committer, CommittingPc
<1>7. QED
  BY <1>4, <1>5, <1>6

LEMMA DeleteSerial ==
  ASSUME TypeInv, Safe, SerialInv, Unlocked = {}, delete_row("worker") \/ delete_commit("worker")
  PROVE  SerialInv' /\ Follows(disk.sess, disk'.sess)
<1> DEFINE l == loc["worker"]
<1>1. /\ l.pc \in {"delete_row", "delete_commit"} /\ Cont(l) = l.pc /\ ~ At("worker", "idle") /\ up' = up
      /\ "worker" \in Thread
  BY ThreadFacts DEF delete_row, delete_commit, At, Cont, MarkPc
<1>2. Own("worker") /\ up /\ up'
  <2>1. Own("worker")
    BY <1>1, Acts
  <2>2. QED
    BY <1>1, <2>1 DEF Own
<1>3. \A s \in Session : sess[s].state # "COMMITTING"
  BY <1>1, <1>2, NoneCommitting DEF CommittingPc
<1>4. CASE delete_row("worker") /\ artifact[l.name] = NoArtifact
  <2>1. l.pc = "delete_row" /\ ROLLBACK /\ Done("worker")
    BY <1>4 DEF delete_row, At
  <2>2. Cont(l) \notin Pending
    BY <1>1, <2>1 DEF Pending
  <2>3. UNCHANGED <<tables, disk>>
    BY <1>1, <1>2, <2>1, <2>2, RollbackSame
  <2>4. QED
    BY <1>1, <1>2, <2>1, <2>2, <2>3, DoneAt, CalmStep DEF Watchful, CommittingPc, StoringPc, AbortPc, Pending
<1>5. CASE delete_row("worker") /\ artifact[l.name] # NoArtifact
  <2>1. l.pc = "delete_row" /\ sess' = sess /\ disk' = disk
    BY <1>5 DEF delete_row, At
  <2>2. disk.sess = sess
    BY <1>1, <1>2, <2>1 DEF Own, Uncommitted, Tables
  <2>3. PICK m : Set("worker", m) /\ m.ret = "delete_commit" /\ m.pc \in {"delete_commit", "mark_next"}
    <3>1. PICK D : D = Range(artifact[l.name].manifest)
      OBVIOUS
    <3>2. PICK p : p = IF D = {} THEN "delete_commit" ELSE "mark_next"
      OBVIOUS
    <3>3. PICK m : m = [l EXCEPT !.todo = D, !.ret = "delete_commit", !.pc = p]
      OBVIOUS
    <3>4. m.pc = p /\ m.ret = "delete_commit"
      BY <1>1, <3>3, OwnFacts DEF Local
    <3>5. Set("worker", m)
      BY <1>5, <3>1, <3>2, <3>3 DEF delete_row
    <3>6. QED
      BY <3>2, <3>4, <3>5
  <2>4. Cont(m) = "delete_commit"
    BY <2>3 DEF Cont, MarkPc
  <2>5. Uncommitted(m)'
    BY <2>1, <2>2, <2>4 DEF Uncommitted, Cont
  <2>6. SessionKept(m)'
    BY <2>3, CalmKept DEF Watchful, CommittingPc, StoringPc, AbortPc
  <2>7. OnlyCommitting(m)'
    BY <1>3, <2>1 DEF OnlyCommitting
  <2>8. QED
    BY <1>1, <1>2, <2>1, <2>3, <2>5, <2>6, <2>7, SameStep DEF Committer
<1>6. CASE delete_commit("worker")
  <2>1. sess' = sess /\ disk' = Tables' /\ Done("worker")
    BY <1>6 DEF delete_commit, COMMIT
  <2>2. disk'.sess = sess
    BY <2>1 DEF Tables
  <2>3. Uncommitted(Idle)'
    BY <1>1, <2>1, DoneAt DEF Uncommitted, Cont
  <2>4. SessionKept(Idle)'
    BY <1>1, <2>1, DoneAt, CalmKept DEF Watchful, CommittingPc, StoringPc, AbortPc
  <2>5. OnlyCommitting(Idle)'
    BY <1>3, <2>1 DEF OnlyCommitting
  <2>6. QED
    BY <1>1, <1>2, <2>1, <2>2, <2>3, <2>4, <2>5, DoneAt, SameStep DEF Committer, CommittingPc
<1>7. QED
  BY <1>4, <1>5, <1>6

LEMMA GcSerial ==
  ASSUME TypeInv, Safe, SerialInv, Unlocked = {},
         \/ gc_check("worker") \/ gc_reactivate("worker") \/ gc_remove("worker") \/ gc_delete("worker")
  PROVE  SerialInv' /\ Follows(disk.sess, disk'.sess)
<1> DEFINE l == loc["worker"]
<1>1. l.pc \in GcPc /\ ~ At("worker", "idle") /\ up' = up /\ sess' = sess /\ "worker" \in Thread
  BY ThreadFacts DEF GcPc, gc_check, gc_reactivate, gc_remove, gc_delete, At
<1>2. Own("worker") /\ up /\ up'
  <2>1. Own("worker")
    BY <1>1, Acts
  <2>2. QED
    BY <1>1, <2>1 DEF Own
<1>3. \A s \in Session : sess[s].state # "COMMITTING"
  BY <1>1, <1>2, NoneCommitting DEF GcPc, CommittingPc
<1>4. PICK m : Set("worker", m) /\ m.pc \in GcPc \cup {"idle"}
  BY GcAt DEF Collects
<1>5. Cont(m) = m.pc /\ m.pc \notin Pending /\ m.pc \notin Watchful
  BY <1>4 DEF GcPc, Cont, MarkPc, Pending, Watchful, CommittingPc, StoringPc, AbortPc
<1>6. tx = NoTx /\ disk = Tables
  <2>1. Cont(l) \notin TxPc /\ Cont(l) \notin Pending
    BY <1>1 DEF GcPc, Cont, MarkPc, TxPc, Pending
  <2>2. QED
    BY <1>1, <1>2, <2>1, NoOpenTx DEF Own, Uncommitted, Pending
<1>7. disk' = Tables'
  BY <1>6 DEF gc_check, gc_reactivate, gc_remove, gc_delete, Autocommit, Tables
<1>8. Uncommitted(m)' /\ SessionKept(m)' /\ OnlyCommitting(m)'
  BY <1>1, <1>3, <1>5, <1>7, CalmKept DEF Uncommitted, OnlyCommitting, Cont, Pending
<1>9. disk'.sess = sess
  BY <1>1, <1>7 DEF Tables
<1>10. QED
  BY <1>1, <1>2, <1>4, <1>8, <1>9, SameStep DEF Committer

\* The recovery finds the commits a crash cut short before it is over.
LEMMA MaintSerial ==
  ASSUME TypeInv, Safe, SerialInv, Unlocked = {},
         \/ cleanup_temp_files("maint") \/ maint_expire("maint") \/ maint_rollback("maint")
         \/ maint_select("maint") \/ maint_next("maint")
  PROVE  SerialInv' /\ Follows(disk.sess, disk'.sess)
<1> DEFINE l == loc["maint"]
<1>1. /\ l.pc \in RecoveringPc \cup {"maint_select", "maint_next"} /\ ~ At("maint", "idle") /\ "maint" \in Thread
      /\ Cont(l) = l.pc /\ Cont(l) \notin TxPc /\ Cont(l) \notin Pending
  BY ThreadFacts DEF cleanup_temp_files, maint_expire, maint_rollback, maint_select, maint_next, At,
     RecoveringPc, Cont, MarkPc, TxPc, Pending
<1>2. Own("maint") /\ tx = NoTx /\ disk = Tables
  <2>1. Own("maint")
    BY <1>1, Acts
  <2>2. QED
    BY <1>1, <2>1, NoOpenTx DEF Own, Uncommitted, Pending
<1>3. \A s \in Session : sess[s].state = "COMMITTING" => ~ up /\ l.pc \in RecoveringPc
  BY <1>1, <1>2 DEF Own, OnlyCommitting, CommittingPc, RecoveringPc
<1>4. CASE cleanup_temp_files("maint")
  <2>1. l.pc = "maint_temp" /\ UNCHANGED <<tables, disk>> /\ up' = up
    BY <1>4 DEF cleanup_temp_files, At
  <2>2. PICK m : Set("maint", m) /\ m.pc = "maint_expire" /\ Cont(m) = m.pc
    BY <1>1, <1>4, GotoAt, LabelFacts DEF cleanup_temp_files, MarkPc
  <2>3. SessionKept(m)'
    BY <2>2, CalmKept DEF Watchful, CommittingPc, StoringPc, AbortPc
  <2>4. OnlyCommitting(m)'
    BY <1>3, <2>1, <2>2 DEF OnlyCommitting, RecoveringPc
  <2>5. QED
    BY <1>1, <1>2, <2>1, <2>2, <2>3, <2>4, MoveStep DEF Pending, Committer, CommittingPc
<1>5. CASE maint_expire("maint")
  <2>1. l.pc = "maint_expire" /\ disk' = Tables' /\ up' = up
    BY <1>2, <1>5 DEF maint_expire, At, Autocommit
  <2>2. PICK D : D = {s \in Session : Due(s, l.now)}
    OBVIOUS
  <2>3. \A s \in D : s \in Session /\ sess[s].state = "OPEN" /\ sess[s] # NoSession
    BY <2>2 DEF Due, NoSession
  <2>4. Updated(D, "EXPIRED")
    BY <1>5, <2>2, <2>3, UpdateMany DEF maint_expire
  <2>5. \A s \in D : sess[s].state \in Live /\ "EXPIRED" \in MayFollow[sess[s].state]
    BY <2>3 DEF Live, MayFollow
  <2>6. PICK m : Set("maint", m) /\ m.pc = "maint_rollback" /\ Cont(m) = m.pc
    BY <1>1, <1>5, GotoAt, LabelFacts DEF maint_expire, MarkPc
  <2>7. SessionKept(m)'
    BY <2>6, CalmKept DEF Watchful, CommittingPc, StoringPc, AbortPc
  <2>8. OnlyCommitting(m)'
    BY <1>3, <2>1, <2>4, <2>6 DEF OnlyCommitting, RecoveringPc, Updated
  <2>9. QED
    BY <1>1, <1>2, <2>1, <2>4, <2>5, <2>6, <2>7, <2>8, UpdateStep DEF Pending, Committer, CommittingPc
<1>6. CASE maint_rollback("maint")
  <2>1. l.pc = "maint_rollback" /\ disk' = Tables' /\ up' = up
    BY <1>2, <1>6 DEF maint_rollback, At, Autocommit
  <2>2. PICK D : D = {s \in Session : sess[s].state = "COMMITTING"}
    OBVIOUS
  <2>3. \A s \in D : s \in Session /\ sess[s].state = "COMMITTING" /\ sess[s] # NoSession
    BY <2>2 DEF NoSession
  <2>4. Updated(D, "OPEN")
    BY <1>6, <2>2, <2>3, UpdateMany DEF maint_rollback
  <2>5. \A s \in D : sess[s].state \in Live /\ "OPEN" \in MayFollow[sess[s].state]
    BY <2>3 DEF Live, MayFollow
  <2>6. PICK m : Set("maint", m) /\ m.pc = "maint_select" /\ Cont(m) = m.pc
    BY <1>1, <1>6, GotoAt, LabelFacts DEF maint_rollback, MarkPc
  <2>7. SessionKept(m)'
    BY <2>6, CalmKept DEF Watchful, CommittingPc, StoringPc, AbortPc
  <2>8. OnlyCommitting(m)'
    BY <2>2, <2>4 DEF OnlyCommitting, Updated
  <2>9. QED
    BY <1>1, <1>2, <2>1, <2>4, <2>5, <2>6, <2>7, <2>8, UpdateStep DEF Pending, Committer, CommittingPc
<1>7. CASE maint_select("maint") \/ maint_next("maint")
  <2>1. l.pc \in {"maint_select", "maint_next"} /\ UNCHANGED <<tables, disk>>
    BY <1>7 DEF maint_select, maint_next, At
  <2>2. PICK m : Set("maint", m) /\ (m.pc \in {"idle", "maint_next"} \/ (m.pc = "mark_select" /\ m.ret = "maint_next"))
    <3>1. CASE Done("maint")
      BY <1>1, <3>1, DoneAt
    <3>2. CASE maint_select("maint")
      <4>1. PICK S : S = {s \in Session : sess[s].state \in {"EXPIRED", "ABORTED"}}
        OBVIOUS
      <4>2. PICK m : m = [l EXCEPT !.pc = "maint_next", !.sessions = S]
        OBVIOUS
      <4>3. m.pc = "maint_next"
        BY <1>1, <4>2, OwnFacts DEF Local
      <4>4. Set("maint", m)
        BY <3>2, <4>1, <4>2 DEF maint_select
      <4>5. QED
        BY <4>3, <4>4
    <3>3. CASE maint_next("maint") /\ ~ Done("maint")
      <4>1. PICK s \in l.sessions :
              Set("maint", [l EXCEPT !.s = s, !.sessions = @ \ {s}, !.ret = "maint_next", !.pc = "mark_select"])
        BY <3>3 DEF maint_next
      <4>2. PICK m : m = [l EXCEPT !.s = s, !.sessions = @ \ {s}, !.ret = "maint_next", !.pc = "mark_select"]
        OBVIOUS
      <4>3. m.pc = "mark_select" /\ m.ret = "maint_next"
        BY <1>1, <4>2, OwnFacts DEF Local
      <4>4. QED
        BY <4>1, <4>2, <4>3
    <3>4. QED
      BY <1>7, <3>1, <3>2, <3>3
  <2>3. Cont(m) \notin Pending /\ m.pc \notin Watchful
    BY <2>2 DEF Cont, MarkPc, Pending, Watchful, CommittingPc, StoringPc, AbortPc
  <2>4. l.pc \notin CommittingPc \cup {"commit_changes"} /\ l.pc \notin RecoveringPc
    BY <2>1 DEF CommittingPc, RecoveringPc
  <2>5. QED
    BY <1>1, <1>2, <2>1, <2>2, <2>3, <2>4, CalmStep
<1>8. QED
  BY <1>4, <1>5, <1>6, <1>7

LEMMA MarkSerial ==
  ASSUME TypeInv, Safe, SerialInv, Unlocked = {}, NEW t \in Thread, mark_unreferenced_parts(t)
  PROVE  SerialInv' /\ Follows(disk.sess, disk'.sess)
<1> DEFINE l == loc[t]
<1>1. PICK m \in Local : Set(t, m) /\ Cont(m) = Cont(l) /\ Cont(l) \in Returns
  BY MarkMove
<1>2. m.s = l.s /\ m.pc # "expire"
  <2>1. loc'[t] = m
    BY <1>1 DEF Set, TypeInv, TypeOK
  <2>2. QED
    BY <2>1, MarkKeeps
<1>3. l.pc \in MarkPc /\ ~ At(t, "idle") /\ up' = up /\ sess' = sess
  BY DEF mark_unreferenced_parts, mark_select, delete_parts, mark_manifests, mark_parts, mark_update, At, MarkPc
<1>4. Own(t)
  BY <1>3, Acts
<1>5. UNCHANGED <<tables, disk>> \/ Autocommit
  BY DEF mark_unreferenced_parts, mark_select, delete_parts, mark_manifests, mark_parts, mark_update
<1>6. m.pc \notin Watchful
  BY <1>1, <1>2 DEF Watchful, Cont, MarkPc, Returns, CommittingPc, StoringPc, AbortPc
<1>7. OnlyCommitting(m)'
  BY <1>3, <1>4 DEF Own, OnlyCommitting, MarkPc, CommittingPc, RecoveringPc
<1>8. Uncommitted(m)' /\ disk'.sess \in {disk.sess, sess}
  <2>1. CASE Cont(l) \in Pending
    <3>1. tx # NoTx
      BY <2>1, ThreadFacts DEF Safe, TxOwner, Pending, TxPc
    <3>2. disk' = disk
      BY <1>5, <3>1 DEF Autocommit
    <3>3. QED
      BY <1>1, <1>2, <1>3, <1>4, <2>1, <3>2 DEF Own, Uncommitted, Pending, Cont
  <2>2. CASE Cont(l) \notin Pending
    <3>1. tx = NoTx /\ disk = Tables
      BY <1>1, <1>4, <2>2, NoOpenTx DEF Own, Uncommitted, Pending, Returns, TxPc
    <3>2. disk' = Tables'
      BY <1>5, <3>1 DEF Autocommit, Tables
    <3>3. QED
      BY <1>1, <1>3, <2>2, <3>2 DEF Uncommitted, Pending, Cont, Tables
  <2>3. QED
    BY <2>1, <2>2
<1>9. QED
  BY <1>1, <1>3, <1>4, <1>6, <1>7, <1>8, CalmKept, SameStep DEF Own, Committer, Watchful

LEMMA EnvSerial ==
  ASSUME TypeInv, SerialInv, Tick \/ Crash \/ UNCHANGED vars
  PROVE  SerialInv' /\ Follows(disk.sess, disk'.sess)
<1>1. CASE Tick \/ UNCHANGED vars
  <2>1. UNCHANGED <<sess, part, chunk, artifact, disk, changes, up, loc>>
    BY <1>1 DEF Tick, vars
  <2>2. SerialInv'
    BY <2>1 DEF SerialInv, Alone, At, Uncommitted, SessionKept, OnlyCommitting, Committer, WithinLimit, Held, Cont, Tables
  <2>3. QED
    BY <2>1, <2>2 DEF Follows
<1>2. CASE Crash
  <2>1. sess' = disk.sess /\ part' = disk.part /\ chunk' = disk.chunk /\ artifact' = disk.artifact /\ disk' = disk
    BY <1>2 DEF Crash
  <2>2. PICK m : m = [Idle EXCEPT !.now = clock, !.pc = "maint_temp"]
    OBVIOUS
  <2>3. m.pc = "maint_temp"
    BY <2>2, IdleType DEF Local
  <2>4. loc'["maint"] = m /\ \A u \in Thread \ {"maint"} : loc'[u] = Idle
    BY <1>2, <2>2, ThreadFacts DEF Crash
  <2>5. Alone("maint")'
    BY <2>4 DEF Alone, At, Idle
  <2>6. disk' = Tables'
    BY <2>1 DEF Tables, TypeInv, TypeOK, DatabaseType
  <2>7. Uncommitted(loc["maint"])' /\ SessionKept(loc["maint"])' /\ OnlyCommitting(loc["maint"])'
    <3>1. Uncommitted(loc["maint"])'
      BY <2>3, <2>4, <2>6 DEF Uncommitted, Cont, MarkPc
    <3>2. SessionKept(loc["maint"])'
      BY <2>3, <2>4 DEF SessionKept, CommittingPc, StoringPc, AbortPc
    <3>3. OnlyCommitting(loc["maint"])'
      BY <1>2, <2>3, <2>4 DEF Crash, OnlyCommitting, RecoveringPc
    <3>4. QED
      BY <3>1, <3>2, <3>3
  <2>8. WithinLimit(sess)' /\ WithinLimit(disk.sess)'
    BY <2>1 DEF SerialInv, WithinLimit, Held
  <2>9. Committer("maint", loc["maint"])'
    BY <2>3, <2>4 DEF Committer, CommittingPc
  <2>10. QED
    BY <2>1, <2>5, <2>7, <2>8, <2>9, ThreadFacts DEF SerialInv, Follows
<1>3. QED
  BY <1>1, <1>2
-----------------------------------------------------------------------------
LEMMA InitSerial == Init => SerialInv
<1>1. SUFFICES ASSUME Init PROVE SerialInv
  OBVIOUS
<1>2. "maint" \in Thread /\ \A u \in Thread : loc[u] = Idle
  BY <1>1, ThreadFacts DEF Init
<1>3. Idle.pc = "idle" /\ Cont(Idle) = "idle"
  BY IdleType DEF Idle
<1>4. Alone("maint")
  BY <1>2, <1>3 DEF Alone, At
<1>5. Uncommitted(loc["maint"]) /\ SessionKept(loc["maint"])
  BY <1>1, <1>2, <1>3 DEF Init, Uncommitted, SessionKept, CommittingPc, StoringPc, AbortPc
<1>6. \A s \in Session : sess[s].state = "NONE" /\ disk.sess = sess
  BY <1>1 DEF Init, Tables, NoSession
<1>7. OnlyCommitting(loc["maint"])
  BY <1>6 DEF OnlyCommitting
<1>8. WithinLimit(sess) /\ WithinLimit(disk.sess)
  <2>1. \A o \in Owner : Held(sess, o) = {} /\ Held(disk.sess, o) = {}
    BY <1>6 DEF Held, Live
  <2>2. QED
    BY <2>1, FS_EmptySet, ConfigAssumption DEF WithinLimit
<1>9. QED
  BY <1>2, <1>3, <1>4, <1>5, <1>7, <1>8 DEF SerialInv, Committer, CommittingPc

LEMMA NextSerial ==
  ASSUME TypeInv, Safe, SerialInv, Unlocked = {}, [Next]_vars
  PROVE  SerialInv' /\ Follows(disk.sess, disk'.sess)
<1>1. CASE Worker
  BY <1>1, ThreadFacts, StartSerial, CreateSerial, PutSerial, CommitSerial, DeleteSerial, GcSerial, ExpireSerial
  DEF Worker
<1>2. CASE \E t \in {"worker", "admin"} : Aborter(t)
  BY <1>2, ThreadFacts, StartSerial, AbortSerial DEF Aborter
<1>3. CASE Maintenance
  BY <1>3, ThreadFacts, StartSerial, MaintSerial DEF Maintenance
<1>4. CASE \E t \in Thread : mark_unreferenced_parts(t)
  BY <1>4, MarkSerial
<1>5. CASE Tick \/ Crash \/ UNCHANGED vars
  BY <1>5, EnvSerial
<1>6. QED
  BY <1>1, <1>2, <1>3, <1>4, <1>5 DEF Next

\* The invariant of serialised calls, with crashes.
THEOREM SerialInvariant == Unlocked = {} => (Spec => []SerialInv)
<1>1. SUFFICES ASSUME Unlocked = {} PROVE Spec => []SerialInv
  OBVIOUS
<1>2. Init => TypeInv /\ Safe /\ SerialInv
  BY InitType, InitSafe, InitSerial
<1>3. TypeInv /\ Safe /\ SerialInv /\ [Next]_vars => TypeInv' /\ Safe' /\ SerialInv'
  BY <1>1, NextType, NextSafe, NextSerial
<1>4. QED
  BY <1>2, <1>3, PTL DEF Spec

\* A commit that failed put its session back to OPEN, and start-up recovery
\* did so for one that a crash cut short: between requests no session is in
\* COMMITTING.
THEOREM CommitsSettle == Unlocked = {} => (Spec => []CommitSettles)
<1>1. SUFFICES ASSUME Unlocked = {} PROVE Spec => []CommitSettles
  OBVIOUS
<1>2. SerialInv => CommitSettles
  <2>1. SUFFICES ASSUME SerialInv, up, At("worker", "idle"), NEW s \in Session, sess[s].state = "COMMITTING"
                 PROVE  FALSE
    BY DEF CommitSettles
  <2>2. PICK t \in Thread : Own(t)
    BY <2>1 DEF SerialInv, Own
  <2>3. loc[t].pc \in CommittingPc \cup {"commit_changes"} /\ loc[t].s = s
    BY <2>1, <2>2 DEF Own, OnlyCommitting
  <2>4. loc["worker"].pc \in CommittingPc \cup {"commit_changes"}
    BY <2>2, <2>3 DEF Own, Committer
  <2>5. QED
    BY <2>1, <2>4 DEF At, CommittingPc
<1>3. QED
  BY <1>1, <1>2, SerialInvariant, PTL

\* When abort_session is about to report success, the session is over.
THEOREM AbortsTakeEffect == Unlocked = {} => (Spec => []AbortTakesEffect)
<1>1. SUFFICES ASSUME Unlocked = {} PROVE Spec => []AbortTakesEffect
  OBVIOUS
<1>2. TypeInv /\ SerialInv => AbortTakesEffect
  <2>1. SUFFICES ASSUME TypeInv, SerialInv, NEW t \in Thread, At(t, "abort_commit")
                 PROVE  sess[loc[t].s].state \in Terminal
    BY DEF AbortTakesEffect
  <2>2. Uncommitted(loc[t]) /\ Cont(loc[t]) = "abort_commit"
    BY <2>1 DEF SerialInv, Alone, At, Cont, MarkPc
  <2>3. PICK s \in Session : /\ s = loc[t].s /\ disk.sess[s].state \in Live
                             /\ sess = [disk.sess EXCEPT ![s].state = "ABORTED"]
    BY <2>2 DEF Uncommitted
  <2>4. disk.sess \in [Session -> SessionRow \cup {NoSession}]
    BY <2>1 DEF TypeInv, TypeOK, DatabaseType
  <2>5. disk.sess[s] \in SessionRow
    BY <2>3, <2>4 DEF NoSession, Live
  <2>6. sess[s].state = "ABORTED"
    BY <2>3, <2>4, <2>5 DEF SessionRow
  <2>7. QED
    BY <2>3, <2>6 DEF Terminal
<1>3. StorageInvariant => TypeInv
  BY DEF StorageInvariant
<1>4. QED
  BY <1>1, <1>2, <1>3, SerialInvariant, InvariantHolds, PTL

\* No owner ever has more open sessions than max_sessions_per_owner, though
\* sessions return to OPEN after failed commits and after crashes.
THEOREM LimitHolds == Unlocked = {} => (Spec => []SessionLimit)
<1>1. SUFFICES ASSUME Unlocked = {} PROVE Spec => []SessionLimit
  OBVIOUS
<1>2. SerialInv => SessionLimit
  <2>1. SUFFICES ASSUME SerialInv, NEW o \in Owner
                 PROVE  Cardinality(OpenSessions(o)) <= MaxSessionsPerOwner
    BY DEF SessionLimit
  <2>2. OpenSessions(o) \subseteq Held(sess, o)
    BY DEF OpenSessions, Held, Live
  <2>3. IsFiniteSet(Held(sess, o)) /\ Cardinality(Held(sess, o)) <= MaxSessionsPerOwner
    BY <2>1 DEF SerialInv, WithinLimit
  <2>4. /\ IsFiniteSet(OpenSessions(o)) /\ Cardinality(OpenSessions(o)) <= Cardinality(Held(sess, o))
    BY <2>2, <2>3, FS_Subset
  <2>5. Cardinality(OpenSessions(o)) \in Nat /\ Cardinality(Held(sess, o)) \in Nat
    BY <2>3, <2>4, FS_CardinalityType
  <2>6. QED
    BY <2>3, <2>4, <2>5, ConfigAssumption
<1>3. QED
  BY <1>1, <1>2, SerialInvariant, PTL

\* What a crash would find of a session moves only along the state machine of
\* FR-UP-07: no end state is left, and COMPLETED comes after COMMITTING.
THEOREM SessionsFollow == Unlocked = {} => (Spec => SessionStateMachine)
<1>1. SUFFICES ASSUME Unlocked = {} PROVE Spec => SessionStateMachine
  OBVIOUS
<1>2. StorageInvariant => TypeInv /\ Safe
  BY DEF StorageInvariant, Safe
<1>3. TypeInv /\ Safe /\ SerialInv /\ [Next]_vars =>
        [\A s \in Session :
           disk'.sess[s].state \in MayFollow[disk.sess[s].state] \cup {disk.sess[s].state}]_vars
  BY <1>1, NextSerial DEF Follows
<1>4. Spec => []StorageInvariant /\ []SerialInv /\ [][Next]_vars
  BY <1>1, InvariantHolds, SerialInvariant, PTL DEF Spec
<1>5. QED
  BY <1>2, <1>3, <1>4, PTL DEF SessionStateMachine
-----------------------------------------------------------------------------
(* No chunk leaks as long as nothing crashes.                              *)

Leak(t) == OnePart /\ Marking(loc[t])

LEMMA LeakActs ==
  ASSUME TypeInv, SerialInv, LeakInv, Unlocked = {}, crashes = 0,
         NEW t \in Thread, ~ At(t, "idle") \/ MayStart(t)
  PROVE  Own(t) /\ Leak(t)
<1>1. Own(t)
  BY Acts
<1>2. PICK v \in Thread : OnePart /\ Alone(v) /\ Marking(loc[v])
  BY DEF LeakInv
<1>3. CASE v = t
  BY <1>1, <1>2, <1>3 DEF Leak
<1>4. CASE v # t
  <2>1. loc[t].pc = "idle" /\ loc[v].pc = "idle"
    BY <1>1, <1>2, <1>4 DEF Own, Alone, At
  <2>2. Marking(loc[t])
    BY <1>2, <2>1 DEF Marking, MarkingPc
  <2>3. QED
    BY <1>1, <1>2, <2>2 DEF Leak
<1>5. QED
  BY <1>3, <1>4

LEMMA LeakStep ==
  ASSUME TypeInv, NEW t \in Thread, Own(t), NEW m, Set(t, m), OnePart', Marking(m)'
  PROVE  LeakInv'
<1>1. loc'[t] = m /\ \A u \in Thread \ {t} : loc'[u] = loc[u]
  BY DEF Set, TypeInv, TypeOK
<1>2. Alone(t)'
  BY <1>1 DEF Own, Alone, At
<1>3. Marking(loc[t])'
  BY <1>1 DEF Marking
<1>4. QED
  BY <1>2, <1>3 DEF LeakInv

\* Positions that know which chunks are used.
Knowing == {"commit_begin", "commit_publish", "gc_reactivate", "mark_delete"}

\* A step that takes no part, no manifest and no session out of use.
LEMMA LeakQuiet ==
  ASSUME TypeInv, NEW t \in Thread, Own(t), Leak(t), NEW m, Set(t, m), UNCHANGED <<part, artifact>>,
         \A s \in Session : sess'[s].state = "COMPLETED" => sess[s].state = "COMPLETED",
         \A d \in Digest : chunk'[d].state = "ACTIVE" => chunk[d].state = "ACTIVE",
         loc[t].pc \notin MarkingPc, m.pc \notin Knowing
  PROVE  LeakInv'
<1>1. \A p \in part : p.session \in Session
  BY DEF TypeInv, TypeOK, PartRow
<1>2. \A d \in Digest : InUse(d) => InUse(d)'
  BY <1>1 DEF InUse, InManifest
<1>3. \A d \in Digest : chunk'[d].state = "ACTIVE" => InUse(d)'
  BY <1>2 DEF Leak, Marking
<1>4. OnePart' /\ Marking(m)'
  BY <1>3 DEF Leak, OnePart, Marking, Knowing
<1>5. QED
  BY <1>4, LeakStep

\* Where the steps that know nothing of uses lead.
LEMMA QuietMove ==
  ASSUME TypeInv, NEW t \in Thread,
         \/ create_insert(t) \/ put_reload(t) \/ write_temp_file(t) \/ rename_into_place(t) \/ put_begin(t)
         \/ commit_transition(t) \/ commit_changes(t) \/ commit_reopen(t) \/ expire_session_if_due(t)
         \/ abort_begin(t) \/ abort_transition(t) \/ abort_commit(t) \/ delete_commit(t)
         \/ cleanup_temp_files(t) \/ maint_expire(t) \/ maint_rollback(t) \/ maint_select(t) \/ maint_next(t)
  PROVE  \E m : Set(t, m) /\ m.pc \notin Knowing
<1>1. CASE Done(t)
  BY <1>1, DoneAt DEF Knowing
<1>2. CASE \E label \in Labels \ Knowing : Goto(t, label)
  BY <1>2, GotoAt
<1>3. CASE abort_transition(t)
  <2>1. PICK m : m = [loc[t] EXCEPT !.pc = "mark_select", !.ret = "abort_commit"]
    OBVIOUS
  <2>2. m.pc = "mark_select"
    BY <2>1, OwnFacts DEF Local
  <2>3. QED
    BY <1>3, <2>1, <2>2 DEF abort_transition, Knowing
<1>4. CASE maint_select(t)
  <2>1. PICK S : S = {s \in Session : sess[s].state \in {"EXPIRED", "ABORTED"}}
    OBVIOUS
  <2>2. PICK m : m = [loc[t] EXCEPT !.pc = "maint_next", !.sessions = S]
    OBVIOUS
  <2>3. m.pc = "maint_next"
    BY <2>2, OwnFacts DEF Local
  <2>4. QED
    BY <1>4, <2>1, <2>2, <2>3 DEF maint_select, Knowing
<1>5. CASE maint_next(t) /\ ~ Done(t)
  <2>1. PICK s \in loc[t].sessions :
          Set(t, [loc[t] EXCEPT !.s = s, !.sessions = @ \ {s}, !.ret = "maint_next", !.pc = "mark_select"])
    BY <1>5 DEF maint_next
  <2>2. PICK m : m = [loc[t] EXCEPT !.s = s, !.sessions = @ \ {s}, !.ret = "maint_next", !.pc = "mark_select"]
    OBVIOUS
  <2>3. m.pc = "mark_select"
    BY <2>2, OwnFacts DEF Local
  <2>4. QED
    BY <2>1, <2>2, <2>3 DEF Knowing
<1>6. CASE create_insert(t) \/ abort_commit(t) \/ delete_commit(t) \/ commit_reopen(t)
  BY <1>1, <1>6 DEF create_insert, abort_commit, delete_commit, commit_reopen
<1> DEFINE Ls == {"put_store", "put_rename", "put_begin", "put_register", "commit_changes", "commit_validate",
                  "mark_select", "abort_transition", "maint_expire", "maint_rollback", "maint_select"}
<1>7. \A label \in Ls : label \in Labels \ Knowing
  BY LabelFacts DEF Labels, Knowing
<1>8. CASE put_reload(t) \/ write_temp_file(t) \/ rename_into_place(t) \/ put_begin(t)
  BY <1>1, <1>2, <1>7, <1>8 DEF put_reload, write_temp_file, rename_into_place, put_begin, BEGIN, BeginFails
<1>9. CASE \/ commit_transition(t) \/ commit_changes(t) \/ expire_session_if_due(t) \/ abort_begin(t)
           \/ cleanup_temp_files(t) \/ maint_expire(t) \/ maint_rollback(t)
  BY <1>1, <1>2, <1>7, <1>9 DEF commit_transition, commit_changes, expire_session_if_due, abort_begin,
     cleanup_temp_files, maint_expire, maint_rollback, BEGIN, BeginFails
<1>10. QED
  BY <1>1, <1>3, <1>4, <1>5, <1>6, <1>8, <1>9

LEMMA QuietLeak ==
  ASSUME TypeInv, SerialInv, NEW t \in Thread, Own(t), Leak(t),
         \/ create_insert(t) \/ put_reload(t) \/ write_temp_file(t) \/ rename_into_place(t) \/ put_begin(t)
         \/ commit_transition(t) \/ commit_changes(t) \/ commit_reopen(t) \/ expire_session_if_due(t)
         \/ abort_begin(t) \/ abort_transition(t) \/ abort_commit(t) \/ delete_commit(t)
         \/ cleanup_temp_files(t) \/ maint_expire(t) \/ maint_rollback(t) \/ maint_select(t) \/ maint_next(t)
  PROVE  LeakInv'
<1>1. PICK m : Set(t, m) /\ m.pc \notin Knowing
  BY QuietMove
<1>2. loc[t].pc \notin MarkingPc
  BY DEF create_insert, put_reload, write_temp_file, rename_into_place, put_begin, commit_transition, commit_changes,
     commit_reopen, expire_session_if_due, abort_begin, abort_transition, abort_commit, delete_commit,
     cleanup_temp_files, maint_expire, maint_rollback, maint_select, maint_next, At, MarkingPc
<1>3. sess \in [Session -> SessionRow \cup {NoSession}]
  BY DEF TypeInv, TypeOK
<1> DEFINE Q == /\ UNCHANGED <<part, artifact, chunk>>
                /\ \A s \in Session : sess'[s].state = "COMPLETED" => sess[s].state = "COMPLETED"
<1>4. ASSUME NEW D, NEW v, Updated(D, v), v # "COMPLETED"
      PROVE  \A s \in Session : sess'[s].state = "COMPLETED" => sess[s].state = "COMPLETED"
  BY <1>4 DEF Updated
<1>5. CASE create_insert(t)
  <2>1. CASE ROLLBACK
    <3>1. Cont(loc[t]) \notin Pending
      BY <1>5 DEF create_insert, At, Cont, MarkPc, Pending
    <3>2. UNCHANGED tables
      BY <2>1, <3>1, RollbackSame
    <3>3. Q
      BY <3>2
    <3>4. QED
      BY <1>1, <1>2, <3>3, LeakQuiet
  <2>2. CASE ~ ROLLBACK
    <3>1. PICK r \in CreateRequests, s \in Session :
            sess' = [sess EXCEPT ![s] =
                       [state |-> "OPEN", owner |-> r.owner, name |-> r.name, size |-> r.size,
                        digest |-> r.digest, expires_at |-> loc[t].now + SessionLifetime]]
      BY <1>5, <2>2 DEF create_insert
    <3>2. PICK row : row = [state |-> "OPEN", owner |-> r.owner, name |-> r.name, size |-> r.size,
                            digest |-> r.digest, expires_at |-> loc[t].now + SessionLifetime]
      OBVIOUS
    <3>3. sess' = [sess EXCEPT ![s] = row] /\ row.state = "OPEN"
      BY <3>1, <3>2
    <3>4. Q
      BY <1>3, <1>5, <2>2, <3>3 DEF create_insert
    <3>5. QED
      BY <1>1, <1>2, <3>4, LeakQuiet
  <2>3. QED
    BY <2>1, <2>2
<1>6. ASSUME NEW s \in Session, NEW from \in Live, NEW to, transition(s, from, to), to # "COMPLETED"
      PROVE  \A u \in Session : sess'[u].state = "COMPLETED" => sess[u].state = "COMPLETED"
  BY <1>4, <1>6, UpdateFrom
<1>7. CASE commit_transition(t) \/ commit_reopen(t) \/ expire_session_if_due(t) \/ abort_transition(t)
  <2>1. loc[t].s \in Session /\ (abort_transition(t) => loc[t].from \in Live)
    BY <1>7, OwnFacts DEF commit_transition, commit_reopen, expire_session_if_due, abort_transition, At, Args,
       Cont, MarkPc, CommitPc, AbortPc
  <2>2. UNCHANGED <<part, artifact, chunk>>
    BY <1>7 DEF commit_transition, commit_reopen, expire_session_if_due, abort_transition
  <2>3. Q
    BY <1>6, <1>7, <2>1, <2>2 DEF commit_transition, commit_reopen, expire_session_if_due, abort_transition, Live
  <2>4. QED
    BY <1>1, <1>2, <2>3, LeakQuiet
<1>8. CASE maint_expire(t) \/ maint_rollback(t)
  <2>1. UNCHANGED <<part, artifact, chunk>>
    BY <1>8 DEF maint_expire, maint_rollback
  <2>2. PICK D, v : /\ D \in SUBSET Session /\ v # "COMPLETED" /\ \A s \in D : sess[s].state \in Live
                    /\ sess' = [s \in Session |-> IF s \in D THEN [sess[s] EXCEPT !.state = v] ELSE sess[s]]
    <3>1. CASE maint_expire(t)
      <4>1. PICK D : D = {s \in Session : Due(s, loc[t].now)}
        OBVIOUS
      <4>2. sess' = [s \in Session |-> IF s \in D THEN [sess[s] EXCEPT !.state = "EXPIRED"] ELSE sess[s]]
        BY <3>1, <4>1 DEF maint_expire
      <4>3. QED
        BY <4>1, <4>2 DEF Due, Live
    <3>2. CASE maint_rollback(t)
      <4>1. PICK D : D = {s \in Session : sess[s].state = "COMMITTING"}
        OBVIOUS
      <4>2. sess' = [s \in Session |-> IF s \in D THEN [sess[s] EXCEPT !.state = "OPEN"] ELSE sess[s]]
        BY <3>2, <4>1 DEF maint_rollback
      <4>3. QED
        BY <4>1, <4>2 DEF Live
    <3>3. QED
      BY <1>8, <3>1, <3>2
  <2>3. \A s \in D : s \in Session /\ sess[s] # NoSession
    BY <2>2 DEF NoSession, Live
  <2>4. Updated(D, v)
    BY <2>2, <2>3, UpdateMany
  <2>5. Q
    BY <1>4, <2>1, <2>2, <2>4
  <2>6. QED
    BY <1>1, <1>2, <2>5, LeakQuiet
<1>9. CASE UNCHANGED tables
  <2>1. Q
    BY <1>9
  <2>2. QED
    BY <1>1, <1>2, <2>1, LeakQuiet
<1>10. CASE \/ put_reload(t) \/ write_temp_file(t) \/ rename_into_place(t) \/ put_begin(t) \/ commit_changes(t)
            \/ abort_begin(t) \/ abort_commit(t) \/ delete_commit(t) \/ cleanup_temp_files(t) \/ maint_select(t)
            \/ maint_next(t)
  BY <1>9, <1>10 DEF put_reload, write_temp_file, rename_into_place, put_begin, commit_changes, abort_begin,
     abort_commit, delete_commit, cleanup_temp_files, maint_select, maint_next
<1>11. QED
  BY <1>5, <1>7, <1>8, <1>10

LEMMA StartLeak ==
  ASSUME TypeInv, NEW t \in Thread, Own(t), Leak(t),
         \/ create_session(t) \/ put_chunk(t) \/ commit_session(t) \/ delete_artifact(t)
         \/ collect_garbage(t) \/ run_maintenance(t) \/ abort_session(t)
  PROVE  LeakInv'
<1>1. PICK m : Set(t, m) /\ StartsAt(m)
  BY StartAt
<1>2. loc[t].pc \notin MarkingPc /\ UNCHANGED tables
  BY DEF create_session, put_chunk, commit_session, delete_artifact, collect_garbage, run_maintenance, abort_session,
     MayStart, At, MarkingPc
<1>3. m.pc \notin Knowing
  BY <1>1 DEF StartsAt, Knowing
<1>4. QED
  BY <1>1, <1>2, <1>3, LeakQuiet

LEMMA PutLeak ==
  ASSUME TypeInv, Own("worker"), Leak("worker"), put_register("worker")
  PROVE  LeakInv'
<1> DEFINE l == loc["worker"]
<1>1. "worker" \in Thread /\ l.pc = "put_register" /\ Set("worker", Idle) /\ Idle.pc = "idle"
  BY ThreadFacts, DoneAt DEF put_register, At
<1>2. Idle.pc \notin Knowing /\ l.pc \notin MarkingPc
  BY <1>1 DEF Knowing, MarkingPc
<1>3. CASE ROLLBACK
  <2>1. Cont(l) \notin Pending
    BY <1>1 DEF Cont, MarkPc, Pending
  <2>2. UNCHANGED tables
    BY <1>1, <1>3, <2>1, RollbackSame
  <2>3. QED
    BY <1>1, <1>2, <2>2, LeakQuiet
<1>4. CASE ~ ROLLBACK
  <2>1. l.s \in Session /\ l.ordinal \in Ordinal /\ l.data \in Digest
    BY <1>1, OwnFacts DEF Args, Cont, MarkPc, PutPc
  <2>2. PICK q : q = [session |-> l.s, ordinal |-> l.ordinal, digest |-> l.data]
    OBVIOUS
  <2>3. q.session = l.s /\ q.ordinal = l.ordinal /\ q.digest = l.data
    BY <2>2
  <2>4. /\ part' = part \cup {q} /\ UNCHANGED <<sess, artifact>>
        /\ \A p \in part : p.session = l.s => p.ordinal # l.ordinal
        /\ chunk' = [reactivated({l.data}) EXCEPT ![l.data] = IF @ = NoChunk THEN ActiveChunk ELSE @]
    BY <1>4, <2>2 DEF put_register, PartsOf
  <2>5. \A d \in Digest : d # l.data => chunk'[d] = chunk[d]
    BY <2>1, <2>4 DEF reactivated
  <2>6. OnePart'
    BY <2>3, <2>4 DEF Leak, OnePart
  <2>7. sess'[q.session].state # "COMPLETED"
    BY <1>1, <2>3, <2>4 DEF Own, SessionKept, StoringPc
  <2>8. \A d \in Digest : d = l.data => InUse(d)'
    BY <2>3, <2>4, <2>7 DEF InUse
  <2>9. \A d \in Digest : InUse(d) => InUse(d)'
    BY <2>4 DEF InUse, InManifest
  <2>10. \A d \in Digest : chunk'[d].state = "ACTIVE" => InUse(d)'
    BY <1>2, <2>5, <2>8, <2>9 DEF Leak, Marking
  <2>11. Marking(Idle)'
    BY <1>1, <2>10 DEF Marking
  <2>12. QED
    BY <1>1, <2>6, <2>11, LeakStep
<1>5. QED
  BY <1>3, <1>4

\* The manifest of a complete upload names every digest of its parts.
LEMMA ManifestCovers ==
  ASSUME TypeInv, OnePart, NEW s \in Session, sess[s] # NoSession, Complete(s)
  PROVE  DigestsOf(s) \subseteq Range(ManifestOf(s))
<1>1. SUFFICES ASSUME NEW p \in PartsOf(s) PROVE p.digest \in Range(ManifestOf(s))
  BY DEF DigestsOf
<1>2. sess[s].size \in Nat
  BY SizeAssumption DEF TypeInv, TypeOK, SessionRow
<1>3. PICK k \in Nat : k = chunk_count(sess[s].size)
  BY <1>2, CountType
<1>4. p.ordinal \in 0 .. k - 1
  BY <1>3 DEF Complete
<1>5. PICK i : i = p.ordinal + 1
  OBVIOUS
<1>6. i \in 1 .. k /\ i - 1 = p.ordinal
  BY <1>4, <1>5
<1>7. PICK q : q = CHOOSE r \in PartsOf(s) : r.ordinal = i - 1
  OBVIOUS
<1>8. q \in PartsOf(s) /\ q.ordinal = p.ordinal
  BY <1>1, <1>6, <1>7
<1>9. q = p
  BY <1>1, <1>8 DEF OnePart, PartsOf
<1>10. ManifestOf(s)[i] = p.digest /\ i \in DOMAIN ManifestOf(s)
  BY <1>3, <1>6, <1>7, <1>9 DEF ManifestOf
<1>11. QED
  BY <1>10 DEF Range

LEMMA CommitLeak ==
  ASSUME TypeInv, Safe, Own("worker"), Leak("worker"),
         commit_validate("worker") \/ commit_begin("worker") \/ commit_publish("worker")
  PROVE  LeakInv'
<1> DEFINE l == loc["worker"]
<1>1. "worker" \in Thread /\ l \in Local /\ l.pc \in CommitPc /\ l.pc \notin MarkingPc
  BY ThreadFacts, OwnFacts DEF commit_validate, commit_begin, commit_publish, At, CommitPc, MarkingPc
<1>2. l.s \in Session /\ sess[l.s] # NoSession
  BY <1>1, OwnFacts DEF Args, Commits, Cont, MarkPc, CommitPc
<1>3. ASSUME Goto("worker", "commit_reopen"), UNCHANGED tables
      PROVE  LeakInv'
  <2>1. PICK m : Set("worker", m) /\ m.pc = "commit_reopen"
    BY <1>1, <1>3, GotoAt, LabelFacts
  <2>2. QED
    BY <1>1, <1>3, <2>1, LeakQuiet DEF Knowing
<1>4. CASE commit_validate("worker") /\ Complete(l.s)
  <2>1. PICK mf : mf = ManifestOf(l.s)
    OBVIOUS
  <2>2. PICK m : m = [l EXCEPT !.manifest = mf, !.pc = "commit_begin"]
    OBVIOUS
  <2>3. m.manifest = mf /\ m.pc = "commit_begin" /\ m.s = l.s
    BY <1>1, <2>2 DEF Local
  <2>4. Set("worker", m) /\ UNCHANGED tables
    BY <1>4, <2>1, <2>2 DEF commit_validate
  <2>5. DigestsOf(l.s) \subseteq Range(mf)
    BY <1>2, <1>4, <2>1, ManifestCovers DEF Leak
  <2>6. \A d \in Digest : chunk'[d].state = "ACTIVE" => InUse(d)'
    BY <1>1, <2>4 DEF Leak, Marking, InUse, InManifest
  <2>7. Marking(m)' /\ OnePart'
    BY <2>3, <2>4, <2>5, <2>6 DEF Leak, Marking, OnePart, DigestsOf, PartsOf
  <2>8. QED
    BY <1>1, <2>4, <2>7, LeakStep
<1>5. CASE commit_validate("worker") /\ ~ Complete(l.s)
  BY <1>3, <1>5 DEF commit_validate
<1>6. CASE commit_begin("worker")
  <2>1. l.pc = "commit_begin" /\ UNCHANGED tables
    BY <1>6 DEF commit_begin, At
  <2>2. tx = NoTx
    BY <1>1, <2>1, NoOpenTx DEF Cont, MarkPc, TxPc
  <2>3. PICK m : Set("worker", m) /\ m.s = l.s /\ m.manifest = l.manifest /\ m.pc = "commit_publish"
    BY <1>1, <1>6, <2>2, GotoAt, LabelFacts DEF commit_begin, BEGIN, BeginFails
  <2>4. \A d \in Digest : chunk'[d].state = "ACTIVE" => InUse(d)'
    BY <1>1, <2>1 DEF Leak, Marking, InUse, InManifest
  <2>5. Marking(m)' /\ OnePart'
    BY <2>1, <2>3, <2>4 DEF Leak, Marking, OnePart, DigestsOf, PartsOf
  <2>6. QED
    BY <1>1, <2>3, <2>5, LeakStep
<1>7. CASE commit_publish("worker") /\ artifact[sess[l.s].name] # NoArtifact
  <2>1. ROLLBACK /\ Goto("worker", "commit_reopen") /\ Cont(l) \notin Pending
    BY <1>7 DEF commit_publish, At, Cont, MarkPc, Pending
  <2>2. QED
    BY <1>1, <1>3, <2>1, RollbackSame
<1>8. CASE commit_publish("worker") /\ artifact[sess[l.s].name] = NoArtifact
  <2>1. PICK n : n = sess[l.s].name
    OBVIOUS
  <2>2. n \in Name
    BY <1>2, <2>1 DEF TypeInv, TypeOK, SessionRow
  <2>3. PICK row : row = [creator |-> sess[l.s].owner, size |-> sess[l.s].size,
                          digest |-> sess[l.s].digest, manifest |-> l.manifest]
    OBVIOUS
  <2>4. row.manifest = l.manifest /\ row # NoArtifact
    BY <2>3 DEF NoArtifact
  <2>5. /\ l.pc = "commit_publish" /\ artifact[n] = NoArtifact /\ artifact' = [artifact EXCEPT ![n] = row]
        /\ chunk' = reactivated(Range(l.manifest)) /\ sess' = [sess EXCEPT ![l.s].state = "COMPLETED"]
        /\ part' = part /\ Done("worker")
    BY <1>8, <2>1, <2>3 DEF commit_publish, At
  <2>6. artifact'[n] = row /\ \A x \in Name : x # n => artifact'[x] = artifact[x]
    BY <2>2, <2>5 DEF TypeInv, TypeOK
  <2>7. \A d : InManifest(d) \/ d \in Range(l.manifest) => InManifest(d)'
    BY <2>2, <2>4, <2>5, <2>6 DEF InManifest
  <2>8. Updated({l.s}, "COMPLETED")
    BY <1>2, <2>5, UpdateOne
  <2>9. \A p \in part : p.session \in Session /\ (p.session = l.s => p.digest \in Range(l.manifest))
    BY <2>5 DEF Leak, Marking, DigestsOf, PartsOf, TypeInv, TypeOK, PartRow
  <2>10. \A d : InUse(d) => InUse(d)'
    BY <2>5, <2>7, <2>8, <2>9 DEF InUse, Updated
  <2>11. \A d \in Digest : d \notin Range(l.manifest) => chunk'[d] = chunk[d]
    BY <2>5 DEF reactivated
  <2>12. \A d \in Digest : chunk'[d].state = "ACTIVE" => InUse(d)'
    BY <1>1, <2>7, <2>10, <2>11 DEF Leak, Marking, InUse
  <2>13. Marking(Idle)' /\ OnePart'
    BY <1>1, <2>5, <2>12, DoneAt DEF Leak, Marking, OnePart
  <2>14. QED
    BY <1>1, <2>5, <2>13, DoneAt, LeakStep
<1>9. QED
  BY <1>4, <1>5, <1>6, <1>7, <1>8

LEMMA DeleteLeak ==
  ASSUME TypeInv, Own("worker"), Leak("worker"), delete_row("worker")
  PROVE  LeakInv'
<1> DEFINE l == loc["worker"]
<1>1. "worker" \in Thread /\ l \in Local /\ l.pc = "delete_row" /\ l.name \in Name
  <2>1. "worker" \in Thread /\ l \in Local /\ l.pc = "delete_row"
    BY ThreadFacts, OwnFacts DEF delete_row, At
  <2>2. QED
    BY <2>1, OwnFacts DEF Args, Cont, MarkPc
<1>2. l.pc \notin MarkingPc /\ Cont(l) \notin Pending
  BY <1>1 DEF MarkingPc, Cont, MarkPc, Pending
<1>3. CASE artifact[l.name] = NoArtifact
  <2>1. ROLLBACK /\ Done("worker")
    BY <1>3 DEF delete_row
  <2>2. UNCHANGED tables
    BY <1>1, <1>2, <2>1, RollbackSame
  <2>3. QED
    BY <1>1, <1>2, <2>1, <2>2, DoneAt, LeakQuiet DEF Knowing
<1>4. CASE artifact[l.name] # NoArtifact
  <2>1. PICK n \in Name : n = l.name
    BY <1>1
  <2>2. PICK D : D = Range(artifact[n].manifest)
    OBVIOUS
  <2>3. PICK p : p = IF D = {} THEN "delete_commit" ELSE "mark_next"
    OBVIOUS
  <2>4. PICK m : m = [l EXCEPT !.todo = D, !.ret = "delete_commit", !.pc = p]
    OBVIOUS
  <2>5. m.pc = p /\ m.todo = D
    BY <1>1, <2>4 DEF Local
  <2>6. Set("worker", m) /\ artifact' = [artifact EXCEPT ![n] = NoArtifact] /\ UNCHANGED <<sess, part, chunk>>
    BY <1>4, <2>1, <2>2, <2>3, <2>4 DEF delete_row
  <2>7. \A x \in Name : x # n => artifact'[x] = artifact[x]
    BY <2>6 DEF TypeInv, TypeOK
  <2>8. \A d : InUse(d) => InUse(d)' \/ d \in D
    BY <2>2, <2>6, <2>7 DEF InUse, InManifest
  <2>9. \A d \in Digest : chunk'[d].state = "ACTIVE" => InUse(d)' \/ (m.pc \in MarkingPc /\ d \in m.todo)
    BY <1>2, <2>3, <2>5, <2>6, <2>8 DEF Leak, Marking, MarkingPc
  <2>10. Marking(m)' /\ OnePart'
    BY <2>3, <2>5, <2>6, <2>9 DEF Leak, Marking, OnePart
  <2>11. QED
    BY <1>1, <2>6, <2>10, LeakStep
<1>5. QED
  BY <1>3, <1>4

LEMMA GcLeak ==
  ASSUME TypeInv, Own("worker"), Leak("worker"),
         \/ gc_check("worker") \/ gc_reactivate("worker") \/ gc_remove("worker") \/ gc_delete("worker")
  PROVE  LeakInv'
<1> DEFINE l == loc["worker"]
<1>1. "worker" \in Thread /\ l.pc \in GcPc /\ UNCHANGED <<sess, part, artifact>>
  BY ThreadFacts DEF gc_check, gc_reactivate, gc_remove, gc_delete, At, GcPc
<1>2. PICK m : Set("worker", m) /\ Collects(m)
  BY GcAt
<1>3. \A d : (InUse(d)' <=> InUse(d)) /\ (chunk_referenced(d)' <=> chunk_referenced(d))
  BY <1>1 DEF InUse, InManifest, chunk_referenced, InLiveSession
<1>4. \A d : chunk_referenced(d) => InUse(d)
  BY DEF chunk_referenced, InLiveSession, InUse, Live
<1>5. chunk \in [Digest -> ChunkRow]
  BY DEF TypeInv, TypeOK
<1>6. \A d \in Digest : chunk[d].state = "ACTIVE" => InUse(d)
  BY <1>1 DEF Leak, Marking, GcPc, MarkingPc
<1>7. \A d \in Digest : chunk'[d].state = "ACTIVE" => InUse(d)
  <2>1. CASE gc_reactivate("worker")
    <3>1. chunk_referenced(l.cur)
      BY <2>1 DEF gc_reactivate, At, Leak, Marking
    <3>2. \A d \in Digest : d # l.cur => chunk'[d] = chunk[d]
      BY <1>5, <2>1 DEF gc_reactivate
    <3>3. QED
      BY <1>4, <1>6, <3>1, <3>2
  <2>2. CASE gc_delete("worker")
    <3>1. \A d \in Digest : chunk'[d] = chunk[d] \/ chunk'[d] = NoChunk
      BY <1>5, <2>2 DEF gc_delete
    <3>2. QED
      BY <1>6, <3>1 DEF NoChunk
  <2>3. CASE gc_check("worker") \/ gc_remove("worker")
    BY <1>6, <2>3 DEF gc_check, gc_remove
  <2>4. QED
    BY <2>1, <2>2, <2>3
<1>8. Marking(m)' /\ OnePart'
  BY <1>1, <1>2, <1>3, <1>7 DEF Leak, Marking, OnePart, Collects, GcPc
<1>9. QED
  BY <1>1, <1>2, <1>8, LeakStep

LEMMA MarkLeak ==
  ASSUME TypeInv, NEW t \in Thread, Own(t), Leak(t), mark_unreferenced_parts(t)
  PROVE  LeakInv'
<1> DEFINE l == loc[t]
<1>1. l \in Local /\ l.pc \in MarkPc \ {"expire"} /\ UNCHANGED <<sess, artifact>>
  BY OwnFacts DEF mark_unreferenced_parts, mark_select, delete_parts, mark_manifests, mark_parts, mark_update, At, MarkPc
<1>2. l.ret \in Returns /\ l.ret \notin Knowing /\ l.ret \notin MarkPc
  BY <1>1, OwnFacts, RetNotMark DEF Args, Returns, Knowing
<1>3. \A d \in Digest : chunk[d].state = "ACTIVE" => InUse(d) \/ (l.pc \in MarkingPc /\ d \in l.todo)
  BY DEF Leak, Marking
\* The end of one round of the loop.
<1>4. ASSUME NEW d, MarkNext(t, d), part' = part, l.pc \in MarkingPc,
             \A e \in Digest : e # d => chunk'[e] = chunk[e],
             d \in Digest => (chunk'[d].state = "ACTIVE" => InUse(d))
      PROVE  LeakInv'
  <2>1. PICK rest : rest = l.todo \ {d}
    OBVIOUS
  <2>2. PICK p : p = IF rest = {} THEN l.ret ELSE "mark_next"
    OBVIOUS
  <2>3. PICK m : m = [l EXCEPT !.todo = rest, !.cur = Nil, !.pc = p]
    OBVIOUS
  <2>4. m.pc = p /\ m.todo = rest
    BY <1>1, <2>3 DEF Local
  <2>5. Set(t, m)
    BY <1>4, <2>1, <2>2, <2>3 DEF MarkNext
  <2>6. \A e : InUse(e) => InUse(e)'
    BY <1>1, <1>4 DEF InUse, InManifest
  <2>7. \A e \in Digest : chunk'[e].state = "ACTIVE" => InUse(e)' \/ (m.pc \in MarkingPc /\ e \in m.todo)
    <3>1. SUFFICES ASSUME NEW e \in Digest, chunk'[e].state = "ACTIVE", ~ InUse(e)
                   PROVE  m.pc \in MarkingPc /\ e \in m.todo
      BY <2>6
    <3>2. e # d /\ chunk[e].state = "ACTIVE"
      BY <1>4, <3>1
    <3>3. e \in rest
      BY <1>3, <2>1, <3>1, <3>2
    <3>4. QED
      BY <2>2, <2>4, <3>3 DEF MarkingPc
  <2>8. Marking(m)' /\ OnePart'
    BY <1>2, <1>4, <2>2, <2>4, <2>7 DEF Leak, Marking, OnePart, Knowing
  <2>9. QED
    BY <2>5, <2>8, LeakStep
<1>5. CASE mark_select(t)
  <2>1. PICK D : D = DigestsOf(l.s)
    OBVIOUS
  <2>2. PICK m : m = [l EXCEPT !.todo = D, !.pc = "mark_delete"]
    OBVIOUS
  <2>3. m.pc = "mark_delete" /\ m.todo = D /\ m.s = l.s
    BY <1>1, <2>2 DEF Local
  <2>4. l.pc = "mark_select" /\ Set(t, m) /\ UNCHANGED tables
    BY <1>5, <2>1, <2>2 DEF mark_select, At
  <2>5. \A d \in Digest : chunk'[d].state = "ACTIVE" => InUse(d)'
    BY <1>3, <2>4 DEF InUse, InManifest, MarkingPc
  <2>6. Marking(m)' /\ OnePart'
    BY <2>1, <2>3, <2>4, <2>5 DEF Leak, Marking, OnePart, DigestsOf, PartsOf
  <2>7. QED
    BY <2>4, <2>6, LeakStep
<1>6. CASE delete_parts(t)
  <2>1. l.pc = "mark_delete" /\ part' = part \ PartsOf(l.s) /\ chunk' = chunk
    BY <1>6 DEF delete_parts, At
  <2>2. l.todo = DigestsOf(l.s)
    BY <2>1 DEF Leak, Marking
  <2>3. PICK p : p = IF l.todo = {} THEN l.ret ELSE "mark_next"
    OBVIOUS
  <2>4. p \in Labels /\ Goto(t, p)
    BY <1>2, <1>6, <2>3, RetNotMark, LabelFacts DEF delete_parts
  <2>5. PICK m : Set(t, m) /\ m.pc = p /\ m.todo = l.todo
    BY <2>4, GotoAt
  <2>6. \A d : InUse(d) => InUse(d)' \/ d \in l.todo
    BY <1>1, <2>1, <2>2 DEF InUse, InManifest, DigestsOf, PartsOf
  <2>7. \A d \in Digest : chunk'[d].state = "ACTIVE" => InUse(d)' \/ (m.pc \in MarkingPc /\ d \in m.todo)
    BY <1>3, <2>1, <2>3, <2>5, <2>6 DEF MarkingPc
  <2>8. Marking(m)' /\ OnePart'
    BY <1>2, <2>1, <2>3, <2>5, <2>7 DEF Leak, Marking, OnePart, Knowing
  <2>9. QED
    BY <2>5, <2>8, LeakStep
<1>7. ASSUME NEW m, Set(t, m), m.pc \in MarkingPc \ {"mark_delete"}, m.todo = l.todo, UNCHANGED tables
      PROVE  LeakInv'
  <2>1. \A d \in Digest : chunk'[d].state = "ACTIVE" => InUse(d)' \/ (m.pc \in MarkingPc /\ d \in m.todo)
    BY <1>3, <1>7 DEF InUse, InManifest
  <2>2. Marking(m)' /\ OnePart'
    BY <1>7, <2>1 DEF Leak, Marking, OnePart, MarkingPc
  <2>3. QED
    BY <1>7, <2>2, LeakStep
<1>8. CASE mark_manifests(t)
  <2>1. PICK d \in l.todo : IF InManifest(d) THEN MarkNext(t, d)
                            ELSE Set(t, [l EXCEPT !.cur = d, !.pc = "mark_parts"])
    BY <1>8 DEF mark_manifests
  <2>2. l.pc \in MarkingPc /\ UNCHANGED tables
    BY <1>8 DEF mark_manifests, At, MarkingPc
  <2>3. CASE InManifest(d)
    BY <1>4, <2>1, <2>2, <2>3 DEF InUse
  <2>4. CASE ~ InManifest(d)
    <3>1. PICK m : m = [l EXCEPT !.cur = d, !.pc = "mark_parts"]
      OBVIOUS
    <3>2. m.pc = "mark_parts" /\ m.todo = l.todo
      BY <1>1, <3>1 DEF Local
    <3>3. QED
      BY <1>7, <2>1, <2>2, <2>4, <3>1, <3>2 DEF MarkingPc
  <2>5. QED
    BY <2>3, <2>4
<1>9. CASE mark_parts(t)
  <2>1. l.pc \in MarkingPc /\ UNCHANGED tables
    BY <1>9 DEF mark_parts, At, MarkingPc
  <2>2. CASE InLiveSession(l.cur)
    <3>1. MarkNext(t, l.cur)
      BY <1>9, <2>2 DEF mark_parts
    <3>2. InUse(l.cur)
      BY <2>2 DEF InLiveSession, InUse, Live
    <3>3. QED
      BY <1>4, <2>1, <3>1, <3>2
  <2>3. CASE ~ InLiveSession(l.cur)
    BY <1>7, <1>9, <2>1, <2>3, GotoAt, LabelFacts DEF mark_parts, MarkingPc
  <2>4. QED
    BY <2>2, <2>3
<1>10. CASE mark_update(t)
  <2>1. l.pc \in MarkingPc /\ part' = part /\ MarkNext(t, l.cur)
    BY <1>10 DEF mark_update, At, MarkingPc
  <2>2. chunk \in [Digest -> ChunkRow]
    BY DEF TypeInv, TypeOK
  <2>3. \A e \in Digest : e # l.cur => chunk'[e] = chunk[e]
    BY <1>10, <2>2 DEF mark_update
  <2>4. l.cur \in Digest => chunk'[l.cur].state # "ACTIVE"
    BY <1>10, <2>2 DEF mark_update, PendingChunk
  <2>5. QED
    BY <1>4, <2>1, <2>3, <2>4
<1>11. QED
  BY <1>5, <1>6, <1>8, <1>9, <1>10 DEF mark_unreferenced_parts

LEMMA NextLeak ==
  ASSUME TypeInv, Safe, SerialInv, LeakInv, Unlocked = {}, [Next]_vars
  PROVE  LeakInv'
<1>1. CASE Tick \/ UNCHANGED vars
  <2>1. UNCHANGED <<sess, part, chunk, artifact, crashes, loc>>
    BY <1>1 DEF Tick, vars
  <2>2. QED
    BY <2>1 DEF LeakInv, OnePart, Alone, At, Marking, InUse, InManifest, chunk_referenced, InLiveSession, DigestsOf, PartsOf
<1>2. CASE Crash
  <2>1. crashes' # 0
    BY <1>2 DEF Crash, TypeInv, TypeOK
  <2>2. QED
    BY <2>1 DEF LeakInv
<1>3. CASE ~ (Tick \/ Crash \/ UNCHANGED vars)
  <2>1. crashes' = crashes
    BY <1>3 DEF Next, Worker, Aborter, Maintenance, mark_unreferenced_parts, create_session, create_insert,
       put_chunk, put_reload, write_temp_file, rename_into_place, put_begin, put_register, commit_session,
       commit_transition, commit_changes, commit_validate, commit_begin, commit_publish, commit_reopen,
       delete_artifact, delete_row, delete_commit, collect_garbage, gc_check, gc_reactivate, gc_remove, gc_delete,
       expire_session_if_due, abort_session, abort_begin, abort_transition, abort_commit, run_maintenance,
       cleanup_temp_files, maint_expire, maint_rollback, maint_select, maint_next, mark_select, delete_parts,
       mark_manifests, mark_parts, mark_update
  <2>2. SUFFICES ASSUME crashes = 0 PROVE LeakInv'
    BY <2>1 DEF LeakInv
  <2>3. ASSUME NEW t \in Thread, ~ At(t, "idle") \/ MayStart(t) PROVE Own(t) /\ Leak(t)
    BY <2>2, <2>3, LeakActs
  <2>4. CASE Worker
    <3>1. ~ At("worker", "idle") \/ MayStart("worker")
      BY <2>4 DEF Worker, create_session, create_insert, put_chunk, put_reload, write_temp_file, rename_into_place,
         put_begin, put_register, commit_session, commit_transition, commit_changes, commit_validate, commit_begin,
         commit_publish, commit_reopen, delete_artifact, delete_row, delete_commit, collect_garbage, gc_check,
         gc_reactivate, gc_remove, gc_delete, expire_session_if_due, At
    <3>2. "worker" \in Thread /\ Own("worker") /\ Leak("worker")
      BY <2>3, <3>1, ThreadFacts
    <3>3. QED
      BY <2>4, <3>2, StartLeak, QuietLeak, PutLeak, CommitLeak, DeleteLeak, GcLeak DEF Worker
  <2>5. CASE \E t \in {"worker", "admin"} : Aborter(t)
    <3>1. PICK t \in Thread : Aborter(t)
      BY <2>5, ThreadFacts
    <3>2. ~ At(t, "idle") \/ MayStart(t)
      BY <3>1 DEF Aborter, abort_session, abort_begin, abort_transition, abort_commit, At
    <3>3. QED
      BY <2>3, <3>1, <3>2, StartLeak, QuietLeak DEF Aborter
  <2>6. CASE Maintenance
    <3>1. ~ At("maint", "idle") \/ MayStart("maint")
      BY <2>6 DEF Maintenance, run_maintenance, cleanup_temp_files, maint_expire, maint_rollback, maint_select,
         maint_next, At
    <3>2. QED
      BY <2>3, <2>6, <3>1, ThreadFacts, StartLeak, QuietLeak DEF Maintenance
  <2>7. CASE \E t \in Thread : mark_unreferenced_parts(t)
    <3>1. PICK t \in Thread : mark_unreferenced_parts(t)
      BY <2>7
    <3>2. ~ At(t, "idle")
      BY <3>1 DEF mark_unreferenced_parts, mark_select, delete_parts, mark_manifests, mark_parts, mark_update, At
    <3>3. QED
      BY <2>3, <3>1, <3>2, MarkLeak
  <2>8. QED
    BY <1>3, <2>4, <2>5, <2>6, <2>7 DEF Next
<1>4. QED
  BY <1>1, <1>2, <1>3

\* Until the process crashes, no chunk leaks between operations: one that
\* counts as used is in a manifest or registered in a session whose parts
\* maintenance will still release, whatever uploads, commits, aborts,
\* deletions and collections came before.
THEOREM NoLeaks == Unlocked = {} => (Spec => []NoLeakWithoutCrash)
<1>1. SUFFICES ASSUME Unlocked = {} PROVE Spec => []NoLeakWithoutCrash
  OBVIOUS
<1>2. Init => LeakInv
  <2>1. SUFFICES ASSUME Init PROVE LeakInv
    OBVIOUS
  <2>2. "maint" \in Thread /\ \A u \in Thread : loc[u] = Idle /\ Idle.pc = "idle"
    BY <2>1, ThreadFacts DEF Init, Idle
  <2>3. Alone("maint") /\ OnePart
    BY <2>1, <2>2 DEF Init, Alone, At, OnePart
  <2>4. \A d \in Digest : chunk[d].state # "ACTIVE"
    BY <2>1 DEF Init, NoChunk
  <2>5. Marking(loc["maint"])
    BY <2>2, <2>4 DEF Marking
  <2>6. QED
    BY <2>2, <2>3, <2>5 DEF LeakInv
<1>3. StorageInvariant => TypeInv /\ Safe
  BY DEF StorageInvariant, Safe
<1>4. TypeInv /\ Safe /\ SerialInv /\ LeakInv /\ [Next]_vars => LeakInv'
  BY <1>1, NextLeak
<1>5. LeakInv => NoLeakWithoutCrash
  <2>1. SUFFICES ASSUME LeakInv, crashes = 0, \A t \in Thread : At(t, "idle"),
                        NEW d \in Digest, chunk[d].state = "ACTIVE"
                 PROVE  InUse(d)
    BY DEF NoLeakWithoutCrash, UnreferencedMarked, InUse
  <2>2. PICK t \in Thread : Marking(loc[t]) /\ loc[t].pc = "idle"
    BY <2>1 DEF LeakInv, At
  <2>3. QED
    BY <2>1, <2>2 DEF Marking, MarkingPc
<1>6. Spec => []StorageInvariant /\ []SerialInv
  BY <1>1, InvariantHolds, SerialInvariant, PTL
<1>7. QED
  BY <1>2, <1>3, <1>4, <1>5, <1>6, PTL DEF Spec
=============================================================================
