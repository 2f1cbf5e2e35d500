------------------------- MODULE StorageRepoProofs ---------------------------
(***************************************************************************)
(* The storage engine implements ArtifactRepo, for every instance and every *)
(* choice of the threads that bypass the mutex: what readers get after a    *)
(* crash changes only by whole publications of what a client declared and   *)
(* by whole deletions.                                                      *)
(*                                                                          *)
(* The argument: no chunk of an artifact on disk is missing                 *)
(* (PublishedIntact), so what readers get depends on the disk's artifact    *)
(* table alone; that table changes only when the worker ends commit_publish *)
(* or delete_commit, because statements of the other threads either join    *)
(* the worker's transaction or find the two views equal (DeletePending).    *)
(***************************************************************************)
EXTENDS StorageProofs, StorageRepo

USE DEF env, tables

W == loc["worker"]
Publishing == {"commit_begin", "commit_publish"}

\* Rows of g are rows of f, but for their state.
Kept(f, g) ==
  \A s \in Session : g[s] # NoSession =>
    f[s] # NoSession /\ g[s].owner = f[s].owner /\ g[s].name = f[s].name /\ g[s].digest = f[s].digest

LEMMA KeptDeclared == ASSUME NEW f, NEW g, Declared(f), Kept(f, g) PROVE Declared(g)
BY DEF Declared, Kept, IsRequest

LEMMA SameKept == ASSUME sess' = sess PROVE Kept(sess, sess')
BY DEF Kept

LEMMA StateKept ==
  ASSUME TypeInv, NEW s, NEW v, s \in Session => sess[s] # NoSession, sess' = [sess EXCEPT ![s].state = v]
  PROVE  Kept(sess, sess')
<1>1. sess \in [Session -> SessionRow \cup {NoSession}]
  BY DEF TypeInv, TypeOK
<1>2. SUFFICES ASSUME NEW u \in Session, sess'[u] # NoSession
               PROVE  /\ sess[u] # NoSession /\ sess'[u].owner = sess[u].owner
                      /\ sess'[u].name = sess[u].name /\ sess'[u].digest = sess[u].digest
  BY DEF Kept
<1>3. CASE u # s
  BY <1>1, <1>2, <1>3
<1>4. CASE u = s
  <2>1. sess[u] \in SessionRow
    BY <1>1, <1>4
  <2>2. sess'[u] = [sess[u] EXCEPT !.state = v]
    BY <1>1, <1>4
  <2>3. QED
    BY <1>4, <2>1, <2>2 DEF SessionRow
<1>5. QED
  BY <1>3, <1>4

LEMMA TransitionKept ==
  ASSUME TypeInv, NEW s, NEW from \in Live, NEW to, transition(s, from, to)
  PROVE  Kept(sess, sess')
<1>1. CASE sess[s].state = from
  <2>1. sess[s] # NoSession
    BY <1>1 DEF NoSession, Live
  <2>2. QED
    BY <1>1, <2>1, StateKept DEF transition
<1>2. CASE sess[s].state # from
  BY <1>2, SameKept DEF transition
<1>3. QED
  BY <1>1, <1>2

\* Where the worker is.
LEMMA WorkerAt ==
  ASSUME TypeInv
  PROVE  /\ W \in Local
         /\ \A m : Set("worker", m) => W' = m
         /\ \A t \in Thread : \A m : Set(t, m) /\ t # "worker" => W' = W
BY OwnFacts, ThreadFacts DEF W, Set, TypeInv, TypeOK

\* A step that publishes and deletes nothing.
LEMMA RepoQuiet ==
  ASSUME TypeInv, TypeInv', Safe, RepoInv, Kept(sess, sess'), artifact' = artifact,
         disk' \in {disk, Tables'}, disk' # disk => Cont(W) # "delete_commit",
         Cont(W') = "delete_commit" <=> Cont(W) = "delete_commit",
         Cont(W) = "delete_commit" => W'.name = W.name,
         W'.pc \in Publishing => W.pc \in Publishing /\ W'.manifest = W.manifest /\ W'.s = W.s
  PROVE  RepoInv' /\ disk'.artifact = disk.artifact
<1>1. Tables'.artifact = artifact' /\ Tables'.sess = sess'
  BY DEF Tables
<1>2. disk'.artifact = disk.artifact
  BY <1>1 DEF RepoInv, DeletePending, W
<1>3. Declared(sess') /\ Declared(disk'.sess)
  BY <1>1, KeptDeclared DEF RepoInv
<1>4. DeletePending'
  <2>1. CASE Cont(W) = "delete_commit"
    BY <1>2, <2>1 DEF RepoInv, DeletePending, W, Cont
  <2>2. CASE Cont(W) # "delete_commit"
    BY <1>2, <2>2 DEF RepoInv, DeletePending, W, Cont
  <2>3. QED
    BY <2>1, <2>2
<1>5. Validated'
  <2>1. SUFFICES ASSUME W'.pc \in Publishing PROVE FlattenSeq(W'.manifest) = sess'[W'.s].digest
    BY DEF Validated, W, Publishing
  <2>2. FlattenSeq(W.manifest) = sess[W.s].digest
    BY <2>1 DEF RepoInv, Validated, W, Publishing
  <2>3. W'.s \in Session /\ sess'[W'.s] # NoSession
    BY <2>1, ThreadFacts DEF TypeInv, LocalsOK, Args, Commits, W, Publishing, Cont, CommitPc, MarkPc
  <2>4. sess'[W'.s].digest = sess[W.s].digest
    BY <2>1, <2>3 DEF Kept
  <2>5. QED
    BY <2>1, <2>2, <2>4
<1>6. QED
  BY <1>2, <1>3, <1>4, <1>5 DEF RepoInv, Declared, IsRequest

\* A step that returns to what is on disk.
LEMMA RepoUndo ==
  ASSUME RepoInv, sess' = disk.sess, artifact' = disk.artifact, disk' = disk,
         Cont(W') # "delete_commit", W'.pc \notin Publishing
  PROVE  RepoInv' /\ disk'.artifact = disk.artifact
BY DEF RepoInv, Declared, IsRequest, Validated, DeletePending, W, Publishing, Cont

\* While an artifact is being deleted the transaction is the worker's, so that
\* nobody else's statement reaches the disk.
LEMMA DiskQuiet ==
  ASSUME TypeInv, Safe, NEW t \in Thread,
         disk' = disk \/ Autocommit \/ (COMMIT /\ Cont(loc[t]) \in TxPc /\ Cont(loc[t]) # "delete_commit")
  PROVE  disk' \in {disk, Tables'} /\ (disk' # disk => Cont(W) # "delete_commit")
<1>1. Cont(W) = "delete_commit" => tx = "worker"
  BY ThreadFacts DEF Safe, TxOwner, W, TxPc
<1>2. CASE disk' = disk
  BY <1>2
<1>3. CASE Autocommit
  BY <1>1, <1>3 DEF Autocommit, NoTx
<1>4. CASE COMMIT /\ Cont(loc[t]) \in TxPc /\ Cont(loc[t]) # "delete_commit"
  <2>1. tx = t /\ disk' = Tables'
    BY <1>4 DEF Safe, TxOwner, COMMIT
  <2>2. QED
    BY <1>1, <1>4, <2>1 DEF W
<1>5. QED
  BY <1>2, <1>3, <1>4

LEMMA OthersStep ==
  ASSUME TypeInv, TypeInv', Safe, RepoInv, NEW t \in Thread, t # "worker", NEW m, Set(t, m),
         Kept(sess, sess'), artifact' = artifact,
         disk' = disk \/ Autocommit \/ (COMMIT /\ Cont(loc[t]) \in TxPc /\ Cont(loc[t]) # "delete_commit")
  PROVE  RepoInv' /\ disk'.artifact = disk.artifact
<1>1. W' = W
  BY WorkerAt
<1>2. disk' \in {disk, Tables'} /\ (disk' # disk => Cont(W) # "delete_commit")
  BY DiskQuiet
<1>3. QED
  BY <1>1, <1>2, RepoQuiet

\* The worker outside a deletion, that does not come to publish anything.
LEMMA WorkerQuiet ==
  ASSUME TypeInv, TypeInv', Safe, RepoInv, NEW m, Set("worker", m), Kept(sess, sess'), artifact' = artifact,
         disk' = disk \/ Autocommit \/ (COMMIT /\ Cont(W) \in TxPc),
         Cont(W) # "delete_commit", Cont(m) # "delete_commit", m.pc \notin Publishing
  PROVE  RepoInv' /\ disk'.artifact = disk.artifact
<1>1. W' = m
  BY WorkerAt
<1>2. disk' \in {disk, Tables'}
  BY ThreadFacts, DiskQuiet DEF W
<1>3. QED
  BY <1>1, <1>2, RepoQuiet

\* Where the worker's labels are.
LEMMA PlainLabel ==
  ASSUME NEW m, m.pc \notin MarkPc, m.pc \notin Publishing, m.pc # "delete_commit"
  PROVE  Cont(m) # "delete_commit" /\ m.pc \notin Publishing
BY DEF Cont

LEMMA WorkerDone ==
  ASSUME Done("worker")
  PROVE  Set("worker", Idle) /\ Cont(Idle) # "delete_commit" /\ Idle.pc \notin Publishing
BY IdleType DEF Done, Idle, Publishing

LEMMA WorkerGoto ==
  ASSUME TypeInv, NEW label \in Labels, Goto("worker", label), label \notin MarkPc
  PROVE  \E m : Set("worker", m) /\ Cont(m) = label /\ m.pc = label /\ m.manifest = W.manifest /\ m.s = W.s
<1>1. W \in Local
  BY WorkerAt
<1>2. PICK m : m = [W EXCEPT !.pc = label]
  OBVIOUS
<1>3. m.pc = label /\ m.manifest = W.manifest /\ m.s = W.s
  BY <1>1, <1>2 DEF Local
<1>4. Set("worker", m)
  BY <1>2 DEF Goto, W
<1>5. QED
  BY <1>3, <1>4 DEF Cont

LEMMA StartRepo ==
  ASSUME TypeInv, TypeInv', Safe, RepoInv,
         \/ create_session("worker") \/ put_chunk("worker") \/ commit_session("worker")
         \/ delete_artifact("worker") \/ collect_garbage("worker") \/ abort_session("worker")
  PROVE  RepoInv' /\ disk'.artifact = disk.artifact
<1>1. W.pc = "idle" /\ UNCHANGED <<tables, disk>>
  BY DEF create_session, put_chunk, commit_session, delete_artifact, collect_garbage, abort_session,
         MayStart, At, W
<1>a. Idle \in Local
  BY IdleType
<1>2. PICK m : /\ Set("worker", m)
               /\ \/ m.pc \in {"create", "delete_row", "gc_next", "abort_begin", "put_reload", "commit_transition"}
                  \/ m.pc = "expire" /\ m.ret \in {"put_reload", "commit_transition"}
  <2>1. CASE create_session("worker")
    <3>1. Set("worker", [Idle EXCEPT !.now = clock, !.pc = "create"])
      BY <2>1 DEF create_session
    <3>2. PICK m : m = [Idle EXCEPT !.now = clock, !.pc = "create"]
      OBVIOUS
    <3>3. m.pc = "create"
      BY <1>a, <3>2 DEF Local
    <3>4. QED
      BY <3>1, <3>2, <3>3
  <2>2. CASE put_chunk("worker")
    <3>1. PICK s \in Session, o \in Ordinal, d \in Digest, p \in {"expire", "put_reload"} : Set("worker", [Idle EXCEPT !.s = s, !.now = clock, !.ordinal = o, !.data = d,
                                     !.ret = "put_reload", !.pc = p])
      BY <2>2 DEF put_chunk
    <3>2. PICK m : m = [Idle EXCEPT !.s = s, !.now = clock, !.ordinal = o, !.data = d,
                                     !.ret = "put_reload", !.pc = p]
      OBVIOUS
    <3>3. m.pc = p /\ m.ret = "put_reload"
      BY <1>a, <3>2 DEF Local
    <3>4. QED
      BY <3>1, <3>2, <3>3
  <2>3. CASE commit_session("worker")
    <3>1. PICK s \in Session, p \in {"expire", "commit_transition"} : Set("worker", [Idle EXCEPT !.s = s, !.now = clock, !.ret = "commit_transition", !.pc = p])
      BY <2>3 DEF commit_session
    <3>2. PICK m : m = [Idle EXCEPT !.s = s, !.now = clock, !.ret = "commit_transition", !.pc = p]
      OBVIOUS
    <3>3. m.pc = p /\ m.ret = "commit_transition"
      BY <1>a, <3>2 DEF Local
    <3>4. QED
      BY <3>1, <3>2, <3>3
  <2>4. CASE delete_artifact("worker")
    <3>1. PICK n \in Name : Set("worker", [Idle EXCEPT !.now = clock, !.name = n, !.pc = "delete_row"])
      BY <2>4 DEF delete_artifact
    <3>2. PICK m : m = [Idle EXCEPT !.now = clock, !.name = n, !.pc = "delete_row"]
      OBVIOUS
    <3>3. m.pc = "delete_row"
      BY <1>a, <3>2 DEF Local
    <3>4. QED
      BY <3>1, <3>2, <3>3
  <2>5. CASE collect_garbage("worker")
    <3>1. PICK dry_run \in BOOLEAN : Set("worker", [Idle EXCEPT !.todo = GcCandidates, !.dry = dry_run, !.pc = "gc_next"])
      BY <2>5 DEF collect_garbage
    <3>2. PICK m : m = [Idle EXCEPT !.todo = GcCandidates, !.dry = dry_run, !.pc = "gc_next"]
      OBVIOUS
    <3>3. m.pc = "gc_next"
      BY <1>a, <3>2 DEF Local
    <3>4. QED
      BY <3>1, <3>2, <3>3
  <2>6. CASE abort_session("worker")
    <3>1. PICK s \in Session : Set("worker", [Idle EXCEPT !.s = s, !.now = clock, !.from = sess[s].state, !.pc = "abort_begin"])
      BY <2>6 DEF abort_session
    <3>2. PICK m : m = [Idle EXCEPT !.s = s, !.now = clock, !.from = sess[s].state, !.pc = "abort_begin"]
      OBVIOUS
    <3>3. m.pc = "abort_begin"
      BY <1>a, <3>2 DEF Local
    <3>4. QED
      BY <3>1, <3>2, <3>3
  <2>7. QED
    BY <2>1, <2>2, <2>3, <2>4, <2>5, <2>6
<1>3. Cont(W) # "delete_commit" /\ Cont(m) # "delete_commit" /\ m.pc \notin Publishing
  BY <1>1, <1>2 DEF Cont, MarkPc, Publishing
<1>4. QED
  BY <1>1, <1>2, <1>3, SameKept, WorkerQuiet

LEMMA PutRepo ==
  ASSUME TypeInv, TypeInv', Safe, RepoInv,
         \/ put_reload("worker") \/ write_temp_file("worker") \/ rename_into_place("worker")
         \/ put_begin("worker") \/ put_register("worker")
  PROVE  RepoInv' /\ disk'.artifact = disk.artifact
<1>1. Cont(W) = W.pc /\ W.pc \in PutPc
  BY DEF put_reload, write_temp_file, rename_into_place, put_begin, put_register, At, Cont, MarkPc, PutPc, W
<1>2. PICK m : Set("worker", m) /\ Cont(m) # "delete_commit" /\ m.pc \notin Publishing
  <2>1. Done("worker") \/ \E label \in {"put_store", "put_rename", "put_begin", "put_register"} : Goto("worker", label)
    BY DEF put_reload, write_temp_file, rename_into_place, put_begin, put_register, BEGIN, BeginFails
  <2>2. CASE Done("worker")
    BY <2>2, WorkerDone
  <2>3. CASE \E label \in {"put_store", "put_rename", "put_begin", "put_register"} : Goto("worker", label)
    BY <2>3, WorkerGoto, LabelFacts DEF MarkPc, Publishing
  <2>4. QED
    BY <2>1, <2>2, <2>3
<1>3. W' = m /\ Cont(W) # "delete_commit"
  BY <1>1, <1>2, WorkerAt DEF PutPc
<1>4. CASE ROLLBACK
  BY <1>2, <1>3, <1>4, RepoUndo DEF ROLLBACK
<1>5. CASE ~ ROLLBACK
  <2>1. UNCHANGED <<sess, artifact>> /\ (disk' = disk \/ (COMMIT /\ W.pc = "put_register"))
    BY <1>5 DEF put_reload, write_temp_file, rename_into_place, put_begin, put_register, At, W
  <2>2. QED
    BY <1>1, <1>2, <1>3, <2>1, SameKept, WorkerQuiet DEF TxPc
<1>6. QED
  BY <1>4, <1>5

LEMMA GcRepo ==
  ASSUME TypeInv, TypeInv', Safe, RepoInv,
         \/ gc_check("worker") \/ gc_reactivate("worker") \/ gc_remove("worker") \/ gc_delete("worker")
  PROVE  RepoInv' /\ disk'.artifact = disk.artifact
<1>1. Cont(W) # "delete_commit"
  BY DEF gc_check, gc_reactivate, gc_remove, gc_delete, At, Cont, MarkPc, W
<1>2. UNCHANGED <<sess, artifact>> /\ (disk' = disk \/ Autocommit)
  BY DEF gc_check, gc_reactivate, gc_remove, gc_delete
<1>3. PICK m : Set("worker", m) /\ Cont(m) # "delete_commit" /\ m.pc \notin Publishing
  <2>1. ASSUME NEW d, GcNext("worker", d)
        PROVE  \E m : Set("worker", m) /\ Cont(m) # "delete_commit" /\ m.pc \notin Publishing
    BY <2>1, GcNextMove DEF TxPc, Relies, Publishing
  <2>2. ASSUME NEW d, NEW label \in {"gc_reactivate", "gc_remove"},
               Set("worker", [loc["worker"] EXCEPT !.cur = d, !.pc = label])
        PROVE  \E m : Set("worker", m) /\ Cont(m) # "delete_commit" /\ m.pc \notin Publishing
    <3>1. PICK m : m = [W EXCEPT !.cur = d, !.pc = label]
      OBVIOUS
    <3>2. m.pc = label
      BY <3>1, WorkerAt DEF Local
    <3>3. Set("worker", m)
      BY <2>2, <3>1 DEF W
    <3>4. QED
      BY <3>2, <3>3, PlainLabel DEF MarkPc, Publishing
  <2>3. CASE gc_check("worker")
    BY <2>1, <2>2, <2>3 DEF gc_check
  <2>4. CASE gc_reactivate("worker") \/ gc_delete("worker")
    BY <2>1, <2>4 DEF gc_reactivate, gc_delete
  <2>5. CASE gc_remove("worker")
    BY <2>5, WorkerGoto, LabelFacts DEF gc_remove, MarkPc, Publishing
  <2>6. QED
    BY <2>3, <2>4, <2>5
<1>4. QED
  BY <1>1, <1>2, <1>3, SameKept, WorkerQuiet

\* A new session is what a client asked for.
LEMMA CreateRepo ==
  ASSUME TypeInv, TypeInv', Safe, RepoInv, create_insert("worker")
  PROVE  RepoInv' /\ disk'.artifact = disk.artifact
<1>1. Cont(W) # "delete_commit" /\ Done("worker") /\ Cont(loc["worker"]) \in TxPc
  BY DEF create_insert, At, Cont, MarkPc, W, TxPc
<1>2. W' = Idle /\ Cont(Idle) # "delete_commit" /\ Idle.pc \notin Publishing
  BY <1>1, WorkerDone, WorkerAt
<1>3. CASE ROLLBACK
  BY <1>2, <1>3, RepoUndo DEF ROLLBACK
<1>4. CASE ~ ROLLBACK
  <2>1. PICK r \in CreateRequests, s \in Session :
          sess' = [sess EXCEPT ![s] = [state |-> "OPEN", owner |-> r.owner, name |-> r.name, size |-> r.size,
                                       digest |-> r.digest, expires_at |-> loc["worker"].now + SessionLifetime]]
    BY <1>4 DEF create_insert
  <2>2. UNCHANGED artifact /\ disk' = Tables'
    BY <1>4 DEF create_insert, COMMIT
  <2>3. Tables'.artifact = artifact' /\ Tables'.sess = sess'
    BY DEF Tables
  <2>4. PICK x : x = [state |-> "OPEN", owner |-> r.owner, name |-> r.name, size |-> r.size,
                      digest |-> r.digest, expires_at |-> loc["worker"].now + SessionLifetime]
    OBVIOUS
  <2>5. x.owner = r.owner /\ x.name = r.name /\ x.digest = r.digest
    BY <2>4
  <2>6. sess' = [sess EXCEPT ![s] = x] /\ sess \in [Session -> SessionRow \cup {NoSession}]
    BY <2>1, <2>4 DEF TypeInv, TypeOK
  <2>7. Declared(sess')
    BY <2>5, <2>6 DEF RepoInv, Declared, IsRequest
  <2>8. disk.artifact = artifact
    BY <1>1 DEF RepoInv, DeletePending, W
  <2>9. QED
    BY <1>2, <2>2, <2>3, <2>7, <2>8
       DEF RepoInv, Declared, IsRequest, Validated, DeletePending, W, Publishing, Cont
<1>5. QED
  BY <1>3, <1>4

\* What becomes of the artifacts on disk.
Publishes ==
  \E r \in CreateRequests, x \in ArtifactRow :
    /\ disk.artifact[r.name] = NoArtifact /\ disk'.artifact = [disk.artifact EXCEPT ![r.name] = x]
    /\ x.creator = r.owner /\ FlattenSeq(x.manifest) = r.digest
Deletes ==
  \E n \in Name : disk.artifact[n] # NoArtifact /\ disk'.artifact = [disk.artifact EXCEPT ![n] = NoArtifact]
ArtifactStep == disk'.artifact = disk.artifact \/ Publishes \/ Deletes

LEMMA CommitRepo ==
  ASSUME TypeInv, TypeInv', Safe, RepoInv,
         \/ commit_transition("worker") \/ commit_changes("worker")
         \/ commit_validate("worker") \/ commit_begin("worker")
         \/ commit_publish("worker") \/ commit_reopen("worker")
  PROVE  RepoInv' /\ ArtifactStep
<1>1. /\ Cont(W) = W.pc /\ W.pc \in CommitPc /\ Cont(W) # "delete_commit" /\ W \in Local
      /\ W.s \in Session /\ sess[W.s] # NoSession /\ disk.artifact = artifact
  <2>1. Cont(W) = W.pc /\ W.pc \in CommitPc
    BY DEF commit_transition, commit_changes, commit_validate, commit_begin, commit_publish, commit_reopen,
           At, Cont, MarkPc, CommitPc, W
  <2>2. Cont(W) # "delete_commit"
    BY <2>1 DEF CommitPc
  <2>3. QED
    BY <2>1, <2>2, OwnFacts, ThreadFacts DEF Args, Commits, W, RepoInv, DeletePending
<1>2. CASE commit_transition("worker") \/ commit_reopen("worker")
  <2>1. artifact' = artifact /\ Autocommit
    BY <1>2 DEF commit_transition, commit_reopen
  <2>2. Kept(sess, sess')
    BY <1>2, TransitionKept DEF commit_transition, commit_reopen, Live
  <2>3. PICK m : Set("worker", m) /\ Cont(m) # "delete_commit" /\ m.pc \notin Publishing
    BY <1>2, WorkerGoto, WorkerDone, LabelFacts DEF commit_transition, commit_reopen, MarkPc, Publishing
  <2>4. QED
    BY <1>1, <2>1, <2>2, <2>3, WorkerQuiet DEF ArtifactStep
<1>3. CASE commit_changes("worker")
  <2>1. PICK m : Set("worker", m) /\ Cont(m) # "delete_commit" /\ m.pc \notin Publishing
    BY <1>3, WorkerGoto, WorkerDone, LabelFacts DEF commit_changes, MarkPc, Publishing
  <2>2. QED
    BY <1>1, <1>3, <2>1, SameKept, WorkerQuiet DEF commit_changes, ArtifactStep
<1>4. CASE commit_validate("worker") /\ ~ Complete(W.s)
  <2>1. PICK m : Set("worker", m) /\ Cont(m) # "delete_commit" /\ m.pc \notin Publishing
    BY <1>4, WorkerGoto, LabelFacts DEF commit_validate, W, MarkPc, Publishing
  <2>2. QED
    BY <1>1, <1>4, <2>1, SameKept, WorkerQuiet DEF commit_validate, ArtifactStep
<1>5. CASE commit_validate("worker") /\ Complete(W.s)
  <2>1. UNCHANGED <<sess, artifact, disk>>
    BY <1>5 DEF commit_validate
  <2>2. PICK mf : mf = ManifestOf(W.s) /\ FlattenSeq(mf) = sess[W.s].digest
    BY <1>5 DEF Complete
  <2>3. PICK m : m = [W EXCEPT !.manifest = mf, !.pc = "commit_begin"]
    OBVIOUS
  <2>4. m.pc = "commit_begin" /\ m.manifest = mf /\ m.s = W.s
    BY <1>1, <2>3 DEF Local
  <2>5. Set("worker", m)
    BY <1>5, <2>2, <2>3 DEF commit_validate, W
  <2>6. W' = m /\ Cont(W') # "delete_commit"
    BY <2>4, <2>5, WorkerAt DEF Cont, MarkPc
  <2>7. QED
    BY <1>1, <2>1, <2>2, <2>4, <2>6
       DEF RepoInv, Declared, IsRequest, Validated, DeletePending, W, Cont, ArtifactStep
<1>6. CASE commit_begin("worker")
  <2>1. UNCHANGED <<sess, artifact, disk>> /\ W.pc \in Publishing
    BY <1>6 DEF commit_begin, At, W, Publishing
  <2>2. PICK m : Set("worker", m) /\ Cont(m) # "delete_commit"
                 /\ (m.pc \in Publishing => m.manifest = W.manifest /\ m.s = W.s)
    BY <1>6, WorkerGoto, WorkerDone, LabelFacts DEF commit_begin, BEGIN, BeginFails, MarkPc
  <2>3. W' = m
    BY <2>2, WorkerAt
  <2>4. QED
    BY <1>1, <2>1, <2>2, <2>3, SameKept, RepoQuiet DEF ArtifactStep
<1>7. CASE commit_publish("worker") /\ artifact[sess[W.s].name] # NoArtifact
  <2>1. ROLLBACK
    BY <1>7 DEF commit_publish, W
  <2>2. PICK m : Set("worker", m) /\ Cont(m) # "delete_commit" /\ m.pc \notin Publishing
    BY <1>7, WorkerGoto, LabelFacts DEF commit_publish, W, MarkPc, Publishing
  <2>3. W' = m
    BY <2>2, WorkerAt
  <2>4. QED
    BY <2>1, <2>2, <2>3, RepoUndo DEF ROLLBACK, ArtifactStep
<1>8. CASE commit_publish("worker") /\ artifact[sess[W.s].name] = NoArtifact
  <2>1. PICK row \in SessionRow : row = sess[W.s]
    BY <1>1 DEF TypeInv, TypeOK
  <2>2. PICK x : x = [creator |-> row.owner, size |-> row.size, digest |-> row.digest, manifest |-> W.manifest]
    OBVIOUS
  <2>3. x \in ArtifactRow /\ x.creator = row.owner /\ x.manifest = W.manifest
    BY <1>1, <2>2 DEF ArtifactRow, SessionRow, Local
  <2>4. /\ artifact' = [artifact EXCEPT ![row.name] = x] /\ sess' = [sess EXCEPT ![W.s].state = "COMPLETED"]
        /\ disk' = Tables' /\ Done("worker")
    BY <1>8, <2>1, <2>2 DEF commit_publish, COMMIT, W
  <2>5. disk'.artifact = artifact' /\ disk'.sess = sess'
    BY <2>4 DEF Tables
  <2>6. PICK r \in CreateRequests : row.owner = r.owner /\ row.name = r.name /\ row.digest = r.digest
    BY <1>1, <2>1 DEF RepoInv, Declared, IsRequest
  <2>7. FlattenSeq(x.manifest) = r.digest
    BY <1>8, <2>1, <2>3, <2>6 DEF commit_publish, At, RepoInv, Validated, W
  <2>8. Publishes
    <3>1. disk.artifact[r.name] = NoArtifact
      BY <1>1, <1>8, <2>1, <2>6
    <3>2. disk'.artifact = [disk.artifact EXCEPT ![r.name] = x]
      BY <1>1, <2>4, <2>5, <2>6
    <3>3. x.creator = r.owner
      BY <2>3, <2>6
    <3>4. QED
      BY <2>3, <2>7, <3>1, <3>2, <3>3 DEF Publishes
  <2>9. Declared(sess')
    BY <1>1, <2>4, StateKept, KeptDeclared DEF RepoInv
  <2>10. W' = Idle /\ Cont(Idle) # "delete_commit" /\ Idle.pc \notin Publishing
    BY <2>4, WorkerDone, WorkerAt
  <2>11. RepoInv'
    BY <2>5, <2>9, <2>10 DEF RepoInv, Declared, IsRequest, Validated, DeletePending, W, Publishing, Cont
  <2>12. QED
    BY <2>8, <2>11 DEF ArtifactStep
<1>9. QED
  BY <1>2, <1>3, <1>4, <1>5, <1>6, <1>7, <1>8

LEMMA DeleteRepo ==
  ASSUME TypeInv, TypeInv', Safe, RepoInv, delete_row("worker") \/ delete_commit("worker")
  PROVE  RepoInv' /\ ArtifactStep
<1>1. CASE delete_row("worker")
  <2>1. W.pc = "delete_row" /\ W.name \in Name /\ W \in Local /\ disk.artifact = artifact
    <3>1. W.pc = "delete_row" /\ Cont(W) = "delete_row" /\ W \in Local
      BY <1>1, WorkerAt DEF delete_row, At, W, Cont, MarkPc
    <3>2. QED
      BY <3>1, OwnFacts, ThreadFacts DEF Args, W, RepoInv, DeletePending
  <2>2. CASE artifact[W.name] = NoArtifact
    <3>1. ROLLBACK /\ Done("worker")
      BY <1>1, <2>2 DEF delete_row, W
    <3>2. W' = Idle /\ Cont(Idle) # "delete_commit" /\ Idle.pc \notin Publishing
      BY <3>1, WorkerDone, WorkerAt
    <3>3. QED
      BY <3>1, <3>2, RepoUndo DEF ROLLBACK, ArtifactStep
  <2>3. CASE artifact[W.name] # NoArtifact
    <3>a. PICK D : D = Range(artifact[W.name].manifest)
      OBVIOUS
    <3>b. PICK p : p = IF D = {} THEN "delete_commit" ELSE "mark_next"
      OBVIOUS
    <3>1. /\ Set("worker", [W EXCEPT !.todo = D, !.ret = "delete_commit", !.pc = p])
          /\ p \in {"delete_commit", "mark_next"}
      BY <1>1, <2>3, <3>a, <3>b DEF delete_row, W
    <3>2. artifact' = [artifact EXCEPT ![W.name] = NoArtifact] /\ UNCHANGED <<sess, disk>>
      BY <1>1, <2>3 DEF delete_row, W
    <3>3. PICK m : m = [W EXCEPT !.todo = D, !.ret = "delete_commit", !.pc = p]
      OBVIOUS
    <3>4. m.pc = p /\ m.ret = "delete_commit" /\ m.name = W.name
      BY <2>1, <3>3 DEF Local
    <3>5. W' = m /\ Cont(W') = "delete_commit" /\ W'.pc \notin Publishing
      BY <3>1, <3>3, <3>4, WorkerAt DEF Cont, MarkPc, Publishing
    <3>6. QED
      BY <2>1, <2>3, <3>2, <3>4, <3>5
         DEF RepoInv, Declared, IsRequest, Validated, DeletePending, W, Publishing, Cont, ArtifactStep
  <2>4. QED
    BY <2>2, <2>3
<1>2. CASE delete_commit("worker")
  <2>1. Cont(W) = "delete_commit" /\ UNCHANGED <<sess, artifact>> /\ disk' = Tables' /\ Done("worker")
    BY <1>2 DEF delete_commit, At, W, Cont, MarkPc, COMMIT
  <2>2. /\ W.name \in Name /\ disk.artifact[W.name] # NoArtifact
        /\ artifact = [disk.artifact EXCEPT ![W.name] = NoArtifact]
    BY <2>1 DEF RepoInv, DeletePending, W
  <2>3. disk'.artifact = artifact' /\ disk'.sess = sess'
    BY <2>1 DEF Tables
  <2>4. Deletes
    BY <2>1, <2>2, <2>3 DEF Deletes
  <2>5. W' = Idle /\ Cont(Idle) # "delete_commit" /\ Idle.pc \notin Publishing
    BY <2>1, WorkerDone, WorkerAt
  <2>6. RepoInv'
    BY <2>1, <2>3, <2>5 DEF RepoInv, Declared, IsRequest, Validated, DeletePending, W, Publishing, Cont
  <2>7. QED
    BY <2>4, <2>6 DEF ArtifactStep
<1>3. QED
  BY <1>1, <1>2

LEMMA ExpireRepo ==
  ASSUME TypeInv, TypeInv', Safe, RepoInv, expire_session_if_due("worker")
  PROVE  RepoInv' /\ disk'.artifact = disk.artifact
<1>1. W.pc = "expire" /\ W \in Local /\ artifact' = artifact /\ (disk' = disk \/ Autocommit)
  BY WorkerAt DEF expire_session_if_due, At, W
<1>2. PICK m : m = [W EXCEPT !.pc = "mark_select"]
  OBVIOUS
<1>3. m.pc = "mark_select" /\ m.ret = W.ret /\ m.name = W.name
  BY <1>1, <1>2 DEF Local
<1>4. W' = m
  BY <1>2, WorkerAt DEF expire_session_if_due, Goto, W
<1>5. Cont(W') = Cont(W) /\ W'.pc \notin Publishing
  BY <1>1, <1>3, <1>4 DEF Cont, MarkPc, Publishing
<1>6. Kept(sess, sess')
  BY TransitionKept DEF expire_session_if_due, Live
<1>7. disk' \in {disk, Tables'} /\ (disk' # disk => Cont(W) # "delete_commit")
  BY <1>1, ThreadFacts, DiskQuiet
<1>8. QED
  BY <1>1, <1>3, <1>4, <1>5, <1>6, <1>7, RepoQuiet

LEMMA AbortRepo ==
  ASSUME TypeInv, TypeInv', Safe, RepoInv, NEW t \in Thread,
         abort_begin(t) \/ abort_transition(t) \/ abort_commit(t)
  PROVE  RepoInv' /\ disk'.artifact = disk.artifact
<1>1. Cont(loc[t]) = loc[t].pc /\ loc[t].pc \in {"abort_begin", "abort_transition", "abort_commit"}
  BY DEF abort_begin, abort_transition, abort_commit, At, Cont, MarkPc
<1>2. artifact' = artifact
  BY DEF abort_begin, abort_transition, abort_commit
<1>3. Kept(sess, sess')
  <2>1. CASE abort_transition(t)
    <3>1. loc[t].from \in Live
      BY <1>1, <2>1, OwnFacts DEF Args, AbortPc, abort_transition, At
    <3>2. QED
      BY <2>1, <3>1, TransitionKept DEF abort_transition
  <2>2. CASE abort_begin(t) \/ abort_commit(t)
    BY <2>2, SameKept DEF abort_begin, abort_commit
  <2>3. QED
    BY <2>1, <2>2
<1>4. disk' = disk \/ Autocommit \/ (COMMIT /\ Cont(loc[t]) \in TxPc /\ Cont(loc[t]) # "delete_commit")
  BY <1>1 DEF abort_begin, abort_transition, abort_commit, At, TxPc
<1>5. PICK m : Set(t, m) /\ Cont(m) # "delete_commit" /\ m.pc \notin Publishing
  <2>1. CASE Done(t)
    BY <2>1, IdleType DEF Done, Idle, Publishing
  <2>2. CASE abort_begin(t) /\ ~ Done(t)
    BY <2>2, GotoMove, LabelFacts DEF abort_begin, BEGIN, BeginFails, MarkPc, Publishing
  <2>3. CASE abort_transition(t)
    <3>1. PICK m : m = [loc[t] EXCEPT !.pc = "mark_select", !.ret = "abort_commit"]
      OBVIOUS
    <3>2. m.pc = "mark_select" /\ m.ret = "abort_commit"
      BY <3>1, OwnFacts DEF Local
    <3>3. Set(t, m)
      BY <2>3, <3>1 DEF abort_transition
    <3>4. QED
      BY <3>2, <3>3 DEF Cont, MarkPc, Publishing
  <2>4. QED
    BY <2>1, <2>2, <2>3 DEF abort_commit
<1>6. CASE t = "worker"
  BY <1>1, <1>2, <1>3, <1>4, <1>5, <1>6, WorkerQuiet DEF W
<1>7. CASE t # "worker"
  BY <1>2, <1>3, <1>4, <1>5, <1>7, OthersStep
<1>8. QED
  BY <1>6, <1>7

\* Another thread's abort_session.
LEMMA AbortStartRepo ==
  ASSUME TypeInv, TypeInv', Safe, RepoInv, abort_session("admin")
  PROVE  RepoInv' /\ disk'.artifact = disk.artifact
<1>1. UNCHANGED <<tables, disk>> /\ \E m : Set("admin", m)
  BY DEF abort_session
<1>2. QED
  BY <1>1, ThreadFacts, SameKept, OthersStep

LEMMA MaintRepo ==
  ASSUME TypeInv, TypeInv', Safe, RepoInv, Maintenance
  PROVE  RepoInv' /\ disk'.artifact = disk.artifact
<1>1. PICK m : Set("maint", m)
  BY DEF Maintenance, run_maintenance, cleanup_temp_files, maint_expire, maint_rollback,
         maint_select, maint_next, Goto, Done
<1>2. artifact' = artifact /\ (disk' = disk \/ Autocommit)
  BY DEF Maintenance, run_maintenance, cleanup_temp_files, maint_expire, maint_rollback,
         maint_select, maint_next
<1>3. ASSUME NEW D, NEW v, \A s \in D : s \in Session /\ sess[s] # NoSession,
             sess' = [s \in Session |-> IF s \in D THEN [sess[s] EXCEPT !.state = v] ELSE sess[s]]
      PROVE  Kept(sess, sess')
  <2>1. SUFFICES ASSUME NEW u \in Session, sess'[u] # NoSession
                 PROVE  /\ sess[u] # NoSession /\ sess'[u].owner = sess[u].owner
                        /\ sess'[u].name = sess[u].name /\ sess'[u].digest = sess[u].digest
    BY DEF Kept
  <2>2. CASE u \notin D
    BY <1>3, <2>1, <2>2
  <2>3. CASE u \in D
    <3>1. sess[u] \in SessionRow
      BY <1>3, <2>3 DEF TypeInv, TypeOK
    <3>2. sess'[u] = [sess[u] EXCEPT !.state = v]
      BY <1>3, <2>3
    <3>3. QED
      BY <1>3, <2>3, <3>1, <3>2 DEF SessionRow
  <2>4. QED
    BY <2>2, <2>3
<1>4. Kept(sess, sess')
  <2>1. CASE maint_expire("maint")
    <3>1. PICK D : D = {s \in Session : Due(s, loc["maint"].now)}
      OBVIOUS
    <3>2. \A s \in D : s \in Session /\ sess[s] # NoSession
      BY <3>1 DEF Due, NoSession
    <3>3. QED
      BY <1>3, <2>1, <3>1, <3>2 DEF maint_expire
  <2>2. CASE maint_rollback("maint")
    <3>1. PICK D : D = {s \in Session : sess[s].state = "COMMITTING"}
      OBVIOUS
    <3>2. \A s \in D : s \in Session /\ sess[s] # NoSession
      BY <3>1 DEF NoSession
    <3>3. QED
      BY <1>3, <2>2, <3>1, <3>2 DEF maint_rollback
  <2>3. CASE sess' = sess
    BY <2>3, SameKept
  <2>4. QED
    BY <2>1, <2>2, <2>3 DEF Maintenance, run_maintenance, cleanup_temp_files, maint_select, maint_next
<1>5. QED
  BY <1>1, <1>2, <1>4, ThreadFacts, OthersStep

\* mark_unreferenced_parts goes on for the artifact that is being deleted.
LEMMA MarkName ==
  ASSUME TypeInv, NEW t \in Thread, mark_unreferenced_parts(t)
  PROVE  loc'[t].name = loc[t].name
<1>1. loc[t] \in Local /\ loc \in [Thread -> Local]
  BY OwnFacts DEF TypeInv, TypeOK
<1>2. ASSUME NEW a, NEW b, NEW p, Set(t, [loc[t] EXCEPT !.todo = a, !.cur = b, !.pc = p])
      PROVE  loc'[t].name = loc[t].name
  BY <1>1, <1>2 DEF Set, Local
<1>3. ASSUME NEW p, Goto(t, p)
      PROVE  loc'[t].name = loc[t].name
  BY <1>1, <1>3 DEF Goto, Set, Local
<1>4. ASSUME NEW d, NEW p, Set(t, [loc[t] EXCEPT !.cur = d, !.pc = p])
      PROVE  loc'[t].name = loc[t].name
  BY <1>1, <1>4 DEF Set, Local
<1>5. ASSUME NEW a, NEW p, Set(t, [loc[t] EXCEPT !.todo = a, !.pc = p])
      PROVE  loc'[t].name = loc[t].name
  BY <1>1, <1>5 DEF Set, Local
<1>6. ASSUME NEW d, MarkNext(t, d)
      PROVE  loc'[t].name = loc[t].name
  BY <1>2, <1>6 DEF MarkNext
<1>7. CASE mark_select(t) \/ delete_parts(t)
  BY <1>3, <1>5, <1>7 DEF mark_select, delete_parts
<1>8. CASE mark_manifests(t)
  BY <1>4, <1>6, <1>8 DEF mark_manifests
<1>9. CASE mark_parts(t) \/ mark_update(t)
  BY <1>3, <1>6, <1>9 DEF mark_parts, mark_update
<1>10. QED
  BY <1>7, <1>8, <1>9 DEF mark_unreferenced_parts

LEMMA MarkRepo ==
  ASSUME TypeInv, TypeInv', Safe, RepoInv, NEW t \in Thread, mark_unreferenced_parts(t)
  PROVE  RepoInv' /\ disk'.artifact = disk.artifact
<1>1. PICK m : Set(t, m) /\ Cont(m) = Cont(loc[t]) /\ Cont(loc[t]) \in Returns
  BY MarkMove
<1>2. UNCHANGED <<sess, artifact>> /\ (disk' = disk \/ Autocommit)
  BY DEF mark_unreferenced_parts, mark_select, delete_parts, mark_manifests, mark_parts, mark_update
<1>3. CASE t # "worker"
  BY <1>1, <1>2, <1>3, SameKept, OthersStep
<1>4. CASE t = "worker"
  <2>1. W' = m /\ Cont(W') = Cont(W) /\ W'.name = W.name
    BY <1>1, <1>4, WorkerAt, MarkName DEF W
  <2>2. W'.pc \notin Publishing
    BY <1>1, <2>1 DEF Returns, Cont, MarkPc, Publishing
  <2>3. disk' \in {disk, Tables'} /\ (disk' # disk => Cont(W) # "delete_commit")
    BY <1>2, DiskQuiet
  <2>4. QED
    BY <1>2, <2>1, <2>2, <2>3, SameKept, RepoQuiet
<1>5. QED
  BY <1>3, <1>4

LEMMA EnvRepo ==
  ASSUME RepoInv, Tick \/ Crash \/ UNCHANGED vars
  PROVE  RepoInv' /\ disk'.artifact = disk.artifact
<1>1. CASE Tick \/ UNCHANGED vars
  <2>1. UNCHANGED <<sess, artifact, disk, loc>>
    BY <1>1 DEF Tick, vars
  <2>2. QED
    BY <2>1 DEF RepoInv, Declared, IsRequest, Validated, DeletePending, Cont
<1>2. CASE Crash
  <2>1. W' = Idle
    BY <1>2, ThreadFacts DEF Crash, W
  <2>2. Cont(W') # "delete_commit" /\ W'.pc \notin Publishing
    BY <2>1, IdleType DEF Idle, Publishing
  <2>3. QED
    BY <1>2, <2>2, RepoUndo DEF Crash
<1>3. QED
  BY <1>1, <1>2

LEMMA InitRepo == Init => RepoInv
<1>1. SUFFICES ASSUME Init PROVE RepoInv
  OBVIOUS
<1>2. loc["worker"] = Idle /\ Cont(Idle) = "idle" /\ Idle.pc = "idle"
  BY <1>1, ThreadFacts, IdleType DEF Init, Idle
<1>3. disk.artifact = artifact /\ disk.sess = sess
  BY <1>1 DEF Init, Tables
<1>4. Declared(sess)
  BY <1>1 DEF Init, Declared
<1>5. QED
  BY <1>2, <1>3, <1>4 DEF RepoInv, Validated, DeletePending

LEMMA NextRepo ==
  ASSUME TypeInv, TypeInv', Safe, RepoInv, [Next]_vars
  PROVE  RepoInv' /\ ArtifactStep
<1>1. CASE Worker
  BY <1>1, StartRepo, CreateRepo, PutRepo, CommitRepo, DeleteRepo, GcRepo, ExpireRepo
  DEF Worker, ArtifactStep
<1>2. CASE \E t \in {"worker", "admin"} : Aborter(t)
  BY <1>2, ThreadFacts, StartRepo, AbortRepo, AbortStartRepo DEF Aborter, ArtifactStep
<1>3. CASE Maintenance
  BY <1>3, MaintRepo DEF ArtifactStep
<1>4. CASE \E t \in Thread : mark_unreferenced_parts(t)
  BY <1>4, MarkRepo DEF ArtifactStep
<1>5. CASE Tick \/ Crash \/ UNCHANGED vars
  BY <1>5, EnvRepo DEF ArtifactStep
<1>6. QED
  BY <1>1, <1>2, <1>3, <1>4, <1>5 DEF Next

\* What readers get, when no chunk is missing.
Readable(arts) ==
  [n \in Name |-> IF arts[n] = NoArtifact THEN NoArtifact
                  ELSE [creator |-> arts[n].creator, bytes |-> FlattenSeq(arts[n].manifest)]]
repo == [n \in Name |-> ReadBack(n)]

LEMMA AllReadable ==
  /\ PublishedIntact => repo = Readable(disk.artifact)
  /\ PublishedIntact' => repo' = Readable(disk'.artifact)
BY DEF repo, Readable, ReadBack, PublishedIntact, Intact

LEMMA StepRepo ==
  ASSUME TypeInv, PublishedIntact, PublishedIntact', ArtifactStep
  PROVE  [Repo!Next]_repo
<1>1. repo = Readable(disk.artifact) /\ repo' = Readable(disk'.artifact)
  BY AllReadable
<1>2. disk.artifact \in [Name -> ArtifactRow \cup {NoArtifact}]
  BY DEF TypeInv, TypeOK, DatabaseType
<1>3. CASE disk'.artifact = disk.artifact
  BY <1>1, <1>3
<1>4. CASE Publishes
  <2>1. PICK r \in CreateRequests, x \in ArtifactRow :
          /\ disk.artifact[r.name] = NoArtifact /\ disk'.artifact = [disk.artifact EXCEPT ![r.name] = x]
          /\ x.creator = r.owner /\ FlattenSeq(x.manifest) = r.digest
    BY <1>4 DEF Publishes
  <2>2. r.name \in Name
    BY RequestAssumption DEF CreateRequest
  <2>3. x # NoArtifact
    <3>1. "manifest" \in DOMAIN x /\ "manifest" \notin DOMAIN NoArtifact
      BY DEF ArtifactRow, NoArtifact
    <3>2. QED
      BY <3>1
  <2>4. repo[r.name] = NoArtifact
    BY <1>1, <2>1, <2>2 DEF Readable
  <2>5. PICK y : y = [creator |-> r.owner, bytes |-> r.digest]
    OBVIOUS
  <2>6. y = [creator |-> x.creator, bytes |-> FlattenSeq(x.manifest)]
    BY <2>1, <2>5
  <2>7. repo' = [repo EXCEPT ![r.name] = y]
    BY <1>1, <1>2, <2>1, <2>2, <2>3, <2>6 DEF Readable
  <2>8. QED
    BY <2>4, <2>5, <2>7 DEF Repo!Next, Repo!Publish, repo
<1>5. CASE Deletes
  <2>1. PICK n \in Name : /\ disk.artifact[n] # NoArtifact
                          /\ disk'.artifact = [disk.artifact EXCEPT ![n] = NoArtifact]
    BY <1>5 DEF Deletes
  <2>2. repo[n] # NoArtifact
    <3>1. repo[n] = [creator |-> disk.artifact[n].creator, bytes |-> FlattenSeq(disk.artifact[n].manifest)]
      BY <1>1, <2>1 DEF Readable
    <3>2. "bytes" \in DOMAIN repo[n] /\ "bytes" \notin DOMAIN NoArtifact
      BY <3>1 DEF NoArtifact
    <3>3. QED
      BY <3>2
  <2>3. repo' = [repo EXCEPT ![n] = NoArtifact]
    BY <1>1, <1>2, <2>1 DEF Readable
  <2>4. QED
    BY <2>1, <2>2, <2>3 DEF Repo!Next, Repo!Delete, repo
<1>6. QED
  BY <1>3, <1>4, <1>5 DEF ArtifactStep

\* What readers of artifacts get, through crashes and whatever the other
\* threads do, changes only when commit_session publishes all the bytes one
\* create_session declared, under a name nothing is published under, and when
\* delete_artifact removes one artifact whole.
THEOREM Implements == Spec => ImplementsRepo
<1>1. Init => TypeInv /\ Safe /\ RepoInv
  BY InitType, InitSafe, InitRepo
<1>2. TypeInv /\ Safe /\ RepoInv /\ [Next]_vars => TypeInv' /\ Safe' /\ RepoInv' /\ ArtifactStep
  BY NextType, NextSafe, NextRepo
<1>3. Init => Repo!Init
  BY DEF Init, Repo!Init, ReadBack, Tables
<1>4. TypeInv /\ Safe /\ Safe' /\ ArtifactStep => [Repo!Next]_repo
  BY StepRepo DEF Safe
<1>5. QED
  BY <1>1, <1>2, <1>3, <1>4, PTL DEF Spec, ImplementsRepo, Repo!Spec, repo
=============================================================================
