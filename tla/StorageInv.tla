----------------------------- MODULE StorageInv ------------------------------
(***************************************************************************)
(* The inductive invariant behind PublishedIntact and GcKeepsReferenced.   *)
(***************************************************************************)
EXTENDS Storage

MarkPc ==
  {"expire", "mark_select", "mark_delete", "mark_next", "mark_parts", "mark_update"}
PutPc == {"put_reload", "put_store", "put_rename", "put_begin", "put_register"}
CommitPc ==
  {"commit_transition", "commit_changes", "commit_validate", "commit_begin",
   "commit_publish", "commit_reopen"}
AbortPc == {"abort_begin", "abort_transition"}
TxPc ==
  {"create", "put_register", "commit_publish", "abort_transition", "abort_commit",
   "delete_row", "delete_commit"}
Returns ==
  {"put_reload", "commit_transition", "abort_commit", "delete_commit", "maint_next"}

\* Where a thread is in its own operation: inside expire_session_if_due and
\* mark_unreferenced_parts it is where that call will return to.
Cont(l) == IF l.pc \in MarkPc THEN l.ret ELSE l.pc

\* The arguments an operation works on are set while it works on them, and a
\* session that commit_session works on exists.
Args(l) ==
  /\ l.pc \in MarkPc => l.ret \in Returns
  /\ l.pc = "expire" => l.s \in Session
  /\ Cont(l) \in PutPc => l.s \in Session /\ l.ordinal \in Ordinal /\ l.data \in Digest
  /\ Cont(l) \in CommitPc => l.s \in Session
  /\ Cont(l) \in AbortPc => l.s \in Session /\ l.from \in Live
  /\ Cont(l) = "delete_row" => l.name \in Name
Commits(l) == Cont(l) \in CommitPc => sess[l.s] # NoSession
LocalsOK == \A t \in Thread : Args(loc[t]) /\ Commits(loc[t])

\* Only an open transaction separates the connection from the disk, and no
\* statement inserts a session into a transaction that another thread ends.
SameIds == \A s \in Session : sess[s] = NoSession <=> disk.sess[s] = NoSession

TypeInv == TypeOK /\ LocalsOK /\ SameIds

\* The connection is in a transaction exactly while one thread is in its.
TxOwner == \A t \in Thread : tx = t <=> Cont(loc[t]) \in TxPc

\* Only the worker's transactions touch artifacts.
TxViews == tx # "worker" => disk.artifact = artifact

\* The chunks of a manifest that was validated stay until it is published.
PublishReady ==
  loc["worker"].pc \in {"commit_begin", "commit_publish"} =>
    Range(loc["worker"].manifest) \subseteq files

\* A chunk found unreferenced stays so until its file is unlinked.
GcTarget == loc["worker"].pc = "gc_remove" => ~ chunk_referenced(loc["worker"].cur)

\* The inductive invariant: PublishedIntact, strengthened by what the threads
\* hold between their statements and by who owns the open transaction.
StorageInvariant ==
  TypeInv /\ TxOwner /\ TxViews /\ PublishReady /\ GcTarget /\ PublishedIntact
-----------------------------------------------------------------------------
(* What the refinement of ArtifactRepo needs besides.                      *)

\* Every session is one that some client asked for.
IsRequest(row) ==
  \E r \in CreateRequests : row.owner = r.owner /\ row.name = r.name /\ row.digest = r.digest
Declared(table) == \A s \in Session : table[s] # NoSession => IsRequest(table[s])

\* A manifest that was validated has the bytes its session declared.
Validated ==
  loc["worker"].pc \in {"commit_begin", "commit_publish"} =>
    FlattenSeq(loc["worker"].manifest) = sess[loc["worker"].s].digest

\* A crash would leave the artifacts the connection sees, but for the one that
\* is being deleted.
DeletePending ==
  LET l == loc["worker"] IN
  IF Cont(l) = "delete_commit"
  THEN /\ l.name \in Name /\ disk.artifact[l.name] # NoArtifact
       /\ artifact = [disk.artifact EXCEPT ![l.name] = NoArtifact]
  ELSE disk.artifact = artifact

RepoInv == Declared(sess) /\ Declared(disk.sess) /\ Validated /\ DeletePending
-----------------------------------------------------------------------------
(* What serialised calls (Unlocked = {}) guarantee besides.                *)

\* Nobody else is inside an operation.
Alone(t) == \A u \in Thread \ {t} : At(u, "idle")

\* Positions between the two transitions of commit_session, of put_chunk once
\* it found its session OPEN, of mark_unreferenced_parts with digests to look
\* at, and of maintenance before it looked for interrupted commits.
CommittingPc == {"commit_validate", "commit_begin", "commit_publish", "commit_reopen"}
StoringPc == {"put_store", "put_rename", "put_begin", "put_register"}
MarkingPc == {"mark_delete", "mark_next", "mark_parts", "mark_update"}
RecoveringPc == {"maint_temp", "maint_expire", "maint_rollback"}

\* What a crash would leave is what the connection sees, but for the abort or
\* the deletion that is to be committed.
Uncommitted(l) ==
  /\ Cont(l) = "abort_commit" =>
       /\ l.s \in Session
       /\ disk.sess[l.s].state \in Live
       /\ sess = [disk.sess EXCEPT ![l.s].state = "ABORTED"]
  /\ Cont(l) = "delete_commit" => sess = disk.sess
  /\ Cont(l) \notin {"abort_commit", "delete_commit"} => disk = Tables

\* The session an operation works on is as the operation found or left it.
SessionKept(l) ==
  /\ l.pc \in CommittingPc => sess[l.s].state = "COMMITTING"
  /\ l.pc = "commit_changes" => (changes <=> sess[l.s].state = "COMMITTING")
  /\ l.pc \in StoringPc => sess[l.s].state = "OPEN"
  /\ l.pc \in AbortPc => sess[l.s].state = l.from
  /\ l.pc = "expire" => l.ret \in {"put_reload", "commit_transition"}

\* A session in COMMITTING is one whose commit is under way, or one that the
\* recovery is still to find.
OnlyCommitting(l) ==
  \A s \in Session : sess[s].state = "COMMITTING" =>
    \/ l.pc \in CommittingPc \cup {"commit_changes"} /\ l.s = s
    \/ ~ up /\ l.pc \in RecoveringPc

\* commit_session is the worker's.
Committer(t, l) == l.pc \in CommittingPc \cup {"commit_changes"} => t = "worker"

\* No owner holds more sessions, open or being committed, than allowed.
Held(table, o) == {s \in Session : table[s].state \in Live /\ table[s].owner = o}
WithinLimit(table) ==
  \A o \in Owner : /\ IsFiniteSet(Held(table, o))
                   /\ Cardinality(Held(table, o)) <= MaxSessionsPerOwner

SerialInv ==
  /\ \E t \in Thread :
       /\ Alone(t) /\ Uncommitted(loc[t]) /\ SessionKept(loc[t]) /\ OnlyCommitting(loc[t])
       /\ Committer(t, loc[t])
       /\ ~ up => t = "maint"
  /\ WithinLimit(sess)
  /\ WithinLimit(disk.sess)

\* A chunk that counts as used is used, or some thread is to look at it.
InUse(d) ==
  \/ InManifest(d)
  \/ \E p \in part : p.digest = d /\ sess[p.session].state # "COMPLETED"
OnePart == \A p, q \in part : p.session = q.session /\ p.ordinal = q.ordinal => p = q
Marking(l) ==
  /\ l.pc \in {"commit_begin", "commit_publish"} => DigestsOf(l.s) \subseteq Range(l.manifest)
  /\ l.pc = "gc_reactivate" => chunk_referenced(l.cur)
  /\ l.pc = "mark_delete" => l.todo = DigestsOf(l.s)
  /\ \A d \in Digest : chunk[d].state = "ACTIVE" =>
       InUse(d) \/ (l.pc \in MarkingPc /\ d \in l.todo)
LeakInv == crashes = 0 => OnePart /\ \E t \in Thread : Alone(t) /\ Marking(loc[t])
-----------------------------------------------------------------------------
(* What keeps the chunks of live sessions, when SESSION_ABORT takes the    *)
(* mutex or nothing crashes.                                               *)

\* The parts of a database have their session and, while that can still be
\* committed, the file and the row of their chunk.
Stored(db) ==
  \A p \in db.part :
    /\ db.sess[p.session] # NoSession
    /\ db.sess[p.session].state \in Live => p.digest \in files /\ db.chunk[p.digest] # NoChunk

\* SESSION_ABORT, while it is called at all, does not take the mutex.
AbortsApart == "admin" \in Unlocked \cap Callers

\* What the worker found of files and sessions is still so.
WorkerStored(l) ==
  /\ l.pc \in {"gc_remove", "gc_delete"} => ~ InLiveSession(l.cur)
  /\ l.pc \in {"put_begin", "put_register"} => l.data \in files
  /\ Cont(l) \in PutPc => sess[l.s] # NoSession

StoredInv ==
  /\ Stored(Tables)
  /\ (~ AbortsApart \/ tx # "admin") => Stored(disk)
  /\ tx # "maint"
  /\ tx = NoTx => disk = Tables
  /\ ~ AbortsApart => At("worker", "idle") \/ At("admin", "idle")
  /\ "admin" \notin Callers => At("admin", "idle")
  /\ WorkerStored(loc["worker"])
=============================================================================
