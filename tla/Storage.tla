------------------------------- MODULE Storage -------------------------------
(***************************************************************************)
(* The storage engine: upload sessions, the content-addressed chunk files, *)
(* published artifacts, garbage collection, maintenance and start-up       *)
(* recovery (src/src/storage).                                             *)
(*                                                                         *)
(* Three threads call one Storage object, which owns ONE SQLite            *)
(* connection:                                                             *)
(*   worker  the worker thread that holds the dispatcher's mutex; it runs  *)
(*           every request except SESSION_ABORT;                           *)
(*   admin   a worker thread in SESSION_ABORT;                             *)
(*   maint   the server's maintenance thread, also the start-up recovery.  *)
(* Unlocked names the threads that do not take the mutex; in the server it *)
(* is {"admin", "maint"}.  One step is one SQL statement, one file         *)
(* operation or the body of one transaction.  A transaction belongs to the *)
(* connection: a statement another thread runs meanwhile joins it.         *)
(*                                                                         *)
(* A chunk is identified with its bytes, so a digest is the sequence of    *)
(* bytes it is the digest of (SHA-256 taken as injective).                 *)
(***************************************************************************)
EXTENDS Integers, FiniteSets, SequencesExt

CONSTANTS
  Session,              \* ids handed out by new_session_id
  Owner,                \* users that own sessions and artifacts
  Name,                 \* artifact references (namespace, name, version)
  Digest,               \* chunk contents
  Ordinal,              \* ordinals clients use
  CreateRequests,       \* what clients may ask create_session for
  ChunkSize,            \* cfg.chunk_size
  SizeModulus,          \* range of uint64_t
  SessionLifetime,      \* cfg.session_hours
  GcGrace,              \* cfg.gc_grace_seconds
  MaxSessionsPerOwner,  \* cfg.max_sessions_per_owner
  Watermark,            \* cfg.capacity_bytes * high_watermark_percent / 100
  MaxTime,              \* bound on the clock
  MaxCrashes,           \* bound on the number of crashes
  Callers,              \* threads that call Storage once it is open
  Unlocked,             \* threads that call Storage without the mutex
  Nil                   \* no value

Thread == {"worker", "admin", "maint"}
NoTx == "none"

CreateRequest ==
  [owner : Owner, name : Name, size : 0 .. SizeModulus - 1, digest : Seq(Nat)]

ASSUME DigestAssumption == Digest \subseteq Seq(Nat) \ {<<>>}
ASSUME OrdinalAssumption == Ordinal \subseteq Nat
ASSUME SizeAssumption ==
  /\ ChunkSize \in Nat \ {0}
  /\ SizeModulus \in Nat \ {0}
ASSUME ConfigAssumption ==
  /\ SessionLifetime \in Nat \ {0}
  /\ GcGrace \in Nat
  /\ MaxSessionsPerOwner \in Nat
  /\ Watermark \in Nat
  /\ MaxTime \in Nat
  /\ MaxCrashes \in Nat
ASSUME RequestAssumption == CreateRequests \subseteq CreateRequest
ASSUME ThreadAssumption ==
  /\ Callers \subseteq {"worker", "admin", "maint"}
  /\ Unlocked \subseteq {"admin", "maint"}

VARIABLES
  sess,      \* table upload_session
  part,      \* table upload_part
  chunk,     \* table chunk
  artifact,  \* tables artifact and artifact_chunk
  disk,      \* the four tables as a crash would leave them
  tx,        \* the thread whose transaction the connection is in, or NoTx
  changes,   \* sqlite3_changes() > 0, kept while commit_session is to read it
  files,     \* chunk files in place
  temp,      \* temporary chunk files
  clock,     \* cfg.clock()
  crashes,   \* crashes so far
  up,        \* start-up recovery is over
  loc        \* each thread's position and local variables

tables == <<sess, part, chunk, artifact>>
env == <<clock, crashes, up>>
vars == <<sess, part, chunk, artifact, disk, tx, changes, files, temp, clock,
          crashes, up, loc>>
-----------------------------------------------------------------------------
(* Rows.                                                                   *)

Live == {"OPEN", "COMMITTING"}
Terminal == {"COMPLETED", "ABORTED", "EXPIRED"}

NoSession == [state |-> "NONE"]
NoArtifact == [creator |-> Nil]
NoChunk == [state |-> "ABSENT", pending_at |-> -1]
ActiveChunk == [state |-> "ACTIVE", pending_at |-> -1]
\* Mutant: the time of the mark is not recorded.
PendingUndated(now) == [state |-> "PENDING_DELETE", pending_at |-> -1]
PendingChunk(now) == [state |-> "PENDING_DELETE", pending_at |-> now]

SessionRow ==
  [state : Live \cup Terminal, owner : Owner, name : Name,
   size : 0 .. SizeModulus - 1, digest : Seq(Nat), expires_at : Nat]
PartRow == [session : Session, ordinal : Ordinal, digest : Digest]
ChunkRow ==
  {NoChunk, ActiveChunk} \cup [state : {"PENDING_DELETE"}, pending_at : Nat]
ArtifactRow ==
  [creator : Owner, size : 0 .. SizeModulus - 1, digest : Seq(Nat),
   manifest : Seq(Digest)]

Tables ==
  [sess |-> sess, part |-> part, chunk |-> chunk, artifact |-> artifact]

\* Rows of upload_part of one session, and their digests.
PartsOf(s) == {p \in part : p.session = s}
DigestsOf(s) == {p.digest : p \in PartsOf(s)}

\* The two SELECTs of chunk_referenced.
InManifest(d) ==
  \E n \in Name : artifact[n] # NoArtifact /\ d \in Range(artifact[n].manifest)
\* Mutant: the session's state is not looked at.
InAnySession(d) == \E p \in part : p.digest = d
\* Mutant: OPEN is missing from the SELECT.
InCommittingSession(d) ==
  \E p \in part : p.digest = d /\ sess[p.session].state = "COMMITTING"
InLiveSession(d) ==
  \E p \in part : p.digest = d /\ sess[p.session].state \in Live
\* Mutant: one of the two SELECTs is missing.
OnlySessionsReferenced(d) == InLiveSession(d)
chunk_referenced(d) == InManifest(d) \/ InLiveSession(d)

\* (expected_size + chunk_size - 1) / chunk_size in uint64_t arithmetic.
chunk_count(size) ==
  IF size = 0 THEN 0 ELSE ((size + ChunkSize - 1) % SizeModulus) \div ChunkSize

\* SELECT SUM(raw_size) FROM chunk WHERE state='ACTIVE'.
used_bytes ==
  FoldFunctionOnSet(+, 0, [d \in Digest |-> Len(d)],
                    {d \in Digest : chunk[d].state = "ACTIVE"})
-----------------------------------------------------------------------------
(* The connection.                                                         *)

\* A statement outside a transaction is durable at once; inside one it
\* becomes part of that transaction, whichever thread began it.
Autocommit == disk' = IF tx = NoTx THEN Tables' ELSE disk

COMMIT == tx' = NoTx /\ disk' = Tables'

\* Mutant: a return without ROLLBACK.
NoRollback == UNCHANGED <<tx, sess, part, chunk, artifact, disk>>
ROLLBACK ==
  /\ tx' = NoTx
  /\ sess' = disk.sess
  /\ part' = disk.part
  /\ chunk' = disk.chunk
  /\ artifact' = disk.artifact
  /\ UNCHANGED disk

\* The row count of a statement that changes rows, for commit_session.
Changed(n) == changes' = (loc'["worker"].pc = "commit_changes" /\ n)

\* UPDATE upload_session SET state=to WHERE id=s AND state=from.
transition(s, from, to) ==
  sess' = IF sess[s].state = from THEN [sess EXCEPT ![s].state = to] ELSE sess

\* UPDATE chunk SET state='ACTIVE' WHERE digest=d AND state='PENDING_DELETE'.
reactivated(D) ==
  [d \in Digest |->
     IF d \in D /\ chunk[d].state = "PENDING_DELETE" THEN ActiveChunk ELSE chunk[d]]
-----------------------------------------------------------------------------
(* Threads.                                                                *)

Idle ==
  [pc |-> "idle", s |-> Nil, now |-> 0, ordinal |-> 0, data |-> Nil, cur |-> Nil,
   todo |-> {}, sessions |-> {}, ret |-> "idle", from |-> "NONE", manifest |-> <<>>,
   name |-> Nil, dry |-> FALSE]

Labels ==
  {"idle", "create", "put_reload", "put_store", "put_rename", "put_begin", "put_register",
   "commit_transition", "commit_changes", "commit_validate", "commit_begin",
   "commit_publish", "commit_reopen", "abort_begin", "abort_transition",
   "abort_commit", "delete_row", "delete_commit", "gc_next", "gc_reactivate",
   "gc_remove",
   "gc_delete", "maint_temp", "maint_expire", "maint_rollback", "maint_select",
   "maint_next", "expire", "mark_select", "mark_delete", "mark_next", "mark_parts",
   "mark_update"}

At(t, label) == loc[t].pc = label
Set(t, l) == loc' = [loc EXCEPT ![t] = l]
Goto(t, label) == Set(t, [loc[t] EXCEPT !.pc = label])
Done(t) == Set(t, Idle)

\* The mutex: a thread that takes it waits for the others that took it.
MayStart(t) ==
  /\ up
  /\ t \in Callers
  /\ At(t, "idle")
  /\ \A u \in Thread \ {t} : At(u, "idle") \/ {t, u} \cap Unlocked # {}

\* BEGIN IMMEDIATE fails inside a transaction of another thread.
BEGIN(t, label) == tx = NoTx /\ tx' = t /\ Goto(t, label)
BeginFails(t) == tx # NoTx /\ UNCHANGED tx /\ Done(t)

Init ==
  /\ sess = [s \in Session |-> NoSession]
  /\ part = {}
  /\ chunk = [d \in Digest |-> NoChunk]
  /\ artifact = [n \in Name |-> NoArtifact]
  /\ disk = Tables
  /\ tx = NoTx
  /\ changes = FALSE
  /\ files = {}
  /\ temp = {}
  /\ clock = 0
  /\ crashes = 0
  /\ up = TRUE
  /\ loc = [t \in Thread |-> Idle]
-----------------------------------------------------------------------------
(* mark_unreferenced_parts, run by all three threads.  todo holds the      *)
(* digests still to look at; ret is where the thread goes on.              *)

\* Drop the current digest; leave the loop after the last one.
MarkNext(t, d) ==
  LET rest == loc[t].todo \ {d} IN
  Set(t, [loc[t] EXCEPT !.todo = rest, !.cur = Nil,
            !.pc = IF rest = {} THEN loc[t].ret ELSE "mark_next"])

mark_select(t) ==
  /\ At(t, "mark_select")
  /\ Set(t, [loc[t] EXCEPT !.todo = DigestsOf(loc[t].s), !.pc = "mark_delete"])
  /\ UNCHANGED <<tables, disk, tx, changes, files, temp, env>>

delete_parts(t) ==
  /\ At(t, "mark_delete")
  /\ part' = part \ PartsOf(loc[t].s)
  /\ UNCHANGED <<sess, chunk, artifact>>
  /\ Autocommit
  /\ Goto(t, IF loc[t].todo = {} THEN loc[t].ret ELSE "mark_next")
  /\ Changed(PartsOf(loc[t].s) # {})
  /\ UNCHANGED <<tx, files, temp, env>>

\* chunk_referenced, first SELECT.
mark_manifests(t) ==
  /\ At(t, "mark_next")
  /\ \E d \in loc[t].todo :
       IF InManifest(d)
       THEN MarkNext(t, d)
       ELSE Set(t, [loc[t] EXCEPT !.cur = d, !.pc = "mark_parts"])
  /\ UNCHANGED <<tables, disk, tx, changes, files, temp, env>>

\* chunk_referenced, second SELECT.
mark_parts(t) ==
  /\ At(t, "mark_parts")
  /\ IF InLiveSession(loc[t].cur)
     THEN MarkNext(t, loc[t].cur)
     ELSE Goto(t, "mark_update")
  /\ UNCHANGED <<tables, disk, tx, changes, files, temp, env>>

mark_update(t) ==
  LET d == loc[t].cur
      active == chunk[d].state = "ACTIVE" IN
  /\ At(t, "mark_update")
  /\ chunk' = IF active THEN [chunk EXCEPT ![d] = PendingChunk(loc[t].now)] ELSE chunk
  /\ UNCHANGED <<sess, part, artifact>>
  /\ Autocommit
  /\ MarkNext(t, d)
  /\ Changed(active)
  /\ UNCHANGED <<tx, files, temp, env>>

mark_unreferenced_parts(t) ==
  mark_select(t) \/ delete_parts(t) \/ mark_manifests(t) \/ mark_parts(t) \/ mark_update(t)

\* load_session finds a session that is due: it is expired if it is still
\* OPEN, its parts are marked either way, and the thread goes on at ret.
\* Mutant: a session that has ended can expire as well.
DueInAnyState(s, now) == sess[s] # NoSession /\ sess[s].expires_at <= now
Due(s, now) == sess[s].state = "OPEN" /\ sess[s].expires_at <= now

expire_session_if_due(t) ==
  /\ At(t, "expire")
  /\ transition(loc[t].s, "OPEN", "EXPIRED")
  /\ UNCHANGED <<part, chunk, artifact>>
  /\ Autocommit
  /\ Goto(t, "mark_select")
  /\ Changed(sess[loc[t].s].state = "OPEN")
  /\ UNCHANGED <<tx, files, temp, env>>
-----------------------------------------------------------------------------
(* create_session                                                          *)

create_session(t) ==
  /\ MayStart(t)
  /\ \E s \in Session : sess[s] = NoSession
  /\ tx = NoTx
  /\ tx' = t
  /\ Set(t, [Idle EXCEPT !.now = clock, !.pc = "create"])
  /\ UNCHANGED <<tables, disk, changes, files, temp, env>>

\* The limits, then the INSERT; an exception rolls the transaction back.
OpenSessions(o) == {s \in Session : sess[s].state = "OPEN" /\ sess[s].owner = o}

\* Mutant: off by one.
OverSessionLimit(o) == Cardinality(OpenSessions(o)) > MaxSessionsPerOwner
AtSessionLimit(o) == Cardinality(OpenSessions(o)) >= MaxSessionsPerOwner

create_insert(t) ==
  /\ At(t, "create")
  /\ \E r \in CreateRequests :
       IF AtSessionLimit(r.owner) \/ used_bytes >= Watermark
       THEN ROLLBACK
       ELSE /\ \E s \in Session :
                 /\ sess[s] = NoSession
                 /\ sess' = [sess EXCEPT ![s] =
                      [state |-> "OPEN", owner |-> r.owner, name |-> r.name,
                       size |-> r.size, digest |-> r.digest,
                       expires_at |-> loc[t].now + SessionLifetime]]
            /\ UNCHANGED <<part, chunk, artifact>>
            /\ COMMIT
  /\ Done(t)
  /\ UNCHANGED <<changes, files, temp, env>>
-----------------------------------------------------------------------------
(* put_chunk                                                               *)

put_chunk(t) ==
  /\ MayStart(t)
  /\ \E s \in Session, o \in Ordinal, d \in Digest :
       /\ sess[s].state = "OPEN"
       /\ Set(t, [Idle EXCEPT !.s = s, !.now = clock, !.ordinal = o, !.data = d,
                    !.ret = "put_reload",
                    !.pc = IF Due(s, clock) THEN "expire" ELSE "put_reload"])
  /\ UNCHANGED <<tables, disk, tx, changes, files, temp, env>>

put_reload(t) ==
  LET session == sess[loc[t].s] IN
  /\ At(t, "put_reload")
  /\ IF /\ session.state = "OPEN"
        /\ loc[t].ordinal < chunk_count(session.size)
        /\ Len(loc[t].data) <= ChunkSize
     THEN Goto(t, "put_store")
     ELSE Done(t)
  /\ UNCHANGED <<tables, disk, tx, changes, files, temp, env>>

\* ChunkStore::put: the file is written under a temporary name and synced ...
write_temp_file(t) ==
  /\ At(t, "put_store")
  /\ IF loc[t].data \in files
     THEN Goto(t, "put_begin") /\ UNCHANGED temp
     ELSE Goto(t, "put_rename") /\ temp' = temp \cup {loc[t].data}
  /\ UNCHANGED <<tables, disk, tx, changes, files, env>>

\* ... and renamed into place; maintenance may have removed it meanwhile.
rename_into_place(t) ==
  LET d == loc[t].data IN
  /\ At(t, "put_rename")
  /\ temp' = temp \ {d}
  /\ IF d \in files \cup temp
     THEN files' = files \cup {d} /\ Goto(t, "put_begin")
     ELSE UNCHANGED files /\ Done(t)
  /\ UNCHANGED <<tables, disk, tx, changes, env>>

put_begin(t) ==
  /\ At(t, "put_begin")
  /\ BEGIN(t, "put_register") \/ BeginFails(t)
  /\ UNCHANGED <<tables, disk, changes, files, temp, env>>

\* A part that is already there ends the call: same content is a success,
\* other content a conflict, and the transaction is rolled back either way.
put_register(t) ==
  LET s == loc[t].s
      o == loc[t].ordinal
      d == loc[t].data IN
  /\ At(t, "put_register")
  /\ IF \E p \in PartsOf(s) : p.ordinal = o
     THEN ROLLBACK
     ELSE /\ chunk' = [reactivated({d}) EXCEPT ![d] = IF @ = NoChunk THEN ActiveChunk ELSE @]
          /\ part' = part \cup {[session |-> s, ordinal |-> o, digest |-> d]}
          /\ UNCHANGED <<sess, artifact>>
          /\ COMMIT
  /\ Done(t)
  /\ UNCHANGED <<changes, files, temp, env>>
-----------------------------------------------------------------------------
(* commit_session                                                          *)

commit_session(t) ==
  /\ MayStart(t)
  /\ \E s \in Session :
       /\ sess[s] # NoSession
       /\ Set(t, [Idle EXCEPT !.s = s, !.now = clock, !.ret = "commit_transition",
                    !.pc = IF Due(s, clock) THEN "expire" ELSE "commit_transition"])
  /\ UNCHANGED <<tables, disk, tx, changes, files, temp, env>>

commit_transition(t) ==
  /\ At(t, "commit_transition")
  /\ transition(loc[t].s, "OPEN", "COMMITTING")
  /\ UNCHANGED <<part, chunk, artifact>>
  /\ Autocommit
  /\ Goto(t, "commit_changes")
  /\ Changed(sess[loc[t].s].state = "OPEN")
  /\ UNCHANGED <<tx, files, temp, env>>

\* db_changes() is a call of its own: it tells of the connection's last
\* statement, whichever thread ran it.
commit_changes(t) ==
  /\ At(t, "commit_changes")
  /\ IF changes THEN Goto(t, "commit_validate") ELSE Done(t)
  /\ changes' = FALSE
  /\ UNCHANGED <<tables, disk, tx, files, temp, env>>

\* Ordinals 0 .. count-1, every length in bounds, the expected total length,
\* every chunk file readable and the expected overall digest.
ManifestOf(s) ==
  [i \in 1 .. chunk_count(sess[s].size) |->
     (CHOOSE p \in PartsOf(s) : p.ordinal = i - 1).digest]

\* Mutant: the overall digest is not compared.
CompleteUnverified(s) ==
  LET m == ManifestOf(s) IN
  /\ {p.ordinal : p \in PartsOf(s)} = 0 .. chunk_count(sess[s].size) - 1
  /\ Range(m) \subseteq files
  /\ Len(FlattenSeq(m)) = sess[s].size
Complete(s) ==
  LET m == ManifestOf(s) IN
  /\ {p.ordinal : p \in PartsOf(s)} = 0 .. chunk_count(sess[s].size) - 1
  /\ \A i \in DOMAIN m : Len(m[i]) <= ChunkSize
  /\ Range(m) \subseteq files
  /\ Len(FlattenSeq(m)) = sess[s].size
  /\ FlattenSeq(m) = sess[s].digest

commit_validate(t) ==
  LET s == loc[t].s IN
  /\ At(t, "commit_validate")
  /\ IF Complete(s)
     THEN Set(t, [loc[t] EXCEPT !.manifest = ManifestOf(s), !.pc = "commit_begin"])
     ELSE Goto(t, "commit_reopen")
  /\ UNCHANGED <<tables, disk, tx, changes, files, temp, env>>

\* When BEGIN fails the exception leaves the session in COMMITTING.
commit_begin(t) ==
  /\ At(t, "commit_begin")
  /\ BEGIN(t, "commit_publish") \/ BeginFails(t)
  /\ UNCHANGED <<tables, disk, changes, files, temp, env>>

\* Artifact, manifest, reactivated chunks and COMPLETED in one transaction;
\* COMPLETED is set whatever the session's state has become.
commit_publish(t) ==
  LET s == loc[t].s
      n == sess[s].name IN
  /\ At(t, "commit_publish")
  /\ IF artifact[n] # NoArtifact
     THEN ROLLBACK /\ Goto(t, "commit_reopen")
     ELSE /\ artifact' = [artifact EXCEPT ![n] =
                [creator |-> sess[s].owner, size |-> sess[s].size,
                 digest |-> sess[s].digest, manifest |-> loc[t].manifest]]
          /\ chunk' = reactivated(Range(loc[t].manifest))
          /\ sess' = [sess EXCEPT ![s].state = "COMPLETED"]
          /\ UNCHANGED part
          /\ COMMIT
          /\ Done(t)
  /\ UNCHANGED <<changes, files, temp, env>>

\* Mutant: the failure path returns without reopening the session.
CommitNotReopened(t) ==
  /\ At(t, "commit_reopen")
  /\ Done(t)
  /\ UNCHANGED <<tables, disk, tx, changes, files, temp, env>>
commit_reopen(t) ==
  /\ At(t, "commit_reopen")
  /\ transition(loc[t].s, "COMMITTING", "OPEN")
  /\ UNCHANGED <<part, chunk, artifact>>
  /\ Autocommit
  /\ Done(t)
  /\ UNCHANGED <<tx, changes, files, temp, env>>
-----------------------------------------------------------------------------
(* abort_session, under the mutex (ABORT_UPLOAD) or not (SESSION_ABORT).   *)

\* Mutant: the transition expects COMMITTING whatever the state is.
AbortFromCommitting(t) ==
  /\ MayStart(t)
  /\ \E s \in Session :
       /\ sess[s].state \in Live
       /\ Set(t, [Idle EXCEPT !.s = s, !.now = clock, !.from = "COMMITTING",
                              !.pc = "abort_begin"])
  /\ UNCHANGED <<tables, disk, tx, changes, files, temp, env>>
abort_session(t) ==
  /\ MayStart(t)
  /\ \E s \in Session :
       /\ sess[s].state \in Live
       /\ Set(t, [Idle EXCEPT !.s = s, !.now = clock, !.from = sess[s].state,
                              !.pc = "abort_begin"])
  /\ UNCHANGED <<tables, disk, tx, changes, files, temp, env>>

abort_begin(t) ==
  /\ At(t, "abort_begin")
  /\ BEGIN(t, "abort_transition") \/ BeginFails(t)
  /\ UNCHANGED <<tables, disk, changes, files, temp, env>>

abort_transition(t) ==
  /\ At(t, "abort_transition")
  /\ transition(loc[t].s, loc[t].from, "ABORTED")
  /\ UNCHANGED <<part, chunk, artifact>>
  /\ Autocommit
  /\ Set(t, [loc[t] EXCEPT !.pc = "mark_select", !.ret = "abort_commit"])
  /\ Changed(sess[loc[t].s].state = loc[t].from)
  /\ UNCHANGED <<tx, files, temp, env>>

abort_commit(t) ==
  /\ At(t, "abort_commit")
  /\ UNCHANGED tables
  /\ COMMIT
  /\ Done(t)
  /\ UNCHANGED <<changes, files, temp, env>>
-----------------------------------------------------------------------------
(* delete_artifact: the row and its manifest first, then the chunks nobody *)
(* refers to any more are marked, in one transaction.                      *)

delete_artifact(t) ==
  /\ MayStart(t)
  /\ \E n \in Name :
       /\ tx = NoTx
       /\ tx' = t
       /\ Set(t, [Idle EXCEPT !.now = clock, !.name = n, !.pc = "delete_row"])
  /\ UNCHANGED <<tables, disk, changes, files, temp, env>>

delete_row(t) ==
  LET n == loc[t].name IN
  /\ At(t, "delete_row")
  /\ IF artifact[n] = NoArtifact
     THEN ROLLBACK /\ Done(t)
     ELSE LET D == Range(artifact[n].manifest) IN
          /\ artifact' = [artifact EXCEPT ![n] = NoArtifact]
          /\ UNCHANGED <<sess, part, chunk, disk, tx>>
          /\ Set(t, [loc[t] EXCEPT !.todo = D, !.ret = "delete_commit",
                       !.pc = IF D = {} THEN "delete_commit" ELSE "mark_next"])
  /\ UNCHANGED <<changes, files, temp, env>>

delete_commit(t) ==
  /\ At(t, "delete_commit")
  /\ UNCHANGED tables
  /\ COMMIT
  /\ Done(t)
  /\ UNCHANGED <<changes, files, temp, env>>
-----------------------------------------------------------------------------
(* collect_garbage                                                         *)

GcCandidates ==
  {d \in Digest : /\ chunk[d].state = "PENDING_DELETE"
                  /\ chunk[d].pending_at <= clock - GcGrace}

collect_garbage(t) ==
  /\ MayStart(t)
  /\ GcCandidates # {}
  /\ \E dry_run \in BOOLEAN :
       Set(t, [Idle EXCEPT !.todo = GcCandidates, !.dry = dry_run, !.pc = "gc_next"])
  /\ UNCHANGED <<tables, disk, tx, changes, files, temp, env>>

GcNext(t, d) ==
  LET rest == loc[t].todo \ {d} IN
  IF rest = {} THEN Done(t)
  ELSE Set(t, [loc[t] EXCEPT !.todo = rest, !.cur = Nil, !.pc = "gc_next"])

\* The second check: a chunk referenced again since it was marked is kept.
\* Mutants: no second check, or half of it.
NoSecondCheck(d) == FALSE
SecondCheckOfManifests(d) == InManifest(d)
StillReferenced(d) == chunk_referenced(d)

gc_check(t) ==
  /\ At(t, "gc_next")
  /\ \E d \in loc[t].todo :
       IF loc[t].dry /\ ~ StillReferenced(d)
       THEN GcNext(t, d)
       ELSE Set(t, [loc[t] EXCEPT !.cur = d,
                      !.pc = IF StillReferenced(d) THEN "gc_reactivate" ELSE "gc_remove"])
  /\ UNCHANGED <<tables, disk, tx, changes, files, temp, env>>

gc_reactivate(t) ==
  LET d == loc[t].cur IN
  /\ At(t, "gc_reactivate")
  /\ chunk' = [chunk EXCEPT ![d] = IF @ = NoChunk THEN NoChunk ELSE ActiveChunk]
  /\ UNCHANGED <<sess, part, artifact>>
  /\ Autocommit
  /\ GcNext(t, d)
  /\ UNCHANGED <<tx, changes, files, temp, env>>

gc_remove(t) ==
  /\ At(t, "gc_remove")
  /\ files' = files \ {loc[t].cur}
  /\ Goto(t, "gc_delete")
  /\ UNCHANGED <<tables, disk, tx, changes, temp, env>>

gc_delete(t) ==
  /\ At(t, "gc_delete")
  /\ chunk' = [chunk EXCEPT ![loc[t].cur] = NoChunk]
  /\ UNCHANGED <<sess, part, artifact>>
  /\ Autocommit
  /\ GcNext(t, loc[t].cur)
  /\ UNCHANGED <<tx, changes, files, temp, env>>
-----------------------------------------------------------------------------
(* run_maintenance, by the maintenance thread and as start-up recovery.    *)

run_maintenance(t) ==
  /\ MayStart(t)
  /\ Set(t, [Idle EXCEPT !.now = clock, !.pc = "maint_temp"])
  /\ UNCHANGED <<tables, disk, tx, changes, files, temp, env>>

cleanup_temp_files(t) ==
  /\ At(t, "maint_temp")
  /\ temp' = {}
  /\ Goto(t, "maint_expire")
  /\ UNCHANGED <<tables, disk, tx, changes, files, env>>

maint_expire(t) ==
  LET due == {s \in Session : Due(s, loc[t].now)} IN
  /\ At(t, "maint_expire")
  /\ sess' = [s \in Session |->
                IF s \in due THEN [sess[s] EXCEPT !.state = "EXPIRED"] ELSE sess[s]]
  /\ UNCHANGED <<part, chunk, artifact>>
  /\ Autocommit
  /\ Goto(t, "maint_rollback")
  /\ Changed(due # {})
  /\ UNCHANGED <<tx, files, temp, env>>

\* Mutant: sessions left in COMMITTING are not looked for.
MaintSkipsCommitting(t) ==
  /\ At(t, "maint_rollback")
  /\ Goto(t, "maint_select")
  /\ UNCHANGED <<tables, disk, tx, changes, files, temp, env>>
maint_rollback(t) ==
  LET committing == {s \in Session : sess[s].state = "COMMITTING"} IN
  /\ At(t, "maint_rollback")
  /\ sess' = [s \in Session |->
                IF s \in committing THEN [sess[s] EXCEPT !.state = "OPEN"] ELSE sess[s]]
  /\ UNCHANGED <<part, chunk, artifact>>
  /\ Autocommit
  /\ Goto(t, "maint_select")
  /\ Changed(committing # {})
  /\ UNCHANGED <<tx, files, temp, env>>

maint_select(t) ==
  /\ At(t, "maint_select")
  /\ Set(t, [loc[t] EXCEPT !.pc = "maint_next",
               !.sessions = {s \in Session : sess[s].state \in {"EXPIRED", "ABORTED"}}])
  /\ UNCHANGED <<tables, disk, tx, changes, files, temp, env>>

maint_next(t) ==
  /\ At(t, "maint_next")
  /\ \/ /\ loc[t].sessions = {}
        /\ Done(t)
        /\ up' = TRUE
     \/ /\ \E s \in loc[t].sessions :
             Set(t, [loc[t] EXCEPT !.s = s, !.sessions = @ \ {s}, !.ret = "maint_next",
                                   !.pc = "mark_select"])
        /\ UNCHANGED up
  /\ UNCHANGED <<tables, disk, tx, changes, files, temp, clock, crashes>>
-----------------------------------------------------------------------------
(* Environment.                                                            *)

Tick ==
  /\ clock < MaxTime
  /\ clock' = clock + 1
  /\ UNCHANGED <<tables, disk, tx, changes, files, temp, crashes, up, loc>>

\* The process dies and is started again: an open transaction is lost, the
\* files stay, and Storage::open runs the maintenance before anything else.
Crash ==
  /\ crashes < MaxCrashes
  /\ crashes' = crashes + 1
  /\ sess' = disk.sess
  /\ part' = disk.part
  /\ chunk' = disk.chunk
  /\ artifact' = disk.artifact
  /\ tx' = NoTx
  /\ changes' = FALSE
  /\ up' = FALSE
  /\ loc' = [t \in Thread |->
               IF t = "maint" THEN [Idle EXCEPT !.now = clock, !.pc = "maint_temp"]
               ELSE Idle]
  /\ UNCHANGED <<disk, files, temp, clock>>
-----------------------------------------------------------------------------
Worker ==
  LET t == "worker" IN
  \/ create_session(t) \/ create_insert(t)
  \/ put_chunk(t) \/ put_reload(t) \/ write_temp_file(t) \/ rename_into_place(t)
  \/ put_begin(t) \/ put_register(t)
  \/ commit_session(t) \/ commit_transition(t) \/ commit_changes(t)
  \/ commit_validate(t) \/ commit_begin(t) \/ commit_publish(t) \/ commit_reopen(t)
  \/ delete_artifact(t) \/ delete_row(t) \/ delete_commit(t)
  \/ collect_garbage(t) \/ gc_check(t) \/ gc_reactivate(t) \/ gc_remove(t) \/ gc_delete(t)
  \/ expire_session_if_due(t)

Aborter(t) ==
  \/ abort_session(t) \/ abort_begin(t) \/ abort_transition(t) \/ abort_commit(t)

Maintenance ==
  LET t == "maint" IN
  \/ run_maintenance(t) \/ cleanup_temp_files(t) \/ maint_expire(t)
  \/ maint_rollback(t) \/ maint_select(t) \/ maint_next(t)

Next ==
  \/ Worker
  \/ \E t \in {"worker", "admin"} : Aborter(t)
  \/ Maintenance
  \/ \E t \in Thread : mark_unreferenced_parts(t)
  \/ Tick
  \/ Crash

Spec == Init /\ [][Next]_vars

\* What the process does by itself goes on: a thread inside an operation
\* reaches its end and the maintenance thread wakes up again and again.
\* Clients, the administrator, the clock and crashes owe nothing.
InOperation(t) == ~ At(t, "idle")
FairSpec ==
  /\ Spec
  /\ WF_vars(InOperation("worker") /\ (Worker \/ Aborter("worker") \/ mark_unreferenced_parts("worker")))
  /\ WF_vars(InOperation("admin") /\ (Aborter("admin") \/ mark_unreferenced_parts("admin")))
  /\ WF_vars(Maintenance \/ mark_unreferenced_parts("maint"))
-----------------------------------------------------------------------------
(* Properties.                                                             *)

Local ==
  [pc : Labels, s : Session \cup {Nil}, now : Nat, ordinal : Nat,
   data : Digest \cup {Nil}, cur : Digest \cup {Nil}, todo : SUBSET Digest,
   sessions : SUBSET Session, ret : Labels,
   from : Live \cup {"NONE"}, manifest : Seq(Digest), name : Name \cup {Nil},
   dry : BOOLEAN]

DatabaseType ==
  [sess : [Session -> SessionRow \cup {NoSession}], part : SUBSET PartRow,
   chunk : [Digest -> ChunkRow], artifact : [Name -> ArtifactRow \cup {NoArtifact}]]

\* Every table row, file and local variable has its type, in the
\* connection's view and on disk.
TypeOK ==
  /\ sess \in [Session -> SessionRow \cup {NoSession}]
  /\ part \in SUBSET PartRow
  /\ chunk \in [Digest -> ChunkRow]
  /\ artifact \in [Name -> ArtifactRow \cup {NoArtifact}]
  /\ disk \in DatabaseType
  /\ tx \in Thread \cup {NoTx}
  /\ changes \in BOOLEAN
  /\ files \in SUBSET Digest
  /\ temp \in SUBSET Digest
  /\ clock \in Nat
  /\ crashes \in Nat
  /\ up \in BOOLEAN
  /\ loc \in [Thread -> Local]

\* Every chunk named by the manifest of an artifact has its file.
Intact(arts) ==
  \A n \in Name : arts[n] # NoArtifact => Range(arts[n].manifest) \subseteq files

\* No published artifact lacks a chunk (FR-STO-05, docs/SECURITY.md section 7):
\* neither in what the connection sees nor in what a crash would leave,
\* whatever commit_session, delete_artifact, collect_garbage, put_chunk,
\* abort_session and run_maintenance do to each other.
PublishedIntact == Intact(artifact) /\ Intact(disk.artifact)

\* A chunk some client was told is stored (a row of upload_part in a session
\* that can still be committed) has its file and its row: neither the
\* collector nor recovery after a crash takes it away.
RegisteredStored ==
  \A p \in part : sess[p.session].state \in Live =>
    p.digest \in files /\ chunk[p.digest] # NoChunk

\* collect_garbage unlinks only files of chunks that no manifest and no live
\* session refers to at the moment of the unlink (FR-GC-02).
GcKeepsReferenced == [][\A d \in files \ files' : ~ chunk_referenced(d)]_vars

\* The session state machine of FR-UP-07, as a crash would find it: a
\* terminal state is never left and COMPLETED is entered from COMMITTING only.
MayFollow ==
  [NONE |-> {"OPEN"}, OPEN |-> {"COMMITTING", "ABORTED", "EXPIRED"},
   COMMITTING |-> {"COMPLETED", "OPEN", "ABORTED"},
   COMPLETED |-> {}, ABORTED |-> {}, EXPIRED |-> {}]
SessionStateMachine ==
  [][\A s \in Session :
       disk'.sess[s].state \in MayFollow[disk.sess[s].state] \cup {disk.sess[s].state}]_vars

\* A session that a crash would find COMPLETED, ABORTED or EXPIRED stays so.
\* It holds with serialised calls; with SESSION_ABORT outside the mutex it
\* does not.
TerminalIsFinal ==
  [][\A s \in Session :
       disk.sess[s].state \in Terminal => disk'.sess[s].state = disk.sess[s].state]_vars

\* Between requests no session is left in COMMITTING: a commit that fails
\* puts its session back to OPEN (docs/PROTOCOL.md section 6), and start-up
\* recovery does so for a commit a crash cut short (FR-STO-06).
CommitSettles ==
  up /\ At("worker", "idle") => \A s \in Session : sess[s].state # "COMMITTING"

\* When abort_session is about to report success the session is over.
AbortTakesEffect ==
  \A t \in Thread : At(t, "abort_commit") => sess[loc[t].s].state \in Terminal

\* An owner never has more than max_sessions_per_owner open sessions, though
\* create_session counts them only when it adds one and failed commits and
\* recovery put sessions back to OPEN.
SessionLimit ==
  \A o \in Owner : Cardinality(OpenSessions(o)) <= MaxSessionsPerOwner

\* Outside operations a chunk that is in use counts as used and any other is
\* handed to the collector: an ACTIVE row is referred to, or registered in a
\* session whose parts the next maintenance will release (D-18).
UnreferencedMarked ==
  (up /\ \A t \in Thread : At(t, "idle")) =>
    \A d \in Digest : chunk[d].state = "ACTIVE" =>
      \/ InManifest(d)
      \/ \E p \in part : p.digest = d /\ sess[p.session].state # "COMPLETED"

\* As long as nothing crashes between two statements, no chunk leaks.
NoLeakWithoutCrash == crashes = 0 => UnreferencedMarked

\* Once requests stop, recovery completes whatever the races before it did:
\* no session stays due or in COMMITTING, and ended sessions hold no parts.
Quiet == At("worker", "idle") /\ At("admin", "idle")
Settled ==
  \A s \in Session :
    /\ ~ Due(s, clock)
    /\ sess[s].state # "COMMITTING"
    /\ sess[s].state \in {"ABORTED", "EXPIRED"} => PartsOf(s) = {}
QuietRecovery == <>[]Quiet => <>[]Settled
=============================================================================
