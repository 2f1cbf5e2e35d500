------------------------------ MODULE ChunkFile ------------------------------
(***************************************************************************)
(* The chunk files (src/src/storage/fr_chunk_store.cpp) over the file      *)
(* primitives of the C core (src/src/core_c/fr_fd.c): what one put, read   *)
(* or removal does to the file system, one system call at a time, with     *)
(* short reads and writes, failing calls, two threads, a power loss at any *)
(* moment and bytes the medium alters.                                     *)
(*                                                                         *)
(* A file name leads to an inode, an inode holds bytes, a descriptor leads *)
(* to an inode and has a position.  A chunk is identified with its bytes,  *)
(* so a digest is the sequence it is the digest of; a file has a header of *)
(* four fields before the data, each one element of the file.  Module      *)
(* Storage sees a put as two steps: a temporary file, a file in place.     *)
(***************************************************************************)
EXTENDS Integers, FiniteSetsExt, SequencesExt

CONSTANTS
  Thread,      \* threads that use the store
  Data,        \* chunk contents
  Inode,       \* inodes of the file system
  Fd,          \* descriptors of the process
  Counter,     \* values of the counter in temporary names
  Attempts,    \* names fr_tmpfile_create tries
  MaxCrashes,  \* bound on power losses
  MaxRot,      \* bound on altered bytes
  MaxOps       \* bound on calls

Nat1 == Nat \ {0}
ASSUME ChunkFileAssumption ==
  /\ Data \subseteq Seq(Nat)
  /\ Inode \subseteq Nat1 /\ Fd \subseteq Nat1 /\ IsFiniteSet(Inode) /\ IsFiniteSet(Fd)
  /\ IsFiniteSet(Counter) /\ Counter = 1 .. Cardinality(Counter)
  /\ {Attempts, MaxCrashes, MaxRot, MaxOps} \subseteq Nat

VARIABLES
  dir,       \* the directories chunks/ and tmp/: name -> inode, 0 for none
  survives,  \* the directories a power loss may leave
  inode,     \* content of the inodes
  fds,       \* the descriptor table
  counter,   \* fd_tmp_counter_next
  loc,       \* the threads' local variables
  acked,     \* chunks some put has reported stored since their last removal
  bound      \* crashes, altered bytes and calls so far

fs == <<dir, survives, inode>>
vars == <<dir, survives, inode, fds, counter, loc, acked, bound>>

Smaller(a, b) == IF a < b THEN a ELSE b
-----------------------------------------------------------------------------
(* The format of a chunk file.                                             *)

MAGIC == 70         \* magic, version and the reserved bytes
HeaderSize == 4     \* kChunkHeaderSize

\* fr_crc32, as a checksum that one altered byte changes.
crc32(s) ==
  LET sum[i \in 0 .. Len(s)] == IF i = 0 THEN 0 ELSE sum[i - 1] + i * s[i] IN sum[Len(s)]
store_header(d) == <<MAGIC, Len(d), Len(d), crc32(d)>>
Whole(d) == store_header(d) \o d

\* parse_header accepts: the constant bytes, and raw length = stored length.
HeaderOK(h) == h[1] = MAGIC /\ h[2] = h[3]
-----------------------------------------------------------------------------
(* The file system.                                                        *)

Closed == [inode |-> 0, pos |-> 0]
NoInode == [bytes |-> <<>>, synced |-> FALSE]
Idle == [op |-> "none", pc |-> "idle", d |-> <<>>, name |-> 0, fd |-> 0, off |-> 0, len |-> 0,
         left |-> <<>>, want |-> 0, header |-> <<>>, buf |-> <<>>, tries |-> 0, seen |-> {},
         result |-> "none"]

Init ==
  /\ dir = [chunks |-> [d \in Data |-> 0], tmp |-> [n \in Counter |-> 0]]
  /\ survives = {dir}
  /\ inode = [i \in Inode |-> NoInode]
  /\ fds = [f \in Fd |-> Closed]
  /\ counter = 0
  /\ loc = [t \in Thread |-> Idle]
  /\ acked = {}
  /\ bound = [crashes |-> 0, rot |-> 0, ops |-> 0]

Names(dr) == Range(dr.chunks) \cup Range(dr.tmp)
InUse == (UNION {Names(dr) : dr \in survives}) \cup {fds[f].inode : f \in Fd}
FreeInodes == Inode \ InUse
FreeFds == {f \in Fd : fds[f] = Closed}
InPlace == {d \in Data : dir.chunks[d] # 0}

\* A directory changes at once for everybody, on the medium some time later.
SetDir(dr) == dir' = dr /\ survives' = survives \cup {dr}
WithoutTemp(n) == IF n = 0 THEN dir ELSE [dir EXCEPT !.tmp[n] = 0]

At(t, pc) == loc[t].pc = pc
Goto(t, pc) == loc' = [loc EXCEPT ![t].pc = pc]
\* The result is kept until the thread's next call; so is what was read.
Ends(t, result) ==
  loc' = [loc EXCEPT ![t] = [Idle EXCEPT !.op = loc[t].op, !.d = loc[t].d, !.off = loc[t].off,
                                         !.len = loc[t].len, !.buf = loc[t].buf, !.result = result]]
Reported(t) == acked' = acked \cup {loc[t].d}

\* fr_fd_close; the number may be given to another thread's next open.
CloseFd(t) == fds' = IF loc[t].fd = 0 THEN fds ELSE [fds EXCEPT ![loc[t].fd] = Closed]

MayStart(t) == At(t, "idle") /\ bound.ops < MaxOps
Counts == bound' = [bound EXCEPT !.ops = @ + 1]
-----------------------------------------------------------------------------
(* put, write_chunk_file                                                   *)

\* The digest is compared with the content, then the file is looked for.
put(t) ==
  /\ MayStart(t)
  /\ \E d \in Data, content \in Data \cup {<<>>} :
       LET call == [Idle EXCEPT !.op = "put", !.d = d] IN
       /\ loc' = [loc EXCEPT ![t] =
                    IF content # d THEN [call EXCEPT !.result = "conflict"]
                    ELSE IF d \in InPlace THEN [call EXCEPT !.result = "ok"]
                    ELSE [call EXCEPT !.pc = "create"]]
       /\ acked' = IF content = d /\ d \in InPlace THEN acked \cup {d} ELSE acked
  /\ Counts
  /\ UNCHANGED <<fs, fds, counter>>

\* fr_tmpfile_create: the next name that is free, exclusively created.  The
\* counter starts again with the process, so a file that is left over from
\* before a crash can have the name.
fr_tmpfile_create(t) ==
  /\ At(t, "create") /\ loc[t].tries < Attempts /\ counter + 1 \in Counter
  /\ counter' = counter + 1
  /\ IF dir.tmp[counter + 1] # 0
     THEN /\ loc' = [loc EXCEPT ![t].tries = @ + 1]
          /\ UNCHANGED <<fs, fds>>
     ELSE /\ FreeFds # {} /\ FreeInodes # {}
          /\ LET i == Min(FreeInodes)
                 f == Min(FreeFds) IN
             /\ SetDir([dir EXCEPT !.tmp[counter + 1] = i])
             /\ inode' = [inode EXCEPT ![i] = NoInode]
             /\ fds' = [fds EXCEPT ![f] = [inode |-> i, pos |-> 0]]
             /\ loc' = [loc EXCEPT ![t].name = counter + 1, ![t].fd = f, ![t].pc = "header",
                                   ![t].left = store_header(loc[t].d)]
  /\ UNCHANGED <<acked, bound>>
\* Retries exhausted, no descriptor, no space, or the open fails otherwise.
create_fails(t) ==
  /\ At(t, "create")
  /\ Ends(t, "failed")
  /\ UNCHANGED <<fs, fds, counter, acked, bound>>

\* fr_fd_write_all: write takes any part of what is left.
fr_fd_write_all(t) ==
  /\ loc[t].pc \in {"header", "data"} /\ loc[t].left # <<>>
  /\ \E w \in 1 .. Len(loc[t].left) :
       /\ inode' = [inode EXCEPT ![fds[loc[t].fd].inode] =
                      [bytes |-> @.bytes \o SubSeq(loc[t].left, 1, w), synced |-> FALSE]]
       /\ loc' = [loc EXCEPT ![t].left = SubSeq(@, w + 1, Len(@))]
  /\ UNCHANGED <<dir, survives, fds, counter, acked, bound>>
all_written(t) ==
  /\ loc[t].left = <<>>
  /\ \/ At(t, "header") /\ loc' = [loc EXCEPT ![t].pc = "data", ![t].left = loc[t].d]
     \/ At(t, "data") /\ Goto(t, "fsync")
  /\ UNCHANGED <<fs, fds, counter, acked, bound>>

\* Mutant: the file is not synced.
fsync_skipped(t) ==
  /\ At(t, "fsync")
  /\ Goto(t, "close")
  /\ UNCHANGED <<fs, fds, counter, acked, bound>>
fr_fd_fsync(t) ==
  /\ At(t, "fsync")
  /\ inode' = [inode EXCEPT ![fds[loc[t].fd].inode].synced = TRUE]
  /\ Goto(t, "close")
  /\ UNCHANGED <<dir, survives, fds, counter, acked, bound>>
close_temp(t) ==
  /\ At(t, "close")
  /\ CloseFd(t)
  /\ loc' = [loc EXCEPT ![t].fd = 0, ![t].pc = "mkdir"]
  /\ UNCHANGED <<fs, counter, acked, bound>>

\* Mutants: the temporary file, or the descriptor, is forgotten.
fail_without_unlink(t) ==
  /\ CloseFd(t)
  /\ Ends(t, "failed")
  /\ UNCHANGED <<dir, survives>>
fail_without_close(t) ==
  /\ SetDir(WithoutTemp(loc[t].name))
  /\ Ends(t, "failed")
  /\ UNCHANGED fds
\* The lambda fail, and the failure of fr_dir_create_all, where the descriptor
\* is closed already: close, unlink, throw.
fail(t) ==
  /\ CloseFd(t)
  /\ SetDir(WithoutTemp(loc[t].name))
  /\ Ends(t, "failed")
put_fails(t) ==
  /\ loc[t].pc \in {"header", "data", "fsync", "close", "mkdir"}
  /\ fail(t)
  /\ UNCHANGED <<inode, counter, acked, bound>>

\* fr_dir_create_all; then a file in place, another thread's, is used instead.
fr_dir_create_all(t) ==
  /\ At(t, "mkdir")
  /\ Goto(t, "exists")
  /\ UNCHANGED <<fs, fds, counter, acked, bound>>
target_exists(t) ==
  /\ At(t, "exists")
  /\ IF loc[t].d \in InPlace
     THEN /\ SetDir(WithoutTemp(loc[t].name))
          /\ Ends(t, "ok") /\ Reported(t)
     ELSE Goto(t, "rename") /\ UNCHANGED <<dir, survives, acked>>
  /\ UNCHANGED <<inode, fds, counter, bound>>

\* fr_file_rename takes the place of a file of that name.
rename_into_place(t) ==
  LET n == loc[t].name IN
  /\ At(t, "rename") /\ dir.tmp[n] # 0
  /\ SetDir([dir EXCEPT !.chunks[loc[t].d] = dir.tmp[n], !.tmp[n] = 0])
  /\ Ends(t, "ok") /\ Reported(t)
  /\ UNCHANGED <<inode, fds, counter, bound>>
\* The file is gone, cleaned up as a leftover, or the call fails otherwise.
rename_fails(t) ==
  /\ At(t, "rename")
  /\ SetDir(WithoutTemp(loc[t].name))
  /\ Goto(t, "raced")
  /\ UNCHANGED <<inode, fds, counter, acked, bound>>
\* Mutant: the loser of the race does not look for the winner's file.
raced_unseen(t) ==
  /\ At(t, "raced")
  /\ Ends(t, "ok") /\ Reported(t)
  /\ UNCHANGED <<fs, fds, counter, bound>>
raced(t) ==
  /\ At(t, "raced")
  /\ IF loc[t].d \in InPlace
     THEN Ends(t, "ok") /\ Reported(t)
     ELSE Ends(t, "failed") /\ UNCHANGED acked
  /\ UNCHANGED <<fs, fds, counter, bound>>
-----------------------------------------------------------------------------
(* get, get_range, read_artifact_slice                                     *)

get_range(t) ==
  /\ MayStart(t)
  /\ \E d \in Data : \E off \in 0 .. Len(d) + 1, len \in {1, Len(d) + 1} :
       LET call == [Idle EXCEPT !.op = "get", !.d = d, !.off = off, !.len = len] IN
       IF d \in InPlace /\ FreeFds # {}
       THEN LET f == Min(FreeFds) IN
            /\ fds' = [fds EXCEPT ![f] = [inode |-> dir.chunks[d], pos |-> 0]]
            /\ loc' = [loc EXCEPT ![t] = [call EXCEPT !.fd = f, !.want = HeaderSize,
                                                     !.pc = "read_header"]]
       ELSE /\ loc' = [loc EXCEPT ![t] = [call EXCEPT !.result = "failed"]]
            /\ UNCHANGED fds
  /\ Counts
  /\ UNCHANGED <<fs, counter, acked>>

\* fr_fd_read_full: read gives any part of what is wanted and there ...
Rest(t) == LET f == fds[loc[t].fd] IN SubSeq(inode[f.inode].bytes, f.pos + 1, Len(inode[f.inode].bytes))
Taken(t, n) ==
  /\ fds' = [fds EXCEPT ![loc[t].fd].pos = @ + n]
  /\ loc' = [loc EXCEPT ![t].want = @ - n,
                        ![t].header = IF At(t, "read_header") THEN @ \o SubSeq(Rest(t), 1, n) ELSE @,
                        ![t].buf = IF At(t, "read_data") THEN @ \o SubSeq(Rest(t), 1, n) ELSE @]
fr_fd_read_full(t) ==
  /\ loc[t].pc \in {"read_header", "read_data"}
  /\ \E n \in 1 .. Smaller(loc[t].want, Len(Rest(t))) : Taken(t, n)
  /\ UNCHANGED <<fs, counter, acked, bound>>
\* ... and nothing at the end of the file, FR_E_EOF; or the call fails, or
\* fr_fd_seek_set does: the lambda fail closes and throws.
get_fails(t) ==
  /\ loc[t].pc \in {"read_header", "read_data"} /\ loc[t].want > 0
  /\ CloseFd(t) /\ Ends(t, "failed")
  /\ UNCHANGED <<fs, counter, acked, bound>>

\* Mutant: the offset is not compared with the chunk's length.
seek_unchecked(t) ==
  LET h == loc[t].header IN
  /\ At(t, "read_header") /\ loc[t].want = 0 /\ HeaderOK(h)
  /\ fds' = [fds EXCEPT ![loc[t].fd].pos = loc[t].off + HeaderSize]
  /\ loc' = [loc EXCEPT ![t].want = Smaller(loc[t].len, h[2] - loc[t].off), ![t].pc = "read_data"]
  /\ UNCHANGED <<fs, counter, acked, bound>>

\* The bounds are checked, the length is cut off at the chunk's end, and the
\* position set.
seek_data(t) ==
  LET h == loc[t].header IN
  /\ At(t, "read_header") /\ loc[t].want = 0 /\ HeaderOK(h)
  /\ IF loc[t].off > h[2]
     THEN CloseFd(t) /\ Ends(t, "range")
     ELSE /\ fds' = [fds EXCEPT ![loc[t].fd].pos = loc[t].off + HeaderSize]
          /\ loc' = [loc EXCEPT ![t].want = Smaller(loc[t].len, h[2] - loc[t].off), ![t].pc = "read_data"]
  /\ UNCHANGED <<fs, counter, acked, bound>>
\* parse_header throws: nothing closes the descriptor.
header_refused(t) ==
  /\ At(t, "read_header") /\ loc[t].want = 0 /\ ~ HeaderOK(loc[t].header)
  /\ Ends(t, "failed")
  /\ UNCHANGED <<fs, fds, counter, acked, bound>>

\* Mutant: the checksum is compared for reads that start after the first byte.
ChecksumOfRest(t) ==
  loc[t].off > 0 /\ Len(loc[t].buf) = loc[t].header[2] => crc32(loc[t].buf) = loc[t].header[4]

\* The checksum is compared when the whole chunk was read.
ChecksumOK(t) ==
  loc[t].off = 0 /\ Len(loc[t].buf) = loc[t].header[2] => crc32(loc[t].buf) = loc[t].header[4]
close_chunk(t) ==
  /\ At(t, "read_data") /\ loc[t].want = 0
  /\ CloseFd(t)
  /\ \/ Ends(t, IF ChecksumOK(t) THEN "ok" ELSE "corrupted")
     \/ Ends(t, "failed")
  /\ UNCHANGED <<fs, counter, acked, bound>>
-----------------------------------------------------------------------------
(* remove, cleanup_temp_files                                              *)

remove(t) ==
  /\ MayStart(t)
  /\ \E d \in Data :
       \/ /\ SetDir([dir EXCEPT !.chunks[d] = 0])
          /\ acked' = acked \ {d}
          /\ loc' = [loc EXCEPT ![t] = [Idle EXCEPT !.op = "remove", !.d = d, !.result = "ok"]]
       \/ /\ loc' = [loc EXCEPT ![t] = [Idle EXCEPT !.op = "remove", !.d = d, !.result = "failed"]]
          /\ UNCHANGED <<dir, survives, acked>>
  /\ Counts
  /\ UNCHANGED <<inode, fds, counter>>

\* Every file of tmp/ that is there when the directory is opened is removed,
\* and perhaps some that come later.
Leftovers == {n \in Counter : dir.tmp[n] # 0}
cleanup_temp_files(t) ==
  /\ MayStart(t)
  /\ loc' = [loc EXCEPT ![t] = [Idle EXCEPT !.op = "cleanup", !.pc = "cleanup", !.seen = Leftovers]]
  /\ Counts
  /\ UNCHANGED <<fs, fds, counter, acked>>
cleanup_one(t) ==
  /\ At(t, "cleanup")
  /\ \E n \in Leftovers :
       /\ SetDir(WithoutTemp(n))
       /\ loc' = [loc EXCEPT ![t].seen = @ \ {n}]
  /\ UNCHANGED <<inode, fds, counter, acked, bound>>
cleanup_done(t) ==
  /\ At(t, "cleanup") /\ loc[t].seen \cap Leftovers = {}
  /\ Ends(t, "ok")
  /\ UNCHANGED <<fs, fds, counter, acked, bound>>
-----------------------------------------------------------------------------
(* The medium.                                                             *)

\* The file system writes its directories when it likes.
flush ==
  /\ Cardinality(survives) > 1
  /\ survives' = {dir}
  /\ UNCHANGED <<dir, inode, fds, counter, loc, acked, bound>>

\* A power loss leaves a directory of the past, and of a file that was not
\* synced the beginning only; the process starts again.
power_loss ==
  /\ bound.crashes < MaxCrashes
  /\ dir' \in survives
  /\ survives' = {dir'}
  /\ LET named == Names(dir') \ {0}
         cut == {i \in named : ~ inode[i].synced} IN
     \E k \in [cut -> 0 .. Max({0} \cup {Len(inode[i].bytes) : i \in cut})] :
       inode' = [i \in Inode |-> CASE i \in cut -> [inode[i] EXCEPT !.bytes = SubSeq(@, 1, Smaller(k[i], Len(@)))]
                                   [] i \in named \ cut -> inode[i]
                                   [] OTHER -> NoInode]
  /\ fds' = [f \in Fd |-> Closed]
  /\ counter' = 0
  /\ loc' = [t \in Thread |-> Idle]
  /\ bound' = [bound EXCEPT !.crashes = @ + 1]
  /\ UNCHANGED acked

\* The medium alters an element of a file in place.
altered ==
  /\ bound.rot < MaxRot
  /\ \E d \in InPlace : \E p \in DOMAIN inode[dir.chunks[d]].bytes :
       inode' = [inode EXCEPT ![dir.chunks[d]].bytes[p] = @ + 1]
  /\ bound' = [bound EXCEPT !.rot = @ + 1]
  /\ UNCHANGED <<dir, survives, fds, counter, loc, acked>>

Call(t) ==
  \/ put(t) \/ fr_tmpfile_create(t) \/ create_fails(t) \/ fr_fd_write_all(t) \/ all_written(t)
  \/ fr_fd_fsync(t) \/ close_temp(t) \/ put_fails(t) \/ fr_dir_create_all(t) \/ target_exists(t)
  \/ rename_into_place(t) \/ rename_fails(t) \/ raced(t)
  \/ get_range(t) \/ fr_fd_read_full(t) \/ get_fails(t) \/ seek_data(t) \/ close_chunk(t)
  \/ header_refused(t) \/ remove(t) \/ cleanup_temp_files(t) \/ cleanup_one(t) \/ cleanup_done(t)

Next == (\E t \in Thread : Call(t)) \/ flush \/ power_loss \/ altered
Spec == Init /\ [][Next]_vars
-----------------------------------------------------------------------------
(* Properties.                                                             *)

Bytes == Seq(Nat)
Directory == [chunks : [Data -> {0} \cup Inode], tmp : [Counter -> {0} \cup Inode]]
Local == [op : {"none", "put", "get", "remove", "cleanup"},
          pc : {"idle", "create", "header", "data", "fsync", "close", "mkdir", "exists", "rename",
                "raced", "read_header", "read_data", "cleanup"},
          d : Data \cup {<<>>}, name : {0} \cup Counter, fd : {0} \cup Fd, off : Nat, len : Nat,
          left : Bytes, want : Nat, header : Bytes, buf : Bytes, tries : Nat, seen : SUBSET Counter,
          result : {"none", "ok", "failed", "conflict", "range", "corrupted"}]

\* The type invariant.  That want, the bytes still to be read, is a natural
\* number is what keeps fr_fd_read_full from running past the buffer.
TypeOK ==
  /\ dir \in Directory /\ dir \in survives /\ \A dr \in survives : dr \in Directory
  /\ inode \in [Inode -> [bytes : Bytes, synced : BOOLEAN]]
  /\ fds \in [Fd -> [inode : {0} \cup Inode, pos : Nat]]
  /\ counter \in {0} \cup Counter
  /\ loc \in [Thread -> Local]
  /\ acked \subseteq Data
  /\ bound \in [crashes : 0 .. MaxCrashes, rot : 0 .. MaxRot, ops : 0 .. MaxOps]

\* "fsync, then rename" in write_chunk_file: whatever is found under a
\* chunk's name is the whole file, whoever else writes, removes or cleans up
\* and whenever the power fails; only the medium can alter elements of it.
InPlaceWhole ==
  \A d \in InPlace :
    LET b == inode[dir.chunks[d]].bytes IN
    /\ Len(b) = Len(Whole(d))
    /\ Cardinality({p \in DOMAIN b : b[p] # Whole(d)[p]}) <= bound.rot

\* What get_range hands out is the part of the chunk that was asked for, cut
\* off at its end; when the whole chunk was asked for this holds even if the
\* medium altered a byte, because the checksum gives it away.
GetExact ==
  \A t \in Thread :
    LET l == loc[t]
        part == SubSeq(l.d, l.off + 1, Smaller(l.off + l.len, Len(l.d))) IN
    l.op = "get" /\ l.result = "ok" /\ (bound.rot = 0 \/ part = l.d) => l.buf = part

\* The lambda fail and the early returns of write_chunk_file: as long as the
\* process lives, every temporary file belongs to a put that is under way.
TempOwned ==
  bound.crashes = 0 => \A n \in Leftovers : \E t \in Thread : loc[t].name = n

\* Every descriptor that is open belongs to exactly one call under way, no
\* call uses one that was closed, and a put writes to a file nobody finds
\* under a chunk's name.  Only a get_range that found an altered header may
\* have left its descriptor open.
DescriptorsOwned ==
  /\ \A t \in Thread : loc[t].fd # 0 => fds[loc[t].fd] # Closed
  /\ \A f \in Fd : fds[f] # Closed => bound.rot > 0 \/ \E t \in Thread : loc[t].fd = f
  /\ \A t, u \in Thread : loc[t].fd = loc[u].fd /\ t # u => loc[t].fd = 0
  /\ \A t \in Thread, d \in InPlace :
       loc[t].pc \in {"header", "data", "fsync"} => fds[loc[t].fd].inode # dir.chunks[d]

\* A put that reports success leaves the chunk in place until somebody
\* removes it: not only its own rename counts, but no rename, cleanup or
\* failure of another thread's put takes the file away again.
PutPresent == bound.crashes = 0 => acked \subseteq InPlace

\* The durability FR-STO-04 asks for: a put that was reported stored is still
\* in place after a power loss.  It does not hold: nothing syncs the directory.
PutDurable == acked \subseteq InPlace
-----------------------------------------------------------------------------
=============================================================================
