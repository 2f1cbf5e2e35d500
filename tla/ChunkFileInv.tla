---------------------------- MODULE ChunkFileInv ----------------------------
(***************************************************************************)
(* The inductive invariant of the chunk files: what every thread's program *)
(* counter says about its descriptor, its temporary file and the bytes in  *)
(* it, and what the directories a power loss may leave have in common.     *)
(***************************************************************************)
EXTENDS ChunkFile

Writing == {"header", "data", "fsync", "close"}   \* the temporary file is open
Ready == {"mkdir", "exists", "rename"}            \* it is closed and complete
Reading == {"read_header", "read_data"}

FdInode(t) == fds[loc[t].fd].inode
TempInode(t) == dir.tmp[loc[t].name]

\* A thread holds a descriptor and a temporary name exactly while its program
\* counter says so, and get_range has a whole header when it parses it.
LocalOK(l) ==
  /\ l.fd # 0 <=> l.pc \in Writing \cup Reading
  /\ l.name # 0 <=> l.pc \in Writing \cup Ready \cup {"raced"}
  /\ l.pc \notin {"idle", "cleanup"} => l.d \in Data
  /\ l.pc # "idle" => l.result = "none"
  /\ l.pc = "read_header" => Len(l.header) + l.want = HeaderSize
LocalsOK == \A t \in Thread : LocalOK(loc[t])

\* Names and descriptors are not shared.
Exclusive ==
  /\ \A t \in Thread : loc[t].name <= counter /\ (loc[t].fd # 0 => FdInode(t) # 0)
  /\ \A t, u \in Thread : t # u /\ loc[t].name = loc[u].name => loc[t].name = 0
  /\ \A t, u \in Thread : t # u /\ loc[t].fd = loc[u].fd => loc[t].fd = 0

NotInPlace(i) == \A dr \in survives, d \in Data : dr.chunks[d] # i
OnlyName(i, n) == \A m \in Counter : dir.tmp[m] = i => m = n

\* The file a put writes is found under its temporary name or not at all, and
\* by no other descriptor, whatever directory a power loss leaves.
Private ==
  \A t \in Thread :
    /\ loc[t].pc \in Writing =>
         /\ NotInPlace(FdInode(t)) /\ OnlyName(FdInode(t), loc[t].name)
         /\ TempInode(t) \in {0, FdInode(t)}
         /\ \A f \in Fd : fds[f].inode = FdInode(t) => f = loc[t].fd
    /\ loc[t].pc \in Ready /\ TempInode(t) # 0 =>
         NotInPlace(TempInode(t)) /\ OnlyName(TempInode(t), loc[t].name)
    /\ loc[t].pc = "raced" => TempInode(t) = 0

\* What has been written so far and what is left make up the file.
WrittenBy(t) ==
  LET l == loc[t]
      w == inode[FdInode(t)] IN
  /\ l.pc = "header" => w.bytes \o l.left = store_header(l.d)
  /\ l.pc = "data" => w.bytes \o l.left = Whole(l.d)
  /\ l.pc \in {"fsync", "close"} => w.bytes = Whole(l.d)
  /\ l.pc = "close" => w.synced
  /\ l.pc \in Ready /\ TempInode(t) # 0 =>
       inode[TempInode(t)] = [bytes |-> Whole(l.d), synced |-> TRUE]
Written == \A t \in Thread : WrittenBy(t)

Altered(b, w) == {p \in DOMAIN b : b[p] # w[p]}
\* The bytes are those of the chunk but for what the medium altered.
IsChunk(b, d) == Len(b) = Len(Whole(d)) /\ Cardinality(Altered(b, Whole(d))) <= bound.rot

Complete(i, d) == inode[i].synced /\ IsChunk(inode[i].bytes, d)

\* A chunk in place is synced and whole in every directory a power loss may leave.
SurvivesWhole == \A dr \in survives, d \in Data : dr.chunks[d] # 0 => Complete(dr.chunks[d], d)

\* The element p of the file apart, a reader has read what it wanted.
ReadBut(t, p) ==
  LET l == loc[t]
      pos == fds[l.fd].pos
      b == inode[FdInode(t)].bytes IN
  /\ bound.rot = 0 => p = 0
  /\ Len(b) = Len(Whole(l.d)) /\ \A q \in 1 .. Len(b) : q # p => b[q] = Whole(l.d)[q]
  /\ \A q \in 1 .. Len(l.header) : q # p => l.header[q] = store_header(l.d)[q]
  /\ l.pc = "read_header" => pos = Len(l.header) /\ l.buf = <<>>
  /\ l.pc = "read_data" =>
       /\ Len(l.header) = HeaderSize /\ HeaderOK(l.header)
       /\ l.off <= Len(l.d) /\ pos = l.off + HeaderSize + Len(l.buf)
       /\ l.want + Len(l.buf) = Smaller(l.len, Len(l.d) - l.off)
       /\ \A q \in 1 .. Len(l.buf) : l.off + HeaderSize + q # p => l.buf[q] = l.d[l.off + q]

\* GetExact for one thread.
Exact(t) ==
  LET l == loc[t]
      part == SubSeq(l.d, l.off + 1, Smaller(l.off + l.len, Len(l.d))) IN
  l.op = "get" /\ l.result = "ok" /\ (bound.rot = 0 \/ part = l.d) => l.buf = part

\* As long as the medium has altered at most one element.
ReadBy(t) ==
  /\ loc[t].op = "get" => loc[t].pc \in Reading \cup {"idle"}
  /\ bound.rot <= 1 => Exact(t) /\ (loc[t].pc \in Reading => \E p \in Nat : ReadBut(t, p))
ReadSoFar == \A t \in Thread : ReadBy(t)

\* Every open descriptor is somebody's, unless a header was refused.
FdsOwned ==
  bound.rot = 0 => \A f \in Fd : fds[f] # Closed => \E t \in Thread : loc[t].fd = f
=============================================================================
