--------------------------- MODULE ChunkFileProofs ---------------------------
(***************************************************************************)
(* Proofs about the chunk files, for every set of threads, chunks, inodes  *)
(* and descriptors and every bound: the types; the file a put writes is    *)
(* its own, what is in place is whole, what a read hands out is what was   *)
(* asked for, every descriptor has its owner, and what put reported is     *)
(* there.                                                                  *)
(***************************************************************************)
EXTENDS ChunkFileInv, FiniteSetTheorems, SequenceTheorems, WellFoundedInduction, TLAPS

USE DEF fs

-----------------------------------------------------------------------------
(* The smallest of a set of numbers, and the checksum.                     *)

LEMMA LeastNat ==
  ASSUME NEW T \in SUBSET Nat, T # {}
  PROVE  \E x \in T : \A y \in T : x <= y
<1>1. IsWellFoundedOn(OpToRel(<, Nat), Nat)
  BY NatLessThanWellFounded
<1>2. PICK x \in T : \A y \in T : ~ (<<y, x>> \in OpToRel(<, Nat))
  BY <1>1, WFMin
<1>3. \A y \in T : ~ (y < x)
  BY <1>2 DEF OpToRel
<1>4. QED
  BY <1>3

LEMMA MinIn == ASSUME NEW T \in SUBSET Nat, T # {} PROVE Min(T) \in T
BY LeastNat DEF Min

\* The recursive function in crc32 exists: by its smallest missing length.
SumTo(g, n, s) == g = [i \in 0 .. n |-> IF i = 0 THEN 0 ELSE g[i - 1] + i * s[i]]

LEMMA SumExists ==
  ASSUME NEW s \in Seq(Nat), NEW n \in 0 .. Len(s)
  PROVE  \E g : SumTo(g, n, s)
<1> DEFINE Bad == {k \in 0 .. Len(s) : ~ \E g : SumTo(g, k, s)}
<1> SUFFICES ASSUME Bad # {} PROVE FALSE
  OBVIOUS
<1>1. PICK m \in Bad : \A k \in Bad : m <= k
  <2>1. Bad \in SUBSET Nat
    OBVIOUS
  <2>2. QED
    BY <2>1, LeastNat
<1>2. m # 0
  <2>1. SumTo([i \in 0 .. 0 |-> 0], 0, s)
    BY DEF SumTo
  <2>2. QED
    BY <2>1
<1>3. PICK g : SumTo(g, m - 1, s)
  BY <1>1, <1>2
<1> DEFINE h == [i \in 0 .. m |-> IF i = m THEN g[m - 1] + m * s[m] ELSE g[i]]
<1>4. SumTo(h, m, s)
  <2>1. \A i \in 0 .. m : h[i] = IF i = 0 THEN 0 ELSE h[i - 1] + i * s[i]
    BY SMTT(60), <1>2, <1>3 DEF SumTo
  <2>2. QED
    BY <2>1, Zenon DEF SumTo
<1>5. QED
  BY <1>1, <1>4

LEMMA SumType ==
  ASSUME NEW s \in Seq(Nat), NEW g, SumTo(g, Len(s), s)
  PROVE  g \in [0 .. Len(s) -> Nat]
<1> DEFINE Bad == {k \in 0 .. Len(s) : g[k] \notin Nat}
<1>1. Bad = {}
  <2> SUFFICES ASSUME Bad # {} PROVE FALSE
    OBVIOUS
  <2>1. PICK m \in Bad : \A k \in Bad : m <= k
    <3>1. Bad \in SUBSET Nat
      OBVIOUS
    <3>2. QED
      BY <3>1, LeastNat
  <2>2. m # 0
    BY <2>1 DEF SumTo
  <2>3. m - 1 \in 0 .. Len(s) /\ g[m - 1] \in Nat /\ m \in 1 .. Len(s)
    BY <2>1, <2>2
  <2>4. s[m] \in Nat
    BY <2>3
  <2>5. g[m] = g[m - 1] + m * s[m]
    BY <2>1, <2>2 DEF SumTo
  <2>6. \A a, b, c \in Nat : a + b * c \in Nat
    OBVIOUS
  <2>7. g[m] \in Nat
    BY <2>3, <2>4, <2>5, <2>6
  <2>8. QED
    BY <2>1, <2>7
<1>2. QED
  BY <1>1 DEF SumTo

LEMMA CrcIsSum ==
  ASSUME NEW s \in Seq(Nat)
  PROVE  \E g : SumTo(g, Len(s), s) /\ crc32(s) = g[Len(s)]
<1>1. \E g : SumTo(g, Len(s), s)
  BY SumExists
<1> DEFINE c == CHOOSE g : SumTo(g, Len(s), s)
<1>2. SumTo(c, Len(s), s)
  BY <1>1, Zenon
<1>3. crc32(s) = c[Len(s)]
  BY Zenon DEF crc32, SumTo
<1>4. QED
  BY <1>2, <1>3

\* A checksum is a number.
LEMMA CrcType == ASSUME NEW s \in Seq(Nat) PROVE crc32(s) \in Nat
BY CrcIsSum, SumType
-----------------------------------------------------------------------------
(* What the actions do to the local variables.                             *)

TypeInv == TypeOK /\ LocalsOK /\ Exclusive

Labels == {"idle", "create", "header", "data", "fsync", "close", "mkdir", "exists", "rename",
           "raced", "read_header", "read_data", "cleanup"}
Results == {"none", "ok", "failed", "conflict", "range", "corrupted"}

\* Thread t alone moves.
Moves(t) ==
  /\ loc' \in [Thread -> Local]
  /\ \A u \in Thread : u # t => loc'[u] = loc[u]

LEMMA LocalFacts ==
  ASSUME TypeOK, NEW t \in Thread
  PROVE  /\ loc[t] \in Local /\ loc[t].pc \in Labels /\ loc[t].d \in Data \cup {<<>>}
         /\ loc[t].name \in {0} \cup Counter /\ loc[t].fd \in {0} \cup Fd
         /\ loc[t].off \in Nat /\ loc[t].len \in Nat /\ loc[t].want \in Nat
         /\ loc[t].left \in Seq(Nat) /\ loc[t].header \in Seq(Nat) /\ loc[t].buf \in Seq(Nat)
         /\ loc[t].result \in Results
BY DEF TypeOK, Local, Bytes, Labels, Results

LEMMA SetMoves ==
  ASSUME TypeOK, NEW t \in Thread, NEW m \in Local, loc' = [loc EXCEPT ![t] = m]
  PROVE  Moves(t) /\ loc'[t] = m
BY DEF TypeOK, Moves

LEMMA IdleType == Idle \in Local
BY DEF Idle, Local, Bytes

\* The call is over.
Over(t, result) ==
  /\ Moves(t)
  /\ loc'[t].pc = "idle" /\ loc'[t].name = 0 /\ loc'[t].fd = 0 /\ loc'[t].result = result
  /\ loc'[t].op = loc[t].op /\ loc'[t].d = loc[t].d /\ loc'[t].off = loc[t].off
  /\ loc'[t].len = loc[t].len /\ loc'[t].buf = loc[t].buf

LEMMA EndsOver ==
  ASSUME TypeOK, NEW t \in Thread, NEW r \in Results, Ends(t, r)
  PROVE  Over(t, r)
<1>1. PICK l \in Local : l = loc[t]
  BY LocalFacts
<1>2. PICK i \in Local : i = Idle
  BY IdleType
<1>3. i.pc = "idle" /\ i.name = 0 /\ i.fd = 0
  BY <1>2 DEF Idle
<1> DEFINE m == [i EXCEPT !.op = l.op, !.d = l.d, !.off = l.off, !.len = l.len, !.buf = l.buf,
                          !.result = r]
<1>4. m \in Local
  <2> DEFINE k == [i EXCEPT !.op = l.op, !.d = l.d, !.off = l.off, !.len = l.len, !.buf = l.buf]
  <2>1. k \in Local
    BY DEF Local
  <2>2. m = [k EXCEPT !.result = r]
    OBVIOUS
  <2>3. [k EXCEPT !.result = r] \in Local
    <3> HIDE DEF k, m
    <3> QED BY SMTT(60), <2>1 DEF Local, Results
  <2>4. QED
    BY <2>2, <2>3
<1>5. m.pc = i.pc /\ m.name = i.name /\ m.fd = i.fd /\ m.result = r
  BY DEF Local
<1>6. m.op = l.op /\ m.d = l.d /\ m.off = l.off /\ m.len = l.len /\ m.buf = l.buf
  BY DEF Local
<1>7. loc' = [loc EXCEPT ![t] = m]
  BY <1>1, <1>2 DEF Ends
<1>8. QED
  <2> HIDE DEF m
  <2> QED BY <1>1, <1>3, <1>4, <1>5, <1>6, <1>7, SetMoves DEF Over

\* The call goes on elsewhere, or with other bytes.
Keeps(t) ==
  /\ Moves(t)
  /\ loc'[t].op = loc[t].op /\ loc'[t].d = loc[t].d /\ loc'[t].off = loc[t].off
  /\ loc'[t].len = loc[t].len /\ loc'[t].result = loc[t].result
Stays(t) ==
  /\ Keeps(t)
  /\ loc'[t].name = loc[t].name /\ loc'[t].fd = loc[t].fd /\ loc'[t].header = loc[t].header
  /\ loc'[t].buf = loc[t].buf /\ loc'[t].want = loc[t].want

LEMMA GotoMoves ==
  ASSUME TypeOK, NEW t \in Thread, NEW pc \in Labels, Goto(t, pc)
  PROVE  Stays(t) /\ loc'[t].pc = pc /\ loc'[t].left = loc[t].left
<1> DEFINE m == [loc[t] EXCEPT !.pc = pc]
<1>1. /\ m \in Local /\ m.pc = pc /\ m.name = loc[t].name /\ m.fd = loc[t].fd
      /\ m.result = loc[t].result /\ m.op = loc[t].op /\ m.d = loc[t].d /\ m.off = loc[t].off
      /\ m.len = loc[t].len /\ m.buf = loc[t].buf /\ m.header = loc[t].header
      /\ m.want = loc[t].want /\ m.left = loc[t].left
  BY ZenonT(60), LocalFacts DEF Local, Labels
<1>2. loc' = [loc EXCEPT ![t] = m]
  BY DEF Goto
<1>3. QED
  <2> HIDE DEF m
  <2> QED BY <1>1, <1>2, SetMoves DEF Keeps, Stays

LEMMA StoreHeaderType ==
  ASSUME NEW d \in Data
  PROVE  /\ d \in Seq(Nat) /\ store_header(d) \in Seq(Nat) /\ Len(store_header(d)) = 4
         /\ Whole(d) \in Seq(Nat) /\ Len(Whole(d)) = 4 + Len(d)
<1>1. d \in Seq(Nat) /\ Len(d) \in Nat /\ crc32(d) \in Nat
  BY ChunkFileAssumption, CrcType
<1>2. store_header(d) \in Seq(Nat) /\ Len(store_header(d)) = 4
  BY <1>1 DEF store_header, MAGIC
<1>3. Whole(d) \in Seq(Nat) /\ Len(Whole(d)) = Len(store_header(d)) + Len(d)
  <2> HIDE DEF store_header
  <2> QED BY <1>1, <1>2, ConcatProperties DEF Whole
<1>4. QED
  BY <1>1, <1>2, <1>3

LEMMA FreeFacts ==
  /\ FreeFds # {} => Min(FreeFds) \in FreeFds
  /\ FreeInodes # {} => Min(FreeInodes) \in FreeInodes
<1>1. FreeFds \in SUBSET Nat /\ FreeInodes \in SUBSET Nat
  BY ChunkFileAssumption DEF FreeFds, FreeInodes, Nat1
<1>2. QED
  BY <1>1, MinIn

\* A call begins: put, get_range, remove, cleanup_temp_files.
Begins(t) ==
  /\ Moves(t) /\ loc[t].pc = "idle"
  /\ loc'[t].name = 0 /\ loc'[t].buf = <<>> /\ loc'[t].header = <<>>

LEMMA IdleFields ==
  /\ Idle.pc = "idle" /\ Idle.name = 0 /\ Idle.fd = 0 /\ Idle.result = "none"
  /\ Idle.buf = <<>> /\ Idle.header = <<>> /\ Idle.op = "none" /\ Idle.d = <<>>
BY DEF Idle

LEMMA PutMoves ==
  ASSUME TypeOK, NEW t \in Thread, put(t)
  PROVE  /\ Begins(t) /\ loc'[t].op = "put" /\ loc'[t].fd = 0 /\ loc'[t].d \in Data
         /\ \/ loc'[t].pc = "idle"
            \/ loc'[t].pc = "create" /\ loc'[t].result = "none"
         /\ acked' \in {acked, acked \cup {loc'[t].d}}
         /\ acked' # acked => loc'[t].d \in InPlace
<1>1. PICK d \in Data, content \in Data \cup {<<>>} :
       LET call == [Idle EXCEPT !.op = "put", !.d = d] IN
       /\ loc' = [loc EXCEPT ![t] =
                    IF content # d THEN [call EXCEPT !.result = "conflict"]
                    ELSE IF d \in InPlace THEN [call EXCEPT !.result = "ok"]
                    ELSE [call EXCEPT !.pc = "create"]]
       /\ acked' = IF content = d /\ d \in InPlace THEN acked \cup {d} ELSE acked
  BY DEF put
<1>2. PICK i \in Local : i = Idle
  BY IdleType
<1>3. i.pc = "idle" /\ i.name = 0 /\ i.fd = 0 /\ i.result = "none" /\ i.buf = <<>> /\ i.header = <<>>
  BY <1>2, IdleFields
<1> DEFINE call == [i EXCEPT !.op = "put", !.d = d]
<1>4. call \in Local /\ call.op = "put" /\ call.d = d /\ call.pc = i.pc /\ call.name = i.name
      /\ call.fd = i.fd /\ call.buf = i.buf /\ call.result = i.result /\ call.header = i.header
  BY DEF Local
<1> DEFINE m == IF content # d THEN [call EXCEPT !.result = "conflict"]
                ELSE IF d \in InPlace THEN [call EXCEPT !.result = "ok"]
                ELSE [call EXCEPT !.pc = "create"]
<1> HIDE DEF call
<1>5. /\ m \in Local /\ m.op = call.op /\ m.d = call.d /\ m.name = call.name /\ m.fd = call.fd
      /\ m.buf = call.buf /\ m.header = call.header
      /\ m.pc \in {call.pc, "create"} /\ (m.pc = "create" => m.result = call.result \/ m.pc = call.pc)
  BY <1>4 DEF Local
<1>6. loc' = [loc EXCEPT ![t] = m]
  BY <1>1, <1>2 DEF call
<1>7. Moves(t) /\ loc'[t] = m
  <2> HIDE DEF m
  <2> QED BY <1>5, <1>6, SetMoves
<1>8. loc[t].pc = "idle"
  BY DEF put, MayStart, At
<1>9. QED
  <2> HIDE DEF m
  <2> QED BY <1>1, <1>3, <1>4, <1>5, <1>7, <1>8 DEF Begins

NameTaken(t) ==
  /\ dir.tmp[counter + 1] # 0 /\ UNCHANGED <<fs, fds>>
  /\ loc'[t].pc = "create" /\ loc'[t].name = loc[t].name /\ loc'[t].fd = loc[t].fd
Created(t, i, f) ==
  /\ dir.tmp[counter + 1] = 0
  /\ SetDir([dir EXCEPT !.tmp[counter + 1] = i])
  /\ inode' = [inode EXCEPT ![i] = NoInode]
  /\ fds' = [fds EXCEPT ![f] = [inode |-> i, pos |-> 0]]
  /\ loc'[t].name = counter + 1 /\ loc'[t].fd = f /\ loc'[t].pc = "header"
  /\ loc'[t].left = store_header(loc[t].d)

LEMMA CreateMoves ==
  ASSUME TypeInv, NEW t \in Thread, fr_tmpfile_create(t)
  PROVE  /\ counter + 1 \in Counter /\ counter' = counter + 1 /\ loc[t].pc = "create"
         /\ loc[t].d \in Data /\ Keeps(t) /\ loc'[t].buf = loc[t].buf /\ loc'[t].header = loc[t].header
         /\ \/ NameTaken(t)
            \/ \E i \in FreeInodes, f \in FreeFds : Created(t, i, f)
<1>1. PICK l \in Local : l = loc[t]
  BY LocalFacts DEF TypeInv
<1>2. /\ At(t, "create") /\ counter + 1 \in Counter /\ counter' = counter + 1
      /\ loc[t].d \in Data /\ l.tries \in Nat /\ store_header(l.d) \in Seq(Nat)
  BY <1>1, StoreHeaderType DEF fr_tmpfile_create, TypeInv, LocalsOK, LocalOK, At, Local
<1>3. CASE dir.tmp[counter + 1] # 0
  <2> DEFINE m == [l EXCEPT !.tries = l.tries + 1]
  <2>1. m \in Local
    BY <1>2 DEF Local
  <2>2. m.op = l.op /\ m.d = l.d /\ m.off = l.off /\ m.len = l.len /\ m.result = l.result
    BY DEF Local
  <2>3. m.buf = l.buf /\ m.header = l.header /\ m.pc = l.pc /\ m.name = l.name /\ m.fd = l.fd
    BY DEF Local
  <2>4. loc' = [loc EXCEPT ![t] = m] /\ UNCHANGED <<fs, fds>>
    BY <1>1, <1>3 DEF fr_tmpfile_create, TypeInv, TypeOK
  <2>5. Moves(t) /\ loc'[t] = m
    <3> HIDE DEF m
    <3> QED BY <2>1, <2>4, SetMoves DEF TypeInv
  <2>6. QED
    <3> HIDE DEF m
    <3> QED BY <1>1, <1>2, <1>3, <2>2, <2>3, <2>4, <2>5 DEF Keeps, At, NameTaken
<1>4. CASE dir.tmp[counter + 1] = 0
  <2> DEFINE i == Min(FreeInodes)
             f == Min(FreeFds)
             h == store_header(l.d)
  <2>1. i \in FreeInodes /\ f \in FreeFds
    BY <1>4, FreeFacts DEF fr_tmpfile_create
  <2>2. /\ SetDir([dir EXCEPT !.tmp[counter + 1] = i])
        /\ inode' = [inode EXCEPT ![i] = NoInode]
        /\ fds' = [fds EXCEPT ![f] = [inode |-> i, pos |-> 0]]
    BY <1>4 DEF fr_tmpfile_create
  <2> DEFINE m == [l EXCEPT !.name = counter + 1, !.fd = f, !.pc = "header", !.left = h]
  <2>3. loc' = [loc EXCEPT ![t] = m]
    BY <1>1, <1>4 DEF fr_tmpfile_create, TypeInv, TypeOK
  <2>4. f \in Fd
    BY <2>1 DEF FreeFds
  <2> HIDE DEF f, i, h
  <2>5. m \in Local
    BY <1>2, <2>4 DEF Local, Bytes, h
  <2>6. m.op = l.op /\ m.d = l.d /\ m.off = l.off /\ m.len = l.len /\ m.result = l.result
    BY DEF Local
  <2>7. m.buf = l.buf /\ m.header = l.header /\ m.pc = "header" /\ m.name = counter + 1
        /\ m.fd = f /\ m.left = h
    BY DEF Local
  <2>8. Moves(t) /\ loc'[t] = m
    <3> HIDE DEF m
    <3> QED BY <2>3, <2>5, SetMoves DEF TypeInv
  <2>9. QED
    <3> HIDE DEF m
    <3> QED BY <1>1, <1>2, <1>4, <2>1, <2>2, <2>6, <2>7, <2>8 DEF Keeps, At, h, Created
<1>5. QED
  BY <1>3, <1>4

\* A part of the bytes that are left.
LEMMA Tails ==
  ASSUME NEW b \in Seq(Nat), NEW w \in 0 .. Len(b)
  PROVE  /\ SubSeq(b, 1, w) \in Seq(Nat) /\ Len(SubSeq(b, 1, w)) = w
         /\ SubSeq(b, w + 1, Len(b)) \in Seq(Nat) /\ Len(SubSeq(b, w + 1, Len(b))) = Len(b) - w
         /\ SubSeq(b, 1, w) \o SubSeq(b, w + 1, Len(b)) = b
<1>1. Len(b) \in Nat
  BY LenProperties
<1>2. \A i \in 1 .. w : b[i] \in Nat
  BY <1>1
<1>3. \A i \in w + 1 .. Len(b) : b[i] \in Nat
  BY <1>1
<1>4. SubSeq(b, 1, w) \in Seq(Nat) /\ Len(SubSeq(b, 1, w)) = w
  BY <1>1, <1>2, SubSeqProperties
<1>5. SubSeq(b, w + 1, Len(b)) \in Seq(Nat) /\ Len(SubSeq(b, w + 1, Len(b))) = Len(b) - w
  BY <1>1, <1>3, SubSeqProperties
<1>6. SubSeq(b, 1, w) \o SubSeq(b, w + 1, Len(b)) = SubSeq(b, 1, Len(b))
  <2>1. 1 \in 1 .. Len(b) + 1 /\ w \in 1 - 1 .. Len(b) /\ Len(b) \in w .. Len(b)
    BY <1>1
  <2>2. QED
    BY <2>1, ConcatAdjacentSubSeq, Zenon
<1>7. SubSeq(b, 1, Len(b)) = b
  BY SubSeqFull
<1>8. QED
  BY <1>4, <1>5, <1>6, <1>7

LEMMA WriteMoves ==
  ASSUME TypeOK, NEW t \in Thread, fr_fd_write_all(t)
  PROVE  /\ loc[t].pc \in {"header", "data"} /\ Stays(t) /\ loc'[t].pc = loc[t].pc
         /\ \E w \in 1 .. Len(loc[t].left) :
              /\ inode' = [inode EXCEPT ![FdInode(t)] =
                             [bytes |-> @.bytes \o SubSeq(loc[t].left, 1, w), synced |-> FALSE]]
              /\ loc'[t].left = SubSeq(loc[t].left, w + 1, Len(loc[t].left))
<1>1. PICK l \in Local : l = loc[t]
  BY LocalFacts
<1>2. loc[t].pc \in {"header", "data"}
  BY DEF fr_fd_write_all
<1>3. PICK w \in 1 .. Len(l.left) :
       /\ inode' = [inode EXCEPT ![FdInode(t)] =
                      [bytes |-> @.bytes \o SubSeq(l.left, 1, w), synced |-> FALSE]]
       /\ loc' = [loc EXCEPT ![t].left = SubSeq(@, w + 1, Len(@))]
  BY <1>1 DEF fr_fd_write_all, FdInode
<1>4. PICK r \in Seq(Nat) : r = SubSeq(l.left, w + 1, Len(l.left))
  <2>1. l.left \in Seq(Nat) /\ w \in 0 .. Len(l.left)
    BY DEF Local, Bytes
  <2>2. QED
    BY <2>1, Tails
<1> DEFINE m == [l EXCEPT !.left = r]
<1>5. m \in Local
  BY DEF Local, Bytes
<1>6. /\ m.op = l.op /\ m.d = l.d /\ m.off = l.off /\ m.len = l.len /\ m.result = l.result
      /\ m.buf = l.buf /\ m.header = l.header /\ m.pc = l.pc /\ m.name = l.name /\ m.fd = l.fd
      /\ m.want = l.want /\ m.left = r
  BY DEF Local
<1>7. loc' = [loc EXCEPT ![t] = m]
  BY <1>1, <1>3, <1>4 DEF TypeOK
<1>8. Moves(t) /\ loc'[t] = m
  <2> HIDE DEF m
  <2> QED BY <1>5, <1>7, SetMoves
<1>9. QED
  <2> HIDE DEF m
  <2> QED BY <1>1, <1>2, <1>3, <1>4, <1>6, <1>8 DEF Stays, Keeps

LEMMA WrittenMoves ==
  ASSUME TypeInv, NEW t \in Thread, all_written(t)
  PROVE  /\ Stays(t) /\ loc[t].left = <<>>
         /\ \/ loc[t].pc = "header" /\ loc'[t].pc = "data" /\ loc'[t].left = loc[t].d
            \/ loc[t].pc = "data" /\ loc'[t].pc = "fsync"
<1>1. PICK l \in Local : l = loc[t]
  BY LocalFacts DEF TypeInv
<1>2. CASE At(t, "header") /\ loc' = [loc EXCEPT ![t].pc = "data", ![t].left = loc[t].d]
  <2> DEFINE m == [l EXCEPT !.pc = "data", !.left = l.d]
  <2>1. l.d \in Seq(Nat)
    BY <1>1, <1>2, StoreHeaderType DEF TypeInv, LocalsOK, LocalOK, At
  <2>2. m \in Local
    BY <2>1 DEF Local, Bytes
  <2>3. /\ m.op = l.op /\ m.d = l.d /\ m.off = l.off /\ m.len = l.len /\ m.result = l.result
        /\ m.buf = l.buf /\ m.header = l.header /\ m.pc = "data" /\ m.name = l.name
        /\ m.fd = l.fd /\ m.want = l.want /\ m.left = l.d
    BY DEF Local
  <2>4. loc' = [loc EXCEPT ![t] = m]
    BY <1>1, <1>2 DEF TypeInv, TypeOK
  <2>5. Moves(t) /\ loc'[t] = m
    <3> HIDE DEF m
    <3> QED BY <2>2, <2>4, SetMoves DEF TypeInv
  <2>6. QED
    <3> HIDE DEF m
    <3> QED BY <1>1, <1>2, <2>3, <2>5 DEF Stays, Keeps, At, all_written
<1>3. CASE At(t, "data") /\ Goto(t, "fsync")
  BY <1>3, GotoMoves DEF all_written, At, TypeInv, Labels
<1>4. QED
  BY <1>2, <1>3 DEF all_written

LEMMA CloseMoves ==
  ASSUME TypeOK, NEW t \in Thread, close_temp(t)
  PROVE  /\ loc[t].pc = "close" /\ loc'[t].pc = "mkdir" /\ Keeps(t) /\ loc'[t].fd = 0
         /\ loc'[t].name = loc[t].name /\ loc'[t].buf = loc[t].buf /\ loc'[t].header = loc[t].header
<1>1. PICK l \in Local : l = loc[t]
  BY LocalFacts
<1> DEFINE m == [l EXCEPT !.fd = 0, !.pc = "mkdir"]
<1>2. m \in Local
  BY DEF Local
<1>3. /\ m.op = l.op /\ m.d = l.d /\ m.off = l.off /\ m.len = l.len /\ m.result = l.result
      /\ m.buf = l.buf /\ m.header = l.header /\ m.pc = "mkdir" /\ m.name = l.name /\ m.fd = 0
  BY DEF Local
<1>4. loc' = [loc EXCEPT ![t] = m] /\ loc[t].pc = "close"
  BY <1>1 DEF close_temp, TypeOK, At
<1>5. Moves(t) /\ loc'[t] = m
  <2> HIDE DEF m
  <2> QED BY <1>2, <1>4, SetMoves
<1>6. QED
  <2> HIDE DEF m
  <2> QED BY <1>1, <1>3, <1>4, <1>5 DEF Keeps

LEMMA GetMoves ==
  ASSUME TypeOK, NEW t \in Thread, get_range(t)
  PROVE  /\ Begins(t) /\ loc'[t].op = "get" /\ loc'[t].d \in Data
         /\ loc'[t].off \in 0 .. Len(loc'[t].d) + 1
         /\ \/ /\ loc'[t].pc = "idle" /\ loc'[t].fd = 0 /\ loc'[t].result = "failed"
               /\ UNCHANGED fds
            \/ /\ loc'[t].d \in InPlace /\ loc'[t].fd \in FreeFds
               /\ fds' = [fds EXCEPT ![loc'[t].fd] = [inode |-> dir.chunks[loc'[t].d], pos |-> 0]]
               /\ loc'[t].pc = "read_header" /\ loc'[t].want = HeaderSize
               /\ loc'[t].result = "none"
<1>1. PICK d \in Data : \E off \in 0 .. Len(d) + 1, len \in {1, Len(d) + 1} :
       LET call == [Idle EXCEPT !.op = "get", !.d = d, !.off = off, !.len = len] IN
       IF d \in InPlace /\ FreeFds # {}
       THEN LET f == Min(FreeFds) IN
            /\ fds' = [fds EXCEPT ![f] = [inode |-> dir.chunks[d], pos |-> 0]]
            /\ loc' = [loc EXCEPT ![t] = [call EXCEPT !.fd = f, !.want = HeaderSize,
                                                     !.pc = "read_header"]]
       ELSE /\ loc' = [loc EXCEPT ![t] = [call EXCEPT !.result = "failed"]]
            /\ UNCHANGED fds
  BY DEF get_range
<1>2. PICK off \in 0 .. Len(d) + 1, len \in {1, Len(d) + 1} :
       LET call == [Idle EXCEPT !.op = "get", !.d = d, !.off = off, !.len = len] IN
       IF d \in InPlace /\ FreeFds # {}
       THEN LET f == Min(FreeFds) IN
            /\ fds' = [fds EXCEPT ![f] = [inode |-> dir.chunks[d], pos |-> 0]]
            /\ loc' = [loc EXCEPT ![t] = [call EXCEPT !.fd = f, !.want = HeaderSize,
                                                     !.pc = "read_header"]]
       ELSE /\ loc' = [loc EXCEPT ![t] = [call EXCEPT !.result = "failed"]]
            /\ UNCHANGED fds
  BY <1>1
<1>3. d \in Seq(Nat) /\ Len(d) \in Nat /\ off \in Nat /\ len \in Nat
  BY ChunkFileAssumption, LenProperties
<1>4. PICK i \in Local : i = Idle
  BY IdleType
<1>5. i.pc = "idle" /\ i.name = 0 /\ i.fd = 0 /\ i.result = "none" /\ i.buf = <<>> /\ i.header = <<>>
  BY <1>4, IdleFields
<1> DEFINE call == [i EXCEPT !.op = "get", !.d = d, !.off = off, !.len = len]
<1>6. call \in Local
  BY <1>3 DEF Local
<1>7. call.op = "get" /\ call.d = d /\ call.off = off /\ call.len = len /\ call.pc = i.pc
      /\ call.name = i.name /\ call.fd = i.fd /\ call.buf = i.buf /\ call.result = i.result
      /\ call.header = i.header
  BY DEF Local
<1>8. loc[t].pc = "idle"
  BY DEF get_range, MayStart, At
<1>9. CASE d \in InPlace /\ FreeFds # {}
  <2>1. PICK f \in FreeFds : f = Min(FreeFds)
    BY <1>9, FreeFacts
  <2> DEFINE m == [call EXCEPT !.fd = f, !.want = HeaderSize, !.pc = "read_header"]
  <2>2. loc' = [loc EXCEPT ![t] = m] /\ fds' = [fds EXCEPT ![f] = [inode |-> dir.chunks[d], pos |-> 0]]
    BY <1>2, <1>4, <1>9, <2>1
  <2> HIDE DEF call
  <2>3. m \in Local
    BY ZenonT(60), <1>6, <2>1 DEF Local, FreeFds, HeaderSize
  <2>4. /\ m.op = call.op /\ m.d = call.d /\ m.off = call.off /\ m.len = call.len
        /\ m.pc = "read_header" /\ m.name = call.name /\ m.fd = f /\ m.buf = call.buf
        /\ m.result = call.result /\ m.header = call.header /\ m.want = HeaderSize
    BY <1>6 DEF Local
  <2>5. Moves(t) /\ loc'[t] = m
    <3> HIDE DEF m
    <3> QED BY <2>2, <2>3, SetMoves
  <2>6. QED
    <3> HIDE DEF m
    <3> QED BY <1>5, <1>7, <1>8, <1>9, <2>1, <2>2, <2>4, <2>5 DEF Begins
<1>10. CASE ~ (d \in InPlace /\ FreeFds # {})
  <2> DEFINE m == [call EXCEPT !.result = "failed"]
  <2>1. loc' = [loc EXCEPT ![t] = m] /\ UNCHANGED fds
    BY <1>2, <1>4, <1>10
  <2> HIDE DEF call
  <2>2. m \in Local
    BY <1>6 DEF Local
  <2>3. /\ m.op = call.op /\ m.d = call.d /\ m.off = call.off /\ m.len = call.len
        /\ m.pc = call.pc /\ m.name = call.name /\ m.fd = call.fd /\ m.buf = call.buf
        /\ m.result = "failed" /\ m.header = call.header
    BY <1>6 DEF Local
  <2>4. Moves(t) /\ loc'[t] = m
    <3> HIDE DEF m
    <3> QED BY <2>1, <2>2, SetMoves
  <2>5. QED
    <3> HIDE DEF m
    <3> QED BY <1>5, <1>7, <1>8, <2>1, <2>3, <2>4 DEF Begins
<1>11. QED
  BY <1>9, <1>10

LEMMA RestType ==
  ASSUME TypeOK, NEW t \in Thread, loc[t].fd \in Fd, FdInode(t) \in Inode
  PROVE  /\ inode[FdInode(t)].bytes \in Seq(Nat) /\ fds[loc[t].fd].pos \in Nat
         /\ Rest(t) \in Seq(Nat)
<1>1. inode[FdInode(t)].bytes \in Seq(Nat) /\ fds[loc[t].fd].pos \in Nat
  BY DEF TypeOK, Bytes
<1> DEFINE b == inode[FdInode(t)].bytes
           p == fds[loc[t].fd].pos
<1>2. SubSeq(b, p + 1, Len(b)) \in Seq(Nat)
  <2> HIDE DEF b, p
  <2>1. b \in Seq(Nat) /\ p \in Nat /\ Len(b) \in Nat
    BY <1>1 DEF b, p
  <2>2. \A k \in p + 1 .. Len(b) : b[k] \in Nat
    BY <2>1
  <2>3. QED
    BY <2>1, <2>2, SubSeqProperties
<1>3. QED
  BY <1>1, <1>2 DEF Rest, FdInode

LEMMA ReadMoves ==
  ASSUME TypeOK, NEW t \in Thread, fr_fd_read_full(t), loc[t].fd \in Fd, FdInode(t) \in Inode
  PROVE  /\ loc[t].pc \in Reading /\ loc'[t].pc = loc[t].pc /\ Keeps(t)
         /\ loc'[t].name = loc[t].name /\ loc'[t].fd = loc[t].fd
         /\ \E n \in 1 .. loc[t].want :
              /\ n <= Len(Rest(t)) /\ Len(SubSeq(Rest(t), 1, n)) = n
              /\ SubSeq(Rest(t), 1, n) \in Seq(Nat)
              /\ loc'[t].want = loc[t].want - n
              /\ fds' = [fds EXCEPT ![loc[t].fd].pos = @ + n]
              /\ \/ /\ loc[t].pc = "read_header" /\ loc'[t].buf = loc[t].buf
                    /\ loc'[t].header = loc[t].header \o SubSeq(Rest(t), 1, n)
                 \/ /\ loc[t].pc = "read_data" /\ loc'[t].header = loc[t].header
                    /\ loc'[t].buf = loc[t].buf \o SubSeq(Rest(t), 1, n)
<1>1. PICK l \in Local : l = loc[t]
  BY LocalFacts
<1>2. l.want \in Nat /\ l.header \in Seq(Nat) /\ l.buf \in Seq(Nat) /\ Rest(t) \in Seq(Nat)
      /\ Len(Rest(t)) \in Nat
  BY RestType, LenProperties DEF Local, Bytes
<1>3. PICK n \in 1 .. Smaller(l.want, Len(Rest(t))) : Taken(t, n)
  BY <1>1 DEF fr_fd_read_full
<1>4. n \in 1 .. l.want /\ n <= Len(Rest(t)) /\ n \in 0 .. Len(Rest(t))
  BY <1>2, <1>3 DEF Smaller
<1>5. PICK r \in Seq(Nat) : r = SubSeq(Rest(t), 1, n) /\ Len(r) = n
  BY <1>2, <1>4, Tails
<1>6. l.header \o r \in Seq(Nat) /\ l.buf \o r \in Seq(Nat)
  BY <1>2, <1>5, ConcatProperties
<1>7. l.pc \in Reading
  BY <1>1 DEF fr_fd_read_full, Reading
<1> DEFINE h == IF l.pc = "read_header" THEN l.header \o r ELSE l.header
           b == IF l.pc = "read_data" THEN l.buf \o r ELSE l.buf
           w == l.want - n
           m == [l EXCEPT !.want = w, !.header = h, !.buf = b]
<1>8. h \in Seq(Nat) /\ b \in Seq(Nat) /\ w \in Nat
  BY <1>2, <1>4, <1>6
<1>9. loc' = [loc EXCEPT ![t] = m] /\ fds' = [fds EXCEPT ![loc[t].fd].pos = @ + n]
  BY <1>1, <1>3, <1>5 DEF Taken, At, TypeOK
<1> HIDE DEF h, b, w
<1>10. m \in Local
  BY <1>8 DEF Local, Bytes
<1>11. /\ m.op = l.op /\ m.d = l.d /\ m.off = l.off /\ m.len = l.len /\ m.result = l.result
       /\ m.buf = b /\ m.header = h /\ m.pc = l.pc /\ m.name = l.name /\ m.fd = l.fd /\ m.want = w
  BY DEF Local
<1>12. Moves(t) /\ loc'[t] = m
  <2> HIDE DEF m
  <2> QED BY <1>9, <1>10, SetMoves
<1>13. QED
  <2> HIDE DEF m
  <2> QED BY <1>1, <1>4, <1>5, <1>7, <1>9, <1>11, <1>12 DEF Keeps, h, b, w, Reading

LEMMA SeekMoves ==
  ASSUME TypeInv, NEW t \in Thread, seek_data(t)
  PROVE  /\ loc[t].pc = "read_header" /\ loc[t].want = 0 /\ HeaderOK(loc[t].header)
         /\ \/ loc[t].off > loc[t].header[2] /\ CloseFd(t) /\ Over(t, "range")
            \/ /\ loc[t].off <= loc[t].header[2] /\ loc'[t].pc = "read_data" /\ Keeps(t)
               /\ loc'[t].name = loc[t].name /\ loc'[t].fd = loc[t].fd
               /\ loc'[t].buf = loc[t].buf /\ loc'[t].header = loc[t].header
               /\ loc'[t].want = Smaller(loc[t].len, loc[t].header[2] - loc[t].off)
               /\ fds' = [fds EXCEPT ![loc[t].fd].pos = loc[t].off + HeaderSize]
<1>1. PICK l \in Local : l = loc[t]
  BY LocalFacts DEF TypeInv
<1>2. l.pc = "read_header" /\ l.want = 0 /\ HeaderOK(l.header)
  BY <1>1 DEF seek_data, At
<1>3. l.header \in Seq(Nat) /\ l.off \in Nat /\ l.len \in Nat
  BY DEF Local, Bytes
<1>4. Len(l.header) = 4
  <2>1. LocalOK(l)
    BY <1>1 DEF TypeInv, LocalsOK
  <2>2. Len(l.header) + 0 = 4 /\ Len(l.header) \in Nat
    BY <1>2, <1>3, <2>1, LenProperties DEF LocalOK, HeaderSize
  <2>3. QED
    BY <2>2
<1>5. l.header[2] \in Nat
  BY <1>3, <1>4, ElementOfSeq
<1>6. CASE l.off > l.header[2]
  BY <1>1, <1>2, <1>6, EndsOver DEF seek_data, TypeInv, Results
<1>7. CASE l.off <= l.header[2]
  <2> DEFINE w == Smaller(l.len, l.header[2] - l.off)
             m == [l EXCEPT !.want = w, !.pc = "read_data"]
  <2>1. w \in Nat
    BY <1>3, <1>5, <1>7 DEF Smaller
  <2>2. /\ loc' = [loc EXCEPT ![t] = m]
        /\ fds' = [fds EXCEPT ![loc[t].fd].pos = loc[t].off + HeaderSize]
    <3>1. ~ (loc[t].off > loc[t].header[2])
      BY <1>1, <1>3, <1>5, <1>7
    <3>2. /\ fds' = [fds EXCEPT ![loc[t].fd].pos = loc[t].off + HeaderSize]
          /\ loc' = [loc EXCEPT ![t].want = w, ![t].pc = "read_data"]
      BY <1>1, <3>1 DEF seek_data
    <3> HIDE DEF w
    <3>3. QED
      BY <1>1, <3>2 DEF TypeInv, TypeOK
  <2> HIDE DEF w
  <2>3. m \in Local
    BY <2>1 DEF Local
  <2>4. /\ m.op = l.op /\ m.d = l.d /\ m.off = l.off /\ m.len = l.len /\ m.result = l.result
        /\ m.buf = l.buf /\ m.header = l.header /\ m.pc = "read_data" /\ m.name = l.name
        /\ m.fd = l.fd /\ m.want = w
    BY DEF Local
  <2>5. Moves(t) /\ loc'[t] = m
    <3> HIDE DEF m
    <3> QED BY <2>2, <2>3, SetMoves DEF TypeInv
  <2>6. QED
    <3> HIDE DEF m
    <3> QED BY <1>1, <1>2, <1>7, <2>2, <2>4, <2>5 DEF Keeps, w
<1>8. QED
  BY <1>3, <1>5, <1>6, <1>7

LEMMA RemoveMoves ==
  ASSUME TypeOK, NEW t \in Thread, remove(t)
  PROVE  /\ Begins(t) /\ loc'[t].op = "remove" /\ loc'[t].fd = 0 /\ loc'[t].pc = "idle"
         /\ \/ UNCHANGED <<dir, survives, acked>>
            \/ \E d \in Data : SetDir([dir EXCEPT !.chunks[d] = 0]) /\ acked' = acked \ {d}
<1>1. PICK d \in Data :
       \/ /\ SetDir([dir EXCEPT !.chunks[d] = 0])
          /\ acked' = acked \ {d}
          /\ loc' = [loc EXCEPT ![t] = [Idle EXCEPT !.op = "remove", !.d = d, !.result = "ok"]]
       \/ /\ loc' = [loc EXCEPT ![t] = [Idle EXCEPT !.op = "remove", !.d = d, !.result = "failed"]]
          /\ UNCHANGED <<dir, survives, acked>>
  BY DEF remove
<1>2. PICK i \in Local : i = Idle
  BY IdleType
<1>3. i.pc = "idle" /\ i.name = 0 /\ i.fd = 0 /\ i.result = "none" /\ i.buf = <<>> /\ i.header = <<>>
  BY <1>2, IdleFields
<1>4. PICK r \in {"ok", "failed"} :
        loc' = [loc EXCEPT ![t] = [i EXCEPT !.op = "remove", !.d = d, !.result = r]]
  BY <1>1, <1>2
<1> DEFINE m == [i EXCEPT !.op = "remove", !.d = d, !.result = r]
<1>5. m \in Local
  BY ZenonT(60) DEF Local
<1>6. m.op = "remove" /\ m.pc = i.pc /\ m.name = i.name /\ m.fd = i.fd /\ m.buf = i.buf
      /\ m.header = i.header
  BY DEF Local
<1>7. Moves(t) /\ loc'[t] = m
  <2> HIDE DEF m
  <2>1. loc' = [loc EXCEPT ![t] = m]
    BY <1>4 DEF m
  <2> QED BY <2>1, <1>5, SetMoves
<1>8. loc[t].pc = "idle"
  BY DEF remove, MayStart, At
<1>9. QED
  <2> HIDE DEF m
  <2> QED BY <1>1, <1>3, <1>6, <1>7, <1>8 DEF Begins

LEMMA CleanupMoves ==
  ASSUME TypeOK, NEW t \in Thread, cleanup_temp_files(t)
  PROVE  Begins(t) /\ loc'[t].op = "cleanup" /\ loc'[t].fd = 0 /\ loc'[t].pc = "cleanup"
         /\ loc'[t].result = "none"
<1>2. PICK i \in Local : i = Idle
  BY IdleType
<1>3. i.pc = "idle" /\ i.name = 0 /\ i.fd = 0 /\ i.result = "none" /\ i.buf = <<>> /\ i.header = <<>>
  BY <1>2, IdleFields
<1>4. PICK s \in SUBSET Counter : s = Leftovers
  BY DEF Leftovers
<1> DEFINE m == [i EXCEPT !.op = "cleanup", !.pc = "cleanup", !.seen = s]
<1>5. m \in Local
  BY ZenonT(60) DEF Local
<1>6. m.op = "cleanup" /\ m.pc = "cleanup" /\ m.name = i.name /\ m.fd = i.fd /\ m.buf = i.buf
      /\ m.header = i.header /\ m.result = i.result
  BY DEF Local
<1>7. loc' = [loc EXCEPT ![t] = m] /\ loc[t].pc = "idle"
  BY <1>2, <1>4 DEF cleanup_temp_files, MayStart, At
<1>8. Moves(t) /\ loc'[t] = m
  <2> HIDE DEF m
  <2> QED BY <1>5, <1>7, SetMoves
<1>9. QED
  <2> HIDE DEF m
  <2> QED BY <1>3, <1>6, <1>7, <1>8 DEF Begins

LEMMA CleanupOneMoves ==
  ASSUME TypeOK, NEW t \in Thread, cleanup_one(t)
  PROVE  /\ Stays(t) /\ loc[t].pc = "cleanup" /\ loc'[t].pc = "cleanup"
         /\ \E n \in Leftovers : SetDir(WithoutTemp(n))
<1>1. PICK l \in Local : l = loc[t]
  BY LocalFacts
<1>2. PICK n \in Leftovers : SetDir(WithoutTemp(n)) /\ loc' = [loc EXCEPT ![t].seen = @ \ {n}]
  BY DEF cleanup_one
<1>3. PICK s \in SUBSET Counter : s = l.seen \ {n}
  BY DEF Local
<1> DEFINE m == [l EXCEPT !.seen = s]
<1>4. m \in Local
  BY DEF Local
<1>5. /\ m.op = l.op /\ m.d = l.d /\ m.off = l.off /\ m.len = l.len /\ m.result = l.result
      /\ m.buf = l.buf /\ m.header = l.header /\ m.pc = l.pc /\ m.name = l.name /\ m.fd = l.fd
      /\ m.want = l.want
  BY DEF Local
<1>6. loc' = [loc EXCEPT ![t] = m] /\ l.pc = "cleanup"
  BY <1>1, <1>2, <1>3 DEF TypeOK, cleanup_one, At
<1>7. Moves(t) /\ loc'[t] = m
  <2> HIDE DEF m
  <2> QED BY <1>4, <1>6, SetMoves
<1>8. QED
  <2> HIDE DEF m
  <2> QED BY <1>1, <1>2, <1>5, <1>6, <1>7 DEF Stays, Keeps
-----------------------------------------------------------------------------
(* Types, and who owns which name and which descriptor.                    *)

InodeType == [Inode -> [bytes : Seq(Nat), synced : BOOLEAN]]
FdsType == [Fd -> [inode : {0} \cup Inode, pos : Nat]]
BoundType == [crashes : 0 .. MaxCrashes, rot : 0 .. MaxRot, ops : 0 .. MaxOps]

LEMMA StateFacts ==
  ASSUME TypeOK
  PROVE  /\ dir \in Directory /\ dir \in survives /\ \A dr \in survives : dr \in Directory
         /\ inode \in InodeType /\ fds \in FdsType /\ counter \in {0} \cup Counter
         /\ acked \subseteq Data /\ bound \in BoundType
         /\ Inode \subseteq Nat /\ 0 \notin Inode /\ Fd \subseteq Nat /\ 0 \notin Fd
         /\ Counter \subseteq Nat /\ 0 \notin Counter /\ counter \in Nat
<1>1. /\ dir \in Directory /\ dir \in survives /\ \A dr \in survives : dr \in Directory
      /\ inode \in InodeType /\ fds \in FdsType /\ counter \in {0} \cup Counter
      /\ acked \subseteq Data /\ bound \in BoundType
  BY DEF TypeOK, InodeType, FdsType, BoundType, Bytes
<1>2. Inode \subseteq Nat /\ 0 \notin Inode /\ Fd \subseteq Nat /\ 0 \notin Fd
  BY ChunkFileAssumption DEF Nat1
<1>3. Counter \subseteq Nat /\ 0 \notin Counter
  <2>1. Cardinality(Counter) \in Nat /\ Counter = 1 .. Cardinality(Counter)
    BY ChunkFileAssumption, FS_CardinalityType
  <2>2. PICK k \in Nat : Counter = 1 .. k
    BY <2>1
  <2>3. QED
    BY <2>2
<1>4. QED
  BY <1>1, <1>2, <1>3

DirStep == dir' \in Directory /\ survives' = survives \cup {dir'}
FdsStep(t) ==
  /\ fds' \in FdsType
  /\ \A f \in Fd : f # loc[t].fd /\ f # loc'[t].fd => fds'[f] = fds[f]
  /\ loc'[t].fd # 0 => fds'[loc'[t].fd].inode # 0

LEMMA NoDirStep == ASSUME TypeOK, UNCHANGED <<dir, survives>> PROVE DirStep
BY DEF TypeOK, DirStep

LEMMA WithoutTempStep ==
  ASSUME TypeOK, NEW n \in {0} \cup Counter, SetDir(WithoutTemp(n))
  PROVE  /\ DirStep /\ dir'.chunks = dir.chunks
         /\ \A m \in Counter : dir'.tmp[m] = IF m = n THEN 0 ELSE dir.tmp[m]
BY StateFacts DEF SetDir, WithoutTemp, DirStep, Directory

LEMMA NewTempStep ==
  ASSUME TypeOK, NEW n \in Counter, NEW i \in Inode, SetDir([dir EXCEPT !.tmp[n] = i])
  PROVE  /\ DirStep /\ dir'.chunks = dir.chunks
         /\ \A m \in Counter : dir'.tmp[m] = IF m = n THEN i ELSE dir.tmp[m]
BY StateFacts DEF SetDir, DirStep, Directory

LEMMA RemovedStep ==
  ASSUME TypeOK, NEW d \in Data, SetDir([dir EXCEPT !.chunks[d] = 0])
  PROVE  /\ DirStep /\ dir'.tmp = dir.tmp
         /\ \A e \in Data : dir'.chunks[e] = IF e = d THEN 0 ELSE dir.chunks[e]
BY StateFacts DEF SetDir, DirStep, Directory

LEMMA RenamedStep ==
  ASSUME TypeOK, NEW d \in Data, NEW n \in Counter,
         SetDir([dir EXCEPT !.chunks[d] = dir.tmp[n], !.tmp[n] = 0])
  PROVE  /\ DirStep
         /\ \A e \in Data : dir'.chunks[e] = IF e = d THEN dir.tmp[n] ELSE dir.chunks[e]
         /\ \A m \in Counter : dir'.tmp[m] = IF m = n THEN 0 ELSE dir.tmp[m]
BY StateFacts DEF SetDir, DirStep, Directory

LEMMA ThreadStep ==
  ASSUME TypeInv, NEW t \in Thread, Moves(t), LocalOK(loc'[t]),
         \/ loc'[t].name \in {0, loc[t].name}
         \/ loc'[t].name = counter' /\ counter' = counter + 1,
         \/ loc'[t].fd \in {0, loc[t].fd}
         \/ loc'[t].fd \in FreeFds,
         FdsStep(t), DirStep, counter' \in {counter, counter + 1}, counter' \in {0} \cup Counter,
         inode' \in InodeType, acked' \subseteq Data, bound' \in BoundType
  PROVE  TypeInv'
<1>1. TypeOK'
  BY StateFacts DEF TypeInv, TypeOK, Moves, FdsStep, DirStep, InodeType, FdsType, BoundType, Bytes
<1>2. LocalsOK'
  BY DEF TypeInv, LocalsOK, Moves
<1>3. /\ \A u \in Thread : loc[u].name \in Nat /\ loc[u].name <= counter
      /\ \A u \in Thread : loc[u].fd \in {0} \cup Fd
      /\ counter \in Nat /\ counter' \in Nat
      /\ loc'[t].name \in Nat /\ loc'[t].fd \in {0} \cup Fd
  <2>1. \A u \in Thread : loc[u].name \in {0} \cup Counter /\ loc[u].fd \in {0} \cup Fd
    BY LocalFacts DEF TypeInv
  <2>2. loc'[t].name \in {0} \cup Counter /\ loc'[t].fd \in {0} \cup Fd
    BY DEF Moves, Local
  <2>3. Counter \subseteq Nat /\ counter \in Nat
    BY StateFacts DEF TypeInv
  <2>4. counter' \in Nat
    BY <2>3
  <2>5. \A u \in Thread : loc[u].name <= counter
    BY DEF TypeInv, Exclusive
  <2>6. \A n \in {0} \cup Counter : n \in Nat
    <3>1. 0 \in Nat
      OBVIOUS
    <3>2. QED
      BY <2>3, <3>1, Zenon
  <2>7. QED
    BY <2>1, <2>2, <2>3, <2>4, <2>5, <2>6
<1>4. \A u \in Thread : loc[u].fd # 0 => loc[u].fd \notin FreeFds
  <2>1. \A f \in Fd : fds[f] = Closed => fds[f].inode = 0
    BY DEF Closed
  <2>2. \A u \in Thread : loc[u].fd # 0 => fds[loc[u].fd].inode # 0
    BY DEF TypeInv, Exclusive, FdInode
  <2>3. QED
    BY <1>3, <2>1, <2>2 DEF FreeFds
<1>5. \A u \in Thread : loc'[u].name <= counter'
  BY <1>3 DEF Moves
<1>6. \A u \in Thread : u # t => loc'[u].fd = loc[u].fd /\ loc'[u].name = loc[u].name
  BY DEF Moves
<1>7. \A u \in Thread : u # t /\ loc[u].fd # 0 => loc[u].fd # loc[t].fd /\ loc[u].fd # loc'[t].fd
  BY <1>3, <1>4 DEF TypeInv, Exclusive
<1>8. \A u \in Thread : u # t /\ loc[u].name # 0 => loc[u].name # loc'[t].name
  BY <1>3 DEF TypeInv, Exclusive
<1>9. \A u \in Thread : loc'[u].fd # 0 => fds'[loc'[u].fd].inode # 0
  BY <1>3, <1>6, <1>7 DEF FdsStep, TypeInv, Exclusive, FdInode
<1>10. Exclusive'
  BY <1>5, <1>6, <1>7, <1>8, <1>9 DEF Exclusive, FdInode, TypeInv
<1>11. QED
  BY <1>1, <1>2, <1>10 DEF TypeInv

LEMMA OwnFacts ==
  ASSUME TypeInv, NEW t \in Thread
  PROVE  /\ LocalOK(loc[t]) /\ loc[t].fd \in {0} \cup Fd /\ loc[t].name \in {0} \cup Counter
         /\ loc[t].pc \in Writing \cup Reading => loc[t].fd \in Fd /\ FdInode(t) \in Inode
         /\ loc[t].pc \in Writing \cup Ready \cup {"raced"} => loc[t].name \in Counter
<1>1. LocalOK(loc[t]) /\ loc[t].fd \in {0} \cup Fd /\ loc[t].name \in {0} \cup Counter
  BY LocalFacts DEF TypeInv, LocalsOK
<1>2. loc[t].pc \in Writing \cup Ready \cup {"raced"} => loc[t].name \in Counter
  BY <1>1 DEF LocalOK
<1>3. ASSUME loc[t].pc \in Writing \cup Reading
      PROVE  loc[t].fd \in Fd /\ FdInode(t) \in Inode
  <2>1. loc[t].fd # 0 /\ loc[t].fd \in Fd
    BY <1>1, <1>3 DEF LocalOK
  <2>2. FdInode(t) # 0
    BY <2>1 DEF TypeInv, Exclusive
  <2>3. FdInode(t) \in {0} \cup Inode
    BY <2>1, StateFacts DEF TypeInv, FdsType, FdInode
  <2>4. QED
    BY <2>1, <2>2, <2>3
<1>4. QED
  BY <1>1, <1>2, <1>3

LEMMA CloseStep ==
  ASSUME TypeInv, NEW t \in Thread, CloseFd(t), loc'[t].fd = 0
  PROVE  /\ FdsStep(t)
         /\ loc[t].fd # 0 => fds'[loc[t].fd] = Closed
<1>1. loc[t].fd \in {0} \cup Fd /\ fds \in FdsType
  BY OwnFacts, StateFacts DEF TypeInv
<1>2. Closed \in [inode : {0} \cup Inode, pos : Nat]
  BY DEF Closed
<1>3. QED
  BY <1>1, <1>2 DEF CloseFd, FdsStep, FdsType

LEMMA NoFdsStep ==
  ASSUME TypeInv, NEW t \in Thread, UNCHANGED fds, loc'[t].fd \in {0, loc[t].fd}
  PROVE  FdsStep(t)
<1>1. fds \in FdsType
  BY StateFacts DEF TypeInv
<1>2. loc[t].fd # 0 => fds[loc[t].fd].inode # 0
  BY DEF TypeInv, Exclusive, FdInode
<1>3. QED
  BY <1>1, <1>2 DEF FdsStep

LEMMA CountsType ==
  ASSUME TypeOK, NEW t \in Thread, MayStart(t), Counts
  PROVE  bound' \in BoundType /\ bound'.crashes = bound.crashes /\ bound'.rot = bound.rot
BY StateFacts, ChunkFileAssumption DEF Counts, MayStart, BoundType

LEMMA OverOK ==
  ASSUME NEW t \in Thread, NEW r, Over(t, r)
  PROVE  LocalOK(loc'[t])
BY DEF Over, LocalOK, Writing, Reading, Ready

\* A call that is over has freed its descriptor.
LEMMA OverStep ==
  ASSUME TypeInv, NEW t \in Thread, NEW r, Over(t, r), CloseFd(t) \/ UNCHANGED fds, DirStep,
         UNCHANGED <<counter, inode, bound>>, acked' \in {acked, acked \cup {loc[t].d}},
         acked' # acked => loc[t].d \in Data
  PROVE  TypeInv'
<1>1. FdsStep(t)
  BY CloseStep, NoFdsStep DEF Over
<1>2. acked' \subseteq Data
  BY StateFacts DEF TypeInv
<1>3. Moves(t) /\ loc'[t].name = 0 /\ loc'[t].fd = 0
  BY DEF Over
<1>4. inode' \in InodeType /\ bound' \in BoundType /\ counter' \in {0} \cup Counter
      /\ counter' \in {counter, counter + 1}
  BY StateFacts DEF TypeInv
<1>5. QED
  BY <1>1, <1>2, <1>3, <1>4, OverOK, ThreadStep

\* A call that goes on with its descriptor and its temporary file.
LEMMA StayStep ==
  ASSUME TypeInv, NEW t \in Thread, Moves(t), LocalOK(loc'[t]), loc'[t].name = loc[t].name,
         loc'[t].fd = loc[t].fd, UNCHANGED <<counter, acked, bound>>, DirStep,
         inode' \in InodeType, FdsStep(t)
  PROVE  TypeInv'
<1>1. acked' \subseteq Data /\ bound' \in BoundType /\ counter' \in {0} \cup Counter
      /\ counter' \in {counter, counter + 1}
  BY StateFacts DEF TypeInv
<1>2. QED
  BY <1>1, ThreadStep

LEMMA BeginStep ==
  ASSUME TypeInv, NEW t \in Thread, Begins(t), LocalOK(loc'[t]), MayStart(t), Counts, DirStep,
         UNCHANGED <<counter, inode>>, acked' \subseteq Data, FdsStep(t),
         loc'[t].fd = 0 \/ loc'[t].fd \in FreeFds
  PROVE  TypeInv'
<1>1. inode' \in InodeType /\ counter' \in {0} \cup Counter /\ counter' \in {counter, counter + 1}
  BY StateFacts DEF TypeInv
<1>2. bound' \in BoundType
  BY CountsType DEF TypeInv
<1>3. Moves(t) /\ loc'[t].name = 0
  BY DEF Begins
<1>4. QED
  BY <1>1, <1>2, <1>3, ThreadStep

LEMMA PutCallType ==
  ASSUME TypeInv, NEW t \in Thread,
         \/ put(t) \/ fr_tmpfile_create(t) \/ create_fails(t) \/ fr_fd_write_all(t)
         \/ all_written(t) \/ fr_fd_fsync(t) \/ close_temp(t) \/ put_fails(t)
         \/ fr_dir_create_all(t) \/ target_exists(t) \/ rename_into_place(t) \/ rename_fails(t)
         \/ raced(t)
  PROVE  TypeInv'
<1> USE OwnFacts, StateFacts DEF TypeInv
<1>1. CASE put(t)
  <2>1. LocalOK(loc'[t])
    BY <1>1, PutMoves DEF LocalOK, Begins, Writing, Reading, Ready
  <2>2. FdsStep(t)
    BY <1>1, PutMoves, NoFdsStep DEF put
  <2>3. acked' \subseteq Data
    BY <1>1, PutMoves
  <2>4. DirStep /\ MayStart(t) /\ Counts /\ UNCHANGED <<counter, inode>>
    BY <1>1, NoDirStep DEF put
  <2>5. QED
    BY <1>1, <2>1, <2>2, <2>3, <2>4, PutMoves, BeginStep
<1>2. CASE fr_tmpfile_create(t)
  <2>a. /\ counter' = counter + 1 /\ counter' \in Counter /\ loc[t].pc = "create" /\ Keeps(t)
        /\ loc[t].d \in Data
    BY <1>2, CreateMoves
  <2>b. UNCHANGED <<acked, bound>> /\ loc[t].name = 0 /\ loc[t].fd = 0 /\ loc[t].result = "none"
    BY <1>2, <2>a DEF fr_tmpfile_create, LocalOK, Writing, Reading, Ready
  <2>1. CASE NameTaken(t)
    <3>1. FdsStep(t) /\ DirStep
      BY <2>1, NoFdsStep, NoDirStep DEF NameTaken
    <3>2. LocalOK(loc'[t])
      BY <2>1, <2>a, <2>b DEF NameTaken, LocalOK, Keeps, Writing, Reading, Ready
    <3>3. inode' \in InodeType /\ acked' \subseteq Data /\ bound' \in BoundType
      BY <2>1, <2>b DEF NameTaken
    <3>4. QED
      BY <2>1, <2>a, <2>b, <3>1, <3>2, <3>3, ThreadStep DEF Keeps, NameTaken
  <2>2. ASSUME NEW i \in FreeInodes, NEW f \in FreeFds, Created(t, i, f)
        PROVE  TypeInv'
    <3> USE DEF Created
    <3>1. i \in Inode /\ f \in Fd /\ i # 0
      BY DEF FreeInodes, FreeFds
    <3>2. DirStep
      BY <2>2, <2>a, <3>1, NewTempStep
    <3>3. FdsStep(t)
      BY <2>2, <3>1 DEF FdsStep, FdsType
    <3>4. LocalOK(loc'[t])
      BY <2>2, <2>a, <2>b, <3>1 DEF LocalOK, Keeps, Writing, Reading, Ready
    <3>5. inode' \in InodeType
      BY <2>2, <3>1, EmptySeq DEF InodeType, NoInode
    <3>6. acked' \subseteq Data /\ bound' \in BoundType
      BY <2>b
    <3>7. QED
      BY <2>2, <2>a, <3>2, <3>3, <3>4, <3>5, <3>6, ThreadStep DEF Keeps
  <2>3. QED
    BY <1>2, <2>1, <2>2, CreateMoves
<1>3. CASE create_fails(t)
  BY <1>3, EndsOver, NoDirStep, OverStep DEF create_fails, Results
<1>4. CASE fr_fd_write_all(t)
  <2>1. PICK w \in 1 .. Len(loc[t].left) :
          inode' = [inode EXCEPT ![FdInode(t)] =
                      [bytes |-> @.bytes \o SubSeq(loc[t].left, 1, w), synced |-> FALSE]]
    BY <1>4, WriteMoves
  <2>2. loc[t].pc \in Writing /\ Stays(t) /\ loc'[t].pc = loc[t].pc
    BY <1>4, WriteMoves DEF Writing
  <2>3. FdInode(t) \in Inode /\ inode[FdInode(t)].bytes \in Seq(Nat)
    <3>1. FdInode(t) \in Inode
      BY <2>2
    <3>2. QED
      BY <3>1 DEF InodeType
  <2>4. loc[t].left \in Seq(Nat) /\ w \in 0 .. Len(loc[t].left)
    BY LocalFacts
  <2>5. inode[FdInode(t)].bytes \o SubSeq(loc[t].left, 1, w) \in Seq(Nat)
    BY <2>3, <2>4, Tails, ConcatProperties
  <2>6. inode' \in InodeType
    BY <2>1, <2>3, <2>5 DEF InodeType
  <2>7. FdsStep(t) /\ DirStep /\ UNCHANGED <<counter, acked, bound>>
    BY <1>4, <2>2, NoFdsStep, NoDirStep DEF fr_fd_write_all, Stays
  <2>8. LocalOK(loc'[t])
    BY <2>2 DEF LocalOK, Stays, Keeps, Writing
  <2>9. QED
    BY <2>2, <2>6, <2>7, <2>8, StayStep DEF Stays, Keeps
<1>5. CASE all_written(t)
  <2>1. Stays(t) /\ loc[t].pc \in {"header", "data"} /\ loc'[t].pc \in {"data", "fsync"}
    BY <1>5, WrittenMoves
  <2>2. LocalOK(loc'[t])
    BY <2>1 DEF LocalOK, Stays, Keeps, Writing, Reading, Ready
  <2>3. FdsStep(t) /\ DirStep /\ UNCHANGED <<counter, acked, bound>> /\ inode' \in InodeType
    BY <1>5, <2>1, NoFdsStep, NoDirStep DEF all_written, Stays
  <2>4. QED
    BY <2>1, <2>2, <2>3, StayStep DEF Stays, Keeps
<1>6. CASE fr_fd_fsync(t)
  <2>1. Stays(t) /\ loc[t].pc = "fsync" /\ loc'[t].pc = "close"
    BY <1>6, GotoMoves DEF fr_fd_fsync, At, Labels
  <2>2. LocalOK(loc'[t])
    BY <2>1 DEF LocalOK, Stays, Keeps, Writing, Reading, Ready
  <2>3. inode' \in InodeType
    BY <1>6 DEF fr_fd_fsync, InodeType
  <2>4. FdsStep(t) /\ DirStep /\ UNCHANGED <<counter, acked, bound>>
    BY <1>6, <2>1, NoFdsStep, NoDirStep DEF fr_fd_fsync, Stays
  <2>5. QED
    BY <2>1, <2>2, <2>3, <2>4, StayStep DEF Stays, Keeps
<1>7. CASE close_temp(t)
  <2>1. LocalOK(loc'[t])
    BY <1>7, CloseMoves DEF LocalOK, Keeps, Writing, Reading, Ready
  <2>2. FdsStep(t) /\ DirStep
    BY <1>7, CloseMoves, CloseStep, NoDirStep DEF close_temp
  <2>3. inode' \in InodeType /\ acked' \subseteq Data /\ bound' \in BoundType
        /\ counter' \in {0} \cup Counter /\ counter' \in {counter, counter + 1}
    BY <1>7 DEF close_temp
  <2>4. QED
    BY <1>7, <2>1, <2>2, <2>3, CloseMoves, ThreadStep DEF Keeps
<1>8. CASE put_fails(t)
  <2>1. Over(t, "failed") /\ CloseFd(t) /\ SetDir(WithoutTemp(loc[t].name))
        /\ UNCHANGED <<inode, counter, acked, bound>>
    BY <1>8, EndsOver DEF put_fails, fail, Results
  <2>2. DirStep
    BY <2>1, WithoutTempStep
  <2>3. QED
    BY <2>1, <2>2, OverStep
<1>9. CASE fr_dir_create_all(t)
  <2>1. Stays(t) /\ loc[t].pc = "mkdir" /\ loc'[t].pc = "exists"
    BY <1>9, GotoMoves DEF fr_dir_create_all, At, Labels
  <2>2. LocalOK(loc'[t])
    BY <2>1 DEF LocalOK, Stays, Keeps, Writing, Reading, Ready
  <2>3. FdsStep(t) /\ DirStep /\ UNCHANGED <<counter, acked, bound>> /\ inode' \in InodeType
    BY <1>9, <2>1, NoFdsStep, NoDirStep DEF fr_dir_create_all, Stays
  <2>4. QED
    BY <2>1, <2>2, <2>3, StayStep DEF Stays, Keeps
<1>10. CASE target_exists(t)
  <2>1. loc[t].pc = "exists" /\ UNCHANGED <<inode, fds, counter, bound>> /\ loc[t].d \in Data
    BY <1>10 DEF target_exists, At, LocalOK
  <2>2. CASE loc[t].d \in InPlace
    <3>1. Over(t, "ok") /\ SetDir(WithoutTemp(loc[t].name)) /\ Reported(t)
      BY <1>10, <2>2, EndsOver DEF target_exists, Results
    <3>2. QED
      BY <2>1, <3>1, WithoutTempStep, OverStep DEF Reported
  <2>3. CASE loc[t].d \notin InPlace
    <3>1. Stays(t) /\ loc'[t].pc = "rename" /\ UNCHANGED <<dir, survives, acked>>
      BY <1>10, <2>3, GotoMoves DEF target_exists, Labels
    <3>2. LocalOK(loc'[t])
      BY <2>1, <3>1 DEF LocalOK, Stays, Keeps, Writing, Reading, Ready
    <3>3. FdsStep(t) /\ DirStep /\ UNCHANGED <<counter, acked, bound>> /\ inode' \in InodeType
      BY <2>1, <3>1, NoFdsStep, NoDirStep DEF Stays
    <3>4. QED
      BY <3>1, <3>2, <3>3, StayStep DEF Stays, Keeps
  <2>4. QED
    BY <2>2, <2>3
<1>11. CASE rename_into_place(t)
  <2>1. /\ loc[t].pc = "rename" /\ Over(t, "ok") /\ Reported(t)
        /\ SetDir([dir EXCEPT !.chunks[loc[t].d] = dir.tmp[loc[t].name], !.tmp[loc[t].name] = 0])
        /\ UNCHANGED <<inode, fds, counter, bound>>
    BY <1>11, EndsOver DEF rename_into_place, At, Results
  <2>2. loc[t].d \in Data /\ loc[t].name \in Counter
    BY <2>1 DEF LocalOK, Ready
  <2>3. DirStep
    BY <2>1, <2>2, RenamedStep
  <2>4. QED
    BY <2>1, <2>2, <2>3, OverStep DEF Reported
<1>12. CASE rename_fails(t)
  <2>1. Stays(t) /\ loc[t].pc = "rename" /\ loc'[t].pc = "raced"
    BY <1>12, GotoMoves DEF rename_fails, At, Labels
  <2>2. LocalOK(loc'[t])
    BY <2>1 DEF LocalOK, Stays, Keeps, Writing, Reading, Ready
  <2>3. FdsStep(t) /\ DirStep /\ UNCHANGED <<counter, acked, bound>> /\ inode' \in InodeType
    BY <1>12, <2>1, NoFdsStep, WithoutTempStep DEF rename_fails, Stays
  <2>4. QED
    BY <2>1, <2>2, <2>3, StayStep DEF Stays, Keeps
<1>13. CASE raced(t)
  <2>1. loc[t].d \in Data /\ DirStep /\ UNCHANGED <<inode, fds, counter, bound>>
    BY <1>13, NoDirStep DEF raced, At, LocalOK
  <2>2. \E r \in Results : Over(t, r)
    BY <1>13, EndsOver DEF raced, Results
  <2>3. acked' \in {acked, acked \cup {loc[t].d}}
    BY <1>13 DEF raced, Reported
  <2>4. QED
    BY <2>1, <2>2, <2>3, OverStep
<1>14. QED
  BY <1>1, <1>2, <1>3, <1>4, <1>5, <1>6, <1>7, <1>8, <1>9, <1>10, <1>11, <1>12, <1>13

LEMMA OtherCallType ==
  ASSUME TypeInv, NEW t \in Thread,
         \/ get_range(t) \/ fr_fd_read_full(t) \/ get_fails(t) \/ seek_data(t) \/ close_chunk(t)
         \/ header_refused(t) \/ remove(t) \/ cleanup_temp_files(t) \/ cleanup_one(t)
         \/ cleanup_done(t)
  PROVE  TypeInv'
<1> USE OwnFacts, StateFacts DEF TypeInv
<1>1. CASE get_range(t)
  <2>1. DirStep /\ MayStart(t) /\ Counts /\ UNCHANGED <<counter, inode, acked>>
    BY <1>1, NoDirStep DEF get_range
  <2>2. CASE loc'[t].pc = "idle" /\ loc'[t].fd = 0 /\ UNCHANGED fds
    <3>1. LocalOK(loc'[t])
      BY <1>1, <2>2, GetMoves DEF LocalOK, Begins, Writing, Reading, Ready
    <3>2. FdsStep(t)
      BY <2>2, NoFdsStep
    <3>3. QED
      BY <1>1, <2>1, <2>2, <3>1, <3>2, GetMoves, BeginStep
  <2>3. CASE /\ loc'[t].d \in InPlace /\ loc'[t].fd \in FreeFds /\ loc'[t].result = "none"
             /\ fds' = [fds EXCEPT ![loc'[t].fd] = [inode |-> dir.chunks[loc'[t].d], pos |-> 0]]
             /\ loc'[t].pc = "read_header" /\ loc'[t].want = HeaderSize
    <3>1. PICK f \in FreeFds : f = loc'[t].fd
      BY <2>3
    <3>2. PICK i \in Inode : i = dir.chunks[loc'[t].d]
      BY <2>3 DEF InPlace, Directory
    <3>3. f \in Fd /\ f # 0 /\ i # 0 /\ fds' = [fds EXCEPT ![f] = [inode |-> i, pos |-> 0]]
      BY <2>3, <3>1, <3>2 DEF FreeFds
    <3>4. FdsStep(t)
      BY <3>1, <3>3 DEF FdsStep, FdsType
    <3>5. LocalOK(loc'[t])
      <4>1. Len(loc'[t].header) + loc'[t].want = HeaderSize
        BY <1>1, <2>3, GetMoves, EmptySeq DEF Begins, HeaderSize
      <4>2. loc'[t].name = 0 /\ loc'[t].fd # 0 /\ loc'[t].d \in Data
        BY <1>1, <3>1, <3>3, GetMoves DEF Begins
      <4>3. QED
        BY <2>3, <4>1, <4>2 DEF LocalOK, Writing, Reading, Ready
    <3>6. QED
      BY <1>1, <2>1, <3>1, <3>4, <3>5, GetMoves, BeginStep
  <2>4. QED
    BY <1>1, <2>2, <2>3, GetMoves
<1>2. CASE fr_fd_read_full(t)
  <2>1. loc[t].pc \in Reading /\ loc[t].fd \in Fd /\ FdInode(t) \in Inode
    BY <1>2 DEF fr_fd_read_full, Reading
  <2>2. /\ loc'[t].pc = loc[t].pc /\ Keeps(t) /\ loc'[t].name = loc[t].name
        /\ loc'[t].fd = loc[t].fd
    BY <1>2, <2>1, ReadMoves
  <2>3. PICK n \in 1 .. loc[t].want :
          /\ Len(SubSeq(Rest(t), 1, n)) = n /\ SubSeq(Rest(t), 1, n) \in Seq(Nat)
          /\ loc'[t].want = loc[t].want - n
          /\ fds' = [fds EXCEPT ![loc[t].fd].pos = @ + n]
          /\ \/ /\ loc[t].pc = "read_header"
                /\ loc'[t].header = loc[t].header \o SubSeq(Rest(t), 1, n)
             \/ /\ loc[t].pc = "read_data" /\ loc'[t].header = loc[t].header
    BY <1>2, <2>1, ReadMoves
  <2>4. FdsStep(t)
    <3>1. fds[loc[t].fd].pos + n \in Nat /\ FdInode(t) # 0
      BY <2>1 DEF FdsType
    <3>2. fds' \in FdsType /\ fds'[loc[t].fd].inode = FdInode(t)
      BY <2>1, <2>3, <3>1 DEF FdsType, FdInode
    <3>3. \A f \in Fd : f # loc[t].fd => fds'[f] = fds[f]
      BY <2>3 DEF FdsType
    <3>4. QED
      BY <2>2, <3>1, <3>2, <3>3 DEF FdsStep
  <2>5. loc[t].pc = "read_header" => Len(loc'[t].header) + loc'[t].want = HeaderSize
    <3> SUFFICES ASSUME loc[t].pc = "read_header"
                 PROVE  Len(loc'[t].header) + loc'[t].want = HeaderSize
      OBVIOUS
    <3>1. loc[t].header \in Seq(Nat) /\ loc[t].want \in Nat /\ Len(loc[t].header) \in Nat
      BY LocalFacts, LenProperties
    <3>2. Len(loc'[t].header) = Len(loc[t].header) + n
      <4>1. PICK r \in Seq(Nat) : Len(r) = n /\ loc'[t].header = loc[t].header \o r
        BY <2>3
      <4>2. Len(loc[t].header \o r) = Len(loc[t].header) + Len(r)
        BY <3>1, ConcatProperties
      <4>3. QED
        BY <4>1, <4>2
    <3>3. Len(loc[t].header) + loc[t].want = HeaderSize
      BY DEF LocalOK
    <3>4. QED
      BY SMTT(60), <2>3, <3>1, <3>2, <3>3 DEF HeaderSize
  <2>6. LocalOK(loc'[t])
    BY <2>1, <2>2, <2>5 DEF LocalOK, Keeps, Writing, Reading, Ready
  <2>7. DirStep /\ UNCHANGED <<counter, acked, bound>> /\ inode' \in InodeType
    BY <1>2, NoDirStep DEF fr_fd_read_full
  <2>8. QED
    BY <2>2, <2>4, <2>6, <2>7, StayStep DEF Keeps
<1>3. CASE get_fails(t)
  BY <1>3, EndsOver, NoDirStep, OverStep DEF get_fails, Results
<1>4. CASE seek_data(t)
  <2>1. DirStep /\ UNCHANGED <<counter, acked, bound, inode>> /\ inode' \in InodeType
    BY <1>4, NoDirStep DEF seek_data
  <2>2. CASE CloseFd(t) /\ Over(t, "range")
    BY <2>1, <2>2, OverStep
  <2>3. CASE /\ loc'[t].pc = "read_data" /\ Keeps(t)
             /\ loc'[t].name = loc[t].name /\ loc'[t].fd = loc[t].fd
             /\ loc'[t].buf = loc[t].buf /\ loc'[t].header = loc[t].header
             /\ fds' = [fds EXCEPT ![loc[t].fd].pos = loc[t].off + HeaderSize]
    <3>1. loc[t].pc = "read_header" /\ loc[t].off \in Nat
      BY <1>4, LocalFacts, SeekMoves
    <3>2. loc[t].fd \in Fd /\ FdInode(t) \in Inode /\ loc[t].off + HeaderSize \in Nat
      BY <3>1 DEF Reading, HeaderSize
    <3>3. FdsStep(t)
      BY <2>3, <3>2 DEF FdsStep, FdsType, FdInode
    <3>4. LocalOK(loc'[t])
      BY <2>3, <3>1 DEF LocalOK, Keeps, Writing, Reading, Ready
    <3>5. QED
      BY <2>1, <2>3, <3>3, <3>4, StayStep DEF Keeps
  <2>4. QED
    BY <1>4, <2>2, <2>3, SeekMoves
<1>5. CASE close_chunk(t)
  <2>1. \E r \in Results : Over(t, r)
    BY <1>5, EndsOver DEF close_chunk, Results
  <2>2. CloseFd(t) /\ DirStep /\ UNCHANGED <<counter, inode, bound, acked>>
    BY <1>5, NoDirStep DEF close_chunk
  <2>3. QED
    BY <2>1, <2>2, OverStep
<1>6. CASE header_refused(t)
  BY <1>6, EndsOver, NoDirStep, OverStep DEF header_refused, Results
<1>7. CASE remove(t)
  <2>1. MayStart(t) /\ Counts /\ UNCHANGED <<counter, inode, fds>>
    BY <1>7 DEF remove
  <2>2. DirStep /\ acked' \subseteq Data
    <3>1. CASE UNCHANGED <<dir, survives, acked>>
      BY <3>1, NoDirStep
    <3>2. CASE \E d \in Data : SetDir([dir EXCEPT !.chunks[d] = 0]) /\ acked' = acked \ {d}
      BY <3>2, RemovedStep
    <3>3. QED
      BY <1>7, <3>1, <3>2, RemoveMoves
  <2>3. FdsStep(t) /\ LocalOK(loc'[t])
    BY <1>7, <2>1, RemoveMoves, NoFdsStep DEF LocalOK, Begins, Writing, Reading, Ready
  <2>4. QED
    BY <1>7, <2>1, <2>2, <2>3, RemoveMoves, BeginStep
<1>8. CASE cleanup_temp_files(t)
  <2>1. MayStart(t) /\ Counts /\ UNCHANGED <<counter, inode, fds, acked>> /\ DirStep
    BY <1>8, NoDirStep DEF cleanup_temp_files
  <2>2. FdsStep(t) /\ LocalOK(loc'[t])
    BY <1>8, <2>1, CleanupMoves, NoFdsStep DEF LocalOK, Begins, Writing, Reading, Ready
  <2>3. QED
    BY <1>8, <2>1, <2>2, CleanupMoves, BeginStep
<1>9. CASE cleanup_one(t)
  <2>1. Stays(t) /\ loc[t].pc = "cleanup" /\ loc'[t].pc = "cleanup"
    BY <1>9, CleanupOneMoves
  <2>2. DirStep
    BY <1>9, CleanupOneMoves, WithoutTempStep DEF Leftovers
  <2>3. FdsStep(t) /\ UNCHANGED <<counter, acked, bound>> /\ inode' \in InodeType
    BY <1>9, <2>1, NoFdsStep DEF cleanup_one, Stays
  <2>4. LocalOK(loc'[t])
    BY <2>1 DEF LocalOK, Stays, Keeps, Writing, Reading, Ready
  <2>5. QED
    BY <2>1, <2>2, <2>3, <2>4, StayStep DEF Stays, Keeps
<1>10. CASE cleanup_done(t)
  BY <1>10, EndsOver, NoDirStep, OverStep DEF cleanup_done, Results
<1>11. QED
  BY <1>1, <1>2, <1>3, <1>4, <1>5, <1>6, <1>7, <1>8, <1>9, <1>10

LEMMA NamesType ==
  ASSUME NEW dr \in Directory
  PROVE  /\ Names(dr) \subseteq {0} \cup Inode
         /\ \A d \in Data : dr.chunks[d] \in Names(dr)
         /\ \A n \in Counter : dr.tmp[n] \in Names(dr)
BY DEF Names, Directory, Range

\* What a power loss leaves: a directory of the past, and of the files in it
\* those that were synced.
LEMMA PowerLossFacts ==
  ASSUME TypeInv, power_loss
  PROVE  /\ dir' \in survives /\ survives' = {dir'} /\ dir' \in Directory
         /\ inode' \in InodeType
         /\ \A i \in Names(dir') : i # 0 /\ inode[i].synced => inode'[i] = inode[i]
         /\ \A f \in Fd : fds'[f] = Closed
         /\ \A t \in Thread : loc'[t] = Idle
         /\ bound' \in BoundType /\ bound'.crashes > 0 /\ bound'.rot = bound.rot
<1> USE DEF TypeInv
<1>1. dir' \in survives /\ survives' = {dir'} /\ dir' \in Directory
  BY StateFacts DEF power_loss
<1>2. (\A f \in Fd : fds'[f] = Closed) /\ (\A t \in Thread : loc'[t] = Idle)
  BY DEF power_loss
<1>3. bound' \in BoundType /\ bound'.crashes > 0 /\ bound'.rot = bound.rot
  <2>1. bound.crashes < MaxCrashes /\ bound' = [bound EXCEPT !.crashes = @ + 1]
    BY DEF power_loss
  <2>2. QED
    BY <2>1, StateFacts, ChunkFileAssumption DEF BoundType
<1> DEFINE named == Names(dir') \ {0}
           cut == {i \in named : ~ inode[i].synced}
<1>4. named \subseteq Inode
  BY <1>1, NamesType
<1>5. PICK k \in [cut -> 0 .. Max({0} \cup {Len(inode[i].bytes) : i \in cut})] :
        inode' = [i \in Inode |-> CASE i \in cut -> [inode[i] EXCEPT !.bytes = SubSeq(@, 1, Smaller(k[i], Len(@)))]
                                    [] i \in named \ cut -> inode[i]
                                    [] OTHER -> NoInode]
  BY DEF power_loss
<1>6. \A i \in named : inode[i].synced => inode'[i] = inode[i]
  BY <1>4, <1>5
<1>7. ASSUME NEW i \in Inode PROVE inode'[i] \in [bytes : Seq(Nat), synced : BOOLEAN]
  <2>0. inode[i] \in [bytes : Seq(Nat), synced : BOOLEAN]
    BY StateFacts DEF InodeType
  <2>1. CASE i \in cut
    <3>1. k[i] \in Int /\ 0 <= k[i]
      <4>1. \A M : k \in [cut -> 0 .. M] => k[i] \in 0 .. M
        BY <2>1
      <4>2. \A M : k[i] \in 0 .. M => k[i] \in Int /\ 0 <= k[i]
        OBVIOUS
      <4>3. QED
        BY <1>5, <4>1, <4>2
    <3>2. PICK b \in Seq(Nat) : b = inode[i].bytes
      BY <2>0
    <3>3. PICK w \in 0 .. Len(b) : w = Smaller(k[i], Len(b))
      BY <3>1, <3>2, LenProperties DEF Smaller
    <3>4. SubSeq(b, 1, w) \in Seq(Nat)
      BY <3>3, Tails
    <3>5. inode'[i] = [inode[i] EXCEPT !.bytes = SubSeq(b, 1, w)]
      BY <1>5, <2>0, <2>1, <3>2, <3>3
    <3>6. QED
      BY <2>0, <3>4, <3>5
  <2>2. CASE i \notin cut
    BY <1>5, <2>0, <2>2, EmptySeq DEF NoInode
  <2>3. QED
    BY <2>1, <2>2
<1>8. inode' \in InodeType
  BY <1>5, <1>7 DEF InodeType
<1>9. QED
  BY <1>1, <1>2, <1>3, <1>6, <1>8

LEMMA AlteredFacts ==
  ASSUME TypeOK, altered
  PROVE  /\ UNCHANGED <<dir, survives, fds, counter, loc, acked>>
         /\ bound' \in BoundType /\ bound'.crashes = bound.crashes /\ bound'.rot = bound.rot + 1
         /\ inode' \in InodeType
         /\ \E d \in InPlace : \E p \in DOMAIN inode[dir.chunks[d]].bytes :
              LET i == dir.chunks[d] IN
              /\ i \in Inode /\ \A j \in Inode : j # i => inode'[j] = inode[j]
              /\ inode'[i].synced = inode[i].synced
              /\ inode'[i].bytes = [inode[i].bytes EXCEPT ![p] = @ + 1]
<1>1. UNCHANGED <<dir, survives, fds, counter, loc, acked>>
  BY DEF altered
<1>2. bound' \in BoundType /\ bound'.crashes = bound.crashes /\ bound'.rot = bound.rot + 1
  BY StateFacts, ChunkFileAssumption DEF altered, BoundType
<1>3. PICK d \in InPlace : \E p \in DOMAIN inode[dir.chunks[d]].bytes :
        inode' = [inode EXCEPT ![dir.chunks[d]].bytes[p] = @ + 1]
  BY DEF altered
<1>4. PICK i \in Inode : i = dir.chunks[d]
  BY StateFacts DEF InPlace, Directory
<1>5. PICK p \in DOMAIN inode[i].bytes : inode' = [inode EXCEPT ![i].bytes[p] = @ + 1]
  BY <1>3, <1>4
<1>6. PICK b \in Seq(Nat) : b = inode[i].bytes
  BY StateFacts DEF InodeType
<1>7. [b EXCEPT ![p] = @ + 1] \in Seq(Nat)
  BY <1>5, <1>6, ExceptSeq, ElementOfSeq, LenProperties
<1>8. /\ \A j \in Inode : j # i => inode'[j] = inode[j]
      /\ inode'[i] = [inode[i] EXCEPT !.bytes = [b EXCEPT ![p] = @ + 1]]
  BY <1>5, <1>6, StateFacts DEF InodeType
<1>9. inode'[i] \in [bytes : Seq(Nat), synced : BOOLEAN] /\ inode'[i].synced = inode[i].synced
      /\ inode'[i].bytes = [b EXCEPT ![p] = @ + 1]
  BY ZenonT(60), <1>7, <1>8, StateFacts DEF InodeType
<1>10. inode' \in InodeType
  <2>1. DOMAIN inode' = Inode /\ inode' = [j \in Inode |-> inode'[j]]
    BY <1>5, StateFacts DEF InodeType
  <2>2. QED
    BY ZenonT(60), <2>1, <1>8, <1>9, StateFacts DEF InodeType
<1>11. p \in DOMAIN inode[dir.chunks[d]].bytes
  BY <1>4, <1>5
<1>12. LET a == dir.chunks[d] IN
       /\ a \in Inode /\ \A j \in Inode : j # a => inode'[j] = inode[j]
       /\ inode'[a].synced = inode[a].synced
       /\ inode'[a].bytes = [inode[a].bytes EXCEPT ![p] = @ + 1]
  BY <1>4, <1>6, <1>8, <1>9
<1>13. QED
  BY <1>1, <1>2, <1>10, <1>11, <1>12

LEMMA InitType == ASSUME Init PROVE TypeInv
<1>1. dir \in Directory
  BY DEF Init, Directory
<1>2. inode \in InodeType /\ fds \in FdsType
  BY EmptySeq DEF Init, InodeType, NoInode, FdsType, Closed
<1>3. \A t \in Thread : loc[t] = Idle
  BY DEF Init
<1>4. bound \in BoundType
  BY ChunkFileAssumption DEF Init, BoundType
<1>5. TypeOK
  BY <1>1, <1>2, <1>4, IdleType DEF Init, TypeOK, InodeType, FdsType, BoundType, Bytes
<1>6. LocalsOK /\ Exclusive
  BY <1>3, IdleFields DEF LocalsOK, LocalOK, Exclusive, Init, Writing, Reading, Ready
<1>7. QED
  BY <1>5, <1>6 DEF TypeInv

LEMMA NextType == ASSUME TypeInv, [Next]_vars PROVE TypeInv'
<1>1. CASE \E t \in Thread : Call(t)
  BY <1>1, PutCallType, OtherCallType DEF Call
<1>2. CASE flush
  BY <1>2 DEF flush, TypeInv, TypeOK, LocalsOK, Exclusive, FdInode
<1>3. CASE power_loss
  <2>1. DOMAIN loc' = Thread /\ loc' = [t \in Thread |-> loc'[t]] /\ counter' = 0
        /\ fds' = [f \in Fd |-> fds'[f]] /\ acked' = acked
    BY <1>3 DEF power_loss
  <2>2. loc' \in [Thread -> Local]
    BY <1>3, <2>1, PowerLossFacts, IdleType
  <2>3. fds' \in FdsType
    BY <1>3, <2>1, PowerLossFacts DEF FdsType, Closed
  <2>4. TypeOK'
    BY <1>3, <2>1, <2>2, <2>3, PowerLossFacts, StateFacts
    DEF TypeOK, TypeInv, InodeType, FdsType, BoundType, Bytes
  <2>5. LocalsOK' /\ Exclusive'
    BY <1>3, <2>1, PowerLossFacts, IdleFields DEF LocalsOK, LocalOK, Exclusive, Writing, Reading, Ready
  <2>6. QED
    BY <2>4, <2>5 DEF TypeInv
<1>4. CASE altered
  <2>1. TypeOK'
    BY <1>4, AlteredFacts DEF TypeInv, TypeOK, InodeType, BoundType, Bytes
  <2>2. LocalsOK' /\ Exclusive'
    BY <1>4, AlteredFacts DEF TypeInv, LocalsOK, Exclusive, FdInode
  <2>3. QED
    BY <2>1, <2>2 DEF TypeInv
<1>5. CASE UNCHANGED vars
  BY <1>5 DEF vars, TypeInv, TypeOK, LocalsOK, Exclusive, FdInode
<1>6. QED
  BY <1>1, <1>2, <1>3, <1>4, <1>5 DEF Next

\* Every step of put, get_range, remove and cleanup_temp_files, a power loss
\* and the medium keep the types, and a thread holds a descriptor, a temporary
\* name and a header as its program counter says, none of them shared.
THEOREM TypeInvariant == Spec => []TypeInv
<1>1. Init => TypeInv
  BY InitType
<1>2. TypeInv /\ [Next]_vars => TypeInv'
  BY NextType
<1>3. QED
  BY <1>1, <1>2, PTL DEF Spec

\* The type invariant: in particular fr_fd_read_full never wants more than
\* the buffer of get_range takes.
THEOREM TypeCorrect == Spec => []TypeOK
<1>1. TypeInv => TypeOK
  BY DEF TypeInv
<1>2. QED
  BY <1>1, TypeInvariant, PTL
-----------------------------------------------------------------------------
(* The file a put writes is its own.                                       *)

\* What all steps but a creation, a rename and a power loss have in common:
\* temporary names and chunks disappear at most, descriptors are closed or
\* opened on files in place, and a thread keeps its temporary file until it
\* is ready, gone, or the call is over.
SameFile(t) == loc'[t].name = loc[t].name /\ loc'[t].fd = loc[t].fd
Quiet ==
  /\ \A n \in Counter : dir'.tmp[n] \in {0, dir.tmp[n]}
  /\ \A d \in Data : dir'.chunks[d] \in {0, dir.chunks[d]}
  /\ survives' \subseteq survives \cup {dir'}
  /\ \A f \in Fd : \/ fds'[f].inode \in {0, fds[f].inode}
                   \/ \E d \in Data : fds'[f].inode = dir.chunks[d]
  /\ \A t \in Thread :
       /\ loc'[t].pc \in Writing => /\ loc[t].pc \in Writing /\ SameFile(t)
                                    /\ fds'[loc[t].fd].inode = fds[loc[t].fd].inode
       /\ loc'[t].pc \in Ready => /\ loc[t].pc \in Ready \cup {"close"}
                                  /\ loc'[t].name = loc[t].name
       /\ loc'[t].pc = "raced" => /\ loc'[t].name = loc[t].name
                                  /\ loc[t].pc = "raced" \/ dir'.tmp[loc[t].name] = 0

LEMMA QuietPrivate ==
  ASSUME TypeInv, TypeInv', Private, Quiet
  PROVE  Private'
<1>1. dir \in survives /\ dir' \in survives' /\ dir \in Directory
  BY StateFacts DEF TypeInv, TypeOK
<1>2. ASSUME NEW i \in Inode, NotInPlace(i) PROVE NotInPlace(i)'
  <2>1. i # 0
    BY StateFacts DEF TypeInv
  <2>2. QED
    BY <1>1, <1>2, <2>1 DEF NotInPlace, Quiet
<1>3. ASSUME NEW i \in Inode, NEW n, OnlyName(i, n) PROVE OnlyName(i, n)'
  <2>1. i # 0
    BY StateFacts DEF TypeInv
  <2>2. QED
    BY <1>3, <2>1 DEF OnlyName, Quiet
<1>4. ASSUME NEW t \in Thread, loc'[t].pc \in Writing
      PROVE  /\ NotInPlace(FdInode(t))' /\ OnlyName(FdInode(t), loc[t].name)'
             /\ TempInode(t)' \in {0, FdInode(t)'}
             /\ \A f \in Fd : fds'[f].inode = FdInode(t)' => f = loc'[t].fd
  <2>1. loc[t].pc \in Writing /\ SameFile(t) /\ fds'[loc[t].fd].inode = fds[loc[t].fd].inode
    BY <1>4 DEF Quiet
  <2>2. FdInode(t)' = FdInode(t) /\ FdInode(t) \in Inode /\ FdInode(t) # 0 /\ loc[t].name \in Counter
    BY <2>1, OwnFacts, StateFacts DEF FdInode, SameFile, TypeInv
  <2>3. /\ NotInPlace(FdInode(t)) /\ OnlyName(FdInode(t), loc[t].name)
        /\ TempInode(t) \in {0, FdInode(t)}
        /\ \A f \in Fd : fds[f].inode = FdInode(t) => f = loc[t].fd
    BY <2>1 DEF Private
  <2>4. NotInPlace(FdInode(t))' /\ OnlyName(FdInode(t), loc[t].name)'
    <3>1. PICK i \in Inode, n \in Counter : i = FdInode(t) /\ n = loc[t].name
      BY <2>2
    <3>2. NotInPlace(i)' /\ OnlyName(i, n)'
      BY <1>2, <1>3, <2>3, <3>1
    <3>3. QED
      BY <2>1, <2>2, <3>1, <3>2 DEF NotInPlace, OnlyName, SameFile
  <2>5. TempInode(t)' \in {0, FdInode(t)'}
    <3>1. TempInode(t)' = dir'.tmp[loc[t].name]
      BY <2>1 DEF TempInode, SameFile
    <3>2. dir'.tmp[loc[t].name] \in {0, TempInode(t)}
      BY <2>2 DEF Quiet, TempInode
    <3>3. QED
      BY <2>2, <2>3, <3>1, <3>2
  <2>6. \A f \in Fd : fds'[f].inode = FdInode(t)' => f = loc'[t].fd
    <3>1. \A d \in Data : dir.chunks[d] # FdInode(t)
      BY <1>1, <2>3 DEF NotInPlace
    <3>2. ASSUME NEW f \in Fd, fds'[f].inode = FdInode(t) PROVE fds[f].inode = FdInode(t)
      BY <2>2, <3>1, <3>2 DEF Quiet
    <3>3. QED
      BY <2>1, <2>2, <2>3, <3>2 DEF SameFile
  <2>7. QED
    BY <2>4, <2>5, <2>6
<1>5. ASSUME NEW t \in Thread, loc'[t].pc \in Ready, TempInode(t)' # 0
      PROVE  NotInPlace(TempInode(t))' /\ OnlyName(TempInode(t), loc[t].name)'
  <2>1. loc[t].pc \in Ready \cup {"close"} /\ loc'[t].name = loc[t].name
    BY <1>5 DEF Quiet
  <2>2. loc[t].name \in Counter
    BY <2>1, OwnFacts DEF Writing
  <2>3. TempInode(t)' = TempInode(t) /\ TempInode(t) # 0
    BY <1>5, <2>1, <2>2 DEF Quiet, TempInode
  <2>4. TempInode(t) \in Inode
    BY <1>1, <2>2, <2>3 DEF TempInode, Directory
  <2>5. NotInPlace(TempInode(t)) /\ OnlyName(TempInode(t), loc[t].name)
    <3>1. CASE loc[t].pc \in Ready
      BY <3>1, <2>3 DEF Private
    <3>2. CASE loc[t].pc = "close"
      <4>1. TempInode(t) = FdInode(t)
        BY <3>2, <2>3 DEF Private, Writing
      <4>2. QED
        BY <3>2, <4>1 DEF Private, Writing
    <3>3. QED
      BY <2>1, <3>1, <3>2
  <2>6. PICK i \in Inode, n \in Counter : i = TempInode(t) /\ n = loc[t].name
    BY <2>2, <2>4
  <2>7. NotInPlace(i)' /\ OnlyName(i, n)'
    BY <1>2, <1>3, <2>5, <2>6
  <2>8. QED
    BY <2>1, <2>3, <2>6, <2>7 DEF NotInPlace, OnlyName
<1>6. ASSUME NEW t \in Thread, loc'[t].pc = "raced" PROVE TempInode(t)' = 0
  <2>1. loc'[t].name = loc[t].name /\ loc'[t].name \in Counter
    BY <1>6 DEF Quiet, TypeInv, LocalsOK, LocalOK, TypeOK, Local
  <2>2. CASE loc[t].pc = "raced"
    BY <2>1, <2>2 DEF Quiet, Private, TempInode
  <2>3. CASE dir'.tmp[loc[t].name] = 0
    BY <2>1, <2>3 DEF TempInode
  <2>4. QED
    BY <1>6, <2>2, <2>3 DEF Quiet
<1>7. QED
  BY <1>4, <1>5, <1>6 DEF Private

FewerNames ==
  /\ \A n \in Counter : dir'.tmp[n] \in {0, dir.tmp[n]}
  /\ \A d \in Data : dir'.chunks[d] \in {0, dir.chunks[d]}
  /\ survives' \subseteq survives \cup {dir'}
FdsQuiet(t) ==
  /\ FdsStep(t)
  /\ \A f \in Fd : \/ fds'[f].inode \in {0, fds[f].inode}
                   \/ \E d \in Data : fds'[f].inode = dir.chunks[d]

LEMMA QuietStep ==
  ASSUME TypeInv, TypeInv', NEW t \in Thread, Moves(t), FewerNames, FdsQuiet(t),
         loc'[t].pc \in Writing => /\ loc[t].pc \in Writing /\ SameFile(t)
                                   /\ fds'[loc[t].fd].inode = fds[loc[t].fd].inode,
         loc'[t].pc \in Ready => /\ loc[t].pc \in Ready \cup {"close"}
                                 /\ loc'[t].name = loc[t].name,
         loc'[t].pc = "raced" => /\ loc'[t].name = loc[t].name
                                 /\ loc[t].pc = "raced" \/ dir'.tmp[loc[t].name] = 0
  PROVE  Quiet
<1>1. ASSUME NEW u \in Thread, u # t, loc'[u].pc \in Writing
      PROVE  /\ loc[u].pc \in Writing /\ SameFile(u)
             /\ fds'[loc[u].fd].inode = fds[loc[u].fd].inode
  <2>1. loc'[u] = loc[u] /\ loc[u].pc \in Writing
    BY <1>1 DEF Moves
  <2>2. loc[u].fd \in Fd /\ loc[u].fd # 0
    BY <2>1, OwnFacts, StateFacts DEF TypeInv
  <2>3. loc[u].fd # loc[t].fd
    BY <1>1, <2>2 DEF TypeInv, Exclusive
  <2>4. loc'[u].fd # loc'[t].fd
    BY <1>1, <2>1, <2>2 DEF TypeInv, Exclusive
  <2>5. QED
    BY <2>1, <2>2, <2>3, <2>4 DEF FdsQuiet, FdsStep, SameFile
<1>2. \A u \in Thread : u # t => loc'[u] = loc[u]
  BY DEF Moves
<1>3. QED
  BY <1>1, <1>2 DEF Quiet, FewerNames, FdsQuiet

LEMMA NoFewerNames == ASSUME TypeOK, UNCHANGED <<dir, survives>> PROVE FewerNames
BY DEF FewerNames

LEMMA WithoutTempFewer ==
  ASSUME TypeOK, NEW n \in {0} \cup Counter, SetDir(WithoutTemp(n))
  PROVE  FewerNames
BY WithoutTempStep DEF FewerNames, DirStep

LEMMA FdsQuietIfSame ==
  ASSUME TypeInv, NEW t \in Thread, UNCHANGED fds, loc'[t].fd \in {0, loc[t].fd}
  PROVE  FdsQuiet(t)
BY NoFdsStep DEF FdsQuiet

LEMMA FdsQuietIfClosed ==
  ASSUME TypeInv, NEW t \in Thread, CloseFd(t), loc'[t].fd = 0
  PROVE  FdsQuiet(t)
<1>1. FdsStep(t) /\ (loc[t].fd # 0 => fds'[loc[t].fd] = Closed)
  BY CloseStep
<1>2. \A f \in Fd : f # 0
  BY StateFacts DEF TypeInv
<1>3. \A f \in Fd : fds'[f].inode \in {0, fds[f].inode}
  BY <1>1, <1>2 DEF FdsStep, Closed
<1>4. QED
  BY <1>1, <1>3 DEF FdsQuiet

\* A position changes, the file does not.
LEMMA FdsQuietIfMoved ==
  ASSUME TypeInv, NEW t \in Thread, loc[t].fd \in Fd, loc'[t].fd = loc[t].fd, NEW p \in Nat,
         fds' = [fds EXCEPT ![loc[t].fd].pos = p]
  PROVE  FdsQuiet(t)
<1>1. fds \in FdsType /\ fds[loc[t].fd].inode # 0
  BY StateFacts DEF TypeInv, Exclusive, FdInode
<1>2. fds' \in FdsType /\ \A f \in Fd : fds'[f].inode = fds[f].inode
  BY <1>1 DEF FdsType
<1>3. \A f \in Fd : f # loc[t].fd => fds'[f] = fds[f]
  BY <1>1 DEF FdsType
<1>4. QED
  BY <1>1, <1>2, <1>3 DEF FdsQuiet, FdsStep

LEMMA OverQuiet ==
  ASSUME TypeInv, TypeInv', NEW t \in Thread, NEW r, Over(t, r), CloseFd(t) \/ UNCHANGED fds,
         FewerNames
  PROVE  Quiet
<1>1. FdsQuiet(t)
  BY FdsQuietIfSame, FdsQuietIfClosed DEF Over
<1>2. Moves(t) /\ loc'[t].pc = "idle"
  BY DEF Over
<1>3. QED
  BY <1>1, <1>2, QuietStep DEF Writing, Ready

LEMMA PutQuiet ==
  ASSUME TypeInv, TypeInv', NEW t \in Thread,
         \/ put(t) \/ (fr_tmpfile_create(t) /\ NameTaken(t)) \/ create_fails(t) \/ fr_fd_write_all(t)
         \/ all_written(t) \/ fr_fd_fsync(t) \/ close_temp(t) \/ put_fails(t)
         \/ fr_dir_create_all(t) \/ target_exists(t) \/ rename_fails(t) \/ raced(t)
  PROVE  Quiet
<1> USE OwnFacts DEF TypeInv, SameFile
<1>1. CASE put(t)
  <2>1. FdsQuiet(t) /\ FewerNames
    BY <1>1, PutMoves, FdsQuietIfSame, NoFewerNames DEF put
  <2>2. QED
    BY <1>1, <2>1, PutMoves, QuietStep DEF Begins, Writing, Ready
<1>2. CASE fr_tmpfile_create(t) /\ NameTaken(t)
  <2>1. FdsQuiet(t) /\ FewerNames /\ loc'[t].pc = "create"
    BY <1>2, FdsQuietIfSame, NoFewerNames DEF NameTaken
  <2>2. QED
    BY <1>2, <2>1, CreateMoves, QuietStep DEF Keeps, Writing, Ready
<1>3. CASE create_fails(t)
  BY <1>3, EndsOver, NoFewerNames, OverQuiet DEF create_fails, Results
<1>4. CASE fr_fd_write_all(t)
  <2>1. Stays(t) /\ loc'[t].pc = loc[t].pc /\ loc[t].pc \in {"header", "data"}
    BY <1>4, WriteMoves
  <2>2. FdsQuiet(t) /\ FewerNames /\ UNCHANGED fds
    BY <1>4, <2>1, FdsQuietIfSame, NoFewerNames DEF fr_fd_write_all, Stays
  <2>3. QED
    BY <2>1, <2>2, QuietStep DEF Stays, Keeps, Writing, Ready
<1>5. CASE all_written(t)
  <2>1. Stays(t) /\ loc[t].pc \in {"header", "data"} /\ loc'[t].pc \in {"data", "fsync"}
    BY <1>5, WrittenMoves
  <2>2. FdsQuiet(t) /\ FewerNames /\ UNCHANGED fds
    BY <1>5, <2>1, FdsQuietIfSame, NoFewerNames DEF all_written, Stays
  <2>3. QED
    BY <2>1, <2>2, QuietStep DEF Stays, Keeps, Writing, Ready
<1>6. CASE fr_fd_fsync(t)
  <2>1. Stays(t) /\ loc[t].pc = "fsync" /\ loc'[t].pc = "close"
    BY <1>6, GotoMoves DEF fr_fd_fsync, At, Labels
  <2>2. FdsQuiet(t) /\ FewerNames /\ UNCHANGED fds
    BY <1>6, <2>1, FdsQuietIfSame, NoFewerNames DEF fr_fd_fsync, Stays
  <2>3. QED
    BY <2>1, <2>2, QuietStep DEF Stays, Keeps, Writing, Ready
<1>7. CASE close_temp(t)
  <2>1. FdsQuiet(t) /\ FewerNames
    BY <1>7, CloseMoves, FdsQuietIfClosed, NoFewerNames DEF close_temp
  <2>2. QED
    BY <1>7, <2>1, CloseMoves, QuietStep DEF Keeps, Writing, Ready
<1>8. CASE put_fails(t)
  <2>1. Over(t, "failed") /\ CloseFd(t) /\ SetDir(WithoutTemp(loc[t].name))
    BY <1>8, EndsOver DEF put_fails, fail, Results
  <2>2. QED
    BY <2>1, WithoutTempFewer, OverQuiet
<1>9. CASE fr_dir_create_all(t)
  <2>1. Stays(t) /\ loc[t].pc = "mkdir" /\ loc'[t].pc = "exists"
    BY <1>9, GotoMoves DEF fr_dir_create_all, At, Labels
  <2>2. FdsQuiet(t) /\ FewerNames
    BY <1>9, <2>1, FdsQuietIfSame, NoFewerNames DEF fr_dir_create_all, Stays
  <2>3. QED
    BY <2>1, <2>2, QuietStep DEF Stays, Keeps, Writing, Ready
<1>10. CASE target_exists(t)
  <2>1. loc[t].pc = "exists" /\ UNCHANGED fds
    BY <1>10 DEF target_exists, At
  <2>2. CASE loc[t].d \in InPlace
    <3>1. Over(t, "ok") /\ SetDir(WithoutTemp(loc[t].name))
      BY <1>10, <2>2, EndsOver DEF target_exists, Results
    <3>2. QED
      BY <2>1, <3>1, WithoutTempFewer, OverQuiet
  <2>3. CASE loc[t].d \notin InPlace
    <3>1. Stays(t) /\ loc'[t].pc = "rename" /\ UNCHANGED <<dir, survives, acked>>
      BY <1>10, <2>3, GotoMoves DEF target_exists, Labels
    <3>2. FdsQuiet(t) /\ FewerNames
      BY <2>1, <3>1, FdsQuietIfSame, NoFewerNames DEF Stays
    <3>3. QED
      BY <2>1, <3>1, <3>2, QuietStep DEF Stays, Keeps, Writing, Ready
  <2>4. QED
    BY <2>2, <2>3
<1>11. CASE rename_fails(t)
  <2>1. /\ Stays(t) /\ loc[t].pc = "rename" /\ loc'[t].pc = "raced"
        /\ SetDir(WithoutTemp(loc[t].name)) /\ UNCHANGED fds
    BY <1>11, GotoMoves DEF rename_fails, At, Labels
  <2>2. FdsQuiet(t) /\ FewerNames
    BY <2>1, FdsQuietIfSame, WithoutTempFewer DEF Stays
  <2>3. loc[t].name \in Counter /\ dir'.tmp[loc[t].name] = 0
    BY <2>1, WithoutTempStep DEF Ready
  <2>4. QED
    BY <2>1, <2>2, <2>3, QuietStep DEF Stays, Keeps, Writing, Ready
<1>12. CASE raced(t)
  <2>1. \E r \in Results : Over(t, r)
    BY <1>12, EndsOver DEF raced, Results
  <2>2. QED
    BY <1>12, <2>1, NoFewerNames, OverQuiet DEF raced
<1>13. QED
  BY <1>1, <1>2, <1>3, <1>4, <1>5, <1>6, <1>7, <1>8, <1>9, <1>10, <1>11, <1>12

LEMMA OtherQuiet ==
  ASSUME TypeInv, TypeInv', NEW t \in Thread,
         \/ get_range(t) \/ fr_fd_read_full(t) \/ get_fails(t) \/ seek_data(t) \/ close_chunk(t)
         \/ header_refused(t) \/ remove(t) \/ cleanup_temp_files(t) \/ cleanup_one(t)
         \/ cleanup_done(t)
  PROVE  Quiet
<1> USE OwnFacts DEF TypeInv, SameFile
<1>1. CASE get_range(t)
  <2>1. Begins(t) /\ loc'[t].pc \in {"idle", "read_header"} /\ FewerNames
    BY <1>1, GetMoves, NoFewerNames DEF get_range
  <2>2. FdsQuiet(t)
    <3>1. CASE loc'[t].fd = 0 /\ UNCHANGED fds
      BY <3>1, FdsQuietIfSame
    <3>2. CASE /\ loc'[t].d \in InPlace /\ loc'[t].fd \in FreeFds
               /\ fds' = [fds EXCEPT ![loc'[t].fd] = [inode |-> dir.chunks[loc'[t].d], pos |-> 0]]
      <4>1. PICK f \in FreeFds, e \in InPlace : f = loc'[t].fd /\ e = loc'[t].d
        BY <3>2
      <4>2. e \in Data /\ f \in Fd /\ dir.chunks[e] # 0 /\ dir.chunks[e] \in Inode
        BY StateFacts DEF InPlace, FreeFds, Directory
      <4>3. fds \in FdsType
        BY StateFacts
      <4>4. fds' \in FdsType /\ \A g \in Fd : g # f => fds'[g] = fds[g]
        BY <3>2, <4>1, <4>2, <4>3 DEF FdsType
      <4>5. fds'[f].inode = dir.chunks[e]
        BY <3>2, <4>1, <4>2, <4>3 DEF FdsType
      <4>6. QED
        BY <4>1, <4>2, <4>4, <4>5 DEF FdsQuiet, FdsStep
    <3>3. QED
      BY <1>1, <3>1, <3>2, GetMoves
  <2>3. QED
    BY <2>1, <2>2, QuietStep DEF Begins, Writing, Ready
<1>2. CASE fr_fd_read_full(t)
  <2>1. loc[t].pc \in Reading /\ loc[t].fd \in Fd /\ FdInode(t) \in Inode
    BY <1>2 DEF fr_fd_read_full, Reading
  <2>2. loc'[t].pc = loc[t].pc /\ Keeps(t) /\ loc'[t].fd = loc[t].fd
    BY <1>2, <2>1, ReadMoves
  <2>3. PICK n \in Nat : fds' = [fds EXCEPT ![loc[t].fd].pos = @ + n]
    BY <1>2, <2>1, ReadMoves
  <2>4. fds[loc[t].fd].pos \in Nat
    BY <2>1, StateFacts DEF FdsType
  <2>5. PICK p \in Nat : fds' = [fds EXCEPT ![loc[t].fd].pos = p]
    <3> DEFINE q == fds[loc[t].fd].pos + n
    <3>1. q \in Nat /\ fds' = [fds EXCEPT ![loc[t].fd].pos = q]
      BY <2>3, <2>4
    <3> HIDE DEF q
    <3>2. QED
      BY <3>1
  <2>6. FdsQuiet(t) /\ FewerNames
    BY <1>2, <2>1, <2>2, <2>5, FdsQuietIfMoved, NoFewerNames DEF fr_fd_read_full
  <2>7. QED
    BY <2>1, <2>2, <2>6, QuietStep DEF Keeps, Reading, Writing, Ready
<1>3. CASE get_fails(t)
  BY <1>3, EndsOver, NoFewerNames, OverQuiet DEF get_fails, Results
<1>4. CASE seek_data(t)
  <2>1. FewerNames
    BY <1>4, NoFewerNames DEF seek_data
  <2>2. CASE CloseFd(t) /\ Over(t, "range")
    BY <2>1, <2>2, OverQuiet
  <2>3. CASE /\ loc'[t].pc = "read_data" /\ Keeps(t) /\ loc'[t].fd = loc[t].fd
             /\ fds' = [fds EXCEPT ![loc[t].fd].pos = loc[t].off + HeaderSize]
    <3>1. loc[t].pc = "read_header" /\ loc[t].off \in Nat
      BY <1>4, LocalFacts, SeekMoves
    <3>2. loc[t].fd \in Fd /\ loc[t].off + HeaderSize \in Nat
      BY <3>1 DEF Reading, HeaderSize
    <3>3. FdsQuiet(t)
      BY <2>3, <3>2, FdsQuietIfMoved
    <3>4. QED
      BY <2>1, <2>3, <3>3, QuietStep DEF Keeps, Writing, Ready
  <2>4. QED
    BY <1>4, <2>2, <2>3, SeekMoves
<1>5. CASE close_chunk(t)
  <2>1. \E r \in Results : Over(t, r)
    BY <1>5, EndsOver DEF close_chunk, Results
  <2>2. QED
    BY <1>5, <2>1, NoFewerNames, OverQuiet DEF close_chunk
<1>6. CASE header_refused(t)
  BY <1>6, EndsOver, NoFewerNames, OverQuiet DEF header_refused, Results
<1>7. CASE remove(t)
  <2>1. FewerNames
    <3>1. CASE UNCHANGED <<dir, survives, acked>>
      BY <3>1, NoFewerNames
    <3>2. CASE \E d \in Data : SetDir([dir EXCEPT !.chunks[d] = 0]) /\ acked' = acked \ {d}
      BY <3>2, RemovedStep DEF FewerNames, DirStep
    <3>3. QED
      BY <1>7, <3>1, <3>2, RemoveMoves
  <2>2. FdsQuiet(t)
    BY <1>7, RemoveMoves, FdsQuietIfSame DEF remove
  <2>3. QED
    BY <1>7, <2>1, <2>2, RemoveMoves, QuietStep DEF Begins, Writing, Ready
<1>8. CASE cleanup_temp_files(t)
  <2>1. FewerNames /\ FdsQuiet(t)
    BY <1>8, CleanupMoves, FdsQuietIfSame, NoFewerNames DEF cleanup_temp_files
  <2>2. QED
    BY <1>8, <2>1, CleanupMoves, QuietStep DEF Begins, Writing, Ready
<1>9. CASE cleanup_one(t)
  <2>1. FewerNames
    BY <1>9, CleanupOneMoves, WithoutTempFewer DEF Leftovers
  <2>2. FdsQuiet(t)
    BY <1>9, CleanupOneMoves, FdsQuietIfSame DEF cleanup_one, Stays
  <2>3. QED
    BY <1>9, <2>1, <2>2, CleanupOneMoves, QuietStep DEF Stays, Keeps, Writing, Ready
<1>10. CASE cleanup_done(t)
  BY <1>10, EndsOver, NoFewerNames, OverQuiet DEF cleanup_done, Results
<1>11. QED
  BY <1>1, <1>2, <1>3, <1>4, <1>5, <1>6, <1>7, <1>8, <1>9, <1>10

\* An inode that is not in use has no name in any directory and no descriptor.
LEMMA FreshInode ==
  ASSUME TypeOK, NEW i \in FreeInodes
  PROVE  /\ i \in Inode /\ NotInPlace(i)
         /\ \A dr \in survives, n \in Counter : dr.tmp[n] # i
         /\ \A f \in Fd : fds[f].inode # i
<1>1. i \in Inode /\ i \notin InUse
  BY DEF FreeInodes
<1>2. \A f \in Fd : fds[f].inode # i
  <2>1. i \notin {fds[f].inode : f \in Fd}
    BY <1>1 DEF InUse
  <2>2. QED
    BY <2>1
<1>3. \A dr \in survives : i \notin Names(dr)
  BY <1>1, Zenon DEF InUse
<1>4. \A dr \in survives : DOMAIN dr.chunks = Data /\ DOMAIN dr.tmp = Counter
  BY StateFacts DEF Directory
<1>5. \A dr \in survives, d \in Data : dr.chunks[d] # i
  BY <1>3, <1>4 DEF Names, Range
<1>6. \A dr \in survives, n \in Counter : dr.tmp[n] # i
  BY <1>3, <1>4 DEF Names, Range
<1>7. QED
  BY <1>1, <1>2, <1>5, <1>6 DEF NotInPlace

\* What another thread's put has is neither the new name nor the new file.
LEMMA CreatePrivate ==
  ASSUME TypeInv, TypeInv', Private, NEW t \in Thread, fr_tmpfile_create(t),
         NEW i \in FreeInodes, NEW f \in FreeFds, Created(t, i, f)
  PROVE  Private'
<1> DEFINE n == counter + 1
<1>1. /\ i \in Inode /\ NotInPlace(i) /\ \A m \in Counter : dir.tmp[m] # i
      /\ \A g \in Fd : fds[g].inode # i
  BY FreshInode, StateFacts DEF TypeInv
<1>2. n \in Counter /\ Moves(t) /\ f \in Fd
  BY CreateMoves DEF Keeps, FreeFds
<1>3. /\ survives' = survives \cup {dir'} /\ dir'.chunks = dir.chunks /\ dir \in survives
      /\ \A m \in Counter : dir'.tmp[m] = IF m = n THEN i ELSE dir.tmp[m]
  BY <1>1, <1>2, NewTempStep, StateFacts DEF Created, DirStep, TypeInv
<1>4. loc'[t].name = n /\ loc'[t].fd = f /\ loc'[t].pc = "header"
  BY DEF Created
<1>5. fds'[f].inode = i /\ \A g \in Fd : g # f => fds'[g] = fds[g]
  BY <1>1, <1>2, StateFacts DEF Created, TypeInv, FdsType
<1>6. ASSUME NEW j \in Inode, NotInPlace(j) PROVE NotInPlace(j)'
  BY <1>3, <1>6 DEF NotInPlace
<1>7. /\ NotInPlace(FdInode(t))' /\ OnlyName(FdInode(t), loc[t].name)'
      /\ TempInode(t)' \in {0, FdInode(t)'}
      /\ \A g \in Fd : fds'[g].inode = FdInode(t)' => g = loc'[t].fd
  <2>1. FdInode(t)' = i /\ TempInode(t)' = i
    BY <1>2, <1>3, <1>4, <1>5 DEF FdInode, TempInode
  <2>2. NotInPlace(i)'
    BY <1>1, <1>6
  <2>3. \A g \in Fd : fds'[g].inode = i => g = f
    BY <1>1, <1>5
  <2>4. \A m \in Counter : dir'.tmp[m] = i => m = n
    BY <1>1, <1>3
  <2>5. QED
    BY <1>4, <2>1, <2>2, <2>3, <2>4 DEF NotInPlace, OnlyName
<1>8. ASSUME NEW u \in Thread, u # t
      PROVE  /\ loc'[u] = loc[u] /\ loc[u].name # n /\ loc[u].fd # f
             /\ loc[u].name \in Counter => TempInode(u)' = TempInode(u)
  <2>1. loc'[u] = loc[u]
    BY <1>2, <1>8 DEF Moves
  <2>2. loc'[u].fd # f /\ loc'[u].name # n
    <3>1. f # 0 /\ n # 0
      BY <1>2, StateFacts DEF TypeInv
    <3>2. QED
      BY <1>4, <1>8, <3>1 DEF TypeInv, Exclusive
  <2>3. QED
    BY <1>3, <2>1, <2>2 DEF TempInode
<1>9. ASSUME NEW j \in Inode, j # i, NEW m, OnlyName(j, m) PROVE OnlyName(j, m)'
  BY <1>3, <1>9 DEF OnlyName
<1>10. ASSUME NEW u \in Thread, u # t, loc[u].pc \in Writing
       PROVE  /\ NotInPlace(FdInode(u))' /\ OnlyName(FdInode(u), loc[u].name)'
              /\ TempInode(u)' \in {0, FdInode(u)'}
              /\ \A g \in Fd : fds'[g].inode = FdInode(u)' => g = loc'[u].fd
  <2>1. PICK j \in Inode, m \in Counter : j = FdInode(u) /\ m = loc[u].name
    BY <1>10, OwnFacts
  <2>2. loc[u].fd \in Fd /\ FdInode(u)' = j /\ loc'[u] = loc[u] /\ j # i
    BY <1>1, <1>5, <1>8, <1>10, <2>1, OwnFacts DEF FdInode
  <2>3. /\ NotInPlace(j) /\ OnlyName(j, m) /\ TempInode(u) \in {0, j}
        /\ \A g \in Fd : fds[g].inode = j => g = loc[u].fd
    BY <1>10, <2>1 DEF Private
  <2>4. NotInPlace(j)' /\ OnlyName(j, m)'
    BY <1>6, <1>9, <2>2, <2>3
  <2>5. \A g \in Fd : fds'[g].inode = j => g = loc[u].fd
    BY <1>5, <2>2, <2>3
  <2>6. TempInode(u)' = TempInode(u)
    BY <1>8, <1>10, <2>1
  <2>7. QED
    BY <2>1, <2>2, <2>3, <2>4, <2>5, <2>6 DEF NotInPlace, OnlyName
<1>11. ASSUME NEW u \in Thread, u # t, loc[u].pc \in Ready, TempInode(u)' # 0
       PROVE  NotInPlace(TempInode(u))' /\ OnlyName(TempInode(u), loc[u].name)'
  <2>1. loc[u].name \in Counter /\ TempInode(u)' = TempInode(u) /\ loc'[u] = loc[u]
    BY <1>8, <1>11, OwnFacts
  <2>2. PICK j \in Inode, m \in Counter : j = TempInode(u) /\ m = loc[u].name
    BY <1>11, <2>1, StateFacts DEF TypeInv, TempInode, Directory
  <2>3. NotInPlace(j) /\ OnlyName(j, m) /\ j # i
    BY <1>1, <1>11, <2>1, <2>2 DEF Private, TempInode
  <2>4. NotInPlace(j)' /\ OnlyName(j, m)'
    BY <1>6, <1>9, <2>3
  <2>5. QED
    BY <2>1, <2>2, <2>4 DEF NotInPlace, OnlyName
<1>12. ASSUME NEW u \in Thread, u # t, loc[u].pc = "raced" PROVE TempInode(u)' = 0
  BY <1>8, <1>12, OwnFacts DEF Private
<1>13. ASSUME NEW u \in Thread
       PROVE  /\ loc'[u].pc \in Writing =>
                   /\ NotInPlace(FdInode(u))' /\ OnlyName(FdInode(u), loc[u].name)'
                   /\ TempInode(u)' \in {0, FdInode(u)'}
                   /\ \A g \in Fd : fds'[g].inode = FdInode(u)' => g = loc'[u].fd
              /\ loc'[u].pc \in Ready /\ TempInode(u)' # 0 =>
                   NotInPlace(TempInode(u))' /\ OnlyName(TempInode(u), loc[u].name)'
              /\ loc'[u].pc = "raced" => TempInode(u)' = 0
  <2>1. CASE u = t
    BY <1>4, <1>7, <2>1 DEF Ready
  <2>2. CASE u # t
    BY <1>8, <1>10, <1>11, <1>12, <2>2
  <2>3. QED
    BY <2>1, <2>2
<1>14. QED
  BY <1>13 DEF Private

\* The file that is renamed is nobody else's.
LEMMA RenamePrivate ==
  ASSUME TypeInv, TypeInv', Private, NEW t \in Thread, rename_into_place(t)
  PROVE  Private'
<1>1. PICK n \in Counter, d \in Data : n = loc[t].name /\ d = loc[t].d
  <2>1. loc[t].pc = "rename"
    BY DEF rename_into_place, At
  <2>2. QED
    BY <2>1, OwnFacts DEF Ready, LocalOK
<1>2. /\ dir.tmp[n] # 0 /\ SetDir([dir EXCEPT !.chunks[d] = dir.tmp[n], !.tmp[n] = 0])
      /\ UNCHANGED fds /\ Over(t, "ok")
  BY <1>1, EndsOver DEF rename_into_place, TypeInv, Results
<1>3. /\ survives' = survives \cup {dir'} /\ dir \in survives
      /\ \A e \in Data : dir'.chunks[e] = IF e = d THEN dir.tmp[n] ELSE dir.chunks[e]
      /\ \A m \in Counter : dir'.tmp[m] = IF m = n THEN 0 ELSE dir.tmp[m]
  BY ZenonT(60), <1>2, RenamedStep, StateFacts DEF DirStep, TypeInv
<1>4. ASSUME NEW u \in Thread, u # t
      PROVE  loc'[u] = loc[u] /\ loc[u].name # n
  <2>1. n # 0
    BY StateFacts DEF TypeInv
  <2>2. QED
    BY <1>1, <1>2, <1>4, <2>1 DEF Over, Moves, TypeInv, Exclusive
<1>5. ASSUME NEW j \in Inode, NEW m \in Counter, m # n, NotInPlace(j), OnlyName(j, m)
      PROVE  NotInPlace(j)' /\ OnlyName(j, m)'
  <2>1. j # dir.tmp[n] /\ j # 0
    BY <1>5, StateFacts DEF OnlyName, TypeInv
  <2>2. NotInPlace(j)'
    BY <1>3, <1>5, <2>1 DEF NotInPlace
  <2>3. OnlyName(j, m)'
    BY <1>3, <1>5, <2>1 DEF OnlyName
  <2>4. QED
    BY <2>2, <2>3
<1>6. ASSUME NEW u \in Thread, u # t, loc[u].name \in Counter
      PROVE  TempInode(u)' = TempInode(u)
  BY <1>3, <1>4, <1>6 DEF TempInode
<1>7. ASSUME NEW u \in Thread, u # t, loc[u].pc \in Writing
      PROVE  /\ NotInPlace(FdInode(u))' /\ OnlyName(FdInode(u), loc[u].name)'
             /\ TempInode(u)' \in {0, FdInode(u)'}
             /\ \A g \in Fd : fds'[g].inode = FdInode(u)' => g = loc'[u].fd
  <2>1. PICK j \in Inode, m \in Counter : j = FdInode(u) /\ m = loc[u].name
    BY <1>7, OwnFacts
  <2>2. FdInode(u)' = j /\ loc'[u] = loc[u] /\ m # n /\ TempInode(u)' = TempInode(u)
    BY <1>2, <1>4, <1>6, <1>7, <2>1 DEF FdInode
  <2>3. /\ NotInPlace(j) /\ OnlyName(j, m) /\ TempInode(u) \in {0, j}
        /\ \A g \in Fd : fds[g].inode = j => g = loc[u].fd
    BY <1>7, <2>1 DEF Private
  <2>4. NotInPlace(j)' /\ OnlyName(j, m)'
    BY <1>5, <2>2, <2>3
  <2>5. QED
    BY <1>2, <2>1, <2>2, <2>3, <2>4 DEF NotInPlace, OnlyName
<1>8. ASSUME NEW u \in Thread, u # t, loc[u].pc \in Ready, TempInode(u)' # 0
      PROVE  NotInPlace(TempInode(u))' /\ OnlyName(TempInode(u), loc[u].name)'
  <2>1. loc[u].name \in Counter /\ TempInode(u)' = TempInode(u) /\ loc'[u] = loc[u]
    BY <1>4, <1>6, <1>8, OwnFacts
  <2>2. PICK j \in Inode, m \in Counter : j = TempInode(u) /\ m = loc[u].name
    BY <1>8, <2>1, StateFacts DEF TypeInv, TempInode, Directory
  <2>3. NotInPlace(j) /\ OnlyName(j, m) /\ m # n
    BY <1>4, <1>8, <2>1, <2>2 DEF Private
  <2>4. NotInPlace(j)' /\ OnlyName(j, m)'
    BY <1>5, <2>3
  <2>5. QED
    BY <2>1, <2>2, <2>4 DEF NotInPlace, OnlyName
<1>9. ASSUME NEW u \in Thread, u # t, loc[u].pc = "raced" PROVE TempInode(u)' = 0
  BY <1>6, <1>9, OwnFacts DEF Private
<1>10. loc'[t].pc = "idle"
  BY <1>2 DEF Over
<1>11. ASSUME NEW u \in Thread
       PROVE  /\ loc'[u].pc \in Writing =>
                   /\ NotInPlace(FdInode(u))' /\ OnlyName(FdInode(u), loc[u].name)'
                   /\ TempInode(u)' \in {0, FdInode(u)'}
                   /\ \A g \in Fd : fds'[g].inode = FdInode(u)' => g = loc'[u].fd
              /\ loc'[u].pc \in Ready /\ TempInode(u)' # 0 =>
                   NotInPlace(TempInode(u))' /\ OnlyName(TempInode(u), loc[u].name)'
              /\ loc'[u].pc = "raced" => TempInode(u)' = 0
  <2>1. CASE u = t
    BY <1>10, <2>1 DEF Ready, Writing
  <2>2. CASE u # t
    BY <1>4, <1>7, <1>8, <1>9, <2>2
  <2>3. QED
    BY <2>1, <2>2
<1>12. QED
  BY <1>11 DEF Private

LEMMA InitPrivate == ASSUME Init PROVE Private
BY IdleFields DEF Init, Private, Writing, Ready

LEMMA NextPrivate ==
  ASSUME TypeInv, TypeInv', Private, [Next]_vars
  PROVE  Private'
<1>1. CASE \E t \in Thread : Call(t)
  <2>1. PICK t \in Thread : Call(t)
    BY <1>1
  <2>2. CASE fr_tmpfile_create(t)
    <3>1. CASE NameTaken(t)
      BY <2>2, <3>1, PutQuiet, QuietPrivate
    <3>2. CASE \E i \in FreeInodes, f \in FreeFds : Created(t, i, f)
      BY <2>2, <3>2, CreatePrivate
    <3>3. QED
      BY <2>2, <3>1, <3>2, CreateMoves
  <2>3. CASE rename_into_place(t)
    BY <2>3, RenamePrivate
  <2>4. CASE ~ fr_tmpfile_create(t) /\ ~ rename_into_place(t)
    <3>1. CASE \/ put(t) \/ create_fails(t) \/ fr_fd_write_all(t) \/ all_written(t)
               \/ fr_fd_fsync(t) \/ close_temp(t) \/ put_fails(t) \/ fr_dir_create_all(t)
               \/ target_exists(t) \/ rename_fails(t) \/ raced(t)
      <4>1. Quiet
        BY <3>1, PutQuiet
      <4>2. QED
        BY <4>1, QuietPrivate
    <3>2. CASE \/ get_range(t) \/ fr_fd_read_full(t) \/ get_fails(t) \/ seek_data(t)
               \/ close_chunk(t) \/ header_refused(t) \/ remove(t) \/ cleanup_temp_files(t)
               \/ cleanup_one(t) \/ cleanup_done(t)
      BY <3>2, OtherQuiet, QuietPrivate
    <3>3. QED
      BY <2>1, <2>4, <3>1, <3>2 DEF Call
  <2>5. QED
    BY <2>2, <2>3, <2>4
<1>2. CASE power_loss
  BY <1>2, PowerLossFacts, IdleFields DEF TypeInv, Private, Writing, Ready
<1>3. CASE flush \/ altered \/ UNCHANGED vars
  <2>1. UNCHANGED <<dir, fds, loc>> /\ survives' \subseteq survives \cup {dir'}
    BY <1>3 DEF flush, altered, vars
  <2>2. Quiet
    BY <2>1 DEF Quiet, SameFile
  <2>3. QED
    BY <2>2, QuietPrivate
<1>4. QED
  BY <1>1, <1>2, <1>3 DEF Next

\* The file a put writes is its own: fr_tmpfile_create creates it exclusively,
\* so no other descriptor, no other temporary name and no chunk's name leads
\* to it before rename_into_place.
THEOREM TemporaryFilePrivate == Spec => []Private
<1>1. Init => Private
  BY InitPrivate
<1>2. TypeInv /\ TypeInv' /\ Private /\ [Next]_vars => Private'
  BY NextPrivate
<1>3. QED
  BY <1>1, <1>2, TypeInvariant, PTL DEF Spec
-----------------------------------------------------------------------------
(* What is in place is whole.                                              *)

\* The inodes a call may change: the one it writes, and a new one.
TouchesOwn(t) ==
  \A j \in Inode : \/ inode'[j] = inode[j]
                   \/ loc[t].pc \in Writing /\ j = FdInode(t)
                   \/ j \in FreeInodes

LEMMA CallInodes ==
  ASSUME TypeInv, NEW t \in Thread, Call(t)
  PROVE  TouchesOwn(t) /\ bound'.rot = bound.rot /\ bound'.crashes = bound.crashes
<1>0. inode \in InodeType
  BY StateFacts DEF TypeInv
<1>1. CASE put(t) \/ get_range(t) \/ remove(t) \/ cleanup_temp_files(t)
  <2>1. UNCHANGED inode /\ MayStart(t) /\ Counts
    BY <1>1 DEF put, get_range, remove, cleanup_temp_files
  <2>2. QED
    BY <2>1, CountsType DEF TouchesOwn, TypeInv
<1>2. CASE fr_tmpfile_create(t)
  <2>1. UNCHANGED bound
    BY <1>2 DEF fr_tmpfile_create
  <2>2. CASE NameTaken(t)
    BY <2>1, <2>2 DEF NameTaken, TouchesOwn
  <2>3. CASE \E i \in FreeInodes, f \in FreeFds : Created(t, i, f)
    <3>1. PICK i \in FreeInodes : inode' = [inode EXCEPT ![i] = NoInode]
      BY <2>3 DEF Created
    <3>2. QED
      BY <1>0, <2>1, <3>1 DEF TouchesOwn, InodeType
  <2>4. QED
    BY <1>2, <2>2, <2>3, CreateMoves
<1>3. CASE fr_fd_write_all(t)
  <2>1. UNCHANGED bound /\ loc[t].pc \in Writing
    BY <1>3 DEF fr_fd_write_all, Writing
  <2>2. PICK x : inode' = [inode EXCEPT ![FdInode(t)] = x]
    BY <1>3, WriteMoves DEF TypeInv
  <2>3. QED
    BY <1>0, <2>1, <2>2 DEF TouchesOwn, InodeType
<1>4. CASE fr_fd_fsync(t)
  <2>1. UNCHANGED bound /\ loc[t].pc \in Writing
    BY <1>4 DEF fr_fd_fsync, Writing, At
  <2>2. inode' = [inode EXCEPT ![FdInode(t)].synced = TRUE]
    BY <1>4 DEF fr_fd_fsync, FdInode
  <2>3. QED
    BY <1>0, <2>1, <2>2 DEF TouchesOwn, InodeType
<1>5. CASE UNCHANGED <<inode, bound>>
  BY <1>5 DEF TouchesOwn
<1>6. QED
  BY <1>1, <1>2, <1>3, <1>4, <1>5
  DEF Call, create_fails, all_written, close_temp, put_fails, fr_dir_create_all, target_exists,
      rename_into_place, rename_fails, raced, fr_fd_read_full, get_fails, seek_data, close_chunk,
      header_refused, cleanup_one, cleanup_done

\* Nobody else's temporary file is among them, and nothing that is in place.
LEMMA OwnUntouched ==
  ASSUME TypeInv, Private, NEW t \in Thread, TouchesOwn(t)
  PROVE  /\ \A u \in Thread : u # t /\ loc[u].pc \in Writing =>
               inode'[FdInode(u)] = inode[FdInode(u)]
         /\ \A u \in Thread : u # t /\ loc[u].pc \in Ready /\ TempInode(u) # 0 =>
               inode'[TempInode(u)] = inode[TempInode(u)]
         /\ \A dr \in survives, d \in Data : dr.chunks[d] # 0 =>
               inode'[dr.chunks[d]] = inode[dr.chunks[d]]
<1>0. TypeOK /\ dir \in survives
  BY StateFacts DEF TypeInv
<1>1. ASSUME NEW u \in Thread, u # t, loc[u].pc \in Writing
      PROVE  inode'[FdInode(u)] = inode[FdInode(u)]
  <2>1. FdInode(u) \in Inode /\ loc[u].fd \in Fd /\ loc[u].fd # 0
    BY <1>0, <1>1, OwnFacts, StateFacts
  <2>2. FdInode(u) \notin FreeInodes
    BY <1>0, <2>1, FreshInode DEF FdInode
  <2>3. loc[t].pc \in Writing => FdInode(u) # FdInode(t)
    <3>1. loc[u].fd # loc[t].fd
      BY <1>1, <2>1 DEF TypeInv, Exclusive
    <3>2. loc[t].pc \in Writing => loc[t].fd \in Fd
      BY OwnFacts
    <3>3. \A f \in Fd : fds[f].inode = FdInode(u) => f = loc[u].fd
      BY <1>1 DEF Private
    <3>4. QED
      BY <3>1, <3>2, <3>3 DEF FdInode
  <2>4. QED
    BY <2>1, <2>2, <2>3 DEF TouchesOwn
<1>2. ASSUME NEW u \in Thread, u # t, loc[u].pc \in Ready, TempInode(u) # 0
      PROVE  inode'[TempInode(u)] = inode[TempInode(u)]
  <2>1. loc[u].name \in Counter /\ loc[u].name # 0
    BY <1>0, <1>2, OwnFacts, StateFacts
  <2>2. TempInode(u) \in Inode
    BY <1>0, <1>2, <2>1, StateFacts DEF TempInode, Directory
  <2>3. TempInode(u) \notin FreeInodes
    BY <1>0, <2>1, FreshInode DEF TempInode
  <2>4. loc[t].pc \in Writing => TempInode(u) # FdInode(t)
    <3>1. loc[u].name # loc[t].name
      BY <1>2, <2>1 DEF TypeInv, Exclusive
    <3>2. loc[t].pc \in Writing => OnlyName(FdInode(t), loc[t].name)
      BY DEF Private
    <3>3. QED
      BY <2>1, <3>1, <3>2 DEF OnlyName, TempInode
  <2>5. QED
    BY <2>2, <2>3, <2>4 DEF TouchesOwn
<1>3. ASSUME NEW dr \in survives, NEW d \in Data, dr.chunks[d] # 0
      PROVE  inode'[dr.chunks[d]] = inode[dr.chunks[d]]
  <2>1. dr.chunks[d] \in Inode
    BY <1>0, <1>3, StateFacts DEF Directory
  <2>2. dr.chunks[d] \notin FreeInodes
    BY <1>0, FreshInode DEF NotInPlace
  <2>3. loc[t].pc \in Writing => dr.chunks[d] # FdInode(t)
    BY DEF Private, NotInPlace
  <2>4. QED
    BY <2>1, <2>2, <2>3 DEF TouchesOwn
<1>4. QED
  BY <1>1, <1>2, <1>3

\* The other threads keep their descriptors, and their temporary names unless
\* these are cleaned up.
OthersKeep(t) ==
  \A u \in Thread : u # t =>
    /\ loc'[u] = loc[u]
    /\ loc[u].pc \in Writing => FdInode(u)' = FdInode(u)
    /\ loc[u].pc \in Ready => TempInode(u)' \in {0, TempInode(u)}

LEMMA QuietOthers ==
  ASSUME TypeInv, NEW t \in Thread, Moves(t), Quiet
  PROVE  OthersKeep(t)
<1>1. ASSUME NEW u \in Thread, u # t, loc[u].pc \in Writing PROVE FdInode(u)' = FdInode(u)
  BY <1>1 DEF Moves, Quiet, FdInode, SameFile
<1>2. ASSUME NEW u \in Thread, u # t, loc[u].pc \in Ready PROVE TempInode(u)' \in {0, TempInode(u)}
  BY <1>2, OwnFacts DEF Moves, Quiet, TempInode
<1>3. QED
  BY <1>1, <1>2 DEF OthersKeep, Moves

LEMMA CreateOthers ==
  ASSUME TypeInv, TypeInv', NEW t \in Thread, fr_tmpfile_create(t),
         NEW i \in FreeInodes, NEW f \in FreeFds, Created(t, i, f)
  PROVE  OthersKeep(t)
<1>1. /\ Moves(t) /\ loc'[t].fd = f /\ loc'[t].name = counter + 1 /\ f \in Fd /\ i \in Inode
      /\ counter + 1 \in Counter
  BY CreateMoves DEF Keeps, Created, FreeFds, FreeInodes
<1>2. \A m \in Counter : dir'.tmp[m] = IF m = counter + 1 THEN i ELSE dir.tmp[m]
  BY <1>1, NewTempStep DEF Created, TypeInv
<1>3. \A g \in Fd : g # f => fds'[g] = fds[g]
  BY <1>1, StateFacts DEF Created, TypeInv, FdsType
<1>4. f # 0 /\ counter + 1 # 0
  BY <1>1, StateFacts DEF TypeInv
<1>5. ASSUME NEW u \in Thread, u # t
      PROVE  loc'[u] = loc[u] /\ loc[u].fd # f /\ loc[u].name # counter + 1
  BY <1>1, <1>4, <1>5 DEF Moves, TypeInv, Exclusive
<1>6. QED
  BY <1>2, <1>3, <1>5, OwnFacts DEF OthersKeep, FdInode, TempInode

LEMMA RenameOthers ==
  ASSUME TypeInv, NEW t \in Thread, rename_into_place(t)
  PROVE  OthersKeep(t)
<1>1. PICK n \in Counter, d \in Data : n = loc[t].name /\ d = loc[t].d
  <2>1. loc[t].pc = "rename"
    BY DEF rename_into_place, At
  <2>2. QED
    BY <2>1, OwnFacts DEF Ready, LocalOK
<1>2. /\ SetDir([dir EXCEPT !.chunks[d] = dir.tmp[n], !.tmp[n] = 0])
      /\ UNCHANGED fds /\ Moves(t)
  BY <1>1, EndsOver DEF rename_into_place, TypeInv, Results, Over
<1>3. \A m \in Counter : dir'.tmp[m] \in {0, dir.tmp[m]}
  BY <1>2, RenamedStep DEF TypeInv
<1>4. QED
  BY <1>2, <1>3, OwnFacts DEF OthersKeep, FdInode, TempInode, Moves

\* So they have written what they had written.
LEMMA OthersWritten ==
  ASSUME TypeInv, Private, Written, NEW t \in Thread, TouchesOwn(t), OthersKeep(t),
         NEW u \in Thread, u # t
  PROVE  WrittenBy(u)'
<1>1. WrittenBy(u) /\ loc'[u] = loc[u]
  BY DEF Written, OthersKeep
<1>2. ASSUME loc[u].pc \in Writing
      PROVE  FdInode(u)' = FdInode(u) /\ inode'[FdInode(u)] = inode[FdInode(u)]
  BY <1>2, OwnUntouched DEF OthersKeep
<1>3. ASSUME loc[u].pc \in Ready, TempInode(u)' # 0
      PROVE  TempInode(u)' = TempInode(u) /\ inode'[TempInode(u)] = inode[TempInode(u)]
  BY <1>3, OwnUntouched DEF OthersKeep
<1>4. CASE loc[u].pc \in Writing
  <2>1. loc[u].pc \notin Ready
    BY <1>4 DEF Writing, Ready
  <2>2. QED
    BY <1>1, <1>2, <1>4, <2>1 DEF WrittenBy
<1>5. CASE loc[u].pc \notin Writing
  BY <1>1, <1>3, <1>5 DEF WrittenBy, Writing
<1>6. QED
  BY <1>4, <1>5

LEMMA NothingWritten ==
  ASSUME NEW t \in Thread, loc'[t].pc \notin Writing \cup Ready
  PROVE  WrittenBy(t)'
BY DEF WrittenBy, Writing

\* The calls that write, and those whose temporary file is complete.
WriteCall(t) ==
  \/ fr_tmpfile_create(t) \/ fr_fd_write_all(t) \/ all_written(t) \/ fr_fd_fsync(t)
  \/ close_temp(t) \/ fr_dir_create_all(t) \/ target_exists(t)

LEMMA OtherCallsWriteNothing ==
  ASSUME TypeInv, NEW t \in Thread, Call(t), ~ WriteCall(t)
  PROVE  loc'[t].pc \notin Writing \cup Ready
<1> USE DEF TypeInv, Writing, Ready
<1>1. CASE put(t)
  BY <1>1, PutMoves
<1>2. CASE create_fails(t) \/ put_fails(t) \/ rename_into_place(t) \/ raced(t) \/ get_fails(t)
           \/ close_chunk(t) \/ header_refused(t) \/ cleanup_done(t)
  <2>1. \E r \in Results : Ends(t, r)
    BY <1>2 DEF create_fails, put_fails, fail, rename_into_place, raced, get_fails, close_chunk,
                header_refused, cleanup_done, Results
  <2>2. QED
    BY <2>1, EndsOver DEF Over
<1>3. CASE rename_fails(t)
  BY <1>3, GotoMoves DEF rename_fails, Labels
<1>4. CASE get_range(t)
  BY <1>4, GetMoves
<1>5. CASE fr_fd_read_full(t)
  <2>1. loc[t].pc \in Reading
    BY <1>5 DEF fr_fd_read_full, Reading
  <2>2. loc'[t].pc = loc[t].pc
    BY <1>5, <2>1, OwnFacts, ReadMoves
  <2>3. QED
    BY <2>1, <2>2 DEF Reading
<1>6. CASE seek_data(t)
  BY <1>6, SeekMoves DEF Over
<1>7. CASE remove(t)
  BY <1>7, RemoveMoves
<1>8. CASE cleanup_temp_files(t)
  BY <1>8, CleanupMoves
<1>9. CASE cleanup_one(t)
  BY <1>9, CleanupOneMoves
<1>10. QED
  BY <1>1, <1>2, <1>3, <1>4, <1>5, <1>6, <1>7, <1>8, <1>9 DEF Call, WriteCall

LEMMA FileFacts ==
  ASSUME TypeInv, NEW t \in Thread, loc[t].pc \in Writing
  PROVE  /\ loc[t].fd \in Fd /\ FdInode(t) \in Inode /\ loc[t].name \in Counter /\ loc[t].d \in Data
         /\ inode[FdInode(t)] \in [bytes : Seq(Nat), synced : BOOLEAN]
         /\ inode[FdInode(t)].bytes \in Seq(Nat) /\ loc[t].left \in Seq(Nat)
<1>1. loc[t].fd \in Fd /\ FdInode(t) \in Inode /\ loc[t].name \in Counter
  BY OwnFacts
<1>2. loc[t].d \in Data
  BY OwnFacts DEF LocalOK, Writing
<1>3. inode[FdInode(t)] \in [bytes : Seq(Nat), synced : BOOLEAN]
  BY <1>1, StateFacts DEF TypeInv, InodeType
<1>4. inode[FdInode(t)].bytes \in Seq(Nat) /\ loc[t].left \in Seq(Nat)
  BY <1>3, LocalFacts DEF TypeInv
<1>5. QED
  BY <1>1, <1>2, <1>3, <1>4

LEMMA SelfWritten ==
  ASSUME TypeInv, TypeInv', Private, Written, NEW t \in Thread, WriteCall(t)
  PROVE  WrittenBy(t)'
<1> USE DEF TypeInv
<1>0. WrittenBy(t)
  BY DEF Written
<1>1. CASE fr_tmpfile_create(t)
  <2>1. CASE NameTaken(t)
    BY <2>1, NothingWritten DEF NameTaken, Writing, Ready
  <2>2. CASE \E i \in FreeInodes, f \in FreeFds : Created(t, i, f)
    <3>1. PICK i \in FreeInodes, f \in FreeFds : Created(t, i, f)
      BY <2>2
    <3>2. i \in Inode /\ f \in Fd /\ loc[t].d \in Data /\ loc'[t].d = loc[t].d
      BY <1>1, CreateMoves DEF FreeInodes, FreeFds, Keeps
    <3>3. loc'[t].pc = "header" /\ loc'[t].left = store_header(loc[t].d) /\ loc'[t].fd = f
      BY <3>1 DEF Created
    <3>4. FdInode(t)' = i /\ inode'[i].bytes = <<>>
      BY <3>1, <3>2, <3>3, StateFacts DEF Created, FdInode, FdsType, InodeType, NoInode
    <3>5. <<>> \o store_header(loc[t].d) = store_header(loc[t].d)
      BY <3>2, StoreHeaderType, ConcatEmptySeq
    <3>6. QED
      BY <3>2, <3>3, <3>4, <3>5 DEF WrittenBy, Ready
  <2>3. QED
    BY <1>1, <2>1, <2>2, CreateMoves
<1>2. CASE fr_fd_write_all(t)
  <2>1. loc[t].pc \in {"header", "data"} /\ Stays(t) /\ loc'[t].pc = loc[t].pc
    BY <1>2, WriteMoves
  <2>2. PICK w \in 1 .. Len(loc[t].left) :
          /\ inode' = [inode EXCEPT ![FdInode(t)] =
                         [bytes |-> @.bytes \o SubSeq(loc[t].left, 1, w), synced |-> FALSE]]
          /\ loc'[t].left = SubSeq(loc[t].left, w + 1, Len(loc[t].left))
    BY <1>2, WriteMoves
  <2>3. FdInode(t) \in Inode /\ inode[FdInode(t)].bytes \in Seq(Nat) /\ loc[t].left \in Seq(Nat)
    BY <2>1, FileFacts DEF Writing
  <2>4. FdInode(t)' = FdInode(t)
    BY <1>2, <2>1 DEF fr_fd_write_all, FdInode, Stays
  <2>5. PICK b \in Seq(Nat), a \in Seq(Nat), r \in Seq(Nat) :
          /\ b = inode[FdInode(t)].bytes /\ a = SubSeq(loc[t].left, 1, w)
          /\ r = SubSeq(loc[t].left, w + 1, Len(loc[t].left)) /\ a \o r = loc[t].left
    <3>1. w \in 0 .. Len(loc[t].left)
      BY <2>3, LenProperties
    <3>2. PICK l \in Seq(Nat) : l = loc[t].left
      BY <2>3
    <3>3. /\ SubSeq(l, 1, w) \in Seq(Nat) /\ SubSeq(l, w + 1, Len(l)) \in Seq(Nat)
          /\ SubSeq(l, 1, w) \o SubSeq(l, w + 1, Len(l)) = l
      BY <3>1, <3>2, Tails
    <3>4. QED
      BY <2>3, <3>2, <3>3, Zenon
  <2>6. inode'[FdInode(t)'].bytes = b \o a
    BY <2>2, <2>3, <2>4, <2>5, StateFacts DEF InodeType
  <2>7. inode'[FdInode(t)'].bytes \o loc'[t].left = inode[FdInode(t)].bytes \o loc[t].left
    <3>1. (b \o a) \o r = b \o (a \o r)
      BY ConcatAssociative
    <3>2. QED
      BY <2>2, <2>5, <2>6, <3>1
  <2>8. loc'[t].d = loc[t].d
    BY <2>1 DEF Stays, Keeps
  <2>9. QED
    BY <1>0, <2>1, <2>7, <2>8 DEF WrittenBy, Ready
<1>3. CASE all_written(t)
  <2>1. /\ Stays(t) /\ loc[t].left = <<>> /\ UNCHANGED <<inode, fds>>
        /\ \/ loc[t].pc = "header" /\ loc'[t].pc = "data" /\ loc'[t].left = loc[t].d
           \/ loc[t].pc = "data" /\ loc'[t].pc = "fsync"
    BY <1>3, WrittenMoves DEF all_written
  <2>2. inode'[FdInode(t)'] = inode[FdInode(t)] /\ loc'[t].d = loc[t].d
    BY <2>1 DEF Stays, Keeps, FdInode
  <2>3. inode[FdInode(t)].bytes \in Seq(Nat)
    BY <2>1, FileFacts DEF Writing
  <2>4. inode[FdInode(t)].bytes \o loc[t].left = inode[FdInode(t)].bytes
    BY <2>1, <2>3, ConcatEmptySeq
  <2>5. QED
    BY <1>0, <2>1, <2>2, <2>4 DEF WrittenBy, Ready, Whole
<1>4. CASE fr_fd_fsync(t)
  <2>1. Stays(t) /\ loc[t].pc = "fsync" /\ loc'[t].pc = "close" /\ UNCHANGED fds
    BY <1>4, GotoMoves DEF fr_fd_fsync, At, Labels
  <2>2. inode' = [inode EXCEPT ![FdInode(t)].synced = TRUE]
    BY <1>4 DEF fr_fd_fsync, FdInode
  <2>3. FdInode(t) \in Inode /\ FdInode(t)' = FdInode(t) /\ loc'[t].d = loc[t].d
    BY <2>1, FileFacts DEF Stays, Keeps, FdInode, Writing
  <2>4. inode'[FdInode(t)].synced /\ inode'[FdInode(t)].bytes = inode[FdInode(t)].bytes
    BY <2>2, <2>3, StateFacts DEF InodeType
  <2>5. QED
    BY <1>0, <2>1, <2>3, <2>4 DEF WrittenBy, Ready
<1>5. CASE close_temp(t)
  <2>1. /\ loc[t].pc = "close" /\ loc'[t].pc = "mkdir" /\ loc'[t].name = loc[t].name
        /\ loc'[t].d = loc[t].d /\ UNCHANGED <<dir, inode>>
    BY <1>5, CloseMoves DEF Keeps, close_temp
  <2>2. TempInode(t)' = TempInode(t) /\ (TempInode(t) # 0 => TempInode(t) = FdInode(t))
    BY <2>1 DEF TempInode, Private, Writing
  <2>3. inode[FdInode(t)] \in [bytes : Seq(Nat), synced : BOOLEAN]
    BY <2>1, FileFacts DEF Writing
  <2>4. inode[FdInode(t)].bytes = Whole(loc[t].d) /\ inode[FdInode(t)].synced
    BY <1>0, <2>1 DEF WrittenBy
  <2>5. inode[FdInode(t)] = [bytes |-> Whole(loc[t].d), synced |-> TRUE]
    BY <2>3, <2>4
  <2>6. QED
    BY <2>1, <2>2, <2>5 DEF WrittenBy
<1>6. CASE fr_dir_create_all(t)
  <2>1. /\ Stays(t) /\ loc[t].pc = "mkdir" /\ loc'[t].pc = "exists" /\ UNCHANGED <<dir, inode>>
    BY <1>6, GotoMoves DEF fr_dir_create_all, At, Labels
  <2>2. TempInode(t)' = TempInode(t) /\ loc'[t].d = loc[t].d
    BY <2>1 DEF TempInode, Stays, Keeps
  <2>3. QED
    BY <1>0, <2>1, <2>2 DEF WrittenBy, Ready
<1>7. CASE target_exists(t)
  <2>1. CASE loc[t].d \in InPlace
    <3>1. loc'[t].pc = "idle"
      BY <1>7, <2>1, EndsOver DEF target_exists, Results, Over
    <3>2. QED
      BY <3>1, NothingWritten DEF Writing, Ready
  <2>2. CASE loc[t].d \notin InPlace
    <3>1. /\ Stays(t) /\ loc[t].pc = "exists" /\ loc'[t].pc = "rename"
          /\ UNCHANGED <<dir, inode>>
      BY <1>7, <2>2, GotoMoves DEF target_exists, At, Labels
    <3>2. TempInode(t)' = TempInode(t) /\ loc'[t].d = loc[t].d
      BY <3>1 DEF TempInode, Stays, Keeps
    <3>3. QED
      BY <1>0, <3>1, <3>2 DEF WrittenBy, Ready
  <2>3. QED
    BY <2>1, <2>2
<1>8. QED
  BY <1>1, <1>2, <1>3, <1>4, <1>5, <1>6, <1>7 DEF WriteCall

\* Every call is a rename, a creation or quiet.
LEMMA CallKinds ==
  ASSUME TypeInv, TypeInv', NEW t \in Thread, Call(t)
  PROVE  \/ rename_into_place(t)
         \/ fr_tmpfile_create(t) /\ \E i \in FreeInodes, f \in FreeFds : Created(t, i, f)
         \/ Quiet
<1>1. CASE \/ put(t) \/ create_fails(t) \/ fr_fd_write_all(t) \/ all_written(t)
           \/ fr_fd_fsync(t) \/ close_temp(t) \/ put_fails(t) \/ fr_dir_create_all(t)
           \/ target_exists(t) \/ rename_fails(t) \/ raced(t)
  BY <1>1, PutQuiet
<1>2. CASE \/ get_range(t) \/ fr_fd_read_full(t) \/ get_fails(t) \/ seek_data(t)
           \/ close_chunk(t) \/ header_refused(t) \/ remove(t) \/ cleanup_temp_files(t)
           \/ cleanup_one(t) \/ cleanup_done(t)
  BY <1>2, OtherQuiet
<1>3. CASE fr_tmpfile_create(t)
  <2>1. CASE NameTaken(t)
    <3>1. Quiet
      BY <1>3, <2>1, PutQuiet
    <3>2. QED
      BY <3>1
  <2>2. QED
    BY <1>3, <2>1, CreateMoves
<1>4. QED
  BY <1>1, <1>2, <1>3 DEF Call

LEMMA CallThread ==
  ASSUME TypeInv, NEW t \in Thread, Call(t)
  PROVE  Moves(t)
<1> USE DEF TypeInv
<1>1. CASE put(t) \/ get_range(t) \/ remove(t) \/ cleanup_temp_files(t)
  BY <1>1, PutMoves, GetMoves, RemoveMoves, CleanupMoves DEF Begins
<1>2. CASE create_fails(t) \/ put_fails(t) \/ rename_into_place(t) \/ raced(t) \/ get_fails(t)
           \/ close_chunk(t) \/ header_refused(t) \/ cleanup_done(t)
  <2>1. \E r \in Results : Ends(t, r)
    BY <1>2 DEF create_fails, put_fails, fail, rename_into_place, raced, get_fails, close_chunk,
                header_refused, cleanup_done, Results
  <2>2. QED
    BY <2>1, EndsOver DEF Over
<1>3. CASE fr_dir_create_all(t) \/ rename_fails(t) \/ fr_fd_fsync(t)
  <2>1. \E pc \in Labels : Goto(t, pc)
    BY <1>3 DEF fr_dir_create_all, rename_fails, fr_fd_fsync, Labels
  <2>2. QED
    BY <2>1, GotoMoves DEF Stays, Keeps
<1>4. CASE target_exists(t)
  <2>1. (\E r \in Results : Ends(t, r)) \/ \E pc \in Labels : Goto(t, pc)
    BY <1>4 DEF target_exists, Labels, Results
  <2>2. QED
    BY <2>1, EndsOver, GotoMoves DEF Stays, Keeps, Over
<1>5. CASE fr_fd_read_full(t)
  <2>1. loc[t].pc \in Reading
    BY <1>5 DEF fr_fd_read_full, Reading
  <2>2. QED
    BY <1>5, <2>1, OwnFacts, ReadMoves DEF Keeps
<1>6. CASE seek_data(t)
  BY <1>6, SeekMoves DEF Over, Keeps
<1>7. CASE fr_tmpfile_create(t) \/ fr_fd_write_all(t) \/ all_written(t) \/ close_temp(t)
           \/ cleanup_one(t)
  BY <1>7, CreateMoves, WriteMoves, WrittenMoves, CloseMoves, CleanupOneMoves DEF Stays, Keeps
<1>8. QED
  BY <1>1, <1>2, <1>3, <1>4, <1>5, <1>6, <1>7 DEF Call

LEMMA CallWritten ==
  ASSUME TypeInv, TypeInv', Private, Written, NEW t \in Thread, Call(t)
  PROVE  Written'
<1>1. TouchesOwn(t)
  BY CallInodes
<1>2. OthersKeep(t)
  <2>1. CASE rename_into_place(t)
    BY <2>1, RenameOthers
  <2>2. CASE fr_tmpfile_create(t) /\ \E i \in FreeInodes, f \in FreeFds : Created(t, i, f)
    BY <2>2, CreateOthers
  <2>3. CASE Quiet
    BY <2>3, CallThread, QuietOthers
  <2>4. QED
    BY <2>1, <2>2, <2>3, CallKinds
<1>3. WrittenBy(t)'
  BY SelfWritten, OtherCallsWriteNothing, NothingWritten
<1>4. \A u \in Thread : u # t => WrittenBy(u)'
  BY <1>1, <1>2, OthersWritten
<1>5. QED
  BY <1>3, <1>4 DEF Written

\* A file with no altered element is the chunk; one more element may differ
\* after one more alteration.
LEMMA WholeIsChunk ==
  ASSUME TypeOK, NEW d \in Data
  PROVE  IsChunk(Whole(d), d)
<1>1. Altered(Whole(d), Whole(d)) = {}
  BY DEF Altered
<1>2. bound.rot \in Nat
  BY StateFacts, ChunkFileAssumption DEF BoundType
<1>3. QED
  BY <1>1, <1>2, FS_EmptySet DEF IsChunk

LEMMA AlteredFinite ==
  ASSUME NEW b \in Seq(Nat), NEW w
  PROVE  IsFiniteSet(Altered(b, w)) /\ Cardinality(Altered(b, w)) \in Nat
<1>1. Len(b) \in Nat /\ DOMAIN b = 1 .. Len(b)
  BY LenProperties
<1>2. IsFiniteSet(1 .. Len(b))
  BY <1>1, FS_Interval
<1>3. Altered(b, w) \in SUBSET (1 .. Len(b))
  BY <1>1 DEF Altered
<1>4. IsFiniteSet(Altered(b, w))
  BY <1>2, <1>3, FS_Subset
<1>5. QED
  BY <1>4, FS_CardinalityType

LEMMA OneMoreAltered ==
  ASSUME NEW b \in Seq(Nat), NEW c \in Seq(Nat), Len(c) = Len(b), NEW p \in 1 .. Len(b), NEW w,
         \A q \in 1 .. Len(b) : q # p => c[q] = b[q]
  PROVE  Cardinality(Altered(c, w)) <= Cardinality(Altered(b, w)) + 1
<1>1. Len(b) \in Nat /\ DOMAIN b = 1 .. Len(b) /\ DOMAIN c = 1 .. Len(b)
  BY LenProperties
<1>2. Altered(c, w) \subseteq Altered(b, w) \cup {p}
  BY <1>1 DEF Altered
<1>4. IsFiniteSet(Altered(b, w)) /\ Cardinality(Altered(b, w)) \in Nat
  BY AlteredFinite
<1>6. /\ IsFiniteSet(Altered(b, w) \cup {p})
      /\ Cardinality(Altered(b, w) \cup {p}) \in
           {Cardinality(Altered(b, w)), Cardinality(Altered(b, w)) + 1}
  BY <1>4, FS_AddElement
<1>7. Cardinality(Altered(c, w)) <= Cardinality(Altered(b, w) \cup {p})
  BY <1>2, <1>6, FS_Subset
<1>8. Cardinality(Altered(c, w)) \in Nat
  BY <1>2, <1>6, FS_Subset, FS_CardinalityType
<1>9. QED
  BY <1>4, <1>6, <1>7, <1>8

\* Nothing that was in place is written, and what is renamed is whole.
LEMMA CallWhole ==
  ASSUME TypeInv, TypeInv', Private, Written, SurvivesWhole, NEW t \in Thread, Call(t)
  PROVE  SurvivesWhole'
<1>0. TypeOK /\ dir \in survives /\ bound'.rot = bound.rot
  BY StateFacts, CallInodes DEF TypeInv
<1>1. ASSUME NEW i, NEW d \in Data, Complete(i, d), inode'[i] = inode[i]
      PROVE  Complete(i, d)'
  BY <1>0, <1>1 DEF Complete, IsChunk
<1>2. ASSUME NEW dr \in survives, NEW d \in Data, dr.chunks[d] # 0
      PROVE  Complete(dr.chunks[d], d)'
  <2>1. PICK i : i = dr.chunks[d]
    OBVIOUS
  <2>2. inode'[i] = inode[i] /\ Complete(i, d)
    BY <1>2, <2>1, CallInodes, OwnUntouched DEF SurvivesWhole
  <2>3. QED
    BY <1>1, <2>1, <2>2
<1>3. PICK dn : dn = dir'
  OBVIOUS
<1>4. SUFFICES /\ survives' \subseteq survives \cup {dn}
               /\ \A d \in Data : dn.chunks[d] # 0 => Complete(dn.chunks[d], d)'
  <2>1. \A dr \in survives', d \in Data : dr.chunks[d] # 0 => Complete(dr.chunks[d], d)'
    BY <1>2, <1>4
  <2>2. QED
    BY <2>1 DEF SurvivesWhole
<1>5. CASE rename_into_place(t)
  <2>1. loc[t].pc = "rename" /\ TempInode(t) # 0 /\ UNCHANGED inode
    BY <1>5 DEF rename_into_place, At, TempInode
  <2>2. PICK n \in Counter, d \in Data : n = loc[t].name /\ d = loc[t].d
    BY <2>1, OwnFacts DEF Ready, LocalOK
  <2>3. SetDir([dir EXCEPT !.chunks[d] = dir.tmp[n], !.tmp[n] = 0])
    BY <1>5, <2>2 DEF rename_into_place
  <2>4. PICK x : x = dir.tmp[n]
    OBVIOUS
  <2>5. /\ survives' = survives \cup {dn}
        /\ \A e \in Data : dn.chunks[e] = IF e = d THEN x ELSE dir.chunks[e]
    BY ZenonT(60), <1>0, <1>3, <2>3, <2>4, RenamedStep DEF DirStep
  <2>6. inode[x] = [bytes |-> Whole(d), synced |-> TRUE]
    BY <2>1, <2>2, <2>4 DEF Written, WrittenBy, TempInode, Ready
  <2>7. Complete(x, d)'
    <3>1. Complete(x, d)
      BY <1>0, <2>6, WholeIsChunk DEF Complete
    <3>2. QED
      BY <1>1, <2>1, <3>1
  <2>8. ASSUME NEW e \in Data, dn.chunks[e] # 0 PROVE Complete(dn.chunks[e], e)'
    BY <1>0, <1>2, <2>5, <2>7, <2>8
  <2>9. QED
    BY <2>5, <2>8
<1>6. CASE ~ rename_into_place(t)
  <2>1. /\ survives' \subseteq survives \cup {dn}
        /\ \A d \in Data : dn.chunks[d] \in {0, dir.chunks[d]}
    <3>1. CASE fr_tmpfile_create(t) /\ \E i \in FreeInodes, f \in FreeFds : Created(t, i, f)
      <4>1. PICK i \in Inode : SetDir([dir EXCEPT !.tmp[counter + 1] = i])
        BY <3>1 DEF Created, FreeInodes
      <4>2. counter + 1 \in Counter
        BY <3>1, CreateMoves
      <4>3. QED
        BY <1>0, <1>3, <4>1, <4>2, NewTempStep DEF DirStep
    <3>2. CASE Quiet
      BY <1>3, <3>2 DEF Quiet
    <3>3. QED
      BY <1>6, <3>1, <3>2, CallKinds
  <2>2. ASSUME NEW d \in Data, dn.chunks[d] # 0 PROVE Complete(dn.chunks[d], d)'
    BY <1>0, <1>2, <2>1, <2>2
  <2>3. QED
    BY <2>1, <2>2
<1>7. QED
  BY <1>5, <1>6

LEMMA PowerLossWhole ==
  ASSUME TypeInv, SurvivesWhole, power_loss
  PROVE  SurvivesWhole'
<1>1. PICK dn \in survives : dn = dir'
  BY PowerLossFacts
<1>2. survives' = {dn} /\ dn \in Directory /\ bound'.rot = bound.rot
  BY <1>1, PowerLossFacts
<1>3. ASSUME NEW d \in Data, dn.chunks[d] # 0 PROVE Complete(dn.chunks[d], d)'
  <2>1. PICK i : i = dn.chunks[d]
    OBVIOUS
  <2>2. Complete(i, d) /\ i \in Names(dn) /\ i # 0
    BY <1>2, <1>3, <2>1, NamesType DEF SurvivesWhole
  <2>3. inode'[i] = inode[i]
    BY <1>1, <2>2, PowerLossFacts DEF Complete
  <2>4. QED
    BY <1>2, <2>1, <2>2, <2>3 DEF Complete, IsChunk
<1>4. QED
  BY <1>2, <1>3 DEF SurvivesWhole

LEMMA AlteredWhole ==
  ASSUME TypeInv, SurvivesWhole, altered
  PROVE  SurvivesWhole'
<1>0. TypeOK /\ survives' = survives /\ bound'.rot = bound.rot + 1 /\ bound.rot \in Nat
  <2>1. TypeOK
    BY DEF TypeInv
  <2>2. bound.rot \in Nat
    BY <2>1, StateFacts, ChunkFileAssumption DEF BoundType
  <2>3. QED
    BY <2>1, <2>2, AlteredFacts
<1>1. PICK i \in Inode :
        /\ \A j \in Inode : j # i => inode'[j] = inode[j]
        /\ inode'[i].synced = inode[i].synced
        /\ \E p \in DOMAIN inode[i].bytes : inode'[i].bytes = [inode[i].bytes EXCEPT ![p] = @ + 1]
  BY <1>0, AlteredFacts
<1>2. PICK b \in Seq(Nat) : b = inode[i].bytes
  BY <1>0, StateFacts DEF InodeType
<1>3. PICK p \in 1 .. Len(b) : inode'[i].bytes = [b EXCEPT ![p] = b[p] + 1] /\ b[p] + 1 \in Nat
  <2>1. DOMAIN b = 1 .. Len(b) /\ \A p \in 1 .. Len(b) : b[p] + 1 \in Nat
    BY LenProperties
  <2>2. PICK p \in DOMAIN b : inode'[i].bytes = [b EXCEPT ![p] = @ + 1]
    BY <1>1, <1>2
  <2>3. QED
    BY <2>1, <2>2
<1>4. PICK c \in Seq(Nat) : /\ c = inode'[i].bytes /\ Len(c) = Len(b)
                            /\ \A q \in 1 .. Len(b) : q # p => c[q] = b[q]
  <2>1. PICK v \in Nat : v = b[p] + 1
    BY <1>3
  <2>2. /\ [b EXCEPT ![p] = v] \in Seq(Nat) /\ Len([b EXCEPT ![p] = v]) = Len(b)
        /\ \A q \in 1 .. Len(b) : q # p => [b EXCEPT ![p] = v][q] = b[q]
    BY ExceptSeq
  <2>3. QED
    BY <1>3, <2>1, <2>2
<1>5. ASSUME NEW d \in Data, NEW j \in Inode, Complete(j, d) PROVE Complete(j, d)'
  <2>1. Len(inode[j].bytes) = Len(Whole(d)) /\ Cardinality(Altered(inode[j].bytes, Whole(d))) <= bound.rot
        /\ inode[j].synced
    BY <1>5 DEF Complete, IsChunk
  <2>2. Cardinality(Altered(inode[j].bytes, Whole(d))) \in Nat
    <3>1. PICK e \in Seq(Nat) : e = inode[j].bytes
      BY <1>0, StateFacts DEF InodeType
    <3>2. QED
      BY <3>1, AlteredFinite
  <2>3. CASE j # i
    BY <1>0, <1>1, <2>1, <2>2, <2>3 DEF Complete, IsChunk
  <2>4. CASE j = i
    <3>1. Cardinality(Altered(c, Whole(d))) <= Cardinality(Altered(b, Whole(d))) + 1
      BY <1>3, <1>4, OneMoreAltered
    <3>3. Cardinality(Altered(c, Whole(d))) \in Nat
      BY AlteredFinite
    <3>4. Cardinality(Altered(c, Whole(d))) <= bound.rot + 1
      BY <1>0, <1>2, <2>1, <2>2, <2>4, <3>1, <3>3
    <3>5. QED
      BY <1>0, <1>1, <1>2, <1>4, <2>1, <2>4, <3>4 DEF Complete, IsChunk
  <2>5. QED
    BY <2>3, <2>4
<1>6. ASSUME NEW dr \in survives, NEW d \in Data, dr.chunks[d] # 0
      PROVE  Complete(dr.chunks[d], d)'
  <2>1. PICK j \in Inode : j = dr.chunks[d]
    BY <1>0, <1>6, StateFacts DEF Directory
  <2>2. Complete(j, d)
    BY <1>6, <2>1 DEF SurvivesWhole
  <2>3. QED
    BY <1>5, <2>1, <2>2
<1>7. QED
  BY <1>0, <1>6 DEF SurvivesWhole

Contents == Private /\ Written /\ SurvivesWhole

LEMMA InitContents == ASSUME Init PROVE Contents
<1>1. Written
  BY IdleFields DEF Init, Written, WrittenBy, Ready
<1>2. SurvivesWhole
  BY DEF Init, SurvivesWhole
<1>3. QED
  BY <1>1, <1>2, InitPrivate DEF Contents

LEMMA NextContents == ASSUME TypeInv, TypeInv', Contents, [Next]_vars PROVE Contents'
<1> USE DEF Contents
<1>1. Private'
  BY NextPrivate
<1>2. CASE \E t \in Thread : Call(t)
  BY <1>1, <1>2, CallWritten, CallWhole
<1>3. CASE power_loss
  <2>1. Written'
    BY <1>3, PowerLossFacts, IdleFields, NothingWritten DEF Written, Writing, Ready
  <2>2. QED
    BY <1>1, <1>3, <2>1, PowerLossWhole
<1>4. CASE flush
  <2>1. UNCHANGED <<dir, inode, fds, loc, bound>> /\ survives' = {dir} /\ dir \in survives
    BY <1>4, StateFacts DEF flush, TypeInv
  <2>2. Written'
    BY <2>1 DEF Written, WrittenBy, FdInode, TempInode
  <2>3. SurvivesWhole'
    BY <2>1 DEF SurvivesWhole, Complete, IsChunk
  <2>4. QED
    BY <1>1, <2>2, <2>3
<1>5. CASE altered
  <2>1. UNCHANGED <<dir, survives, fds, loc>> /\ dir \in survives
    BY <1>5, AlteredFacts, StateFacts DEF TypeInv
  <2>2. PICK d \in Data, i \in Inode :
          i = dir.chunks[d] /\ \A j \in Inode : j # i => inode'[j] = inode[j]
    BY <1>5, AlteredFacts DEF TypeInv, InPlace
  <2>3. ASSUME NEW u \in Thread, loc[u].pc \in Writing PROVE inode'[FdInode(u)] = inode[FdInode(u)]
    BY <2>1, <2>2, <2>3, FileFacts DEF Private, NotInPlace
  <2>4. ASSUME NEW u \in Thread, loc[u].pc \in Ready, TempInode(u) # 0
        PROVE  inode'[TempInode(u)] = inode[TempInode(u)]
    <3>1. TempInode(u) \in Inode
      BY <2>4, OwnFacts, StateFacts DEF TypeInv, TempInode, Directory
    <3>2. TempInode(u) # i
      BY <2>1, <2>2, <2>4 DEF Private, NotInPlace
    <3>3. QED
      BY <2>2, <3>1, <3>2
  <2>5. ASSUME NEW u \in Thread PROVE WrittenBy(u)'
    <3>1. FdInode(u)' = FdInode(u) /\ TempInode(u)' = TempInode(u) /\ WrittenBy(u)
      BY <2>1 DEF FdInode, TempInode, Written
    <3>2. CASE loc[u].pc \in Writing
      <4>1. loc[u].pc \notin Ready
        BY <3>2 DEF Writing, Ready
      <4>2. QED
        BY <2>1, <2>3, <3>1, <3>2, <4>1 DEF WrittenBy
    <3>3. CASE loc[u].pc \notin Writing
      BY <2>1, <2>4, <3>1, <3>3 DEF WrittenBy, Writing
    <3>4. QED
      BY <3>2, <3>3
  <2>6. Written'
    BY <2>5 DEF Written
  <2>7. QED
    BY <1>1, <1>5, <2>6, AlteredWhole
<1>6. CASE UNCHANGED vars
  BY <1>1, <1>6 DEF vars, Written, WrittenBy, FdInode, TempInode, SurvivesWhole, Complete, IsChunk
<1>7. QED
  BY <1>2, <1>3, <1>4, <1>5, <1>6 DEF Next

\* The bytes of write_chunk_file, from the temporary file to the chunk in
\* place: what is written and what is left make up the file, and what any
\* directory a power loss may leave names as a chunk is synced and whole.
THEOREM ContentsInvariant == Spec => []Contents
<1>1. Init => Contents
  BY InitContents
<1>2. TypeInv /\ TypeInv' /\ Contents /\ [Next]_vars => Contents'
  BY NextContents
<1>3. QED
  BY <1>1, <1>2, TypeInvariant, PTL DEF Spec

\* write_chunk_file writes, syncs and renames: whatever is found under a
\* chunk's name is the whole file but for what the medium altered, whoever
\* else writes, removes or cleans up and whenever the power fails.
THEOREM ChunksWhole == Spec => []InPlaceWhole
<1>1. TypeInv /\ Contents => InPlaceWhole
  <2> SUFFICES ASSUME TypeInv, Contents, NEW d \in InPlace
               PROVE  IsChunk(inode[dir.chunks[d]].bytes, d)
    BY DEF InPlaceWhole, IsChunk, Altered
  <2>1. dir \in survives /\ d \in Data /\ dir.chunks[d] # 0
    BY StateFacts DEF TypeInv, InPlace
  <2>2. QED
    BY <2>1 DEF Contents, SurvivesWhole, Complete
<1>2. QED
  BY <1>1, TypeInvariant, ContentsInvariant, PTL
-----------------------------------------------------------------------------
(* The checksum gives one altered element away.                            *)

LEMMA SumStep ==
  ASSUME NEW f, NEW n \in Nat, NEW v, SumTo(f, n, v)
  PROVE  f[0] = 0 /\ \A i \in 1 .. n : f[i] = f[i - 1] + i * v[i]
<1>1. \A i \in 0 .. n : f[i] = IF i = 0 THEN 0 ELSE f[i - 1] + i * v[i]
  BY DEF SumTo
<1>2. 0 \in 0 .. n /\ \A i \in 1 .. n : i \in 0 .. n /\ i # 0
  OBVIOUS
<1>3. QED
  BY <1>1, <1>2, Zenon

\* The sums are equal up to the element, and differ by the same from there on.
Differ(g, h, s, r, k) ==
  \A i \in 0 .. Len(s) : IF i < k THEN h[i] = g[i] ELSE h[i] - g[i] = k * r[k] - k * s[k]

LEMMA SumBefore ==
  ASSUME NEW s \in Seq(Nat), NEW r \in Seq(Nat), Len(r) = Len(s), NEW k \in 1 .. Len(s),
         \A i \in 1 .. Len(s) : i # k => r[i] = s[i],
         NEW g, SumTo(g, Len(s), s), NEW h, SumTo(h, Len(s), r)
  PROVE  Differ(g, h, s, r, k)
<1>1. Len(s) \in Nat /\ k \in Nat /\ s[k] \in Nat /\ r[k] \in Nat
  BY LenProperties, ElementOfSeq
<1>2. \A i \in 0 .. Len(s) : g[i] \in Nat /\ h[i] \in Nat
  <2>1. g \in [0 .. Len(s) -> Nat]
    BY SumType
  <2>2. h \in [0 .. Len(s) -> Nat]
    BY SumType
  <2>3. QED
    BY <2>1, <2>2
<1>3. PICK a \in Nat, c \in Nat : a = k * r[k] /\ c = k * s[k]
  <2>1. \A x, y \in Nat : x * y \in Nat
    OBVIOUS
  <2>2. QED
    BY <1>1, <2>1
<1>7. \A f, v : SumTo(f, Len(s), v) =>
        f[0] = 0 /\ \A i \in 1 .. Len(s) : f[i] = f[i - 1] + i * v[i]
  BY <1>1, SumStep
<1>6. /\ g[0] = 0 /\ \A i \in 1 .. Len(s) : g[i] = g[i - 1] + i * s[i]
      /\ h[0] = 0 /\ \A i \in 1 .. Len(s) : h[i] = h[i - 1] + i * r[i]
  BY <1>7, Zenon
<1> DEFINE Bad == {i \in 0 .. Len(s) : ~ IF i < k THEN h[i] = g[i] ELSE h[i] - g[i] = a - c}
<1>4. Bad = {}
  <2> SUFFICES ASSUME Bad # {} PROVE FALSE
    OBVIOUS
  <2>1. PICK m \in Bad : \A i \in Bad : m <= i
    <3>1. Bad \in SUBSET Nat
      OBVIOUS
    <3>2. QED
      BY <3>1, LeastNat
  <2>2. m # 0
    <3>1. g[0] = 0 /\ h[0] = 0
      BY <1>6
    <3>2. QED
      BY <1>1, <3>1
  <2>3. m \in 1 .. Len(s) /\ m - 1 \in 0 .. Len(s) /\ m - 1 \notin Bad
    <3>1. m \in 1 .. Len(s) /\ m - 1 \in 0 .. Len(s) /\ m \in Nat /\ ~ (m <= m - 1)
      BY <1>1, <2>2
    <3> HIDE DEF Bad
    <3>2. QED
      BY <2>1, <3>1
  <2>4. g[m] = g[m - 1] + m * s[m] /\ h[m] = h[m - 1] + m * r[m]
    BY <1>6, <2>3
  <2>5. g[m] \in Nat /\ h[m] \in Nat /\ g[m - 1] \in Nat /\ h[m - 1] \in Nat
    BY <1>2, <2>3
  <2>6. CASE m = k
    <3>1. h[m - 1] = g[m - 1]
      BY <1>1, <2>3, <2>6
    <3>2. h[m] = g[m - 1] + a /\ g[m] = g[m - 1] + c
      BY <1>3, <2>4, <2>6, <3>1
    <3>3. h[m] - g[m] = a - c
      BY <2>5, <3>2
    <3>4. QED
      BY <1>1, <2>1, <2>6, <3>3
  <2>7. CASE m # k
    <3>1. r[m] = s[m] /\ s[m] \in Nat
      BY <2>3, <2>7, ElementOfSeq
    <3>2. PICK e \in Nat : e = m * s[m]
      <4>1. \A x, y \in Nat : x * y \in Nat
        OBVIOUS
      <4>2. m \in Nat
        BY <2>3, <1>1
      <4>3. QED
        BY <3>1, <4>1, <4>2
    <3>3. h[m] = h[m - 1] + e /\ g[m] = g[m - 1] + e
      BY <2>4, <3>1, <3>2
    <3>4. IF m - 1 < k THEN h[m - 1] = g[m - 1] ELSE h[m - 1] - g[m - 1] = a - c
      BY <2>3
    <3>5. IF m < k THEN h[m] = g[m] ELSE h[m] - g[m] = a - c
      <4>1. \A x, y, u, v \in Nat : x = u + e /\ y = v + e /\ u = v => x = y
        OBVIOUS
      <4>2. \A x, y, u, v \in Nat : x = u + e /\ y = v + e /\ u - v = a - c => x - y = a - c
        OBVIOUS
      <4>3. m \in Nat /\ (m < k <=> m - 1 < k)
        BY <1>1, <2>3, <2>7
      <4>4. CASE m < k
        BY <2>5, <3>3, <3>4, <4>1, <4>3, <4>4
      <4>5. CASE ~ (m < k)
        BY ZenonT(60), <2>5, <3>3, <3>4, <4>2, <4>3, <4>5
      <4>6. QED
        BY <4>4, <4>5
    <3>6. QED
      BY <2>1, <3>5
  <2>8. QED
    BY <2>6, <2>7
<1>5. QED
  BY <1>3, <1>4 DEF Differ

\* fr_crc32: two contents that differ in one element have different checksums.
LEMMA CrcTellsOne ==
  ASSUME NEW s \in Seq(Nat), NEW r \in Seq(Nat), Len(r) = Len(s), NEW k \in 1 .. Len(s),
         \A i \in 1 .. Len(s) : i # k => r[i] = s[i], crc32(r) = crc32(s)
  PROVE  r = s
<1>1. PICK g : SumTo(g, Len(s), s) /\ crc32(s) = g[Len(s)]
  BY CrcIsSum
<1>2. PICK h : SumTo(h, Len(s), r) /\ crc32(r) = h[Len(s)]
  BY CrcIsSum
<1>3. Len(s) \in Nat /\ k \in Nat /\ k # 0 /\ s[k] \in Nat /\ r[k] \in Nat
  BY LenProperties, ElementOfSeq
<1>4. h[Len(s)] - g[Len(s)] = k * r[k] - k * s[k]
  <2>1. Differ(g, h, s, r, k)
    BY <1>1, <1>2, SumBefore
  <2>2. Len(s) \in 0 .. Len(s) /\ ~ (Len(s) < k)
    BY <1>3
  <2>3. QED
    BY <2>1, <2>2 DEF Differ
<1>5. g[Len(s)] \in Nat /\ h[Len(s)] = g[Len(s)]
  BY <1>1, <1>2, CrcType
<1>6. k * r[k] - k * s[k] = 0
  BY <1>4, <1>5
<1>7. \A x, y, z \in Nat : x # 0 /\ x * y - x * z = 0 => y = z
  OBVIOUS
<1>8. r[k] = s[k]
  BY <1>3, <1>6, <1>7
<1>9. QED
  BY <1>8, SeqEqual
-----------------------------------------------------------------------------
(* Descriptors.                                                            *)

\* Only its own descriptor does a call open, move or close.
LEMMA CallFds ==
  ASSUME TypeInv, NEW t \in Thread, Call(t)
  PROVE  /\ FdsStep(t)
         /\ \/ loc[t].fd = 0 \/ loc'[t].fd = loc[t].fd \/ fds'[loc[t].fd] = Closed
            \/ header_refused(t)
<1> USE OwnFacts DEF TypeInv, LocalOK, Writing, Ready, Reading
<1>1. CASE put(t) \/ remove(t) \/ cleanup_temp_files(t)
  <2>1. UNCHANGED fds /\ loc'[t].fd = 0 /\ loc[t].pc = "idle"
    BY <1>1, PutMoves, RemoveMoves, CleanupMoves DEF put, remove, cleanup_temp_files, Begins
  <2>2. QED
    BY <2>1, NoFdsStep
<1>2. CASE get_range(t)
  <2>1. loc[t].fd = 0
    BY <1>2, GetMoves DEF Begins
  <2>2. CASE loc'[t].fd = 0 /\ UNCHANGED fds
    BY <2>1, <2>2, NoFdsStep
  <2>3. CASE /\ loc'[t].d \in InPlace /\ loc'[t].fd \in FreeFds
             /\ fds' = [fds EXCEPT ![loc'[t].fd] = [inode |-> dir.chunks[loc'[t].d], pos |-> 0]]
    <3>1. PICK f \in FreeFds, e \in InPlace : f = loc'[t].fd /\ e = loc'[t].d
      BY <2>3
    <3>2. e \in Data /\ f \in Fd /\ dir.chunks[e] # 0 /\ dir.chunks[e] \in Inode
      BY StateFacts DEF InPlace, FreeFds, Directory
    <3>3. fds' = [fds EXCEPT ![f] = [inode |-> dir.chunks[e], pos |-> 0]] /\ fds \in FdsType
      BY <2>3, <3>1, StateFacts
    <3>4. fds' \in FdsType /\ (\A g \in Fd : g # f => fds'[g] = fds[g]) /\ fds'[f].inode # 0
      BY <3>2, <3>3 DEF FdsType
    <3>5. QED
      BY <2>1, <3>1, <3>4 DEF FdsStep
  <2>4. QED
    BY <1>2, <2>2, <2>3, GetMoves
<1>3. CASE fr_tmpfile_create(t)
  <2>1. loc[t].fd = 0
    BY <1>3, CreateMoves
  <2>2. CASE NameTaken(t)
    BY <2>1, <2>2, NoFdsStep DEF NameTaken
  <2>3. CASE \E i \in FreeInodes, f \in FreeFds : Created(t, i, f)
    <3>1. PICK i \in FreeInodes, f \in FreeFds : Created(t, i, f)
      BY <2>3
    <3>2. /\ i \in Inode /\ f \in Fd /\ fds \in FdsType /\ loc'[t].fd = f /\ i # 0
          /\ fds' = [fds EXCEPT ![f] = [inode |-> i, pos |-> 0]]
      BY <3>1, StateFacts DEF FreeInodes, FreeFds, Created
    <3>3. fds' \in FdsType /\ (\A g \in Fd : g # f => fds'[g] = fds[g]) /\ fds'[f].inode # 0
      BY <3>2 DEF FdsType
    <3>4. QED
      BY <2>1, <3>2, <3>3 DEF FdsStep
  <2>4. QED
    BY <1>3, <2>2, <2>3, CreateMoves
<1>4. CASE create_fails(t) \/ raced(t) \/ rename_into_place(t) \/ cleanup_done(t) \/ header_refused(t)
  <2>1. (\E r \in Results : Ends(t, r)) /\ UNCHANGED fds /\ (loc[t].fd = 0 \/ header_refused(t))
    BY <1>4 DEF create_fails, raced, rename_into_place, cleanup_done, header_refused, At, Results
  <2>2. QED
    BY <2>1, EndsOver, NoFdsStep DEF Over
<1>5. CASE fr_fd_write_all(t) \/ all_written(t) \/ fr_fd_fsync(t) \/ fr_dir_create_all(t)
           \/ rename_fails(t) \/ cleanup_one(t)
  <2>1. Stays(t) /\ UNCHANGED fds
    BY <1>5, WriteMoves, WrittenMoves, CleanupOneMoves, GotoMoves
    DEF fr_fd_write_all, all_written, fr_fd_fsync, fr_dir_create_all, rename_fails, cleanup_one, Labels
  <2>2. QED
    BY <2>1, NoFdsStep DEF Stays
<1>6. CASE target_exists(t)
  <2>1. loc[t].fd = 0 /\ UNCHANGED fds
    BY <1>6 DEF target_exists, At
  <2>2. loc'[t].fd = 0
    BY <1>6, <2>1, EndsOver, GotoMoves DEF target_exists, Over, Stays, Labels, Results
  <2>3. QED
    BY <2>1, <2>2, NoFdsStep
<1>7. CASE close_temp(t) \/ put_fails(t) \/ get_fails(t) \/ close_chunk(t)
  <2>1. CloseFd(t)
    BY <1>7 DEF close_temp, put_fails, fail, get_fails, close_chunk
  <2>2. loc'[t].fd = 0
    <3>1. CASE close_temp(t)
      BY <3>1, CloseMoves
    <3>2. CASE put_fails(t) \/ get_fails(t) \/ close_chunk(t)
      <4>1. \E r \in Results : Ends(t, r)
        BY <3>2 DEF put_fails, fail, get_fails, close_chunk, Results
      <4>2. QED
        BY <4>1, EndsOver DEF Over
    <3>3. QED
      BY <1>7, <3>1, <3>2
  <2>3. QED
    BY <2>1, <2>2, CloseStep
<1>8. CASE seek_data(t)
  <2>1. CASE CloseFd(t) /\ Over(t, "range")
    BY <2>1, CloseStep DEF Over
  <2>2. CASE /\ loc'[t].pc = "read_data" /\ loc'[t].fd = loc[t].fd
             /\ fds' = [fds EXCEPT ![loc[t].fd].pos = loc[t].off + HeaderSize]
    <3>1. loc[t].fd \in Fd /\ loc[t].off + HeaderSize \in Nat
      <4>1. loc[t].pc = "read_header" /\ loc[t].off \in Nat
        BY <1>8, SeekMoves, LocalFacts
      <4>2. loc[t].fd \in Fd
        BY <4>1
      <4>3. QED
        BY <4>1, <4>2 DEF HeaderSize
    <3>2. PICK q \in Nat : q = loc[t].off + HeaderSize
      BY <3>1
    <3>3. FdsQuiet(t)
      BY <2>2, <3>1, <3>2, FdsQuietIfMoved
    <3>4. QED
      BY <2>2, <3>3 DEF FdsQuiet
  <2>3. QED
    BY <1>8, <2>1, <2>2, SeekMoves
<1>9. CASE fr_fd_read_full(t)
  <2>1. loc[t].pc \in Reading /\ loc[t].fd \in Fd /\ FdInode(t) \in Inode
    BY <1>9 DEF fr_fd_read_full, Reading
  <2>2. PICK n \in Nat : fds' = [fds EXCEPT ![loc[t].fd].pos = @ + n] /\ loc'[t].fd = loc[t].fd
    BY <1>9, <2>1, ReadMoves
  <2>3. PICK q \in Nat : q = fds[loc[t].fd].pos + n
    BY <2>1, StateFacts DEF FdsType
  <2>4. fds' = [fds EXCEPT ![loc[t].fd].pos = q]
    BY <2>2, <2>3
  <2>5. QED
    BY <2>1, <2>2, <2>4, FdsQuietIfMoved DEF FdsQuiet
<1>10. QED
  BY <1>1, <1>2, <1>3, <1>4, <1>5, <1>6, <1>7, <1>8, <1>9 DEF Call

\* A reader's file and position are nobody else's business.
LEMMA ReaderUntouched ==
  ASSUME TypeInv, TypeInv', Private, NEW t \in Thread, Call(t), NEW u \in Thread, u # t,
         loc[u].pc \in Reading
  PROVE  /\ fds'[loc[u].fd] = fds[loc[u].fd] /\ FdInode(u)' = FdInode(u)
         /\ inode'[FdInode(u)] = inode[FdInode(u)]
<1>1. loc'[u] = loc[u] /\ FdsStep(t) /\ TouchesOwn(t)
  BY CallThread, CallFds, CallInodes DEF Moves
<1>2. loc[u].fd \in Fd /\ FdInode(u) \in Inode /\ loc[u].fd # 0
  BY OwnFacts, StateFacts DEF TypeInv
<1>3. loc[u].fd # loc[t].fd /\ loc[u].fd # loc'[t].fd
  BY <1>1, <1>2 DEF TypeInv, Exclusive
<1>4. fds'[loc[u].fd] = fds[loc[u].fd]
  BY <1>1, <1>2, <1>3 DEF FdsStep
<1>5. FdInode(u)' = FdInode(u)
  BY <1>1, <1>4 DEF FdInode
<1>6. FdInode(u) \notin FreeInodes
  BY <1>2, FreshInode DEF FdInode, TypeInv
<1>7. loc[t].pc \in Writing => FdInode(u) # FdInode(t)
  <2>1. loc[t].pc \in Writing => \A f \in Fd : fds[f].inode = FdInode(t) => f = loc[t].fd
    BY DEF Private
  <2>2. QED
    BY <1>2, <1>3, <2>1 DEF FdInode
<1>8. QED
  BY <1>1, <1>2, <1>4, <1>5, <1>6, <1>7 DEF TouchesOwn

LEMMA OthersRead ==
  ASSUME TypeInv, TypeInv', Private, NEW t \in Thread, Call(t), NEW u \in Thread, u # t, ReadBy(u)
  PROVE  ReadBy(u)'
<1>1. loc'[u] = loc[u] /\ bound'.rot = bound.rot
  BY CallThread, CallInodes DEF Moves
<1>2. Exact(u)' <=> Exact(u)
  BY <1>1 DEF Exact
<1>3. ASSUME loc[u].pc \in Reading, NEW p \in Nat, ReadBut(u, p) PROVE ReadBut(u, p)'
  <2>1. /\ fds'[loc[u].fd] = fds[loc[u].fd] /\ FdInode(u)' = FdInode(u)
        /\ inode'[FdInode(u)] = inode[FdInode(u)]
    BY <1>3, ReaderUntouched
  <2>2. QED
    BY <1>1, <1>3, <2>1 DEF ReadBut
<1>4. QED
  BY <1>1, <1>2, <1>3 DEF ReadBy
-----------------------------------------------------------------------------
(* What get_range hands out.                                               *)

LEMMA WholeAt ==
  ASSUME NEW d \in Data
  PROVE  /\ \A q \in 1 .. 4 : Whole(d)[q] = store_header(d)[q]
         /\ \A q \in 1 .. Len(d) : Whole(d)[4 + q] = d[q]
         /\ Len(d) \in Nat /\ Len(Whole(d)) = 4 + Len(d)
<1>1. d \in Seq(Nat) /\ store_header(d) \in Seq(Nat) /\ Len(store_header(d)) = 4
      /\ Len(Whole(d)) = 4 + Len(d)
  BY StoreHeaderType
<1>2. PICK h \in Seq(Nat) : h = store_header(d) /\ Len(h) = 4
  BY <1>1
<1>3. Len(d) \in Nat
  BY <1>1, LenProperties
<1>4. \A i \in 1 .. Len(h) + Len(d) : (h \o d)[i] = IF i <= Len(h) THEN h[i] ELSE d[i - Len(h)]
  BY <1>1, ConcatProperties
<1>5. \A i \in 1 .. 4 + Len(d) : (h \o d)[i] = IF i <= 4 THEN h[i] ELSE d[i - 4]
  BY <1>2, <1>4
<1>6. \A q \in 1 .. 4 : (h \o d)[q] = h[q]
  <2>1. \A q \in 1 .. 4 : q \in 1 .. 4 + Len(d) /\ q <= 4
    BY <1>3
  <2>2. QED
    BY <1>5, <2>1, Zenon
<1>7. \A q \in 1 .. Len(d) : (h \o d)[4 + q] = d[q]
  <2>1. \A q \in 1 .. Len(d) : 4 + q \in 1 .. 4 + Len(d) /\ ~ (4 + q <= 4) /\ (4 + q) - 4 = q
    BY <1>3
  <2>2. QED
    BY <1>5, <2>1
<1>8. QED
  BY <1>1, <1>2, <1>3, <1>6, <1>7 DEF Whole

\* At most one element of a complete file differs while at most one was altered.
LEMMA OneFlaw ==
  ASSUME TypeOK, NEW i \in Inode, NEW d \in Data, Complete(i, d), bound.rot <= 1
  PROVE  \E p \in Nat :
           /\ bound.rot = 0 => p = 0
           /\ Len(inode[i].bytes) = Len(Whole(d))
           /\ \A q \in 1 .. Len(inode[i].bytes) : q # p => inode[i].bytes[q] = Whole(d)[q]
<1>1. PICK b \in Seq(Nat) : b = inode[i].bytes
  BY StateFacts DEF InodeType
<1>2. bound.rot \in {0, 1}
  <2>1. bound.rot \in Nat
    BY StateFacts, ChunkFileAssumption DEF BoundType
  <2>2. QED
    BY <2>1
<1>3. /\ Len(b) = Len(Whole(d)) /\ Cardinality(Altered(b, Whole(d))) <= bound.rot
      /\ IsFiniteSet(Altered(b, Whole(d))) /\ Cardinality(Altered(b, Whole(d))) \in Nat
  BY <1>1, AlteredFinite DEF Complete, IsChunk
<1>4. DOMAIN b = 1 .. Len(b) /\ Len(b) \in Nat
  BY LenProperties
<1>5. CASE Cardinality(Altered(b, Whole(d))) = 0
  <2>1. Altered(b, Whole(d)) = {}
    BY <1>3, <1>5, FS_EmptySet
  <2>2. \A q \in 1 .. Len(b) : q # 0 => b[q] = Whole(d)[q]
    BY <1>4, <2>1 DEF Altered
  <2>3. QED
    BY <1>1, <1>3, <2>2
<1>6. CASE Cardinality(Altered(b, Whole(d))) # 0
  <2>1. Cardinality(Altered(b, Whole(d))) = 1 /\ bound.rot # 0
    BY <1>2, <1>3, <1>6
  <2>2. PICK p : Altered(b, Whole(d)) = {p}
    BY <1>3, <2>1, FS_Singleton
  <2>3. p \in Nat /\ \A q \in 1 .. Len(b) : q # p => b[q] = Whole(d)[q]
    <3>1. p \in Altered(b, Whole(d)) /\ \A q \in Altered(b, Whole(d)) : q = p
      BY <2>2
    <3>2. p \in 1 .. Len(b)
      BY <1>4, <3>1 DEF Altered
    <3>3. QED
      BY <1>4, <3>1, <3>2 DEF Altered
  <2>4. QED
    BY <1>1, <1>3, <2>1, <2>3
<1>7. QED
  BY <1>5, <1>6

LEMMA NotGetting ==
  ASSUME NEW t \in Thread, loc'[t].op # "get", loc'[t].pc \notin Reading
  PROVE  ReadBy(t)'
BY DEF ReadBy, Exact

LEMMA NothingGot ==
  ASSUME NEW t \in Thread, loc'[t].pc = "idle", loc'[t].result # "ok"
  PROVE  ReadBy(t)'
BY DEF ReadBy, Exact, Reading

LEMMA GetReads ==
  ASSUME TypeInv, TypeInv', Contents, NEW t \in Thread, get_range(t)
  PROVE  ReadBy(t)'
<1> USE DEF TypeInv
<1>1. CASE loc'[t].pc = "idle" /\ loc'[t].result = "failed"
  BY <1>1, NothingGot
<1>2. CASE /\ loc'[t].d \in InPlace /\ loc'[t].fd \in FreeFds
           /\ fds' = [fds EXCEPT ![loc'[t].fd] = [inode |-> dir.chunks[loc'[t].d], pos |-> 0]]
           /\ loc'[t].pc = "read_header" /\ loc'[t].result = "none"
  <2>1. PICK d \in InPlace, f \in FreeFds : d = loc'[t].d /\ f = loc'[t].fd
    BY <1>2
  <2>2. d \in Data /\ f \in Fd /\ fds \in FdsType
    BY StateFacts DEF InPlace, FreeFds
  <2>3. PICK i \in Inode : i = dir.chunks[d]
    BY <2>2, StateFacts DEF InPlace, Directory
  <2>4. fds'[f] = [inode |-> i, pos |-> 0] /\ UNCHANGED <<inode>>
    BY <1>2, <2>1, <2>2, <2>3 DEF get_range, FdsType
  <2>5. Complete(i, d)
    BY <2>2, <2>3, StateFacts DEF Contents, SurvivesWhole, InPlace
  <2>6. bound'.rot = bound.rot
    BY CountsType DEF get_range
  <2>7. loc'[t].header = <<>> /\ loc'[t].buf = <<>> /\ loc'[t].op = "get"
    BY GetMoves DEF Begins
  <2>8. ASSUME bound.rot <= 1 PROVE \E p \in Nat : ReadBut(t, p)'
    <3>1. PICK p \in Nat :
            /\ bound.rot = 0 => p = 0
            /\ Len(inode[i].bytes) = Len(Whole(d))
            /\ \A q \in 1 .. Len(inode[i].bytes) : q # p => inode[i].bytes[q] = Whole(d)[q]
      BY <2>2, <2>5, <2>8, OneFlaw
    <3>2. FdInode(t)' = i /\ fds'[loc'[t].fd].pos = 0
      BY <2>1, <2>4 DEF FdInode
    <3>3. Len(loc'[t].header) = 0 /\ 1 .. 0 = {}
      BY <2>7, EmptySeq
    <3>4. ReadBut(t, p)'
      BY <1>2, <2>1, <2>4, <2>6, <2>7, <3>1, <3>2, <3>3 DEF ReadBut
    <3>5. QED
      BY <3>4
  <2>9. Exact(t)'
    BY <1>2 DEF Exact
  <2>10. QED
    BY <1>2, <2>6, <2>8, <2>9 DEF ReadBy, Reading
<1>3. QED
  BY <1>1, <1>2, GetMoves

\* What fr_fd_read_full takes from the file.
LEMMA RestAt ==
  ASSUME TypeOK, NEW t \in Thread, loc[t].fd \in Fd, FdInode(t) \in Inode,
         NEW n \in Nat, n <= Len(Rest(t)), n > 0
  PROVE  LET b == inode[FdInode(t)].bytes
             pos == fds[loc[t].fd].pos IN
         /\ pos + n <= Len(b)
         /\ \A k \in 1 .. n : SubSeq(Rest(t), 1, n)[k] = b[pos + k]
<1>1. PICK b \in Seq(Nat), pos \in Nat : b = inode[FdInode(t)].bytes /\ pos = fds[loc[t].fd].pos
  BY RestType
<1>2. PICK r \in Seq(Nat) : r = Rest(t) /\ r = SubSeq(b, pos + 1, Len(b))
  BY <1>1, RestType DEF Rest, FdInode
<1>3. Len(b) \in Nat /\ \A k \in pos + 1 .. Len(b) : b[k] \in Nat
  BY LenProperties
<1>4. /\ Len(r) = IF pos + 1 <= Len(b) THEN Len(b) - (pos + 1) + 1 ELSE 0
      /\ \A k \in 1 .. Len(b) - (pos + 1) + 1 : r[k] = b[(pos + 1) + k - 1]
  BY <1>2, <1>3, SubSeqProperties
<1>5. pos + n <= Len(b) /\ Len(r) = Len(b) - pos
  BY <1>2, <1>3, <1>4
<1>6. \A k \in 1 .. n : r[k] = b[pos + k]
  <2>1. \A k \in 1 .. n : k \in 1 .. Len(b) - (pos + 1) + 1 /\ (pos + 1) + k - 1 = pos + k
    BY <1>3, <1>5
  <2>2. QED
    BY <1>4, <2>1
<1>7. \A k \in 1 .. n : SubSeq(r, 1, n)[k] = r[k]
  <2>1. \A k \in 1 .. n : r[k] \in Nat
    BY <1>2, <1>5, LenProperties
  <2>2. \A k \in 1 .. n - 1 + 1 : SubSeq(r, 1, n)[k] = r[1 + k - 1]
    BY <2>1, SubSeqProperties
  <2>3. \A k \in 1 .. n : k \in 1 .. n - 1 + 1 /\ 1 + k - 1 = k
    OBVIOUS
  <2>4. QED
    BY <2>2, <2>3
<1>8. QED
  BY <1>1, <1>2, <1>5, <1>6, <1>7

\* Elements of what was read so far, and of what is read now.
LEMMA ConcatAt ==
  ASSUME NEW a \in Seq(Nat), NEW r \in Seq(Nat)
  PROVE  /\ Len(a) \in Nat /\ Len(r) \in Nat /\ Len(a \o r) = Len(a) + Len(r)
         /\ \A q \in 1 .. Len(a) + Len(r) :
              \/ q \in 1 .. Len(a) /\ (a \o r)[q] = a[q]
              \/ q - Len(a) \in 1 .. Len(r) /\ (a \o r)[q] = r[q - Len(a)]
<1>1. Len(a) \in Nat /\ Len(r) \in Nat
  BY LenProperties
<1>2. /\ Len(a \o r) = Len(a) + Len(r)
      /\ \A q \in 1 .. Len(a) + Len(r) : (a \o r)[q] = IF q <= Len(a) THEN a[q] ELSE r[q - Len(a)]
  BY ConcatProperties
<1>3. ASSUME NEW q \in 1 .. Len(a) + Len(r)
      PROVE  \/ q \in 1 .. Len(a) /\ (a \o r)[q] = a[q]
             \/ q - Len(a) \in 1 .. Len(r) /\ (a \o r)[q] = r[q - Len(a)]
  <2>1. (a \o r)[q] = IF q <= Len(a) THEN a[q] ELSE r[q - Len(a)]
    BY <1>2
  <2>2. q <= Len(a) => q \in 1 .. Len(a)
    BY <1>1
  <2>3. ~ (q <= Len(a)) => q - Len(a) \in 1 .. Len(r)
    BY <1>1
  <2>4. QED
    BY <2>1, <2>2, <2>3
<1>4. QED
  BY <1>1, <1>2, <1>3

LEMMA ReadFacts ==
  ASSUME TypeInv, NEW t \in Thread, loc[t].pc \in Reading
  PROVE  /\ loc[t].fd \in Fd /\ FdInode(t) \in Inode /\ loc[t].d \in Data
         /\ inode[FdInode(t)].bytes \in Seq(Nat) /\ fds[loc[t].fd].pos \in Nat
         /\ loc[t].header \in Seq(Nat) /\ loc[t].buf \in Seq(Nat) /\ loc[t].off \in Nat
         /\ loc[t].len \in Nat /\ loc[t].want \in Nat /\ Len(loc[t].buf) \in Nat
         /\ Len(loc[t].header) \in Nat
<1>1. loc[t].fd \in Fd /\ FdInode(t) \in Inode
  BY OwnFacts
<1>2. loc[t].d \in Data
  BY OwnFacts DEF LocalOK, Reading
<1>3. inode[FdInode(t)].bytes \in Seq(Nat) /\ fds[loc[t].fd].pos \in Nat
  BY <1>1, RestType DEF TypeInv
<1>4. QED
  BY <1>1, <1>2, <1>3, LocalFacts, LenProperties DEF TypeInv

LEMMA ReadReads ==
  ASSUME TypeInv, TypeInv', NEW t \in Thread, fr_fd_read_full(t), ReadBy(t)
  PROVE  ReadBy(t)'
<1> USE DEF TypeInv
<1>1. loc[t].pc \in Reading /\ UNCHANGED <<inode, bound>>
  BY DEF fr_fd_read_full, Reading
<1>2. loc[t].fd \in Fd /\ FdInode(t) \in Inode /\ loc[t].d \in Data
  BY <1>1, ReadFacts
<1>3. /\ loc'[t].pc = loc[t].pc /\ loc'[t].op = loc[t].op /\ loc'[t].d = loc[t].d
      /\ loc'[t].off = loc[t].off /\ loc'[t].len = loc[t].len /\ loc'[t].fd = loc[t].fd
      /\ loc'[t].result = loc[t].result /\ loc[t].result = "none"
  <2>1. loc[t].result = "none"
    BY <1>1, OwnFacts DEF LocalOK, Reading
  <2>2. QED
    BY <1>2, <2>1, ReadMoves DEF Keeps
<1>4. PICK n \in 1 .. loc[t].want :
        /\ n <= Len(Rest(t)) /\ Len(SubSeq(Rest(t), 1, n)) = n
        /\ SubSeq(Rest(t), 1, n) \in Seq(Nat)
        /\ loc'[t].want = loc[t].want - n
        /\ fds' = [fds EXCEPT ![loc[t].fd].pos = @ + n]
        /\ \/ /\ loc[t].pc = "read_header" /\ loc'[t].buf = loc[t].buf
              /\ loc'[t].header = loc[t].header \o SubSeq(Rest(t), 1, n)
           \/ /\ loc[t].pc = "read_data" /\ loc'[t].header = loc[t].header
              /\ loc'[t].buf = loc[t].buf \o SubSeq(Rest(t), 1, n)
  BY <1>2, ReadMoves
<1>5. PICK b \in Seq(Nat), pos \in Nat : b = inode[FdInode(t)].bytes /\ pos = fds[loc[t].fd].pos
  BY <1>1, ReadFacts
<1>6. n \in Nat /\ n > 0 /\ loc[t].want \in Nat
  BY SMTT(60), <1>1, <1>4, ReadFacts
<1>7. PICK r \in Seq(Nat) : /\ r = SubSeq(Rest(t), 1, n) /\ Len(r) = n /\ pos + n <= Len(b)
                            /\ \A k \in 1 .. n : r[k] = b[pos + k]
  BY <1>2, <1>4, <1>5, <1>6, RestAt
<1>8. fds'[loc[t].fd].pos = pos + n /\ FdInode(t)' = FdInode(t)
  BY <1>2, <1>3, <1>4, <1>5, StateFacts DEF FdsType, FdInode
<1>9. PICK d \in Data : d = loc[t].d /\ Len(b) \in Nat
  BY <1>2, LenProperties
<1>10. ASSUME NEW p \in Nat, ReadBut(t, p) PROVE ReadBut(t, p)'
  <2>1. /\ bound.rot = 0 => p = 0
        /\ Len(b) = Len(Whole(d)) /\ \A q \in 1 .. Len(b) : q # p => b[q] = Whole(d)[q]
        /\ \A q \in 1 .. Len(loc[t].header) : q # p => loc[t].header[q] = store_header(d)[q]
    BY <1>5, <1>9, <1>10 DEF ReadBut
  <2>2. /\ Len(Whole(d)) = 4 + Len(d) /\ Len(d) \in Nat
        /\ \A q \in 1 .. 4 : Whole(d)[q] = store_header(d)[q]
        /\ \A q \in 1 .. Len(d) : Whole(d)[4 + q] = d[q]
    BY WholeAt
  <2>3. CASE loc[t].pc = "read_header"
    <3>1. PICK h \in Seq(Nat) : h = loc[t].header
      BY <1>1, ReadFacts
    <3>2. loc'[t].header = h \o r /\ loc'[t].buf = loc[t].buf
      BY <1>4, <1>7, <2>3, <3>1
    <3>3. pos = Len(h) /\ loc[t].buf = <<>>
      BY <1>5, <1>10, <2>3, <3>1 DEF ReadBut
    <3>4. Len(h \o r) = Len(h) + n /\ Len(h) \in Nat
      BY <1>7, ConcatAt
    <3>5. Len(h) + n <= 4
      <4>1. LocalOK(loc'[t]) /\ loc'[t].want \in Nat
        BY SMTT(60), LocalFacts, <1>4, <1>6 DEF LocalsOK
      <4>2. Len(loc'[t].header) + loc'[t].want = 4
        BY <1>3, <2>3, <4>1 DEF LocalOK, HeaderSize
      <4>3. QED
        BY <1>6, <3>2, <3>4, <4>1, <4>2
    <3>6. ASSUME NEW q \in 1 .. Len(h \o r), q # p PROVE (h \o r)[q] = store_header(d)[q]
      <4>1. CASE q \in 1 .. Len(h) /\ (h \o r)[q] = h[q]
        BY <2>1, <3>1, <3>6, <4>1
      <4>2. CASE q - Len(h) \in 1 .. n /\ (h \o r)[q] = r[q - Len(h)]
        <5>1. pos + (q - Len(h)) = q /\ q \in 1 .. Len(b) /\ q \in 1 .. 4
          BY <1>6, <1>7, <1>9, <3>3, <3>4, <3>5
        <5>2. (h \o r)[q] = b[q]
          BY <1>7, <4>2, <5>1
        <5>3. QED
          BY <2>1, <2>2, <3>6, <5>1, <5>2
      <4>3. QED
        BY SMTT(60), <1>7, <3>4, <4>1, <4>2, ConcatAt
    <3>7. QED
      BY <1>1, <1>3, <1>5, <1>8, <1>9, <2>1, <2>3, <3>2, <3>3, <3>4, <3>6 DEF ReadBut
  <2>4. CASE loc[t].pc = "read_data"
    <3>1. PICK a \in Seq(Nat), off \in Nat : a = loc[t].buf /\ off = loc[t].off
      BY <1>1, ReadFacts
    <3>2. loc'[t].buf = a \o r /\ loc'[t].header = loc[t].header
      BY <1>4, <1>7, <2>4, <3>1
    <3>3. /\ Len(loc[t].header) = HeaderSize /\ HeaderOK(loc[t].header)
          /\ off <= Len(d) /\ pos = off + 4 + Len(a)
          /\ loc[t].want + Len(a) = Smaller(loc[t].len, Len(d) - off)
          /\ \A q \in 1 .. Len(a) : off + 4 + q # p => a[q] = d[off + q]
      BY <1>5, <1>9, <1>10, <2>4, <3>1 DEF ReadBut, HeaderSize
    <3>4. Len(a \o r) = Len(a) + n /\ Len(a) \in Nat
      BY <1>7, ConcatAt
    <3>5. ASSUME NEW q \in 1 .. Len(a \o r), off + 4 + q # p PROVE (a \o r)[q] = d[off + q]
      <4>1. CASE q \in 1 .. Len(a) /\ (a \o r)[q] = a[q]
        BY <3>3, <3>5, <4>1
      <4>2. CASE q - Len(a) \in 1 .. n /\ (a \o r)[q] = r[q - Len(a)]
        <5>0. q \in Nat /\ q > 0 /\ q <= Len(a) + n /\ Len(a) \in Nat /\ n \in Nat
          BY <1>6, <3>4, <3>5
        <5>6. pos = off + 4 + Len(a) /\ pos + n <= Len(b) /\ Len(b) = 4 + Len(d) /\ Len(d) \in Nat
          BY <1>7, <2>1, <2>2, <3>3
        <5>7. pos + (q - Len(a)) = 4 + (off + q) /\ off + 4 + q = 4 + (off + q)
          BY <5>0, <5>6
        <5>8. off + q \in 1 .. Len(d) /\ 4 + (off + q) \in 1 .. Len(b)
          BY <5>0, <5>6
        <5>1. /\ pos + (q - Len(a)) = 4 + (off + q) /\ 4 + (off + q) \in 1 .. Len(b)
              /\ off + q \in 1 .. Len(d) /\ 4 + (off + q) # p
          BY <3>5, <5>7, <5>8
        <5>2. (a \o r)[q] = b[4 + (off + q)]
          BY <1>7, <4>2, <5>1
        <5>3. b[4 + (off + q)] = Whole(d)[4 + (off + q)]
          BY <2>1, <5>1
        <5>4. Whole(d)[4 + (off + q)] = d[off + q]
          BY <2>2, <5>1
        <5>5. QED
          BY <5>2, <5>3, <5>4
      <4>3. QED
        BY <1>7, <3>4, <4>1, <4>2, ConcatAt
    <3>6. pos + n = off + 4 + Len(a \o r)
      BY <1>6, <3>3, <3>4
    <3>7. loc'[t].want + Len(a \o r) = Smaller(loc[t].len, Len(d) - off)
      <4>1. loc'[t].want + Len(a \o r) = loc[t].want + Len(a)
        BY <1>4, <1>6, <3>4
      <4>2. QED
        BY <3>3, <4>1
    <3>8. /\ loc'[t].d = d /\ inode'[FdInode(t)'].bytes = b /\ bound'.rot = bound.rot
          /\ loc'[t].off = off /\ loc'[t].len = loc[t].len /\ loc'[t].pc = "read_data"
          /\ fds'[loc'[t].fd].pos = pos + n
      BY <1>1, <1>3, <1>5, <1>8, <1>9, <2>4, <3>1
    <3>9. /\ Len(loc'[t].header) = HeaderSize /\ HeaderOK(loc'[t].header)
          /\ off + HeaderSize = off + 4
      BY <3>2, <3>3 DEF HeaderSize
    <3>10. QED
      BY <2>1, <3>2, <3>3, <3>5, <3>6, <3>7, <3>8, <3>9 DEF ReadBut
  <2>5. QED
    BY <1>1, <2>3, <2>4 DEF Reading
<1>11. Exact(t)'
  BY <1>3 DEF Exact
<1>12. QED
  BY <1>1, <1>3, <1>10, <1>11 DEF ReadBy

\* parse_header: with one element altered, a header it accepts has the length.
LEMMA HeaderTells ==
  ASSUME NEW d \in Data, NEW h \in Seq(Nat), Len(h) = 4, HeaderOK(h), NEW p \in Nat,
         \A q \in 1 .. Len(h) : q # p => h[q] = store_header(d)[q]
  PROVE  h[2] = Len(d) /\ (p # 4 => h[4] = crc32(d))
<1>1. PICK s : s = store_header(d) /\ s[2] = Len(d) /\ s[3] = Len(d) /\ s[4] = crc32(d)
  BY DEF store_header
<1>2. \A q \in 1 .. 4 : q # p => h[q] = s[q]
  BY <1>1
<1>3. (2 # p => h[2] = s[2]) /\ (3 # p => h[3] = s[3]) /\ (4 # p => h[4] = s[4])
  BY <1>2
<1>4. h[2] = h[3]
  BY DEF HeaderOK
<1>5. 2 # p \/ 3 # p
  OBVIOUS
<1>6. QED
  BY <1>1, <1>3, <1>4, <1>5

LEMMA SeekReads ==
  ASSUME TypeInv, TypeInv', NEW t \in Thread, seek_data(t), ReadBy(t)
  PROVE  ReadBy(t)'
<1> USE DEF TypeInv
<1>1. /\ loc[t].pc \in Reading /\ loc[t].pc = "read_header" /\ loc[t].want = 0
      /\ HeaderOK(loc[t].header) /\ UNCHANGED <<inode, bound>>
  BY SeekMoves DEF seek_data, Reading
<1>2. CASE Over(t, "range")
  BY <1>2, NothingGot DEF Over
<1>3. CASE /\ loc[t].off <= loc[t].header[2] /\ loc'[t].pc = "read_data" /\ Keeps(t)
           /\ loc'[t].fd = loc[t].fd
           /\ loc'[t].buf = loc[t].buf /\ loc'[t].header = loc[t].header
           /\ loc'[t].want = Smaller(loc[t].len, loc[t].header[2] - loc[t].off)
           /\ fds' = [fds EXCEPT ![loc[t].fd].pos = loc[t].off + HeaderSize]
  <2>1. loc[t].fd \in Fd /\ FdInode(t) \in Inode /\ loc[t].d \in Data /\ loc[t].result = "none"
    BY <1>1, ReadFacts, OwnFacts DEF LocalOK, Reading
  <2>2. /\ loc'[t].op = loc[t].op /\ loc'[t].d = loc[t].d /\ loc'[t].off = loc[t].off
        /\ loc'[t].len = loc[t].len /\ loc'[t].result = loc[t].result
    BY <1>3 DEF Keeps
  <2>3. PICK h \in Seq(Nat), d \in Data, off \in Nat, len \in Nat :
          h = loc[t].header /\ d = loc[t].d /\ off = loc[t].off /\ len = loc[t].len
    BY <1>1, ReadFacts
  <2>4. Len(h) = 4
    <3>1. Len(h) + 0 = 4 /\ Len(h) \in Nat
      BY <1>1, <2>3, OwnFacts, LenProperties DEF LocalOK, HeaderSize
    <3>2. QED
      BY <3>1
  <2>5. fds'[loc[t].fd].pos = off + HeaderSize /\ FdInode(t)' = FdInode(t)
    BY <1>3, <2>1, <2>3, StateFacts DEF FdsType, FdInode
  <2>6. ASSUME NEW p \in Nat, ReadBut(t, p) PROVE ReadBut(t, p)'
    <3>1. PICK b : b = inode[FdInode(t)].bytes
      OBVIOUS
    <3>2. /\ bound.rot = 0 => p = 0
          /\ Len(b) = Len(Whole(d)) /\ \A q \in 1 .. Len(b) : q # p => b[q] = Whole(d)[q]
          /\ \A q \in 1 .. Len(h) : q # p => h[q] = store_header(d)[q]
          /\ loc[t].buf = <<>>
      BY <1>1, <2>3, <2>6, <3>1 DEF ReadBut
    <3>3. h[2] = Len(d)
      BY ZenonT(60), <1>1, <2>3, <2>4, <3>2, HeaderTells
    <3>4. /\ loc'[t].d = d /\ inode'[FdInode(t)'].bytes = b /\ bound'.rot = bound.rot
          /\ loc'[t].off = off /\ loc'[t].len = len /\ loc'[t].pc = "read_data"
          /\ fds'[loc'[t].fd].pos = off + HeaderSize /\ loc'[t].header = h /\ loc'[t].buf = <<>>
      BY <1>1, <1>3, <2>2, <2>3, <2>5, <3>1, <3>2
    <3>5. Len(h) = HeaderSize /\ HeaderOK(h) /\ off <= Len(d)
      BY <1>1, <1>3, <2>3, <2>4, <3>3 DEF HeaderSize
    <3>6. Len(d) \in Nat /\ Smaller(len, Len(d) - off) \in Nat
      <4>1. Len(d) \in Nat
        BY WholeAt
      <4>2. QED
        BY <3>5, <4>1 DEF Smaller
    <3>7. Len(<<>>) = 0 /\ 1 .. 0 = {}
      BY EmptySeq
    <3>8. /\ off + HeaderSize = off + HeaderSize + Len(<<>>)
          /\ Smaller(len, Len(d) - off) + Len(<<>>) = Smaller(len, Len(d) - off)
      BY <3>6, <3>7 DEF HeaderSize
    <3>9. loc'[t].want = Smaller(len, Len(d) - off)
      BY <1>3, <2>3, <3>3
    <3>10. QED
      BY <3>2, <3>4, <3>5, <3>7, <3>8, <3>9 DEF ReadBut
  <2>7. Exact(t)'
    BY <2>1, <2>2 DEF Exact
  <2>8. QED
    BY <1>1, <1>3, <2>2, <2>6, <2>7 DEF ReadBy, Reading
<1>4. QED
  BY <1>2, <1>3, SeekMoves

\* The part of a chunk that get_range was asked for.
Part(d, off, len) == SubSeq(d, off + 1, Smaller(off + len, Len(d)))
LEMMA PartAt ==
  ASSUME NEW d \in Seq(Nat), NEW off \in Nat, NEW len \in Nat, off <= Len(d),
         NEW m, m = Smaller(len, Len(d) - off)
  PROVE  /\ Part(d, off, len) \in Seq(Nat) /\ Len(Part(d, off, len)) = m /\ m \in Nat
         /\ off + m <= Len(d)
         /\ \A q \in 1 .. m : Part(d, off, len)[q] = d[off + q]
<1>1. Len(d) \in Nat
  BY LenProperties
<1>2. PICK z \in Nat : z = Smaller(off + len, Len(d)) /\ z = off + m /\ z <= Len(d) /\ m \in Nat
  BY <1>1 DEF Smaller
<1>3. \A k \in off + 1 .. z : d[k] \in Nat
  <2>1. \A k \in off + 1 .. z : k \in 1 .. Len(d)
    BY <1>1, <1>2
  <2>2. QED
    BY <2>1, ElementOfSeq
<1>4. PICK part : part = SubSeq(d, off + 1, z)
  OBVIOUS
<1>5. /\ part \in Seq(Nat)
      /\ Len(part) = IF off + 1 <= z THEN z - (off + 1) + 1 ELSE 0
      /\ \A k \in 1 .. z - (off + 1) + 1 : part[k] = d[off + 1 + k - 1]
  <2>1. off + 1 \in Int /\ z \in Int
    OBVIOUS
  <2>2. QED
    BY <1>3, <1>4, <2>1, SubSeqProperties
<1>6. Len(part) = m
  BY <1>2, <1>5
<1>7. \A q \in 1 .. m : q \in 1 .. z - (off + 1) + 1 /\ off + 1 + q - 1 = off + q
  BY <1>2
<1>8. \A q \in 1 .. m : part[q] = d[off + q]
  BY <1>5, <1>7
<1>9. QED
  BY <1>2, <1>4, <1>5, <1>6, <1>8 DEF Part

LEMMA CloseReads ==
  ASSUME TypeInv, TypeInv', NEW t \in Thread, close_chunk(t), ReadBy(t)
  PROVE  ReadBy(t)'
<1> USE DEF TypeInv
<1>1. loc[t].pc \in Reading /\ loc[t].pc = "read_data" /\ loc[t].want = 0 /\ UNCHANGED <<inode, bound>>
  BY DEF close_chunk, Reading, At
<1>2. CASE Ends(t, "corrupted") \/ Ends(t, "failed")
  <2>1. \E r \in {"corrupted", "failed"} : Over(t, r)
    BY <1>2, EndsOver DEF Results
  <2>2. QED
    BY <2>1, NothingGot DEF Over
<1>3. CASE Ends(t, "ok") /\ ChecksumOK(t)
  <2>1. /\ loc'[t].pc = "idle" /\ loc'[t].d = loc[t].d /\ loc'[t].off = loc[t].off
        /\ loc'[t].len = loc[t].len /\ loc'[t].buf = loc[t].buf
    BY <1>3, EndsOver DEF Results, Over
  <2>2. PICK h \in Seq(Nat), d \in Data, off \in Nat, len \in Nat, a \in Seq(Nat) :
          /\ h = loc[t].header /\ d = loc[t].d /\ off = loc[t].off /\ len = loc[t].len
          /\ a = loc[t].buf
    BY <1>1, ReadFacts
  <2>3. PICK part : part = Part(d, off, len)
    OBVIOUS
  <2>4. ASSUME bound.rot <= 1, bound.rot = 0 \/ part = d PROVE a = part
    <3>1. PICK p \in Nat : ReadBut(t, p)
      BY <1>1, <2>4 DEF ReadBy
    <3>2. /\ bound.rot = 0 => p = 0
          /\ \A q \in 1 .. Len(h) : q # p => h[q] = store_header(d)[q]
          /\ Len(h) = 4 /\ HeaderOK(h) /\ off <= Len(d)
          /\ 0 + Len(a) = Smaller(len, Len(d) - off)
          /\ \A q \in 1 .. Len(a) : off + 4 + q # p => a[q] = d[off + q]
      BY <1>1, <2>2, <3>1 DEF ReadBut, HeaderSize
    <3>3. d \in Seq(Nat) /\ Len(d) \in Nat /\ Len(a) \in Nat
      BY StoreHeaderType, LenProperties
    <3>4. Len(a) = Smaller(len, Len(d) - off)
      BY <3>2, <3>3
    <3>5. /\ part \in Seq(Nat) /\ Len(part) = Len(a) /\ off + Len(a) <= Len(d)
          /\ \A q \in 1 .. Len(a) : part[q] = d[off + q]
      <4>1. off <= Len(d)
        BY <3>2
      <4>2. /\ Part(d, off, len) \in Seq(Nat) /\ Len(Part(d, off, len)) = Len(a)
            /\ off + Len(a) <= Len(d)
            /\ \A q \in 1 .. Len(a) : Part(d, off, len)[q] = d[off + q]
        BY <3>3, <3>4, <4>1, PartAt, SMTT(30)
      <4>3. QED
        BY <2>3, <4>2
    <3>6. CASE p <= off + 4
      <4>1. \A q \in 1 .. Len(a) : off + 4 + q # p
        BY <3>3, <3>6
      <4>2. \A q \in 1 .. Len(a) : a[q] = part[q]
        BY <3>2, <3>5, <4>1
      <4>3. QED
        BY <3>5, <4>2, SeqEqual
    <3>7. CASE ~ (p <= off + 4)
      <4>1. bound.rot # 0 /\ part = d /\ p # 4
        BY <2>4, <3>2, <3>7
      <4>2. off = 0 /\ Len(a) = Len(d)
        BY <3>3, <3>5, <4>1
      <4>3. h[2] = Len(d) /\ h[4] = crc32(d)
        BY <3>2, <4>1, HeaderTells
      <4>4. crc32(a) = crc32(d)
        BY <1>3, <2>2, <4>2, <4>3 DEF ChecksumOK
      <4>5. PICK k \in Nat : p = 4 + k /\ k > 0
        <5>1. p - 4 \in Nat /\ p - 4 > 0 /\ p = 4 + (p - 4)
          BY <3>7, <4>2
        <5>2. QED
          BY <5>1
      <4>6. \A q \in 1 .. Len(d) : q # k => a[q] = d[q]
        <5>1. \A q \in 1 .. Len(d) : q # k => off + 4 + q # p /\ off + q = q
          BY <3>3, <4>2, <4>5
        <5>2. QED
          BY <3>2, <4>2, <5>1
      <4>7. CASE k \in 1 .. Len(d)
        BY <3>3, <4>1, <4>2, <4>4, <4>6, <4>7, CrcTellsOne
      <4>8. CASE k \notin 1 .. Len(d)
        <5>1. \A q \in 1 .. Len(d) : a[q] = d[q]
          BY <4>6, <4>8
        <5>2. QED
          BY <3>3, <4>1, <4>2, <5>1, SeqEqual
      <4>9. QED
        BY <4>7, <4>8
    <3>8. QED
      BY <3>6, <3>7
  <2>5. bound'.rot <= 1 => Exact(t)'
    BY <1>1, <2>1, <2>2, <2>3, <2>4 DEF Exact, Part
  <2>6. QED
    BY <2>1, <2>5 DEF ReadBy, Reading
<1>4. QED
  BY <1>2, <1>3 DEF close_chunk

\* The other calls do not read.
LEMMA OtherReads ==
  ASSUME TypeInv, NEW t \in Thread, Call(t), ReadBy(t),
         ~ get_range(t), ~ fr_fd_read_full(t), ~ seek_data(t), ~ close_chunk(t)
  PROVE  ReadBy(t)'
<1> USE DEF TypeInv
<1>1. CASE get_fails(t) \/ header_refused(t)
  <2>1. Over(t, "failed")
    BY <1>1, EndsOver DEF get_fails, header_refused, Results
  <2>2. QED
    BY <2>1, NothingGot DEF Over
<1>2. CASE put(t) \/ remove(t) \/ cleanup_temp_files(t)
  <2>1. loc'[t].op # "get" /\ loc'[t].pc \notin Reading
    BY <1>2, PutMoves, RemoveMoves, CleanupMoves DEF Reading
  <2>2. QED
    BY <2>1, NotGetting
<1>3. CASE create_fails(t) \/ put_fails(t) \/ rename_into_place(t) \/ raced(t) \/ cleanup_done(t)
  <2>1. loc[t].pc \notin Reading \cup {"idle"} /\ \E r \in Results : Ends(t, r)
    BY <1>3 DEF create_fails, put_fails, fail, rename_into_place, raced, cleanup_done, At, Results,
                Reading
  <2>2. loc'[t].op = loc[t].op /\ loc'[t].pc = "idle"
    BY <2>1, EndsOver DEF Over
  <2>3. QED
    BY <2>1, <2>2, NotGetting DEF ReadBy, Reading
<1>4. CASE fr_tmpfile_create(t) \/ fr_fd_write_all(t) \/ all_written(t) \/ cleanup_one(t) \/ close_temp(t)
  <2>1. loc[t].pc \notin Reading \cup {"idle"} /\ loc'[t].op = loc[t].op /\ loc'[t].pc \notin Reading
    <3>1. CASE fr_tmpfile_create(t)
      BY <3>1, CreateMoves DEF Keeps, NameTaken, Created, Reading
    <3>2. CASE fr_fd_write_all(t) \/ all_written(t) \/ cleanup_one(t)
      BY <3>2, WriteMoves, WrittenMoves, CleanupOneMoves DEF Stays, Keeps, Reading
    <3>3. CASE close_temp(t)
      BY <3>3, CloseMoves DEF Keeps, Reading
    <3>4. QED
      BY <1>4, <3>1, <3>2, <3>3
  <2>2. QED
    BY <2>1, NotGetting DEF ReadBy
<1>5. CASE fr_fd_fsync(t) \/ fr_dir_create_all(t) \/ rename_fails(t) \/ target_exists(t)
  <2>1. loc[t].pc \notin Reading \cup {"idle"} /\ loc'[t].op = loc[t].op /\ loc'[t].pc \notin Reading
    <3>1. loc[t].pc \notin Reading \cup {"idle"}
      BY <1>5 DEF fr_fd_fsync, fr_dir_create_all, rename_fails, target_exists, At, Reading
    <3>2. CASE \E pc \in Labels \ Reading : Goto(t, pc)
      BY <3>1, <3>2, GotoMoves DEF Stays, Keeps
    <3>3. CASE \E r \in Results : Ends(t, r)
      BY <3>1, <3>3, EndsOver DEF Over, Reading
    <3>4. QED
      BY <1>5, <3>2, <3>3 DEF fr_fd_fsync, fr_dir_create_all, rename_fails, target_exists, Labels,
                              Results, Reading
  <2>2. QED
    BY <2>1, NotGetting DEF ReadBy
<1>6. QED
  BY <1>1, <1>2, <1>3, <1>4, <1>5 DEF Call

\* The medium alters an element: then no other element is altered.
LEMMA AlteredReads ==
  ASSUME TypeInv, altered, NEW t \in Thread, ReadBy(t)
  PROVE  ReadBy(t)'
<1> USE DEF TypeInv
<1>1. UNCHANGED <<fds, loc>> /\ bound'.rot = bound.rot + 1 /\ bound.rot \in Nat
  BY AlteredFacts, StateFacts, ChunkFileAssumption DEF BoundType
<1>2. Exact(t) /\ bound.rot = 0 => Exact(t)'
  BY <1>1 DEF Exact
<1>3. ASSUME bound.rot = 0, loc[t].pc \in Reading PROVE \E p \in Nat : ReadBut(t, p)'
  <2>1. PICK j \in Inode, d \in Data, b \in Seq(Nat) :
          j = FdInode(t) /\ d = loc[t].d /\ b = inode[j].bytes
    BY <1>3, ReadFacts
  <2>2. FdInode(t)' = j
    BY <1>1, <2>1 DEF FdInode
  <2>3. ReadBut(t, 0)
    <3>1. bound.rot <= 1 /\ bound.rot = 0
      BY <1>3
    <3>2. PICK p \in Nat : ReadBut(t, p)
      BY <1>3, <3>1 DEF ReadBy
    <3>3. p = 0
      BY <3>1, <3>2 DEF ReadBut
    <3>4. QED
      BY <3>2, <3>3
  <2>4. PICK p \in Nat : /\ Len(inode'[j].bytes) = Len(b)
                         /\ \A q \in 1 .. Len(b) : q # p => inode'[j].bytes[q] = b[q]
    <3>1. PICK i \in Inode : \E p \in DOMAIN inode[i].bytes :
            /\ \A k \in Inode : k # i => inode'[k] = inode[k]
            /\ inode'[i].bytes = [inode[i].bytes EXCEPT ![p] = @ + 1]
      BY AlteredFacts
    <3>5. PICK p \in DOMAIN inode[i].bytes :
            /\ \A k \in Inode : k # i => inode'[k] = inode[k]
            /\ inode'[i].bytes = [inode[i].bytes EXCEPT ![p] = @ + 1]
      BY <3>1
    <3>2. CASE i = j
      <4>1. DOMAIN b = 1 .. Len(b) /\ Len(b) \in Nat
        BY LenProperties
      <4>2. PICK x \in Nat : x = b[p] + 1
        BY <2>1, <3>2, <3>5, <4>1, ElementOfSeq
      <4>3. inode'[j].bytes = [b EXCEPT ![p] = x] /\ p \in 1 .. Len(b)
        BY <2>1, <3>2, <3>5, <4>1, <4>2
      <4>4. Len([b EXCEPT ![p] = x]) = Len(b) /\ p \in Nat
        BY <4>1, <4>3, ExceptSeq
      <4>5. QED
        BY <4>1, <4>3, <4>4
    <3>3. CASE i # j
      BY <2>1, <3>3, <3>5
    <3>4. QED
      BY <3>2, <3>3
  <2>5. /\ Len(b) = Len(Whole(d)) /\ \A q \in 1 .. Len(b) : b[q] = Whole(d)[q]
        /\ \A q \in 1 .. Len(loc[t].header) : loc[t].header[q] = store_header(d)[q]
    <3>1. Len(b) \in Nat /\ Len(loc[t].header) \in Nat
      BY <1>3, ReadFacts, LenProperties
    <3>2. /\ Len(b) = Len(Whole(d)) /\ \A q \in 1 .. Len(b) : q # 0 => b[q] = Whole(d)[q]
          /\ \A q \in 1 .. Len(loc[t].header) : q # 0 => loc[t].header[q] = store_header(d)[q]
      BY <2>1, <2>3 DEF ReadBut
    <3>3. QED
      BY <3>1, <3>2
  <2>6. loc[t].pc = "read_data" =>
          \A q \in 1 .. Len(loc[t].buf) : loc[t].buf[q] = d[loc[t].off + q]
    <3>1. Len(loc[t].buf) \in Nat /\ loc[t].off \in Nat
      BY <1>3, ReadFacts
    <3>2. \A q \in 1 .. Len(loc[t].buf) : loc[t].off + HeaderSize + q # 0
      BY <3>1 DEF HeaderSize
    <3>3. QED
      BY <2>1, <2>3, <3>2 DEF ReadBut
  <2>7. bound'.rot # 0
    BY <1>1
  <2>8. ReadBut(t, p)'
    <3>1. /\ Len(inode'[j].bytes) = Len(Whole(d))
          /\ \A q \in 1 .. Len(inode'[j].bytes) : q # p => inode'[j].bytes[q] = Whole(d)[q]
      BY <2>4, <2>5
    <3>2. /\ loc[t].pc = "read_header" => fds[loc[t].fd].pos = Len(loc[t].header) /\ loc[t].buf = <<>>
          /\ loc[t].pc = "read_data" =>
               /\ Len(loc[t].header) = HeaderSize /\ HeaderOK(loc[t].header)
               /\ loc[t].off <= Len(d) /\ fds[loc[t].fd].pos = loc[t].off + HeaderSize + Len(loc[t].buf)
               /\ loc[t].want + Len(loc[t].buf) = Smaller(loc[t].len, Len(d) - loc[t].off)
      BY <2>1, <2>3 DEF ReadBut
    <3>3. QED
      BY <1>1, <2>1, <2>2, <2>5, <2>6, <2>7, <3>1, <3>2 DEF ReadBut
  <2>9. QED
    BY <2>8
<1>4. bound'.rot <= 1 => bound.rot = 0
  BY <1>1
<1>5. bound.rot = 0 => bound.rot <= 1
  OBVIOUS
<1>6. QED
  BY <1>1, <1>2, <1>3, <1>4, <1>5 DEF ReadBy

LEMMA NextReads ==
  ASSUME TypeInv, TypeInv', Contents, ReadSoFar, [Next]_vars
  PROVE  ReadSoFar'
<1> SUFFICES ASSUME NEW u \in Thread PROVE ReadBy(u)'
  BY DEF ReadSoFar
<1>0. ReadBy(u)
  BY DEF ReadSoFar
<1>1. CASE \E t \in Thread : Call(t)
  <2>1. PICK t \in Thread : Call(t)
    BY <1>1
  <2>2. CASE u # t
    BY <1>0, <2>1, <2>2, OthersRead DEF Contents
  <2>3. CASE u = t
    BY <1>0, <2>1, <2>3, OtherReads, GetReads, ReadReads, SeekReads, CloseReads
  <2>4. QED
    BY <2>2, <2>3
<1>2. CASE flush \/ UNCHANGED vars
  <2>1. UNCHANGED <<inode, fds, loc, bound>>
    BY <1>2 DEF flush, vars
  <2>2. QED
    BY SMTT(60), <1>0, <2>1 DEF ReadBy, Exact, ReadBut, FdInode
<1>3. CASE power_loss
  <2>1. loc'[u].pc = "idle" /\ loc'[u].result = "none"
    BY <1>3, PowerLossFacts, IdleFields
  <2>2. QED
    BY <2>1, NothingGot
<1>4. CASE altered
  BY <1>0, <1>4, AlteredReads
<1>5. QED
  BY <1>1, <1>2, <1>3, <1>4 DEF Next

\* What a get_range under way has read so far is what is in the file, which
\* is the chunk but for one element at most: fr_fd_read_full's short reads,
\* the seek behind the header, the put or removal of the chunk by another
\* thread in between and the reuse of descriptor numbers change nothing.
THEOREM ReadsInvariant == Spec => []ReadSoFar
<1>1. Init => ReadSoFar
  <2> SUFFICES ASSUME Init, NEW t \in Thread PROVE ReadBy(t)
    BY DEF ReadSoFar
  <2>1. loc[t].pc = "idle" /\ loc[t].op = "none"
    BY IdleFields DEF Init
  <2>2. QED
    BY <2>1 DEF ReadBy, Exact, Reading
<1>2. TypeInv /\ TypeInv' /\ Contents /\ ReadSoFar /\ [Next]_vars => ReadSoFar'
  BY NextReads
<1>3. QED
  BY <1>1, <1>2, TypeInvariant, ContentsInvariant, PTL DEF Spec

\* get_range hands out the part of the chunk that was asked for, cut off at
\* its end, as long as the medium has altered one element at most: a read of
\* part of a chunk while none is altered, a read of the whole chunk, whose
\* checksum is compared, in any case.
THEOREM ReadsExact == Spec => [](bound.rot <= 1 => GetExact)
<1>1. ReadSoFar => (bound.rot <= 1 => GetExact)
  BY DEF ReadSoFar, ReadBy, Exact, GetExact
<1>2. QED
  BY <1>1, ReadsInvariant, PTL
-----------------------------------------------------------------------------
(* Who owns a temporary file, and what was reported stored.                *)

\* A temporary file appears under the name of the thread that moves, which
\* lets go of a name only when the file is gone; and a chunk that is reported
\* is in place, or was reported and missing before.
KeepsFaith(t) ==
  /\ \A n \in Counter : dir'.tmp[n] # 0 => dir.tmp[n] # 0 \/ n = loc'[t].name
  /\ loc[t].name \in Counter /\ loc'[t].name # loc[t].name => dir'.tmp[loc[t].name] = 0
  /\ \A d \in acked' : dir'.chunks[d] # 0 \/ (d \in acked /\ dir.chunks[d] = 0)

LEMMA SameDirFaith ==
  ASSUME TypeInv, NEW t \in Thread, UNCHANGED <<dir, acked>>,
         loc'[t].name = loc[t].name \/ loc[t].name \notin Counter
  PROVE  KeepsFaith(t)
BY DEF KeepsFaith

LEMMA WithoutTempFaith ==
  ASSUME TypeInv, NEW t \in Thread, SetDir(WithoutTemp(loc[t].name)), acked' \subseteq acked \cup InPlace
  PROVE  KeepsFaith(t)
<1>1. /\ dir'.chunks = dir.chunks
      /\ \A m \in Counter : dir'.tmp[m] = IF m = loc[t].name THEN 0 ELSE dir.tmp[m]
  BY OwnFacts, WithoutTempStep DEF TypeInv
<1>2. QED
  BY <1>1 DEF KeepsFaith, InPlace

LEMMA CallFaith ==
  ASSUME TypeInv, TypeInv', Private, NEW t \in Thread, Call(t)
  PROVE  KeepsFaith(t)
<1> USE DEF TypeInv
<1>0. /\ LocalOK(loc[t]) /\ 0 \notin Counter /\ acked \subseteq Data /\ dir \in Directory
      /\ loc[t].pc \notin Writing \cup Ready \cup {"raced"} => loc[t].name \notin Counter
  BY OwnFacts, StateFacts DEF LocalOK
<1>1. CASE put(t)
  <2>1. loc[t].name \notin Counter /\ UNCHANGED dir
    BY <1>0, <1>1 DEF put, MayStart, At, Writing, Ready
  <2>2. acked' \subseteq acked \cup InPlace
    BY <1>1, PutMoves
  <2>3. QED
    BY <2>1, <2>2 DEF KeepsFaith, InPlace
<1>2. CASE fr_tmpfile_create(t)
  <2>1. UNCHANGED acked /\ loc[t].name \notin Counter
    BY <1>0, <1>2, CreateMoves DEF fr_tmpfile_create, Writing, Ready
  <2>2. CASE NameTaken(t)
    BY <2>1, <2>2, SameDirFaith DEF NameTaken
  <2>3. CASE \E i \in FreeInodes, f \in FreeFds : Created(t, i, f)
    <3>1. PICK i \in Inode : SetDir([dir EXCEPT !.tmp[counter + 1] = i]) /\ loc'[t].name = counter + 1
      BY <2>3 DEF Created, FreeInodes
    <3>2. counter + 1 \in Counter
      BY <1>2, CreateMoves
    <3>3. PICK n \in Counter : n = counter + 1
      BY <3>2
    <3>4. SetDir([dir EXCEPT !.tmp[n] = i])
      BY <3>1, <3>3
    <3>5. /\ dir'.chunks = dir.chunks
          /\ \A m \in Counter : dir'.tmp[m] = IF m = n THEN i ELSE dir.tmp[m]
      BY <3>4, NewTempStep
    <3>6. QED
      BY <2>1, <3>1, <3>3, <3>5 DEF KeepsFaith
  <2>4. QED
    BY <1>2, <2>2, <2>3, CreateMoves
<1>3. CASE create_fails(t) \/ get_fails(t) \/ close_chunk(t) \/ header_refused(t) \/ cleanup_done(t)
           \/ get_range(t) \/ seek_data(t) \/ cleanup_temp_files(t) \/ fr_fd_read_full(t)
  <2>1. loc[t].pc \in Reading \cup {"idle", "create", "cleanup"} /\ UNCHANGED <<dir, acked>>
    BY <1>3 DEF create_fails, get_fails, close_chunk, header_refused, cleanup_done, get_range, At,
                seek_data, cleanup_temp_files, fr_fd_read_full, MayStart, Reading
  <2>2. loc[t].name \notin Counter
    BY <1>0, <2>1 DEF Reading, Writing, Ready
  <2>3. QED
    BY <2>1, <2>2, SameDirFaith
<1>4. CASE fr_fd_write_all(t) \/ all_written(t) \/ fr_fd_fsync(t) \/ fr_dir_create_all(t) \/ close_temp(t)
  <2>1. UNCHANGED <<dir, acked>>
    BY <1>4 DEF fr_fd_write_all, all_written, fr_fd_fsync, fr_dir_create_all, close_temp
  <2>2. loc'[t].name = loc[t].name
    <3>1. CASE fr_fd_write_all(t) \/ all_written(t) \/ close_temp(t)
      BY <3>1, WriteMoves, WrittenMoves, CloseMoves DEF Stays
    <3>2. CASE fr_fd_fsync(t) \/ fr_dir_create_all(t)
      BY <3>2, GotoMoves DEF fr_fd_fsync, fr_dir_create_all, Stays, Labels
    <3>3. QED
      BY <1>4, <3>1, <3>2
  <2>3. QED
    BY <2>1, <2>2, SameDirFaith
<1>5. CASE put_fails(t) \/ rename_fails(t)
  BY <1>5, WithoutTempFaith DEF put_fails, fail, rename_fails
<1>6. CASE target_exists(t)
  <2>1. CASE loc[t].d \in InPlace
    <3>1. SetDir(WithoutTemp(loc[t].name)) /\ Reported(t)
      BY <1>6, <2>1 DEF target_exists
    <3>2. QED
      BY <2>1, <3>1, WithoutTempFaith DEF Reported
  <2>2. CASE loc[t].d \notin InPlace
    <3>1. Goto(t, "rename") /\ UNCHANGED <<dir, acked>>
      BY <1>6, <2>2 DEF target_exists
    <3>2. QED
      BY <3>1, GotoMoves, SameDirFaith DEF Stays, Labels
  <2>3. QED
    BY <2>1, <2>2
<1>7. CASE rename_into_place(t)
  <2>1. PICK n \in Counter, d \in Data :
          /\ n = loc[t].name /\ d = loc[t].d
          /\ dir.tmp[n] # 0 /\ SetDir([dir EXCEPT !.chunks[d] = dir.tmp[n], !.tmp[n] = 0])
          /\ acked' = acked \cup {d}
    BY <1>0, <1>7, OwnFacts DEF rename_into_place, At, Reported, LocalOK, Ready
  <2>2. /\ \A e \in Data : dir'.chunks[e] = IF e = d THEN dir.tmp[n] ELSE dir.chunks[e]
        /\ \A m \in Counter : dir'.tmp[m] = IF m = n THEN 0 ELSE dir.tmp[m]
    <3>1. TypeOK /\ SetDir([dir EXCEPT !.chunks[d] = dir.tmp[n], !.tmp[n] = 0])
      BY <2>1
    <3> HIDE DEF TypeInv
    <3>2. QED
      BY ZenonT(60), <3>1, RenamedStep
  <2>3. QED
    BY <1>0, <2>1, <2>2 DEF KeepsFaith
<1>8. CASE raced(t)
  <2>1. UNCHANGED dir /\ loc[t].pc = "raced" /\ acked' \subseteq acked \cup InPlace
    BY <1>8 DEF raced, At, Reported
  <2>2. dir.tmp[loc[t].name] = 0
    BY <2>1 DEF Private, TempInode
  <2>3. \A d \in acked' : dir.chunks[d] # 0 \/ (d \in acked /\ dir.chunks[d] = 0)
    BY <2>1 DEF InPlace
  <2>4. QED
    BY <2>1, <2>2, <2>3 DEF KeepsFaith
<1>9. CASE remove(t)
  <2>1. loc[t].name \notin Counter
    BY <1>0, <1>9 DEF remove, MayStart, At, Writing, Ready
  <2>2. CASE UNCHANGED <<dir, survives, acked>>
    BY <2>1, <2>2, SameDirFaith
  <2>3. CASE \E d \in Data : SetDir([dir EXCEPT !.chunks[d] = 0]) /\ acked' = acked \ {d}
    <3>1. PICK d \in Data : SetDir([dir EXCEPT !.chunks[d] = 0]) /\ acked' = acked \ {d}
      BY <2>3
    <3>2. dir'.tmp = dir.tmp /\ \A e \in Data : dir'.chunks[e] = IF e = d THEN 0 ELSE dir.chunks[e]
      BY <3>1, RemovedStep
    <3>3. QED
      BY <1>0, <2>1, <3>1, <3>2 DEF KeepsFaith
  <2>4. QED
    BY <1>9, <2>2, <2>3, RemoveMoves
<1>10. CASE cleanup_one(t)
  <2>1. UNCHANGED acked /\ loc'[t].name = loc[t].name
    BY <1>10, CleanupOneMoves DEF cleanup_one, Stays
  <2>2. PICK n \in Counter : SetDir(WithoutTemp(n))
    BY <1>10 DEF cleanup_one, Leftovers
  <2>3. dir'.chunks = dir.chunks /\ \A m \in Counter : dir'.tmp[m] = IF m = n THEN 0 ELSE dir.tmp[m]
    BY <2>2, WithoutTempStep
  <2>4. QED
    BY <2>1, <2>3 DEF KeepsFaith
<1>11. QED
  BY <1>1, <1>2, <1>3, <1>4, <1>5, <1>6, <1>7, <1>8, <1>9, <1>10 DEF Call

\* A header is refused only after the medium altered it.
LEMMA RefusedAltered ==
  ASSUME TypeInv, ReadSoFar, NEW t \in Thread, header_refused(t)
  PROVE  bound.rot # 0
<1> SUFFICES ASSUME bound.rot = 0 PROVE FALSE
  OBVIOUS
<1>1. loc[t].pc \in Reading /\ loc[t].pc = "read_header" /\ loc[t].want = 0 /\ ~ HeaderOK(loc[t].header)
  BY DEF header_refused, At, Reading
<1>2. PICK h \in Seq(Nat), d \in Data : h = loc[t].header /\ d = loc[t].d
  BY <1>1, ReadFacts
<1>3. Len(h) = 4
  <2>1. Len(h) + 0 = 4 /\ Len(h) \in Nat
    BY <1>1, <1>2, OwnFacts, LenProperties DEF LocalOK, HeaderSize
  <2>2. QED
    BY <2>1
<1>4. \A q \in 1 .. 4 : q # 0 => h[q] = store_header(d)[q]
  <2>1. bound.rot <= 1
    OBVIOUS
  <2>2. PICK p \in Nat : ReadBut(t, p)
    BY <1>1, <2>1 DEF ReadSoFar, ReadBy
  <2>3. p = 0 /\ \A q \in 1 .. Len(h) : q # p => h[q] = store_header(d)[q]
    BY <1>2, <2>2 DEF ReadBut
  <2>4. QED
    BY <1>3, <2>3
<1>5. h[1] = store_header(d)[1] /\ h[2] = store_header(d)[2] /\ h[3] = store_header(d)[3]
  BY <1>4
<1>6. HeaderOK(h)
  BY <1>5 DEF HeaderOK, store_header
<1>7. QED
  BY <1>1, <1>2, <1>6

Ownership == FdsOwned /\ TempOwned /\ PutPresent

LEMMA CallOwnership ==
  ASSUME TypeInv, TypeInv', Private, ReadSoFar, Ownership, NEW t \in Thread, Call(t)
  PROVE  Ownership'
<1>1. Moves(t) /\ bound'.rot = bound.rot /\ bound'.crashes = bound.crashes
  BY CallThread, CallInodes
<1>2. KeepsFaith(t) /\ acked \subseteq Data /\ acked' \subseteq Data
  BY CallFaith, StateFacts DEF TypeInv, TypeOK
<1>3. FdsOwned'
  <2> SUFFICES ASSUME bound.rot = 0, NEW f \in Fd, fds'[f] # Closed
               PROVE  \E u \in Thread : loc'[u].fd = f
    BY <1>1 DEF FdsOwned
  <2>1. CASE f = loc'[t].fd
    BY <2>1
  <2>2. CASE f # loc'[t].fd
    <3>1. loc[t].fd # f
      <4> SUFFICES ASSUME loc[t].fd = f PROVE FALSE
        OBVIOUS
      <4>1. f # 0
        BY StateFacts DEF TypeInv
      <4>2. QED
        BY <2>2, <4>1, CallFds, RefusedAltered
    <3>2. fds'[f] = fds[f]
      BY <2>2, <3>1, CallFds DEF FdsStep
    <3>3. PICK u \in Thread : loc[u].fd = f
      BY <3>2 DEF Ownership, FdsOwned
    <3>4. QED
      BY <1>1, <3>1, <3>3 DEF Moves
  <2>3. QED
    BY <2>1, <2>2
<1>4. TempOwned'
  <2> SUFFICES ASSUME bound.crashes = 0, NEW n \in Counter, dir'.tmp[n] # 0
               PROVE  \E u \in Thread : loc'[u].name = n
    BY <1>1 DEF TempOwned, Leftovers
  <2>1. CASE n = loc'[t].name
    BY <2>1
  <2>2. CASE n # loc'[t].name
    <3>1. dir.tmp[n] # 0 /\ loc[t].name # n
      BY <1>2, <2>2 DEF KeepsFaith
    <3>2. PICK u \in Thread : loc[u].name = n
      BY <3>1 DEF Ownership, TempOwned, Leftovers
    <3>3. QED
      BY <1>1, <3>1, <3>2 DEF Moves
  <2>3. QED
    BY <2>1, <2>2
<1>5. PutPresent'
  BY <1>1, <1>2 DEF Ownership, PutPresent, KeepsFaith, InPlace
<1>6. QED
  BY <1>3, <1>4, <1>5 DEF Ownership

LEMMA NextOwnership ==
  ASSUME TypeInv, TypeInv', Private, ReadSoFar, Ownership, [Next]_vars
  PROVE  Ownership'
<1>1. CASE \E t \in Thread : Call(t)
  BY <1>1, CallOwnership
<1>2. CASE power_loss
  BY <1>2, PowerLossFacts DEF Ownership, FdsOwned, TempOwned, PutPresent
<1>3. CASE altered
  <2>1. UNCHANGED <<dir, fds, loc, acked>> /\ bound'.crashes = bound.crashes /\ bound'.rot = bound.rot + 1
    BY <1>3, AlteredFacts DEF TypeInv
  <2>2. bound'.rot # 0
    BY <2>1, StateFacts, ChunkFileAssumption DEF BoundType, TypeInv
  <2>3. QED
    BY <2>1, <2>2 DEF Ownership, FdsOwned, TempOwned, PutPresent, Leftovers, InPlace
<1>4. CASE flush \/ UNCHANGED vars
  <2>1. UNCHANGED <<dir, fds, loc, acked, bound>>
    BY <1>4 DEF flush, vars
  <2>2. QED
    BY <2>1 DEF Ownership, FdsOwned, TempOwned, PutPresent, Leftovers, InPlace
<1>5. QED
  BY <1>1, <1>2, <1>3, <1>4 DEF Next

\* Nothing is left behind while the process lives: no descriptor without a
\* call unless a header was refused, no temporary file without a put, no
\* reported chunk without its file.
THEOREM OwnershipInvariant == Spec => []Ownership
<1>1. Init => Ownership
  <2> SUFFICES ASSUME Init PROVE Ownership
    OBVIOUS
  <2>1. FdsOwned
    BY DEF Init, FdsOwned
  <2>2. TempOwned
    BY DEF Init, TempOwned, Leftovers
  <2>3. PutPresent
    BY DEF Init, PutPresent
  <2>4. QED
    BY <2>1, <2>2, <2>3 DEF Ownership
<1>2. TypeInv /\ TypeInv' /\ Contents /\ ReadSoFar /\ Ownership /\ [Next]_vars => Ownership'
  BY NextOwnership DEF Contents
<1>3. QED
  BY <1>1, <1>2, TypeInvariant, ContentsInvariant, ReadsInvariant, PTL DEF Spec

\* The lambda fail and the early returns of write_chunk_file: as long as the
\* process lives, every temporary file is the one of a put under way.
THEOREM TempFilesOwned == Spec => []TempOwned
<1>1. Ownership => TempOwned
  BY DEF Ownership
<1>2. QED
  BY <1>1, OwnershipInvariant, PTL

\* A put that reports success, whether it renamed its file, found one there
\* or lost the race for the name, leaves the chunk in place until somebody
\* removes it or the power fails.
THEOREM ReportedPresent == Spec => []PutPresent
<1>1. Ownership => PutPresent
  BY DEF Ownership
<1>2. QED
  BY <1>1, OwnershipInvariant, PTL

\* fr_fd_close on every way out: a descriptor belongs to one call under way,
\* no call uses one that was closed, although the numbers are used again, no
\* descriptor is left open but by parse_header's throw on an altered header,
\* and a put never writes to a file that is in place.
THEOREM DescriptorsHaveOwners == Spec => []DescriptorsOwned
<1>1. TypeInv /\ Private /\ Ownership => DescriptorsOwned
  <2> SUFFICES ASSUME TypeInv, Private, Ownership PROVE DescriptorsOwned
    OBVIOUS
  <2>1. \A t \in Thread : loc[t].fd # 0 => fds[loc[t].fd] # Closed
    BY DEF TypeInv, Exclusive, FdInode, Closed
  <2>2. ASSUME NEW f \in Fd, fds[f] # Closed
        PROVE  bound.rot > 0 \/ \E t \in Thread : loc[t].fd = f
    <3>1. bound.rot \in Nat
      BY StateFacts, ChunkFileAssumption DEF TypeInv, BoundType
    <3>2. CASE bound.rot = 0
      BY <2>2, <3>2 DEF Ownership, FdsOwned
    <3>3. CASE bound.rot # 0
      BY <3>1, <3>3
    <3>4. QED
      BY <3>2, <3>3
  <2>3. \A t, u \in Thread : loc[t].fd = loc[u].fd /\ t # u => loc[t].fd = 0
    BY DEF TypeInv, Exclusive
  <2>4. \A t \in Thread, d \in InPlace :
          loc[t].pc \in {"header", "data", "fsync"} => fds[loc[t].fd].inode # dir.chunks[d]
    BY StateFacts DEF TypeInv, Private, NotInPlace, FdInode, Writing, InPlace
  <2>5. QED
    BY <2>1, <2>2, <2>3, <2>4 DEF DescriptorsOwned
<1>2. QED
  BY <1>1, TypeInvariant, ContentsInvariant, OwnershipInvariant, PTL DEF Contents
=============================================================================
