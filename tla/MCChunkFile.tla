---------------------------- MODULE MCChunkFile ----------------------------
(* Instances of the chunk files for TLC.                                   *)
EXTENDS ChunkFile

CONSTANTS t1, t2

\* A chunk of two bytes and one of one byte.
Chunks == {<<1, 2>>, <<3>>}
OneChunk == {<<1, 2>>}

ThreadSymmetry == Permutations(Thread)
=============================================================================
