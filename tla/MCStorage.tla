------------------------------ MODULE MCStorage ------------------------------
(* Instances of the storage engine for TLC.                                *)
EXTENDS StorageRepo, StorageInv

CONSTANTS s1, s2, alice, lib, app

\* Contents of one byte and of two; ChunkSize is 2, so both are within bounds.
OneChunk == {<<1>>}
MixedChunks == {<<1>>, <<2, 1>>}

Upload(n, bytes, size) == [owner |-> alice, name |-> n, size |-> size, digest |-> bytes]

\* One artifact of one chunk.
OneUpload == {Upload(lib, <<1>>, 1)}

\* Artifacts of one and of two chunks that share a chunk; a second upload of
\* the first name; a size so large that chunk_count wraps around to 0.
Uploads ==
  {Upload(lib, <<1>>, 1), Upload(lib, <<1, 2, 1>>, 3), Upload(app, <<1>>, 7)}

SessionSymmetry == Permutations(Session)
=============================================================================
