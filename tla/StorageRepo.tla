---------------------------- MODULE StorageRepo -----------------------------
(***************************************************************************)
(* The storage engine implements ArtifactRepo: what a reader would get     *)
(* after a crash, chunk file by chunk file, changes only by whole          *)
(* publications and whole deletions.                                       *)
(***************************************************************************)
EXTENDS Storage

\* read_artifact: the bytes of the manifest's chunks in order; a chunk whose
\* file is missing makes the artifact unreadable.
Unreadable == [creator |-> Nil, bytes |-> Nil]
ReadBack(n) ==
  LET a == disk.artifact[n] IN
  IF a = NoArtifact THEN NoArtifact
  ELSE IF Range(a.manifest) \subseteq files
       THEN [creator |-> a.creator, bytes |-> FlattenSeq(a.manifest)]
       ELSE Unreadable

Repo == INSTANCE ArtifactRepo
          WITH Requests <- CreateRequests, Empty <- NoArtifact,
               repo <- [n \in Name |-> ReadBack(n)]

\* Readers see exactly the bytes and the owner one create_session declared,
\* from one committed publication until one committed deletion, through
\* garbage collection, aborts, maintenance and crashes.
ImplementsRepo == Repo!Spec
=============================================================================
