---------------------------- MODULE ArtifactRepo ----------------------------
(***************************************************************************)
(* What the storage engine promises the readers of artifacts: a name holds *)
(* nothing, or exactly the bytes and the owner that one upload request     *)
(* declared.  It is published in one step, never overwritten, and stays    *)
(* readable until it is deleted in one step.                               *)
(***************************************************************************)
CONSTANTS
  Name,      \* artifact references
  Requests,  \* uploads clients may declare: [owner, name, size, digest]
  Empty      \* content of a name nothing is published under

VARIABLE repo  \* repo[n] is what a reader of n gets

Init == repo = [n \in Name |-> Empty]

Publish(r) ==
  /\ repo[r.name] = Empty
  /\ repo' = [repo EXCEPT ![r.name] = [creator |-> r.owner, bytes |-> r.digest]]

Delete(n) ==
  /\ repo[n] # Empty
  /\ repo' = [repo EXCEPT ![n] = Empty]

Next == (\E r \in Requests : Publish(r)) \/ (\E n \in Name : Delete(n))

Spec == Init /\ [][Next]_repo
=============================================================================
