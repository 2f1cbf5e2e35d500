------------------------------- MODULE MCServer ------------------------------
(* Instances of the server for TLC.                                        *)
EXTENDS Server, TLC

CONSTANTS c1, c2, w1, w2

Ping == [kind |-> "PING", offset |-> 0, length |-> 0]
Close == [kind |-> "CLOSE", offset |-> 0, length |-> 0]
Bad == [kind |-> "BAD", offset |-> 0, length |-> 0]
Get(offset, length) == [kind |-> "GET", offset |-> offset, length |-> length]

\* A download of two slices, the second one short (artifact 3, slice 2).
Downloads == {Get(0, 3)}
\* A whole download, a range that ends beyond the artifact, an empty one,
\* one that starts beyond it, and the other kinds of request.
AllRequests == {Ping, Close, Bad, Get(0, 3), Get(1, 4), Get(0, 0), Get(4, 1)}
SomeRequests == {Ping, Get(0, 3)}

Symmetry == Permutations(Worker) \cup Permutations(Conn)
=============================================================================
