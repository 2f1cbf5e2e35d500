------------------------------ MODULE MCClient -------------------------------
(* Instances of Client for TLC.                                            *)
EXTENDS Client

\* Of two chunks and of one, which is a beginning of neither.
Files == {<<1, 2, 3>>, <<4, 5>>}
All == Command
Transfers == {"upload", "download", "resume"}
=============================================================================
