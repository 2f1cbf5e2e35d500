------------------------------ MODULE MCAccess -------------------------------
(* Instances of Access for TLC.                                            *)
EXTENDS Access

CONSTANTS admin, pub, rdr, ref, c1, c2, a1, w1, w2, b1, b2

Req(op, u, role, n) == [op |-> op, user |-> u, role |-> role, ref |-> ref, n |-> n]
Auth(n) == Req("AUTH", admin, "Reader", n)
Simple(op) == Req(op, admin, "Reader", 1)

Row(role) == [role |-> role, enabled |-> TRUE, known |-> TRUE]
Token(u) == [user |-> u, expires_at |-> 0, revoked |-> FALSE]
SameAddress == [c \in Conn |-> a1]

\* An administrator (token 1) and a publisher (token 2) at work, and a third
\* user who may be added.
Users == [u \in User |-> CASE u = admin -> Row("Admin") [] u = pub -> Row("Publisher") [] OTHER -> NoUser]
Tokens == <<Token(admin), Token(pub)>>
Work == {Auth(1), Auth(2), Simple("CREATE_UPLOAD"), Simple("PUT_CHUNK"),
         Simple("COMMIT_UPLOAD"), Simple("ABORT_UPLOAD"), Simple("SESSION_ABORT"),
         Simple("DELETE_ARTIFACT"), Simple("RUN_GC"),
         Req("USER_ADD", rdr, "Reader", 0), Req("USER_DISABLE", pub, "Reader", 0),
         Req("TOKEN_CREATE", rdr, "Reader", 1), Req("TOKEN_REVOKE", pub, "Reader", 2)}
\* An artifact that is deleted and published again.
Republish == {Auth(1), Auth(2), Simple("CREATE_UPLOAD"), Simple("DELETE_ARTIFACT")}
               \cup {Req(op, admin, "Reader", n) : op \in {"PUT_CHUNK", "COMMIT_UPLOAD"}, n \in 1..2}

\* Nobody yet: an administrator is bootstrapped while others guess tokens.
NoUsers == [u \in User |-> NoUser]
NoTokens == <<>>
Guesses == {Auth(7), Simple("HELLO")}

Symmetry == Permutations(Worker)
=============================================================================
