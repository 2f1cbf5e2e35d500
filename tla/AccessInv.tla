----------------------------- MODULE AccessInv ------------------------------
(***************************************************************************)
(* The inductive invariants of Access.  Of authentication, rights and      *)
(* audit, where a client waits for its answer (InFlight = 1): a connection *)
(* is in one worker's hands, what an AUTH has verified stays true until it *)
(* is assigned, a right that was checked stays until it is used, and what  *)
(* was done is recorded or about to be.  Of the limits on failed logins:   *)
(* where each wrong token of the last seconds has been counted.            *)
(***************************************************************************)
EXTENDS Access

Pcs == {"idle", "verify", "set_username", "set_role", "auth_failed", "note", "check", "act", "audit"}
BootPcs == {"has_no_users", "user_add", "token_create", "end"}
ClientSession ==
  [open : BOOLEAN, hello_done : BOOLEAN, authenticated : BOOLEAN, username : User \cup {""},
   role : Role, auth_failures : Nat]
UploadRow ==
  [owner : User \cup {""}, ref : Ref, state : {"OPEN", "COMPLETED", "ABORTED"}, complete : BOOLEAN]
WorkerState ==
  [pc : Pcs, conn : Conn \cup {AnyConn}, req : Requests \cup {NoRequest},
   ok : [username : User \cup {""}, role : Role]]

TypeInv ==
  /\ user \in [User -> UserRow] /\ token \in Seq(TokenRow)
  /\ upload \in Seq(UploadRow) /\ artifact \in [Ref -> User \cup {"", NoArtifact}]
  /\ session \in [Conn -> ClientSession]
  /\ wk \in [Worker -> WorkerState]
  /\ \A w \in Worker : wk[w].pc # "idle" => wk[w].conn \in Conn /\ wk[w].req \in Requests
  /\ boot \in [Boot -> [pc : BootPcs, name : User \cup {AnyUser}]]
  /\ \A b \in Boot : boot[b].pc \in {"user_add", "token_create"} => boot[b].name \in User
  /\ now \in Nat
  /\ IsABag(effects) /\ IsABag(audit)

\* A connection is in the hands of one worker.
Exclusive ==
  \A v, w \in Worker : wk[v].pc # "idle" /\ wk[w].pc # "idle" /\ wk[v].conn = wk[w].conn => v = w

Registered == \A u \in User : user[u].enabled => user[u].known
IsRole(name, role) == name \in User /\ user[name].known /\ role = user[name].role

\* What verify found, until it is assigned; between the two assignments the
\* session has the new name and perhaps the old role.
Verified ==
  \A w \in Worker :
    /\ wk[w].pc \in {"set_username", "set_role"} => IsRole(wk[w].ok.username, wk[w].ok.role)
    /\ wk[w].pc = "set_role" => sess(w).username = wk[w].ok.username
Named ==
  \A c \in Conn :
    session[c].authenticated =>
      IsRole(session[c].username, session[c].role) \/ \E w \in Worker : wk[w].pc = "set_role" /\ wk[w].conn = c

\* The rights put_check found are there when the chunk is written.
MayPut == \A w \in Worker : At(w, "act", "PUT_CHUNK") => Allowed(w)

Recorded ==
  /\ \A w \in Worker : wk[w].pc = "audit" => Entry(w) \in BagToSet(effects)
  /\ AuditTrail

AccessInv == Exclusive /\ Registered /\ Verified /\ Named /\ MayPut /\ Recorded
-----------------------------------------------------------------------------
(* The inductive invariant of the limits on failed logins, for any number  *)
(* of requests in flight.                                                  *)

\* The workers that found an address not blocked and have a token of it to
\* verify, and those that have a failure of it to note.
Looked(a) == {w \in Worker : wk[w].pc = "verify" /\ peer(w) = a}
Unnoted(a) == {w \in Worker : wk[w].pc \in {"auth_failed", "note"} /\ peer(w) = a}
\* Of the times in q, in order, at most n are t or later.
AtMost(q, t, n) == Len(q) <= n \/ q[Len(q) - n] < t

WorkerRecord(x) == x = [pc |-> x.pc, conn |-> x.conn, req |-> x.req, ok |-> x.ok]
LimitTypes ==
  /\ now \in Nat \ {0}
  /\ ip_stats \in [Address -> [failures : 0 .. kIpFailureThreshold - 1, window_start : Nat, blocked_until : Nat]]
  /\ guesses \in [Address -> Seq(Nat)]
  /\ wk = [w \in Worker |-> wk[w]]
  /\ \A w \in Worker :
       WorkerRecord(wk[w]) /\ (wk[w].pc \in {"verify", "auth_failed", "note"} => wk[w].conn \in Conn)

\* The clock does not go back.
InOrder ==
  \A a \in Address :
    /\ ip_stats[a].window_start <= now
    /\ \A i, j \in DOMAIN guesses[a] : i <= j => guesses[a][i] <= guesses[a][j]
    /\ \A i \in DOMAIN guesses[a] : guesses[a][i] \in 1 .. now
\* The guesses of an address from t on, as long as t is no longer ago than a
\* block.  Either it was blocked since t, and only the workers that had looked
\* before can make more of them; or each is still to be noted, or counted, or
\* was counted before the window that has begun since t, of which there is one.
CountedSince(a, t) ==
  \/ /\ ip_stats[a].blocked_until >= t + kIpBlockSeconds
     /\ AtMost(guesses[a], t, MostGuesses - Cardinality(Looked(a)))
  \/ AtMost(guesses[a], t,
            Cardinality(Unnoted(a)) + ip_stats[a].failures
              + IF ip_stats[a].window_start >= t THEN kIpFailureThreshold - 1 ELSE 0)
Counted == \A a \in Address : \A t \in 1 .. now : now < t + kIpBlockSeconds => CountedSince(a, t)

LimitInv == LimitTypes /\ InOrder /\ Counted /\ GuessesBounded
=============================================================================
