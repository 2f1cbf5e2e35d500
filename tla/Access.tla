------------------------------- MODULE Access -------------------------------
(***************************************************************************)
(* Who may do what: the registry of users, tokens and audit entries        *)
(* (src/src/service/fr_auth.cpp), the part of the dispatcher that          *)
(* authenticates a connection, limits failed logins and checks roles and   *)
(* ownership (src/src/service/fr_dispatch.cpp), and the bootstrap of the   *)
(* first administrator (src/src/apps/forgerelayd/main.cpp).                *)
(*                                                                         *)
(* A step is one critical section of the dispatcher's mutex or of the      *)
(* registry's, or one access to a ClientSession, which no lock protects:   *)
(* requests of one connection that are in the hands of several workers     *)
(* share it.  Storage is reduced to what rights are about: who owns an     *)
(* upload, who created an artifact; module Storage has the rest.           *)
(***************************************************************************)
EXTENDS Integers, FiniteSets, Sequences, Bags, FiniteSetsExt

CONSTANTS
  User,        \* names of users
  Ref,         \* namespace/name:version of artifacts
  Conn,        \* connections
  Address,     \* source addresses
  ip_of,       \* the address of each connection's peer
  Worker,      \* worker threads
  Boot,        \* processes run with --create-admin
  Requests,    \* what clients may send
  InitUser,    \* the user table at start
  InitToken,   \* the token table at start
  kAuthFailuresBeforeClose,
  kIpFailureWindowSeconds,
  kIpFailureThreshold,
  kIpBlockSeconds,
  InFlight,    \* requests of one connection that workers may hold at once
  MaxTokens,   \* bounds on the tables and on the clock
  MaxUploads,
  MaxAudit,
  MaxTime

Role == {"Reader", "Publisher", "Admin"}
AdminOps == {"RUN_GC", "USER_ADD", "USER_DISABLE", "TOKEN_CREATE", "TOKEN_REVOKE", "SESSION_ABORT"}
SessionOps == {"PUT_CHUNK", "COMMIT_UPLOAD", "ABORT_UPLOAD"}
Op == AdminOps \cup SessionOps \cup {"HELLO", "AUTH", "CREATE_UPLOAD", "DELETE_ARTIFACT"}

\* A request: n is a token's id, an upload's id or a token's lifetime.
Request == [op : Op, user : User, role : Role, ref : Ref, n : Nat]

NoUser == [role |-> "Reader", enabled |-> FALSE, known |-> FALSE]
UserRow == [role : Role, enabled : BOOLEAN, known : BOOLEAN]
TokenRow == [user : User, expires_at : Nat, revoked : BOOLEAN]
NoArtifact == "none"

ASSUME AccessAssumption ==
  /\ ip_of \in [Conn -> Address]
  /\ Requests \subseteq Request
  /\ InitUser \in [User -> UserRow] /\ \A u \in User : InitUser[u].enabled => InitUser[u].known
  /\ InitToken \in Seq(TokenRow)
  /\ NoArtifact \notin User /\ IsFiniteSet(Worker)
  /\ {kAuthFailuresBeforeClose, kIpFailureThreshold, InFlight} \subseteq Nat \ {0}
  /\ {kIpFailureWindowSeconds, kIpBlockSeconds} \subseteq Nat
  /\ {MaxTokens, MaxUploads, MaxAudit, MaxTime} \subseteq Nat

VARIABLES
  user,      \* table user
  token,     \* table token, by id
  audit,     \* table audit_event: a bag of (actor, action, target)
  upload,    \* upload sessions: owner, artifact, state, whether it has its chunks
  artifact,  \* creator of each artifact
  session,   \* the ClientSession of each connection
  ip_stats,  \* failed logins of each address
  wk,        \* each worker's position, request and local variables
  boot,      \* position of each --create-admin process and the name it adds
  now,       \* the clock, from 1: a window_start of 0 is none
  effects,   \* history: administrative operations that succeeded, as the audit entries they call for
  guesses    \* history: the times at which an address had a wrong token verified

registry == <<user, token>>
stored == <<upload, artifact>>
history == <<effects, guesses>>
vars == <<user, token, audit, upload, artifact, session, ip_stats, wk, boot, now, effects, guesses>>

NewSession ==
  [open |-> TRUE, hello_done |-> FALSE, authenticated |-> FALSE, username |-> "",
   role |-> "Reader", auth_failures |-> 0]
Gone == [NewSession EXCEPT !.open = FALSE]
NoStat == [failures |-> 0, window_start |-> 0, blocked_until |-> 0]

AnyConn == CHOOSE c \in Conn : TRUE
AnyUser == CHOOSE u \in User : TRUE
AnyRef == CHOOSE a \in Ref : TRUE
NoRequest == [op |-> "HELLO", user |-> AnyUser, role |-> "Reader", ref |-> AnyRef, n |-> 0]
Idle == [pc |-> "idle", conn |-> AnyConn, req |-> NoRequest, ok |-> [username |-> "", role |-> "Reader"]]

Init ==
  /\ user = InitUser
  /\ token = InitToken
  /\ audit = EmptyBag
  /\ upload = <<>>
  /\ artifact = [a \in Ref |-> NoArtifact]
  /\ session = [c \in Conn |-> Gone]
  /\ ip_stats = [a \in Address |-> NoStat]
  /\ wk = [w \in Worker |-> Idle]
  /\ boot = [b \in Boot |-> [pc |-> "has_no_users", name |-> AnyUser]]
  /\ now = 1
  /\ effects = EmptyBag
  /\ guesses = [a \in Address |-> <<>>]
-----------------------------------------------------------------------------
(* Connections and workers.                                                *)

Held(c) == {w \in Worker : wk[w].pc # "idle" /\ wk[w].conn = c}

connect(c) ==
  /\ ~session[c].open /\ Held(c) = {}
  /\ session' = [session EXCEPT ![c] = NewSession]
  /\ UNCHANGED <<registry, audit, stored, ip_stats, wk, boot, now, history>>

\* The session outlives the connection while a worker holds it.
disconnect(c) ==
  /\ session[c].open
  /\ session' = [session EXCEPT ![c].open = FALSE]
  /\ UNCHANGED <<registry, audit, stored, ip_stats, wk, boot, now, history>>

Audited == AdminOps \cup {"ABORT_UPLOAD", "DELETE_ARTIFACT"}
\* Bound on the entries of the audit table.
AuditRoom ==
  BagCardinality(effects) + Cardinality({w \in Worker : wk[w].pc \in {"check", "act"}}) < MaxAudit

\* A worker takes a request of an open connection and executes the handler up
\* to pc.
Takes(w, c, r) ==
  /\ wk[w].pc = "idle"
  /\ session[c].open
  /\ Cardinality(Held(c)) < InFlight
  /\ r.op \in Audited => AuditRoom
hold(w, c, r, pc) ==
  /\ wk' = [wk EXCEPT ![w] = [Idle EXCEPT !.pc = pc, !.conn = c, !.req = r]]
  /\ UNCHANGED <<registry, audit, stored, session, ip_stats, boot, now, history>>

req(w) == wk[w].req
sess(w) == session[wk[w].conn]
goto(w, pc) == wk' = [wk EXCEPT ![w].pc = pc]
answer(w) == wk' = [wk EXCEPT ![w] = Idle]

\* A failed request is answered with an error and changes nothing.
refuse(w) == answer(w) /\ UNCHANGED <<registry, audit, stored, session, ip_stats, boot, now, history>>
proceed(w, pc) == goto(w, pc) /\ UNCHANGED <<registry, audit, stored, session, ip_stats, boot, now, history>>

\* What an administrative operation leaves to be recorded.
Entry(w) ==
  <<sess(w).username, req(w).op,
    CASE req(w).op \in {"USER_ADD", "USER_DISABLE", "TOKEN_CREATE"} -> req(w).user
      [] req(w).op \in {"TOKEN_REVOKE", "SESSION_ABORT", "ABORT_UPLOAD"} -> req(w).n
      [] req(w).op = "DELETE_ARTIFACT" -> req(w).ref
      [] OTHER -> "storage">>
With(bag, e) == bag (+) SetToBag({e})
HasEffect(w) == effects' = With(effects, Entry(w))

AuditWrite(w) ==
  /\ wk[w].pc = "audit"
  /\ audit' = With(audit, Entry(w))
  /\ answer(w)
  /\ UNCHANGED <<registry, stored, session, ip_stats, boot, now, history>>
-----------------------------------------------------------------------------
(* HELLO, AUTH and the limits on failed logins.                            *)

hello(w) ==
  /\ \E c \in Conn, r \in Requests :
       /\ Takes(w, c, r) /\ r.op = "HELLO"
       /\ session' = [session EXCEPT ![c].hello_done = TRUE]
  /\ UNCHANGED <<registry, audit, stored, ip_stats, wk, boot, now, history>>

peer(w) == ip_of[wk[w].conn]
Blocked(a) == ip_stats[a].blocked_until > now

\* Mutant: the address is not looked up.
no_peer_check(w) ==
  \E c \in Conn, r \in Requests : Takes(w, c, r) /\ r.op = "AUTH" /\ hold(w, c, r, "verify")
check_peer_not_blocked(w) ==
  \E c \in Conn, r \in Requests :
    /\ Takes(w, c, r) /\ r.op = "AUTH"
    /\ hold(w, c, r, IF Blocked(ip_of[c]) THEN "auth_failed" ELSE "verify")

Valid(i) ==
  /\ i \in DOMAIN token
  /\ ~token[i].revoked
  /\ token[i].expires_at = 0 \/ token[i].expires_at > now
  /\ user[token[i].user].enabled

verify(w) ==
  /\ wk[w].pc = "verify"
  /\ IF Valid(req(w).n)
       THEN LET u == token[req(w).n].user IN
            /\ wk' = [wk EXCEPT ![w].pc = "set_username",
                                ![w].ok = [username |-> u, role |-> user[u].role]]
            /\ UNCHANGED guesses
       ELSE /\ goto(w, "auth_failed")
            /\ guesses' = [guesses EXCEPT ![peer(w)] = Append(@, now)]
  /\ UNCHANGED <<registry, audit, stored, session, ip_stats, boot, now, effects>>

\* The four assignments to the session, two by two.
assign(w, at, next, s) ==
  /\ wk[w].pc = at
  /\ session' = [session EXCEPT ![wk[w].conn] = s]
  /\ IF next = "idle" THEN answer(w) ELSE goto(w, next)
  /\ UNCHANGED <<registry, audit, stored, ip_stats, boot, now, history>>
set_username(w) ==
  assign(w, "set_username", "set_role",
         [sess(w) EXCEPT !.authenticated = TRUE, !.username = wk[w].ok.username])
\* Mutant: a second AUTH keeps the role of the first.
set_role_once(w) ==
  assign(w, "set_role", "idle",
         [sess(w) EXCEPT !.role = IF @ = "Reader" THEN wk[w].ok.role ELSE @, !.auth_failures = 0])
set_role(w) ==
  assign(w, "set_role", "idle", [sess(w) EXCEPT !.role = wk[w].ok.role, !.auth_failures = 0])
auth_failed(w) == assign(w, "auth_failed", "note", [sess(w) EXCEPT !.auth_failures = @ + 1])

Noted(stat) ==
  LET fresh == stat.window_start = 0 \/ now - stat.window_start > kIpFailureWindowSeconds
      failures == (IF fresh THEN 0 ELSE stat.failures) + 1
      start == IF fresh THEN now ELSE stat.window_start
  IN IF failures >= kIpFailureThreshold
       THEN [failures |-> 0, window_start |-> start, blocked_until |-> now + kIpBlockSeconds]
       ELSE [failures |-> failures, window_start |-> start, blocked_until |-> stat.blocked_until]
note_auth_failure(w) ==
  /\ wk[w].pc = "note"
  /\ ip_stats' = [ip_stats EXCEPT ![peer(w)] = Noted(@)]
  /\ session' = [session EXCEPT ![wk[w].conn].open = @ /\ sess(w).auth_failures < kAuthFailuresBeforeClose]
  /\ answer(w)
  /\ UNCHANGED <<registry, audit, stored, boot, now, history>>
-----------------------------------------------------------------------------
(* Roles and ownership.                                                    *)

require_role(s, required) ==
  /\ s.authenticated
  /\ \/ s.role = "Admin"
     \/ required = "Reader"
     \/ required = "Publisher" /\ s.role = "Publisher"
require_session_allowed(s, u) ==
  /\ require_role(s, "Publisher")
  /\ s.role = "Admin" \/ u.owner = s.username
require_delete_allowed(s, a) ==
  /\ s.authenticated
  /\ s.role = "Admin" \/ (s.role = "Publisher" /\ artifact[a] = s.username)

\* The check that comes before any lock is taken; where none is required but
\* authentication, the handler checks more under the lock.
Precheck(s, op) ==
  CASE op \in AdminOps -> require_role(s, "Admin")
    [] op = "CREATE_UPLOAD" -> require_role(s, "Publisher")
    [] OTHER -> s.authenticated
dispatch_business(w) ==
  \E c \in Conn, r \in Requests :
    /\ Takes(w, c, r) /\ r.op \notin {"HELLO", "AUTH"}
    /\ Precheck(session[c], r.op)
    /\ hold(w, c, r, IF r.op \in {"PUT_CHUNK", "DELETE_ARTIFACT"} THEN "check" ELSE "act")
-----------------------------------------------------------------------------
(* Uploads and artifacts.                                                  *)

At(w, pc, op) == wk[w].pc = pc /\ req(w).op = op
Upload(w) == upload[req(w).n]
IsUpload(w) == req(w).n \in DOMAIN upload
Allowed(w) == IsUpload(w) /\ require_session_allowed(sess(w), Upload(w))
Other == <<registry, session, ip_stats, boot, now, guesses>>

create_upload(w) ==
  /\ At(w, "act", "CREATE_UPLOAD")
  /\ IF Len(upload) < MaxUploads
       THEN /\ upload' = Append(upload, [owner |-> sess(w).username, ref |-> req(w).ref,
                                         state |-> "OPEN", complete |-> FALSE])
            /\ answer(w)
            /\ UNCHANGED <<Other, audit, artifact, effects>>
       ELSE refuse(w)

\* Mutant: any publisher may send chunks.
put_check_role(w) ==
  /\ At(w, "check", "PUT_CHUNK")
  /\ IF IsUpload(w) /\ require_role(sess(w), "Publisher") THEN proceed(w, "act") ELSE refuse(w)
put_check(w) ==
  /\ At(w, "check", "PUT_CHUNK")
  /\ IF Allowed(w) THEN proceed(w, "act") ELSE refuse(w)
put_act(w) ==
  /\ At(w, "act", "PUT_CHUNK")
  /\ IF Upload(w).state = "OPEN"
       THEN /\ upload' = [upload EXCEPT ![req(w).n].complete = TRUE]
            /\ answer(w)
            /\ UNCHANGED <<Other, audit, artifact, effects>>
       ELSE refuse(w)

commit_upload(w) ==
  /\ At(w, "act", "COMMIT_UPLOAD")
  /\ IF Allowed(w) /\ Upload(w).state = "OPEN" /\ Upload(w).complete /\ artifact[Upload(w).ref] = NoArtifact
       THEN /\ upload' = [upload EXCEPT ![req(w).n].state = "COMPLETED"]
            /\ artifact' = [artifact EXCEPT ![Upload(w).ref] = Upload(w).owner]
            /\ answer(w)
            /\ UNCHANGED <<Other, audit, effects>>
       ELSE refuse(w)

\* abort_session ends an open session and accepts one that has ended.  The
\* owner's abort is audited inside the critical section, the administrator's
\* (which takes no dispatcher lock) afterwards.
Aborted(w) == [upload EXCEPT ![req(w).n].state = IF @ = "OPEN" THEN "ABORTED" ELSE @]
abort_upload(w) ==
  /\ At(w, "act", "ABORT_UPLOAD")
  /\ IF Allowed(w)
       THEN /\ upload' = Aborted(w)
            /\ HasEffect(w)
            /\ audit' = With(audit, Entry(w))
            /\ answer(w)
            /\ UNCHANGED <<Other, artifact>>
       ELSE refuse(w)
session_abort(w) ==
  /\ At(w, "act", "SESSION_ABORT")
  /\ IF IsUpload(w)
       THEN /\ upload' = Aborted(w)
            /\ HasEffect(w)
            /\ goto(w, "audit")
            /\ UNCHANGED <<Other, audit, artifact>>
       ELSE refuse(w)

delete_check(w) ==
  /\ At(w, "check", "DELETE_ARTIFACT")
  /\ IF require_delete_allowed(sess(w), req(w).ref) THEN proceed(w, "act") ELSE refuse(w)
\* Mutant: a deletion that fails is recorded too.
delete_act_recorded(w) ==
  /\ At(w, "act", "DELETE_ARTIFACT")
  /\ IF artifact[req(w).ref] # NoArtifact
       THEN artifact' = [artifact EXCEPT ![req(w).ref] = NoArtifact] /\ HasEffect(w)
       ELSE UNCHANGED <<artifact, effects>>
  /\ goto(w, "audit")
  /\ UNCHANGED <<Other, audit, upload>>
delete_act(w) ==
  /\ At(w, "act", "DELETE_ARTIFACT")
  /\ IF artifact[req(w).ref] # NoArtifact
       THEN /\ artifact' = [artifact EXCEPT ![req(w).ref] = NoArtifact]
            /\ HasEffect(w)
            /\ goto(w, "audit")
            /\ UNCHANGED <<Other, audit, upload>>
       ELSE refuse(w)

run_gc(w) ==
  /\ At(w, "act", "RUN_GC")
  /\ HasEffect(w)
  /\ goto(w, "audit")
  /\ UNCHANGED <<Other, audit, stored>>
-----------------------------------------------------------------------------
(* The registry.                                                           *)

Changed(w, ok) ==
  IF ok THEN HasEffect(w) /\ goto(w, "audit") /\ UNCHANGED <<audit, stored, session, ip_stats, boot, now, guesses>>
        ELSE UNCHANGED registry /\ refuse(w)

AddUser(u, role) == user' = [user EXCEPT ![u] = [role |-> role, enabled |-> TRUE, known |-> TRUE]]
AddToken(u, ttl) ==
  token' = Append(token, [user |-> u, expires_at |-> IF ttl = 0 THEN 0 ELSE now + ttl, revoked |-> FALSE])

user_add(w) ==
  /\ At(w, "act", "USER_ADD")
  /\ LET ok == ~user[req(w).user].known IN
     /\ ok => AddUser(req(w).user, req(w).role) /\ UNCHANGED token
     /\ Changed(w, ok)
\* Disabling a disabled user succeeds again: the UPDATE matches the row.
user_disable(w) ==
  /\ At(w, "act", "USER_DISABLE")
  /\ LET ok == user[req(w).user].known IN
     /\ ok => user' = [user EXCEPT ![req(w).user].enabled = FALSE] /\ UNCHANGED token
     /\ Changed(w, ok)
token_create(w) ==
  /\ At(w, "act", "TOKEN_CREATE")
  /\ LET ok == user[req(w).user].enabled /\ Len(token) < MaxTokens IN
     /\ ok => AddToken(req(w).user, req(w).n) /\ UNCHANGED user
     /\ Changed(w, ok)
token_revoke(w) ==
  /\ At(w, "act", "TOKEN_REVOKE")
  /\ LET ok == req(w).n \in DOMAIN token /\ ~token[req(w).n].revoked IN
     /\ ok => token' = [token EXCEPT ![req(w).n].revoked = TRUE] /\ UNCHANGED user
     /\ Changed(w, ok)

\* --create-admin: three calls of the registry from a process of its own, which
\* may die between two of them.
has_no_users(b) ==
  /\ boot[b].pc = "has_no_users"
  /\ \E u \in User :
       boot' = [boot EXCEPT ![b] = [pc |-> IF \E v \in User : user[v].known THEN "end" ELSE "user_add",
                                    name |-> u]]
  /\ UNCHANGED <<registry, audit, stored, session, ip_stats, wk, now, history>>
boot_user_add(b) ==
  /\ boot[b].pc = "user_add"
  /\ IF user[boot[b].name].known
       THEN boot' = [boot EXCEPT ![b].pc = "end"] /\ UNCHANGED user
       ELSE boot' = [boot EXCEPT ![b].pc = "token_create"] /\ AddUser(boot[b].name, "Admin")
  /\ UNCHANGED <<token, audit, stored, session, ip_stats, wk, now, history>>
boot_token_create(b) ==
  /\ boot[b].pc = "token_create"
  /\ boot' = [boot EXCEPT ![b].pc = "end"]
  /\ IF user[boot[b].name].enabled THEN AddToken(boot[b].name, 0) ELSE UNCHANGED token
  /\ UNCHANGED <<user, audit, stored, session, ip_stats, wk, now, history>>
boot_dies(b) ==
  /\ boot[b].pc # "end"
  /\ boot' = [boot EXCEPT ![b].pc = "end"]
  /\ UNCHANGED <<registry, audit, stored, session, ip_stats, wk, now, history>>

Tick ==
  /\ now < MaxTime
  /\ now' = now + 1
  /\ UNCHANGED <<registry, audit, stored, session, ip_stats, wk, boot, history>>

Step(w) ==
  \/ hello(w) \/ check_peer_not_blocked(w) \/ verify(w)
  \/ set_username(w) \/ set_role(w) \/ auth_failed(w) \/ note_auth_failure(w)
  \/ dispatch_business(w) \/ create_upload(w) \/ put_check(w) \/ put_act(w)
  \/ commit_upload(w) \/ abort_upload(w) \/ session_abort(w)
  \/ delete_check(w) \/ delete_act(w) \/ run_gc(w)
  \/ user_add(w) \/ user_disable(w) \/ token_create(w) \/ token_revoke(w) \/ AuditWrite(w)
Create_admin(b) == has_no_users(b) \/ boot_user_add(b) \/ boot_token_create(b) \/ boot_dies(b)

Next ==
  \/ \E c \in Conn : connect(c) \/ disconnect(c)
  \/ \E w \in Worker : Step(w)
  \/ \E b \in Boot : Create_admin(b)
  \/ Tick

Spec == Init /\ [][Next]_vars
-----------------------------------------------------------------------------
(* Properties.                                                             *)

\* A worker that is between the first and the last assignment of an AUTH.
Assigning(w) == wk[w].pc = "set_role"

\* Whenever no AUTH is in the middle of its assignments, an authenticated
\* session carries the name of a user together with that user's own role, a
\* second AUTH on the same connection as another user included.
SessionIsOneUser ==
  \A c \in Conn :
    session[c].authenticated /\ (\A w \in Held(c) : ~Assigning(w))
    => /\ session[c].username \in User
       /\ user[session[c].username].known
       /\ session[c].role = user[session[c].username].role

\* Chunks come from the owner of their upload or from an administrator.
PutsOwned ==
  \A i \in DOMAIN upload :
    upload[i].complete # upload'[i].complete
    => \E w \in Worker :
         /\ At(w, "act", "PUT_CHUNK") /\ req(w).n = i
         /\ sess(w).role = "Admin" \/ sess(w).username = upload[i].owner
\* An upload receives chunks only from a connection that is, when the chunk is
\* written, its owner's or an administrator's: PUT_CHUNK writes in another
\* critical section than the one that checked.
PutByOwner == [][PutsOwned]_vars

\* An artifact is deleted only by an administrator or by its creator
\* (SECURITY.md, role matrix: a Publisher deletes own artifacts only).  It does
\* not hold of an artifact that is replaced between the check and the deletion.
DeleteByCreator ==
  [][\A a \in Ref :
       artifact[a] # NoArtifact /\ artifact'[a] = NoArtifact
       => \E w \in Worker :
            /\ At(w, "act", "DELETE_ARTIFACT") /\ req(w).ref = a
            /\ sess(w).role = "Admin" \/ sess(w).username = artifact[a]]_vars

Copies(e, bag) == IF BagIn(e, bag) THEN bag[e] ELSE 0
Pending(e) == {w \in Worker : wk[w].pc = "audit" /\ Entry(w) = e}
\* Every administrative operation that succeeded is in the audit table under the
\* name of its user, or its worker is about to write it; nothing else is there
\* (FR-ADM-05; PROTOCOL.md 6.3: failures are not audited).
AuditTrail ==
  \A e \in BagToSet(effects) \cup BagToSet(audit) :
    Copies(e, effects) = Copies(e, audit) + Cardinality(Pending(e))

\* Tokens an address had verified and found wrong in any kIpBlockSeconds
\* successive seconds (no more than a window and one): less than a threshold in
\* one window, as many in the next one, and one more by each worker, whose
\* failure is noted some time after its look at the block list.  So many guesses
\* and one more take longer than that.
MostGuesses == 2 * (kIpFailureThreshold - 1) + Cardinality(Worker)
GuessesBounded ==
  \A a \in Address : \A i \in DOMAIN guesses[a] :
    i + MostGuesses \in DOMAIN guesses[a]
    => guesses[a][i + MostGuesses] - guesses[a][i] >= kIpBlockSeconds
=============================================================================
