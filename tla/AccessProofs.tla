---------------------------- MODULE AccessProofs ----------------------------
(***************************************************************************)
(* Proofs about authentication, rights and audit, for every number of      *)
(* users, connections and workers and every set of requests.  Where a      *)
(* client waits for the answer to its request (InFlight = 1, as the client *)
(* library does): whose session it is, who may write to an upload, and     *)
(* that the audit table records what was done.  Whatever clients do: how   *)
(* many wrong tokens of an address are verified in a given time.           *)
(***************************************************************************)
EXTENDS AccessInv, FiniteSetTheorems, SequenceTheorems, TLAPS

USE DEF registry, stored, history

-----------------------------------------------------------------------------
(* Bags: one more copy of an entry.                                        *)

LEMMA BagGrows ==
  ASSUME NEW b, IsABag(b), NEW e
  PROVE  /\ IsABag(With(b, e))
         /\ \A x : Copies(x, With(b, e)) = Copies(x, b) + (IF x = e THEN 1 ELSE 0)
<1>1. PICK s : s = SetToBag({e})
  OBVIOUS
<1>2. DOMAIN s = {e} /\ s[e] = 1
  BY <1>1 DEF SetToBag
<1>3. PICK f : f = With(b, e)
  OBVIOUS
<1>4. f = [x \in (DOMAIN b) \cup {e} |-> (IF x \in DOMAIN b THEN b[x] ELSE 0) + (IF x = e THEN 1 ELSE 0)]
  BY <1>1, <1>2, <1>3 DEF With, (+)
<1>5. \A x \in DOMAIN b : b[x] \in Nat /\ b[x] > 0
  BY DEF IsABag
<1>6. \A x \in DOMAIN f : f[x] \in {n \in Nat : n > 0}
  BY <1>4, <1>5
<1>7. IsABag(f)
  BY <1>4, <1>6 DEF IsABag
<1>8. \A x : Copies(x, f) = Copies(x, b) + (IF x = e THEN 1 ELSE 0)
  BY <1>4, <1>5 DEF Copies, BagIn, BagToSet
<1>9. QED
  BY <1>3, <1>7, <1>8

LEMMA CopiesType ==
  ASSUME NEW b, IsABag(b), NEW e
  PROVE  Copies(e, b) \in Nat /\ (Copies(e, b) # 0 <=> e \in BagToSet(b))
BY DEF IsABag, Copies, BagIn, BagToSet

-----------------------------------------------------------------------------
(* Where the workers are.                                                  *)

WkType ==
  /\ wk \in [Worker -> WorkerState]
  /\ \A w \in Worker : wk[w].pc # "idle" => wk[w].conn \in Conn /\ wk[w].req \in Requests

LEMMA IdleType == Idle \in WorkerState /\ Idle.pc = "idle"
BY DEF Idle, WorkerState, Pcs, Role

\* Worker w comes to p and keeps its request.
Comes(w, p) ==
  /\ WkType'
  /\ \A v \in Worker \ {w} : wk'[v] = wk[v]
  /\ wk[w].pc # "idle" /\ wk'[w].pc = p
  /\ p # "idle" => wk'[w].conn = wk[w].conn /\ wk'[w].req = wk[w].req

LEMMA Moves ==
  ASSUME TypeInv, NEW w \in Worker, NEW x \in WorkerState, wk' = [wk EXCEPT ![w] = x],
         x.pc # "idle" => x.conn \in Conn /\ x.req \in Requests
  PROVE  WkType' /\ wk'[w] = x /\ \A v \in Worker \ {w} : wk'[v] = wk[v]
BY DEF TypeInv, WkType

LEMMA AnswerComes == ASSUME TypeInv, NEW w \in Worker, answer(w), wk[w].pc # "idle" PROVE Comes(w, "idle")
<1>1. PICK x \in WorkerState : x = Idle /\ x.pc = "idle"
  BY IdleType
<1>2. wk' = [wk EXCEPT ![w] = x]
  BY <1>1 DEF answer
<1>3. QED
  BY <1>1, <1>2, Moves DEF Comes

LEMMA GotoComes ==
  ASSUME TypeInv, NEW w \in Worker, NEW p \in Pcs, goto(w, p), wk[w].pc # "idle"
  PROVE  Comes(w, p)
<1>1. PICK y \in WorkerState : y = wk[w]
  BY DEF TypeInv
<1>2. PICK x : x = [y EXCEPT !.pc = p]
  OBVIOUS
<1>3. x \in WorkerState /\ x.pc = p /\ x.conn = y.conn /\ x.req = y.req
  BY <1>2 DEF WorkerState
<1>4. y.conn \in Conn /\ y.req \in Requests
  BY <1>1 DEF TypeInv
<1>5. wk' = [wk EXCEPT ![w] = x]
  BY <1>1, <1>2 DEF goto
<1>6. QED
  BY <1>1, <1>3, <1>4, <1>5, Moves DEF Comes

LEMMA RefuseComes ==
  ASSUME TypeInv, NEW w \in Worker, refuse(w), wk[w].pc # "idle"
  PROVE  Comes(w, "idle") /\ UNCHANGED <<registry, audit, stored, session, ip_stats, boot, now, history>>
BY AnswerComes DEF refuse

\* A worker takes a request of a connection nobody else holds.
LEMMA TakesFacts ==
  ASSUME TypeInv, NEW w \in Worker, NEW c \in Conn, NEW r \in Requests, Takes(w, c, r), InFlight = 1
  PROVE  wk[w].pc = "idle" /\ \A v \in Worker : wk[v].pc # "idle" => wk[v].conn # c
<1>1. IsFiniteSet(Worker)
  BY AccessAssumption
<1>2. IsFiniteSet(Held(c)) /\ Cardinality(Held(c)) \in Nat
  BY <1>1, FS_Subset, FS_CardinalityType DEF Held
<1>3. Cardinality(Held(c)) < 1
  BY DEF Takes
<1>4. Held(c) = {}
  BY <1>2, <1>3, FS_EmptySet
<1>5. QED
  BY <1>4 DEF Takes, Held

LEMMA HoldFacts ==
  ASSUME TypeInv, NEW w \in Worker, NEW c \in Conn, NEW r \in Requests, NEW p \in Pcs, hold(w, c, r, p)
  PROVE  /\ WkType' /\ wk'[w].pc = p /\ wk'[w].conn = c /\ wk'[w].req = r
         /\ \A v \in Worker \ {w} : wk'[v] = wk[v]
         /\ UNCHANGED <<registry, audit, stored, session, ip_stats, boot, now, history>>
<1>1. PICK i \in WorkerState : i = Idle
  BY IdleType
<1>2. PICK x : x = [i EXCEPT !.pc = p, !.conn = c, !.req = r]
  OBVIOUS
<1>3. x \in WorkerState /\ x.pc = p /\ x.conn = c /\ x.req = r
  BY <1>2 DEF WorkerState
<1>4. wk' = [wk EXCEPT ![w] = x]
  BY <1>1, <1>2 DEF hold
<1>5. QED
  BY <1>3, <1>4, Moves DEF hold

-----------------------------------------------------------------------------
(* What the steps are, for the invariant.                                  *)

UsersKept ==
  /\ user' \in [User -> UserRow]
  /\ \A u \in User : user[u].known => user'[u].known /\ user'[u].role = user[u].role
  /\ \A u \in User : (user[u].enabled => user[u].known) => (user'[u].enabled => user'[u].known)
Same(c) ==
  /\ session'[c].authenticated = session[c].authenticated
  /\ session'[c].username = session[c].username /\ session'[c].role = session[c].role
UploadsKept ==
  /\ upload' \in Seq(UploadRow)
  /\ \A i \in DOMAIN upload : i \in DOMAIN upload' /\ upload'[i].owner = upload[i].owner

LEMMA UsersUnchanged == ASSUME TypeInv, user' = user PROVE UsersKept
BY DEF UsersKept, TypeInv
LEMMA UploadsUnchanged == ASSUME TypeInv, upload' = upload PROVE UploadsKept
BY DEF UploadsKept, TypeInv

LEMMA UserAdded ==
  ASSUME TypeInv, NEW u \in User, NEW r \in Role, AddUser(u, r), ~ user[u].known
  PROVE  UsersKept
<1>1. PICK x : x = [role |-> r, enabled |-> TRUE, known |-> TRUE]
  OBVIOUS
<1>2. x \in UserRow /\ x.known
  BY <1>1 DEF UserRow
<1>3. user' = [user EXCEPT ![u] = x] /\ user \in [User -> UserRow]
  BY <1>1 DEF AddUser, TypeInv
<1>4. QED
  BY <1>2, <1>3 DEF UsersKept

LEMMA UserDisabled ==
  ASSUME TypeInv, NEW u \in User, user' = [user EXCEPT ![u].enabled = FALSE]
  PROVE  UsersKept
<1>1. PICK x : x = [user[u] EXCEPT !.enabled = FALSE]
  OBVIOUS
<1>2. x \in UserRow /\ ~ x.enabled /\ x.known = user[u].known /\ x.role = user[u].role
  BY <1>1 DEF UserRow, TypeInv
<1>3. user' = [user EXCEPT ![u] = x] /\ user \in [User -> UserRow]
  BY <1>1 DEF TypeInv
<1>4. QED
  BY <1>2, <1>3 DEF UsersKept

LEMMA TokenAdded ==
  ASSUME TypeInv, NEW u \in User, NEW ttl \in Nat, AddToken(u, ttl)
  PROVE  token' \in Seq(TokenRow)
<1>1. PICK t \in Nat : t = IF ttl = 0 THEN 0 ELSE now + ttl
  <2>1. now \in Nat
    BY DEF TypeInv
  <2>2. QED
    BY <2>1
<1>2. PICK x : x = [user |-> u, expires_at |-> t, revoked |-> FALSE]
  OBVIOUS
<1>3. x \in TokenRow
  BY <1>2 DEF TokenRow
<1>4. token' = Append(token, x)
  BY <1>1, <1>2 DEF AddToken
<1>5. token \in Seq(TokenRow)
  BY DEF TypeInv
<1>6. QED
  BY <1>3, <1>4, <1>5, AppendProperties

LEMMA TokenRevoked ==
  ASSUME TypeInv, NEW i \in DOMAIN token, token' = [token EXCEPT ![i].revoked = TRUE]
  PROVE  token' \in Seq(TokenRow)
<1>1. i \in 1 .. Len(token) /\ token \in Seq(TokenRow)
  BY LenProperties DEF TypeInv
<1>2. PICK y \in TokenRow : y = token[i]
  BY <1>1, ElementOfSeq
<1>3. PICK x : x = [y EXCEPT !.revoked = TRUE]
  OBVIOUS
<1>4. x \in TokenRow
  BY <1>3 DEF TokenRow
<1>5. token' = [token EXCEPT ![i] = x]
  BY <1>2, <1>3
<1>6. [token EXCEPT ![i] = x] \in Seq(TokenRow)
  BY <1>1, <1>4, ExceptSeq
<1>7. QED
  BY <1>5, <1>6

LEMMA UploadRows == ASSUME TypeInv, NEW i \in DOMAIN upload PROVE upload[i] \in UploadRow
BY LenProperties, ElementOfSeq DEF TypeInv

\* A field of an upload other than its owner.
LEMMA UploadChanged ==
  ASSUME TypeInv, NEW i, NEW x,
         i \in DOMAIN upload => x \in UploadRow /\ x.owner = upload[i].owner, upload' = [upload EXCEPT ![i] = x]
  PROVE  UploadsKept
<1>1. upload \in Seq(UploadRow) /\ DOMAIN upload = 1 .. Len(upload)
  BY LenProperties DEF TypeInv
<1>2. CASE i \in DOMAIN upload
  <2>1. upload' \in Seq(UploadRow)
    BY <1>1, <1>2, ExceptSeq
  <2>2. QED
    BY <1>2, <2>1 DEF UploadsKept
<1>3. CASE i \notin DOMAIN upload
  <2>1. upload' = upload
    BY <1>1, <1>3
  <2>2. QED
    BY <2>1, UploadsUnchanged
<1>4. QED
  BY <1>2, <1>3

-----------------------------------------------------------------------------
(* The audit table.                                                        *)

AllRecorded == \A e : Copies(e, effects) = Copies(e, audit) + Cardinality(Pending(e))

LEMMA PendingFinite == \A e : IsFiniteSet(Pending(e)) /\ Cardinality(Pending(e)) \in Nat
BY AccessAssumption, FS_Subset, FS_CardinalityType DEF Pending

LEMMA RecordedIsAll == ASSUME TypeInv PROVE Recorded <=> AllRecorded
<1>1. IsABag(effects) /\ IsABag(audit)
  BY DEF TypeInv
<1>2. ASSUME Recorded PROVE AllRecorded
  <2>1. SUFFICES ASSUME NEW e PROVE Copies(e, effects) = Copies(e, audit) + Cardinality(Pending(e))
    BY DEF AllRecorded
  <2>2. CASE e \in BagToSet(effects) \cup BagToSet(audit)
    BY <1>2, <2>2 DEF Recorded, AuditTrail
  <2>3. CASE e \notin BagToSet(effects) \cup BagToSet(audit)
    <3>1. Pending(e) = {}
      BY <1>2, <2>3 DEF Recorded, Pending
    <3>2. Copies(e, effects) = 0 /\ Copies(e, audit) = 0 /\ Cardinality(Pending(e)) = 0
      BY <1>1, <2>3, <3>1, CopiesType, FS_EmptySet
    <3>3. QED
      BY <3>2
  <2>4. QED
    BY <2>2, <2>3
<1>3. ASSUME AllRecorded PROVE Recorded
  <2>1. AuditTrail
    BY <1>3 DEF AllRecorded, AuditTrail
  <2>2. ASSUME NEW w \in Worker, wk[w].pc = "audit" PROVE Entry(w) \in BagToSet(effects)
    <3>1. PICK e : e = Entry(w)
      OBVIOUS
    <3>2. w \in Pending(e)
      BY <2>2, <3>1 DEF Pending
    <3>3. Cardinality(Pending(e)) # 0 /\ Cardinality(Pending(e)) \in Nat
      BY <3>2, PendingFinite, FS_EmptySet
    <3>4. Copies(e, effects) = Copies(e, audit) + Cardinality(Pending(e)) /\ Copies(e, audit) \in Nat
      BY <1>1, <1>3, CopiesType DEF AllRecorded
    <3>5. Copies(e, effects) # 0
      BY <3>3, <3>4
    <3>6. QED
      BY <1>1, <3>1, <3>5, CopiesType
  <2>3. QED
    BY <2>1, <2>2 DEF Recorded
<1>4. QED
  BY <1>2, <1>3

\* Entries depend on the request and on the name of the session only.
EntriesKept == \A v \in Worker : wk[v].pc = "audit" /\ wk'[v].pc = "audit" => Entry(v)' = Entry(v)

LEMMA RecordQuiet ==
  ASSUME TypeInv, TypeInv', Recorded, EntriesKept, UNCHANGED <<audit, effects>>,
         \A v \in Worker : wk'[v].pc = "audit" <=> wk[v].pc = "audit"
  PROVE  Recorded'
<1>1. \A e : Pending(e)' = Pending(e)
  BY DEF Pending, EntriesKept
<1>2. AllRecorded'
  BY <1>1, RecordedIsAll DEF AllRecorded
<1>3. (Recorded <=> AllRecorded)'
  BY RecordedIsAll, PTL
<1>4. QED
  BY <1>2, <1>3

LEMMA RecordEffect ==
  ASSUME TypeInv, TypeInv', Recorded, EntriesKept, NEW w \in Worker, wk[w].pc # "audit", Comes(w, "audit"),
         Entry(w)' = Entry(w), effects' = With(effects, Entry(w)), audit' = audit
  PROVE  Recorded'
<1>1. IsABag(effects) /\ IsABag(audit)
  BY DEF TypeInv
<1>2. PICK x : x = Entry(w)
  OBVIOUS
<1>3. \A e : /\ e = x => Pending(e)' = Pending(e) \cup {w} /\ w \notin Pending(e)
             /\ e # x => Pending(e)' = Pending(e)
  BY <1>2 DEF Pending, EntriesKept, Comes
<1>4. \A e : /\ e = x => Cardinality(Pending(e)') = Cardinality(Pending(e)) + 1
             /\ e # x => Cardinality(Pending(e)') = Cardinality(Pending(e))
  BY <1>3, PendingFinite, FS_AddElement
<1>5. \A e : Copies(e, effects') = Copies(e, effects) + (IF e = x THEN 1 ELSE 0)
  BY <1>1, <1>2, BagGrows
<1>6. \A e : /\ Copies(e, effects) = Copies(e, audit) + Cardinality(Pending(e))
             /\ Copies(e, audit) \in Nat /\ Cardinality(Pending(e)) \in Nat
  BY <1>1, RecordedIsAll, CopiesType, PendingFinite DEF AllRecorded
<1>7. \A e : Copies(e, effects') = Copies(e, audit') + Cardinality(Pending(e)')
  BY <1>4, <1>5, <1>6
<1>8. AllRecorded'
  BY <1>7 DEF AllRecorded, Copies
<1>9. (Recorded <=> AllRecorded)'
  BY RecordedIsAll, PTL
<1>10. QED
  BY <1>8, <1>9

LEMMA RecordWrite ==
  ASSUME TypeInv, TypeInv', Recorded, EntriesKept, NEW w \in Worker, wk[w].pc = "audit", Comes(w, "idle"),
         audit' = With(audit, Entry(w)), effects' = effects
  PROVE  Recorded'
<1>1. IsABag(effects) /\ IsABag(audit)
  BY DEF TypeInv
<1>2. PICK x : x = Entry(w)
  OBVIOUS
<1>3. \A e : /\ e = x => Pending(e)' = Pending(e) \ {w} /\ w \in Pending(e)
             /\ e # x => Pending(e)' = Pending(e)
  BY <1>2 DEF Pending, EntriesKept, Comes
<1>4. \A e : /\ e = x => Cardinality(Pending(e)') = Cardinality(Pending(e)) - 1
             /\ e # x => Cardinality(Pending(e)') = Cardinality(Pending(e))
  BY <1>3, PendingFinite, FS_RemoveElement
<1>5. \A e : Copies(e, audit') = Copies(e, audit) + (IF e = x THEN 1 ELSE 0)
  BY <1>1, <1>2, BagGrows
<1>6. \A e : /\ Copies(e, effects) = Copies(e, audit) + Cardinality(Pending(e))
             /\ Copies(e, audit) \in Nat /\ Cardinality(Pending(e)) \in Nat
  BY <1>1, RecordedIsAll, CopiesType, PendingFinite DEF AllRecorded
<1>7. \A e : Copies(e, effects') = Copies(e, audit') + Cardinality(Pending(e)')
  BY <1>4, <1>5, <1>6
<1>8. AllRecorded'
  BY <1>7 DEF AllRecorded, Copies
<1>9. (Recorded <=> AllRecorded)'
  BY RecordedIsAll, PTL
<1>10. QED
  BY <1>8, <1>9

LEMMA RecordBoth ==
  ASSUME TypeInv, TypeInv', Recorded, EntriesKept, NEW w \in Worker, wk[w].pc # "audit", Comes(w, "idle"),
         audit' = With(audit, Entry(w)), effects' = With(effects, Entry(w))
  PROVE  Recorded'
<1>1. IsABag(effects) /\ IsABag(audit)
  BY DEF TypeInv
<1>2. PICK x : x = Entry(w)
  OBVIOUS
<1>3. \A e : Pending(e)' = Pending(e)
  BY DEF Pending, EntriesKept, Comes
<1>4. \A e : Copies(e, effects') = Copies(e, effects) + (IF e = x THEN 1 ELSE 0)
  BY <1>1, <1>2, BagGrows
<1>5. \A e : Copies(e, audit') = Copies(e, audit) + (IF e = x THEN 1 ELSE 0)
  BY <1>1, <1>2, BagGrows
<1>6. \A e : /\ Copies(e, effects) = Copies(e, audit) + Cardinality(Pending(e))
             /\ Copies(e, audit) \in Nat /\ Cardinality(Pending(e)) \in Nat
  BY <1>1, RecordedIsAll, CopiesType, PendingFinite DEF AllRecorded
<1>7. \A e : Copies(e, effects') = Copies(e, audit') + Cardinality(Pending(e)')
  BY <1>3, <1>4, <1>5, <1>6
<1>8. AllRecorded'
  BY <1>7 DEF AllRecorded, Copies
<1>9. (Recorded <=> AllRecorded)'
  BY RecordedIsAll, PTL
<1>10. QED
  BY <1>8, <1>9

-----------------------------------------------------------------------------
(* A step of a worker that assigns no name and no role.                    *)

\* What such a step keeps of the sessions, the users and the uploads.
Frame(w, p) ==
  /\ Comes(w, p) /\ p \notin {"set_username", "set_role"} /\ wk[w].pc # "set_role"
  /\ UsersKept /\ UploadsKept /\ \A c \in Conn : Same(c)
  /\ p = "act" /\ req(w).op = "PUT_CHUNK" => Allowed(w)

LEMMA FrameEntries ==
  ASSUME TypeInv, NEW w \in Worker, NEW p, Frame(w, p)
  PROVE  EntriesKept /\ (p = "audit" => Entry(w)' = Entry(w))
<1>1. \A v \in Worker : wk[v].pc # "idle" /\ wk'[v].pc # "idle" =>
                          /\ wk'[v].conn = wk[v].conn /\ wk'[v].req = wk[v].req /\ wk[v].conn \in Conn
  BY DEF Frame, Comes, TypeInv
<1>2. \A v \in Worker : wk[v].pc # "idle" /\ wk'[v].pc # "idle" => Entry(v)' = Entry(v)
  <2>1. SUFFICES ASSUME NEW v \in Worker, wk[v].pc # "idle", wk'[v].pc # "idle" PROVE Entry(v)' = Entry(v)
    OBVIOUS
  <2>2. req(v)' = req(v) /\ sess(v).username' = sess(v).username
    BY <1>1, <2>1 DEF req, sess, Frame, Same
  <2>3. QED
    BY <2>2 DEF Entry
<1>3. QED
  BY <1>2 DEF EntriesKept, Frame, Comes

LEMMA FrameInv ==
  ASSUME TypeInv, TypeInv', AccessInv, NEW w \in Worker, NEW p, Frame(w, p), Recorded'
  PROVE  AccessInv'
<1>1. \A v \in Worker : wk'[v].pc # "idle" =>
                          /\ wk[v].pc # "idle" /\ wk'[v].conn = wk[v].conn /\ wk'[v].req = wk[v].req
                          /\ wk[v].conn \in Conn
  BY DEF Frame, Comes, TypeInv
<1>2. Exclusive'
  BY <1>1 DEF AccessInv, Exclusive
<1>3. Registered'
  BY DEF AccessInv, Registered, Frame, UsersKept
<1>4. \A name, role : IsRole(name, role) => IsRole(name, role)'
  BY DEF IsRole, Frame, UsersKept
<1>5. \A v \in Worker : wk'[v].pc \in {"set_username", "set_role"} => wk'[v] = wk[v]
  BY DEF Frame, Comes
<1>6. \A v \in Worker : wk[v].pc = "set_role" => wk'[v] = wk[v]
  BY DEF Frame, Comes
<1>7. Verified'
  <2>1. SUFFICES ASSUME NEW v \in Worker, wk'[v].pc \in {"set_username", "set_role"}
                 PROVE  /\ IsRole(wk[v].ok.username, wk[v].ok.role)'
                        /\ wk'[v].pc = "set_role" => sess(v).username' = wk'[v].ok.username
    BY DEF Verified
  <2>2. /\ wk'[v] = wk[v] /\ IsRole(wk[v].ok.username, wk[v].ok.role) /\ wk[v].conn \in Conn
        /\ wk[v].pc = "set_role" => sess(v).username = wk[v].ok.username
    BY <1>1, <1>5, <2>1 DEF AccessInv, Verified
  <2>3. QED
    BY <1>4, <2>2 DEF sess, Frame, Same, IsRole
<1>8. Named'
  <2>1. SUFFICES ASSUME NEW c \in Conn, session'[c].authenticated
                 PROVE  IsRole(session[c].username, session[c].role)'
                        \/ \E v \in Worker : wk'[v].pc = "set_role" /\ wk'[v].conn = c
    BY DEF Named
  <2>2. Same(c) /\ session[c].authenticated
    BY <2>1 DEF Frame, Same
  <2>3. IsRole(session[c].username, session[c].role) \/ \E v \in Worker : wk[v].pc = "set_role" /\ wk[v].conn = c
    BY <2>2 DEF AccessInv, Named
  <2>4. QED
    BY <1>4, <1>6, <2>2, <2>3 DEF Same, IsRole
<1>9. MayPut'
  <2>1. SUFFICES ASSUME NEW v \in Worker, At(v, "act", "PUT_CHUNK")' PROVE Allowed(v)'
    BY DEF MayPut
  <2>2. wk'[v].pc = "act" /\ wk'[v].req = wk[v].req /\ wk'[v].conn = wk[v].conn /\ wk[v].conn \in Conn
        /\ wk[v].req.op = "PUT_CHUNK"
    BY <1>1, <2>1 DEF At, req
  <2>3. Allowed(v)
    <3>1. CASE v = w
      BY <2>2, <3>1 DEF Frame, Comes, req
    <3>2. CASE v # w
      BY <2>2, <3>2 DEF AccessInv, MayPut, At, req, Frame, Comes
    <3>3. QED
      BY <3>1, <3>2
  <2>4. Same(wk[v].conn) /\ UploadsKept
    BY <2>2 DEF Frame
  <2>5. QED
    BY <2>2, <2>3, <2>4
       DEF Allowed, IsUpload, Upload, req, sess, require_session_allowed, require_role, Same, UploadsKept
<1>10. QED
  BY <1>2, <1>3, <1>7, <1>8, <1>9 DEF AccessInv

Artifacts == [Ref -> User \cup {"", NoArtifact}]

\* Nothing is recorded, an operation succeeds, its entry is written, or both.
Records(w, p) ==
  \/ UNCHANGED <<audit, effects>> /\ wk[w].pc # "audit" /\ p # "audit"
  \/ effects' = With(effects, Entry(w)) /\ audit' = audit /\ wk[w].pc # "audit" /\ p = "audit"
  \/ audit' = With(audit, Entry(w)) /\ effects' = effects /\ wk[w].pc = "audit" /\ p = "idle"
  \/ audit' = With(audit, Entry(w)) /\ effects' = With(effects, Entry(w)) /\ wk[w].pc # "audit" /\ p = "idle"

LEMMA FrameStep ==
  ASSUME TypeInv, AccessInv, NEW w \in Worker, NEW p, Frame(w, p), Records(w, p),
         token' \in Seq(TokenRow), artifact' \in Artifacts, session' \in [Conn -> ClientSession],
         UNCHANGED <<boot, now>>
  PROVE  TypeInv' /\ AccessInv'
<1>1. IsABag(effects') /\ IsABag(audit')
  <2>1. IsABag(effects) /\ IsABag(audit)
    BY DEF TypeInv
  <2>2. PICK x : x = Entry(w)
    OBVIOUS
  <2>3. IsABag(With(effects, x)) /\ IsABag(With(audit, x))
    BY <2>1, BagGrows
  <2>4. effects' \in {effects, With(effects, x)} /\ audit' \in {audit, With(audit, x)}
    BY <2>2 DEF Records
  <2>5. QED
    BY <2>1, <2>3, <2>4
<1>2. TypeInv'
  BY <1>1 DEF TypeInv, Frame, Comes, WkType, UsersKept, UploadsKept, Artifacts
<1>3. EntriesKept /\ (p = "audit" => Entry(w)' = Entry(w)) /\ Recorded /\ Comes(w, p)
  BY FrameEntries DEF AccessInv, Frame
<1>4. Recorded'
  <2>1. CASE UNCHANGED <<audit, effects>> /\ wk[w].pc # "audit" /\ p # "audit"
    <3>1. \A v \in Worker : wk'[v].pc = "audit" <=> wk[v].pc = "audit"
      BY <1>3, <2>1 DEF Comes
    <3>2. QED
      BY <1>2, <1>3, <2>1, <3>1, RecordQuiet
  <2>2. CASE effects' = With(effects, Entry(w)) /\ audit' = audit /\ wk[w].pc # "audit" /\ p = "audit"
    BY <1>2, <1>3, <2>2, RecordEffect
  <2>3. CASE audit' = With(audit, Entry(w)) /\ effects' = effects /\ wk[w].pc = "audit" /\ p = "idle"
    BY <1>2, <1>3, <2>3, RecordWrite
  <2>4. CASE audit' = With(audit, Entry(w)) /\ effects' = With(effects, Entry(w)) /\ wk[w].pc # "audit" /\ p = "idle"
    BY <1>2, <1>3, <2>4, RecordBoth
  <2>5. QED
    BY <2>1, <2>2, <2>3, <2>4 DEF Records
<1>5. QED
  BY <1>2, <1>3, <1>4, FrameInv

LEMMA TablesKept ==
  ASSUME TypeInv
  PROVE  /\ token \in Seq(TokenRow) /\ artifact \in Artifacts /\ session \in [Conn -> ClientSession]
         /\ token' = token => token' \in Seq(TokenRow)
         /\ artifact' = artifact => artifact' \in Artifacts
         /\ session' = session => session' \in [Conn -> ClientSession] /\ \A c \in Conn : Same(c)
BY DEF TypeInv, Artifacts, Same

LEMMA RefuseStep ==
  ASSUME TypeInv, AccessInv, NEW w \in Worker, refuse(w), wk[w].pc \notin {"idle", "set_role", "audit"}
  PROVE  TypeInv' /\ AccessInv'
<1>1. Comes(w, "idle") /\ UNCHANGED <<registry, audit, stored, session, ip_stats, boot, now, history>>
  BY RefuseComes
<1>2. Frame(w, "idle")
  BY <1>1, UsersUnchanged, UploadsUnchanged, TablesKept DEF Frame
<1>3. Records(w, "idle")
  BY <1>1 DEF Records
<1>4. QED
  BY <1>1, <1>2, <1>3, TablesKept, FrameStep

-----------------------------------------------------------------------------
(* Steps of no worker.                                                     *)

LEMMA NoWorker ==
  ASSUME TypeInv, AccessInv, wk' = wk, UNCHANGED <<audit, effects, artifact>>, UsersKept, UploadsKept,
         token' \in Seq(TokenRow), session' \in [Conn -> ClientSession], now' \in Nat,
         boot' \in [Boot -> [pc : BootPcs, name : User \cup {AnyUser}]],
         \A b \in Boot : boot'[b].pc \in {"user_add", "token_create"} => boot'[b].name \in User,
         \A c \in Conn : \/ Same(c)
                         \/ ~ session'[c].authenticated /\ \A v \in Worker : wk[v].pc # "idle" => wk[v].conn # c
  PROVE  TypeInv' /\ AccessInv'
<1>1. TypeInv'
  BY DEF TypeInv, UsersKept, UploadsKept
<1>2. \A v \in Worker : wk[v].pc # "idle" => wk[v].conn \in Conn /\ Same(wk[v].conn)
  BY DEF TypeInv
<1>3. EntriesKept
  <2>1. SUFFICES ASSUME NEW v \in Worker, wk[v].pc = "audit" PROVE Entry(v)' = Entry(v)
    BY DEF EntriesKept
  <2>2. req(v)' = req(v) /\ sess(v).username' = sess(v).username
    BY <1>2, <2>1 DEF req, sess, Same
  <2>3. QED
    BY <2>2 DEF Entry
<1>4. Recorded'
  BY <1>1, <1>3, RecordQuiet DEF AccessInv
<1>5. Exclusive' /\ Registered'
  BY DEF AccessInv, Exclusive, Registered, UsersKept
<1>6. \A name, role : IsRole(name, role) => IsRole(name, role)'
  BY DEF IsRole, UsersKept
<1>7. Verified'
  <2>1. SUFFICES ASSUME NEW v \in Worker, wk[v].pc \in {"set_username", "set_role"}
                 PROVE  /\ IsRole(wk[v].ok.username, wk[v].ok.role)'
                        /\ wk[v].pc = "set_role" => sess(v).username' = wk'[v].ok.username
    BY DEF Verified
  <2>2. /\ IsRole(wk[v].ok.username, wk[v].ok.role) /\ Same(wk[v].conn)
        /\ wk[v].pc = "set_role" => sess(v).username = wk[v].ok.username
    BY <1>2, <2>1 DEF AccessInv, Verified
  <2>3. QED
    BY <1>6, <2>2 DEF sess, Same, IsRole
<1>8. Named'
  <2>1. SUFFICES ASSUME NEW c \in Conn, session'[c].authenticated
                 PROVE  IsRole(session[c].username, session[c].role)'
                        \/ \E v \in Worker : wk[v].pc = "set_role" /\ wk[v].conn = c
    BY DEF Named
  <2>2. Same(c) /\ session[c].authenticated
    BY <2>1 DEF Same
  <2>3. IsRole(session[c].username, session[c].role) \/ \E v \in Worker : wk[v].pc = "set_role" /\ wk[v].conn = c
    BY <2>2 DEF AccessInv, Named
  <2>4. QED
    BY <1>6, <2>2, <2>3 DEF Same, IsRole
<1>9. MayPut'
  <2>1. SUFFICES ASSUME NEW v \in Worker, wk[v].pc = "act", wk[v].req.op = "PUT_CHUNK" PROVE Allowed(v)'
    BY DEF MayPut, At, req
  <2>2. Allowed(v) /\ Same(wk[v].conn)
    BY <1>2, <2>1 DEF AccessInv, MayPut, At, req
  <2>3. QED
    BY <2>2 DEF Allowed, IsUpload, Upload, req, sess, require_session_allowed, require_role, Same, UploadsKept
<1>10. QED
  BY <1>1, <1>4, <1>5, <1>7, <1>8, <1>9 DEF AccessInv

LEMMA ConnectionStep ==
  ASSUME TypeInv, AccessInv, NEW c \in Conn, connect(c) \/ disconnect(c)
  PROVE  TypeInv' /\ AccessInv'
<1>1. UNCHANGED <<registry, audit, stored, ip_stats, wk, boot, now, history>>
  BY DEF connect, disconnect
<1>2. UsersKept /\ UploadsKept
  BY <1>1, UsersUnchanged, UploadsUnchanged
<1>3. /\ session' \in [Conn -> ClientSession]
      /\ \A d \in Conn : \/ Same(d)
                         \/ ~ session'[d].authenticated /\ \A v \in Worker : wk[v].pc # "idle" => wk[v].conn # d
  <2>1. CASE connect(c)
    <3>1. NewSession \in ClientSession /\ ~ NewSession.authenticated
      BY DEF NewSession, ClientSession, Role
    <3>2. Held(c) = {} /\ session' = [session EXCEPT ![c] = NewSession] /\ session \in [Conn -> ClientSession]
      BY <2>1 DEF connect, TypeInv
    <3>3. \A v \in Worker : wk[v].pc # "idle" => wk[v].conn # c
      BY <3>2 DEF Held
    <3>4. QED
      BY <3>1, <3>2, <3>3 DEF Same
  <2>2. CASE disconnect(c)
    <3>1. PICK x : x = [session[c] EXCEPT !.open = FALSE]
      OBVIOUS
    <3>2. /\ x \in ClientSession /\ x.authenticated = session[c].authenticated
          /\ x.username = session[c].username /\ x.role = session[c].role
      BY ZenonT(60), <3>1 DEF TypeInv, ClientSession
    <3>3. session' = [session EXCEPT ![c] = x] /\ session \in [Conn -> ClientSession]
      BY <2>2, <3>1 DEF disconnect, TypeInv
    <3>4. QED
      BY <3>2, <3>3 DEF Same
  <2>3. QED
    BY <2>1, <2>2
<1>4. token' \in Seq(TokenRow) /\ now' \in Nat
      /\ boot' \in [Boot -> [pc : BootPcs, name : User \cup {AnyUser}]]
      /\ \A b \in Boot : boot'[b].pc \in {"user_add", "token_create"} => boot'[b].name \in User
  BY <1>1 DEF TypeInv
<1>5. QED
  BY <1>1, <1>2, <1>3, <1>4, NoWorker

LEMMA HelloStep ==
  ASSUME TypeInv, AccessInv, NEW w \in Worker, hello(w)
  PROVE  TypeInv' /\ AccessInv'
<1>1. UNCHANGED <<registry, audit, stored, ip_stats, wk, boot, now, history>>
  BY DEF hello
<1>2. PICK c \in Conn : session' = [session EXCEPT ![c].hello_done = TRUE]
  BY DEF hello
<1>3. PICK x : x = [session[c] EXCEPT !.hello_done = TRUE]
  OBVIOUS
<1>4. /\ x \in ClientSession /\ x.authenticated = session[c].authenticated
      /\ x.username = session[c].username /\ x.role = session[c].role
  BY ZenonT(60), <1>3 DEF TypeInv, ClientSession
<1>5. session' = [session EXCEPT ![c] = x] /\ session \in [Conn -> ClientSession]
  BY <1>2, <1>3 DEF TypeInv
<1>6. session' \in [Conn -> ClientSession] /\ \A d \in Conn : Same(d)
  BY <1>4, <1>5 DEF Same
<1>7. token' \in Seq(TokenRow) /\ now' \in Nat
      /\ boot' \in [Boot -> [pc : BootPcs, name : User \cup {AnyUser}]]
      /\ \A b \in Boot : boot'[b].pc \in {"user_add", "token_create"} => boot'[b].name \in User
  BY <1>1 DEF TypeInv
<1>8. QED
  BY <1>1, <1>6, <1>7, UsersUnchanged, UploadsUnchanged, NoWorker

LEMMA TickStep == ASSUME TypeInv, AccessInv, Tick \/ UNCHANGED vars PROVE TypeInv' /\ AccessInv'
<1>1. UNCHANGED <<registry, audit, stored, session, wk, boot, effects>> /\ now' \in Nat
  <2>1. now \in Nat
    BY DEF TypeInv
  <2>2. CASE Tick
    BY <2>1, <2>2 DEF Tick
  <2>3. CASE UNCHANGED vars
    BY <2>1, <2>3 DEF vars
  <2>4. QED
    BY <2>2, <2>3
<1>2. token' \in Seq(TokenRow) /\ session' \in [Conn -> ClientSession] /\ (\A c \in Conn : Same(c))
  BY <1>1, TablesKept
<1>3. boot' \in [Boot -> [pc : BootPcs, name : User \cup {AnyUser}]]
      /\ \A b \in Boot : boot'[b].pc \in {"user_add", "token_create"} => boot'[b].name \in User
  BY <1>1 DEF TypeInv
<1>4. QED
  BY <1>1, <1>2, <1>3, UsersUnchanged, UploadsUnchanged, NoWorker

LEMMA BootStep ==
  ASSUME TypeInv, AccessInv, NEW b \in Boot, Create_admin(b)
  PROVE  TypeInv' /\ AccessInv'
<1>1. UNCHANGED <<audit, stored, session, ip_stats, wk, now, history>>
  BY DEF Create_admin, has_no_users, boot_user_add, boot_token_create, boot_dies
<1>2. boot \in [Boot -> [pc : BootPcs, name : User \cup {AnyUser}]]
      /\ \A x \in Boot : boot[x].pc \in {"user_add", "token_create"} => boot[x].name \in User
  BY DEF TypeInv
<1>3. boot' \in [Boot -> [pc : BootPcs, name : User \cup {AnyUser}]]
      /\ \A x \in Boot : boot'[x].pc \in {"user_add", "token_create"} => boot'[x].name \in User
  <2>1. CASE has_no_users(b)
    <3>1. PICK u \in User, p \in {"end", "user_add"} : boot' = [boot EXCEPT ![b] = [pc |-> p, name |-> u]]
      BY <2>1 DEF has_no_users
    <3>2. QED
      BY <1>2, <3>1 DEF BootPcs
  <2>2. CASE ~ has_no_users(b)
    <3>1. PICK p \in {"end", "token_create"} : /\ boot' = [boot EXCEPT ![b].pc = p]
                                               /\ p = "token_create" => boot[b].pc = "user_add"
      BY <2>2 DEF Create_admin, boot_user_add, boot_token_create, boot_dies
    <3>2. PICK y : y = [boot[b] EXCEPT !.pc = p]
      OBVIOUS
    <3>3. /\ y \in [pc : BootPcs, name : User \cup {AnyUser}] /\ y.pc = p /\ y.name = boot[b].name
      BY <1>2, <3>2 DEF BootPcs
    <3>4. boot' = [boot EXCEPT ![b] = y]
      BY <3>1, <3>2
    <3>5. QED
      BY <1>2, <3>1, <3>3, <3>4
  <2>3. QED
    BY <2>1, <2>2
<1>4. UsersKept
  <2>1. CASE boot_user_add(b) /\ ~ user[boot[b].name].known
    BY <1>2, <2>1, UserAdded DEF boot_user_add, Role
  <2>2. CASE ~ (boot_user_add(b) /\ ~ user[boot[b].name].known)
    BY <2>2, UsersUnchanged DEF Create_admin, has_no_users, boot_user_add, boot_token_create, boot_dies
  <2>3. QED
    BY <2>1, <2>2
<1>5. token' \in Seq(TokenRow)
  <2>1. CASE boot_token_create(b) /\ user[boot[b].name].enabled
    BY <1>2, <2>1, TokenAdded DEF boot_token_create
  <2>2. CASE ~ (boot_token_create(b) /\ user[boot[b].name].enabled)
    BY <2>2, TablesKept DEF Create_admin, has_no_users, boot_user_add, boot_token_create, boot_dies
  <2>3. QED
    BY <2>1, <2>2
<1>6. session' \in [Conn -> ClientSession] /\ (\A c \in Conn : Same(c)) /\ now' \in Nat
  BY <1>1, TablesKept DEF TypeInv
<1>7. QED
  BY <1>1, <1>3, <1>4, <1>5, <1>6, UploadsUnchanged, NoWorker

-----------------------------------------------------------------------------
(* A worker takes a request.                                               *)

LEMMA TakeStep ==
  ASSUME TypeInv, AccessInv, InFlight = 1, NEW w \in Worker, NEW c \in Conn, NEW r \in Requests,
         Takes(w, c, r), NEW p \in {"auth_failed", "verify", "check", "act"}, hold(w, c, r, p),
         p = "act" => r.op # "PUT_CHUNK"
  PROVE  TypeInv' /\ AccessInv'
<1>1. wk[w].pc = "idle" /\ \A v \in Worker : wk[v].pc # "idle" => wk[v].conn # c
  BY TakesFacts
<1>2. /\ WkType' /\ wk'[w].pc = p /\ wk'[w].conn = c /\ wk'[w].req = r
      /\ \A v \in Worker \ {w} : wk'[v] = wk[v]
      /\ UNCHANGED <<registry, audit, stored, session, ip_stats, boot, now, history>>
  BY HoldFacts DEF Pcs
<1>3. TypeInv'
  BY <1>2 DEF TypeInv, WkType
<1>4. Exclusive'
  BY <1>1, <1>2 DEF AccessInv, Exclusive
<1>5. Registered'
  BY <1>2 DEF AccessInv, Registered
<1>6. Verified'
  BY <1>2 DEF AccessInv, Verified, IsRole, sess
<1>7. Named'
  <2>1. \A v \in Worker : wk[v].pc = "set_role" => v # w /\ wk'[v] = wk[v]
    BY <1>1, <1>2
  <2>2. QED
    BY <1>2, <2>1 DEF AccessInv, Named, IsRole
<1>8. MayPut'
  BY <1>2 DEF AccessInv, MayPut, At, Allowed, IsUpload, Upload, req, sess, require_session_allowed, require_role
<1>9. Recorded'
  <2>1. \A v \in Worker : wk'[v].pc = "audit" <=> wk[v].pc = "audit"
    BY <1>1, <1>2
  <2>2. EntriesKept
    BY <1>1, <1>2 DEF EntriesKept, Entry, req, sess
  <2>3. QED
    BY <1>2, <1>3, <2>1, <2>2, RecordQuiet DEF AccessInv
<1>10. QED
  BY <1>3, <1>4, <1>5, <1>6, <1>7, <1>8, <1>9 DEF AccessInv

-----------------------------------------------------------------------------
(* AUTH.                                                                   *)

LEMMA VerifyStep ==
  ASSUME TypeInv, AccessInv, NEW w \in Worker, verify(w)
  PROVE  TypeInv' /\ AccessInv'
<1>1. wk[w].pc = "verify" /\ UNCHANGED <<registry, audit, stored, session, ip_stats, boot, now, effects>>
  BY DEF verify
<1>2. CASE ~ Valid(req(w).n)
  <2>1. Comes(w, "auth_failed")
    BY <1>1, <1>2, GotoComes DEF verify, Pcs
  <2>2. Frame(w, "auth_failed") /\ Records(w, "auth_failed")
    BY <1>1, <2>1, UsersUnchanged, UploadsUnchanged, TablesKept DEF Frame, Records
  <2>3. QED
    BY <1>1, <2>2, TablesKept, FrameStep
<1>3. CASE Valid(req(w).n)
  <2>1. PICK u : u = token[req(w).n].user
    OBVIOUS
  <2>2. u \in User /\ user[u].enabled
    <3>1. token \in Seq(TokenRow) /\ DOMAIN token = 1 .. Len(token)
      BY LenProperties DEF TypeInv
    <3>2. token[req(w).n] \in TokenRow
      BY <1>3, <3>1, ElementOfSeq DEF Valid
    <3>3. QED
      BY <1>3, <2>1, <3>2 DEF Valid, TokenRow
  <2>3. user[u].known /\ user[u].role \in Role
    BY <2>2 DEF AccessInv, Registered, TypeInv, UserRow
  <2>4. PICK k : k = [username |-> u, role |-> user[u].role]
    OBVIOUS
  <2>5. k \in [username : User \cup {""}, role : Role] /\ k.username = u /\ k.role = user[u].role
    BY <2>2, <2>3, <2>4
  <2>6. PICK y \in WorkerState : y = wk[w]
    BY DEF TypeInv
  <2>7. PICK x : x = [y EXCEPT !.pc = "set_username", !.ok = k]
    OBVIOUS
  <2>8. x \in WorkerState /\ x.pc = "set_username" /\ x.conn = y.conn /\ x.req = y.req /\ x.ok = k
    BY <2>5, <2>7 DEF WorkerState, Pcs
  <2>9. wk' = [wk EXCEPT ![w] = x]
    BY <1>3, <2>1, <2>4, <2>6, <2>7 DEF verify
  <2>10. y.conn \in Conn /\ y.req \in Requests
    BY <1>1, <2>6 DEF TypeInv
  <2>11. WkType' /\ wk'[w] = x /\ \A v \in Worker \ {w} : wk'[v] = wk[v]
    BY <2>8, <2>9, <2>10, Moves
  <2>12. TypeInv'
    BY <1>1, <2>11 DEF TypeInv, WkType
  <2>13. Exclusive'
    BY <1>1, <2>6, <2>8, <2>11 DEF AccessInv, Exclusive
  <2>14. Registered'
    BY <1>1 DEF AccessInv, Registered
  <2>15. Verified'
    <3>1. IsRole(x.ok.username, x.ok.role)'
      BY <1>1, <2>2, <2>3, <2>5, <2>8 DEF IsRole
    <3>2. QED
      BY <1>1, <2>8, <2>11, <3>1 DEF AccessInv, Verified, IsRole, sess
  <2>16. Named'
    <3>1. \A v \in Worker : wk[v].pc = "set_role" => v # w /\ wk'[v] = wk[v]
      BY <1>1, <2>11
    <3>2. QED
      BY <1>1, <3>1 DEF AccessInv, Named, IsRole
  <2>17. MayPut'
    BY <1>1, <2>8, <2>11
       DEF AccessInv, MayPut, At, Allowed, IsUpload, Upload, req, sess, require_session_allowed, require_role
  <2>18. Recorded'
    <3>1. \A v \in Worker : wk'[v].pc = "audit" <=> wk[v].pc = "audit"
      BY <1>1, <2>8, <2>11
    <3>2. EntriesKept
      BY <1>1, <2>8, <2>11 DEF EntriesKept, Entry, req, sess
    <3>3. QED
      BY <1>1, <2>12, <3>1, <3>2, RecordQuiet DEF AccessInv
  <2>19. QED
    BY <2>12, <2>13, <2>14, <2>15, <2>16, <2>17, <2>18 DEF AccessInv
<1>4. QED
  BY <1>2, <1>3

\* The assignments: only the worker that holds the connection sees them.
LEMMA AssignStep ==
  ASSUME TypeInv, AccessInv, NEW w \in Worker, set_username(w) \/ set_role(w)
  PROVE  TypeInv' /\ AccessInv'
<1>1. PICK c \in Conn : c = wk[w].conn /\ wk[w].pc \in {"set_username", "set_role"}
  BY DEF set_username, set_role, assign, TypeInv
<1>2. PICK s \in ClientSession : s = session[c]
  BY DEF TypeInv
<1>3. PICK k \in [username : User \cup {""}, role : Role] : k = wk[w].ok
  BY DEF TypeInv, WorkerState
<1>4. PICK n \in Pcs : /\ Comes(w, n) /\ n \in {"idle", "set_role"}
                       /\ wk[w].pc = "set_username" => n = "set_role"
                       /\ wk[w].pc = "set_role" => n = "idle"
                       /\ n = "set_role" => wk'[w].ok = wk[w].ok
  <2>1. CASE set_username(w)
    <3>1. wk[w].pc = "set_username" /\ goto(w, "set_role")
      BY <2>1 DEF set_username, assign
    <3>2. Comes(w, "set_role")
      BY <3>1, GotoComes DEF Pcs
    <3>3. wk'[w].ok = wk[w].ok
      BY <3>1 DEF goto, TypeInv, WorkerState
    <3>4. QED
      BY <3>1, <3>2, <3>3 DEF Pcs
  <2>2. CASE set_role(w)
    <3>1. wk[w].pc = "set_role" /\ answer(w)
      BY <2>2 DEF set_role, assign
    <3>2. Comes(w, "idle")
      BY <3>1, AnswerComes
    <3>3. QED
      BY <3>1, <3>2 DEF Pcs
  <2>3. QED
    BY <2>1, <2>2
<1>5. PICK x : /\ session' = [session EXCEPT ![c] = x] /\ x \in ClientSession
               /\ wk[w].pc = "set_username" => x.username = k.username
               /\ wk[w].pc = "set_role" => /\ x.username = s.username /\ x.role = k.role
                                           /\ x.authenticated = s.authenticated
  <2>1. CASE set_username(w)
    <3>1. PICK x : x = [s EXCEPT !.authenticated = TRUE, !.username = k.username]
      OBVIOUS
    <3>2. x \in ClientSession /\ x.username = k.username
      BY <3>1 DEF ClientSession
    <3>3. wk[w].pc = "set_username" /\ session' = [session EXCEPT ![c] = x]
      BY <1>1, <1>2, <1>3, <2>1, <3>1 DEF set_username, assign, sess
    <3>4. QED
      BY <3>2, <3>3
  <2>2. CASE set_role(w)
    <3>1. PICK x : x = [s EXCEPT !.role = k.role, !.auth_failures = 0]
      OBVIOUS
    <3>2. x \in ClientSession /\ x.username = s.username /\ x.role = k.role /\ x.authenticated = s.authenticated
      BY <3>1 DEF ClientSession
    <3>3. wk[w].pc = "set_role" /\ session' = [session EXCEPT ![c] = x]
      BY <1>1, <1>2, <1>3, <2>2, <3>1 DEF set_role, assign, sess
    <3>4. QED
      BY <3>2, <3>3
  <2>3. QED
    BY <2>1, <2>2
<1>6. UNCHANGED <<registry, audit, stored, ip_stats, boot, now, history>>
  BY DEF set_username, set_role, assign
<1>7. /\ session' \in [Conn -> ClientSession] /\ session'[c] = x
      /\ \A d \in Conn \ {c} : session'[d] = session[d]
  BY <1>5 DEF TypeInv
<1>8. TypeInv'
  BY <1>4, <1>6, <1>7 DEF TypeInv, Comes, WkType
<1>9. /\ \A v \in Worker \ {w} : wk'[v] = wk[v] /\ (wk[v].pc # "idle" => wk[v].conn \in Conn /\ wk[v].conn # c)
      /\ wk'[w].pc = n /\ (n = "set_role" => wk'[w].conn = c)
  BY <1>1, <1>4 DEF Comes, AccessInv, Exclusive, TypeInv
<1>10. Exclusive' /\ Registered'
  <2>1. Registered'
    BY <1>6 DEF AccessInv, Registered
  <2>2. \A v \in Worker : wk'[v].pc # "idle" => wk[v].pc # "idle" /\ wk'[v].conn = wk[v].conn
    BY <1>1, <1>4, <1>9
  <2>3. QED
    BY <2>1, <2>2 DEF AccessInv, Exclusive
<1>11. IsRole(k.username, k.role) /\ (wk[w].pc = "set_role" => s.username = k.username)
  BY <1>1, <1>2, <1>3 DEF AccessInv, Verified, sess
<1>12. Verified'
  <2>1. SUFFICES ASSUME NEW v \in Worker
                 PROVE  /\ wk'[v].pc \in {"set_username", "set_role"}
                             => IsRole(wk'[v].ok.username, wk'[v].ok.role)
                        /\ wk'[v].pc = "set_role" => session'[wk'[v].conn].username = wk'[v].ok.username
    BY <1>6 DEF Verified, IsRole, sess
  <2>2. CASE v = w
    <3>1. CASE wk[w].pc = "set_username"
      <4>1. n = "set_role" /\ wk'[w].ok = k /\ wk'[w].conn = c /\ x.username = k.username
        BY <1>3, <1>4, <1>5, <1>9, <3>1
      <4>2. session'[wk'[w].conn].username = k.username
        BY <1>7, <4>1
      <4>3. QED
        BY <1>11, <2>2, <4>1, <4>2
    <3>2. CASE wk[w].pc = "set_role"
      BY <1>4, <1>9, <2>2, <3>2
    <3>3. QED
      BY <1>1, <3>1, <3>2
  <2>3. CASE v # w
    <3>1. wk'[v] = wk[v] /\ (wk[v].pc # "idle" => session'[wk[v].conn] = session[wk[v].conn])
      BY <1>7, <1>9, <2>3
    <3>2. /\ wk[v].pc \in {"set_username", "set_role"} => IsRole(wk[v].ok.username, wk[v].ok.role)
          /\ wk[v].pc = "set_role" => session[wk[v].conn].username = wk[v].ok.username
      BY DEF AccessInv, Verified, sess
    <3>3. QED
      BY <3>1, <3>2
  <2>4. QED
    BY <2>2, <2>3
<1>13. Named'
  <2>1. SUFFICES ASSUME NEW d \in Conn, session'[d].authenticated
                 PROVE  \/ IsRole(session'[d].username, session'[d].role)
                        \/ \E v \in Worker : wk'[v].pc = "set_role" /\ wk'[v].conn = d
    BY <1>6 DEF Named, IsRole
  <2>2. CASE d = c
    <3>1. CASE wk[w].pc = "set_username"
      BY <1>4, <1>9, <2>2, <3>1
    <3>2. CASE wk[w].pc = "set_role"
      BY <1>5, <1>7, <1>11, <2>2, <3>2
    <3>3. QED
      BY <1>1, <3>1, <3>2
  <2>3. CASE d # c
    <3>1. session'[d] = session[d]
      BY <1>7, <2>3
    <3>2. \/ IsRole(session[d].username, session[d].role)
          \/ \E v \in Worker : wk[v].pc = "set_role" /\ wk[v].conn = d
      BY <2>1, <3>1 DEF AccessInv, Named
    <3>3. \A v \in Worker : wk[v].conn = d => v # w
      BY <1>1, <2>3
    <3>4. QED
      BY <1>9, <3>1, <3>2, <3>3
  <2>4. QED
    BY <2>2, <2>3
<1>14. MayPut'
  <2>1. SUFFICES ASSUME NEW v \in Worker, wk'[v].pc = "act", wk'[v].req.op = "PUT_CHUNK" PROVE Allowed(v)'
    BY DEF MayPut, At, req
  <2>2. v # w
    BY <1>4, <1>9, <2>1
  <2>3. wk'[v] = wk[v] /\ wk[v].conn \in Conn /\ session'[wk[v].conn] = session[wk[v].conn]
    BY <1>7, <1>9, <2>1, <2>2
  <2>4. Allowed(v)
    BY <2>1, <2>3 DEF AccessInv, MayPut, At, req
  <2>5. QED
    BY <1>6, <2>3, <2>4 DEF Allowed, IsUpload, Upload, req, sess, require_session_allowed, require_role
<1>15. Recorded'
  <2>1. \A v \in Worker : wk'[v].pc = "audit" <=> wk[v].pc = "audit"
    BY <1>1, <1>4, <1>9
  <2>2. EntriesKept
    <3>1. SUFFICES ASSUME NEW v \in Worker, wk[v].pc = "audit" PROVE Entry(v)' = Entry(v)
      BY DEF EntriesKept
    <3>2. wk'[v] = wk[v] /\ session'[wk[v].conn] = session[wk[v].conn]
      BY <1>1, <1>7, <1>9, <3>1
    <3>3. QED
      BY <3>2 DEF Entry, req, sess
  <2>3. QED
    BY <1>6, <1>8, <2>1, <2>2, RecordQuiet DEF AccessInv
<1>16. QED
  BY <1>8, <1>10, <1>12, <1>13, <1>14, <1>15 DEF AccessInv

\* A failed login counts against the session and then against the address.
LEMMA FailStep ==
  ASSUME TypeInv, AccessInv, NEW w \in Worker, auth_failed(w) \/ note_auth_failure(w)
  PROVE  TypeInv' /\ AccessInv'
<1>1. wk[w].pc \in {"auth_failed", "note"} /\ UNCHANGED <<registry, audit, stored, boot, now, history>>
  BY DEF auth_failed, note_auth_failure, assign
<1>2. PICK c \in Conn : c = wk[w].conn
  BY <1>1 DEF TypeInv
<1>3. PICK s \in ClientSession : s = session[c]
  BY DEF TypeInv
<1>4. PICK p \in {"note", "idle"} : Comes(w, p)
  <2>1. CASE auth_failed(w)
    BY <1>1, <2>1, GotoComes DEF auth_failed, assign, Pcs
  <2>2. CASE note_auth_failure(w)
    BY <1>1, <2>2, AnswerComes DEF note_auth_failure
  <2>3. QED
    BY <2>1, <2>2
<1>5. PICK x : /\ session' = [session EXCEPT ![c] = x] /\ x \in ClientSession
               /\ x.authenticated = s.authenticated /\ x.username = s.username /\ x.role = s.role
  <2>1. CASE auth_failed(w)
    <3>1. PICK x : x = [s EXCEPT !.auth_failures = s.auth_failures + 1]
      OBVIOUS
    <3>2. s.auth_failures + 1 \in Nat
      <4>1. s.auth_failures \in Nat
        BY DEF ClientSession
      <4>2. QED
        BY <4>1
    <3>3. x \in ClientSession /\ x.authenticated = s.authenticated /\ x.username = s.username /\ x.role = s.role
      BY <3>1, <3>2 DEF ClientSession
    <3>4. session' = [session EXCEPT ![c] = x]
      BY <1>2, <1>3, <2>1, <3>1 DEF auth_failed, assign, sess
    <3>5. QED
      BY <3>3, <3>4
  <2>2. CASE note_auth_failure(w)
    <3>1. PICK o \in BOOLEAN : o = (s.open /\ s.auth_failures < kAuthFailuresBeforeClose)
      OBVIOUS
    <3>2. PICK x : x = [s EXCEPT !.open = o]
      OBVIOUS
    <3>3. x \in ClientSession /\ x.authenticated = s.authenticated /\ x.username = s.username /\ x.role = s.role
      BY <3>2 DEF ClientSession
    <3>4. session' = [session EXCEPT ![c] = x]
      BY <1>2, <1>3, <2>2, <3>1, <3>2 DEF note_auth_failure, sess
    <3>5. QED
      BY <3>3, <3>4
  <2>3. QED
    BY <2>1, <2>2
<1>6. session' \in [Conn -> ClientSession] /\ \A d \in Conn : Same(d)
  BY <1>3, <1>5 DEF TypeInv, Same
<1>7. Frame(w, p)
  BY <1>1, <1>4, <1>6, UsersUnchanged, UploadsUnchanged DEF Frame
<1>8. Records(w, p)
  BY <1>1, <1>4 DEF Records
<1>9. QED
  BY <1>1, <1>6, <1>7, <1>8, TablesKept, FrameStep

-----------------------------------------------------------------------------
(* Requests.                                                               *)

\* A request of the critical section that has not been answered, and what it
\* changes besides the uploads and the artifacts.
Doing(w) == wk[w].pc \in {"check", "act"}

\* A step that succeeds: it comes to p and changes tables.
LEMMA ActStep ==
  ASSUME TypeInv, AccessInv, NEW w \in Worker, Doing(w), NEW p \in {"idle", "audit"}, Comes(w, p),
         UsersKept, UploadsKept, token' \in Seq(TokenRow), artifact' \in Artifacts, Records(w, p),
         UNCHANGED <<session, boot, now>>
  PROVE  TypeInv' /\ AccessInv'
<1>1. Frame(w, p)
  BY TablesKept DEF Frame, Doing
<1>2. QED
  BY <1>1, TablesKept, FrameStep

LEMMA CheckStep ==
  ASSUME TypeInv, AccessInv, NEW w \in Worker, put_check(w) \/ delete_check(w)
  PROVE  TypeInv' /\ AccessInv'
<1>1. wk[w].pc = "check"
  BY DEF put_check, delete_check, At
<1>2. CASE refuse(w)
  BY <1>1, <1>2, RefuseStep
<1>3. CASE ~ refuse(w)
  <2>1. proceed(w, "act") /\ (req(w).op = "PUT_CHUNK" => Allowed(w))
    BY <1>3 DEF put_check, delete_check, At
  <2>2. Comes(w, "act") /\ UNCHANGED <<registry, audit, stored, session, ip_stats, boot, now, history>>
    BY <1>1, <2>1, GotoComes DEF proceed, Pcs
  <2>3. Frame(w, "act") /\ Records(w, "act")
    BY <1>1, <2>1, <2>2, UsersUnchanged, UploadsUnchanged, TablesKept DEF Frame, Records
  <2>4. QED
    BY <2>2, <2>3, TablesKept, FrameStep
<1>4. QED
  BY <1>2, <1>3

LEMMA CreateStep ==
  ASSUME TypeInv, AccessInv, NEW w \in Worker, create_upload(w)
  PROVE  TypeInv' /\ AccessInv'
<1>1. wk[w].pc = "act"
  BY DEF create_upload, At
<1>2. CASE refuse(w)
  BY <1>1, <1>2, RefuseStep
<1>3. CASE ~ refuse(w)
  <2>1. /\ upload' = Append(upload, [owner |-> sess(w).username, ref |-> req(w).ref,
                                     state |-> "OPEN", complete |-> FALSE])
        /\ answer(w) /\ UNCHANGED <<registry, session, boot, now, audit, artifact, effects>>
    BY <1>3 DEF create_upload, Other
  <2>2. PICK x : x = [owner |-> sess(w).username, ref |-> req(w).ref, state |-> "OPEN", complete |-> FALSE]
    OBVIOUS
  <2>3. wk[w].conn \in Conn /\ wk[w].req \in Requests
    BY <1>1 DEF TypeInv
  <2>4. sess(w).username \in User \cup {""} /\ req(w).ref \in Ref
    BY <2>3, AccessAssumption DEF TypeInv, sess, req, ClientSession, Request
  <2>5. x \in UploadRow
    BY <2>2, <2>4 DEF UploadRow
  <2>6. upload \in Seq(UploadRow) /\ upload' = Append(upload, x)
    BY <2>1, <2>2 DEF TypeInv
  <2>7. UploadsKept
    BY <2>5, <2>6, AppendProperties, LenProperties DEF UploadsKept
  <2>8. Comes(w, "idle") /\ Records(w, "idle")
    BY <1>1, <2>1, AnswerComes DEF Records
  <2>9. QED
    BY <1>1, <2>1, <2>7, <2>8, UsersUnchanged, TablesKept, ActStep DEF Doing
<1>4. QED
  BY <1>2, <1>3

LEMMA PutStep ==
  ASSUME TypeInv, AccessInv, NEW w \in Worker, put_act(w)
  PROVE  TypeInv' /\ AccessInv'
<1>1. wk[w].pc = "act"
  BY DEF put_act, At
<1>2. CASE refuse(w)
  BY <1>1, <1>2, RefuseStep
<1>3. CASE ~ refuse(w)
  <2>1. /\ upload' = [upload EXCEPT ![req(w).n].complete = TRUE]
        /\ answer(w) /\ UNCHANGED <<registry, session, boot, now, audit, artifact, effects>>
    BY <1>3 DEF put_act, Other
  <2>2. PICK i : i = req(w).n
    OBVIOUS
  <2>3. PICK x : x = [upload[i] EXCEPT !.complete = TRUE]
    OBVIOUS
  <2>4. i \in DOMAIN upload => x \in UploadRow /\ x.owner = upload[i].owner
    BY <2>3, UploadRows DEF UploadRow
  <2>5. UploadsKept
    BY <2>1, <2>2, <2>3, <2>4, UploadChanged
  <2>6. Comes(w, "idle") /\ Records(w, "idle")
    BY <1>1, <2>1, AnswerComes DEF Records
  <2>7. QED
    BY <1>1, <2>1, <2>5, <2>6, UsersUnchanged, TablesKept, ActStep DEF Doing
<1>4. QED
  BY <1>2, <1>3

LEMMA CommitStep ==
  ASSUME TypeInv, AccessInv, NEW w \in Worker, commit_upload(w)
  PROVE  TypeInv' /\ AccessInv'
<1>1. wk[w].pc = "act"
  BY DEF commit_upload, At
<1>2. CASE refuse(w)
  BY <1>1, <1>2, RefuseStep
<1>3. CASE ~ refuse(w)
  <2>1. /\ upload' = [upload EXCEPT ![req(w).n].state = "COMPLETED"]
        /\ artifact' = [artifact EXCEPT ![Upload(w).ref] = Upload(w).owner]
        /\ answer(w) /\ UNCHANGED <<registry, session, boot, now, audit, effects>>
        /\ IsUpload(w)
    BY <1>3 DEF commit_upload, Other, Allowed
  <2>2. PICK i \in DOMAIN upload : i = req(w).n
    BY <2>1 DEF IsUpload
  <2>3. PICK y \in UploadRow : y = upload[i]
    BY UploadRows
  <2>4. PICK x : x = [y EXCEPT !.state = "COMPLETED"]
    OBVIOUS
  <2>5. x \in UploadRow /\ x.owner = y.owner
    BY <2>4 DEF UploadRow
  <2>6. UploadsKept
    BY <2>1, <2>2, <2>3, <2>4, <2>5, UploadChanged
  <2>7. artifact' \in Artifacts
    <3>1. artifact' = [artifact EXCEPT ![y.ref] = y.owner] /\ artifact \in Artifacts
      BY <2>1, <2>2, <2>3, TablesKept DEF Upload
    <3>2. y.owner \in User \cup {""}
      BY DEF UploadRow
    <3>3. QED
      BY <3>1, <3>2 DEF Artifacts
  <2>8. Comes(w, "idle") /\ Records(w, "idle")
    BY <1>1, <2>1, AnswerComes DEF Records
  <2>9. QED
    BY <1>1, <2>1, <2>6, <2>7, <2>8, UsersUnchanged, TablesKept, ActStep DEF Doing
<1>4. QED
  BY <1>2, <1>3

LEMMA AbortedKept == ASSUME TypeInv, NEW w \in Worker, upload' = Aborted(w) PROVE UploadsKept
<1>1. PICK i : i = req(w).n
  OBVIOUS
<1>2. PICK x : x = [upload[i] EXCEPT !.state = IF upload[i].state = "OPEN" THEN "ABORTED" ELSE upload[i].state]
  OBVIOUS
<1>3. i \in DOMAIN upload => x \in UploadRow /\ x.owner = upload[i].owner
  BY <1>2, UploadRows DEF UploadRow
<1>4. QED
  BY <1>1, <1>2, <1>3, UploadChanged DEF Aborted

LEMMA AbortStep ==
  ASSUME TypeInv, AccessInv, NEW w \in Worker, abort_upload(w) \/ session_abort(w)
  PROVE  TypeInv' /\ AccessInv'
<1>1. wk[w].pc = "act"
  BY DEF abort_upload, session_abort, At
<1>2. CASE refuse(w)
  BY <1>1, <1>2, RefuseStep
<1>3. CASE ~ refuse(w) /\ abort_upload(w)
  <2>1. /\ upload' = Aborted(w) /\ HasEffect(w) /\ audit' = With(audit, Entry(w))
        /\ answer(w) /\ UNCHANGED <<registry, session, boot, now, artifact>>
    BY <1>3 DEF abort_upload, Other
  <2>2. Comes(w, "idle") /\ Records(w, "idle")
    BY <1>1, <2>1, AnswerComes DEF Records, HasEffect
  <2>3. QED
    BY <1>1, <2>1, <2>2, AbortedKept, UsersUnchanged, TablesKept, ActStep DEF Doing
<1>4. CASE ~ refuse(w) /\ session_abort(w)
  <2>1. /\ upload' = Aborted(w) /\ HasEffect(w) /\ goto(w, "audit")
        /\ UNCHANGED <<registry, session, boot, now, audit, artifact>>
    BY <1>4 DEF session_abort, Other
  <2>2. Comes(w, "audit") /\ Records(w, "audit")
    BY <1>1, <2>1, GotoComes DEF Records, HasEffect, Pcs
  <2>3. QED
    BY <1>1, <2>1, <2>2, AbortedKept, UsersUnchanged, TablesKept, ActStep DEF Doing
<1>5. QED
  BY <1>2, <1>3, <1>4

LEMMA DeleteStep ==
  ASSUME TypeInv, AccessInv, NEW w \in Worker, delete_act(w) \/ run_gc(w)
  PROVE  TypeInv' /\ AccessInv'
<1>1. wk[w].pc = "act"
  BY DEF delete_act, run_gc, At
<1>2. CASE refuse(w)
  BY <1>1, <1>2, RefuseStep
<1>3. CASE ~ refuse(w)
  <2>1. HasEffect(w) /\ goto(w, "audit") /\ UNCHANGED <<registry, session, boot, now, audit, upload>>
    BY <1>3 DEF delete_act, run_gc, Other
  <2>2. artifact' \in Artifacts
    <3>1. artifact' = artifact \/ artifact' = [artifact EXCEPT ![req(w).ref] = NoArtifact]
      BY <1>3 DEF delete_act, run_gc
    <3>2. QED
      BY <3>1, TablesKept DEF Artifacts
  <2>3. Comes(w, "audit") /\ Records(w, "audit")
    BY <1>1, <2>1, GotoComes DEF Records, HasEffect, Pcs
  <2>4. QED
    BY <1>1, <2>1, <2>2, <2>3, UploadsUnchanged, UsersUnchanged, TablesKept, ActStep DEF Doing
<1>4. QED
  BY <1>2, <1>3

LEMMA RegistryStep ==
  ASSUME TypeInv, AccessInv, NEW w \in Worker,
         user_add(w) \/ user_disable(w) \/ token_create(w) \/ token_revoke(w)
  PROVE  TypeInv' /\ AccessInv'
<1>1. wk[w].pc = "act" /\ wk[w].req \in Request
  BY AccessAssumption DEF user_add, user_disable, token_create, token_revoke, At, TypeInv
<1>2. req(w).user \in User /\ req(w).role \in Role /\ req(w).n \in Nat
  BY <1>1 DEF req, Request
<1>3. CASE refuse(w)
  BY <1>1, <1>3, RefuseStep
<1>4. CASE ~ refuse(w)
  <2>1. HasEffect(w) /\ goto(w, "audit") /\ UNCHANGED <<session, boot, now, audit, stored>>
    BY <1>4 DEF user_add, user_disable, token_create, token_revoke, Changed
  <2>2. Comes(w, "audit") /\ Records(w, "audit")
    BY <1>1, <2>1, GotoComes DEF Records, HasEffect, Pcs
  <2>3. UsersKept /\ token' \in Seq(TokenRow)
    <3>1. CASE user_add(w)
      <4>1. ~ user[req(w).user].known /\ AddUser(req(w).user, req(w).role) /\ UNCHANGED token
        BY <1>4, <3>1 DEF user_add, Changed
      <4>2. QED
        BY <1>2, <4>1, UserAdded, TablesKept
    <3>2. CASE user_disable(w)
      <4>1. user' = [user EXCEPT ![req(w).user].enabled = FALSE] /\ UNCHANGED token
        BY <1>4, <3>2 DEF user_disable, Changed
      <4>2. QED
        BY <1>2, <4>1, UserDisabled, TablesKept
    <3>3. CASE token_create(w)
      <4>1. AddToken(req(w).user, req(w).n) /\ UNCHANGED user
        BY <1>4, <3>3 DEF token_create, Changed
      <4>2. QED
        BY <1>2, <4>1, TokenAdded, UsersUnchanged
    <3>4. CASE token_revoke(w)
      <4>1. req(w).n \in DOMAIN token /\ token' = [token EXCEPT ![req(w).n].revoked = TRUE] /\ UNCHANGED user
        BY <1>4, <3>4 DEF token_revoke, Changed
      <4>2. QED
        BY <4>1, TokenRevoked, UsersUnchanged
    <3>5. QED
      BY <3>1, <3>2, <3>3, <3>4
  <2>4. artifact' \in Artifacts /\ UploadsKept
    BY <2>1, TablesKept, UploadsUnchanged
  <2>5. QED
    BY <1>1, <2>1, <2>2, <2>3, <2>4, ActStep DEF Doing
<1>5. QED
  BY <1>3, <1>4

LEMMA WriteStep == ASSUME TypeInv, AccessInv, NEW w \in Worker, AuditWrite(w) PROVE TypeInv' /\ AccessInv'
<1>1. /\ wk[w].pc = "audit" /\ audit' = With(audit, Entry(w)) /\ answer(w)
      /\ UNCHANGED <<registry, stored, session, boot, now, history>>
  BY DEF AuditWrite
<1>2. Comes(w, "idle") /\ Records(w, "idle")
  BY <1>1, AnswerComes DEF Records
<1>3. Frame(w, "idle")
  BY <1>1, <1>2, UsersUnchanged, UploadsUnchanged, TablesKept DEF Frame
<1>4. QED
  BY <1>1, <1>2, <1>3, TablesKept, FrameStep

-----------------------------------------------------------------------------
(* The invariant and the theorems.                                         *)

LEMMA RequestStep ==
  ASSUME TypeInv, AccessInv, InFlight = 1, NEW w \in Worker,
         check_peer_not_blocked(w) \/ dispatch_business(w)
  PROVE  TypeInv' /\ AccessInv'
<1>1. CASE check_peer_not_blocked(w)
  <2>1. PICK c \in Conn, r \in Requests, p \in {"auth_failed", "verify"} : Takes(w, c, r) /\ hold(w, c, r, p)
    BY <1>1 DEF check_peer_not_blocked
  <2>2. QED
    BY <2>1, TakeStep
<1>2. CASE dispatch_business(w)
  <2>1. PICK c \in Conn, r \in Requests, p \in {"check", "act"} :
          Takes(w, c, r) /\ hold(w, c, r, p) /\ (p = "act" => r.op # "PUT_CHUNK")
    BY <1>2 DEF dispatch_business
  <2>2. QED
    BY <2>1, TakeStep
<1>3. QED
  BY <1>1, <1>2

LEMMA InitInv == ASSUME Init PROVE TypeInv /\ AccessInv
<1>1. user \in [User -> UserRow] /\ token \in Seq(TokenRow) /\ Registered
  BY AccessAssumption DEF Init, Registered
<1>2. upload \in Seq(UploadRow) /\ artifact \in Artifacts
  BY DEF Init, Artifacts
<1>3. session \in [Conn -> ClientSession] /\ \A c \in Conn : ~ session[c].authenticated
  <2>1. Gone \in ClientSession /\ ~ Gone.authenticated
    BY DEF Gone, NewSession, ClientSession, Role
  <2>2. QED
    BY <2>1 DEF Init
<1>4. wk \in [Worker -> WorkerState] /\ \A w \in Worker : wk[w].pc = "idle"
  BY IdleType DEF Init
<1>5. /\ boot \in [Boot -> [pc : BootPcs, name : User \cup {AnyUser}]]
      /\ \A b \in Boot : boot[b].pc = "has_no_users"
  BY DEF Init, BootPcs
<1>6. now \in Nat /\ IsABag(effects) /\ IsABag(audit) /\ BagToSet(effects) = {} /\ BagToSet(audit) = {}
  <2>1. IsABag(EmptyBag) /\ BagToSet(EmptyBag) = {}
    BY DEF IsABag, EmptyBag, SetToBag, BagToSet
  <2>2. QED
    BY <2>1 DEF Init
<1>7. TypeInv
  BY <1>1, <1>2, <1>3, <1>4, <1>5, <1>6 DEF TypeInv, Artifacts
<1>8. Exclusive /\ Verified /\ MayPut
  BY <1>4 DEF Exclusive, Verified, MayPut, At
<1>9. Named
  BY <1>3 DEF Named
<1>10. Recorded
  BY <1>4, <1>6 DEF Recorded, AuditTrail
<1>11. QED
  BY <1>1, <1>7, <1>8, <1>9, <1>10 DEF AccessInv

LEMMA NextInv == ASSUME TypeInv, AccessInv, InFlight = 1, [Next]_vars PROVE TypeInv' /\ AccessInv'
<1>1. ASSUME NEW w \in Worker, Step(w) PROVE TypeInv' /\ AccessInv'
  <2>1. CASE hello(w)
    BY <2>1, HelloStep
  <2>2. CASE check_peer_not_blocked(w) \/ dispatch_business(w)
    BY <2>2, RequestStep
  <2>3. CASE verify(w)
    BY <2>3, VerifyStep
  <2>4. CASE set_username(w) \/ set_role(w)
    BY <2>4, AssignStep
  <2>5. CASE auth_failed(w) \/ note_auth_failure(w)
    BY <2>5, FailStep
  <2>6. CASE create_upload(w)
    BY <2>6, CreateStep
  <2>7. CASE put_check(w) \/ delete_check(w)
    BY <2>7, CheckStep
  <2>8. CASE put_act(w)
    BY <2>8, PutStep
  <2>9. CASE commit_upload(w)
    BY <2>9, CommitStep
  <2>10. CASE abort_upload(w) \/ session_abort(w)
    BY <2>10, AbortStep
  <2>11. CASE delete_act(w) \/ run_gc(w)
    BY <2>11, DeleteStep
  <2>12. CASE user_add(w) \/ user_disable(w) \/ token_create(w) \/ token_revoke(w)
    BY <2>12, RegistryStep
  <2>13. CASE AuditWrite(w)
    BY <2>13, WriteStep
  <2>14. QED
    BY <1>1, <2>1, <2>2, <2>3, <2>4, <2>5, <2>6, <2>7, <2>8, <2>9, <2>10, <2>11, <2>12, <2>13 DEF Step
<1>2. ASSUME NEW c \in Conn, connect(c) \/ disconnect(c) PROVE TypeInv' /\ AccessInv'
  BY <1>2, ConnectionStep
<1>3. ASSUME NEW b \in Boot, Create_admin(b) PROVE TypeInv' /\ AccessInv'
  BY <1>3, BootStep
<1>4. CASE Tick \/ UNCHANGED vars
  BY <1>4, TickStep
<1>5. QED
  BY <1>1, <1>2, <1>3, <1>4 DEF Next

\* The inductive invariant holds of every run of the dispatcher and the
\* registry in which a client has one request in flight.
THEOREM AccessInvariant == InFlight = 1 => (Spec => [](TypeInv /\ AccessInv))
<1>1. SUFFICES ASSUME InFlight = 1 PROVE Spec => [](TypeInv /\ AccessInv)
  OBVIOUS
<1>2. Init => TypeInv /\ AccessInv
  BY InitInv
<1>3. TypeInv /\ AccessInv /\ [Next]_vars => (TypeInv /\ AccessInv)'
  BY <1>1, NextInv
<1>4. QED
  BY <1>2, <1>3, PTL DEF Spec

\* Whenever no AUTH is in the middle of its assignments, an authenticated
\* session carries a user's name together with that user's own role: two AUTHs
\* of one connection, users that are added and disabled meanwhile and
\* reconnections included.
THEOREM SessionsAreOneUser == InFlight = 1 => (Spec => []SessionIsOneUser)
<1>1. TypeInv /\ AccessInv => SessionIsOneUser
  BY DEF AccessInv, Named, IsRole, SessionIsOneUser, Held, Assigning
<1>2. QED
  BY <1>1, AccessInvariant, PTL

\* What the audit table holds: each administrative operation that succeeded, as
\* often as it succeeded and under the name of its user, but for those whose
\* worker is about to write the entry; and nothing else.
THEOREM AuditTrailKept == InFlight = 1 => (Spec => []AuditTrail)
<1>1. TypeInv /\ AccessInv => AuditTrail
  BY DEF AccessInv, Recorded
<1>2. QED
  BY <1>1, AccessInvariant, PTL

\* A chunk is written to an upload only while the connection is still that of
\* the upload's owner or of an administrator, though PUT_CHUNK writes in a later
\* critical section than the one that checked.
THEOREM PutsAreOwners == InFlight = 1 => (Spec => PutByOwner)
<1> DEFINE Writer(i) ==
             \E w \in Worker :
               /\ At(w, "act", "PUT_CHUNK") /\ req(w).n = i
               /\ sess(w).role = "Admin" \/ sess(w).username = upload[i].owner
<1>1. ASSUME TypeInv, AccessInv, Next, NEW i \in DOMAIN upload, upload[i].complete # upload'[i].complete
      PROVE  Writer(i)
  <2>1. upload \in Seq(UploadRow) /\ upload[i] \in UploadRow /\ i \in 1 .. Len(upload)
    BY <1>1, UploadRows, LenProperties DEF TypeInv
  <2>2. PICK w \in Worker : Step(w)
    <3>1. upload' # upload
      BY <1>1
    <3>2. QED
      BY <1>1, <3>1 DEF Next, connect, disconnect, Create_admin, has_no_users, boot_user_add,
                        boot_token_create, boot_dies, Tick
  <2>3. upload' # upload
    BY <1>1
  <2>4. ~ refuse(w)
    BY <2>3 DEF refuse
  <2>5. ~ create_upload(w)
    <3>1. ASSUME create_upload(w) PROVE FALSE
      <4>1. PICK x : upload' = Append(upload, x)
        BY <2>4, <3>1 DEF create_upload
      <4>2. upload'[i] = upload[i]
        BY <2>1, <4>1
      <4>3. QED
        BY <1>1, <4>2
    <3>2. QED
      BY <3>1
  <2>6. \A n, s : upload' # [upload EXCEPT ![n].state = s]
    BY ZenonT(60), <1>1, <2>1 DEF UploadRow
  <2>7. ~ commit_upload(w) /\ ~ abort_upload(w) /\ ~ session_abort(w)
    BY <2>4, <2>6 DEF commit_upload, abort_upload, session_abort, Aborted
  <2>8. put_act(w)
    BY <2>2, <2>3, <2>4, <2>5, <2>7
       DEF Step, hello, check_peer_not_blocked, hold, verify, set_username, set_role, auth_failed, assign,
           note_auth_failure, dispatch_business, put_check, delete_check, proceed, delete_act, run_gc,
           user_add, user_disable, token_create, token_revoke, Changed, AuditWrite
  <2>9. req(w).n = i
    BY <1>1, <2>1, <2>4, <2>8 DEF put_act
  <2>10. At(w, "act", "PUT_CHUNK") /\ Allowed(w)
    BY <1>1, <2>8 DEF put_act, AccessInv, MayPut
  <2>11. QED
    BY <2>9, <2>10 DEF Allowed, Upload, require_session_allowed
<1>2. TypeInv /\ AccessInv /\ [Next]_vars => [PutsOwned]_vars
  <2>1. ASSUME TypeInv, AccessInv, Next PROVE PutsOwned
    <3>1. \A i \in DOMAIN upload : upload[i].complete # upload'[i].complete => Writer(i)
      BY <1>1, <2>1
    <3>2. QED
      BY <3>1 DEF PutsOwned
  <2>2. QED
    BY <2>1
<1>3. SUFFICES ASSUME InFlight = 1 PROVE Spec => PutByOwner
  OBVIOUS
<1>4. Spec => [](TypeInv /\ AccessInv)
  BY <1>3, AccessInvariant
<1>5. QED
  BY <1>2, <1>4, PTL DEF Spec, PutByOwner
-----------------------------------------------------------------------------
(* The limits on failed logins, for any number of requests in flight.      *)

LEMMA LimitConstants ==
  /\ IsFiniteSet(Worker) /\ Cardinality(Worker) \in Nat
  /\ kIpFailureThreshold \in Nat \ {0} /\ kIpFailureWindowSeconds \in Nat /\ kIpBlockSeconds \in Nat
  /\ MostGuesses \in Nat /\ MostGuesses = 2 * (kIpFailureThreshold - 1) + Cardinality(Worker)
<1>1. IsFiniteSet(Worker) /\ Cardinality(Worker) \in Nat
  BY AccessAssumption, FS_CardinalityType
<1>2. kIpFailureThreshold \in Nat \ {0} /\ kIpFailureWindowSeconds \in Nat /\ kIpBlockSeconds \in Nat
  BY AccessAssumption
<1>3. QED
  BY <1>1, <1>2 DEF MostGuesses

\* A worker is in at most one of the two sets.
LEMMA WorkersApart ==
  ASSUME NEW a \in Address
  PROVE  /\ IsFiniteSet(Looked(a)) /\ Cardinality(Looked(a)) \in Nat
         /\ IsFiniteSet(Unnoted(a)) /\ Cardinality(Unnoted(a)) \in Nat
         /\ Cardinality(Looked(a)) + Cardinality(Unnoted(a)) <= Cardinality(Worker)
<1>1. Looked(a) \subseteq Worker /\ Unnoted(a) \subseteq Worker /\ Looked(a) \cup Unnoted(a) \subseteq Worker
  BY DEF Looked, Unnoted
<1>2. IsFiniteSet(Looked(a)) /\ IsFiniteSet(Unnoted(a))
  BY <1>1, LimitConstants, FS_Subset
<1>3. Looked(a) \cap Unnoted(a) = {}
  BY DEF Looked, Unnoted
<1>4. Cardinality(Looked(a) \cup Unnoted(a)) = Cardinality(Looked(a)) + Cardinality(Unnoted(a)) - 0
  BY <1>2, <1>3, FS_Union, FS_EmptySet
<1>5. Cardinality(Looked(a) \cup Unnoted(a)) <= Cardinality(Worker)
  BY <1>1, LimitConstants, FS_Subset
<1>6. Cardinality(Looked(a)) \in Nat /\ Cardinality(Unnoted(a)) \in Nat
  BY <1>2, FS_CardinalityType
<1>7. QED
  BY <1>2, <1>4, <1>5, <1>6

LEMMA OneMore ==
  ASSUME NEW S, IsFiniteSet(S), NEW x, x \notin S
  PROVE  Cardinality(S \cup {x}) = Cardinality(S) + 1
BY FS_AddElement
LEMMA OneLess ==
  ASSUME NEW S, IsFiniteSet(S), NEW x, x \in S
  PROVE  Cardinality(S \ {x}) = Cardinality(S) - 1
BY FS_RemoveElement

\* Counting the late times of a sequence in order.
LEMMA AtMostMore ==
  ASSUME NEW q \in Seq(Nat), \A i, j \in DOMAIN q : i <= j => q[i] <= q[j],
         NEW t \in Nat, NEW m \in Nat, NEW n \in Nat, m <= n, AtMost(q, t, m)
  PROVE  AtMost(q, t, n)
<1>1. Len(q) \in Nat /\ DOMAIN q = 1 .. Len(q) /\ \A i \in 1 .. Len(q) : q[i] \in Nat
  BY LenProperties, ElementOfSeq
<1>2. CASE Len(q) <= n
  BY <1>2 DEF AtMost
<1>3. CASE ~ Len(q) <= n
  <2>1. Len(q) - n \in DOMAIN q /\ Len(q) - m \in DOMAIN q /\ Len(q) - n <= Len(q) - m
    BY <1>1, <1>3
  <2>2. q[Len(q) - m] < t
    BY <1>1, <1>3 DEF AtMost
  <2>3. q[Len(q) - n] <= q[Len(q) - m]
    BY <2>1
  <2>4. PICK x \in Nat, y \in Nat : x = q[Len(q) - n] /\ y = q[Len(q) - m]
    BY <1>1, <2>1
  <2>5. x < t
    BY <2>2, <2>3, <2>4
  <2>6. QED
    BY <2>4, <2>5 DEF AtMost
<1>4. QED
  BY <1>2, <1>3

LEMMA AtMostAppend ==
  ASSUME NEW q \in Seq(Nat), NEW x \in Nat, NEW t \in Nat, NEW n \in Nat, AtMost(q, t, n)
  PROVE  AtMost(Append(q, x), t, n + 1)
<1>1. Len(q) \in Nat /\ Len(Append(q, x)) = Len(q) + 1
      /\ \A i \in 1 .. Len(q) : Append(q, x)[i] = q[i]
  BY LenProperties, AppendProperties
<1>2. Len(q) <= n \/ (Len(q) - n \in 1 .. Len(q) /\ Len(q) + 1 - (n + 1) = Len(q) - n)
  BY <1>1
<1>3. QED
  BY <1>1, <1>2 DEF AtMost

\* Nothing is later than the last time.
LEMMA AtMostNone ==
  ASSUME NEW q \in Seq(Nat), NEW t \in Nat, \A i \in DOMAIN q : q[i] < t, NEW n \in Nat
  PROVE  AtMost(q, t, n)
<1>1. Len(q) \in Nat /\ DOMAIN q = 1 .. Len(q)
  BY LenProperties
<1>2. CASE Len(q) <= n
  BY <1>2 DEF AtMost
<1>3. CASE ~ Len(q) <= n
  <2>1. Len(q) - n \in DOMAIN q
    BY <1>1, <1>3
  <2>2. QED
    BY <2>1 DEF AtMost
<1>4. QED
  BY <1>2, <1>3

\* CountedSince of an address: its guesses, how many workers are in either set,
\* and what the dispatcher has counted.
Since(q, t, l, u, stat) ==
  \/ stat.blocked_until >= t + kIpBlockSeconds /\ AtMost(q, t, MostGuesses - l)
  \/ AtMost(q, t, u + stat.failures + IF stat.window_start >= t THEN kIpFailureThreshold - 1 ELSE 0)
IpStat == [failures : 0 .. kIpFailureThreshold - 1, window_start : Nat, blocked_until : Nat]

LEMMA CountedIsSince ==
  ASSUME NEW a, NEW t
  PROVE  CountedSince(a, t)
         <=> Since(guesses[a], t, Cardinality(Looked(a)), Cardinality(Unnoted(a)), ip_stats[a])
BY DEF CountedSince, Since

\* A worker that has more to note, and one that is done with looking, spoil
\* nothing.
LEMMA SinceKept ==
  ASSUME NEW q \in Seq(Nat), \A i, j \in DOMAIN q : i <= j => q[i] <= q[j],
         NEW t \in Nat, NEW l \in Nat, NEW u \in Nat, NEW stat \in IpStat,
         NEW k \in Nat, NEW v \in Nat, k <= l, u <= v, l <= Cardinality(Worker),
         Since(q, t, l, u, stat)
  PROVE  Since(q, t, k, v, stat)
<1>1. MostGuesses - l \in Nat /\ MostGuesses - k \in Nat /\ MostGuesses - l <= MostGuesses - k
  BY LimitConstants
<1>2. PICK n \in Nat : n = stat.failures + IF stat.window_start >= t THEN kIpFailureThreshold - 1 ELSE 0
  BY LimitConstants DEF IpStat
<1>3. stat.failures \in Nat /\ (IF stat.window_start >= t THEN kIpFailureThreshold - 1 ELSE 0) \in Nat
  BY LimitConstants DEF IpStat
<1>4. \A x \in Nat : x + stat.failures + (IF stat.window_start >= t THEN kIpFailureThreshold - 1 ELSE 0) = x + n
  BY <1>2, <1>3
<1>5. u + n \in Nat /\ v + n \in Nat /\ u + n <= v + n
  OBVIOUS
<1>6. CASE stat.blocked_until >= t + kIpBlockSeconds /\ AtMost(q, t, MostGuesses - l)
  BY <1>1, <1>6, AtMostMore DEF Since
<1>7. CASE AtMost(q, t, u + n)
  BY <1>4, <1>5, <1>7, AtMostMore DEF Since
<1>8. QED
  BY <1>4, <1>6, <1>7 DEF Since

LEMMA CountFits ==
  ASSUME NEW T \in Nat \ {0}, NEW n \in Nat, NEW l \in Nat, NEW u \in Nat, l + u <= n,
         NEW f \in 0 .. T - 1, NEW y \in 0 .. T - 1
  PROVE  2 * (T - 1) + n - l \in Nat /\ u + f + y \in Nat /\ u + f + y <= 2 * (T - 1) + n - l
OBVIOUS

\* While the guesses since t count, there are no more than the bound.
LEMMA SinceBounded ==
  ASSUME NEW q \in Seq(Nat), \A i, j \in DOMAIN q : i <= j => q[i] <= q[j],
         NEW t \in Nat, NEW l \in Nat, NEW u \in Nat, NEW stat \in IpStat, l + u <= Cardinality(Worker),
         Since(q, t, l, u, stat)
  PROVE  AtMost(q, t, MostGuesses)
<1>1. PICK T \in Nat \ {0}, n \in Nat :
        T = kIpFailureThreshold /\ n = Cardinality(Worker) /\ MostGuesses = 2 * (T - 1) + n
  BY LimitConstants
<1>2. PICK f \in 0 .. T - 1 : f = stat.failures
  BY <1>1 DEF IpStat
<1>3. PICK y \in 0 .. T - 1 : y = IF stat.window_start >= t THEN T - 1 ELSE 0
  BY <1>1
<1>4. MostGuesses \in Nat /\ u + f + y \in Nat /\ u + f + y <= MostGuesses
  <2>1. l + u <= n
    BY <1>1
  <2>2. 2 * (T - 1) + n - l \in Nat /\ u + f + y \in Nat /\ u + f + y <= 2 * (T - 1) + n - l
    BY <2>1, CountFits
  <2>3. QED
    BY <1>1, <2>2
<1>5. MostGuesses - l \in Nat /\ MostGuesses - l <= MostGuesses
  BY <1>1
<1>6. CASE AtMost(q, t, MostGuesses - l)
  BY <1>4, <1>5, <1>6, AtMostMore
<1>7. CASE AtMost(q, t, u + f + y)
  BY <1>4, <1>7, AtMostMore
<1>8. QED
  BY <1>1, <1>2, <1>3, <1>6, <1>7 DEF Since

\* A worker finds the address not blocked.
LEMMA SinceLook ==
  ASSUME NEW q, NEW t \in Nat, NEW l, NEW u, NEW k, NEW stat \in IpStat, now \in Nat,
         now < t + kIpBlockSeconds, ~ stat.blocked_until > now, Since(q, t, l, u, stat)
  PROVE  Since(q, t, k, u, stat)
<1>1. ~ stat.blocked_until >= t + kIpBlockSeconds
  BY LimitConstants DEF IpStat
<1>2. QED
  BY <1>1 DEF Since

\* A worker's token is found wrong.
LEMMA SinceGuess ==
  ASSUME NEW q \in Seq(Nat), NEW t \in Nat, NEW l \in Nat \ {0}, NEW u \in Nat, NEW stat \in IpStat,
         l <= Cardinality(Worker), now \in Nat, Since(q, t, l, u, stat)
  PROVE  Since(Append(q, now), t, l - 1, u + 1, stat)
<1>1. MostGuesses - l \in Nat /\ MostGuesses - (l - 1) = (MostGuesses - l) + 1
  BY LimitConstants
<1>2. PICK n \in Nat : n = stat.failures + IF stat.window_start >= t THEN kIpFailureThreshold - 1 ELSE 0
  BY LimitConstants DEF IpStat
<1>3. stat.failures \in Nat /\ (IF stat.window_start >= t THEN kIpFailureThreshold - 1 ELSE 0) \in Nat
  BY LimitConstants DEF IpStat
<1>4. \A x \in Nat : x + stat.failures + (IF stat.window_start >= t THEN kIpFailureThreshold - 1 ELSE 0) = x + n
  BY <1>2, <1>3
<1>5. u + 1 \in Nat /\ u + n \in Nat /\ (u + 1) + n = (u + n) + 1
  OBVIOUS
<1>6. CASE stat.blocked_until >= t + kIpBlockSeconds /\ AtMost(q, t, MostGuesses - l)
  BY <1>1, <1>6, AtMostAppend DEF Since
<1>7. CASE AtMost(q, t, u + n)
  <2>1. AtMost(Append(q, now), t, (u + 1) + n)
    BY <1>5, <1>7, AtMostAppend
  <2>2. QED
    BY <1>4, <1>5, <2>1 DEF Since
<1>8. QED
  BY <1>4, <1>6, <1>7 DEF Since

LEMMA NotedType ==
  ASSUME NEW stat \in IpStat, now \in Nat
  PROVE  /\ Noted(stat) \in IpStat
         /\ stat.window_start <= now => Noted(stat).window_start <= now
BY LimitConstants DEF Noted, IpStat

\* A worker notes a failure: in the same window, in a new one, or as the one
\* that makes the address blocked.
LEMMA SinceNoted ==
  ASSUME NEW q \in Seq(Nat), \A i, j \in DOMAIN q : i <= j => q[i] <= q[j],
         NEW t \in Nat \ {0}, NEW l \in Nat, NEW u \in Nat \ {0}, NEW stat \in IpStat,
         l + u <= Cardinality(Worker), now \in Nat, t <= now, now < t + kIpBlockSeconds,
         kIpBlockSeconds <= kIpFailureWindowSeconds + 1, Since(q, t, l, u, stat)
  PROVE  Since(q, t, l, u - 1, Noted(stat))
<1>1. PICK f \in 0 .. kIpFailureThreshold - 1, ws \in Nat, b \in Nat :
        f = stat.failures /\ ws = stat.window_start /\ b = stat.blocked_until
  BY DEF IpStat
<1>2. PICK T \in Nat \ {0} : T = kIpFailureThreshold
  BY LimitConstants
<1>3. PICK new \in IpStat : new = Noted(stat)
  BY NotedType
<1> DEFINE Fresh == ws = 0 \/ now - ws > kIpFailureWindowSeconds
           z(x) == IF x >= t THEN T - 1 ELSE 0
<1>4. CASE (IF Fresh THEN 0 ELSE f) + 1 >= T
  <2>1. new.blocked_until = now + kIpBlockSeconds
    BY <1>1, <1>2, <1>3, <1>4 DEF Noted
  <2>2. new.blocked_until >= t + kIpBlockSeconds
    BY <2>1, LimitConstants
  <2>3. MostGuesses - l \in Nat /\ u + f + z(ws) \in Nat /\ u + f + z(ws) <= MostGuesses - l
    <3>1. PICK y \in 0 .. T - 1 : y = z(ws)
      BY <1>2
    <3>2. PICK n \in Nat : n = Cardinality(Worker) /\ MostGuesses = 2 * (T - 1) + n /\ l + u <= n
      BY <1>2, LimitConstants
    <3>3. f \in 0 .. T - 1
      BY <1>2
    <3>4. 2 * (T - 1) + n - l \in Nat /\ u + f + y \in Nat /\ u + f + y <= 2 * (T - 1) + n - l
      BY <3>2, <3>3, CountFits
    <3>5. MostGuesses - l = 2 * (T - 1) + n - l
      BY <3>2
    <3>6. QED
      BY <3>1, <3>4, <3>5
  <2>4. AtMost(q, t, MostGuesses - l)
    BY <1>1, <1>2, <2>3, AtMostMore DEF Since
  <2>5. QED
    BY <1>3, <2>2, <2>4 DEF Since
<1>5. CASE ~ (IF Fresh THEN 0 ELSE f) + 1 >= T
  <2>1. /\ new.failures = (IF Fresh THEN 0 ELSE f) + 1
        /\ new.window_start = (IF Fresh THEN now ELSE ws) /\ new.blocked_until = b
    BY <1>1, <1>2, <1>3, <1>5 DEF Noted
  <2>2. CASE stat.blocked_until >= t + kIpBlockSeconds /\ AtMost(q, t, MostGuesses - l)
    BY <1>1, <1>3, <2>1, <2>2 DEF Since
  <2>3. CASE AtMost(q, t, u + f + z(ws))
    <3>1. (u - 1) + new.failures + z(new.window_start) \in Nat /\ u + f + z(ws) \in Nat
      <4>1. PICK y \in Nat, v \in Nat, x \in Nat : y = z(ws) /\ v = z(new.window_start) /\ x = new.failures
        <5>1. z(ws) \in Nat /\ z(new.window_start) \in Nat
          BY <1>2
        <5>2. new.failures \in Nat
          BY <1>2, <1>3 DEF IpStat
        <5>3. QED
          BY <5>1, <5>2
      <4>2. PICK d \in Nat, e \in Nat : d = u - 1 /\ e = f
        BY <1>2
      <4>3. d + x + v \in Nat /\ u + e + y \in Nat
        OBVIOUS
      <4>4. QED
        BY <4>1, <4>2, <4>3
    <3>2. u + f + z(ws) <= (u - 1) + new.failures + z(new.window_start)
      <4>1. CASE ~ Fresh
        <5>1. new.failures = f + 1 /\ new.window_start = ws
          BY <2>1, <4>1
        <5>2. PICK y \in Nat : y = z(ws)
          BY <1>2
        <5>3. PICK e \in Nat : e = f
          BY <1>2
        <5>4. u + e + y <= (u - 1) + (e + 1) + y
          OBVIOUS
        <5>5. QED
          BY <5>1, <5>2, <5>3, <5>4
      <4>2. CASE Fresh
        <5>1. ~ ws >= t
          <6>1. PICK B \in Nat, W \in Nat : B = kIpBlockSeconds /\ W = kIpFailureWindowSeconds
            BY LimitConstants
          <6>2. ws = 0 \/ now - ws > W
            BY <4>2, <6>1
          <6>3. now < t + B /\ B <= W + 1
            BY <6>1
          <6>4. QED
            BY <6>2, <6>3
        <5>2. z(ws) = 0 /\ z(new.window_start) = T - 1 /\ new.failures = 1
          BY <2>1, <4>2, <5>1
        <5>3. QED
          BY <1>1, <1>2, <5>2
      <4>3. QED
        BY <4>1, <4>2
    <3>3. AtMost(q, t, (u - 1) + new.failures + z(new.window_start))
      BY <2>3, <3>1, <3>2, AtMostMore
    <3>4. QED
      BY <1>2, <1>3, <3>3 DEF Since
  <2>4. QED
    BY <1>1, <1>2, <2>2, <2>3 DEF Since
<1>6. QED
  BY <1>4, <1>5

\* Where a worker is while a login that may fail is in its hands.
LoginPcs == {"verify", "auth_failed", "note"}
WkShape ==
  /\ wk = [w \in Worker |-> wk[w]]
  /\ \A w \in Worker : WorkerRecord(wk[w]) /\ (wk[w].pc \in LoginPcs => wk[w].conn \in Conn)

LEMMA ShapeOfTypes == LimitTypes => WkShape
BY DEF LimitTypes, WkShape, LoginPcs

\* One worker moves.
LEMMA ShapeMoves ==
  ASSUME WkShape, NEW w \in Worker, NEW x, WorkerRecord(x), x.pc \in LoginPcs => x.conn \in Conn,
         wk' = [wk EXCEPT ![w] = x]
  PROVE  WkShape' /\ wk'[w] = x /\ \A v \in Worker \ {w} : wk'[v] = wk[v]
<1>1. wk'[w] = x /\ (\A v \in Worker \ {w} : wk'[v] = wk[v]) /\ wk' = [v \in Worker |-> wk'[v]]
  BY DEF WkShape
<1>2. ASSUME NEW v \in Worker PROVE WorkerRecord(wk'[v]) /\ (wk'[v].pc \in LoginPcs => wk'[v].conn \in Conn)
  BY <1>1, <1>2 DEF WkShape
<1>3. QED
  BY <1>1, <1>2 DEF WkShape, WorkerRecord

LEMMA GotoMoves ==
  ASSUME WkShape, NEW w \in Worker, NEW p, goto(w, p), p \in LoginPcs => wk[w].pc \in LoginPcs
  PROVE  /\ WkShape' /\ wk'[w].pc = p /\ wk'[w].conn = wk[w].conn
         /\ \A v \in Worker \ {w} : wk'[v] = wk[v]
<1>1. PICK y : y = wk[w] /\ WorkerRecord(y) /\ (y.pc \in LoginPcs => y.conn \in Conn)
  BY DEF WkShape
<1>2. PICK x : x = [y EXCEPT !.pc = p]
  OBVIOUS
<1>3. x.pc = p /\ x.conn = y.conn /\ WorkerRecord(x)
  BY <1>1, <1>2 DEF WorkerRecord
<1>4. wk' = [wk EXCEPT ![w] = x]
  BY <1>1, <1>2 DEF goto
<1>5. QED
  BY <1>1, <1>3, <1>4, ShapeMoves

LEMMA IdleRecord == WorkerRecord(Idle) /\ Idle.pc = "idle"
BY DEF Idle, WorkerRecord

LEMMA AnswerMoves ==
  ASSUME WkShape, NEW w \in Worker, answer(w)
  PROVE  WkShape' /\ wk'[w].pc = "idle" /\ \A v \in Worker \ {w} : wk'[v] = wk[v]
<1>1. PICK x : x = Idle /\ WorkerRecord(x) /\ x.pc = "idle"
  BY IdleRecord
<1>2. wk' = [wk EXCEPT ![w] = x]
  BY <1>1 DEF answer
<1>3. QED
  BY <1>1, <1>2, ShapeMoves DEF LoginPcs

LEMMA HoldMoves ==
  ASSUME WkShape, NEW w \in Worker, NEW c \in Conn, NEW r, NEW p, hold(w, c, r, p)
  PROVE  /\ WkShape' /\ wk'[w].pc = p /\ wk'[w].conn = c
         /\ \A v \in Worker \ {w} : wk'[v] = wk[v]
<1>1. PICK i : i = Idle /\ WorkerRecord(i)
  BY IdleRecord
<1>2. PICK x : x = [i EXCEPT !.pc = p, !.conn = c, !.req = r]
  OBVIOUS
<1>3. x.pc = p /\ x.conn = c /\ WorkerRecord(x)
  BY <1>1, <1>2 DEF WorkerRecord
<1>4. wk' = [wk EXCEPT ![w] = x]
  BY <1>1, <1>2 DEF hold
<1>5. QED
  BY <1>3, <1>4, ShapeMoves

\* What becomes of the two sets when one worker moves.
LEMMA SetsMove ==
  ASSUME NEW w \in Worker, \A v \in Worker \ {w} : wk'[v] = wk[v], NEW a \in Address
  PROVE  /\ Looked(a)' = IF wk'[w].pc = "verify" /\ ip_of[wk'[w].conn] = a
                         THEN Looked(a) \cup {w} ELSE Looked(a) \ {w}
         /\ Unnoted(a)' = IF wk'[w].pc \in {"auth_failed", "note"} /\ ip_of[wk'[w].conn] = a
                          THEN Unnoted(a) \cup {w} ELSE Unnoted(a) \ {w}
<1>1. Looked(a)' = {v \in Worker : wk'[v].pc = "verify" /\ ip_of[wk'[v].conn] = a}
  BY DEF Looked, peer
<1>2. Unnoted(a)' = {v \in Worker : wk'[v].pc \in {"auth_failed", "note"} /\ ip_of[wk'[v].conn] = a}
  BY DEF Unnoted, peer
<1>3. Looked(a) = {v \in Worker : wk[v].pc = "verify" /\ ip_of[wk[v].conn] = a}
  BY DEF Looked, peer
<1>4. Unnoted(a) = {v \in Worker : wk[v].pc \in {"auth_failed", "note"} /\ ip_of[wk[v].conn] = a}
  BY DEF Unnoted, peer
<1>5. QED
  BY <1>1, <1>2, <1>3, <1>4

\* The numbers in the two sets, before and after.
Lookers(a) == Cardinality(Looked(a))
Noters(a) == Cardinality(Unnoted(a))

\* A step that neither guesses nor notes, after which no more workers can guess
\* and no fewer have to note: the rest of the invariant is as before.
LEMMA LimitsKept ==
  ASSUME LimitInv, WkShape', UNCHANGED <<ip_stats, guesses, now>>,
         \A a \in Address :
           Lookers(a)' \in Nat /\ Noters(a)' \in Nat /\ Lookers(a)' <= Lookers(a) /\ Noters(a) <= Noters(a)'
  PROVE  LimitInv'
<1>1. LimitTypes'
  BY DEF LimitInv, LimitTypes, WkShape, LoginPcs
<1>2. InOrder' /\ GuessesBounded'
  BY DEF LimitInv, InOrder, GuessesBounded, MostGuesses
<1>3. ASSUME NEW a \in Address, NEW t \in 1 .. now, now < t + kIpBlockSeconds PROVE CountedSince(a, t)'
  <2>1. CountedSince(a, t)
    BY <1>3 DEF LimitInv, Counted
  <2>2. guesses[a] \in Seq(Nat) /\ (\A i, j \in DOMAIN guesses[a] : i <= j => guesses[a][i] <= guesses[a][j])
        /\ ip_stats[a] \in IpStat
    BY DEF LimitInv, LimitTypes, InOrder, IpStat
  <2>3. PICK l, u \in Nat : l = Lookers(a) /\ u = Noters(a) /\ l + u <= Cardinality(Worker)
    BY WorkersApart DEF Lookers, Noters
  <2>4. PICK k, v \in Nat : k = Lookers(a)' /\ v = Noters(a)' /\ k <= l /\ u <= v
    BY <2>3
  <2>5. Since(guesses[a], t, l, u, ip_stats[a])
    BY <2>1, <2>3, CountedIsSince DEF Lookers, Noters
  <2>6. l <= Cardinality(Worker) /\ t \in Nat
    <3>1. PICK n \in Nat : n = Cardinality(Worker)
      BY LimitConstants
    <3>2. l <= n
      BY <2>3, <3>1
    <3>3. now \in Nat
      BY DEF LimitInv, LimitTypes
    <3>4. t \in Nat
      BY <3>3
    <3>5. QED
      BY <3>1, <3>2, <3>4
  <2>7. Since(guesses[a], t, k, v, ip_stats[a])
    <3>1. PICK q \in Seq(Nat), stat \in IpStat :
            /\ q = guesses[a] /\ stat = ip_stats[a]
            /\ \A i, j \in DOMAIN q : i <= j => q[i] <= q[j]
      BY <2>2
    <3>2. k <= l /\ u <= v /\ Since(q, t, l, u, stat)
      BY <2>4, <2>5, <3>1
    <3>3. Since(q, t, k, v, stat)
      BY <2>6, <3>1, <3>2, SinceKept
    <3>4. QED
      BY <3>1, <3>3
  <2>8. QED
    BY <2>4, <2>7 DEF CountedSince, Since, Lookers, Noters, MostGuesses
<1>4. Counted'
  BY <1>3 DEF Counted
<1>5. QED
  BY <1>1, <1>2, <1>4 DEF LimitInv

\* A worker moves from outside a login to outside a login.
LEMMA PassBy ==
  ASSUME LimitInv, NEW w \in Worker, wk[w].pc \notin LoginPcs,
         WkShape', wk'[w].pc \notin LoginPcs, \A v \in Worker \ {w} : wk'[v] = wk[v],
         UNCHANGED <<ip_stats, guesses, now>>
  PROVE  LimitInv'
<1>1. ASSUME NEW a \in Address PROVE Looked(a)' = Looked(a) /\ Unnoted(a)' = Unnoted(a)
  <2>1. w \notin Looked(a) /\ w \notin Unnoted(a)
    BY DEF Looked, Unnoted, LoginPcs
  <2>2. QED
    BY <2>1, SetsMove DEF LoginPcs
<1>2. ASSUME NEW a \in Address
      PROVE  Lookers(a)' \in Nat /\ Noters(a)' \in Nat /\ Lookers(a)' <= Lookers(a) /\ Noters(a) <= Noters(a)'
  BY <1>1, WorkersApart DEF Lookers, Noters
<1>3. QED
  BY <1>2, LimitsKept

\* No worker moves.
LEMMA StandStill == ASSUME LimitInv, UNCHANGED <<wk, ip_stats, guesses, now>> PROVE LimitInv'
<1>1. WkShape'
  BY ShapeOfTypes DEF LimitInv, WkShape
<1>2. ASSUME NEW a \in Address
      PROVE  Lookers(a)' \in Nat /\ Noters(a)' \in Nat /\ Lookers(a)' <= Lookers(a) /\ Noters(a) <= Noters(a)'
  <2>1. Looked(a)' = Looked(a) /\ Unnoted(a)' = Unnoted(a)
    BY DEF Looked, Unnoted, peer
  <2>2. QED
    BY <2>1, WorkersApart DEF Lookers, Noters
<1>3. QED
  BY <1>1, <1>2, LimitsKept

\* AUTH is begun: an address that is not blocked has one more worker to guess,
\* a blocked one one more failure to note.
LEMMA LookStep ==
  ASSUME LimitInv, NEW w \in Worker, check_peer_not_blocked(w)
  PROVE  LimitInv'
<1>1. PICK c \in Conn, r \in Requests :
        /\ wk[w].pc = "idle" /\ hold(w, c, r, IF Blocked(ip_of[c]) THEN "auth_failed" ELSE "verify")
  BY DEF check_peer_not_blocked, Takes
<1>2. PICK p : p = IF Blocked(ip_of[c]) THEN "auth_failed" ELSE "verify"
  OBVIOUS
<1>3. /\ WkShape' /\ wk'[w].pc = p /\ wk'[w].conn = c
      /\ \A v \in Worker \ {w} : wk'[v] = wk[v]
  BY <1>1, <1>2, ShapeOfTypes, HoldMoves DEF LimitInv
<1>4. UNCHANGED <<ip_stats, guesses, now>>
  BY <1>1 DEF hold
<1>5. ip_of[c] \in Address
  BY AccessAssumption
<1>6. ASSUME NEW a \in Address PROVE w \notin Looked(a) /\ w \notin Unnoted(a)
  BY <1>1 DEF Looked, Unnoted
<1>7. CASE Blocked(ip_of[c])
  <2>1. ASSUME NEW a \in Address
        PROVE  Lookers(a)' \in Nat /\ Noters(a)' \in Nat /\ Lookers(a)' <= Lookers(a) /\ Noters(a) <= Noters(a)'
    <3>1. wk'[w].pc = "auth_failed"
      BY <1>2, <1>3, <1>7
    <3>2. Looked(a)' = Looked(a) \ {w} /\ Unnoted(a)' \in {Unnoted(a) \cup {w}, Unnoted(a) \ {w}}
      BY <1>3, <3>1, SetsMove
    <3>3. Looked(a)' = Looked(a) /\ Unnoted(a)' \in {Unnoted(a) \cup {w}, Unnoted(a)}
      BY <1>6, <3>2
    <3>4. Lookers(a)' = Lookers(a) /\ Noters(a)' \in {Noters(a), Noters(a) + 1}
      BY <1>6, <3>3, WorkersApart, OneMore DEF Lookers, Noters
    <3>5. Lookers(a) \in Nat /\ Noters(a) \in Nat
      BY WorkersApart DEF Lookers, Noters
    <3>6. QED
      BY <3>4, <3>5
  <2>2. QED
    BY <1>3, <1>4, <2>1, LimitsKept
<1>8. CASE ~ Blocked(ip_of[c])
  <2>1. LimitTypes' /\ InOrder' /\ GuessesBounded'
    BY <1>3, <1>4 DEF LimitInv, LimitTypes, WkShape, LoginPcs, InOrder, GuessesBounded, MostGuesses
  <2>2. ASSUME NEW a \in Address, NEW t \in 1 .. now, now < t + kIpBlockSeconds PROVE CountedSince(a, t)'
    <3>1. PICK l, u \in Nat, stat \in IpStat :
            /\ l = Lookers(a) /\ u = Noters(a) /\ stat = ip_stats[a]
            /\ Since(guesses[a], t, l, u, stat)
      BY <2>2, WorkersApart, CountedIsSince DEF LimitInv, Counted, LimitTypes, IpStat, Lookers, Noters
    <3>2. PICK k : k = Lookers(a)'
      OBVIOUS
    <3>3. Unnoted(a)' = Unnoted(a)
      BY <1>2, <1>3, <1>6, <1>8, SetsMove
    <3>4. Noters(a)' = u
      BY <3>1, <3>3 DEF Noters
    <3>5. CASE ip_of[c] = a
      <4>1. now \in Nat /\ t \in Nat
        <5>1. now \in Nat
          BY DEF LimitInv, LimitTypes
        <5>2. QED
          BY <5>1
      <4>2. ~ stat.blocked_until > now
        BY <1>8, <3>1, <3>5 DEF Blocked
      <4>3. Since(guesses[a], t, k, u, stat)
        BY <2>2, <3>1, <4>1, <4>2, SinceLook
      <4>4. QED
        BY <1>4, <3>1, <3>2, <3>4, <4>3 DEF CountedSince, Since, Lookers, Noters, MostGuesses
    <3>6. CASE ip_of[c] # a
      <4>1. Looked(a)' = Looked(a) \ {w}
        BY <1>3, <3>6, SetsMove
      <4>2. k = l
        <5>1. Looked(a)' = Looked(a)
          BY <1>6, <4>1
        <5>2. QED
          BY <3>1, <3>2, <5>1 DEF Lookers
      <4>3. QED
        BY <1>4, <3>1, <3>2, <3>4, <4>2 DEF CountedSince, Since, Lookers, Noters, MostGuesses
    <3>7. QED
      BY <3>5, <3>6
  <2>3. Counted'
    BY <1>4, <2>2 DEF Counted
  <2>4. QED
    BY <2>1, <2>3 DEF LimitInv
<1>9. QED
  BY <1>7, <1>8

\* Whoever guesses now has looked before: it is one of the guesses counted
\* since any time a block ago.
LEMMA GuessStep ==
  ASSUME LimitInv, NEW w \in Worker, wk[w].pc = "verify", goto(w, "auth_failed"),
         guesses' = [guesses EXCEPT ![peer(w)] = Append(@, now)], UNCHANGED <<ip_stats, now>>
  PROVE  LimitInv'
<1>1. /\ WkShape' /\ wk'[w].pc = "auth_failed" /\ wk'[w].conn = wk[w].conn
      /\ \A v \in Worker \ {w} : wk'[v] = wk[v]
  BY ShapeOfTypes, GotoMoves DEF LimitInv, LoginPcs
<1>2. PICK b \in Address : b = peer(w)
  BY AccessAssumption DEF LimitInv, LimitTypes, peer
<1>3. now \in Nat \ {0} /\ guesses \in [Address -> Seq(Nat)]
  BY DEF LimitInv, LimitTypes
<1>4. guesses' \in [Address -> Seq(Nat)] /\ guesses'[b] = Append(guesses[b], now)
      /\ \A a \in Address \ {b} : guesses'[a] = guesses[a]
  BY <1>2, <1>3
<1>5. LimitTypes'
  BY <1>1, <1>4 DEF LimitInv, LimitTypes, WkShape, LoginPcs
<1>6. PICK q \in Seq(Nat), m \in Nat :
        /\ q = guesses[b] /\ m = Len(q) /\ DOMAIN q = 1 .. m
        /\ \A i \in 1 .. m : q[i] \in Nat /\ q[i] \in 1 .. now
        /\ \A i, j \in 1 .. m : i <= j => q[i] <= q[j]
  <2>1. guesses[b] \in Seq(Nat)
    BY <1>3
  <2>2. /\ Len(guesses[b]) \in Nat /\ DOMAIN guesses[b] = 1 .. Len(guesses[b])
        /\ \A i \in 1 .. Len(guesses[b]) : guesses[b][i] \in Nat
    BY <2>1, LenProperties, ElementOfSeq
  <2>3. QED
    BY <2>1, <2>2 DEF LimitInv, InOrder
<1>7. PICK s \in Seq(Nat) :
        /\ s = guesses'[b] /\ s = Append(q, now) /\ Len(s) = m + 1 /\ DOMAIN s = 1 .. m + 1 /\ s[m + 1] = now
        /\ \A i \in 1 .. m : s[i] = q[i]
  <2>1. PICK s \in Seq(Nat) : s = Append(q, now) /\ s = guesses'[b]
    BY <1>3, <1>4, <1>6
  <2>2. Len(s) = m + 1 /\ s[m + 1] = now /\ \A i \in 1 .. m : s[i] = q[i]
    <3>1. PICK x \in Nat : x = now
      BY <1>3
    <3>2. Len(Append(q, x)) = Len(q) + 1 /\ Append(q, x)[Len(q) + 1] = x
          /\ \A i \in 1 .. Len(q) : Append(q, x)[i] = q[i]
      BY AppendProperties
    <3>3. QED
      BY <1>6, <2>1, <3>1, <3>2
  <2>3. DOMAIN s = 1 .. m + 1
    BY <2>1, <2>2, LenProperties
  <2>4. QED
    BY <2>1, <2>2, <2>3
<1>8. \A i \in 1 .. m + 1 : s[i] \in Nat /\ s[i] \in 1 .. now
  BY <1>3, <1>6, <1>7
<1>9. \A i, j \in 1 .. m + 1 : i <= j => s[i] <= s[j]
  <2>1. ASSUME NEW i \in 1 .. m + 1, NEW j \in 1 .. m + 1, i <= j PROVE s[i] <= s[j]
    <3>1. CASE j = m + 1
      BY <1>7, <1>8, <3>1
    <3>2. CASE j # m + 1
      <4>1. i \in 1 .. m /\ j \in 1 .. m
        BY <2>1, <3>2
      <4>2. QED
        BY <1>6, <1>7, <2>1, <4>1
    <3>3. QED
      BY <3>1, <3>2
  <2>2. QED
    BY <2>1
<1>10. InOrder'
  <2>1. ASSUME NEW a \in Address
        PROVE  /\ ip_stats'[a].window_start <= now'
               /\ \A i, j \in DOMAIN guesses'[a] : i <= j => guesses'[a][i] <= guesses'[a][j]
               /\ \A i \in DOMAIN guesses'[a] : guesses'[a][i] \in 1 .. now'
    BY <1>4, <1>7, <1>8, <1>9 DEF LimitInv, InOrder
  <2>2. QED
    BY <2>1 DEF InOrder
<1>11. ASSUME NEW t \in 1 .. now, now < t + kIpBlockSeconds
       PROVE  CountedSince(b, t)' /\ AtMost(s, t, MostGuesses)
  <2>1. PICK l, u \in Nat, stat \in IpStat :
          /\ l = Lookers(b) /\ u = Noters(b) /\ stat = ip_stats[b] /\ l + u <= Cardinality(Worker)
          /\ Since(guesses[b], t, l, u, stat)
    BY <1>11, WorkersApart, CountedIsSince DEF LimitInv, Counted, LimitTypes, IpStat, Lookers, Noters
  <2>2. w \in Looked(b) /\ w \notin Unnoted(b)
    BY <1>2 DEF Looked, Unnoted
  <2>3. Looked(b)' = Looked(b) \ {w} /\ Unnoted(b)' = Unnoted(b) \cup {w}
    BY <1>1, <1>2, SetsMove DEF peer
  <2>4. Lookers(b)' = l - 1 /\ Noters(b)' = u + 1
    BY <2>1, <2>2, <2>3, WorkersApart, OneMore, OneLess DEF Lookers, Noters
  <2>5. l # 0
    BY <2>1, <2>2, WorkersApart, FS_EmptySet DEF Lookers
  <2>6. l \in Nat \ {0} /\ l <= Cardinality(Worker) /\ t \in Nat
        /\ l - 1 \in Nat /\ u + 1 \in Nat /\ (l - 1) + (u + 1) <= Cardinality(Worker)
    <3>1. PICK n \in Nat : n = Cardinality(Worker)
      BY LimitConstants
    <3>2. l + u <= n
      BY <2>1, <3>1
    <3>3. l <= n /\ l - 1 \in Nat /\ u + 1 \in Nat /\ (l - 1) + (u + 1) <= n
      BY <2>5, <3>2
    <3>4. t \in Nat
      BY <1>3
    <3>5. QED
      BY <2>5, <3>1, <3>3, <3>4
  <2>7. Since(q, t, l, u, stat)
    BY <1>6, <2>1
  <2>8. Since(s, t, l - 1, u + 1, stat)
    <3>1. Since(Append(q, now), t, l - 1, u + 1, stat)
      BY <1>3, <2>6, <2>7, SinceGuess
    <3>2. QED
      BY <1>7, <3>1
  <2>9. AtMost(s, t, MostGuesses)
    <3>1. \A i, j \in DOMAIN s : i <= j => s[i] <= s[j]
      BY <1>7, <1>9
    <3>2. QED
      BY <2>6, <2>8, <3>1, SinceBounded
  <2>10. s = guesses'[b] /\ stat = ip_stats'[b]
    BY <1>7, <2>1
  <2>11. QED
    BY <2>4, <2>8, <2>9, <2>10 DEF CountedSince, Since, Lookers, Noters, MostGuesses
<1>12. ASSUME NEW a \in Address \ {b}, NEW t \in 1 .. now, now < t + kIpBlockSeconds PROVE CountedSince(a, t)'
  <2>1. CountedSince(a, t)
    BY <1>12 DEF LimitInv, Counted
  <2>2. w \notin Looked(a) /\ w \notin Unnoted(a)
    BY <1>2, <1>12 DEF Looked, Unnoted
  <2>3. Looked(a)' = Looked(a) /\ Unnoted(a)' = Unnoted(a)
    <3>1. ip_of[wk'[w].conn] # a
      BY <1>1, <1>2, <1>12 DEF peer
    <3>2. Looked(a)' = Looked(a) \ {w} /\ Unnoted(a)' = Unnoted(a) \ {w}
      BY <1>1, <3>1, SetsMove
    <3>3. QED
      BY <2>2, <3>2
  <2>4. guesses'[a] = guesses[a]
    BY <1>4
  <2>5. QED
    BY <2>1, <2>3, <2>4 DEF CountedSince, MostGuesses
<1>13. Counted'
  <2>1. ASSUME NEW a \in Address, NEW t \in 1 .. now, now < t + kIpBlockSeconds PROVE CountedSince(a, t)'
    BY <1>11, <1>12, <2>1
  <2>2. QED
    BY <2>1 DEF Counted
<1>14. GuessesBounded'
  <2>1. PICK N \in Nat : N = MostGuesses
    BY LimitConstants
  <2>2. ASSUME NEW i \in 1 .. m + 1, i + N \in 1 .. m + 1
        PROVE  s[i + N] - s[i] >= kIpBlockSeconds
    <3>1. CASE i + N # m + 1
      <4>1. i \in 1 .. m /\ i + N \in 1 .. m
        BY <2>1, <2>2, <3>1
      <4>2. q[i + N] - q[i] >= kIpBlockSeconds
        BY <1>6, <2>1, <4>1 DEF LimitInv, GuessesBounded
      <4>3. QED
        BY <1>7, <4>1, <4>2
    <3>2. CASE i + N = m + 1
      <4>1. PICK t \in 1 .. now : t = s[i]
        BY <1>8
      <4>2. SUFFICES ASSUME now < t + kIpBlockSeconds PROVE FALSE
        <5>1. s[i + N] = now
          BY <1>7, <3>2
        <5>2. now - t >= kIpBlockSeconds \/ now < t + kIpBlockSeconds
          BY <1>3, LimitConstants
        <5>3. QED
          BY <4>1, <5>1, <5>2
      <4>3. AtMost(s, t, N)
        BY <1>11, <2>1, <4>2
      <4>4. Len(s) - N = i /\ ~ Len(s) <= N
        BY <1>6, <1>7, <2>2, <3>2
      <4>5. s[i] < t
        BY <4>3, <4>4 DEF AtMost
      <4>6. QED
        BY <1>3, <4>1, <4>5
    <3>3. QED
      BY <3>1, <3>2
  <2>3. ASSUME NEW a \in Address, NEW i \in DOMAIN guesses'[a], i + N \in DOMAIN guesses'[a]
        PROVE  guesses'[a][i + N] - guesses'[a][i] >= kIpBlockSeconds
    <3>1. CASE a = b
      BY <1>7, <2>2, <2>3, <3>1
    <3>2. CASE a # b
      BY <1>4, <2>1, <2>3, <3>2 DEF LimitInv, GuessesBounded
    <3>3. QED
      BY <3>1, <3>2
  <2>4. QED
    BY <2>1, <2>3 DEF GuessesBounded, MostGuesses
<1>15. QED
  BY <1>5, <1>10, <1>13, <1>14 DEF LimitInv

\* A failure that is noted is counted from then on, or blocks the address for
\* longer than it matters.
LEMMA NoteStep ==
  ASSUME LimitInv, kIpBlockSeconds <= kIpFailureWindowSeconds + 1, NEW w \in Worker, note_auth_failure(w)
  PROVE  LimitInv'
<1>1. /\ wk[w].pc = "note" /\ ip_stats' = [ip_stats EXCEPT ![peer(w)] = Noted(@)] /\ answer(w)
      /\ UNCHANGED <<guesses, now>>
  BY DEF note_auth_failure
<1>2. WkShape' /\ wk'[w].pc = "idle" /\ \A v \in Worker \ {w} : wk'[v] = wk[v]
  BY <1>1, ShapeOfTypes, AnswerMoves DEF LimitInv
<1>3. PICK b \in Address : b = peer(w)
  BY <1>1, AccessAssumption DEF LimitInv, LimitTypes, peer
<1>4. now \in Nat \ {0} /\ ip_stats \in [Address -> IpStat] /\ \A a \in Address : ip_stats[a].window_start <= now
  BY DEF LimitInv, LimitTypes, InOrder, IpStat
<1>5. PICK old \in IpStat, new \in IpStat :
        /\ old = ip_stats[b] /\ new = Noted(old) /\ new.window_start <= now
  BY <1>4, NotedType
<1>6. ip_stats' \in [Address -> IpStat] /\ ip_stats'[b] = new /\ \A a \in Address \ {b} : ip_stats'[a] = ip_stats[a]
  BY <1>1, <1>3, <1>4, <1>5
<1>7. LimitTypes'
  BY <1>1, <1>2, <1>6 DEF LimitInv, LimitTypes, WkShape, LoginPcs, IpStat
<1>8. InOrder'
  BY <1>1, <1>5, <1>6 DEF LimitInv, InOrder
<1>9. GuessesBounded'
  BY <1>1 DEF LimitInv, GuessesBounded, MostGuesses
<1>10. ASSUME NEW t \in 1 .. now, now < t + kIpBlockSeconds PROVE CountedSince(b, t)'
  <2>1. PICK l, u \in Nat :
          /\ l = Lookers(b) /\ u = Noters(b) /\ l + u <= Cardinality(Worker)
          /\ Since(guesses[b], t, l, u, old)
    BY <1>5, <1>10, WorkersApart, CountedIsSince DEF LimitInv, Counted, Lookers, Noters
  <2>2. w \notin Looked(b) /\ w \in Unnoted(b)
    BY <1>1, <1>3 DEF Looked, Unnoted
  <2>3. Looked(b)' = Looked(b) \ {w} /\ Unnoted(b)' = Unnoted(b) \ {w}
    BY <1>2, SetsMove
  <2>4. Lookers(b)' = l /\ Noters(b)' = u - 1
    <3>1. Looked(b)' = Looked(b)
      BY <2>2, <2>3
    <3>2. QED
      BY <2>1, <2>2, <2>3, <3>1, WorkersApart, OneLess DEF Lookers, Noters
  <2>5. u # 0
    BY <2>1, <2>2, WorkersApart, FS_EmptySet DEF Noters
  <2>6. PICK q \in Seq(Nat) : q = guesses[b] /\ \A i, j \in DOMAIN q : i <= j => q[i] <= q[j]
    BY DEF LimitInv, LimitTypes, InOrder
  <2>7. t \in Nat \ {0} /\ t <= now /\ now \in Nat
    BY <1>4
  <2>8. Since(q, t, l, u - 1, new)
    BY <1>5, <1>10, <2>1, <2>5, <2>6, <2>7, SinceNoted
  <2>9. guesses'[b] = q
    BY <1>1, <2>6
  <2>10. QED
    BY <1>6, <2>4, <2>8, <2>9 DEF CountedSince, Since, Lookers, Noters, MostGuesses
<1>11. ASSUME NEW a \in Address \ {b}, NEW t \in 1 .. now, now < t + kIpBlockSeconds PROVE CountedSince(a, t)'
  <2>1. CountedSince(a, t)
    BY <1>11 DEF LimitInv, Counted
  <2>2. w \notin Looked(a) /\ w \notin Unnoted(a)
    BY <1>3, <1>11 DEF Looked, Unnoted
  <2>3. Looked(a)' = Looked(a) \ {w} /\ Unnoted(a)' = Unnoted(a) \ {w}
    BY <1>2, SetsMove
  <2>4. Looked(a)' = Looked(a) /\ Unnoted(a)' = Unnoted(a)
    BY <2>2, <2>3
  <2>5. QED
    BY <1>1, <1>6, <2>1, <2>4 DEF CountedSince, MostGuesses
<1>12. Counted'
  <2>1. ASSUME NEW a \in Address, NEW t \in 1 .. now, now < t + kIpBlockSeconds PROVE CountedSince(a, t)'
    BY <1>10, <1>11, <2>1
  <2>2. QED
    BY <1>1, <2>1 DEF Counted
<1>13. QED
  BY <1>7, <1>8, <1>9, <1>12 DEF LimitInv

\* Time passes: nothing was guessed since the time that begins.
LEMMA ClockStep == ASSUME LimitInv, Tick PROVE LimitInv'
<1>1. now' = now + 1 /\ UNCHANGED <<wk, ip_stats, guesses>>
  BY DEF Tick, history
<1>2. PICK n \in Nat \ {0} : n = now
  BY DEF LimitInv, LimitTypes
<1>3. LimitTypes'
  BY <1>1, <1>2 DEF LimitInv, LimitTypes, WorkerRecord
<1>4. InOrder'
  <2>1. ASSUME NEW a \in Address
        PROVE  /\ ip_stats[a].window_start <= n + 1
               /\ \A i \in DOMAIN guesses[a] : guesses[a][i] \in 1 .. n + 1
    <3>1. ip_stats[a].window_start \in Nat /\ ip_stats[a].window_start <= n
      BY <1>2 DEF LimitInv, LimitTypes, InOrder
    <3>2. \A i \in DOMAIN guesses[a] : guesses[a][i] \in 1 .. n
      BY <1>2 DEF LimitInv, InOrder
    <3>3. QED
      BY <3>1, <3>2
  <2>2. QED
    BY <1>1, <1>2, <2>1 DEF LimitInv, InOrder
<1>5. GuessesBounded'
  BY <1>1 DEF LimitInv, GuessesBounded, MostGuesses
<1>6. ASSUME NEW a \in Address
      PROVE  Looked(a)' = Looked(a) /\ Unnoted(a)' = Unnoted(a)
  BY <1>1 DEF Looked, Unnoted, peer
<1>7. ASSUME NEW a \in Address, NEW t \in 1 .. n + 1, n + 1 < t + kIpBlockSeconds PROVE CountedSince(a, t)
  <2>1. CASE t \in 1 .. n
    <3>1. n < t + kIpBlockSeconds
      BY <1>7, LimitConstants
    <3>2. QED
      BY <1>2, <2>1, <3>1 DEF LimitInv, Counted
  <2>2. CASE t = n + 1
    <3>1. PICK q \in Seq(Nat) : q = guesses[a] /\ \A i \in DOMAIN q : q[i] \in 1 .. n
      BY <1>2 DEF LimitInv, LimitTypes, InOrder
    <3>2. \A i \in DOMAIN q : q[i] < t
      BY <2>2, <3>1
    <3>3. PICK u \in Nat, f \in Nat, y \in Nat :
            /\ u = Noters(a) /\ f = ip_stats[a].failures
            /\ y = IF ip_stats[a].window_start >= t THEN kIpFailureThreshold - 1 ELSE 0
      <4>1. Noters(a) \in Nat
        BY WorkersApart DEF Noters
      <4>2. ip_stats[a].failures \in Nat
        BY LimitConstants DEF LimitInv, LimitTypes
      <4>3. (IF ip_stats[a].window_start >= t THEN kIpFailureThreshold - 1 ELSE 0) \in Nat
        BY LimitConstants
      <4>4. QED
        BY <4>1, <4>2, <4>3
    <3>4. AtMost(q, t, u + f + y)
      BY <3>2, AtMostNone
    <3>5. QED
      BY <3>1, <3>3, <3>4 DEF CountedSince, Noters
  <2>3. QED
    BY <1>2, <2>1, <2>2
<1>8. Counted'
  <2>1. ASSUME NEW a \in Address, NEW t \in 1 .. n + 1, n + 1 < t + kIpBlockSeconds PROVE CountedSince(a, t)'
    <3>1. CountedSince(a, t)
      BY <1>7, <2>1
    <3>2. QED
      BY <1>1, <1>6, <3>1 DEF CountedSince, MostGuesses
  <2>2. QED
    BY <1>1, <1>2, <2>1 DEF Counted
<1>9. QED
  BY <1>3, <1>4, <1>5, <1>8 DEF LimitInv

\* A token is verified; a right one leaves one worker less to guess.
LEMMA TokenStep == ASSUME LimitInv, NEW w \in Worker, verify(w) PROVE LimitInv'
<1>1. wk[w].pc = "verify" /\ UNCHANGED <<ip_stats, now>>
  BY DEF verify
<1>2. CASE ~ Valid(req(w).n)
  BY <1>1, <1>2, GuessStep DEF verify
<1>3. CASE Valid(req(w).n)
  <2>1. PICK y : y = wk[w] /\ WorkerRecord(y)
    BY ShapeOfTypes DEF LimitInv, WkShape
  <2>2. PICK k : wk' = [wk EXCEPT ![w].pc = "set_username", ![w].ok = k]
    BY <1>3 DEF verify
  <2>3. PICK x : x = [y EXCEPT !.pc = "set_username", !.ok = k]
    OBVIOUS
  <2>4. x.pc = "set_username" /\ WorkerRecord(x)
    BY <2>1, <2>3 DEF WorkerRecord
  <2>5. wk' = [wk EXCEPT ![w] = x]
    BY <2>1, <2>2, <2>3, ShapeOfTypes DEF LimitInv, WkShape
  <2>6. WkShape' /\ wk'[w].pc = "set_username" /\ \A v \in Worker \ {w} : wk'[v] = wk[v]
    BY <2>4, <2>5, ShapeOfTypes, ShapeMoves DEF LimitInv, LoginPcs
  <2>7. ASSUME NEW a \in Address
        PROVE  Lookers(a)' \in Nat /\ Noters(a)' \in Nat /\ Lookers(a)' <= Lookers(a) /\ Noters(a) <= Noters(a)'
    <3>1. Looked(a)' = Looked(a) \ {w} /\ Unnoted(a)' = Unnoted(a) \ {w}
      BY <2>6, SetsMove
    <3>2. Unnoted(a)' = Unnoted(a)
      BY <1>1, <3>1 DEF Unnoted
    <3>3. Lookers(a)' \in Nat /\ Lookers(a)' <= Lookers(a)
      BY <3>1, WorkersApart, FS_Subset, FS_CardinalityType DEF Lookers
    <3>4. QED
      BY <3>2, <3>3, WorkersApart DEF Noters
  <2>8. guesses' = guesses
    BY <1>3 DEF verify
  <2>9. QED
    BY <1>1, <2>6, <2>7, <2>8, LimitsKept
<1>4. QED
  BY <1>2, <1>3

\* A failed AUTH goes on to its note.
LEMMA GoOnStep == ASSUME LimitInv, NEW w \in Worker, auth_failed(w) PROVE LimitInv'
<1>1. wk[w].pc = "auth_failed" /\ goto(w, "note") /\ UNCHANGED <<ip_stats, guesses, now>>
  BY DEF auth_failed, assign, history
<1>2. /\ WkShape' /\ wk'[w].pc = "note" /\ wk'[w].conn = wk[w].conn
      /\ \A v \in Worker \ {w} : wk'[v] = wk[v]
  BY <1>1, ShapeOfTypes, GotoMoves DEF LimitInv, LoginPcs
<1>3. ASSUME NEW a \in Address PROVE Looked(a)' = Looked(a) /\ Unnoted(a)' = Unnoted(a)
  <2>1. Looked(a)' = Looked(a) \ {w} /\ w \notin Looked(a)
    BY <1>1, <1>2, SetsMove DEF Looked
  <2>2. w \in Unnoted(a) <=> ip_of[wk[w].conn] = a
    BY <1>1 DEF Unnoted, peer
  <2>3. Unnoted(a)' = IF ip_of[wk[w].conn] = a THEN Unnoted(a) \cup {w} ELSE Unnoted(a) \ {w}
    BY <1>2, SetsMove
  <2>4. QED
    BY <2>1, <2>2, <2>3
<1>4. ASSUME NEW a \in Address
      PROVE  Lookers(a)' \in Nat /\ Noters(a)' \in Nat /\ Lookers(a)' <= Lookers(a) /\ Noters(a) <= Noters(a)'
  BY <1>3, WorkersApart DEF Lookers, Noters
<1>5. QED
  BY <1>1, <1>2, <1>4, LimitsKept

\* Any other step of a worker.
LEMMA ElseStep ==
  ASSUME LimitInv, NEW w \in Worker, Step(w),
         ~ check_peer_not_blocked(w), ~ verify(w), ~ auth_failed(w), ~ note_auth_failure(w)
  PROVE  LimitInv'
<1>1. CASE hello(w)
  BY <1>1, StandStill DEF hello
<1>2. CASE ~ hello(w)
  <2>1. UNCHANGED <<ip_stats, guesses, now>>
    BY <1>2 DEF Step, set_username, set_role, assign, dispatch_business, hold, create_upload, put_check, put_act,
                commit_upload, abort_upload, session_abort, delete_check, delete_act, run_gc, user_add,
                user_disable, token_create, token_revoke, Changed, AuditWrite, refuse, proceed, Other
  <2>2. /\ wk[w].pc \in {"idle", "set_username", "set_role", "check", "act", "audit"}
        /\ \/ answer(w)
           \/ \E p \in {"set_role", "act", "audit"} : goto(w, p)
           \/ \E c \in Conn, r \in Requests, p \in {"check", "act"} : hold(w, c, r, p)
    <3>1. CASE dispatch_business(w)
      <4>1. PICK c \in Conn, r \in Requests :
              wk[w].pc = "idle" /\ hold(w, c, r, IF r.op \in {"PUT_CHUNK", "DELETE_ARTIFACT"} THEN "check" ELSE "act")
        BY <3>1 DEF dispatch_business, Takes
      <4>2. \E p \in {"check", "act"} : hold(w, c, r, p)
        BY <4>1
      <4>3. QED
        BY <4>1, <4>2
    <3>2. CASE set_username(w) \/ set_role(w)
      BY <3>2 DEF set_username, set_role, assign
    <3>3. CASE create_upload(w) \/ put_check(w) \/ put_act(w) \/ commit_upload(w) \/ abort_upload(w)
               \/ session_abort(w) \/ delete_check(w) \/ delete_act(w) \/ run_gc(w)
      BY <3>3 DEF create_upload, put_check, put_act, commit_upload, abort_upload, session_abort,
                  delete_check, delete_act, run_gc, refuse, proceed, At
    <3>4. CASE user_add(w) \/ user_disable(w) \/ token_create(w) \/ token_revoke(w) \/ AuditWrite(w)
      BY <3>4 DEF user_add, user_disable, token_create, token_revoke, Changed, AuditWrite, refuse, At
    <3>5. QED
      BY <1>2, <3>1, <3>2, <3>3, <3>4 DEF Step
  <2>3. wk[w].pc \notin LoginPcs
    BY <2>2 DEF LoginPcs
  <2>4. WkShape' /\ wk'[w].pc \notin LoginPcs /\ \A v \in Worker \ {w} : wk'[v] = wk[v]
    <3>1. WkShape
      BY ShapeOfTypes DEF LimitInv
    <3>2. CASE answer(w)
      BY <3>1, <3>2, AnswerMoves DEF LoginPcs
    <3>3. ASSUME NEW p \in {"set_role", "act", "audit"}, goto(w, p)
          PROVE  WkShape' /\ wk'[w].pc \notin LoginPcs /\ \A v \in Worker \ {w} : wk'[v] = wk[v]
      <4>1. p \notin LoginPcs
        BY DEF LoginPcs
      <4>2. QED
        BY <3>1, <3>3, <4>1, GotoMoves
    <3>4. ASSUME NEW c \in Conn, NEW r \in Requests, NEW p \in {"check", "act"}, hold(w, c, r, p)
          PROVE  WkShape' /\ wk'[w].pc \notin LoginPcs /\ \A v \in Worker \ {w} : wk'[v] = wk[v]
      <4>1. p \notin LoginPcs
        BY DEF LoginPcs
      <4>2. QED
        BY <3>1, <3>4, <4>1, HoldMoves
    <3>5. QED
      BY <2>2, <3>2, <3>3, <3>4
  <2>5. QED
    BY <2>1, <2>3, <2>4, PassBy
<1>3. QED
  BY <1>1, <1>2

LEMMA LimitInit == ASSUME Init PROVE LimitInv
<1>1. LimitTypes
  <2>1. now = 1 /\ ip_stats = [a \in Address |-> NoStat] /\ guesses = [a \in Address |-> <<>>]
        /\ wk = [w \in Worker |-> Idle]
    BY DEF Init
  <2>2. NoStat \in IpStat
    BY LimitConstants DEF NoStat, IpStat
  <2>3. \A w \in Worker : wk[w] = Idle
    BY <2>1
  <2>4. ip_stats \in [Address -> IpStat] /\ guesses \in [Address -> Seq(Nat)]
    BY <2>1, <2>2, EmptySeq
  <2>5. QED
    BY <2>1, <2>3, <2>4, IdleRecord DEF LimitTypes, IpStat
<1>2. \A a \in Address : guesses[a] = <<>> /\ ip_stats[a] = NoStat
  BY DEF Init
<1>3. \A i : i \notin DOMAIN <<>>
  OBVIOUS
<1>4. InOrder
  BY <1>2, <1>3 DEF Init, InOrder, NoStat
<1>5. GuessesBounded
  BY <1>2, <1>3 DEF GuessesBounded
<1>6. ASSUME NEW a \in Address, NEW t \in 1 .. now PROVE CountedSince(a, t)
  <2>1. now = 1 /\ t = 1 /\ ip_stats[a].failures = 0 /\ ip_stats[a].window_start = 0
    BY <1>2 DEF Init, NoStat
  <2>2. PICK u \in Nat : u = Cardinality(Unnoted(a))
    BY WorkersApart
  <2>3. AtMost(<<>>, t, u + 0 + 0)
    BY DEF AtMost
  <2>4. QED
    BY <1>2, <2>1, <2>2, <2>3 DEF CountedSince
<1>7. QED
  BY <1>1, <1>4, <1>5, <1>6 DEF LimitInv, Counted

LEMMA LimitNext ==
  ASSUME LimitInv, kIpBlockSeconds <= kIpFailureWindowSeconds + 1, [Next]_vars
  PROVE  LimitInv'
<1>1. ASSUME NEW c \in Conn, connect(c) \/ disconnect(c) PROVE LimitInv'
  BY <1>1, StandStill DEF connect, disconnect
<1>2. ASSUME NEW b \in Boot, Create_admin(b) PROVE LimitInv'
  BY <1>2, StandStill DEF Create_admin, has_no_users, boot_user_add, boot_token_create, boot_dies
<1>3. ASSUME NEW w \in Worker, Step(w) PROVE LimitInv'
  BY <1>3, LookStep, TokenStep, GoOnStep, NoteStep, ElseStep
<1>4. CASE UNCHANGED vars
  BY <1>4, StandStill DEF vars
<1>5. QED
  BY <1>1, <1>2, <1>3, <1>4, ClockStep DEF Next

\* However many workers verify tokens of one address at once, from however many
\* connections and with however many requests of each in flight: more than the
\* bound of wrong ones take longer than a block, which is no longer than a
\* window and one (in the code both are 60 seconds).
THEOREM GuessesLimited ==
  kIpBlockSeconds <= kIpFailureWindowSeconds + 1 => (Spec => []GuessesBounded)
<1>1. SUFFICES ASSUME kIpBlockSeconds <= kIpFailureWindowSeconds + 1 PROVE Spec => []GuessesBounded
  OBVIOUS
<1>2. Init => LimitInv
  BY LimitInit
<1>3. LimitInv /\ [Next]_vars => LimitInv'
  BY <1>1, LimitNext
<1>4. LimitInv => GuessesBounded
  BY DEF LimitInv
<1>5. QED
  BY <1>2, <1>3, <1>4, PTL DEF Spec
=============================================================================
