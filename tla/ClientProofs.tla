---------------------------- MODULE ClientProofs ----------------------------
(***************************************************************************)
(* Proofs about frctl and the client library, for every set of contents,   *)
(* every chunk and slice size and every number of commands: what an upload *)
(* and a download that end with 0 have done, and what is on the disk at    *)
(* every moment, although commands are cut off anywhere and requests of    *)
(* earlier commands are executed late.                                     *)
(***************************************************************************)
EXTENDS ClientInv, SequenceTheorems, TLAPS

USE DEF command, disk, server

-----------------------------------------------------------------------------
(* Types.                                                                  *)

LEMMA ConstFacts ==
  /\ Contents \subseteq Seq(Nat) /\ NoFile \notin Seq(Nat) /\ NoFile \notin Contents
  /\ ChunkSize \in Nat /\ ChunkSize > 0 /\ Slice \in Nat /\ Slice > 0
BY ClientAssumption

LEMMA FreshType == Fresh \in [size : Nat, digest : Seq(Nat), sid : Nat, sent : Nat, offset : Nat]
BY DEF Fresh
LEMMA NoStreamType ==
  NoStream \in [active : BOOLEAN, offset : Nat, remaining : Nat] /\ NoStream.active = FALSE
BY DEF NoStream
LEMMA NoRequestType == NoRequest \in Request
BY DEF NoRequest, Request, Kinds
LEMMA AnswerType ==
  /\ FAILED \in Answers /\ FAILED.kind = "ERROR"
  /\ \A n \in Nat : OK(n) \in Answers /\ OK(n).kind = "OK" /\ OK(n).n = n
  /\ \A d \in Seq(Nat) : /\ Answer("DATA", 0, d) \in Answers /\ Answer("DATA", 0, d).kind = "DATA"
                         /\ Answer("DATA", 0, d).data = d
BY DEF FAILED, OK, Answer, Answers

\* What the end of a command leaves alone.
LEMMA EndsType ==
  ASSUME Types, NEW code \in {"Ok", "Server", "Network", "LocalFile", "Usage", "Killed"}, Ends(code)
  PROVE  /\ pc' \in Labels /\ pc' = "idle" /\ exit' = code
         /\ exit' \in {"none", "Ok", "Server", "Network", "LocalFile", "Usage", "Killed"}
         /\ down' = <<>> /\ down' \in Seq(Answers)
         /\ stream' \in [active : BOOLEAN, offset : Nat, remaining : Nat] /\ stream'.active = FALSE
<1>1. <<>> \in Seq(Answers)
  OBVIOUS
<1>2. QED
  BY <1>1, NoStreamType DEF Ends, Labels, Local

LEMMA EndsOnlyType ==
  ASSUME Types, NEW code \in {"Ok", "Server", "Network", "LocalFile", "Usage", "Killed"}, EndsOnly(code)
  PROVE  Types'
BY EndsType DEF EndsOnly, Types

LEMMA SendType ==
  ASSUME Types, NEW r \in Request, NEW w \in Labels, Send(r, w)
  PROVE  Types'
<1>1. [conn |-> conn, req |-> r] \in [conn : Nat, req : Request]
  BY DEF Types
<1>2. QED
  BY <1>1 DEF Send, Types

LEMMA GoesType ==
  ASSUME Types, NEW next \in Labels, down # <<>>, Goes(next, loc'),
         loc' \in [size : Nat, digest : Seq(Nat), sid : Nat, sent : Nat, offset : Nat]
  PROVE  Types'
<1>1. down' \in Seq(Answers)
  BY DEF Goes, Types
<1>2. QED
  BY <1>1 DEF Goes, Types

LEMMA LocFacts ==
  ASSUME Types
  PROVE  /\ loc.size \in Nat /\ loc.digest \in Seq(Nat) /\ loc.sid \in Nat /\ loc.sent \in Nat
         /\ loc.offset \in Nat /\ file \in Seq(Nat) /\ Len(file) \in Nat
         /\ artifact # NoFile => artifact \in Contents /\ artifact \in Seq(Nat) /\ Len(artifact) \in Nat
         /\ part # NoFile => part \in Seq(Nat) /\ Len(part) \in Nat
<1>1. file \in Seq(Nat) /\ (artifact # NoFile => artifact \in Contents /\ artifact \in Seq(Nat))
  BY ConstFacts DEF Types
<1>2. QED
  BY <1>1, LenProperties DEF Types

LEMMA WantFacts ==
  ASSUME Types, loc.sent < loc.size
  PROVE  Want \in Nat /\ loc.sent + Want <= loc.size /\ loc.sent + Want \in Nat
BY LocFacts, ConstFacts DEF Want

\* The requests of the client have the types of requests.
LEMMA RequestTypes ==
  /\ \A k \in Kinds : Plain(k) \in Request /\ Plain(k).kind = k
  /\ \A n \in Nat, d \in Seq(Nat) :
       LET r == [NoRequest EXCEPT !.kind = "CREATE", !.size = n, !.data = d] IN
       r \in Request /\ r.kind = "CREATE" /\ r.data = d
  /\ \A i \in Nat, o \in Int, d \in Seq(Nat) :
       LET r == [NoRequest EXCEPT !.kind = "PUT", !.sid = i, !.ordinal = o, !.data = d] IN
       r \in Request /\ r.kind = "PUT"
  /\ \A i \in Nat :
       LET r == [NoRequest EXCEPT !.kind = "COMMIT", !.sid = i] IN
       r \in Request /\ r.kind = "COMMIT" /\ r.sid = i
  /\ \A o, n \in Nat :
       LET r == [NoRequest EXCEPT !.kind = "GET", !.offset = o, !.size = n] IN
       r \in Request /\ r.kind = "GET" /\ r.offset = o /\ r.size = n
<1>1. PICK q \in Request : q = NoRequest
  BY NoRequestType
<1>2. QED
  BY <1>1 DEF Plain, Request, Kinds

LEMMA SendsType ==
  ASSUME Types,
         send_hello \/ send_auth \/ send_create \/ send_show \/ send_query \/ send_chunk \/ send_commit
  PROVE  Types'
<1>1. CASE send_hello \/ send_auth \/ send_show
  <2>1. \E k \in Kinds, w \in Labels : Send(Plain(k), w)
    BY <1>1 DEF send_hello, send_auth, send_show, Kinds, Labels, Handshake, Downloading
  <2>2. QED
    BY <2>1, SendType, RequestTypes
<1>2. CASE send_create
  <2>1. PICK n \in Nat, d \in Seq(Nat) :
          Send([NoRequest EXCEPT !.kind = "CREATE", !.size = n, !.data = d], "create_wait")
    BY <1>2, LocFacts DEF send_create
  <2>2. [NoRequest EXCEPT !.kind = "CREATE", !.size = n, !.data = d] \in Request
    BY RequestTypes
  <2>3. QED
    BY <2>1, <2>2, SendType DEF Labels, Uploading
<1>3. CASE send_query
  <2>1. EndsOnly("Usage") \/ Send(Plain("PING"), "query_wait")
    BY <1>3 DEF send_query
  <2>2. QED
    BY <2>1, EndsOnlyType, SendType, RequestTypes DEF Labels, Querying, Kinds
<1>4. CASE send_chunk
  <2>1. CASE EndsOnly("LocalFile")
    BY <2>1, EndsOnlyType
  <2>2. CASE ~ EndsOnly("LocalFile")
    <3>1. loc.sent < loc.size /\ loc.sent + Want <= Len(file)
      <4>1. loc.sent < loc.size /\ ~ (Len(file) < loc.sent + Want)
        BY <1>4, <2>2 DEF send_chunk
      <4>2. loc.sent + Want \in Nat /\ Len(file) \in Nat
        BY <4>1, WantFacts, LocFacts
      <4>3. QED
        BY <4>1, <4>2
    <3>2. SubSeq(file, loc.sent + 1, loc.sent + Want) \in Seq(Nat)
      <4>1. \A i \in loc.sent + 1 .. loc.sent + Want : i \in 1 .. Len(file)
        BY <3>1, WantFacts, LocFacts
      <4>2. \A i \in loc.sent + 1 .. loc.sent + Want : file[i] \in Nat
        BY <4>1, LocFacts, ElementOfSeq
      <4>3. loc.sent + 1 \in Int /\ loc.sent + Want \in Int
        BY <3>1, WantFacts, LocFacts
      <4>4. QED
        BY <4>2, <4>3, SubSeqProperties
    <3>3. loc.sent \div ChunkSize \in Int
      BY LocFacts, ConstFacts
    <3>4. PICK i \in Nat, o \in Int, d \in Seq(Nat) :
            Send([NoRequest EXCEPT !.kind = "PUT", !.sid = i, !.ordinal = o, !.data = d], "put_wait")
      BY <1>4, <2>2, <3>2, <3>3, LocFacts DEF send_chunk
    <3>5. [NoRequest EXCEPT !.kind = "PUT", !.sid = i, !.ordinal = o, !.data = d] \in Request
      BY RequestTypes
    <3>6. QED
      BY <3>4, <3>5, SendType DEF Labels, Uploading
  <2>3. QED
    BY <2>1, <2>2
<1>5. CASE send_commit
  <2>1. PICK i \in Nat : Send([NoRequest EXCEPT !.kind = "COMMIT", !.sid = i], "commit_wait")
    BY <1>5, LocFacts DEF send_commit
  <2>2. [NoRequest EXCEPT !.kind = "COMMIT", !.sid = i] \in Request
    BY RequestTypes
  <2>3. QED
    BY <2>1, <2>2, SendType DEF Labels, Uploading
<1>6. QED
  BY <1>1, <1>2, <1>3, <1>4, <1>5

\* What open_part asks for: the rest of the artifact, behind the .part file.
LEMMA OpenFacts ==
  ASSUME Types, open_part
  PROVE  \E o \in Nat :
           /\ pc = "open" /\ pc' = "data" /\ o <= loc.size
           /\ part' = (IF o # 0 THEN part ELSE <<>>) /\ part' \in Seq(Nat) /\ Len(part') = o
           /\ loc'.offset = o /\ loc'.size = loc.size
           /\ loc' \in [size : Nat, digest : Seq(Nat), sid : Nat, sent : Nat, offset : Nat]
           /\ up' = up \cup {[conn |-> conn, req |-> [NoRequest EXCEPT !.kind = "GET", !.offset = o,
                                                                     !.size = loc.size - o]]}
           /\ loc.size - o \in Nat
           /\ UNCHANGED <<command, exit, file, out, conn, down, server>>
<1>1. PICK have : have = IF cmd = "resume" /\ part # NoFile THEN Len(part) ELSE 0
  OBVIOUS
<1>2. PICK o : o = IF have < loc.size THEN have ELSE 0
  OBVIOUS
<1>3. have \in Nat /\ o \in Nat /\ o <= loc.size /\ loc.size - o \in Nat
  BY <1>1, <1>2, LocFacts
<1>4. /\ part' = (IF o # 0 THEN part ELSE <<>>) /\ loc' = [loc EXCEPT !.offset = o]
      /\ up' = up \cup {[conn |-> conn, req |-> [NoRequest EXCEPT !.kind = "GET", !.offset = o,
                                                                !.size = loc.size - o]]}
  BY <1>1, <1>2 DEF open_part
<1>5. o # 0 => part \in Seq(Nat) /\ Len(part) = o
  BY <1>1, <1>2, LocFacts
<1>6. part' \in Seq(Nat) /\ Len(part') = o
  BY <1>4, <1>5, EmptySeq
<1>7. /\ loc'.offset = o /\ loc'.size = loc.size
      /\ loc' \in [size : Nat, digest : Seq(Nat), sid : Nat, sent : Nat, offset : Nat]
  BY <1>3, <1>4 DEF Types
<1>8. QED
  BY <1>3, <1>4, <1>6, <1>7 DEF open_part

LEMMA OpenType == ASSUME Types, open_part PROVE Types'
<1>1. PICK o \in Nat :
        /\ pc' = "data" /\ part' \in Seq(Nat)
        /\ loc' \in [size : Nat, digest : Seq(Nat), sid : Nat, sent : Nat, offset : Nat]
        /\ up' = up \cup {[conn |-> conn, req |-> [NoRequest EXCEPT !.kind = "GET", !.offset = o,
                                                                     !.size = loc.size - o]]}
        /\ loc.size - o \in Nat
        /\ UNCHANGED <<command, exit, file, out, conn, down, server>>
  BY OpenFacts
<1>2. PICK n \in Nat : n = loc.size - o
  BY <1>1
<1>3. [NoRequest EXCEPT !.kind = "GET", !.offset = o, !.size = n] \in Request
  BY RequestTypes
<1>4. up' \subseteq [conn : Nat, req : Request]
  <2>1. PICK r \in Request : r = [NoRequest EXCEPT !.kind = "GET", !.offset = o, !.size = n]
    BY <1>3
  <2>2. up' = up \cup {[conn |-> conn, req |-> r]}
    BY <1>1, <1>2, <2>1
  <2>3. QED
    BY <2>2 DEF Types
<1>5. QED
  BY <1>1, <1>4 DEF Types, Labels, Downloading

\* A slice of a download: at most what remains, and not beyond the end.
StreamType == [active : BOOLEAN, offset : Nat, remaining : Nat]
LEMMA SliceFacts ==
  ASSUME Types, NEW s \in StreamType, Readable(s), NEW data, data = SliceOf(s)
  PROVE  /\ data \in Seq(Nat) /\ Len(data) \in Nat /\ Len(data) <= s.remaining
         /\ s.offset + Len(data) <= Len(artifact)
         /\ data = SubSeq(artifact, s.offset + 1, s.offset + Len(data))
         /\ data = <<>> /\ s.offset + s.remaining = Len(artifact) => s.remaining = 0
<1>1. PICK o \in Nat, r \in Nat : o = s.offset /\ r = s.remaining
  BY DEF StreamType
<1>2. artifact \in Seq(Nat) /\ Len(artifact) \in Nat /\ o <= Len(artifact)
  BY <1>1, LocFacts DEF Readable
<1>3. PICK n : n = IF r < Slice THEN r ELSE Slice
  OBVIOUS
<1>4. n \in Nat /\ n <= r /\ (n = 0 => r = 0)
  BY <1>3, ConstFacts
<1>5. PICK z : z = IF o + n < Len(artifact) THEN o + n ELSE Len(artifact)
  OBVIOUS
<1>6. z \in Nat /\ o <= z /\ z <= o + n /\ z <= Len(artifact)
      /\ (z = o /\ o + r = Len(artifact) => r = 0)
  BY <1>2, <1>4, <1>5
<1>7. data = SubSeq(artifact, o + 1, z)
  BY <1>1, <1>3, <1>5 DEF SliceOf
<1>8. data \in Seq(Nat) /\ Len(data) = IF o + 1 <= z THEN z - (o + 1) + 1 ELSE 0
  <2>1. \A i \in o + 1 .. z : i \in 1 .. Len(artifact)
    BY <1>2, <1>6
  <2>2. \A i \in o + 1 .. z : artifact[i] \in Nat
    BY <1>2, <2>1, ElementOfSeq
  <2>3. o + 1 \in Int /\ z \in Int
    BY <1>6
  <2>4. QED
    BY <1>7, <2>2, <2>3, SubSeqProperties
<1>9. Len(data) = z - o
  BY <1>6, <1>8
<1>10. Len(data) \in Nat /\ Len(data) <= r /\ o + Len(data) = z
  BY <1>4, <1>6, <1>9
<1>11. data = <<>> => z = o
  <2>1. Len(<<>>) = 0
    BY EmptySeq
  <2>2. QED
    BY <1>6, <1>9, <2>1
<1>12. QED
  BY <1>1, <1>6, <1>7, <1>8, <1>10, <1>11

LEMMA AdvancedFacts ==
  ASSUME NEW s \in StreamType, NEW data \in Seq(Nat), Len(data) <= s.remaining
  PROVE  /\ Advanced(s, data) \in StreamType
         /\ Advanced(s, data).active => /\ Advanced(s, data).offset = s.offset + Len(data)
                                        /\ Advanced(s, data).remaining = s.remaining - Len(data)
         /\ Advanced(s, data) = NoStream <=> ~ Advanced(s, data).active
         /\ Advanced(s, data) = NoStream <=> s.remaining = Len(data) \/ data = <<>>
<1>1. PICK n \in Nat, o \in Nat, r \in Nat : n = Len(data) /\ o = s.offset /\ r = s.remaining
  BY LenProperties DEF StreamType
<1>2. o + n \in Nat /\ r - n \in Nat
  BY <1>1
<1>3. QED
  BY <1>1, <1>2 DEF Advanced, NoStream, StreamType

LEMMA FramesType ==
  ASSUME Types, NEW s \in StreamType, NEW data \in Seq(Nat)
  PROVE  Frames(s, data) \in Seq(Answers)
<1>1. Answer("DATA", 0, data) \in Answers /\ OK(0) \in Answers
  BY AnswerType
<1>2. QED
  BY <1>1 DEF Frames

LEMMA ReplyType ==
  ASSUME Types, NEW m, NEW q \in Seq(Answers), Reply(m, q)
  PROVE  down' \in Seq(Answers)
BY DEF Reply, Types

LEMMA ServeTypes ==
  ASSUME Types, NEW m \in up,
         \/ serve_plain(m) \/ serve_error(m) \/ lose_request(m) \/ serve_create(m) \/ serve_put(m)
         \/ serve_commit(m) \/ serve_show(m) \/ serve_get(m),
         m.req.kind = "CREATE" => m.req.data \in Contents,
         m.req.kind \in {"PUT", "COMMIT"} => m.req.sid \in DOMAIN sessions
  PROVE  Types'
<1>1. /\ up' \subseteq [conn : Nat, req : Request] /\ m \in [conn : Nat, req : Request]
      /\ UNCHANGED <<command, pc, exit, disk, loc, conn>>
  BY DEF serve_plain, serve_error, lose_request, serve_create, serve_put, serve_commit, serve_show,
         serve_get, Handled, Types
<1>2. down' \in Seq(Answers)
  <2>1. CASE lose_request(m)
    BY <2>1 DEF lose_request, Types
  <2>2. CASE serve_plain(m) \/ serve_error(m) \/ serve_put(m) \/ serve_commit(m)
    <3>1. <<OK(0)>> \in Seq(Answers) /\ <<FAILED>> \in Seq(Answers)
      BY AnswerType
    <3>2. Reply(m, <<OK(0)>>) \/ Reply(m, <<FAILED>>)
      BY <2>2 DEF serve_plain, serve_error, serve_put, serve_commit
    <3>3. QED
      BY <3>1, <3>2, ReplyType
  <2>3. CASE serve_create(m) \/ serve_show(m)
    <3>1. PICK n \in Nat : Reply(m, <<OK(n)>>)
      <4>1. Len(sessions) + 1 \in Nat /\ (artifact # NoFile => Len(artifact) \in Nat)
        BY LocFacts, LenProperties DEF Types
      <4>2. QED
        BY <2>3, <4>1 DEF serve_create, serve_show
    <3>2. <<OK(n)>> \in Seq(Answers)
      BY AnswerType
    <3>3. QED
      BY <3>1, <3>2, ReplyType
  <2>4. CASE serve_get(m)
    <3>1. PICK s : s = [active |-> TRUE, offset |-> m.req.offset, remaining |-> m.req.size]
      OBVIOUS
    <3>2. s \in StreamType
      BY <1>1, <3>1 DEF StreamType, Request
    <3>3. Readable(s) /\ Reply(m, Frames(s, SliceOf(s)))
      BY <2>4, <3>1 DEF serve_get
    <3>4. SliceOf(s) \in Seq(Nat)
      BY <3>2, <3>3, SliceFacts
    <3>5. QED
      BY <3>2, <3>3, <3>4, FramesType, ReplyType
  <2>5. QED
    BY <2>1, <2>2, <2>3, <2>4
<1>3. stream' \in StreamType
  <2>1. CASE serve_get(m)
    <3>1. PICK s : s = [active |-> TRUE, offset |-> m.req.offset, remaining |-> m.req.size]
      OBVIOUS
    <3>2. s \in StreamType
      BY <1>1, <3>1 DEF StreamType, Request
    <3>3. Readable(s) /\ stream' \in {stream, Advanced(s, SliceOf(s))}
      BY <2>1, <3>1 DEF serve_get
    <3>4. SliceOf(s) \in Seq(Nat) /\ Len(SliceOf(s)) <= s.remaining
      BY <3>2, <3>3, SliceFacts
    <3>5. Advanced(s, SliceOf(s)) \in StreamType
      BY <3>2, <3>4, AdvancedFacts
    <3>6. QED
      BY <3>3, <3>5 DEF Types, StreamType
  <2>2. CASE ~ serve_get(m)
    BY <2>2 DEF serve_plain, serve_error, lose_request, serve_create, serve_put, serve_commit,
                serve_show, Types, StreamType
  <2>3. QED
    BY <2>1, <2>2
<1>4. sessions' \in Seq(Upload)
  <2>1. CASE serve_create(m)
    <3>1. [size |-> m.req.size, digest |-> m.req.data, parts |-> <<>>, state |-> "OPEN"] \in Upload
      BY <1>1, <2>1 DEF serve_create, Upload, Request
    <3>2. QED
      BY <2>1, <3>1 DEF serve_create, Types
  <2>2. CASE serve_put(m)
    <3>1. PICK sid \in DOMAIN sessions, d \in Seq(Nat) : sid = m.req.sid /\ d = m.req.data
      BY <1>1, <2>2 DEF Request, serve_put
    <3>2. sid \in 1 .. Len(sessions) /\ sessions \in Seq(Upload)
      BY LenProperties DEF Types
    <3>3. PICK u \in Upload : u = sessions[sid]
      BY <3>2, ElementOfSeq
    <3>4. PICK ps \in Seq(Seq(Nat)) : ps = Append(u.parts, d)
      <4>1. u.parts \in Seq(Seq(Nat))
        BY DEF Upload
      <4>2. Append(u.parts, d) \in Seq(Seq(Nat))
        BY <4>1, AppendProperties
      <4>3. QED
        BY <4>2
    <3>5. PICK v \in Upload : v = [u EXCEPT !.parts = ps]
      BY DEF Upload
    <3>6. sessions' = [sessions EXCEPT ![sid] = v]
      BY <2>2, <3>1, <3>3, <3>4, <3>5 DEF serve_put
    <3>7. QED
      BY <3>2, <3>6, ExceptSeq
  <2>3. CASE serve_commit(m)
    <3>1. PICK sid \in DOMAIN sessions : sid = m.req.sid
      BY <1>1, <2>3 DEF Request, serve_commit
    <3>2. sid \in 1 .. Len(sessions) /\ sessions \in Seq(Upload)
      BY LenProperties DEF Types
    <3>3. PICK u \in Upload : u = sessions[sid]
      BY <3>2, ElementOfSeq
    <3>4. PICK v \in Upload : v = [u EXCEPT !.state = "COMPLETED"]
      BY DEF Upload
    <3>5. sessions' = [sessions EXCEPT ![sid] = v]
      BY <2>3, <3>1, <3>3, <3>4 DEF serve_commit
    <3>6. QED
      BY <3>2, <3>5, ExceptSeq
  <2>4. CASE ~ (serve_create(m) \/ serve_put(m) \/ serve_commit(m))
    BY <2>4 DEF serve_plain, serve_error, lose_request, serve_show, serve_get, Types
  <2>5. QED
    BY <2>1, <2>2, <2>3, <2>4
<1>5. artifact' \in Contents \cup {NoFile}
  <2>1. CASE serve_commit(m)
    <3>1. m.req.sid \in 1 .. Len(sessions) /\ sessions \in Seq(Upload)
      BY <2>1, LenProperties DEF Types, serve_commit
    <3>2. sessions[m.req.sid] \in Upload
      BY <3>1, ElementOfSeq
    <3>3. QED
      BY <2>1, <3>2 DEF serve_commit, Session, Upload
  <2>2. CASE ~ serve_commit(m)
    BY <2>2 DEF serve_plain, serve_error, lose_request, serve_create, serve_put, serve_show,
                serve_get, Types
  <2>3. QED
    BY <2>1, <2>2
<1>6. QED
  BY <1>1, <1>2, <1>3, <1>4, <1>5 DEF Types, StreamType

LEMMA DoneTypes ==
  ASSUME Types, ClientInv,
         \/ hello_done \/ auth_done \/ create_done \/ put_done \/ show_done \/ commit_done
         \/ query_done \/ data_end
  PROVE  Types'
<1>1. down # <<>> /\ pc \in waits
  BY DEF hello_done, auth_done, create_done, put_done, show_done, commit_done, query_done, data_end,
         Receives, waits
<1>2. down[1] \in Answers
  BY <1>1, EmptySeq, ElementOfSeq DEF Types
<1>3. CASE commit_done \/ query_done
  BY <1>3, EndsOnlyType DEF commit_done, query_done
<1>4. CASE hello_done \/ auth_done \/ data_end
  <2>1. \E next \in Labels : Goes(next, loc)
    BY <1>4 DEF hello_done, auth_done, data_end, FirstRequest, Labels, Handshake, Uploading,
                Downloading, Querying
  <2>2. loc' = loc
    BY <2>1 DEF Goes
  <2>3. QED
    BY <1>1, <2>1, <2>2, GoesType DEF Types
<1>5. CASE create_done \/ put_done \/ show_done
  <2>1. PICK n \in Nat : n = down[1].n
    BY <1>2 DEF Answers
  <2>2. loc' \in [size : Nat, digest : Seq(Nat), sid : Nat, sent : Nat, offset : Nat]
    <3>1. CASE create_done
      <4>1. loc' = [loc EXCEPT !.sid = n]
        BY <2>1, <3>1 DEF create_done, Goes
      <4>2. QED
        BY <4>1 DEF Types
    <3>2. CASE show_done
      <4>1. loc' = [loc EXCEPT !.size = n]
        BY <2>1, <3>2 DEF show_done, Goes
      <4>2. QED
        BY <4>1 DEF Types
    <3>3. CASE put_done
      <4>1. loc.sent + Want \in Nat
        BY <3>3, WantFacts DEF put_done, Receives, ClientInv, ControlOK
      <4>2. PICK v \in Nat : v = loc.sent + Want
        BY <4>1
      <4>3. loc' = [loc EXCEPT !.sent = v]
        BY <3>3, <4>2 DEF put_done, Goes
      <4>4. QED
        BY <4>3 DEF Types
    <3>4. QED
      BY <1>5, <3>1, <3>2, <3>3
  <2>3. \E next \in Labels : Goes(next, loc')
    BY <1>5 DEF create_done, put_done, show_done, Goes, Labels, Uploading, Downloading
  <2>4. QED
    BY <1>1, <2>2, <2>3, GoesType
<1>6. QED
  BY <1>3, <1>4, <1>5

\* A beginning of a file.
LEMMA CutFacts ==
  ASSUME NEW s \in Seq(Nat), NEW n \in Nat, n <= Len(s)
  PROVE  /\ SubSeq(s, 1, n) \in Seq(Nat) /\ Len(SubSeq(s, 1, n)) = n
         /\ \A i \in 1 .. n : SubSeq(s, 1, n)[i] = s[i]
<1>1. Len(s) \in Nat
  BY LenProperties
<1>2. \A i \in 1 .. n : s[i] \in Nat
  <2>1. \A i \in 1 .. n : i \in 1 .. Len(s)
    BY <1>1
  <2>2. QED
    BY <2>1, ElementOfSeq
<1>3. /\ SubSeq(s, 1, n) \in Seq(Nat)
      /\ Len(SubSeq(s, 1, n)) = IF 1 <= n THEN n - 1 + 1 ELSE 0
      /\ \A i \in 1 .. n - 1 + 1 : SubSeq(s, 1, n)[i] = s[1 + i - 1]
  BY <1>2, SubSeqProperties
<1>4. \A i \in 1 .. n : i \in 1 .. n - 1 + 1 /\ 1 + i - 1 = i
  OBVIOUS
<1>5. Len(SubSeq(s, 1, n)) = n
  BY <1>3
<1>6. QED
  BY <1>3, <1>4, <1>5

\* What the client does with the .part file and the output.
LEMMA DiskTypes ==
  ASSUME Types, ClientInv, write_data \/ write_fails \/ close_and_rename \/ kill
  PROVE  Types'
<1>1. CASE write_data \/ write_fails
  <2>1. pc = "data" /\ down # <<>>
    BY <1>1 DEF write_data, write_fails, Receives
  <2>2. part \in Seq(Nat) /\ down \in Seq(Answers)
    BY <2>1, LocFacts DEF ClientInv, AnswersOK, Types
  <2>3. down[1] \in Answers
    BY <2>1, <2>2, EmptySeq, ElementOfSeq
  <2>4. PICK all \in Seq(Nat) : all = part \o down[1].data
    BY <2>2, <2>3, ConcatProperties DEF Answers
  <2>5. CASE write_data
    BY <2>1, <2>2, <2>4, <2>5 DEF write_data, Types
  <2>6. CASE write_fails
    <3>1. PICK n \in loc.offset .. Len(all) : part' = SubSeq(all, 1, n)
      BY <2>4, <2>6 DEF write_fails
    <3>2. n \in Nat /\ n <= Len(all)
      BY <3>1, LocFacts, LenProperties
    <3>3. part' \in Seq(Nat)
      BY <3>1, <3>2, CutFacts
    <3>4. Ends("LocalFile") /\ UNCHANGED <<command, file, out, loc, conn, up, artifact, sessions>>
      BY <2>6 DEF write_fails
    <3>5. QED
      BY <3>3, <3>4, EndsType DEF Types
  <2>7. QED
    BY <1>1, <2>5, <2>6
<1>2. CASE close_and_rename
  <2>1. /\ pc = "rename" /\ out' = part /\ part' = NoFile /\ Ends("Ok")
        /\ UNCHANGED <<command, loc, file, conn, up, artifact, sessions>>
    BY <1>2 DEF close_and_rename
  <2>2. part \in Contents
    BY <2>1, LocFacts DEF ClientInv, AnswersOK
  <2>3. QED
    BY <2>1, <2>2, EndsType DEF Types
<1>3. CASE kill
  <2>1. Ends("Killed") /\ UNCHANGED <<command, file, out, loc, conn, up, artifact, sessions>>
    BY <1>3 DEF kill
  <2>2. part' \in Seq(Nat) \cup {NoFile}
    <3>1. CASE pc \in {"data", "rename"}
      <4>1. part \in Seq(Nat)
        BY <3>1, LocFacts DEF ClientInv, AnswersOK
      <4>2. PICK n \in loc.offset .. Len(part) : part' = SubSeq(part, 1, n)
        BY <1>3, <3>1 DEF kill
      <4>3. n \in Nat /\ n <= Len(part)
        BY <4>1, <4>2, LocFacts, LenProperties
      <4>4. QED
        BY <4>1, <4>2, <4>3, CutFacts
    <3>2. CASE pc \notin {"data", "rename"}
      BY <1>3, <3>2 DEF kill, Types
    <3>3. QED
      BY <3>1, <3>2
  <2>3. QED
    BY <2>1, <2>2, EndsType DEF Types
<1>4. QED
  BY <1>1, <1>2, <1>3

LEMMA NextTypes == ASSUME Types, ClientInv, [Next]_vars PROVE Types'
<1>1. CASE \E c \in Commands : start(c)
  BY <1>1, ClientAssumption, FreshType DEF start, Types, Labels, Local, Handshake
<1>2. CASE measure
  <2>1. PICK n \in Nat : n = Len(file)
    BY LocFacts
  <2>2. QED
    BY <1>2, <2>1 DEF measure, Types, Labels, Local
<1>3. CASE digest
  <2>1. CASE EndsOnly("LocalFile")
    BY <2>1, EndsOnlyType
  <2>2. CASE ~ EndsOnly("LocalFile")
    <3>1. loc' \in [size : Nat, digest : Seq(Nat), sid : Nat, sent : Nat, offset : Nat]
      BY <1>3, <2>2, LocFacts DEF digest, Types
    <3>2. QED
      BY <1>3, <2>2, <3>1 DEF digest, Types, Labels, Handshake
  <2>3. QED
    BY <2>1, <2>2
<1>4. CASE connect
  <2>1. CASE EndsOnly("Network")
    BY <2>1, EndsOnlyType
  <2>2. CASE ~ EndsOnly("Network")
    BY <1>4, <2>2 DEF connect, Types, Labels, Handshake
  <2>3. QED
    BY <2>1, <2>2
<1>5. CASE request_fails \/ receive_timeout \/ connection_lost
  BY <1>5, EndsOnlyType DEF request_fails, receive_timeout, connection_lost
<1>6. CASE \E m \in up :
             \/ serve_plain(m) \/ serve_error(m) \/ lose_request(m) \/ serve_create(m) \/ serve_put(m)
             \/ serve_commit(m) \/ serve_show(m) \/ serve_get(m)
  BY <1>6, ServeTypes DEF ClientInv, RequestsOK
<1>7. CASE serve_slice
  <2>1. Readable(stream) /\ stream \in StreamType
    BY <1>7 DEF serve_slice, Types, StreamType
  <2>2. SliceOf(stream) \in Seq(Nat) /\ Len(SliceOf(stream)) <= stream.remaining
    BY <2>1, SliceFacts
  <2>3. Advanced(stream, SliceOf(stream)) \in StreamType /\ Frames(stream, SliceOf(stream)) \in Seq(Answers)
    BY <2>1, <2>2, AdvancedFacts, FramesType
  <2>4. QED
    BY <1>7, <2>3 DEF serve_slice, Types, StreamType
<1>8. CASE serve_slice_error
  <2>1. Append(down, FAILED) \in Seq(Answers)
    BY AnswerType DEF Types
  <2>2. QED
    BY <1>8, <2>1, NoStreamType DEF serve_slice_error, Types
<1>9. CASE edit
  BY <1>9 DEF edit, Types
<1>10. CASE UNCHANGED vars
  BY <1>10 DEF vars, Types
<1>11. QED
  BY <1>1, <1>2, <1>3, <1>4, <1>5, <1>6, <1>7, <1>8, <1>9, <1>10, SendsType, OpenType, DoneTypes, DiskTypes
  DEF Next, ClientStep, ServerStep

-----------------------------------------------------------------------------
(* The end of a command.                                                   *)

\* Whatever ends a command, only the .part file and the success need a look.
LEMMA EndsInv ==
  ASSUME Types, ClientInv, NEW code \in {"Ok", "Server", "Network", "LocalFile", "Usage", "Killed"},
         Ends(code), UNCHANGED <<command, loc, conn, up, artifact, sessions>>, PartIsPrefix', Done'
  PROVE  ClientInv'
<1>1. pc' = "idle" /\ down' = <<>> /\ stream'.active = FALSE
  BY EndsType
<1>2. pc' \notin waits /\ pc' \notin Ready
  BY <1>1 DEF waits, Ready
<1>3. ControlOK'
  BY <1>1, <1>2 DEF ControlOK, Uploading, Downloading, Querying, Local
<1>4. RequestsOK'
  BY <1>2 DEF RequestsOK, ClientInv
<1>5. AnswersOK' /\ InTransit'
  BY <1>1, <1>2 DEF AnswersOK, InTransit, waits
<1>6. QED
  BY <1>3, <1>4, <1>5 DEF ClientInv

LEMMA EndsOnlyInv ==
  ASSUME Types, ClientInv, NEW code \in {"Ok", "Server", "Network", "LocalFile", "Usage", "Killed"},
         EndsOnly(code),
         code = "Ok" => \/ cmd \notin {"upload", "download", "resume"}
                        \/ cmd = "upload" /\ artifact = loc.digest /\ loc.digest \in Contents
  PROVE  ClientInv'
<1>1. Ends(code) /\ UNCHANGED <<command, disk, loc, conn, up, artifact, sessions>> /\ exit' = code
  BY EndsType DEF EndsOnly
<1>2. PartIsPrefix'
  BY <1>1 DEF PartIsPrefix, ClientInv
<1>3. Done'
  BY <1>1 DEF Done, Succeeded, UploadPublished
<1>4. QED
  BY <1>1, <1>2, <1>3, EndsInv

-----------------------------------------------------------------------------
(* Before the connection.                                                  *)

LEMMA StartInv == ASSUME Types, ClientInv, NEW c \in Commands, start(c) PROVE ClientInv'
<1>1. /\ pc = "idle" /\ cmd' = c /\ pc' \in {"measure", "connect"} /\ (pc' = "measure" => c = "upload")
      /\ (c = "upload" => pc' = "measure")
      /\ UNCHANGED <<disk, conn, up, down, server>>
  BY DEF start
<1>2. down = <<>> /\ ~ stream.active
  BY <1>1 DEF ClientInv, ControlOK, waits
<1>3. ControlOK'
  BY <1>1, <1>2 DEF ControlOK, Uploading, Downloading, Querying, Local
<1>4. RequestsOK'
  BY <1>1 DEF ClientInv, RequestsOK, Ready, waits
<1>5. AnswersOK' /\ InTransit' /\ Done'
  BY <1>1 DEF AnswersOK, InTransit, Done, Succeeded, UploadPublished, waits
<1>6. PartIsPrefix'
  BY <1>1 DEF ClientInv, PartIsPrefix
<1>7. QED
  BY <1>3, <1>4, <1>5, <1>6 DEF ClientInv

LEMMA LocalInv == ASSUME Types, ClientInv, measure \/ digest \/ connect PROVE ClientInv'
<1>1. CASE EndsOnly("LocalFile") \/ EndsOnly("Network")
  BY <1>1, EndsOnlyInv
<1>2. CASE ~ (EndsOnly("LocalFile") \/ EndsOnly("Network"))
  <2>1. /\ \/ pc = "measure" /\ pc' = "digest" /\ conn' = conn
           \/ pc = "digest" /\ pc' = "connect" /\ conn' = conn /\ loc' = [loc EXCEPT !.digest = file]
           \/ pc = "connect" /\ pc' = "hello" /\ conn' = conn + 1 /\ loc' = loc
        /\ UNCHANGED <<command, disk, up, down, server>>
    BY <1>2 DEF measure, digest, connect
  <2>2. down = <<>> /\ ~ stream.active
    BY <2>1 DEF ClientInv, ControlOK, waits
  <2>3. pc = "digest" => loc'.digest \in Contents
    BY <2>1 DEF Types
  <2>4. ControlOK'
    BY <2>1, <2>2, <2>3 DEF ClientInv, ControlOK, Uploading, Downloading, Querying, Local
  <2>5. RequestsOK'
    <3>1. CASE pc = "connect"
      <4>1. \A m \in up' : m.conn \in Nat /\ m.conn <= conn /\ conn \in Nat /\ conn' = conn + 1
        BY <2>1, <3>1 DEF ClientInv, RequestsOK, Types
      <4>2. \A m \in up' : m.conn <= conn' /\ m.conn # conn'
        BY <4>1
      <4>3. QED
        BY <2>1, <4>2 DEF ClientInv, RequestsOK
    <3>2. CASE pc # "connect"
      BY <2>1, <3>2 DEF ClientInv, RequestsOK, Ready, waits
    <3>3. QED
      BY <3>1, <3>2
  <2>6. AnswersOK' /\ InTransit' /\ Done'
    BY <2>1 DEF AnswersOK, InTransit, Done, Succeeded, UploadPublished, waits
  <2>7. PartIsPrefix'
    BY <2>1 DEF ClientInv, PartIsPrefix
  <2>8. QED
    BY <2>4, <2>5, <2>6, <2>7 DEF ClientInv
<1>3. QED
  BY <1>1, <1>2

-----------------------------------------------------------------------------
(* A request is sent: it is the only one of its connection.                *)

Carried(r, w) ==
  /\ r.kind = KindFor(w)
  /\ r.kind = "CREATE" => r.data \in Contents /\ r.data = loc.digest
  /\ r.kind \in {"PUT", "COMMIT"} => r.sid = loc.sid

LEMMA WaitLabels ==
  /\ KindFor("hello_wait") = "HELLO" /\ KindFor("auth_wait") = "AUTH" /\ KindFor("create_wait") = "CREATE"
  /\ KindFor("put_wait") = "PUT" /\ KindFor("commit_wait") = "COMMIT" /\ KindFor("show_wait") = "SHOW"
  /\ KindFor("query_wait") = "PING" /\ KindFor("data") = "GET"
BY DEF KindFor

LEMMA SendInv ==
  ASSUME Types, ClientInv, pc \in Ready, NEW r \in Request, NEW w \in waits \ {"data"}, Send(r, w),
         Carried(r, w), ControlOK', w \in {"put_wait", "commit_wait"} => Opened(loc.sid)
  PROVE  ClientInv'
<1>1. /\ up' = up \cup {[conn |-> conn, req |-> r]} /\ pc' = w
      /\ UNCHANGED <<command, exit, disk, loc, conn, down, server>>
  BY DEF Send
<1>2. down = <<>> /\ ~ stream.active
  BY DEF ClientInv, ControlOK, waits, Ready
<1>3. \A m \in up : m.conn # conn
  BY DEF ClientInv, RequestsOK
<1>4. PICK q : q = [conn |-> conn, req |-> r]
  OBVIOUS
<1>5. q.conn = conn /\ q.req = r /\ up' = up \cup {q} /\ conn \in Nat
  BY <1>1, <1>4 DEF Types
<1>6. Pending(q)'
  <2>1. \A n \in up' : n.conn = conn' => n = q
    BY <1>1, <1>3, <1>5
  <2>2. (pc' = "create_wait" => q.req.data = loc'.digest) /\ (pc' = "commit_wait" => q.req.sid = loc'.sid)
    BY <1>1, <1>5, WaitLabels DEF Carried
  <2>3. QED
    BY <1>1, <1>2, <1>5, <2>1, <2>2 DEF Pending, Carried
<1>7. RequestsOK'
  <2>1. \A m \in up : /\ m.conn <= conn
                      /\ m.req.kind = "CREATE" => m.req.data \in Contents
                      /\ m.req.kind \in {"PUT", "COMMIT"} => m.req.sid \in DOMAIN sessions
    BY DEF ClientInv, RequestsOK
  <2>2. w \notin Ready
    BY DEF waits, Ready
  <2>3. r.kind \in {"PUT", "COMMIT"} => r.sid \in DOMAIN sessions
    BY WaitLabels DEF Carried, Opened, waits
  <2>4. \A m \in up : /\ m.conn <= conn'
                      /\ m.req.kind = "CREATE" => m.req.data \in Contents
                      /\ m.req.kind \in {"PUT", "COMMIT"} => m.req.sid \in DOMAIN sessions'
                      /\ m.conn # conn'
    BY <1>1, <1>3, <2>1
  <2>5. /\ q.conn <= conn'
        /\ q.req.kind = "CREATE" => q.req.data \in Contents
        /\ q.req.kind \in {"PUT", "COMMIT"} => q.req.sid \in DOMAIN sessions'
        /\ pc' \notin Ready
    BY <1>1, <1>5, <2>2, <2>3 DEF Carried
  <2>6. QED
    BY <1>5, <1>6, <2>4, <2>5 DEF RequestsOK
<1>8. AnswersOK'
  <2>1. Len(down') <= 1 /\ ~ Came'
    BY <1>1, <1>2, EmptySeq DEF Came
  <2>2. Opened(loc.sid)' <=> Opened(loc.sid)
    BY <1>1 DEF Opened
  <2>3. pc' \notin {"put", "open", "data", "rename"}
    BY <1>1 DEF waits
  <2>4. QED
    BY <1>1, <2>1, <2>2, <2>3 DEF AnswersOK
<1>9. InTransit' /\ Done'
  BY <1>1 DEF InTransit, Done, Succeeded, UploadPublished, waits
<1>10. PartIsPrefix'
  BY <1>1 DEF ClientInv, PartIsPrefix
<1>11. QED
  BY <1>7, <1>8, <1>9, <1>10 DEF ClientInv

\* Sending leaves the command where it belongs.
LEMMA SendControl ==
  ASSUME Types, ClientInv, NEW r, NEW w, Send(r, w),
         \/ pc = "hello" /\ w = "hello_wait"
         \/ pc = "auth" /\ w = "auth_wait"
         \/ pc = "create" /\ w = "create_wait"
         \/ pc = "show" /\ w = "show_wait"
         \/ pc = "query" /\ w = "query_wait"
         \/ pc = "put" /\ w = "put_wait" /\ loc.sent < loc.size
         \/ pc = "put" /\ w = "commit_wait"
  PROVE  ControlOK' /\ pc \in Ready /\ w \in waits \ {"data"}
<1>1. pc' = w /\ UNCHANGED <<command, exit, disk, loc, conn, down, server>>
  BY DEF Send
<1>2. ~ stream.active
  BY DEF ClientInv, ControlOK
<1>3. w \in waits \ {"data"} /\ pc \in Ready
  BY DEF waits, Ready
<1>4. QED
  BY <1>1, <1>2, <1>3 DEF ClientInv, ControlOK, Uploading, Downloading, Querying, Local

LEMMA SendsInv ==
  ASSUME Types, ClientInv,
         send_hello \/ send_auth \/ send_create \/ send_show \/ send_query \/ send_chunk \/ send_commit
  PROVE  ClientInv'
<1>1. CASE send_hello
  <2>1. pc = "hello" /\ Send(Plain("HELLO"), "hello_wait")
    BY <1>1 DEF send_hello
  <2>2. Plain("HELLO") \in Request /\ Carried(Plain("HELLO"), "hello_wait")
    BY RequestTypes, WaitLabels DEF Carried, Kinds
  <2>3. QED
    BY <2>1, <2>2, SendControl, SendInv
<1>2. CASE send_auth
  <2>1. pc = "auth" /\ Send(Plain("AUTH"), "auth_wait")
    BY <1>2 DEF send_auth
  <2>2. Plain("AUTH") \in Request /\ Carried(Plain("AUTH"), "auth_wait")
    BY RequestTypes, WaitLabels DEF Carried, Kinds
  <2>3. QED
    BY <2>1, <2>2, SendControl, SendInv
<1>3. CASE send_show
  <2>1. pc = "show" /\ Send(Plain("SHOW"), "show_wait")
    BY <1>3 DEF send_show
  <2>2. Plain("SHOW") \in Request /\ Carried(Plain("SHOW"), "show_wait")
    BY RequestTypes, WaitLabels DEF Carried, Kinds
  <2>3. QED
    BY <2>1, <2>2, SendControl, SendInv
<1>4. CASE send_query
  <2>1. pc = "query" /\ (EndsOnly("Usage") \/ Send(Plain("PING"), "query_wait"))
    BY <1>4 DEF send_query
  <2>2. Plain("PING") \in Request /\ Carried(Plain("PING"), "query_wait")
    BY ZenonT(60), RequestTypes, WaitLabels DEF Carried, Kinds
  <2>3. QED
    BY <2>1, <2>2, SendControl, SendInv, EndsOnlyInv
<1>5. CASE send_create
  <2>1. PICK n \in Nat, d \in Seq(Nat) : n = loc.size /\ d = loc.digest
    BY LocFacts
  <2>2. PICK r : r = [NoRequest EXCEPT !.kind = "CREATE", !.size = n, !.data = d]
    OBVIOUS
  <2>3. r \in Request /\ r.kind = "CREATE" /\ r.data = d
    BY <2>2, RequestTypes
  <2>4. pc = "create" /\ Send(r, "create_wait")
    BY <1>5, <2>1, <2>2 DEF send_create
  <2>5. d \in Contents
    BY <2>1, <2>4 DEF ClientInv, ControlOK, Uploading, Local
  <2>6. Carried(r, "create_wait")
    BY <2>1, <2>3, <2>5, WaitLabels DEF Carried
  <2>7. QED
    BY <2>3, <2>4, <2>6, SendControl, SendInv
<1>6. CASE send_chunk
  <2>1. CASE EndsOnly("LocalFile")
    BY <2>1, EndsOnlyInv
  <2>2. CASE ~ EndsOnly("LocalFile")
    <3>1. pc = "put" /\ loc.sent < loc.size
      BY <1>6 DEF send_chunk
    <3>2. PICK d : d = SubSeq(file, loc.sent + 1, loc.sent + Want)
      OBVIOUS
    <3>3. d \in Seq(Nat)
      <4>1. loc.sent + Want \in Nat /\ Len(file) \in Nat /\ loc.sent \in Nat /\ file \in Seq(Nat)
        BY <3>1, WantFacts, LocFacts
      <4>2. ~ (Len(file) < loc.sent + Want)
        BY <1>6, <2>2 DEF send_chunk
      <4>3. \A i \in loc.sent + 1 .. loc.sent + Want : i \in 1 .. Len(file)
        BY <4>1, <4>2
      <4>4. \A i \in loc.sent + 1 .. loc.sent + Want : file[i] \in Nat
        BY <4>1, <4>3, ElementOfSeq
      <4>5. loc.sent + 1 \in Int /\ loc.sent + Want \in Int
        BY <4>1
      <4>6. QED
        BY <3>2, <4>4, <4>5, SubSeqProperties
    <3>4. PICK i \in Nat, o \in Int : i = loc.sid /\ o = loc.sent \div ChunkSize
      BY LocFacts, ConstFacts
    <3>5. PICK r : r = [NoRequest EXCEPT !.kind = "PUT", !.sid = i, !.ordinal = o, !.data = d]
      OBVIOUS
    <3>6. r \in Request /\ r.kind = "PUT" /\ r.sid = i
      BY <3>3, <3>5, NoRequestType DEF Request, Kinds
    <3>7. Send(r, "put_wait")
      BY <1>6, <2>2, <3>2, <3>4, <3>5 DEF send_chunk
    <3>8. Carried(r, "put_wait") /\ Opened(loc.sid)
      BY <3>1, <3>4, <3>6, WaitLabels DEF Carried, ClientInv, AnswersOK
    <3>9. QED
      BY <3>1, <3>6, <3>7, <3>8, SendControl, SendInv
  <2>3. QED
    BY <2>1, <2>2
<1>7. CASE send_commit
  <2>1. PICK i \in Nat : i = loc.sid
    BY LocFacts
  <2>2. PICK r : r = [NoRequest EXCEPT !.kind = "COMMIT", !.sid = i]
    OBVIOUS
  <2>3. r \in Request /\ r.kind = "COMMIT" /\ r.sid = i
    BY <2>2, RequestTypes
  <2>4. pc = "put" /\ Send(r, "commit_wait")
    BY <1>7, <2>1, <2>2 DEF send_commit
  <2>5. Carried(r, "commit_wait") /\ Opened(loc.sid)
    BY <2>1, <2>3, <2>4, WaitLabels DEF Carried, ClientInv, AnswersOK
  <2>6. QED
    BY <2>3, <2>4, <2>5, SendControl, SendInv
<1>8. QED
  BY <1>1, <1>2, <1>3, <1>4, <1>5, <1>6, <1>7

-----------------------------------------------------------------------------
(* An answer is taken.                                                     *)

LEMMA TailOfOne == ASSUME NEW q \in Seq(Answers), Len(q) = 1 PROVE Tail(q) = <<>> /\ q # <<>>
<1>1. q # <<>>
  BY EmptySeq
<1>2. Tail(q) \in Seq(Answers) /\ Len(Tail(q)) = 1 - 1
  BY <1>1, HeadTailProperties
<1>3. QED
  BY <1>1, <1>2, EmptySeq

LEMMA GoesInv ==
  ASSUME Types, ClientInv, pc \in waits, Len(down) = 1, NEW next \in Ready, Goes(next, loc'),
         ControlOK', AnswersOK'
  PROVE  ClientInv'
<1>1. pc' = next /\ down' = Tail(down) /\ UNCHANGED <<command, exit, disk, conn, up, server>>
  BY DEF Goes
<1>2. down # <<>>
  BY EmptySeq
<1>3. \A m \in up : m.conn # conn
  BY <1>2 DEF ClientInv, RequestsOK, Pending
<1>4. RequestsOK'
  BY <1>1, <1>3 DEF ClientInv, RequestsOK
<1>5. InTransit' /\ Done'
  BY <1>1 DEF InTransit, Done, Succeeded, UploadPublished, Ready
<1>6. PartIsPrefix'
  BY <1>1 DEF ClientInv, PartIsPrefix
<1>7. QED
  BY <1>4, <1>5, <1>6 DEF ClientInv

LEMMA DonesInv ==
  ASSUME Types, ClientInv,
         \/ hello_done \/ auth_done \/ create_done \/ put_done \/ show_done \/ commit_done
         \/ query_done
  PROVE  ClientInv'
<1>1. /\ pc \in waits \ {"data"} /\ down # <<>> /\ down[1].kind # "ERROR" /\ Came
      /\ down \in Seq(Answers)
  BY DEF hello_done, auth_done, create_done, put_done, show_done, commit_done, query_done,
         Receives, waits, Came, Types
<1>2. Len(down) = 1 /\ Tail(down) = <<>> /\ ~ stream.active
  <2>1. Len(down) <= 1 /\ ~ stream.active
    BY <1>1 DEF ClientInv, AnswersOK, ControlOK
  <2>2. Len(down) \in Nat /\ Len(down) # 0
    BY <1>1, EmptySeq, LenProperties
  <2>3. PICK n \in Nat : n = Len(down)
    BY <2>2
  <2>4. n = 1
    BY <2>1, <2>2, <2>3
  <2>5. QED
    BY <1>1, <2>1, <2>3, <2>4, TailOfOne
<1>a. down[1] \in Answers
  BY <1>1, <1>2, ElementOfSeq
<1>3. CASE hello_done
  <2>1. pc = "hello_wait" /\ Goes("auth", loc) /\ loc' = loc
    BY <1>3 DEF hello_done, Receives, Goes
  <2>2. ControlOK' /\ AnswersOK'
    BY <1>2, <2>1 DEF Goes, ClientInv, ControlOK, AnswersOK, Uploading, Downloading, Querying, Local, waits
  <2>3. QED
    BY <1>1, <1>2, <2>1, <2>2, GoesInv DEF Ready
<1>4. CASE auth_done
  <2>1. pc = "auth_wait" /\ Goes(FirstRequest, loc) /\ loc' = loc
    BY <1>4 DEF auth_done, Receives, Goes
  <2>2. /\ FirstRequest \in {"create", "show", "query"}
        /\ FirstRequest = "create" => cmd = "upload"
        /\ FirstRequest = "show" => cmd \in {"download", "resume"}
        /\ FirstRequest = "query" => cmd \notin {"upload", "download", "resume"}
    BY DEF FirstRequest
  <2>3. ControlOK' /\ AnswersOK'
    BY <1>2, <2>1, <2>2
       DEF Goes, ClientInv, ControlOK, AnswersOK, Uploading, Downloading, Querying, Local, waits
  <2>4. QED
    BY <1>1, <1>2, <2>1, <2>2, <2>3, GoesInv DEF Ready
<1>5. CASE create_done
  <2>1. PICK n \in Nat : n = down[1].n
    BY <1>a DEF Answers
  <2>2. pc = "create_wait" /\ Goes("put", loc') /\ loc' = [loc EXCEPT !.sid = n]
    BY <1>5, <2>1 DEF create_done, Receives, Goes
  <2>3. loc'.digest = loc.digest /\ loc'.sid = n
    BY <2>2 DEF Types
  <2>4. Opened(loc.sid)'
    BY <1>1, <2>1, <2>2, <2>3 DEF Goes, ClientInv, AnswersOK, Opened
  <2>5. ControlOK' /\ AnswersOK'
    BY <1>2, <2>2, <2>3, <2>4
       DEF Goes, ClientInv, ControlOK, AnswersOK, Uploading, Downloading, Querying, Local, waits
  <2>6. QED
    BY <1>1, <1>2, <2>2, <2>5, GoesInv DEF Ready
<1>6. CASE put_done
  <2>1. PICK n : n = loc.sent + Want
    OBVIOUS
  <2>2. pc = "put_wait" /\ Goes("put", loc') /\ loc' = [loc EXCEPT !.sent = n]
    BY <1>6, <2>1 DEF put_done, Receives, Goes
  <2>3. loc'.digest = loc.digest /\ loc'.sid = loc.sid
    BY <2>2 DEF Types
  <2>4. Opened(loc.sid)'
    BY <2>2, <2>3 DEF Goes, ClientInv, AnswersOK, Opened
  <2>5. ControlOK' /\ AnswersOK'
    BY <1>2, <2>2, <2>3, <2>4
       DEF Goes, ClientInv, ControlOK, AnswersOK, Uploading, Downloading, Querying, Local, waits
  <2>6. QED
    BY <1>1, <1>2, <2>2, <2>5, GoesInv DEF Ready
<1>7. CASE show_done
  <2>1. PICK n \in Nat : n = down[1].n
    BY <1>a DEF Answers
  <2>2. pc = "show_wait" /\ Goes("open", loc') /\ loc' = [loc EXCEPT !.size = n]
    BY <1>7, <2>1 DEF show_done, Receives, Goes
  <2>3. loc'.size = n /\ artifact # NoFile /\ n = Len(artifact)
    BY <1>1, <2>1, <2>2 DEF Types, ClientInv, AnswersOK
  <2>4. ControlOK' /\ AnswersOK'
    BY <1>2, <2>2, <2>3
       DEF Goes, ClientInv, ControlOK, AnswersOK, Uploading, Downloading, Querying, Local, waits
  <2>5. QED
    BY <1>1, <1>2, <2>2, <2>4, GoesInv DEF Ready
<1>8. CASE commit_done
  <2>1. pc = "commit_wait" /\ EndsOnly("Ok")
    BY <1>8 DEF commit_done, Receives
  <2>2. cmd = "upload" /\ artifact = loc.digest /\ loc.digest \in Contents
    BY <1>1, <2>1 DEF ClientInv, ControlOK, AnswersOK, Uploading, Local
  <2>3. QED
    BY <2>1, <2>2, EndsOnlyInv
<1>9. CASE query_done
  <2>1. pc = "query_wait" /\ EndsOnly("Ok")
    BY <1>9 DEF query_done, Receives
  <2>2. cmd \notin {"upload", "download", "resume"}
    BY <2>1 DEF ClientInv, ControlOK, Querying
  <2>3. QED
    BY <2>1, <2>2, EndsOnlyInv
<1>10. QED
  BY <1>3, <1>4, <1>5, <1>6, <1>7, <1>8, <1>9

-----------------------------------------------------------------------------
(* The .part file.                                                         *)

LEMMA PrefixFacts ==
  ASSUME NEW s \in Seq(Nat), NEW t \in Seq(Nat)
  PROVE  IsPrefix(s, t) <=> Len(s) <= Len(t) /\ \A i \in 1 .. Len(s) : s[i] = t[i]
<1>1. PICK n \in Nat : n = Len(s)
  BY LenProperties
<1>2. Len(t) \in Nat
  BY LenProperties
<1>3. ASSUME n <= Len(t)
      PROVE  SubSeq(s, 1, n) = SubSeq(t, 1, n) <=> \A i \in 1 .. n : s[i] = t[i]
  <2>1. /\ SubSeq(s, 1, n) \in Seq(Nat) /\ Len(SubSeq(s, 1, n)) = n
        /\ \A i \in 1 .. n : SubSeq(s, 1, n)[i] = s[i]
    BY <1>1, CutFacts
  <2>2. /\ SubSeq(t, 1, n) \in Seq(Nat) /\ Len(SubSeq(t, 1, n)) = n
        /\ \A i \in 1 .. n : SubSeq(t, 1, n)[i] = t[i]
    BY <1>3, CutFacts
  <2>3. (\A i \in 1 .. n : s[i] = t[i]) => SubSeq(s, 1, n) = SubSeq(t, 1, n)
    <3>1. SUFFICES ASSUME \A i \in 1 .. n : s[i] = t[i] PROVE SubSeq(s, 1, n) = SubSeq(t, 1, n)
      OBVIOUS
    <3>2. PICK a \in Seq(Nat), b \in Seq(Nat) : a = SubSeq(s, 1, n) /\ b = SubSeq(t, 1, n)
      BY <2>1, <2>2
    <3>3. Len(a) = n /\ Len(b) = n /\ \A i \in 1 .. n : a[i] = b[i]
      BY <2>1, <2>2, <3>1, <3>2
    <3>4. a = b
      BY <3>3, SeqEqual
    <3>5. QED
      BY <3>2, <3>4
  <2>4. SubSeq(s, 1, n) = SubSeq(t, 1, n) => \A i \in 1 .. n : s[i] = t[i]
    BY <2>1, <2>2
  <2>5. QED
    BY <2>3, <2>4
<1>4. QED
  BY <1>1, <1>2, <1>3 DEF IsPrefix

LEMMA PrefixOfPrefix ==
  ASSUME NEW s \in Seq(Nat), NEW t \in Seq(Nat), IsPrefix(s, t), NEW n \in Nat, n <= Len(s)
  PROVE  SubSeq(s, 1, n) \in Seq(Nat) /\ IsPrefix(SubSeq(s, 1, n), t)
<1>1. PICK a \in Seq(Nat) : a = SubSeq(s, 1, n) /\ Len(a) = n /\ \A i \in 1 .. n : a[i] = s[i]
  BY CutFacts
<1>2. Len(s) \in Nat /\ Len(t) \in Nat /\ Len(s) <= Len(t) /\ \A i \in 1 .. Len(s) : s[i] = t[i]
  BY PrefixFacts, LenProperties
<1>3. n <= Len(t) /\ \A i \in 1 .. n : i \in 1 .. Len(s)
  BY <1>2
<1>4. \A i \in 1 .. n : a[i] = t[i]
  BY <1>1, <1>2, <1>3
<1>5. IsPrefix(a, t)
  BY <1>1, <1>3, <1>4, PrefixFacts
<1>6. QED
  BY <1>1, <1>5

\* A beginning followed by the bytes behind it is a beginning.
Behind(s, t, y, d) == IsPrefix(s, t) /\ Len(s) <= y /\ y <= Len(t) /\ d = SubSeq(t, Len(s) + 1, y)
Joined(s, t, y, d) == s \o d \in Seq(Nat) /\ Len(s \o d) = y /\ IsPrefix(s \o d, t)
LEMMA PrefixGrows ==
  ASSUME NEW s \in Seq(Nat), NEW t \in Seq(Nat), NEW y \in Nat, NEW d, Behind(s, t, y, d)
  PROVE  Joined(s, t, y, d)
<1>a. IsPrefix(s, t) /\ Len(s) <= y /\ y <= Len(t) /\ d = SubSeq(t, Len(s) + 1, y)
  BY DEF Behind
<1>1. PICK x \in Nat, n \in Nat : x = Len(s) /\ n = Len(t)
  BY LenProperties
<1>2. \A i \in 1 .. x : s[i] = t[i]
  BY <1>a, <1>1, PrefixFacts
<1>3. \A i \in x + 1 .. y : t[i] \in Nat
  <2>1. \A i \in x + 1 .. y : i \in 1 .. Len(t)
    BY <1>a, <1>1
  <2>2. QED
    BY <2>1, ElementOfSeq
<1>4. x + 1 \in Int /\ y \in Int
  OBVIOUS
<1>5. /\ d \in Seq(Nat) /\ Len(d) = (IF x + 1 <= y THEN y - (x + 1) + 1 ELSE 0)
      /\ \A i \in 1 .. y - (x + 1) + 1 : d[i] = t[x + 1 + i - 1]
  BY <1>a, <1>1, <1>3, <1>4, SubSeqProperties
<1>6. Len(d) = y - x
  BY <1>a, <1>1, <1>5
<1>7. \A i \in 1 .. y - x : d[i] = t[x + i]
  <2>1. \A i \in 1 .. y - x : i \in 1 .. y - (x + 1) + 1 /\ x + 1 + i - 1 = x + i
    OBVIOUS
  <2>2. QED
    BY <1>5, <2>1
<1>8. PICK a \in Seq(Nat) :
        /\ a = s \o d /\ Len(a) = Len(s) + Len(d)
        /\ \A i \in 1 .. Len(s) + Len(d) : a[i] = IF i <= Len(s) THEN s[i] ELSE d[i - Len(s)]
  <2>1. /\ s \o d \in Seq(Nat) /\ Len(s \o d) = Len(s) + Len(d)
        /\ \A i \in 1 .. Len(s) + Len(d) : (s \o d)[i] = IF i <= Len(s) THEN s[i] ELSE d[i - Len(s)]
    BY <1>5, ConcatProperties
  <2>2. QED
    BY <2>1
<1>9. Len(a) = y /\ \A i \in 1 .. y : a[i] = IF i <= x THEN s[i] ELSE d[i - x]
  BY <1>1, <1>6, <1>8
<1>10. \A i \in 1 .. y : a[i] = t[i]
  <2>1. TAKE i \in 1 .. y
  <2>2. CASE i <= x
    <3>1. i \in 1 .. x
      BY <2>2
    <3>2. QED
      BY <1>2, <1>9, <2>2, <3>1
  <2>3. CASE ~ (i <= x)
    <3>1. i - x \in 1 .. y - x /\ x + (i - x) = i
      BY <2>3
    <3>2. QED
      BY <1>7, <1>9, <2>3, <3>1
  <2>4. QED
    BY <2>2, <2>3
<1>11. IsPrefix(a, t)
  BY <1>a, <1>9, <1>10, PrefixFacts
<1>12. QED
  BY <1>8, <1>9, <1>11 DEF Joined

LEMMA PartFacts ==
  ASSUME Types, ClientInv, part # NoFile
  PROVE  /\ part \in Seq(Nat) /\ artifact \in Seq(Nat) /\ artifact # NoFile /\ IsPrefix(part, artifact)
         /\ Len(part) \in Nat /\ Len(artifact) \in Nat /\ Len(part) <= Len(artifact)
<1>1. part \in Seq(Nat) /\ artifact \in Seq(Nat) /\ artifact # NoFile /\ IsPrefix(part, artifact)
  BY LocFacts DEF ClientInv, PartIsPrefix
<1>2. QED
  BY <1>1, PrefixFacts, LenProperties

LEMMA OpenInv == ASSUME Types, ClientInv, open_part PROVE ClientInv'
<1>1. PICK o \in Nat :
           /\ pc = "open" /\ pc' = "data" /\ o <= loc.size
           /\ part' = (IF o # 0 THEN part ELSE <<>>) /\ part' \in Seq(Nat) /\ Len(part') = o
           /\ loc' \in [size : Nat, digest : Seq(Nat), sid : Nat, sent : Nat, offset : Nat]
           /\ up' = up \cup {[conn |-> conn, req |-> [NoRequest EXCEPT !.kind = "GET", !.offset = o,
                                                                     !.size = loc.size - o]]}
           /\ loc.size - o \in Nat
           /\ UNCHANGED <<command, exit, file, out, conn, down, server>>
  BY OpenFacts
<1>2. PICK n \in Nat : n = loc.size - o
  BY <1>1
<1>3. PICK r \in Request : r = [NoRequest EXCEPT !.kind = "GET", !.offset = o, !.size = n]
  BY RequestTypes
<1>4. r.kind = "GET" /\ r.offset = o /\ r.size = n
  BY <1>3, NoRequestType DEF Request
<1>5. PICK q : q = [conn |-> conn, req |-> r]
  OBVIOUS
<1>6. q.conn = conn /\ q.req = r /\ up' = up \cup {q} /\ conn \in Nat
  BY <1>1, <1>2, <1>3, <1>5 DEF Types
<1>7. down = <<>> /\ ~ stream.active /\ cmd \in {"download", "resume"}
  BY <1>1 DEF ClientInv, ControlOK, waits, Downloading
<1>8. \A m \in up : m.conn # conn
  BY <1>1 DEF ClientInv, RequestsOK, Ready
<1>9. artifact # NoFile /\ loc.size = Len(artifact) /\ artifact \in Seq(Nat) /\ Len(artifact) \in Nat
  BY <1>1, LocFacts DEF ClientInv, AnswersOK
<1>10. ControlOK'
  BY <1>1, <1>7 DEF ControlOK, Uploading, Downloading, Querying, Local, waits
<1>11. Pending(q)'
  <2>1. \A m \in up' : m.conn = conn' => m = q
    BY <1>1, <1>6, <1>8
  <2>2. q.req.offset = Len(part') /\ q.req.size + Len(part') = Len(artifact')
    <3>1. loc.size \in Nat /\ artifact' = artifact
      BY <1>1, LocFacts
    <3>2. n + o = loc.size
      BY <1>2, <3>1
    <3>3. QED
      BY <1>1, <1>4, <1>6, <1>9, <3>1, <3>2
  <2>3. QED
    BY <1>1, <1>4, <1>6, <1>7, <2>1, <2>2, WaitLabels DEF Pending
<1>12. RequestsOK'
  <2>1. \A m \in up : /\ m.conn <= conn'
                      /\ m.req.kind = "CREATE" => m.req.data \in Contents
                      /\ m.req.kind \in {"PUT", "COMMIT"} => m.req.sid \in DOMAIN sessions'
                      /\ m.conn # conn'
    BY <1>1, <1>8 DEF ClientInv, RequestsOK
  <2>2. q.conn <= conn' /\ q.req.kind = "GET" /\ pc' \notin Ready
    BY <1>1, <1>4, <1>6 DEF Ready
  <2>3. QED
    BY <1>6, <1>11, <2>1, <2>2 DEF RequestsOK
<1>13. AnswersOK'
  BY <1>1, ConstFacts DEF AnswersOK, waits
<1>14. PartIsPrefix'
  <2>1. o # 0 => IsPrefix(part, artifact)
    <3>1. o # 0 => part # NoFile
      BY <1>1, ConstFacts
    <3>2. QED
      BY <3>1 DEF ClientInv, PartIsPrefix
  <2>2. o = 0 => IsPrefix(part', artifact)
    <3>1. PICK z \in Seq(Nat) : z = part' /\ Len(z) = o
      BY <1>1
    <3>2. o = 0 => Len(z) <= Len(artifact) /\ \A i \in 1 .. Len(z) : z[i] = artifact[i]
      BY <1>9, <3>1
    <3>3. QED
      BY <1>9, <3>1, <3>2, PrefixFacts
  <2>3. QED
    BY <1>1, <1>9, <2>1, <2>2 DEF PartIsPrefix
<1>15. InTransit'
  <2>1. PICK c : c = [i \in 1 .. 0 + 1 |-> o]
    OBVIOUS
  <2>2. c \in [1 .. 0 + 1 -> 0 .. Len(artifact')] /\ c[1] = Len(part')
    BY <1>1, <1>9, <2>1
  <2>3. Len(down') = 0 /\ ~ stream'.active
    BY <1>1, <1>7, EmptySeq
  <2>4. Continues(0, c)'
    BY <2>2, <2>3 DEF Continues
  <2>5. QED
    BY <2>2, <2>3, <2>4 DEF InTransit
<1>16. Done'
  BY <1>1 DEF Done, Succeeded, UploadPublished
<1>17. QED
  BY <1>10, <1>12, <1>13, <1>14, <1>15, <1>16 DEF ClientInv

-----------------------------------------------------------------------------
(* The frames of a download.                                               *)

\* What the client knows of the first frame it has not read.
LEMMA TransitFacts ==
  ASSUME Types, ClientInv, pc = "data"
  PROVE  \E k \in Nat : \E c \in [1 .. k + 1 -> 0 .. Len(artifact)] :
           /\ k <= Len(down) /\ Len(down) \in Nat /\ Continues(k, c)
           /\ \A i \in 1 .. k + 1 : c[i] \in Nat /\ c[i] <= Len(artifact)
           /\ part # NoFile
<1>1. part # NoFile /\ Len(artifact) \in Nat /\ Len(down) \in Nat
  <2>1. part # NoFile /\ down \in Seq(Answers)
    BY DEF ClientInv, AnswersOK, Types
  <2>2. QED
    BY <2>1, PartFacts, LenProperties
<1>2. PICK k \in 0 .. Len(down) : \E c \in [1 .. k + 1 -> 0 .. Len(artifact)] : Continues(k, c)
  BY DEF ClientInv, InTransit
<1>3. PICK c \in [1 .. k + 1 -> 0 .. Len(artifact)] : Continues(k, c)
  BY <1>2
<1>4. \A i \in 1 .. k + 1 : c[i] \in Nat /\ c[i] <= Len(artifact)
  BY <1>1
<1>5. k \in Nat /\ k <= Len(down)
  BY <1>1, <1>2
<1>6. QED
  BY <1>1, <1>3, <1>4, <1>5

LEMMA DataEndInv == ASSUME Types, ClientInv, data_end PROVE ClientInv'
<1>1. pc = "data" /\ down # <<>> /\ down[1].kind = "OK" /\ Goes("rename", loc) /\ loc' = loc
  BY DEF data_end, Receives, Goes
<1>2. PICK k \in Nat : \E c \in [1 .. k + 1 -> 0 .. Len(artifact)] :
           /\ k <= Len(down) /\ Len(down) \in Nat /\ Continues(k, c)
           /\ part # NoFile
  BY <1>1, TransitFacts
<1>3. PICK c \in [1 .. k + 1 -> 0 .. Len(artifact)] :
           /\ k <= Len(down) /\ Len(down) \in Nat /\ Continues(k, c)
           /\ part # NoFile
  BY <1>2
<1>4. k = 0
  <2>1. k # 0 => 1 \in 1 .. k
    OBVIOUS
  <2>2. QED
    BY <1>1, <1>3, <2>1 DEF Continues, Carries
<1>5. Len(down) # 0
  BY <1>1, EmptySeq DEF Types
<1>6. k + 1 = Len(down) /\ ~ stream.active /\ (down[k + 1] = FAILED \/ c[k + 1] = Len(artifact))
  BY <1>3, <1>4, <1>5 DEF Continues
<1>7. Len(down) = 1 /\ Len(part) = Len(artifact)
  BY <1>1, <1>3, <1>4, <1>6, AnswerType DEF Continues
<1>8. part = artifact
  <2>1. part \in Seq(Nat) /\ artifact \in Seq(Nat) /\ IsPrefix(part, artifact)
    BY <1>3, PartFacts
  <2>2. \A i \in 1 .. Len(part) : part[i] = artifact[i]
    BY <2>1, PrefixFacts
  <2>3. QED
    BY <1>7, <2>1, <2>2, SeqEqual
<1>9. down' = <<>> /\ pc' = "rename" /\ UNCHANGED <<command, exit, disk, conn, up, server>>
  <2>1. down \in Seq(Answers)
    BY DEF Types
  <2>2. Tail(down) = <<>>
    BY <1>7, <2>1, TailOfOne
  <2>3. QED
    BY <1>1, <2>2 DEF Goes
<1>10. cmd \in {"download", "resume"}
  BY <1>1 DEF ClientInv, ControlOK, Downloading
<1>11. ControlOK' /\ AnswersOK'
  BY <1>3, <1>6, <1>8, <1>9, <1>10
     DEF ControlOK, AnswersOK, Uploading, Downloading, Querying, Local, waits
<1>12. QED
  BY <1>1, <1>7, <1>11, GoesInv DEF Ready, waits

\* The bytes of a DATA frame are the ones behind the end of the .part file.
LEMMA FrameFacts ==
  ASSUME Types, ClientInv, pc = "data", down # <<>>, down[1].kind = "DATA"
  PROVE  \E k \in Nat : \E c \in [1 .. k + 1 -> 0 .. Len(artifact)] :
           /\ 1 <= k /\ k <= Len(down) /\ Len(down) \in Nat /\ Continues(k, c)
           /\ \A i \in 1 .. k + 1 : c[i] \in Nat /\ c[i] <= Len(artifact)
           /\ part \in Seq(Nat) /\ artifact \in Seq(Nat) /\ artifact # NoFile
           /\ part \o down[1].data \in Seq(Nat) /\ Len(part \o down[1].data) = c[2]
           /\ IsPrefix(part \o down[1].data, artifact)
<1>1. PICK k \in Nat : \E c \in [1 .. k + 1 -> 0 .. Len(artifact)] :
           /\ k <= Len(down) /\ Len(down) \in Nat /\ Continues(k, c)
           /\ \A i \in 1 .. k + 1 : c[i] \in Nat /\ c[i] <= Len(artifact)
           /\ part # NoFile
  BY TransitFacts
<1>2. PICK c \in [1 .. k + 1 -> 0 .. Len(artifact)] :
           /\ k <= Len(down) /\ Len(down) \in Nat /\ Continues(k, c)
           /\ \A i \in 1 .. k + 1 : c[i] \in Nat /\ c[i] <= Len(artifact)
           /\ part # NoFile
  BY <1>1
<1>3. Len(down) # 0
  BY EmptySeq DEF Types
<1>4. k # 0
  <2>1. SUFFICES ASSUME k = 0 PROVE FALSE
    OBVIOUS
  <2>2. k + 1 = Len(down) /\ (down[k + 1] = FAILED \/ down[k + 1] = OK(0))
    BY <1>2, <1>3, <2>1 DEF Continues
  <2>3. down[1] = FAILED \/ down[1] = OK(0)
    BY <2>1, <2>2
  <2>4. QED
    BY <2>3, AnswerType
<1>5. 1 \in 1 .. k /\ 1 + 1 = 2 /\ 1 \in 1 .. k + 1 /\ 2 \in 1 .. k + 1
  BY <1>4
<1>6. Carries(down[1], c[1], c[2]) /\ c[1] = Len(part) /\ c[2] \in Nat /\ c[2] <= Len(artifact)
  BY <1>2, <1>5 DEF Continues
<1>7. part \in Seq(Nat) /\ artifact \in Seq(Nat) /\ artifact # NoFile /\ IsPrefix(part, artifact)
  BY <1>2, PartFacts
<1>8. PICK y \in Nat : y = c[2]
  BY <1>6
<1>a. PICK d : d = down[1].data
  OBVIOUS
<1>9. d = SubSeq(artifact, Len(part) + 1, y) /\ Len(part) <= y /\ y <= Len(artifact)
  BY <1>6, <1>8, <1>a DEF Carries
<1>10. part \o d \in Seq(Nat) /\ Len(part \o d) = y /\ IsPrefix(part \o d, artifact)
  <2>1. PICK p \in Seq(Nat), t \in Seq(Nat) : p = part /\ t = artifact
    BY <1>7
  <2>2. Behind(p, t, y, d)
    BY <1>7, <1>9, <2>1 DEF Behind
  <2>3. Joined(p, t, y, d)
    BY <2>2, PrefixGrows
  <2>4. QED
    BY <2>1, <2>3 DEF Joined
<1>11. 1 <= k
  BY <1>4
<1>12. QED
  BY <1>2, <1>7, <1>8, <1>a, <1>10, <1>11

LEMMA WriteInv == ASSUME Types, ClientInv, write_data PROVE ClientInv'
<1>1. /\ pc = "data" /\ down # <<>> /\ down[1].kind = "DATA" /\ part' = part \o down[1].data
      /\ down' = Tail(down) /\ UNCHANGED <<command, pc, exit, loc, file, out, conn, up, server>>
  BY DEF write_data, Receives
<1>2. PICK k \in Nat : \E c \in [1 .. k + 1 -> 0 .. Len(artifact)] :
           /\ 1 <= k /\ k <= Len(down) /\ Len(down) \in Nat /\ Continues(k, c)
           /\ \A i \in 1 .. k + 1 : c[i] \in Nat /\ c[i] <= Len(artifact)
           /\ part \in Seq(Nat) /\ artifact \in Seq(Nat) /\ artifact # NoFile
           /\ part \o down[1].data \in Seq(Nat) /\ Len(part \o down[1].data) = c[2]
           /\ IsPrefix(part \o down[1].data, artifact)
  BY <1>1, FrameFacts
<1>3. PICK c \in [1 .. k + 1 -> 0 .. Len(artifact)] :
           /\ 1 <= k /\ k <= Len(down) /\ Len(down) \in Nat /\ Continues(k, c)
           /\ \A i \in 1 .. k + 1 : c[i] \in Nat /\ c[i] <= Len(artifact)
           /\ part \in Seq(Nat) /\ artifact \in Seq(Nat) /\ artifact # NoFile
           /\ part' \in Seq(Nat) /\ Len(part') = c[2] /\ IsPrefix(part', artifact)
  BY <1>1, <1>2
<1>4. PartIsPrefix' /\ part' # NoFile
  BY <1>1, <1>3, ConstFacts DEF PartIsPrefix
<1>5. \A m \in up : m.conn # conn
  BY <1>1 DEF ClientInv, RequestsOK, Pending, waits
<1>6. RequestsOK'
  BY <1>1, <1>5 DEF ClientInv, RequestsOK
<1>7. ControlOK'
  BY <1>1 DEF ClientInv, ControlOK, Uploading, Downloading, Querying, Local, waits
<1>8. AnswersOK' /\ Done'
  BY <1>1, <1>4 DEF AnswersOK, Done, Succeeded, UploadPublished, waits
<1>9. InTransit'
  <2>1. PICK j \in Nat : j = k - 1
    BY <1>3
  <2>2. PICK e : e = [i \in 1 .. j + 1 |-> c[i + 1]]
    OBVIOUS
  <2>3. \A i \in 1 .. j + 1 : i + 1 \in 1 .. k + 1 /\ c[i + 1] \in 0 .. Len(artifact)
    BY <2>1
  <2>4. e \in [1 .. j + 1 -> 0 .. Len(artifact')]
    BY <1>1, <2>2, <2>3
  <2>5. /\ Len(down') = Len(down) - 1 /\ \A i \in 1 .. Len(down) - 1 : down'[i] = down[i + 1]
        /\ down' \in Seq(Answers)
    <3>1. /\ Len(Tail(down)) = Len(down) - 1 /\ \A i \in 1 .. Len(Tail(down)) : Tail(down)[i] = down[i + 1]
          /\ Tail(down) \in Seq(Answers)
      BY <1>1, HeadTailProperties DEF Types
    <3>2. QED
      BY <1>1, <3>1
  <2>6. \A i \in 1 .. j : Carries(down[i], e[i], e[i + 1])'
    <3>1. TAKE i \in 1 .. j
    <3>2. i + 1 \in 1 .. k /\ i \in 1 .. Len(down) - 1 /\ i \in 1 .. j + 1 /\ i + 1 \in 1 .. j + 1
      BY <1>3, <2>1
    <3>3. Carries(down[i + 1], c[i + 1], c[i + 1 + 1])
      BY <1>3, <3>2 DEF Continues
    <3>4. e[i] = c[i + 1] /\ e[i + 1] = c[i + 1 + 1] /\ down'[i] = down[i + 1]
      BY <2>2, <2>5, <3>2
    <3>5. QED
      BY <1>1, <3>3, <3>4 DEF Carries
  <2>7. e[1] = Len(part') /\ e[j + 1] = c[k + 1]
    <3>1. 1 \in 1 .. j + 1 /\ j + 1 \in 1 .. j + 1 /\ j + 1 + 1 = k + 1 /\ 1 + 1 = 2
      BY <2>1
    <3>2. QED
      BY <1>3, <2>2, <3>1
  <2>8. Continues(j, e)'
    <3>1. CASE k = Len(down)
      <4>1. stream.active => stream.offset = c[k + 1] /\ stream.offset + stream.remaining = Len(artifact)
        BY <1>3, <3>1 DEF Continues
      <4>2. j = Len(down')
        BY <1>3, <2>1, <2>5, <3>1
      <4>3. QED
        BY <1>1, <2>6, <2>7, <4>1, <4>2 DEF Continues
    <3>2. CASE k + 1 = Len(down)
      <4>1. ~ stream.active /\ (down[k + 1] = FAILED \/ (down[k + 1] = OK(0) /\ c[k + 1] = Len(artifact)))
        BY <1>3, <3>2 DEF Continues
      <4>2. j + 1 = Len(down') /\ j + 1 \in 1 .. Len(down) - 1 /\ j + 1 + 1 = k + 1
        BY <1>3, <2>1, <2>5, <3>2
      <4>3. down'[j + 1] = down[k + 1]
        BY <2>5, <4>2
      <4>4. QED
        BY <1>1, <2>6, <2>7, <4>1, <4>2, <4>3 DEF Continues
    <3>3. QED
      BY <1>3, <3>1, <3>2 DEF Continues
  <2>9. j \in 0 .. Len(down')
    BY <1>3, <2>1, <2>5
  <2>10. QED
    BY <2>4, <2>8, <2>9 DEF InTransit
<1>10. QED
  BY <1>4, <1>6, <1>7, <1>8, <1>9 DEF ClientInv

LEMMA CutInv == ASSUME Types, ClientInv, write_fails \/ kill \/ close_and_rename PROVE ClientInv'
<1>1. CASE write_fails
  <2>1. /\ pc = "data" /\ down # <<>> /\ down[1].kind = "DATA" /\ Ends("LocalFile")
        /\ UNCHANGED <<command, file, out, loc, conn, up, artifact, sessions>>
    BY <1>1 DEF write_fails, Receives
  <2>2. PICK all \in Seq(Nat) : /\ all = part \o down[1].data /\ IsPrefix(all, artifact)
                                /\ artifact \in Seq(Nat) /\ artifact # NoFile
    BY <2>1, FrameFacts
  <2>3. PICK n \in loc.offset .. Len(all) : part' = SubSeq(all, 1, n)
    BY <1>1, <2>2 DEF write_fails
  <2>4. n \in Nat /\ n <= Len(all)
    BY <2>3, LocFacts, LenProperties
  <2>5. IsPrefix(part', artifact)
    BY <2>2, <2>3, <2>4, PrefixOfPrefix
  <2>6. PartIsPrefix' /\ Done'
    BY <2>1, <2>2, <2>5 DEF PartIsPrefix, Done, Succeeded, UploadPublished, Ends
  <2>7. QED
    BY <2>1, <2>6, EndsInv
<1>2. CASE kill
  <2>1. Ends("Killed") /\ UNCHANGED <<command, file, out, loc, conn, up, artifact, sessions>>
    BY <1>2 DEF kill
  <2>2. PartIsPrefix'
    <3>1. CASE pc \in {"data", "rename"}
      <4>1. part # NoFile
        BY <3>1 DEF ClientInv, AnswersOK
      <4>2. part \in Seq(Nat) /\ artifact \in Seq(Nat) /\ artifact # NoFile /\ IsPrefix(part, artifact)
        BY <4>1, PartFacts
      <4>3. PICK n \in loc.offset .. Len(part) : part' = SubSeq(part, 1, n)
        BY <1>2, <3>1 DEF kill
      <4>4. n \in Nat /\ n <= Len(part)
        BY <4>2, <4>3, LocFacts, LenProperties
      <4>5. IsPrefix(part', artifact)
        BY <4>2, <4>3, <4>4, PrefixOfPrefix
      <4>6. QED
        BY <2>1, <4>2, <4>5 DEF PartIsPrefix
    <3>2. CASE pc \notin {"data", "rename"}
      BY <1>2, <2>1, <3>2 DEF kill, ClientInv, PartIsPrefix
    <3>3. QED
      BY <3>1, <3>2
  <2>3. Done'
    BY <2>1 DEF Done, Succeeded, UploadPublished, Ends
  <2>4. QED
    BY <2>1, <2>2, <2>3, EndsInv
<1>3. CASE close_and_rename
  <2>1. /\ pc = "rename" /\ out' = part /\ part' = NoFile /\ Ends("Ok")
        /\ UNCHANGED <<command, loc, file, conn, up, artifact, sessions>>
    BY <1>3 DEF close_and_rename
  <2>2. part = artifact /\ part # NoFile /\ cmd \in {"download", "resume"}
    BY <2>1 DEF ClientInv, AnswersOK, ControlOK, Downloading
  <2>3. PartIsPrefix' /\ Done'
    BY <2>1, <2>2 DEF PartIsPrefix, Done, Succeeded, UploadPublished
  <2>4. QED
    BY <2>1, <2>3, EndsInv
<1>4. QED
  BY <1>1, <1>2, <1>3

-----------------------------------------------------------------------------
(* The server handles a request.                                           *)

Serves(m) ==
  \/ serve_plain(m) \/ serve_error(m) \/ lose_request(m) \/ serve_create(m) \/ serve_put(m)
  \/ serve_commit(m) \/ serve_show(m) \/ serve_get(m)

LEMMA HandledFacts ==
  ASSUME NEW m \in up, Serves(m)
  PROVE  up' = up \ {m} /\ UNCHANGED <<command, pc, exit, disk, loc, conn>>
BY DEF Serves, serve_plain, serve_error, lose_request, serve_create, serve_put, serve_commit, serve_show,
       serve_get, Handled

\* Sessions stay and keep their digest; an artifact that exists stays.
LEMMA ServerKeeps ==
  ASSUME Types, NEW m \in up, Serves(m)
  PROVE  /\ \A n \in DOMAIN sessions : n \in DOMAIN sessions' /\ sessions'[n].digest = sessions[n].digest
         /\ artifact' = artifact \/ artifact = NoFile
<1>1. artifact' = artifact \/ artifact = NoFile
  BY DEF Serves, serve_plain, serve_error, lose_request, serve_create, serve_put, serve_commit, serve_show,
         serve_get
<1>2. sessions \in Seq(Upload) /\ DOMAIN sessions = 1 .. Len(sessions) /\ Len(sessions) \in Nat
  BY LenProperties DEF Types
<1>3. \A n \in DOMAIN sessions : n \in DOMAIN sessions' /\ sessions'[n].digest = sessions[n].digest
  <2>1. CASE serve_create(m)
    <3>1. PICK u : sessions' = Append(sessions, u)
      BY <2>1 DEF serve_create
    <3>2. \A n \in 1 .. Len(sessions) : n \in DOMAIN Append(sessions, u) /\ Append(sessions, u)[n] = sessions[n]
      BY <1>2
    <3>3. QED
      BY <1>2, <3>1, <3>2
  <2>2. CASE serve_put(m)
    <3>1. TAKE n \in DOMAIN sessions
    <3>2. PICK v : sessions' = [sessions EXCEPT ![m.req.sid] = [sessions[m.req.sid] EXCEPT !.parts = v]]
      BY <2>2 DEF serve_put
    <3>3. PICK u \in Upload : u = sessions[n]
      BY <1>2, ElementOfSeq
    <3>4. [u EXCEPT !.parts = v].digest = u.digest
      BY DEF Upload
    <3>5. QED
      BY <3>1, <3>2, <3>3, <3>4
  <2>3. CASE serve_commit(m)
    <3>1. TAKE n \in DOMAIN sessions
    <3>2. sessions' = [sessions EXCEPT ![m.req.sid] = [sessions[m.req.sid] EXCEPT !.state = "COMPLETED"]]
      BY <2>3 DEF serve_commit
    <3>3. PICK u \in Upload : u = sessions[n]
      BY <1>2, ElementOfSeq
    <3>4. [u EXCEPT !.state = "COMPLETED"].digest = u.digest
      BY DEF Upload
    <3>5. QED
      BY <3>1, <3>2, <3>3, <3>4
  <2>4. CASE ~ (serve_create(m) \/ serve_put(m) \/ serve_commit(m))
    BY <2>4 DEF Serves, serve_plain, serve_error, lose_request, serve_show, serve_get
  <2>5. QED
    BY <2>1, <2>2, <2>3, <2>4
<1>4. QED
  BY <1>1, <1>3

LEMMA PartKept ==
  ASSUME Types, ClientInv, artifact' = artifact \/ artifact = NoFile, part' = part
  PROVE  PartIsPrefix' /\ (part # NoFile => artifact' = artifact)
BY DEF ClientInv, PartIsPrefix

\* A request of an earlier command, or one the command no longer waits for.
LEMMA ServeOther ==
  ASSUME Types, ClientInv, NEW m \in up, Serves(m), ~ (m.conn = conn /\ pc \in waits)
  PROVE  ClientInv'
<1>1. up' = up \ {m} /\ UNCHANGED <<command, pc, exit, disk, loc, conn>>
  BY HandledFacts
<1>2. /\ \A n \in DOMAIN sessions : n \in DOMAIN sessions' /\ sessions'[n].digest = sessions[n].digest
      /\ artifact' = artifact \/ artifact = NoFile
  BY ServerKeeps
<1>3. down' = down /\ stream' = stream
  BY DEF Serves, serve_plain, serve_error, lose_request, serve_create, serve_put, serve_commit, serve_show,
         serve_get, Reply, waits
<1>4. PartIsPrefix' /\ (part # NoFile => artifact' = artifact)
  BY <1>1, <1>2, PartKept
<1>5. ControlOK'
  BY <1>1, <1>3 DEF ClientInv, ControlOK
<1>6. pc = "data" => part # NoFile /\ artifact' = artifact
  BY <1>4 DEF ClientInv, AnswersOK
<1>7. RequestsOK'
  <2>1. SUFFICES ASSUME NEW n \in up'
                 PROVE  /\ n.conn <= conn'
                        /\ n.req.kind = "CREATE" => n.req.data \in Contents
                        /\ n.req.kind \in {"PUT", "COMMIT"} => n.req.sid \in DOMAIN sessions'
                        /\ n.conn = conn' => pc' \notin Ready
                        /\ n.conn = conn' /\ pc' \in waits => Pending(n)'
    BY DEF RequestsOK
  <2>2. n \in up
    BY <1>1
  <2>3. /\ n.conn <= conn
        /\ n.req.kind = "CREATE" => n.req.data \in Contents
        /\ n.req.kind \in {"PUT", "COMMIT"} => n.req.sid \in DOMAIN sessions
        /\ n.conn = conn => pc \notin Ready
        /\ n.conn = conn /\ pc \in waits => Pending(n)
    BY <2>2 DEF ClientInv, RequestsOK
  <2>4. Pending(n) => Pending(n)'
    BY <1>1, <1>3, <1>6 DEF Pending
  <2>5. QED
    BY <1>1, <1>2, <2>3, <2>4
<1>8. AnswersOK'
  <2>1. (\A n : Opened(n) => Opened(n)') /\ Came' = Came
    BY <1>1, <1>2, <1>3 DEF Opened, Came
  <2>2. pc = "commit_wait" /\ Came => artifact' = artifact
    <3>1. pc = "commit_wait" /\ Came => artifact = loc.digest /\ loc.digest \in Contents
      BY DEF ClientInv, AnswersOK, ControlOK, Uploading, Local
    <3>2. QED
      BY <1>2, <3>1, ConstFacts
  <2>3. (pc = "show_wait" /\ Came) \/ pc = "open" => artifact' = artifact
    BY <1>2 DEF ClientInv, AnswersOK
  <2>4. pc \in {"data", "rename"} => artifact' = artifact
    BY <1>4 DEF ClientInv, AnswersOK
  <2>5. pc = "create_wait" /\ Came => Opened(down[1].n)'
    BY <1>3, <2>1 DEF ClientInv, AnswersOK
  <2>6. pc \in {"put", "put_wait", "commit_wait"} => Opened(loc.sid)'
    BY <1>1, <2>1 DEF ClientInv, AnswersOK
  <2>7. QED
    BY <1>1, <1>3, <2>1, <2>2, <2>3, <2>4, <2>5, <2>6 DEF ClientInv, AnswersOK
<1>9. InTransit'
  BY ZenonT(60), <1>1, <1>3, <1>6 DEF ClientInv, InTransit, Continues, Carries
<1>10. Done'
  BY <1>1, <1>2, ConstFacts DEF ClientInv, Done, Succeeded, UploadPublished
<1>11. QED
  BY <1>4, <1>5, <1>7, <1>8, <1>9, <1>10 DEF ClientInv

\* The request the command waits for: the answers are all there is.
LEMMA MineFacts ==
  ASSUME Types, ClientInv, NEW m \in up, Serves(m), m.conn = conn, pc \in waits
  PROVE  /\ Pending(m) /\ down = <<>> /\ ~ stream.active /\ m.req.kind = KindFor(pc)
         /\ m.req \in Request
         /\ \A n \in up' : n.conn # conn
         /\ \A q \in Seq(Answers) : Reply(m, q) => down' = q
<1>1. Pending(m)
  BY DEF ClientInv, RequestsOK
<1>2. down = <<>> /\ ~ stream.active /\ m.req.kind = KindFor(pc) /\ m.req \in Request
  BY <1>1 DEF Pending, Types
<1>3. \A n \in up' : n.conn # conn
  BY <1>1, HandledFacts DEF Pending
<1>4. \A q \in Seq(Answers) : Reply(m, q) => down' = q
  BY <1>2 DEF Reply
<1>5. QED
  BY <1>1, <1>2, <1>3, <1>4

LEMMA ServeMine ==
  ASSUME Types, ClientInv, NEW m \in up, Serves(m), m.conn = conn, pc \in waits,
         AnswersOK', InTransit', pc # "data" => ~ stream'.active
  PROVE  ClientInv'
<1>1. up' = up \ {m} /\ UNCHANGED <<command, pc, exit, disk, loc, conn>>
  BY HandledFacts
<1>2. /\ \A n \in DOMAIN sessions : n \in DOMAIN sessions' /\ sessions'[n].digest = sessions[n].digest
      /\ artifact' = artifact \/ artifact = NoFile
  BY ServerKeeps
<1>3. PartIsPrefix'
  BY <1>1, <1>2, PartKept
<1>4. ControlOK'
  BY <1>1 DEF ClientInv, ControlOK
<1>5. RequestsOK'
  <2>1. \A n \in up' : n.conn # conn' /\ n \in up
    BY <1>1, MineFacts
  <2>2. QED
    BY <1>1, <1>2, <2>1 DEF ClientInv, RequestsOK
<1>6. Done'
  BY <1>1 DEF Done, Succeeded, UploadPublished, waits
<1>7. QED
  BY <1>3, <1>4, <1>5, <1>6 DEF ClientInv

-----------------------------------------------------------------------------
(* The next slice of a download follows the frames that are on their way.  *)

LEMMA FramesFacts ==
  ASSUME NEW s \in StreamType, NEW d \in Seq(Nat), Len(d) <= s.remaining
  PROVE  /\ d = <<>> => Frames(s, d) = <<OK(0)>>
         /\ d # <<>> /\ s.remaining = Len(d) => Frames(s, d) = <<Answer("DATA", 0, d), OK(0)>>
         /\ d # <<>> /\ s.remaining # Len(d) => Frames(s, d) = <<Answer("DATA", 0, d)>>
<1>1. Advanced(s, d) = NoStream <=> s.remaining = Len(d) \/ d = <<>>
  BY AdvancedFacts
<1>2. PICK a \in Answers, b \in Answers : a = Answer("DATA", 0, d) /\ b = OK(0)
  BY AnswerType
<1>3. <<>> \o <<b>> = <<b>> /\ <<a>> \o <<b>> = <<a, b>> /\ <<a>> \o <<>> = <<a>>
  <2>1. <<a>> \in Seq(Answers) /\ <<b>> \in Seq(Answers)
    OBVIOUS
  <2>2. <<>> \o <<b>> = <<b>> /\ <<a>> \o <<>> = <<a>>
    BY <2>1, ConcatEmptySeq
  <2>3. <<a>> \o <<b>> = <<a, b>>
    <3>1. Append(<<a>>, b) = <<a>> \o <<b>>
      BY <2>1, AppendIsConcat
    <3>2. PICK f \in Seq(Answers) : f = Append(<<a>>, b)
      BY <2>1, AppendProperties
    <3>3. Len(f) = 2 /\ f[1] = a /\ f[2] = b
      BY <3>2
    <3>4. PICK g \in Seq(Answers) : g = <<a, b>> /\ Len(g) = 2 /\ g[1] = a /\ g[2] = b
      <4>1. <<a, b>> \in Seq(Answers)
        OBVIOUS
      <4>2. Len(<<a, b>>) = 2 /\ <<a, b>>[1] = a /\ <<a, b>>[2] = b
        OBVIOUS
      <4>3. QED
        BY <4>1, <4>2
    <3>5. \A i \in 1 .. 2 : i = 1 \/ i = 2
      OBVIOUS
    <3>6. \A i \in 1 .. Len(f) : f[i] = g[i]
      BY <3>3, <3>4, <3>5
    <3>7. f = g
      BY <3>3, <3>4, <3>6, SeqEqual
    <3>8. QED
      BY <3>1, <3>2, <3>4, <3>7
  <2>4. QED
    BY <2>2, <2>3
<1>4. QED
  BY <1>1, <1>2, <1>3 DEF Frames

LEMMA SliceTransit ==
  ASSUME Types, part' = part, artifact' = artifact,
         NEW s \in StreamType, Readable(s), s.offset + s.remaining = Len(artifact),
         NEW k \in Nat, k = Len(down), NEW c \in [1 .. k + 1 -> 0 .. Len(artifact)],
         c[1] = Len(part), \A i \in 1 .. k : Carries(down[i], c[i], c[i + 1]), c[k + 1] = s.offset,
         down' = down \o Frames(s, SliceOf(s)), stream' = Advanced(s, SliceOf(s))
  PROVE  InTransit'
<1>1. PICK o \in Nat, r \in Nat, z \in Nat : o = s.offset /\ r = s.remaining /\ z = Len(artifact)
  BY LocFacts DEF Readable, StreamType
<1>2. PICK d : d = SliceOf(s)
  OBVIOUS
<1>3. /\ d \in Seq(Nat) /\ Len(d) \in Nat /\ Len(d) <= s.remaining
      /\ s.offset + Len(d) <= Len(artifact)
      /\ d = SubSeq(artifact, s.offset + 1, s.offset + Len(d))
      /\ d = <<>> /\ s.offset + s.remaining = Len(artifact) => s.remaining = 0
  BY <1>2, SliceFacts
<1>4. PICK n \in Nat : n = Len(d)
  BY <1>3
<1>5. n <= r /\ o + n <= z /\ o + r = z
  BY <1>1, <1>3, <1>4
<1>6. PICK a \in Answers, ok \in Answers : a = Answer("DATA", 0, d) /\ ok = OK(0)
  BY <1>3, AnswerType
<1>7. PICK q \in Seq(Answers) : q = down
  BY DEF Types
<1>8. CASE d = <<>>
  <2>1. r = 0 /\ o = z
    BY <1>1, <1>3, <1>5, <1>8
  <2>2. down' = q \o <<ok>>
    BY <1>2, <1>3, <1>6, <1>7, <1>8, FramesFacts
  <2>3. Len(down') = k + 1 /\ down'[k + 1] = ok /\ \A i \in 1 .. k : down'[i] = down[i]
    BY <1>7, <2>2
  <2>4. ~ stream'.active
    BY <1>2, <1>3, <1>8, AdvancedFacts, NoStreamType
  <2>5. \A i \in 1 .. k : Carries(down[i], c[i], c[i + 1])'
    BY <2>3 DEF Carries
  <2>6. Continues(k, c)'
    BY <1>1, <1>6, <2>1, <2>3, <2>4, <2>5 DEF Continues
  <2>7. k \in 0 .. Len(down')
    BY <2>3
  <2>8. QED
    BY <2>6, <2>7 DEF InTransit
<1>9. CASE d # <<>>
  <2>1. PICK e : e = [i \in 1 .. k + 1 + 1 |-> IF i <= k + 1 THEN c[i] ELSE o + n]
    OBVIOUS
  <2>2. /\ e \in [1 .. k + 1 + 1 -> 0 .. Len(artifact')] /\ e[k + 1 + 1] = o + n
        /\ \A i \in 1 .. k + 1 : e[i] = c[i]
    <3>1. \A i \in 1 .. k + 1 : c[i] \in 0 .. z
      BY <1>1
    <3>2. o + n \in 0 .. z
      BY <1>5
    <3>3. \A i \in 1 .. k + 1 + 1 : ~ (i <= k + 1) \/ i \in 1 .. k + 1
      OBVIOUS
    <3>4. k + 1 + 1 \in 1 .. k + 1 + 1 /\ ~ (k + 1 + 1 <= k + 1)
          /\ \A i \in 1 .. k + 1 : i <= k + 1 /\ i \in 1 .. k + 1 + 1
      OBVIOUS
    <3>5. QED
      BY <1>1, <2>1, <3>1, <3>2, <3>3, <3>4
  <2>3. /\ down' = q \o <<a>> \/ down' = q \o <<a, ok>>
        /\ r = n => down' = q \o <<a, ok>>
        /\ r # n => down' = q \o <<a>>
    BY <1>1, <1>2, <1>3, <1>4, <1>6, <1>7, <1>9, FramesFacts
  <2>4. /\ Len(down') \in Nat /\ k + 1 <= Len(down')
        /\ down'[k + 1] = a /\ \A i \in 1 .. k : down'[i] = down[i]
    BY <1>7, <2>3
  <2>5. \A i \in 1 .. k + 1 : Carries(down[i], e[i], e[i + 1])'
    <3>1. TAKE i \in 1 .. k + 1
    <3>2. CASE i \in 1 .. k
      <4>1. i + 1 \in 1 .. k + 1 /\ i \in 1 .. k + 1
        BY <3>2
      <4>2. Carries(down[i], c[i], c[i + 1])
        BY <3>2
      <4>3. QED
        BY <2>2, <2>4, <3>2, <4>1, <4>2 DEF Carries
    <3>3. CASE i = k + 1
      <4>1. e[i] = o /\ e[i + 1] = o + n
        BY <1>1, <2>2, <3>3
      <4>2. a.kind = "DATA" /\ a.data = d /\ d = SubSeq(artifact, o + 1, o + n) /\ o <= o + n
        <5>1. a.kind = "DATA" /\ a.data = d
          BY <1>3, <1>6, AnswerType
        <5>2. d = SubSeq(artifact, o + 1, o + n)
          BY <1>1, <1>3, <1>4, Zenon
        <5>3. o <= o + n
          OBVIOUS
        <5>4. QED
          BY <5>1, <5>2, <5>3
      <4>3. QED
        BY <2>4, <3>3, <4>1, <4>2 DEF Carries
    <3>4. i \in 1 .. k \/ i = k + 1
      OBVIOUS
    <3>5. QED
      BY <3>2, <3>3, <3>4
  <2>6. e[1] = Len(part')
    <3>1. 1 \in 1 .. k + 1
      OBVIOUS
    <3>2. QED
      BY <2>2, <3>1
  <2>7. CASE r = n
    <3>1. Len(down') = k + 1 + 1 /\ down'[k + 1 + 1] = ok
      BY <1>7, <2>3, <2>7
    <3>2. ~ stream'.active
      BY <1>1, <1>2, <1>3, <1>4, <2>7, AdvancedFacts, NoStreamType
    <3>3. Continues(k + 1, e)'
      BY <1>1, <1>5, <1>6, <2>2, <2>5, <2>6, <2>7, <3>1, <3>2 DEF Continues
    <3>4. k + 1 \in 0 .. Len(down')
      BY <3>1
    <3>5. QED
      BY <2>2, <3>3, <3>4 DEF InTransit
  <2>8. CASE r # n
    <3>1. Len(down') = k + 1
      BY <1>7, <2>3, <2>8
    <3>2. stream'.active => stream'.offset = o + n /\ stream'.remaining = r - n
      BY <1>1, <1>2, <1>3, <1>4, AdvancedFacts
    <3>3. o + n + (r - n) = z
      BY <1>5
    <3>4. Continues(k + 1, e)'
      BY <1>1, <2>2, <2>5, <2>6, <3>1, <3>2, <3>3 DEF Continues
    <3>5. k + 1 \in 0 .. Len(down')
      BY <3>1
    <3>6. QED
      BY <2>2, <3>4, <3>5 DEF InTransit
  <2>9. QED
    BY <2>7, <2>8
<1>10. QED
  BY <1>8, <1>9

LEMMA SliceInv == ASSUME Types, ClientInv, serve_slice \/ serve_slice_error PROVE ClientInv'
<1>1. stream.active /\ UNCHANGED <<command, pc, exit, disk, loc, conn, up, artifact, sessions>>
  BY DEF serve_slice, serve_slice_error
<1>2. pc = "data"
  BY <1>1 DEF ClientInv, ControlOK
<1>3. PICK k \in Nat : \E c \in [1 .. k + 1 -> 0 .. Len(artifact)] :
           /\ k <= Len(down) /\ Len(down) \in Nat /\ Continues(k, c)
           /\ \A i \in 1 .. k + 1 : c[i] \in Nat /\ c[i] <= Len(artifact)
           /\ part # NoFile
  BY <1>2, TransitFacts
<1>4. PICK c \in [1 .. k + 1 -> 0 .. Len(artifact)] :
           /\ k <= Len(down) /\ Len(down) \in Nat /\ Continues(k, c)
           /\ part # NoFile
  BY <1>3
<1>5. /\ k = Len(down) /\ c[1] = Len(part)
      /\ \A i \in 1 .. k : Carries(down[i], c[i], c[i + 1])
      /\ c[k + 1] = stream.offset /\ stream.offset + stream.remaining = Len(artifact)
  BY <1>1, <1>4 DEF Continues
<1>6. InTransit'
  <2>1. CASE serve_slice
    <3>1. stream \in StreamType /\ Readable(stream)
      BY <2>1 DEF serve_slice, Types, StreamType
    <3>2. /\ stream' = Advanced(stream, SliceOf(stream)) /\ down' = down \o Frames(stream, SliceOf(stream))
          /\ part' = part /\ artifact' = artifact
      BY <2>1 DEF serve_slice
    <3>3. QED
      BY <1>5, <3>1, <3>2, SliceTransit
  <2>2. CASE serve_slice_error
    <3>1. down' = Append(down, FAILED) /\ stream' = NoStream /\ down \in Seq(Answers)
      BY <2>2 DEF serve_slice_error, Types
    <3>2. Len(down') = k + 1 /\ down'[k + 1] = FAILED /\ \A i \in 1 .. k : down'[i] = down[i]
      BY <1>5, <3>1, AnswerType
    <3>3. \A i \in 1 .. k : Carries(down[i], c[i], c[i + 1])'
      BY <1>1, <1>5, <3>2 DEF Carries
    <3>4. Continues(k, c)'
      BY <1>1, <1>5, <3>1, <3>2, <3>3, NoStreamType DEF Continues
    <3>5. k \in 0 .. Len(down') /\ artifact' = artifact
      BY <1>1, <3>2
    <3>6. QED
      BY <3>4, <3>5 DEF InTransit
  <2>3. QED
    BY <2>1, <2>2
<1>7. \A m \in up : m.conn # conn
  BY <1>1, <1>2 DEF ClientInv, RequestsOK, Pending, waits
<1>8. RequestsOK'
  BY <1>1, <1>7 DEF ClientInv, RequestsOK
<1>9. ControlOK'
  BY <1>1, <1>2 DEF ClientInv, ControlOK, waits
<1>10. AnswersOK' /\ Done'
  BY <1>1, <1>2, <1>4 DEF AnswersOK, Done, Succeeded, UploadPublished, waits
<1>11. PartIsPrefix'
  BY <1>1 DEF ClientInv, PartIsPrefix
<1>12. QED
  BY <1>6, <1>8, <1>9, <1>10, <1>11 DEF ClientInv

\* The answer of one frame to a command that is no download.
LEMMA OneAnswer ==
  ASSUME Types, ClientInv, NEW m \in up, Serves(m), m.conn = conn, pc \in waits \ {"data"},
         NEW a \in Answers, Reply(m, <<a>>)
  PROVE  /\ Len(down') = 1 /\ down' # <<>> /\ down'[1] = a
         /\ Came' <=> a.kind # "ERROR"
         /\ pc' = pc /\ InTransit'
         /\ pc \in {"put_wait", "commit_wait"} => Opened(loc.sid)'
<1>1. <<a>> \in Seq(Answers)
  OBVIOUS
<1>2. down' = <<a>>
  BY <1>1, MineFacts
<1>3. Len(down') = 1 /\ down' # <<>> /\ down'[1] = a
  BY <1>2
<1>4. pc' = pc /\ loc' = loc
  BY HandledFacts
<1>5. pc \in {"put_wait", "commit_wait"} => Opened(loc.sid)'
  BY <1>4, ServerKeeps DEF ClientInv, AnswersOK, Opened
<1>6. QED
  BY <1>3, <1>4, <1>5 DEF Came, InTransit

LEMMA ServeInv ==
  ASSUME Types, ClientInv, NEW m \in up, Serves(m)
  PROVE  ClientInv'
<1>1. CASE ~ (m.conn = conn /\ pc \in waits)
  BY <1>1, ServeOther
<1>2. CASE m.conn = conn /\ pc \in waits
  <2>1. /\ Pending(m) /\ down = <<>> /\ ~ stream.active /\ m.req.kind = KindFor(pc)
        /\ m.req \in Request
        /\ \A q \in Seq(Answers) : Reply(m, q) => down' = q
    BY <1>2, MineFacts
  <2>2. up' = up \ {m} /\ UNCHANGED <<command, pc, exit, disk, loc, conn>>
    BY HandledFacts
  <2>3. FAILED \in Answers /\ FAILED.kind = "ERROR" /\ \A n \in Nat : OK(n) \in Answers /\ OK(n).n = n
    BY AnswerType
  <2>4. sessions \in Seq(Upload) /\ DOMAIN sessions = 1 .. Len(sessions) /\ Len(sessions) \in Nat
    BY LenProperties DEF Types
  <2>5. CASE serve_error(m) /\ pc = "data"
    <3>1. <<FAILED>> \in Seq(Answers) /\ Reply(m, <<FAILED>>) /\ UNCHANGED server
      BY <2>3, <2>5 DEF serve_error
    <3>2. down' = <<FAILED>>
      BY <2>1, <3>1
    <3>3. Len(down') = 0 + 1 /\ down'[0 + 1] = FAILED
      BY <3>2
    <3>4. part # NoFile
      BY <2>5 DEF ClientInv, AnswersOK
    <3>5. Len(part) \in 0 .. Len(artifact)
      BY <3>4, PartFacts
    <3>6. PICK c : c = [i \in 1 .. 0 + 1 |-> Len(part)]
      OBVIOUS
    <3>7. c \in [1 .. 0 + 1 -> 0 .. Len(artifact)] /\ c[1] = Len(part)
      BY <3>5, <3>6
    <3>8. Continues(0, c)'
      BY <2>1, <2>2, <3>1, <3>3, <3>7 DEF Continues
    <3>9. 0 \in 0 .. Len(down')
      BY <3>3
    <3>10. InTransit'
      BY <3>1, <3>7, <3>8, <3>9 DEF InTransit
    <3>11. AnswersOK'
      BY <2>2, <2>5, <3>4 DEF AnswersOK, waits
    <3>12. QED
      BY <1>2, <2>5, <3>10, <3>11, ServeMine
  <2>6. CASE serve_error(m) /\ pc # "data"
    <3>1. Reply(m, <<FAILED>>) /\ UNCHANGED server
      BY <2>6 DEF serve_error
    <3>2. /\ Len(down') = 1 /\ ~ Came' /\ pc' = pc /\ InTransit'
          /\ pc \in {"put_wait", "commit_wait"} => Opened(loc.sid)'
      BY <1>2, <2>3, <2>6, <3>1, OneAnswer
    <3>3. AnswersOK'
      BY <1>2, <2>6, <3>2 DEF AnswersOK, waits
    <3>4. QED
      BY <1>2, <2>1, <3>1, <3>2, <3>3, ServeMine
  <2>7. CASE serve_plain(m) \/ serve_put(m)
    <3>1. Reply(m, <<OK(0)>>) /\ stream' = stream /\ pc \in {"hello_wait", "auth_wait", "query_wait", "put_wait"}
      BY <1>2, <2>1, <2>7, WaitLabels DEF serve_plain, serve_put, waits
    <3>2. /\ Len(down') = 1 /\ pc' = pc /\ InTransit'
          /\ pc \in {"put_wait", "commit_wait"} => Opened(loc.sid)'
      BY <1>2, <2>3, <3>1, OneAnswer
    <3>3. AnswersOK'
      BY <3>1, <3>2 DEF AnswersOK, waits
    <3>4. QED
      BY <1>2, <2>1, <3>1, <3>2, <3>3, ServeMine
  <2>8. CASE serve_create(m)
    <3>1. PICK n \in Nat : n = Len(sessions) + 1
      BY <2>4
    <3>2. Reply(m, <<OK(n)>>) /\ stream' = stream /\ pc = "create_wait"
      BY <1>2, <2>1, <2>8, <3>1, WaitLabels DEF serve_create, waits
    <3>3. Len(down') = 1 /\ down'[1] = OK(n) /\ pc' = pc /\ InTransit'
      BY <1>2, <2>3, <3>2, OneAnswer
    <3>4. PICK u : u = [size |-> m.req.size, digest |-> m.req.data, parts |-> <<>>, state |-> "OPEN"]
      OBVIOUS
    <3>5. sessions' = Append(sessions, u) /\ u.digest = loc.digest
      BY <2>1, <2>8, <3>2, <3>4 DEF serve_create, Pending
    <3>6. n \in DOMAIN sessions' /\ sessions'[n] = u
      BY <2>4, <3>1, <3>5
    <3>7. Opened(down[1].n)'
      BY <2>2, <2>3, <3>3, <3>5, <3>6 DEF Opened
    <3>8. AnswersOK'
      BY <3>2, <3>3, <3>7 DEF AnswersOK, waits
    <3>9. QED
      BY <1>2, <2>1, <3>2, <3>3, <3>8, ServeMine
  <2>9. CASE serve_commit(m)
    <3>1. Reply(m, <<OK(0)>>) /\ stream' = stream /\ pc = "commit_wait" /\ artifact' = sessions[m.req.sid].digest
      BY <1>2, <2>1, <2>9, WaitLabels DEF serve_commit, Session, waits
    <3>2. Len(down') = 1 /\ pc' = pc /\ InTransit' /\ Opened(loc.sid)'
      BY <1>2, <2>3, <3>1, OneAnswer
    <3>3. artifact' = loc'.digest
      BY <2>1, <2>2, <3>1 DEF Pending, ClientInv, AnswersOK, Opened
    <3>4. AnswersOK'
      BY <3>1, <3>2, <3>3 DEF AnswersOK, waits
    <3>5. QED
      BY <1>2, <2>1, <3>1, <3>2, <3>4, ServeMine
  <2>10. CASE serve_show(m)
    <3>1. artifact # NoFile /\ artifact' = artifact /\ stream' = stream /\ pc = "show_wait"
      BY <1>2, <2>1, <2>10, WaitLabels DEF serve_show, waits
    <3>2. PICK n \in Nat : n = Len(artifact)
      BY <3>1, LocFacts
    <3>3. Reply(m, <<OK(n)>>)
      BY <2>10, <3>2 DEF serve_show
    <3>4. Len(down') = 1 /\ down'[1] = OK(n) /\ pc' = pc /\ InTransit'
      BY <1>2, <2>3, <3>1, <3>3, OneAnswer
    <3>5. AnswersOK'
      BY <2>3, <3>1, <3>2, <3>4 DEF AnswersOK, waits
    <3>6. QED
      BY <1>2, <2>1, <3>1, <3>4, <3>5, ServeMine
  <2>11. CASE serve_get(m)
    <3>1. pc = "data"
      BY <1>2, <2>1, <2>11, WaitLabels DEF serve_get, waits
    <3>2. PICK s : s = [active |-> TRUE, offset |-> m.req.offset, remaining |-> m.req.size]
      OBVIOUS
    <3>3. s \in StreamType
      BY <2>1, <3>2 DEF StreamType, Request
    <3>4. /\ Readable(s) /\ Reply(m, Frames(s, SliceOf(s))) /\ stream' = Advanced(s, SliceOf(s))
          /\ artifact' = artifact
      BY <1>2, <2>11, <3>1, <3>2 DEF serve_get
    <3>5. part # NoFile
      BY <3>1 DEF ClientInv, AnswersOK
    <3>6. /\ Len(part) \in 0 .. Len(artifact) /\ Len(part) \in Nat /\ Len(artifact) \in Nat
          /\ s.offset = Len(part) /\ s.offset + s.remaining = Len(artifact)
      <4>1. Len(part) \in Nat /\ Len(artifact) \in Nat /\ Len(part) <= Len(artifact)
        BY <3>5, PartFacts
      <4>2. m.req.offset = Len(part) /\ m.req.size + Len(part) = Len(artifact) /\ m.req.size \in Nat
        BY <2>1, <3>1 DEF Pending, Request
      <4>3. s.offset = m.req.offset /\ s.remaining = m.req.size
        BY <3>2
      <4>4. QED
        BY <4>1, <4>2, <4>3
    <3>7. SliceOf(s) \in Seq(Nat)
      BY <3>3, <3>4, SliceFacts
    <3>8. PICK q \in Seq(Answers) : q = Frames(s, SliceOf(s))
      BY <3>3, <3>7, FramesType
    <3>9. down' = down \o q
      <4>1. down' = q
        BY <2>1, <3>4, <3>8
      <4>2. <<>> \o q = q
        BY ConcatEmptySeq
      <4>3. QED
        BY <2>1, <4>1, <4>2
    <3>10. PICK c : c = [i \in 1 .. 0 + 1 |-> Len(part)]
      OBVIOUS
    <3>11. c \in [1 .. 0 + 1 -> 0 .. Len(artifact)] /\ c[1] = Len(part) /\ c[0 + 1] = s.offset /\ 0 = Len(down)
      BY <2>1, <3>6, <3>10, EmptySeq
    <3>12. PICK k \in Nat : k = 0
      OBVIOUS
    <3>13. InTransit'
      <4>1. c \in [1 .. k + 1 -> 0 .. Len(artifact)] /\ c[k + 1] = s.offset /\ k = Len(down)
            /\ \A i \in 1 .. k : Carries(down[i], c[i], c[i + 1])
        BY <3>11, <3>12
      <4>2. QED
        BY <2>2, <3>3, <3>4, <3>6, <3>8, <3>9, <3>11, <4>1, SliceTransit
    <3>14. AnswersOK'
      BY <2>2, <3>1, <3>5 DEF AnswersOK, waits
    <3>15. QED
      BY <1>2, <3>1, <3>13, <3>14, ServeMine
  <2>12. CASE lose_request(m)
    BY <1>2, <2>12 DEF lose_request
  <2>13. QED
    BY <2>5, <2>6, <2>7, <2>8, <2>9, <2>10, <2>11, <2>12 DEF Serves
<1>3. QED
  BY <1>1, <1>2

-----------------------------------------------------------------------------
(* The theorems.                                                           *)

LEMMA InitInv == Init => Types /\ ClientInv
<1>1. SUFFICES ASSUME Init PROVE Types /\ ClientInv
  OBVIOUS
<1>2. Types
  BY <1>1, FreshType, NoStreamType DEF Init, Types, Labels, Local
<1>3. ClientInv
  BY <1>1, NoStreamType DEF Init, ClientInv, ControlOK, RequestsOK, AnswersOK, PartIsPrefix, InTransit, Done,
        Succeeded, UploadPublished, Uploading, Downloading, Querying, Local, waits
<1>4. QED
  BY <1>2, <1>3

\* The invariant is not about the user's file.
LEMMA FileOnly ==
  ASSUME ClientInv, UNCHANGED <<command, pc, exit, out, part, loc, conn, up, down, server>>
  PROVE  ClientInv'
<1>1. ControlOK'
  BY DEF ClientInv, ControlOK
<1>2. RequestsOK'
  BY DEF ClientInv, RequestsOK, Pending
<1>3. AnswersOK'
  BY DEF ClientInv, AnswersOK, Came, Opened
<1>4. PartIsPrefix'
  BY DEF ClientInv, PartIsPrefix
<1>5. InTransit'
  BY DEF ClientInv, InTransit, Continues, Carries
<1>6. Done'
  BY DEF ClientInv, Done, Succeeded, UploadPublished
<1>7. QED
  BY <1>1, <1>2, <1>3, <1>4, <1>5, <1>6 DEF ClientInv

LEMMA NextInv == ASSUME Types, ClientInv, [Next]_vars PROVE Types' /\ ClientInv'
<1>1. Types'
  BY NextTypes
<1>2. ClientInv'
  <2>1. CASE request_fails \/ receive_timeout \/ connection_lost
    BY <2>1, EndsOnlyInv DEF request_fails, receive_timeout, connection_lost
  <2>2. CASE edit
    BY <2>2, FileOnly DEF edit
  <2>3. CASE UNCHANGED vars
    BY <2>3, FileOnly DEF vars
  <2>4. CASE \E m \in up : Serves(m)
    BY <2>4, ServeInv
  <2>5. QED
    BY <2>1, <2>2, <2>3, <2>4, StartInv, LocalInv, SendsInv, OpenInv, DonesInv, DataEndInv, WriteInv, CutInv,
       SliceInv
    DEF Next, ClientStep, ServerStep, Serves
<1>3. QED
  BY <1>1, <1>2

\* The inductive invariant: in every reachable state the variables have their
\* types, at most one request of the connection is unanswered, an answer on
\* its way is worth what the client takes it for (what create, commit and show
\* return), and the frames of a download continue the .part file, whatever
\* was killed, lost or executed late before.
THEOREM ClientInvariant == Spec => [](Types /\ ClientInv)
<1>1. Types /\ ClientInv /\ [Next]_vars => (Types /\ ClientInv)'
  BY NextInv
<1>2. QED
  BY InitInv, <1>1, PTL DEF Spec

\* frctl upload (cmd_upload) ends with 0 only if the published artifact has
\* the bytes the digest was computed of: for files of every length and every
\* chunk size, although the file is read again while it is sent and although
\* requests of earlier commands are executed late.
THEOREM UploadsPublished == Spec => []UploadPublished
<1>1. Types /\ ClientInv => UploadPublished
  BY DEF ClientInv, Done
<1>2. QED
  BY <1>1, ClientInvariant, PTL

\* cmd_download: the .part file is always a beginning of the artifact, however
\* often downloads were cut off and resumed.
THEOREM PartsArePrefixes == Spec => []PartIsPrefix
<1>1. Types /\ ClientInv => PartIsPrefix
  BY DEF ClientInv
<1>2. QED
  BY <1>1, ClientInvariant, PTL

\* The output file is absent or one whole artifact at every moment
\* (FR-DL-02: cmd_download writes the .part file and renames it).
THEOREM OutputsWhole == Spec => []OutputWhole
<1>1. Types /\ ClientInv => OutputWhole
  BY DEF Types, OutputWhole
<1>2. QED
  BY <1>1, ClientInvariant, PTL

\* frctl download ends with 0 only if the output file is the artifact, whatever
\* slices the server sends and wherever an earlier download was cut off.
THEOREM DownloadsExact == Spec => []DownloadExact
<1>1. Types /\ ClientInv => DownloadExact
  BY DEF ClientInv, Done, DownloadExact
<1>2. QED
  BY <1>1, ClientInvariant, PTL
=============================================================================
