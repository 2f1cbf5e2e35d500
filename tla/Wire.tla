-------------------------------- MODULE Wire --------------------------------
(***************************************************************************)
(* Frames on a connection (src/src/core_c/fr_frame.c) from the encoder to  *)
(* the decoders of module Messages: the bytes arrive in pieces of any      *)
(* size, the incremental parser puts them together again, the read loop of *)
(* the server (fr_server.cpp, on_conn_event) or of the client (fr_client.  *)
(* cpp, read_frame) takes the frames out of it.                            *)
(*                                                                         *)
(* The parser's payload buffer is modelled as memory: a frame refers to    *)
(* the buffer, which keeps its bytes until the next feed overwrites them.  *)
(* The peer may not keep to the protocol (a header with wrong fields and   *)
(* the right checksum), and a header may be altered on its way.  TLS, when *)
(* it is on, would give the latter away before; payloads have no checksum. *)
(***************************************************************************)
EXTENDS Messages, FiniteSetsExt

CONSTANTS
  Kinds,       \* the messages: name -> [type, fields]
  ValidTypes,  \* the types fr_msg_type_valid knows
  Scripts,     \* what the peer may send: sequences of [kind, v, header]
  MaxPayload,  \* FR_FRAME_MAX_PAYLOAD
  MinCap,      \* the first capacity of an fr_buf
  ReadSizes,   \* numbers of bytes one read may return
  Alterable    \* the scripts in which a byte of a header may be altered
VARIABLES
  side,      \* which loop reads: "server" or "client"
  script,    \* what the peer sends
  wire,      \* bytes on their way
  altered,   \* a byte of a header was altered
  parser,    \* fr_frame_parser
  inbuf,     \* bytes read from the connection ...
  inpos,     \* ... and how many of them were fed to the parser
  frame,     \* the frame the parser has handed out and nobody has decoded
  tasks,     \* the server's queue: frames whose payload was copied
  received,  \* the messages that were decoded, in order
  dead       \* the parser has refused a header

vars == <<side, script, wire, altered, parser, inbuf, inpos, frame, tasks, received, dead>>
-----------------------------------------------------------------------------
(* fr_frame_encode                                                         *)

HeaderSize == 20
MAGIC == <<1, 2, 3, 0>>
VERSION == 1
\* fr_crc32, as a checksum that one altered byte changes.
crc32(s) ==
  LET sum[n \in 0 .. Len(s)] == IF n = 0 THEN 0 ELSE sum[n - 1] + n * s[n] IN sum[Len(s)] % Radix4
Checked(h) == h \o StoreBE(crc32(h), 4)
Header(type, flags, req, len) ==
  Checked(MAGIC \o <<VERSION, type>> \o StoreBE(flags, 2) \o StoreBE(req, 4) \o StoreBE(len, 4))

\* The refusals of the encoders; make_ok and its callers ignore that of the
\* frame, and nothing is sent.
EncodeOK(type, req, payload) ==
  type \in ValidTypes /\ req # 0 /\ Len(payload) <= MaxPayload
Payload(m) == Encode(Kinds[m.kind].fields, m.v)
Proper(m) == m.header = "encoder"
fr_frame_encode(m, req) ==
  IF Encodable(Kinds[m.kind].fields, m.v) /\ EncodeOK(Kinds[m.kind].type, req, Payload(m))
  THEN Header(Kinds[m.kind].type, 0, req, Len(Payload(m))) \o Payload(m)
  ELSE <<>>

\* Frames of a peer that does not keep to the protocol.
ForeignHeader(m) ==
  LET type == Kinds[m.kind].type
      len == Len(Payload(m)) IN
  CASE m.header = "type" -> Header(0, 0, 1, len)
    [] m.header = "flags" -> Header(type, 1, 1, len)
    [] m.header = "request" -> Header(type, 0, 0, len)
    [] m.header = "length" -> Header(type, 0, 1, MaxPayload + 1)
    [] m.header = "version" ->
         Checked(MAGIC \o <<VERSION + 1, type>> \o StoreBE(0, 2) \o StoreBE(1, 4) \o StoreBE(len, 4))
ForeignPayload(m) == IF m.header = "length" THEN [i \in 1 .. MaxPayload + 1 |-> 0] ELSE Payload(m)
Frame(m, req) ==
  IF Proper(m) THEN fr_frame_encode(m, req) ELSE ForeignHeader(m) \o ForeignPayload(m)
Sent == [i \in DOMAIN script |-> Frame(script[i], i)]

\* What the peer may send: the encoders' messages are such as they encode, with
\* the values the structs can have.
Sendable(m) ==
  /\ m.kind \in DOMAIN Kinds /\ m.v = [i \in DOMAIN Kinds[m.kind].fields |-> m.v[i]]
  /\ Encodable(Kinds[m.kind].fields, m.v)
  /\ EncodeOK(Kinds[m.kind].type, 1, Payload(m))
  /\ ValuesOf(Kinds[m.kind].fields, m.v)
  /\ m.header \in {"encoder", "type", "flags", "request", "length", "version"}
ASSUME WireAssumption ==
  /\ MaxPayload \in Nat /\ MaxPayload + 1 < Radix4
  /\ MinCap \in 1 .. 2 * MaxPayload - 1
  /\ 1 \in ReadSizes /\ ReadSizes \subseteq Nat /\ Alterable \subseteq Scripts
  /\ \E m \in ReadSizes : \A r \in ReadSizes : r <= m
  /\ 0 \notin ValidTypes /\ ValidTypes \subseteq 1 .. 26
  /\ \A k \in DOMAIN Kinds : Fields(Kinds[k].fields)
  /\ \A s \in Scripts :
       /\ Len(s) \in 1 .. Radix4 - 1 /\ s = [i \in 1 .. Len(s) |-> s[i]]
       /\ \A i \in DOMAIN s : Sendable(s[i])
-----------------------------------------------------------------------------
(* The parser.                                                             *)

NewParser == [header |-> <<>>, done |-> FALSE, type |-> 0, req |-> 0, need |-> 0,
              mem |-> <<>>, len |-> 0, cap |-> 0]
NoFrame == [ready |-> FALSE, type |-> 0, req |-> 0, len |-> 0]

\* Nothing has been read.
Untouched ==
  /\ wire = FlattenSeq(Sent)
  /\ parser = NewParser
  /\ inbuf = <<>> /\ inpos = 0
  /\ frame = NoFrame
  /\ tasks = <<>> /\ received = <<>>
  /\ dead = FALSE
Init ==
  /\ side \in {"server", "client"}
  /\ script \in Scripts
  /\ altered = FALSE
  /\ Untouched

\* Mutant: the length is not compared with the limit.
HeaderOKUnbounded(h) ==
  /\ SubSeq(h, 1, 4) = MAGIC /\ h[5] = VERSION
  /\ LoadBE(SubSeq(h, 7, 8)) = 0
  /\ LoadBE(SubSeq(h, 9, 12)) # 0
  /\ h[6] \in ValidTypes
  /\ LoadBE(SubSeq(h, 17, 20)) = crc32(SubSeq(h, 1, 16))
\* frame_validate_header
HeaderOK(h) ==
  /\ SubSeq(h, 1, 4) = MAGIC /\ h[5] = VERSION
  /\ LoadBE(SubSeq(h, 7, 8)) = 0
  /\ LoadBE(SubSeq(h, 9, 12)) # 0
  /\ h[6] \in ValidTypes
  /\ LoadBE(SubSeq(h, 13, 16)) <= MaxPayload
  /\ LoadBE(SubSeq(h, 17, 20)) = crc32(SubSeq(h, 1, 16))

\* fr_buf_reserve: the capacity is doubled until it suffices.
fr_buf_reserve(cap, needed) ==
  LET base == IF cap = 0 THEN MinCap ELSE cap
      doubled[k \in 0 .. needed \div base] ==
        IF k = 0 THEN base ELSE LET c == doubled[k - 1] IN IF c < needed THEN 2 * c ELSE c
  IN IF needed <= cap THEN cap ELSE doubled[needed \div base]
\* fr_buf_append writes behind the bytes that count, over those that do not.
fr_buf_append(p, bytes) ==
  LET len == p.len + Len(bytes) IN
  [p EXCEPT !.mem = SubSeq(@, 1, p.len) \o bytes \o SubSeq(@, len + 1, Len(@)),
            !.len = len, !.cap = fr_buf_reserve(@, len)]

\* The two phases of fr_frame_parser_feed.  A parser that has refused a
\* header keeps it, and takes nothing from then on.
TakeHeader(p, bytes) ==
  LET n == Min({HeaderSize - Len(p.header), Len(bytes)})
      h == p.header \o SubSeq(bytes, 1, n) IN
  IF p.done THEN [p |-> p, n |-> 0]
  ELSE [p |-> IF Len(h) = HeaderSize /\ HeaderOK(h)
              THEN [p EXCEPT !.header = h, !.done = TRUE, !.type = h[6],
                             !.req = LoadBE(SubSeq(h, 9, 12)), !.need = LoadBE(SubSeq(h, 13, 16))]
              ELSE [p EXCEPT !.header = h],
        n |-> n]
TakePayload(p, bytes) ==
  LET n == Min({p.need - p.len, Len(bytes)}) IN
  [p |-> IF n = 0 THEN p ELSE fr_buf_append(p, SubSeq(bytes, 1, n)), n |-> n]
\* A complete frame is handed out and the parser starts again; its buffer
\* keeps capacity and bytes.
Restarted(p) == [NewParser EXCEPT !.mem = p.mem, !.cap = p.cap]

\* Mutant: the parser returns for more bytes when the header was the last.
FeedWaits(p, bytes) ==
  LET h == TakeHeader(p, bytes)
      b == TakePayload(h.p, SubSeq(bytes, h.n + 1, Len(bytes))) IN
  IF ~ h.p.done \/ h.n = Len(bytes)
  THEN [p |-> h.p, consumed |-> h.n, out |-> NoFrame,
        error |-> h.n > 0 /\ Len(h.p.header) = HeaderSize /\ ~ h.p.done]
  ELSE IF b.p.len # b.p.need
  THEN [p |-> b.p, consumed |-> h.n + b.n, out |-> NoFrame, error |-> FALSE]
  ELSE [p |-> Restarted(b.p), consumed |-> h.n + b.n, error |-> FALSE,
        out |-> [ready |-> TRUE, type |-> b.p.type, req |-> b.p.req, len |-> b.p.len]]

Feed(p, bytes) ==
  LET h == TakeHeader(p, bytes)
      b == TakePayload(h.p, SubSeq(bytes, h.n + 1, Len(bytes))) IN
  IF ~ h.p.done
  THEN [p |-> h.p, consumed |-> h.n, out |-> NoFrame,
        error |-> h.n > 0 /\ Len(h.p.header) = HeaderSize]
  ELSE IF b.p.len # b.p.need
  THEN [p |-> b.p, consumed |-> h.n + b.n, out |-> NoFrame, error |-> FALSE]
  ELSE [p |-> Restarted(b.p), consumed |-> h.n + b.n, error |-> FALSE,
        out |-> [ready |-> TRUE, type |-> b.p.type, req |-> b.p.req, len |-> b.p.len]]
-----------------------------------------------------------------------------
(* The read loops.                                                         *)

Unfed == SubSeq(inbuf, inpos + 1, Len(inbuf))

\* The server reads into a buffer on the stack; the client appends to inbuf,
\* which it clears when a frame ends where the buffer ends.
Buffered(bytes) == IF side = "server" THEN bytes ELSE inbuf \o bytes
recv ==
  /\ wire # <<>> /\ Unfed = <<>> /\ ~ frame.ready /\ ~ dead
  /\ \E n \in {Min({r, Len(wire)}) : r \in ReadSizes} :
       /\ inbuf' = Buffered(SubSeq(wire, 1, n))
       /\ wire' = SubSeq(wire, n + 1, Len(wire))
  /\ inpos' = IF side = "server" THEN 0 ELSE inpos
  /\ UNCHANGED <<side, script, altered, parser, frame, tasks, received, dead>>

\* The server answers a header it refuses and closes the connection once the
\* answer is out; what it reads until then goes to the dead parser.  The
\* client gives up.
feed ==
  /\ Unfed # <<>> /\ ~ frame.ready
  /\ LET f == Feed(parser, Unfed)
         all == inpos + f.consumed = Len(inbuf) IN
     /\ parser' = f.p
     /\ frame' = f.out
     /\ dead' = (dead \/ f.error)
     /\ IF f.error \/ dead \/ (f.out.ready /\ all /\ side = "client")
        THEN inbuf' = <<>> /\ inpos' = 0
        ELSE inbuf' = inbuf /\ inpos' = inpos + f.consumed
  /\ UNCHANGED <<side, script, wire, altered, tasks, received>>
recv_dead ==
  /\ dead /\ side = "server" /\ wire # <<>> /\ Unfed = <<>>
  /\ inbuf' = SubSeq(wire, 1, Min({Max(ReadSizes), Len(wire)}))
  /\ wire' = SubSeq(wire, Len(inbuf') + 1, Len(wire))
  /\ inpos' = 0
  /\ UNCHANGED <<side, script, altered, parser, frame, tasks, received, dead>>

\* What a frame refers to: memory of the parser.
View(f) == SubSeq(parser.mem, 1, f.len)
\* The decoder of a request is chosen by its type, that of an answer by the
\* request that was made: both are the kind of the message that comes next.
FieldsOf(i) == Kinds[script[Min({i, Len(script)})].kind].fields
Decoded(f, payload) ==
  [req |-> f.req, type |-> f.type, in |-> Decode(FieldsOf(Len(received) + 1), payload)]

\* The server copies the payload into a task for a worker ...
enqueue ==
  /\ side = "server" /\ frame.ready
  /\ tasks' = Append(tasks, [f |-> frame, payload |-> View(frame)])
  /\ frame' = NoFrame
  /\ UNCHANGED <<side, script, wire, altered, parser, inbuf, inpos, received, dead>>
\* Mutant: the task refers to the parser's buffer instead of a copy.
work_on_view ==
  /\ tasks # <<>>
  /\ received' = Append(received, Decoded(Head(tasks).f, View(Head(tasks).f)))
  /\ tasks' = Tail(tasks)
  /\ UNCHANGED <<side, script, wire, altered, parser, inbuf, inpos, frame, dead>>
\* ... which decodes it when it likes.
work ==
  /\ tasks # <<>>
  /\ received' = Append(received, Decoded(Head(tasks).f, Head(tasks).payload))
  /\ tasks' = Tail(tasks)
  /\ UNCHANGED <<side, script, wire, altered, parser, inbuf, inpos, frame, dead>>
\* The client decodes before it reads again.
read_frame ==
  /\ side = "client" /\ frame.ready
  /\ received' = Append(received, Decoded(frame, View(frame)))
  /\ frame' = NoFrame
  /\ UNCHANGED <<side, script, wire, altered, parser, inbuf, inpos, tasks, dead>>

\* A byte of the header of one frame is altered before anything arrives.
Altered(i, b) ==
  [Sent EXCEPT ![i][b] = IF b = 6 THEN (@ % 26) + 1 ELSE (@ + 1) % Radix]
alter ==
  /\ script \in Alterable /\ ~ altered /\ Untouched
  /\ \E i \in DOMAIN script, b \in 1 .. HeaderSize : wire' = FlattenSeq(Altered(i, b))
  /\ altered' = TRUE
  /\ UNCHANGED <<side, script, parser, inbuf, inpos, frame, tasks, received, dead>>

Next == recv \/ feed \/ recv_dead \/ enqueue \/ work \/ read_frame \/ alter
Spec == Init /\ [][Next]_vars
-----------------------------------------------------------------------------
(* Properties.                                                             *)

\* Every message that is decoded is the next one that was sent, with the
\* values that were put into it, however the bytes were cut into pieces and
\* whatever came before or after it in the buffers.
ReceivedIsSent ==
  \A i \in DOMAIN received :
    /\ i <= Len(script)
    /\ received[i].req = i /\ received[i].type = Kinds[script[i].kind].type
    /\ received[i].in.ok /\ received[i].in.vals = script[i].v

\* PROTO-01: once all bytes have been read and fed, every message that was
\* sent has been handed out, the last one too, and one without a payload.
AllDelivered ==
  /\ wire = <<>> /\ Unfed = <<>> /\ ~ frame.ready /\ tasks = <<>> /\ ~ altered
  /\ \A i \in DOMAIN script : Proper(script[i])
  => Len(received) = Len(script)

\* PROTO-02 and PROTO-04: a header that is wrong or was altered ends the
\* connection's messages: neither its own frame nor one behind it is handed
\* out, and no header makes the parser's buffer grow beyond the limit.
BadHeaderEnds ==
  /\ parser.cap < 2 * MaxPayload /\ Len(parser.mem) <= MaxPayload
  /\ dead => ~ parser.done /\ ~ frame.ready
  /\ \A i \in DOMAIN script : ~ Proper(script[i]) => Len(received) < i

\* A payload that was cut short is refused by every decoder, at whatever
\* byte it ends; only where the last field takes the rest of the payload the
\* values are those of the shorter payload.
TruncationRefused ==
  frame.ready =>
    LET fields == FieldsOf(Len(received) + Len(tasks) + 1)
        whole == View(frame) IN
    \A k \in 0 .. Len(whole) - 1 :
      LET in == Decode(fields, SubSeq(whole, 1, k)) IN
      in.ok => /\ Last(fields).k = "rest"
               /\ Encode(fields, in.vals) = SubSeq(whole, 1, k)
=============================================================================
