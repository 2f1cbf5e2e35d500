------------------------------ MODULE WireInv ------------------------------
(***************************************************************************)
(* The invariant behind the properties of module Wire: whatever was read,  *)
(* buffered and handed out, what is still ahead is the rest of the frames. *)
(***************************************************************************)
EXTENDS Wire

\* What was put on the wire, frame by frame.
Tapes ==
  IF altered THEN {Altered(i, b) : i \in DOMAIN script, b \in 1 .. HeaderSize} ELSE {Sent}

\* A frame as it is handed out, copied and decoded.
Out(i) ==
  [ready |-> TRUE, type |-> Kinds[script[i].kind].type, req |-> i, len |-> Len(Payload(script[i]))]
Task(i) == [f |-> Out(i), payload |-> Payload(script[i])]
Got(i) ==
  [req |-> i, type |-> Kinds[script[i].kind].type,
   in |-> [ok |-> TRUE, left |-> <<>>, vals |-> script[i].v]]

\* How many frames the parser has handed out, and the bytes behind them.
HandedOut == Len(received) + Len(tasks) + (IF frame.ready THEN 1 ELSE 0)
Held == parser.header \o SubSeq(parser.mem, 1, parser.len)
Ahead == Held \o (Unfed \o wire)

Shapes ==
  /\ side \in {"server", "client"} /\ script \in Scripts
  /\ altered \in BOOLEAN /\ dead \in BOOLEAN
  /\ wire \in Seq(Nat) /\ inbuf \in Seq(Nat) /\ inpos \in 0 .. Len(inbuf)
  /\ side = "client" => tasks = <<>>

\* A parser between two calls: in front of a header, in it, or in the payload
\* of a header that it accepted.
ParserOK(p) ==
  /\ p = [header |-> p.header, done |-> p.done, type |-> p.type, req |-> p.req, need |-> p.need,
          mem |-> p.mem, len |-> p.len, cap |-> p.cap]
  /\ p.header \in Seq(Nat) /\ p.mem \in Seq(Nat) /\ p.done \in BOOLEAN
  /\ p.len \in 0 .. Len(p.mem) /\ Len(p.mem) <= MaxPayload
  /\ p.cap \in Nat /\ p.cap < 2 * MaxPayload
  /\ ~ p.done => p.len = 0 /\ Len(p.header) <= HeaderSize
  /\ p.done =>
       /\ Len(p.header) = HeaderSize /\ HeaderOK(p.header)
       /\ p.type = p.header[6] /\ p.req = LoadBE(SubSeq(p.header, 9, 12))
       /\ p.need = LoadBE(SubSeq(p.header, 13, 16)) /\ p.len < p.need

\* Everything that was handed out is a frame the encoder made, in order.
InOrder ==
  /\ Len(received) \in Nat /\ Len(tasks) \in Nat /\ frame.ready \in BOOLEAN
  /\ HandedOut <= Len(script) /\ \A i \in 1 .. HandedOut : Proper(script[i])
  /\ received = [i \in 1 .. Len(received) |-> Got(i)]
  /\ tasks = [j \in 1 .. Len(tasks) |-> Task(Len(received) + j)]
  /\ frame = IF frame.ready THEN Out(HandedOut) ELSE NoFrame
  /\ frame.ready =>
       /\ parser.header = <<>> /\ ~ parser.done /\ frame.len <= Len(parser.mem)
       /\ View(frame) = Payload(script[HandedOut])

\* Nothing is lost, doubled or out of order on the way.
Streamed(F) ==
  ~ dead => /\ ~ parser.done => Len(parser.header) < HeaderSize
            /\ Ahead = FlattenSeq(SubSeq(F, HandedOut + 1, Len(F)))

\* The parser dies of a header that the encoder did not make.
Refused ==
  dead => /\ ~ parser.done /\ ~ frame.ready
          /\ Len(parser.header) = HeaderSize /\ ~ HeaderOK(parser.header)
          /\ altered \/ \E i \in DOMAIN script : ~ Proper(script[i])

WireInvariant ==
  /\ Shapes /\ ParserOK(parser) /\ InOrder /\ Refused
  /\ \E F \in Tapes : Streamed(F)
=============================================================================
