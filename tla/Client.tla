------------------------------- MODULE Client -------------------------------
(***************************************************************************)
(* frctl and the client library (src/src/apps/frctl/main.cpp,              *)
(* src/src/client/fr_client.cpp): one user runs one command after another, *)
(* each over a connection of its own that may break, against a server that *)
(* answers when it likes, or not at all.                                   *)
(*                                                                         *)
(* The client sends a request and blocks until an answer comes, the        *)
(* connection breaks or the receive timeout strikes; any of the last two   *)
(* ends the command, while its request may still be on its way and be      *)
(* executed later, during the user's next command.                         *)
(*                                                                         *)
(* A file is the sequence of its bytes and a digest is the sequence it is  *)
(* the digest of.  One reference (ns/name:version) is uploaded and         *)
(* downloaded; modules Storage and Server have the server's side in detail. *)
(***************************************************************************)
EXTENDS Integers, SequencesExt

CONSTANTS
  Contents,   \* contents of the user's file and of artifacts
  NoFile,     \* stands for a file or an artifact that does not exist
  ChunkSize,  \* session.chunk_size
  Slice,      \* kDataSliceBytes
  Commands,   \* the commands the user may run
  MaxRuns     \* bound on the commands

Command == {"upload", "download", "resume", "query", "destroy"}
ASSUME ClientAssumption ==
  /\ Contents \subseteq Seq(Nat) /\ NoFile \notin Seq(Nat)
  /\ {ChunkSize, Slice} \subseteq Nat \ {0}
  /\ MaxRuns \in Nat
  /\ Commands \subseteq Command

VARIABLES
  cmd,       \* the command that runs, or ran last
  pc,        \* its position; "idle" between commands
  exit,      \* the exit code of the last command
  runs,      \* commands started so far
  file,      \* the user's file
  out,       \* the output file
  part,      \* the output file with suffix .part
  loc,       \* local variables: size, digest, sid, sent, offset
  conn,      \* number of the command's connection
  up,        \* requests on their way to the server, with their connection
  down,      \* answers on their way to the client
  artifact,  \* content of the artifact, NoFile if there is none
  sessions,  \* upload sessions
  stream     \* the download the server has in progress for the client

command == <<cmd, runs>>
disk == <<file, out, part>>
server == <<artifact, sessions, stream>>
vars == <<cmd, pc, exit, runs, file, out, part, loc, conn, up, down, artifact, sessions, stream>>

Fresh == [size |-> 0, digest |-> <<>>, sid |-> 0, sent |-> 0, offset |-> 0]
NoStream == [active |-> FALSE, offset |-> 0, remaining |-> 0]
NoRequest == [kind |-> "PING", sid |-> 0, ordinal |-> 0, data |-> <<>>, size |-> 0, offset |-> 0]
Answer(kind, n, data) == [kind |-> kind, n |-> n, data |-> data]
OK(n) == Answer("OK", n, <<>>)
FAILED == Answer("ERROR", 0, <<>>)

Init ==
  /\ cmd = "none" /\ pc = "idle" /\ exit = "none" /\ runs = 0
  /\ file \in Contents
  /\ out = NoFile /\ part = NoFile
  /\ loc = Fresh
  /\ conn = 0 /\ up = {} /\ down = <<>>
  /\ artifact = NoFile /\ sessions = <<>> /\ stream = NoStream
-----------------------------------------------------------------------------
(* The end of a command, whatever ends it.  The client's destructor closes  *)
(* the connection: answers that are on their way are lost.                 *)

Ends(code) ==
  /\ pc' = "idle"
  /\ exit' = code
  /\ down' = <<>>
  /\ stream' = NoStream
EndsOnly(code) == Ends(code) /\ UNCHANGED <<command, disk, loc, conn, up, artifact, sessions>>

\* exit_code_for: what the server refuses ends the command with Server (the
\* codes for missing authentication or rights are not told apart), a broken
\* connection with Network.
start(c) ==
  /\ pc = "idle" /\ runs < MaxRuns
  /\ cmd' = c
  /\ runs' = runs + 1
  /\ exit' = "none"
  /\ loc' = Fresh
  /\ pc' = IF c = "upload" THEN "measure" ELSE "connect"
  /\ UNCHANGED <<disk, conn, up, down, server>>

\* cmd_upload reads the size first and the bytes afterwards.
measure ==
  /\ pc = "measure"
  /\ loc' = [loc EXCEPT !.size = Len(file)]
  /\ pc' = "digest"
  /\ UNCHANGED <<command, exit, disk, conn, up, down, server>>
digest ==
  /\ pc = "digest"
  /\ IF Len(file) < loc.size
       THEN EndsOnly("LocalFile")
       ELSE /\ loc' = [loc EXCEPT !.digest = file]
            /\ pc' = "connect"
            /\ UNCHANGED <<command, exit, disk, conn, up, down, server>>

\* socket, connect and the TLS handshake.
connect ==
  /\ pc = "connect"
  /\ \/ /\ conn' = conn + 1
        /\ pc' = "hello"
        /\ UNCHANGED <<command, exit, disk, loc, up, down, server>>
     \/ EndsOnly("Network")
-----------------------------------------------------------------------------
(* request(): send, then wait for the answer.                              *)

Send(r, wait) ==
  /\ up' = up \cup {[conn |-> conn, req |-> r]}
  /\ pc' = wait
  /\ UNCHANGED <<command, exit, disk, loc, conn, down, server>>
Plain(kind) == [NoRequest EXCEPT !.kind = kind]

\* After the handshake: the command's own first request.
FirstRequest ==
  CASE cmd = "upload" -> "create"
    [] cmd \in {"download", "resume"} -> "show"
    [] OTHER -> "query"

send_hello == pc = "hello" /\ Send(Plain("HELLO"), "hello_wait")
send_auth == pc = "auth" /\ Send(Plain("AUTH"), "auth_wait")
send_create ==
  /\ pc = "create"
  /\ Send([NoRequest EXCEPT !.kind = "CREATE", !.size = loc.size, !.data = loc.digest], "create_wait")
send_show == pc = "show" /\ Send(Plain("SHOW"), "show_wait")
\* A command of one request; what destroys is refused without --confirm.
send_query ==
  /\ pc = "query"
  /\ IF cmd = "destroy" THEN EndsOnly("Usage") ELSE Send(Plain("PING"), "query_wait")

\* The chunk is read from the file now, not when the digest was computed.
Want == IF loc.size - loc.sent < ChunkSize THEN loc.size - loc.sent ELSE ChunkSize
send_chunk ==
  /\ pc = "put" /\ loc.sent < loc.size
  /\ IF Len(file) < loc.sent + Want
       THEN EndsOnly("LocalFile")
       ELSE Send([NoRequest EXCEPT !.kind = "PUT", !.sid = loc.sid, !.ordinal = loc.sent \div ChunkSize,
                                   !.data = SubSeq(file, loc.sent + 1, loc.sent + Want)], "put_wait")
send_commit ==
  /\ pc = "put" /\ loc.sent >= loc.size
  /\ Send([NoRequest EXCEPT !.kind = "COMMIT", !.sid = loc.sid], "commit_wait")

\* Opens the .part file, at its end if the download is resumed, and asks for
\* the rest of the artifact.
\* Mutant: the position is kept but the file is not opened for appending.
open_part_truncated ==
  /\ pc = "open"
  /\ LET have == IF cmd = "resume" /\ part # NoFile THEN Len(part) ELSE 0
         offset == IF have < loc.size THEN have ELSE 0
     IN /\ part' = <<>>
        /\ loc' = [loc EXCEPT !.offset = offset]
        /\ up' = up \cup {[conn |-> conn, req |-> [NoRequest EXCEPT !.kind = "GET", !.offset = offset,
                                                      !.size = loc.size - offset]]}
  /\ pc' = "data"
  /\ UNCHANGED <<command, exit, file, out, conn, down, server>>
open_part ==
  /\ pc = "open"
  /\ LET have == IF cmd = "resume" /\ part # NoFile THEN Len(part) ELSE 0
         offset == IF have < loc.size THEN have ELSE 0
     IN /\ part' = IF offset # 0 THEN part ELSE <<>>
        /\ loc' = [loc EXCEPT !.offset = offset]
        /\ up' = up \cup {[conn |-> conn, req |-> [NoRequest EXCEPT !.kind = "GET", !.offset = offset,
                                                      !.size = loc.size - offset]]}
  /\ pc' = "data"
  /\ UNCHANGED <<command, exit, file, out, conn, down, server>>

\* The answer is taken; what the client does with it.
waits == {"hello_wait", "auth_wait", "create_wait", "put_wait", "commit_wait", "show_wait", "query_wait",
          "data"}
Receives(wait) == pc = wait /\ down # <<>> /\ down[1].kind # "ERROR"
Goes(next, l) ==
  /\ pc' = next
  /\ loc' = l
  /\ down' = Tail(down)
  /\ UNCHANGED <<command, exit, disk, conn, up, server>>

hello_done == Receives("hello_wait") /\ Goes("auth", loc)
auth_done == Receives("auth_wait") /\ Goes(FirstRequest, loc)
create_done == Receives("create_wait") /\ Goes("put", [loc EXCEPT !.sid = down[1].n])
put_done == Receives("put_wait") /\ Goes("put", [loc EXCEPT !.sent = @ + Want])
show_done == Receives("show_wait") /\ Goes("open", [loc EXCEPT !.size = down[1].n])
commit_done == Receives("commit_wait") /\ EndsOnly("Ok")
query_done == Receives("query_wait") /\ EndsOnly("Ok")

\* A DATA frame is appended to the .part file, the final OK ends the stream.
\* Nothing compares what arrived with the size or the digest.
\* Mutant: the bytes go to the output file itself.
write_data_direct ==
  /\ Receives("data") /\ down[1].kind = "DATA"
  /\ out' = (IF out = NoFile THEN <<>> ELSE out) \o down[1].data
  /\ part' = part \o down[1].data
  /\ down' = Tail(down)
  /\ UNCHANGED <<command, pc, exit, loc, file, conn, up, server>>
write_data ==
  /\ Receives("data") /\ down[1].kind = "DATA"
  /\ part' = part \o down[1].data
  /\ down' = Tail(down)
  /\ UNCHANGED <<command, pc, exit, loc, file, out, conn, up, server>>
\* The disk is full: some of what was buffered is in the file.
write_fails ==
  /\ Receives("data") /\ down[1].kind = "DATA"
  /\ LET all == part \o down[1].data IN
     \E n \in loc.offset..Len(all) : part' = SubSeq(all, 1, n)
  /\ Ends("LocalFile")
  /\ UNCHANGED <<command, file, out, loc, conn, up, artifact, sessions>>
data_end == Receives("data") /\ down[1].kind = "OK" /\ Goes("rename", loc)

\* Mutant: the file keeps its temporary name.
close_only ==
  /\ pc = "rename"
  /\ Ends("Ok")
  /\ UNCHANGED <<command, disk, loc, conn, up, artifact, sessions>>
close_and_rename ==
  /\ pc = "rename"
  /\ out' = part
  /\ part' = NoFile
  /\ Ends("Ok")
  /\ UNCHANGED <<command, loc, file, conn, up, artifact, sessions>>
\* close() is not checked: on a full disk the end of the file is missing.
close_loses ==
  /\ pc = "rename" /\ part # <<>>
  /\ out' = Front(part)
  /\ part' = NoFile
  /\ Ends("Ok")
  /\ UNCHANGED <<command, loc, file, conn, up, artifact, sessions>>
\* The second rename fails too: the old output is gone, the exit code is Ok.
rename_fails ==
  /\ pc = "rename"
  /\ out' = NoFile
  /\ Ends("Ok")
  /\ UNCHANGED <<command, loc, file, part, conn, up, artifact, sessions>>

\* The server refused.
request_fails == pc \in waits /\ down # <<>> /\ down[1].kind = "ERROR" /\ EndsOnly("Server")
\* Nothing came for timeout_seconds.
\* Mutant: the sockets have no timeout.
receive_forever == FALSE
receive_timeout == pc \in waits /\ down = <<>> /\ EndsOnly("Network")
\* The connection breaks, or an answer is no frame of the protocol.
connection_lost ==
  /\ pc \in waits \cup {"hello", "auth", "create", "put", "show", "open", "query"}
  /\ EndsOnly("Network")
-----------------------------------------------------------------------------
(* The server, and what else happens meanwhile.                            *)

\* An answer reaches the command that waits on the connection it is for.
Reply(m, answers) == down' = IF m.conn = conn /\ pc \in waits THEN down \o answers ELSE down
Handled(m) == m \in up /\ up' = up \ {m} /\ UNCHANGED <<command, pc, exit, disk, loc, conn>>

\* Handshake and requests of one answer; any request may be refused (no such
\* artifact, busy server, missing rights, a full disk), or get lost.
serve_plain(m) ==
  /\ m.req.kind \in {"HELLO", "AUTH", "PING"}
  /\ Handled(m) /\ Reply(m, <<OK(0)>>)
  /\ UNCHANGED server
serve_error(m) == Handled(m) /\ Reply(m, <<FAILED>>) /\ UNCHANGED server
lose_request(m) ==
  /\ m.conn # conn \/ pc \notin waits
  /\ Handled(m)
  /\ UNCHANGED <<down, server>>

serve_create(m) ==
  /\ m.req.kind = "CREATE"
  /\ Handled(m) /\ Reply(m, <<OK(Len(sessions) + 1)>>)
  /\ sessions' = Append(sessions, [size |-> m.req.size, digest |-> m.req.data, parts |-> <<>>, state |-> "OPEN"])
  /\ UNCHANGED <<artifact, stream>>

\* Chunks come in order and one at a time from this client, so that the chunks
\* of a session are a sequence.
Session(m) == sessions[m.req.sid]
serve_put(m) ==
  /\ m.req.kind = "PUT" /\ Session(m).state = "OPEN" /\ m.req.ordinal = Len(Session(m).parts)
  /\ Handled(m) /\ Reply(m, <<OK(0)>>)
  /\ sessions' = [sessions EXCEPT ![m.req.sid].parts = Append(@, m.req.data)]
  /\ UNCHANGED <<artifact, stream>>

\* Mutant: a version that exists is replaced.
serve_commit_replaces(m) ==
  /\ m.req.kind = "COMMIT"
  /\ Session(m).state = "OPEN" /\ FlattenSeq(Session(m).parts) = Session(m).digest
  /\ Handled(m) /\ Reply(m, <<OK(0)>>)
  /\ artifact' = Session(m).digest
  /\ sessions' = [sessions EXCEPT ![m.req.sid].state = "COMPLETED"]
  /\ UNCHANGED stream
serve_commit(m) ==
  /\ m.req.kind = "COMMIT"
  /\ Session(m).state = "OPEN" /\ FlattenSeq(Session(m).parts) = Session(m).digest /\ artifact = NoFile
  /\ Handled(m) /\ Reply(m, <<OK(0)>>)
  /\ artifact' = Session(m).digest
  /\ sessions' = [sessions EXCEPT ![m.req.sid].state = "COMPLETED"]
  /\ UNCHANGED stream

serve_show(m) ==
  /\ m.req.kind = "SHOW" /\ artifact # NoFile
  /\ Handled(m) /\ Reply(m, <<OK(Len(artifact))>>)
  /\ UNCHANGED server

\* One slice of a download, with the final OK if it is the last one.
SliceOf(s) ==
  LET n == IF s.remaining < Slice THEN s.remaining ELSE Slice IN
  SubSeq(artifact, s.offset + 1, IF s.offset + n < Len(artifact) THEN s.offset + n ELSE Len(artifact))
Advanced(s, data) ==
  IF s.remaining = Len(data) \/ data = <<>> THEN NoStream
  ELSE [active |-> TRUE, offset |-> s.offset + Len(data), remaining |-> s.remaining - Len(data)]
Frames(s, data) ==
  (IF data = <<>> THEN <<>> ELSE <<Answer("DATA", 0, data)>>)
    \o (IF Advanced(s, data) = NoStream THEN <<OK(0)>> ELSE <<>>)
Readable(s) == artifact # NoFile /\ s.offset <= Len(artifact)

serve_get(m) ==
  /\ m.req.kind = "GET"
  /\ LET s == [active |-> TRUE, offset |-> m.req.offset, remaining |-> m.req.size] IN
     /\ Readable(s)
     /\ Handled(m) /\ Reply(m, Frames(s, SliceOf(s)))
     /\ stream' = IF m.conn = conn /\ pc = "data" THEN Advanced(s, SliceOf(s)) ELSE stream
  /\ UNCHANGED <<artifact, sessions>>
serve_slice ==
  /\ stream.active /\ Readable(stream)
  /\ stream' = Advanced(stream, SliceOf(stream))
  /\ down' = down \o Frames(stream, SliceOf(stream))
  /\ UNCHANGED <<command, pc, exit, disk, loc, conn, up, artifact, sessions>>
\* Another worker hands over this slice before the one that precedes it
\* (what module Server shows of two workers).
serve_slice_early ==
  /\ stream.active /\ Readable(stream)
  /\ down # <<>> /\ Last(down).kind = "DATA"
  /\ stream' = Advanced(stream, SliceOf(stream))
  /\ down' = Front(down) \o Append(Frames(stream, SliceOf(stream)), Last(down))
  /\ UNCHANGED <<command, pc, exit, disk, loc, conn, up, artifact, sessions>>
serve_slice_error ==
  /\ stream.active
  /\ stream' = NoStream
  /\ down' = Append(down, FAILED)
  /\ UNCHANGED <<command, pc, exit, disk, loc, conn, up, artifact, sessions>>

\* The user's file changes; the user stops the command, and what the stream
\* had buffered of the .part file is lost; others delete the artifact and
\* publish another one under its name.
edit ==
  /\ file' \in Contents \ {file}
  /\ UNCHANGED <<command, pc, exit, out, part, loc, conn, up, down, server>>
kill ==
  /\ pc # "idle"
  /\ IF pc \in {"data", "rename"}
       THEN \E n \in loc.offset..Len(part) : part' = SubSeq(part, 1, n)
       ELSE UNCHANGED part
  /\ Ends("Killed")
  /\ UNCHANGED <<command, file, out, loc, conn, up, artifact, sessions>>
republish ==
  /\ artifact # NoFile
  /\ artifact' \in (Contents \cup {NoFile}) \ {artifact}
  /\ UNCHANGED <<command, pc, exit, disk, loc, conn, up, down, sessions, stream>>

ClientStep ==
  \/ measure \/ digest \/ connect
  \/ send_hello \/ send_auth \/ send_create \/ send_show \/ send_query \/ send_chunk \/ send_commit
  \/ open_part \/ hello_done \/ auth_done \/ create_done \/ put_done \/ show_done \/ commit_done
  \/ query_done \/ write_data \/ write_fails \/ data_end \/ close_and_rename
  \/ request_fails \/ receive_timeout
ServerStep ==
  \/ \E m \in up :
       \/ serve_plain(m) \/ serve_error(m) \/ lose_request(m) \/ serve_create(m) \/ serve_put(m)
       \/ serve_commit(m) \/ serve_show(m) \/ serve_get(m)
  \/ serve_slice \/ serve_slice_error

Next ==
  \/ \E c \in Commands : start(c)
  \/ ClientStep \/ ServerStep
  \/ connection_lost \/ edit \/ kill

Spec == Init /\ [][Next]_vars
\* The client's thread runs and its sockets have a timeout; nothing is assumed
\* of the server or of the network.
FairSpec == Spec /\ WF_vars(ClientStep)

\* The same where the last bytes do not fit on the disk, artifacts are replaced
\* and the server has several workers.
FaultySpec == Init /\ [][Next \/ close_loses \/ rename_fails \/ republish \/ serve_slice_early]_vars
-----------------------------------------------------------------------------
(* Properties.                                                             *)

Succeeded(commands) == pc = "idle" /\ exit = "Ok" /\ cmd \in commands

\* frctl upload ends with 0 only if the artifact that is published has the
\* bytes the file had when its digest was computed: although the chunks are
\* read later, and although a commit of an earlier command may come late.
UploadPublished == Succeeded({"upload"}) => artifact = loc.digest

\* What is in the .part file is a beginning of the artifact, whenever and
\* however often a download was cut off, so that a resumed download appends
\* to the right bytes.
PartIsPrefix == part # NoFile => artifact # NoFile /\ IsPrefix(part, artifact)

\* The output file is absent or one whole artifact at every moment (FR-DL-02:
\* checked as a whole, then replaced atomically).
OutputWhole == out # NoFile => out \in Contents

\* frctl download ends with 0 only if the output file is the artifact.
DownloadExact == Succeeded({"download", "resume"}) => out = artifact

\* Every command ends, whatever the server does (CLI --timeout).
CommandEnds == (pc # "idle") ~> (pc = "idle")
=============================================================================
