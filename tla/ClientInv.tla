----------------------------- MODULE ClientInv ------------------------------
(***************************************************************************)
(* The inductive invariant of frctl and the client library: which command  *)
(* is where, that at most one request of the connection is unanswered,     *)
(* what an answer on its way is worth, and that what a download is about   *)
(* to write continues the .part file.                                      *)
(***************************************************************************)
EXTENDS Client

Uploading == {"create", "create_wait", "put", "put_wait", "commit_wait"}
Downloading == {"show", "show_wait", "open", "data", "rename"}
Querying == {"query", "query_wait"}
Handshake == {"connect", "hello", "hello_wait", "auth", "auth_wait"}
Local == {"idle", "measure", "digest"}
Labels == Local \cup Handshake \cup Uploading \cup Downloading \cup Querying
\* The command has a connection and is about to send on it, or to finish.
Ready == {"hello", "auth", "create", "put", "show", "open", "query", "rename"}

Kinds == {"HELLO", "AUTH", "PING", "CREATE", "PUT", "COMMIT", "SHOW", "GET"}
Request == [kind : Kinds, sid : Nat, ordinal : Int, data : Seq(Nat), size : Nat, offset : Nat]
Answers == [kind : {"OK", "DATA", "ERROR"}, n : Nat, data : Seq(Nat)]
Upload == [size : Nat, digest : Contents, parts : Seq(Seq(Nat)), state : {"OPEN", "COMPLETED"}]

Types ==
  /\ cmd \in Command \cup {"none"} /\ pc \in Labels /\ runs \in Nat
  /\ exit \in {"none", "Ok", "Server", "Network", "LocalFile", "Usage", "Killed"}
  /\ file \in Contents /\ out \in Contents \cup {NoFile} /\ part \in Seq(Nat) \cup {NoFile}
  /\ loc \in [size : Nat, digest : Seq(Nat), sid : Nat, sent : Nat, offset : Nat]
  /\ conn \in Nat /\ up \subseteq [conn : Nat, req : Request] /\ down \in Seq(Answers)
  /\ artifact \in Contents \cup {NoFile} /\ sessions \in Seq(Upload)
  /\ stream \in [active : BOOLEAN, offset : Nat, remaining : Nat]

\* Which command is where.
ControlOK ==
  /\ pc \in Uploading \cup {"measure", "digest"} => cmd = "upload"
  /\ pc \in Downloading => cmd \in {"download", "resume"}
  /\ pc \in Querying => cmd \notin {"upload", "download", "resume"}
  /\ cmd = "upload" /\ pc \notin Local => loc.digest \in Contents
  /\ pc = "put_wait" => loc.sent < loc.size
  /\ pc \notin waits => down = <<>>
  /\ pc # "data" => ~ stream.active

KindFor(w) ==
  CASE w = "hello_wait" -> "HELLO"
    [] w = "auth_wait" -> "AUTH"
    [] w = "create_wait" -> "CREATE"
    [] w = "put_wait" -> "PUT"
    [] w = "commit_wait" -> "COMMIT"
    [] w = "show_wait" -> "SHOW"
    [] w = "query_wait" -> "PING"
    [] w = "data" -> "GET"

\* The request the client waits for, if the server has not served it yet.
Pending(m) ==
  /\ down = <<>> /\ ~ stream.active
  /\ m.req.kind = KindFor(pc)
  /\ \A n \in up : n.conn = conn => n = m
  /\ pc = "create_wait" => m.req.data = loc.digest
  /\ pc = "commit_wait" => m.req.sid = loc.sid
  /\ pc = "data" => m.req.offset = Len(part) /\ m.req.size + Len(part) = Len(artifact)
RequestsOK ==
  \A m \in up :
    /\ m.conn <= conn
    /\ m.req.kind = "CREATE" => m.req.data \in Contents
    /\ m.req.kind \in {"PUT", "COMMIT"} => m.req.sid \in DOMAIN sessions
    /\ m.conn = conn => pc \notin Ready
    /\ m.conn = conn /\ pc \in waits => Pending(m)

\* An answer that is no error has come.
Came == down # <<>> /\ down[1].kind # "ERROR"
Opened(n) == n \in DOMAIN sessions /\ sessions[n].digest = loc.digest
AnswersOK ==
  /\ pc \in waits \ {"data"} => Len(down) <= 1
  /\ pc = "create_wait" /\ Came => Opened(down[1].n)
  /\ pc \in {"put", "put_wait", "commit_wait"} => Opened(loc.sid)
  /\ pc = "commit_wait" /\ Came => artifact = loc.digest
  /\ pc = "show_wait" /\ Came => artifact # NoFile /\ down[1].n = Len(artifact)
  /\ pc = "open" => artifact # NoFile /\ loc.size = Len(artifact)
  /\ pc \in {"data", "rename"} => part # NoFile
  /\ pc = "rename" => part = artifact

\* The frame takes the .part file from x bytes to y bytes.
Carries(a, x, y) == a.kind = "DATA" /\ x <= y /\ a.data = SubSeq(artifact, x + 1, y)

\* The frames on their way continue the .part file up to the position of the
\* server's stream, or to the answer that ends it.
Continues(k, c) ==
  /\ c[1] = Len(part)
  /\ \A i \in 1 .. k : Carries(down[i], c[i], c[i + 1])
  /\ \/ /\ k = Len(down)
        /\ stream.active => /\ stream.offset = c[k + 1]
                            /\ stream.offset + stream.remaining = Len(artifact)
     \/ /\ k + 1 = Len(down) /\ ~ stream.active
        /\ down[k + 1] = FAILED \/ (down[k + 1] = OK(0) /\ c[k + 1] = Len(artifact))
InTransit ==
  pc = "data" =>
    \E k \in 0 .. Len(down) : \E c \in [1 .. k + 1 -> 0 .. Len(artifact)] : Continues(k, c)

Done ==
  /\ UploadPublished
  /\ Succeeded({"upload"}) => loc.digest \in Contents
  /\ Succeeded({"download", "resume"}) => out = artifact /\ artifact # NoFile

ClientInv == ControlOK /\ RequestsOK /\ AnswersOK /\ PartIsPrefix /\ InTransit /\ Done
=============================================================================
