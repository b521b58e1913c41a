----------------------------- MODULE ChunkTransfer -----------------------------
(***************************************************************************)
(* The download of fragments: hls::transfer_chunk writes what              *)
(* curl::req::perform receives into a file the producer opened, and says   *)
(* whether the file is good.  perform tries a few times, follows           *)
(* redirects, and keeps connections alive between requests in a cache of   *)
(* one connection per address (curl::context).                             *)
(*                                                                         *)
(* A connection is a stream of tokens: a head is the status line with its  *)
(* headers, a data token a part of a body, zero the last-chunk line of a   *)
(* chunked body and blank the empty line after it.  The origin puts its    *)
(* whole answer on the stream when it gets the request, or a part of it    *)
(* and closes; an answer that is late is one the client's timeout beats,   *)
(* so a timeout may fire whatever the stream holds.  Bodies are finite.    *)
(***************************************************************************)
EXTENDS Integers, Sequences

CONSTANTS
  Host,        \* addresses of origins
  Attempts,    \* config::tcp_reconnect_attempts
  MaxBody,     \* bound: parts of a body
  MaxReq,      \* bound: transfers in one run
  NoConn       \* no connection to this address

ASSUME TransferAssumption ==
  /\ Host # {}
  /\ Attempts \in Nat \ {0}
  /\ MaxBody \in Nat \ {0}
  /\ MaxReq \in Nat

VARIABLES
  pc,      \* idle, connect, send, head, body, done, aborted
  req,     \* transfers begun
  att,     \* i of perform's loop
  rc,      \* rc of perform
  host,    \* host_name of the request
  resp,    \* the head that was read: ret_code, keep_alive, content_length, ...
  left,    \* parts of the body still expected, when the length is known
  conn,    \* context::connections: what is on each stream, whether it has ended
  \* the file
  file,    \* the parts in it
  off,     \* the file offset
  bytes,   \* bytes_sent
  lost     \* history: parts whose write failed

vars == <<pc, req, att, rc, host, resp, left, conn, file, off, bytes, lost>>
fileVars == <<file, off, bytes, lost>>

\* Answers: 200, any other final status, a redirect, a server error; how the
\* end of the body is told; whether the connection is to be kept.
ReplyTo(r) ==
  [kind : {"head"}, req : {r}, status : {"ok", "missing", "moved", "error"},
   frame : {"length", "chunked", "close"}, len : 0 .. MaxBody, keep : BOOLEAN]

Reply == UNION {ReplyTo(r) : r \in 1 .. MaxReq}

\* ret_code=0; content_length=-1; nothing is read yet.
NoHead == [kind |-> "none", req |-> 0, status |-> "none", frame |-> "none", len |-> 0, keep |-> FALSE]

Part == [kind : {"data"}, req : 1 .. MaxReq, att : 0 .. Attempts - 1, part : 1 .. MaxBody]
Zero == [kind |-> "zero"]
Blank == [kind |-> "blank"]
Token == Reply \cup Part \cup {Zero, Blank}
Conn == [wire : Seq(Token), ended : BOOLEAN]

ASSUME NoConnAssumption == NoConn \notin Conn

\* What an origin sends for the request in progress.
Answer(h) ==
  <<h>> \o [p \in 1 .. h.len |-> [kind |-> "data", req |-> req, att |-> att, part |-> p]]
        \o (IF h.frame = "chunked" THEN <<Zero, Blank>> ELSE <<>>)

Init ==
  /\ pc = "idle" /\ req = 0 /\ att = 0 /\ rc = FALSE
  /\ host \in Host
  /\ resp = NoHead /\ left = 0
  /\ conn = [h \in Host |-> NoConn]
  /\ file = <<>> /\ off = 0 /\ bytes = 0 /\ lost = 0

-----------------------------------------------------------------------------
(* hls::transfer_chunk *)

\* transfer_chunk is called with a file just truncated.
Begin ==
  /\ pc \in {"idle", "done"} /\ req < MaxReq
  /\ pc' = "connect" /\ req' = req + 1 /\ att' = 0 /\ rc' = FALSE
  /\ host' \in Host
  /\ resp' = NoHead /\ left' = 0
  /\ file' = <<>> /\ off' = 0 /\ bytes' = 0 /\ lost' = 0
  /\ UNCHANGED conn

\* The verdict: the file becomes a fragment.
Accepted ==
  /\ pc = "done" /\ rc
  /\ resp.frame = "length" /\ resp.len > 0 => resp.len = bytes

-----------------------------------------------------------------------------
(* curl::req::perform *)

\* Mutant: a try that ended in a redirect is not counted.
Retry_FreeRedirect ==
  /\ att' = IF resp.status = "moved" THEN att ELSE att + 1
  /\ pc' = IF att' < Attempts THEN "connect" ELSE "done"

\* The next round of the loop, if there is one left.
Retry ==
  /\ att' = att + 1
  /\ pc' = IF att + 1 < Attempts THEN "connect" ELSE "done"

\* context::connect: a cached connection is used again if the peer has not
\* closed it; the last bytes and the close may still be on their way.
Reuse ==
  /\ pc = "connect" /\ conn[host] # NoConn
  /\ pc' = "send" /\ rc' = FALSE
  /\ UNCHANGED <<req, att, host, resp, left, conn, fileVars>>

\* There is no cached connection, or connected() sees that it was closed.
Disconnected == conn[host] # NoConn => conn[host].ended

Connect ==
  /\ pc = "connect" /\ Disconnected
  /\ pc' = "send" /\ rc' = FALSE
  /\ conn' = [conn EXCEPT ![host] = [wire |-> <<>>, ended |-> FALSE]]
  /\ UNCHANGED <<req, att, host, resp, left, fileVars>>

\* Lookup, connect or the handshake fails: pause, next try.
ConnectFails ==
  /\ pc = "connect" /\ Disconnected
  /\ rc' = FALSE
  /\ conn' = [conn EXCEPT ![host] = NoConn]
  /\ Retry
  /\ UNCHANGED <<req, host, resp, left, fileVars>>

\* Mutant: the connection stays in the cache although the request failed on it.
Fail_Kept ==
  /\ Retry
  /\ UNCHANGED <<rc, conn>>

\* perform_real returns false: the connection is closed, pause, next try.
Fail ==
  /\ conn' = [conn EXCEPT ![host] = NoConn]
  /\ Retry
  /\ UNCHANGED rc

-----------------------------------------------------------------------------
(* curl::req::perform_real *)

\* Mutant: bytes_sent starts again with every try.
OnClear_Bytes ==
  /\ off' = 0 /\ bytes' = 0
  /\ resp' = NoHead /\ left' = 0
  /\ UNCHANGED <<file, lost>>

\* on_clear: back to the start of the file, which keeps what it holds.
OnClear ==
  /\ off' = 0
  /\ resp' = NoHead /\ left' = 0
  /\ UNCHANGED <<file, bytes, lost>>

\* The request reaches the origin, which answers in full, or in part and closes.
\* After a body whose end only the close tells it closes; some final answers
\* (204, 304) have neither a length nor a body, and the connection stays open.
Send(h, n, ends) ==
  /\ pc = "send" /\ ~conn[host].ended
  /\ n \in 0 .. Len(Answer(h))
  /\ n < Len(Answer(h)) \/ (h.frame = "close" /\ h.len > 0) => ends
  /\ conn' = [conn EXCEPT ![host] = [wire |-> @.wire \o SubSeq(Answer(h), 1, n), ended |-> ends]]
  /\ pc' = "head"
  /\ OnClear
  /\ UNCHANGED <<req, att, rc, host>>

\* It goes to an origin that has closed already: nobody will answer.
SendLost ==
  /\ pc = "send" /\ conn[host].ended
  /\ pc' = "head"
  /\ OnClear
  /\ UNCHANGED <<req, att, rc, host, conn>>

\* It cannot be sent (the connection was closed, or sending timed out).
SendFails ==
  /\ pc = "send"
  /\ OnClear
  /\ Fail
  /\ UNCHANGED <<req, host>>

Wire == conn[host].wire
Drop == [conn EXCEPT ![host].wire = Tail(@)]

\* Empty lines before the status line are skipped.
SkipBlank ==
  /\ pc = "head" /\ Wire # <<>> /\ Wire[1] = Blank
  /\ conn' = Drop
  /\ UNCHANGED <<pc, req, att, rc, host, resp, left, fileVars>>

ReadHead ==
  /\ pc = "head" /\ Wire # <<>> /\ Wire[1] \in Reply
  /\ pc' = "body" /\ resp' = Wire[1] /\ left' = Wire[1].len
  /\ conn' = Drop
  /\ UNCHANGED <<req, att, rc, host, fileVars>>

\* The line does not begin with HTTP/.
NotHttp ==
  /\ pc = "head" /\ Wire # <<>> /\ Wire[1] \notin Reply \cup {Blank}
  /\ Fail
  /\ UNCHANGED <<req, host, resp, left, fileVars>>

\* It has no space: http_ver is empty and http_ver.substr(5) throws, which
\* nobody catches.  The process ends.
Abort ==
  /\ pc = "head" /\ Wire # <<>> /\ Wire[1] \notin Reply \cup {Blank}
  /\ pc' = "aborted"
  /\ UNCHANGED <<req, att, rc, host, resp, left, conn, fileVars>>

\* The stream ends, or nothing comes for tcp_timeout, in the head or in a body
\* whose end is told.
Cut ==
  /\ \/ pc = "head"
     \/ pc = "body" /\ resp.frame = "length" /\ left > 0
     \/ pc = "body" /\ resp.frame = "chunked"
  /\ Fail
  /\ UNCHANGED <<req, host, resp, left, fileVars>>

\* on_data: the part is written at the file offset, or the write fails.
OnData(t) ==
  \/ /\ file' = IF off < Len(file) THEN [file EXCEPT ![off + 1] = t] ELSE Append(file, t)
     /\ off' = off + 1 /\ bytes' = bytes + 1
     /\ UNCHANGED lost
  \/ /\ lost' = lost + 1
     /\ UNCHANGED <<file, off, bytes>>

ReadPart ==
  /\ pc = "body" /\ Wire # <<>>
  /\ \/ resp.frame = "length" /\ left > 0 /\ left' = left - 1
     \/ resp.frame = "chunked" /\ Wire[1].kind = "data" /\ UNCHANGED left
     \/ resp.frame = "close" /\ UNCHANGED left
  /\ OnData(Wire[1])
  /\ conn' = Drop
  /\ UNCHANGED <<pc, req, att, rc, host, resp>>

\* perform_real returned true: the connection is kept or closed, a redirect is
\* followed and a server error tried again as long as tries are left.
Finish ==
  /\ \/ /\ resp.status \in {"ok", "missing"}
        /\ pc' = "done" /\ rc' = TRUE
        /\ UNCHANGED <<att, host>>
     \/ /\ resp.status = "error" /\ rc' = TRUE
        /\ Retry
        /\ UNCHANGED host
     \/ /\ resp.status = "moved" /\ rc' = TRUE
        /\ host' \in Host
        /\ Retry
     \/ /\ resp.status = "moved"               \* to nowhere
        /\ pc' = "done" /\ rc' = FALSE
        /\ UNCHANGED <<att, host>>

\* The connection after the answer, of which rest is still on the stream.
Kept(rest) ==
  conn' = [conn EXCEPT ![host] = IF resp.keep THEN [@ EXCEPT !.wire = rest] ELSE NoConn]

\* All parts of a known length are there.
EndOfLength ==
  /\ pc = "body" /\ resp.frame = "length" /\ left = 0
  /\ Kept(Wire)
  /\ Finish
  /\ UNCHANGED <<req, resp, left, fileVars>>

\* The last-chunk line; the empty line after it stays on the stream.
EndOfChunks ==
  /\ pc = "body" /\ resp.frame = "chunked" /\ Wire # <<>> /\ Wire[1].kind # "data"
  /\ Kept(Tail(Wire))
  /\ Finish
  /\ UNCHANGED <<req, resp, left, fileVars>>

\* The body ends with the stream, or when nothing comes for tcp_timeout.
EndOfStream ==
  /\ pc = "body" /\ resp.frame = "close"
  /\ Kept(Wire)
  /\ Finish
  /\ UNCHANGED <<req, resp, left, fileVars>>

Perform ==
  \/ Reuse \/ Connect \/ ConnectFails
  \/ \E h \in ReplyTo(req), ends \in BOOLEAN : \E n \in 0 .. Len(Answer(h)) : Send(h, n, ends)
  \/ SendLost \/ SendFails
  \/ SkipBlank \/ ReadHead \/ NotHttp \/ Abort \/ Cut
  \/ ReadPart \/ EndOfLength \/ EndOfChunks \/ EndOfStream

Next == Begin \/ Perform

Spec == Init /\ [][Next]_vars

-----------------------------------------------------------------------------
(* Properties *)

TypeOK ==
  /\ pc \in {"idle", "connect", "send", "head", "body", "done", "aborted"}
  /\ req \in 0 .. MaxReq /\ att \in 0 .. Attempts /\ rc \in BOOLEAN
  /\ pc \in {"connect", "send", "head", "body"} => req > 0 /\ att < Attempts
  /\ pc \in {"send", "head", "body"} => conn[host] # NoConn
  /\ host \in Host
  /\ resp \in Reply \cup {NoHead} /\ left \in 0 .. MaxBody
  /\ conn \in [Host -> Conn \cup {NoConn}]
  /\ file \in Seq(Token)
  /\ off \in 0 .. Len(file) /\ bytes \in Nat /\ lost \in Nat

\* What is taken for the answer of a request is the origin's answer to this
\* request: no kept connection still holds a late answer to an earlier one
\* (context::close after every failure, bodies read to their end).
OwnAnswer ==
  /\ TypeOK
  /\ resp # NoHead => resp.req = req
  /\ \A j \in 1 .. Len(file) : file[j].kind = "data" /\ file[j].req = req

\* A fragment that is accepted with a known length is one whole body in order,
\* even after tries that left something in the file: on_clear rewinds the file
\* without truncating it, and only bytes_sent, which counts over all tries,
\* tells.  A failed write in a later try can defeat that.
WholeBody ==
  Accepted /\ resp.frame = "length" /\ resp.len > 0 /\ (lost = 0 \/ att = 0) =>
    /\ Len(file) = resp.len
    /\ \A j \in 1 .. Len(file) : file[j].part = j /\ file[j].att = file[1].att

Stage == [connect |-> 4, send |-> 3, head |-> 2, body |-> 1]

\* transfer_chunk returns: every step of perform uses up a try, goes on to the next stage
\* of the request or takes something from the stream, so redirects and errors cannot keep
\* it for ever.
UsesUp ==
  [][{pc, pc'} \subseteq DOMAIN Stage =>
        \/ att' > att
        \/ att' = att /\ Stage[pc'] < Stage[pc]
        \/ att' = att /\ pc' = pc /\ host' = host /\ Len(Wire') < Len(Wire)]_vars
================================================================================
