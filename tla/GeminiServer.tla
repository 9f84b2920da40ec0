---------------------------- MODULE GeminiServer ----------------------------
(***************************************************************************)
(* The request loop of the geminon library: gemini_serve() of server.c,    *)
(* the handlers it walks (files, authn and vhosts of server.c, echo and    *)
(* cgi of geminon.c), the one request structure it reuses for every        *)
(* connection, and the peers at the other end of the connections.          *)
(*                                                                         *)
(* A connection is a member of Conns; it is opened by a peer, waits in the *)
(* kernel's backlog, and is served by the only thread the server has.      *)
(* What is sent to a peer is a sequence of items: a status line, named by  *)
(* its two digits, and the blocks of a body.                               *)
(***************************************************************************)
EXTENDS Integers, Sequences, SequencesExt

CONSTANTS
  Conns,        \* the connections that peers may make
  NoConn,       \* req.fd = -1
  Certs,        \* the certificates peers may present
  NoCert,       \* req.cert = NULL; also what a peer without one presents
  BadHello,     \* a handshake that SSL_accept() refuses
  NoHello,      \* nothing has been sent yet
  Urls,         \* the well-formed URLs: records [host, port, path]
  NoUrl,        \* req.url = NULL
  BadUrl,       \* a complete line that is not a gemini URL
  Overlong,     \* more than GEMINI_MAX_REQUEST bytes without a CRLF
  NoLine,       \* no request line has been sent yet
  Handlers,     \* the handlers the program may register
  Kind,         \* [Handlers -> {"authn","vhosts","fs","echo","cgi"}]
  Prefix,       \* [Handlers -> path prefixes]
  Trust,        \* the certificates an authn handler's store verifies
  Sites,        \* the <<host, port>> pairs of a vhosts handler
  Files,        \* the paths, below the prefix, that a fs handler can open
  FileBlocks,   \* the blocks of GEMINI_STREAM_BLOCK_SIZE bytes in a file
  CgiBlocks,    \* bound on the blocks that a program prints
  PipeBlocks,   \* how many blocks a pipe holds when nobody reads it
  Backlog,      \* GEMINI_LISTEN_BACKLOG
  MaxFds,       \* descriptors left to the process once it is listening
  MaxRequests,  \* server->max_requests; 0 is "no limit"
  CounterMod,   \* the range of an unsigned int
  Faults,       \* BOOLEAN: accept, pipe, fork and read may fail
  SigPipe       \* BOOLEAN: writing to a peer that left may raise SIGPIPE

Kinds    == {"authn", "vhosts", "fs", "echo", "cgi"}
Statuses == {"20", "50", "51", "53", "59", "60", "61"}
Items    == Statuses \cup {"body", "cgi"}
Hellos   == Certs \cup {NoCert, BadHello}
Lines    == Urls \cup {BadUrl, Overlong}

ASSUME ConfigurationAssumption ==
  /\ Kind \in [Handlers -> Kinds]
  /\ FileBlocks \in Nat /\ CgiBlocks \in Nat /\ PipeBlocks \in Nat
  /\ Backlog \in Nat /\ MaxRequests \in Nat
  /\ MaxFds \in Nat \ {0} /\ CounterMod \in Nat \ {0}
  /\ Faults \in BOOLEAN /\ SigPipe \in BOOLEAN

ASSUME SentinelAssumption ==
  /\ NoConn \notin Conns
  /\ Certs \cap {NoCert, BadHello, NoHello} = {}
  /\ NoCert # BadHello /\ NoCert # NoHello /\ BadHello # NoHello
  /\ Urls \cap {NoUrl, BadUrl, Overlong, NoLine} = {}
  /\ BadUrl # Overlong /\ BadUrl # NoLine /\ Overlong # NoLine

VARIABLES
  pc,        \* where gemini_serve() is
  chain,     \* the list that starts at server->first
  i,         \* the position of `handler' in it, from 1; 0 outside the loop
  req,       \* struct gemini_request: [fd, ssl, url, cert]
  requests,  \* server->requests
  left,      \* blocks that the file or the program has still to give
  leaked,    \* descriptors that are open and that nothing refers to
  backlog,   \* connections completed by the kernel, not yet accepted
  conn,      \* what became of each connection
  out,       \* what each peer has been sent
  by,        \* history: which position of the chain answered
  cert,      \* what each peer sent in its handshake
  line,      \* the request line each peer sent
  gone       \* whether the peer has hung up

peers == <<cert, line, gone>>
vars  == <<pc, chain, i, req, requests, left, leaked, backlog, conn, out, by,
           cert, line, gone>>

(* The places of gemini_serve() at which a connection is being served. *)
Serving == {"tls", "read", "dispatch", "stream", "cgi", "wait"}
Walking == {"dispatch", "stream", "cgi", "wait"}
Stopped == {"finished", "failed", "killed"}

Init ==
  /\ pc = "setup" /\ chain = <<>> /\ i = 0
  /\ req = [fd |-> NoConn, ssl |-> "null", url |-> NoUrl, cert |-> NoCert]
  /\ requests = 0 /\ left = 0 /\ leaked = 0
  /\ backlog = <<>>
  /\ conn = [c \in Conns |-> "none"]
  /\ out  = [c \in Conns |-> <<>>]
  /\ by   = [c \in Conns |-> 0]
  /\ cert = [c \in Conns |-> NoHello]
  /\ line = [c \in Conns |-> NoLine]
  /\ gone = [c \in Conns |-> FALSE]

-----------------------------------------------------------------------------
(* Setting up: gemini_handle() appends; gemini_serve() starts. *)

Register(h) ==
  /\ pc = "setup" /\ h \notin ToSet(chain)
  /\ chain' = Append(chain, h)
  /\ UNCHANGED <<pc, i, req, requests, left, leaked, backlog, conn, out, by, peers>>

Serve ==
  /\ pc = "setup"
  /\ pc' = "accept"
  /\ UNCHANGED <<chain, i, req, requests, left, leaked, backlog, conn, out, by, peers>>

-----------------------------------------------------------------------------
(* The peers.  They speak only TLS and the request line; a peer may leave   *)
(* at any time, or say nothing at all.                                     *)

Connect(c) ==
  /\ pc \notin Stopped \cup {"setup"}
  /\ conn[c] = "none" /\ Len(backlog) < Backlog
  /\ conn' = [conn EXCEPT ![c] = "queued"]
  /\ backlog' = Append(backlog, c)
  /\ UNCHANGED <<pc, chain, i, req, requests, left, leaked, out, by, peers>>

Hello(c) ==
  /\ conn[c] \in {"queued", "open"} /\ ~gone[c] /\ cert[c] = NoHello
  /\ \E x \in Hellos : cert' = [cert EXCEPT ![c] = x]
  /\ UNCHANGED <<pc, chain, i, req, requests, left, leaked, backlog, conn, out, by, line, gone>>

(* The line goes through the session, so the handshake has to be over. *)
Send(c) ==
  /\ pc = "read" /\ req.fd = c /\ ~gone[c] /\ line[c] = NoLine
  /\ \E l \in Lines : line' = [line EXCEPT ![c] = l]
  /\ UNCHANGED <<pc, chain, i, req, requests, left, leaked, backlog, conn, out, by, cert, gone>>

HangUp(c) ==
  /\ conn[c] \in {"queued", "open"} /\ ~gone[c]
  /\ gone' = [gone EXCEPT ![c] = TRUE]
  /\ UNCHANGED <<pc, chain, i, req, requests, left, leaked, backlog, conn, out, by, cert, line>>

-----------------------------------------------------------------------------
(* What the steps of the server share. *)

Handler == chain[i]
Covers(h, url) == IsPrefix(Prefix[h], url.path)
Below(h, url)  == SubSeq(url.path, Len(Prefix[h]) + 1, Len(url.path))
At(kind) ==
  /\ pc = "dispatch" /\ i \in 1..Len(chain)
  /\ Covers(Handler, req.url) /\ Kind[Handler] = kind

SessionOpen == req.fd # NoConn /\ conn[req.fd] = "open"
FreeFds == MaxFds - leaked - (IF SessionOpen THEN 1 ELSE 0)
                           - (IF pc = "stream" THEN 1 ELSE 0)

(* A write to a peer that left may fail, and nothing after it is sent. *)
Write(items) ==
  \E n \in 0..Len(items) :
    /\ n = Len(items) \/ gone[req.fd]
    /\ out' = [out EXCEPT ![req.fd] = @ \o SubSeq(items, 1, n)]

(* Mutant: the session is freed and req->ssl not set to NULL. *)
CloseRequestKeepsSession ==
  /\ conn' = [conn EXCEPT ![req.fd] = "closed"]
  /\ req' = [req EXCEPT !.fd = NoConn, !.url = NoUrl]

(* Mutant: the descriptor is forgotten and not closed. *)
CloseRequestKeepsDescriptor ==
  /\ conn' = conn
  /\ req' = [req EXCEPT !.ssl = "null", !.fd = NoConn, !.url = NoUrl]

CloseRequest ==
  /\ conn' = [conn EXCEPT ![req.fd] = "closed"]
  /\ req' = [req EXCEPT !.ssl = "null", !.fd = NoConn, !.url = NoUrl]

(* Mutant: the limit is reached, not exceeded. *)
AtLimit(n) == MaxRequests > 0 /\ n >= MaxRequests

OverLimit(n) == MaxRequests > 0 /\ n > MaxRequests

(* The end of an iteration: count it, and stop over the limit. *)
EndRequest ==
  /\ CloseRequest
  /\ requests' = (requests + 1) % CounterMod
  /\ pc' = IF OverLimit(requests') THEN "finished" ELSE "accept"
  /\ i' = 0 /\ left' = 0
  /\ UNCHANGED <<chain, backlog, peers>>

Answer(items) ==
  /\ Write(items) /\ EndRequest
  /\ by' = [by EXCEPT ![req.fd] = i]

(* GEMINI_HANDLER_CONTINUE *)
Continue ==
  /\ i' = i + 1
  /\ UNCHANGED <<pc, chain, req, requests, left, backlog, conn, out, by, peers>>

-----------------------------------------------------------------------------
(* gemini_serve(): from accept() to a parsed URL. *)

Accept ==
  /\ pc = "accept" /\ backlog # <<>> /\ FreeFds > 0
  /\ req' = [req EXCEPT !.fd = Head(backlog), !.ssl = "live"]
  /\ conn' = [conn EXCEPT ![Head(backlog)] = "open"]
  /\ backlog' = Tail(backlog)
  /\ pc' = "tls"
  /\ UNCHANGED <<chain, i, requests, left, leaked, out, by, peers>>

(* accept() fails at once when no descriptor is free, whoever waits. *)
AcceptFails ==
  /\ pc = "accept" /\ (FreeFds <= 0 \/ Faults)
  /\ req' = [req EXCEPT !.fd = NoConn]
  /\ pc' = "failed"
  /\ UNCHANGED <<chain, i, requests, left, leaked, backlog, conn, out, by, peers>>

(* Mutant: a certificate is kept until there is another one. *)
SessionCertOrLast == IF cert[req.fd] = NoCert THEN req.cert ELSE cert[req.fd]

(* A session always gives the certificate of its own peer, or NULL. *)
SessionCert == cert[req.fd]

TlsAccepted ==
  /\ pc = "tls" /\ cert[req.fd] \in Certs \cup {NoCert}
  /\ req' = [req EXCEPT !.cert = SessionCert]
  /\ pc' = "read"
  /\ UNCHANGED <<chain, i, requests, left, leaked, backlog, conn, out, by, peers>>

(* Mutant: the descriptor of a refused connection is not closed. *)
TlsRefusedLeaks ==
  /\ pc = "tls" /\ (cert[req.fd] = BadHello \/ gone[req.fd])
  /\ req' = [req EXCEPT !.ssl = "freed"]
  /\ conn' = [conn EXCEPT ![req.fd] = "closed"]
  /\ leaked' = leaked + 1
  /\ pc' = "accept"
  /\ UNCHANGED <<chain, i, requests, left, backlog, out, by, peers>>

(* req.ssl is freed and req.fd closed, and both keep their value. *)
TlsRefused ==
  /\ pc = "tls" /\ (cert[req.fd] = BadHello \/ gone[req.fd])
  /\ req' = [req EXCEPT !.ssl = "freed"]
  /\ conn' = [conn EXCEPT ![req.fd] = "closed"]
  /\ pc' = "accept"
  /\ UNCHANGED <<chain, i, requests, left, leaked, backlog, out, by, peers>>

(* Mutant: the end of the peer's data is not taken for an error. *)
ReadErrorIfFull == line[req.fd] = Overlong

ReadError == line[req.fd] = Overlong \/ gone[req.fd] \/ Faults

ReadFails ==
  /\ pc = "read" /\ ReadError
  /\ CloseRequest
  /\ pc' = "accept"
  /\ UNCHANGED <<chain, i, requests, left, leaked, backlog, out, by, peers>>

ReadBadUrl ==
  /\ pc = "read" /\ line[req.fd] = BadUrl
  /\ Write(<<"50">>) /\ CloseRequest
  /\ pc' = "accept"
  /\ UNCHANGED <<chain, i, requests, left, leaked, backlog, by, peers>>

ReadUrl ==
  /\ pc = "read" /\ line[req.fd] \in Urls
  /\ req' = [req EXCEPT !.url = line[req.fd]]
  /\ pc' = "dispatch" /\ i' = 1
  /\ UNCHANGED <<chain, requests, left, leaked, backlog, conn, out, by, peers>>

-----------------------------------------------------------------------------
(* The walk along the chain, and the handlers of the library. *)

Skip ==
  /\ pc = "dispatch" /\ i \in 1..Len(chain)
  /\ ~Covers(Handler, req.url)
  /\ Continue
  /\ UNCHANGED leaked

AuthnRefuses ==
  /\ At("authn") /\ req.cert \notin Trust[Handler]
  /\ Answer(IF req.cert = NoCert THEN <<"60">> ELSE <<"61">>)
  /\ UNCHANGED leaked

AuthnPasses ==
  /\ At("authn") /\ req.cert \in Trust[Handler]
  /\ Continue
  /\ UNCHANGED leaked

VhostsRefuses ==
  /\ At("vhosts") /\ <<req.url.host, req.url.port>> \notin Sites[Handler]
  /\ Answer(<<"53">>)
  /\ UNCHANGED leaked

VhostsPasses ==
  /\ At("vhosts") /\ <<req.url.host, req.url.port>> \in Sites[Handler]
  /\ Continue
  /\ UNCHANGED leaked

(* gemini_fs_open() opens the root, then the file below it, and never      *)
(* closes the root.  With nothing left to open, the file does not exist.   *)
FileOpens == Below(Handler, req.url) \in Files[Handler] /\ FreeFds >= 2

FsMisses ==
  /\ At("fs") /\ ~FileOpens
  /\ leaked' = IF FreeFds >= 1 THEN leaked + 1 ELSE leaked
  /\ Continue

FsOpens ==
  /\ At("fs") /\ FileOpens
  /\ leaked' = leaked + 1
  /\ Write(<<"20">>)
  /\ by' = [by EXCEPT ![req.fd] = i]
  /\ pc' = "stream" /\ left' = FileBlocks
  /\ UNCHANGED <<chain, i, req, requests, backlog, conn, peers>>

(* Mutant: the end of the file is noticed too late. *)
HasMorePastEnd == left >= 0

HasMore == left > 0

(* Mutant: the last block is left in the buffer. *)
StreamOverEarly == left <= 1 \/ gone[req.fd] \/ Faults

StreamOver == left = 0 \/ gone[req.fd] \/ Faults

StreamBlock ==
  /\ pc = "stream" /\ HasMore
  /\ left' = left - 1
  /\ out' = [out EXCEPT ![req.fd] = Append(@, "body")]
  /\ UNCHANGED <<pc, chain, i, req, requests, leaked, backlog, conn, by, peers>>

(* At the end of the file, or where a write or a read fails. *)
StreamEnds ==
  /\ pc = "stream" /\ StreamOver
  /\ EndRequest
  /\ UNCHANGED <<leaked, out, by>>

Fallback ==
  /\ pc = "dispatch" /\ i = Len(chain) + 1
  /\ Answer(<<"51">>)
  /\ UNCHANGED leaked

-----------------------------------------------------------------------------
(* The handlers of geminon.c. *)

Echo ==
  /\ At("echo")
  /\ Answer(<<"20", "body">>)
  /\ UNCHANGED leaked

(* No program path, no memory, no pipe: nothing is leaked.  No process:    *)
(* both ends of the pipe are.                                              *)
CgiAborts ==
  /\ At("cgi") /\ (FreeFds < 2 \/ Faults)
  /\ leaked' \in {leaked} \cup (IF FreeFds >= 2 THEN {leaked + 2} ELSE {})
  /\ Answer(<<"59">>)

(* The parent keeps the read end of the pipe for ever. *)
CgiStarts ==
  /\ At("cgi") /\ FreeFds >= 2
  /\ leaked' = leaked + 1
  /\ \E n \in 0..CgiBlocks : left' = n
  /\ by' = [by EXCEPT ![req.fd] = i]
  /\ pc' = "cgi"
  /\ UNCHANGED <<chain, i, req, requests, backlog, conn, out, peers>>

CgiBlock ==
  /\ pc = "cgi" /\ HasMore
  /\ left' = left - 1
  /\ out' = [out EXCEPT ![req.fd] = Append(@, "cgi")]
  /\ UNCHANGED <<pc, chain, i, req, requests, leaked, backlog, conn, by, peers>>

CgiEnds ==
  /\ pc = "cgi" /\ left = 0
  /\ EndRequest
  /\ UNCHANGED <<leaked, out, by>>

(* Streaming failed: the rest of the output stays with the program. *)
CgiFails ==
  /\ pc = "cgi" /\ (gone[req.fd] \/ Faults)
  /\ pc' = "wait"
  /\ UNCHANGED <<chain, i, req, requests, left, leaked, backlog, conn, out, by, peers>>

(* waitpid() returns once the program ends, which it cannot do while the   *)
(* pipe, which the parent still holds open, is full.                       *)
CgiReaped ==
  /\ pc = "wait" /\ left <= PipeBlocks
  /\ Answer(<<"59">>)
  /\ UNCHANGED leaked

(* The signal of a write to a closed connection, never ignored. *)
Killed ==
  /\ SigPipe /\ pc \in Serving /\ gone[req.fd]
  /\ pc = "tls" => cert[req.fd] # NoHello
  /\ pc' = "killed"
  /\ UNCHANGED <<chain, i, req, requests, left, leaked, backlog, conn, out, by, peers>>

-----------------------------------------------------------------------------
Library ==
  \/ Accept \/ AcceptFails \/ TlsAccepted \/ TlsRefused
  \/ ReadFails \/ ReadBadUrl \/ ReadUrl
  \/ Skip \/ AuthnRefuses \/ AuthnPasses \/ VhostsRefuses \/ VhostsPasses
  \/ FsMisses \/ FsOpens \/ StreamBlock \/ StreamEnds \/ Fallback
Program == Echo \/ CgiAborts \/ CgiStarts \/ CgiBlock \/ CgiEnds \/ CgiFails \/ CgiReaped
Server  == Library \/ Program \/ Killed
Setup   == Serve \/ \E h \in Handlers : Register(h)
Peer(c) == Connect(c) \/ Hello(c) \/ Send(c) \/ HangUp(c)
Next    == Setup \/ Server \/ \E c \in Conns : Peer(c)

Spec == Init /\ [][Next]_vars

(* The scheduler runs the server's thread whenever it can move, and        *)
(* nobody's clients stay silent for ever: one that is connected says what  *)
(* the server waits for, or leaves.                                        *)
Speaks(c) == Hello(c) \/ Send(c) \/ HangUp(c)
FairSpec ==
  /\ Spec
  /\ WF_vars(Server)
  /\ \A c \in Conns : WF_vars(Speaks(c))

-----------------------------------------------------------------------------
(* Properties. *)

(* Every variable keeps its type. *)
TypeOK ==
  /\ pc \in {"setup", "accept"} \cup Serving \cup Stopped
  /\ chain \in Seq(Handlers)
  /\ i \in 0..Len(chain) + 1
  /\ req \in [fd : Conns \cup {NoConn}, ssl : {"null", "live", "freed"},
              url : Urls \cup {NoUrl}, cert : Certs \cup {NoCert}]
  /\ requests \in Nat /\ left \in Nat /\ leaked \in Nat
  /\ backlog \in Seq(Conns)
  /\ conn \in [Conns -> {"none", "queued", "open", "closed"}]
  /\ out \in [Conns -> Seq(Items)]
  /\ by \in [Conns -> 0..Len(chain) + 1]
  /\ cert \in [Conns -> Hellos \cup {NoHello}]
  /\ line \in [Conns -> Lines \cup {NoLine}]
  /\ gone \in [Conns -> BOOLEAN]

(* The one request structure is used for one connection at a time: while a *)
(* connection is served its session is live, never one freed by a refused  *)
(* handshake, and its descriptor open; between two connections nothing is  *)
(* left open and no URL is kept.  req survives from one iteration of       *)
(* gemini_serve() to the next and no path resets all of it.                *)
OneSession ==
  /\ pc \in Serving => SessionOpen /\ req.ssl = "live"
  /\ pc \in Walking => req.url # NoUrl
  /\ pc \in {"setup", "accept", "finished", "failed"} => req.ssl # "live" /\ req.url = NoUrl
  /\ \A c \in Conns : conn[c] = "open" => c = req.fd /\ pc \in Serving \cup {"killed"}

(* gemini_fs_open() and cgi_handler() never close what they open besides   *)
(* the file, yet accept() is never out of descriptors: a connection can    *)
(* only leak into the room that its own descriptor gives back at the end.  *)
AcceptHasDescriptor == pc = "accept" => FreeFds > 0

(* Whether a handler lets the request of connection c go on to the next. A *)
(* fs handler does when it lacks the file, or has no descriptors to open it. *)
Exhausted == leaked + 2 >= MaxFds
Passes(h, c) ==
  \/ Kind[h] = "authn"  /\ cert[c] \in Trust[h]
  \/ Kind[h] = "vhosts" /\ <<line[c].host, line[c].port>> \in Sites[h]
  \/ Kind[h] = "fs"     /\ (Below(h, line[c]) \notin Files[h] \/ Exhausted)

(* Whether it is right that handler h ends the request of connection c. *)
Stops(h, c) ==
  /\ Covers(h, line[c])
  /\ Kind[h] = "authn"  => cert[c] \notin Trust[h]
  /\ Kind[h] = "vhosts" => <<line[c].host, line[c].port>> \notin Sites[h]
  /\ Kind[h] = "fs"     => Below(h, line[c]) \in Files[h]

Passed(c, n) ==
  \A k \in 1..Len(chain) : k < n /\ Covers(chain[k], line[c]) => Passes(chain[k], c)

(* A request is answered by the first handler, in the order of             *)
(* registration, that covers its URL and does not let it pass: no content  *)
(* is sent past an authn or vhosts handler that should have stopped that   *)
(* peer, by its own certificate and its own URL and not by those of an     *)
(* earlier connection, and the fallback answers only where all pass.       *)
FirstMatchAnswers ==
  \A c \in Conns : by[c] # 0 =>
    /\ line[c] \in Urls
    /\ Passed(c, by[c])
    /\ by[c] <= Len(chain) => Stops(chain[by[c]], c)

(* What gemini_serve() relies on while it walks the chain: the request     *)
(* structure describes the peer at the other end of its own descriptor,    *)
(* and every handler behind it has let that peer's request pass.           *)
WalkInvariant ==
  /\ pc \in {"read"} \cup Walking => req.cert = cert[req.fd]
  /\ pc \in Walking => req.url = line[req.fd]
  /\ pc = "dispatch" => i > 0 /\ Passed(req.fd, i)
  /\ pc \in {"stream", "cgi", "wait"} => i > 0 /\ by[req.fd] = i

(* What each way of answering sends when nothing fails.  Which status a    *)
(* vhosts handler sends is left open: gemini.h:440-442 says 51, the code 53. *)
AnsweredBy(c) ==
  IF by[c] = 0 THEN "nobody"
  ELSE IF by[c] <= Len(chain) THEN Kind[chain[by[c]]] ELSE "fallback"
Whole(c, s) ==
  /\ AnsweredBy(c) = "nobody"   => s = IF line[c] = BadUrl THEN <<"50">> ELSE <<>>
  /\ AnsweredBy(c) = "fallback" => s = <<"51">>
  /\ AnsweredBy(c) = "authn"    => s = IF cert[c] = NoCert THEN <<"60">> ELSE <<"61">>
  /\ AnsweredBy(c) = "vhosts"   => s \in {<<"51">>, <<"53">>}
  /\ AnsweredBy(c) = "fs"       => s = <<"20">> \o [n \in 1..FileBlocks |-> "body"]
  /\ AnsweredBy(c) = "echo"     => s = <<"20", "body">>
  /\ AnsweredBy(c) = "cgi"      => s = <<"59">> \/ ToSet(s) \subseteq {"cgi"}

(* A connection that is closed while its peer still listens was answered,  *)
(* if it asked for a URL, and was answered in full: one status line, that  *)
(* of the handler that answered, and all of the body.                      *)
AnswersAreWhole ==
  \A c \in Conns : conn[c] = "closed" /\ ~gone[c] /\ ~Faults =>
    /\ Whole(c, out[c])
    /\ line[c] \in Urls => by[c] # 0

(* gemini.h:328-334: the server stops as soon as the requests it handled   *)
(* exceed max_requests, neither earlier nor later; connections that were   *)
(* dropped before there was a URL do not count.                            *)
Handled == {c \in Conns : conn[c] = "closed" /\ by[c] # 0}
RequestLimit ==
  MaxRequests \in 1..CounterMod - 2 =>
    /\ Cardinality(Handled) <= MaxRequests + 1
    /\ pc # "killed" => (pc = "finished" <=> Cardinality(Handled) = MaxRequests + 1)

(* Every connection that reaches the backlog is closed in the end, however *)
(* many are served before it and whatever they ask for.                    *)
EveryConnectionEnds ==
  \A c \in Conns : conn[c] = "queued" ~> conn[c] = "closed"

-----------------------------------------------------------------------------
(* What gemini.h says and the code does not do. *)

(* gemini.h:407-411: the files of a static-files handler are sent if they  *)
(* exist: the fallback never answers for a file that the handler covers.   *)
ExistingFilesAreSent ==
  \A c \in Conns, k \in 1..Len(chain) :
    by[c] = Len(chain) + 1 /\ Kind[chain[k]] = "fs" /\ Covers(chain[k], line[c]) =>
      Below(chain[k], line[c]) \notin Files[chain[k]]

(* gemini.h:468-469: gemini_serve() services clients as they connect: each *)
(* is taken from the backlog in the end.                                   *)
ClientsAreServed ==
  \A c \in Conns : conn[c] = "queued" ~> conn[c] # "queued"

-----------------------------------------------------------------------------
(* The loop implements GeminiService. *)
Service == INSTANCE GeminiService WITH
  waiting <- backlog,
  serving <- IF SessionOpen THEN req.fd ELSE NoConn,
  done    <- {c \in Conns : conn[c] = "closed"},
  reply   <- out,
  up      <- pc \notin Stopped
ServiceSpec == Service!Spec
=============================================================================
