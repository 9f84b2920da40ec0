------------------------------- MODULE Client -------------------------------
(***************************************************************************)
(* The client: gemini_client_request() and gemini_client_tls() of client.c,*)
(* gemini_response_read(), _stream() and _close() of response.c, and the   *)
(* program gurl, which makes one request after the other and copies what   *)
(* it gets to its standard output.                                         *)
(***************************************************************************)
EXTENDS Session

CONSTANTS
  Asks,        \* the URLs asked for: records [text, port]
  MaxAsks,     \* bound on the arguments of gurl
  MaxAddrs,    \* bound on the addresses that a name has
  MaxFds,      \* descriptors that the process may have
  ClientBlock, \* the buffer of gemini_response_stream()
  Heap         \* what malloc() leaves in res->fd: descriptors, or NoFd

NoFd == -1
MaxPort == 65535
Ports == 0..MaxPort
Stdio == 0..2

ASSUME ClientAssumption ==
  /\ MaxAsks \in Nat /\ MaxAddrs \in Nat /\ MaxFds \in Nat \ Stdio
  /\ ClientBlock \in Nat \ {0}
  /\ Heap \subseteq {NoFd} \cup 0..MaxFds
ASSUME AsksAssumption == Asks \subseteq [text : Seq({"c", "CR", "LF"}), port : Ports]

VARIABLES
  cp,      \* where gurl is
  asked,   \* history: the arguments so far, a sequence of Asks
  addrs,   \* addresses not tried yet
  fd,      \* the local variable of gemini_client_request()
  fds,     \* the open descriptors of the process
  before,  \* history: fds when the request began
  resfd,   \* res->fd
  ssl,     \* res->ssl: "null", "live"
  cbuf,    \* the first n bytes of the block buffer
  ntotal,  \* what the current gemini_response_read() has got
  got      \* history: what stdout was given of this response

dialling == <<addrs, fd, fds, before>>
response == <<resfd, ssl>>
copy     == <<cbuf, ntotal, got>>
client   == <<cp, asked, dialling, response, copy>>

ClientInit ==
  /\ cp = "start" /\ asked = <<>> /\ addrs = 0
  /\ fd = NoFd /\ fds = Stdio /\ before = Stdio
  /\ resfd = NoFd /\ ssl = "null"
  /\ cbuf = <<>> /\ ntotal = 0 /\ got = <<>>

-----------------------------------------------------------------------------
(* main() of gurl returns 1: the kernel closes what is open. *)
Fails == cp' = "failed" /\ hungup' = TRUE

(* A certificate without a key, a key without a certificate, or a pair or  *)
(* a context that OpenSSL does not take.                                   *)
Configures ==
  /\ cp = "start"
  /\ \E cert, key, tls \in BOOLEAN :
       /\ tls \/ Faults
       /\ IF cert = key /\ tls THEN cp' = "next" /\ UNCHANGED hungup ELSE Fails
  /\ UNCHANGED <<wire, asked, dialling, response, copy>>

(* The end of the arguments. *)
Finishes ==
  /\ cp = "next"
  /\ cp' = "finished" /\ hungup' = TRUE
  /\ UNCHANGED <<wire, asked, dialling, response, copy>>

-----------------------------------------------------------------------------
(* gemini_client_request() *)

Url == Last(asked)

Begins ==
  /\ cp = "next" /\ Len(asked) < MaxAsks
  /\ \E u \in Asks : asked' = Append(asked, u)
  /\ cp' = "lookup" /\ fd' = NoFd /\ before' = fds /\ got' = <<>>
  /\ UNCHANGED <<session, addrs, fds, response, cbuf, ntotal>>

(* The loop that writes the port into p[6], from its end. *)
PortDigits == 5
DigitsOf[k \in 0..PortDigits] ==
  [port \in Ports |-> IF k = 0 \/ port = 0 THEN <<>>
                      ELSE Append(DigitsOf[k - 1][port \div 10], port % 10)]

(* Mutant: the buffer is that of a port of four digits. *)
ServiceOfFour(port) == DigitsOf[4][port]

Service(port) == DigitsOf[PortDigits][port]

(* Not a URL, or a name that is not found. *)
LookupFails ==
  /\ cp = "lookup" /\ Faults
  /\ Fails
  /\ UNCHANGED <<wire, asked, dialling, response, copy>>

LooksUp ==
  /\ cp = "lookup"
  /\ \E n \in 1..MaxAddrs : addrs' = n
  /\ cp' = "dial"
  /\ UNCHANGED <<session, asked, fd, fds, before, response, copy>>

(* socket() gives the lowest descriptor that is free. *)
FreeFd == Min((0..MaxFds) \ fds)
CanOpen == (0..MaxFds) \ fds # {}

NoSocket ==
  /\ cp = "dial" /\ addrs > 0 /\ fd = NoFd /\ (Faults \/ ~CanOpen)
  /\ addrs' = addrs - 1
  /\ UNCHANGED <<session, cp, asked, fd, fds, before, response, copy>>

Dials ==
  /\ cp = "dial" /\ addrs > 0 /\ fd = NoFd /\ CanOpen
  /\ fd' = FreeFd /\ fds' = fds \cup {FreeFd}
  /\ cp' = "connect"
  /\ UNCHANGED <<session, asked, addrs, before, response, copy>>

(* Mutant: the socket of an address that does not answer stays open. *)
ClosedNone == {}

Closed == {fd}

NotConnected ==
  /\ cp = "connect" /\ Faults
  /\ fds' = fds \ Closed /\ fd' = NoFd /\ addrs' = addrs - 1
  /\ cp' = "dial"
  /\ UNCHANGED <<session, asked, before, response, copy>>

Connected ==
  /\ cp = "connect"
  /\ Connects
  /\ cp' = "setup"
  /\ UNCHANGED <<asked, dialling, response, copy>>

NoAddress ==
  /\ cp = "dial" /\ addrs = 0
  /\ Fails
  /\ UNCHANGED <<wire, asked, dialling, response, copy>>

(* No memory for the response, or no session: the socket is closed. *)
SetupFails ==
  /\ cp = "setup" /\ Faults
  /\ fds' = fds \ {fd}
  /\ Fails
  /\ UNCHANGED <<wire, asked, addrs, fd, before, response, copy>>

(* res->ssl is set, and res->fd is not. *)
SetsUp ==
  /\ cp = "setup"
  /\ \E garbage \in Heap : resfd' = garbage
  /\ ssl' = "live"
  /\ Greets
  /\ cp' = "handshake"
  /\ UNCHANGED <<asked, dialling, copy>>

HandshakeFails ==
  /\ cp = "handshake" /\ link = "refused"
  /\ fds' = fds \ {fd} /\ ssl' = "null"
  /\ Fails
  /\ UNCHANGED <<wire, asked, addrs, fd, before, resfd, copy>>

Handshakes ==
  /\ cp = "handshake" /\ link = "up"
  /\ cp' = "ask"
  /\ UNCHANGED <<session, asked, dialling, response, copy>>

(* The URL and the end of the line are two calls of SSL_write(), hence two *)
(* records; that a call fails goes unnoticed.                              *)
Sends(record) ==
  \/ "ask" \notin broken /\ up' = Append(up, record) /\ UNCHANGED broken
  \/ Breaks("ask") /\ UNCHANGED up

AsksUrl ==
  /\ cp = "ask"
  /\ Sends(Url.text) /\ cp' = "endask"
  /\ UNCHANGED <<link, down, ended, hungup, asked, dialling, response, copy>>

EndsLine ==
  /\ cp = "endask"
  /\ Sends(<<"CR", "LF">>)
  /\ cp' = "recv" /\ cbuf' = <<>> /\ ntotal' = 0
  /\ UNCHANGED <<link, down, ended, hungup, asked, dialling, response, got>>

-----------------------------------------------------------------------------
(* gemini_response_stream() with gemini_response_read() *)

(* Mutant: gemini_response_read() does not count its n down. *)
ClientRoomOfBlock == ClientBlock

ClientRoom == ClientBlock - Len(cbuf)

Receives ==
  /\ cp = "recv" /\ down # <<>> /\ ClientRoom > 0
  /\ \E nread \in 1..Min({ClientRoom, Len(down)}) :
       /\ cbuf' = cbuf \o Take(down, nread) /\ down' = Drop(down, nread)
       /\ ntotal' = ntotal + nread
  /\ cp' = IF ClientRoom' = 0 THEN "store" ELSE "recv"
  /\ UNCHANGED <<link, up, ended, broken, hungup, asked, dialling, response, got>>

(* The end: what was read is returned first, then 0.                       *)
ReceivesEnd ==
  /\ cp = "recv" /\ ((down = <<>> /\ ended) \/ ClientRoom = 0)
  /\ cp' = IF ntotal > 0 THEN "store" ELSE "flush"
  /\ UNCHANGED <<session, asked, dialling, response, copy>>

(* SSL_read() gives -1: also what was read by this call is lost. *)
ReceiveFails ==
  /\ cp = "recv" /\ Faults
  /\ Fails
  /\ UNCHANGED <<wire, asked, dialling, response, copy>>

Rest(n) == Drop(cbuf, n)

(* write() to stdout may take less than it is given. *)
Stores ==
  /\ cp \in {"store", "flush"} /\ cbuf # <<>>
  /\ \E nwrit \in 1..Len(cbuf) :
       got' = got \o Take(cbuf, nwrit) /\ cbuf' = Rest(nwrit)
  /\ ntotal' = 0
  /\ cp' = IF cp = "store" THEN "recv" ELSE "flush"
  /\ UNCHANGED <<session, asked, dialling, response>>

StoreFails ==
  /\ cp \in {"store", "flush"} /\ cbuf # <<>> /\ Faults
  /\ Fails
  /\ UNCHANGED <<wire, asked, dialling, response, copy>>

(* Mutant: there is no loop behind the end of the response. *)
FlushNever == TRUE

FlushDone == cbuf = <<>>

Streamed ==
  /\ cp = "flush" /\ FlushDone
  /\ cp' = "close"
  /\ UNCHANGED <<session, asked, dialling, response, copy>>

(* gemini_response_close() *)
ResponseClose ==
  /\ cp = "close"
  /\ ssl' = "null"
  /\ fds' = fds \ {resfd} /\ resfd' = NoFd
  /\ cp' = "next"
  /\ UNCHANGED <<session, asked, addrs, fd, before, copy>>

Gurl ==
  \/ Configures \/ Finishes \/ Begins \/ LookupFails \/ LooksUp
  \/ NoSocket \/ Dials \/ NotConnected \/ Connected \/ NoAddress
  \/ SetupFails \/ SetsUp \/ HandshakeFails \/ Handshakes \/ AsksUrl \/ EndsLine
  \/ Receives \/ ReceivesEnd \/ Stores \/ StoreFails \/ Streamed
  \/ ResponseClose
=============================================================================
