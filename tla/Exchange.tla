------------------------------ MODULE Exchange ------------------------------
(***************************************************************************)
(* gurl and the server together: the requests of one client, end to end,   *)
(* from the argument of gurl to its standard output, through the files and *)
(* the cgi handler.                                                        *)
(***************************************************************************)
EXTENDS Cgi, Client, Decimal

vars == <<session, request, program, client>>

Init == SessionInit /\ RequestInit /\ CgiInit /\ ClientInit

Server  == Serves /\ UNCHANGED client
Program == Kid /\ UNCHANGED client
Asking  == Gurl /\ UNCHANGED <<request, program>>
Glitch  == ReceiveFails /\ UNCHANGED <<request, program>>
Next    == Server \/ Program \/ Asking \/ Glitch

Spec == Init /\ [][Next]_vars

(* The scheduler runs each of the three processes whenever it can move.    *)
(* That a call fails though the peer is there is possible, never certain.  *)
FairSpec ==
  /\ Spec
  /\ WF_vars(Server /\ broken' = broken) /\ WF_vars(Program) /\ WF_vars(Asking)

-----------------------------------------------------------------------------
Calls == {"ask", "line", "read", "write"}

(* Every variable keeps its type. *)
TypeOK ==
  /\ link \in {"none", "queued", "hello", "up", "refused"} /\ {ended, hungup} \subseteq BOOLEAN
  /\ broken \subseteq Calls
  /\ sp \in {"accept", "readto", "dispatch", "fill", "write", "flush", "streamed", "forked"}
  /\ kid \in {"none", "starting", "running", "exited"} /\ writers \subseteq {"server", "kid"}
  /\ size \in -1..MaxSize /\ printed \in 0..MaxSize + 1
  /\ rc \in {0, -1} /\ back \in {"fill", "flush"} /\ at \in Nat /\ rest \in 0..Block
  /\ resfd \in Heap \cup {NoFd} /\ fds \subseteq 0..MaxFds /\ ssl \in {"null", "live"}
  /\ ntotal \in 0..ClientBlock

(* The NUL behind the line, the block of the server and that of the client *)
(* stay inside their buffers, and a full pipe or network is never exceeded. *)
BuffersHold ==
  /\ Len(line) < MaxRequest
  /\ Len(buf) <= Block /\ Len(cbuf) <= ClientBlock
  /\ Len(down) <= Window

(* Neither read is ever asked for zero bytes: its answer, 0 or what nread  *)
(* happened to hold, would end the copy before the end of the data.        *)
AsksForBytes ==
  /\ sp = "fill" => Room > 0
  /\ cp = "recv" => ClientRoom > 0

(* Whatever fails, the server answers no line but the one that gurl was    *)
(* given, though it comes in records and either may be missing; and a line *)
(* that is shorter than the buffer is answered, unless a write of it or a  *)
(* read of it has failed.  gurl cannot tell either case from the other.    *)
(* The longest line that gemini.h:26 allows, of MaxRequest bytes, is       *)
(* dropped by the code and left open here.                                 *)
Request == Url.text \o <<"CR", "LF">>
LineLost == {"ask", "line"} \cap broken # {}
RequestArrives ==
  /\ sp \notin {"accept", "readto"} => line = Request
  /\ cp = "close" /\ ~LineLost /\ Len(Request) < MaxRequest => line = Request

(* The bytes of the answer, in order; 59 may cut it short. *)
Answer(n) == [k \in 1..n + 1 |-> k - 1]
OnTheWay == got \o cbuf \o down
DeliveredInOrder ==
  LET s == IF OnTheWay # <<>> /\ Last(OnTheWay) = Abort THEN Front(OnTheWay) ELSE OnTheWay
  IN IsPrefix(s, Answer(size))

(* When gemini_response_stream() returns 0, standard output has the whole  *)
(* answer, unless a read or a write of the server failed on the way: the   *)
(* files handler then closes the request as if nothing had happened.       *)
Hurt == {"read", "write"} \cap broken # {}
Delivered == cp = "close" /\ ~Hurt /\ Abort \notin ToSet(got) => got = Answer(size)

(* Where gemini_client_request() returns NULL, whatever failed and however *)
(* many addresses it tried, each socket and session it opened is released. *)
FailureReleases ==
  cp = "failed" /\ ssl = "null" => fds = before

(* The text handed to getaddrinfo() is the port of the URL. *)
DialsPort == cp = "dial" => Value(Service(Url.port)) = Url.port

(* gurl comes to an end, however much it asks for, and however the program *)
(* and the three buffers between them take turns.  Two cases remain.  The  *)
(* stream has failed while the program has more to print than the pipe     *)
(* holds; or a write of the request has failed, and gurl waits for the     *)
(* answer to what the server waits for.                                    *)
Jammed == Hurt /\ sp = "streamed" /\ kid = "running" /\ Len(input) = PipeMax
Unasked == "ask" \in broken /\ cp = "recv" /\ sp = "readto" /\ up = <<>>
GurlEnds == <>(cp \in {"finished", "failed"} \/ Jammed \/ Unasked)

-----------------------------------------------------------------------------
(* gemini.h:163-165: gemini_response_close() releases the descriptor of    *)
(* the connected socket.                                                   *)
CloseReleases == cp = "next" => fds \subseteq Stdio
=============================================================================
