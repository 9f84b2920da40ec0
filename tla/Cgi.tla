-------------------------------- MODULE Cgi --------------------------------
(***************************************************************************)
(* cgi_handler() of geminon.c: the server forks a child, which becomes a   *)
(* program that prints into a pipe, and streams the other end of the pipe  *)
(* to the peer.  Byte k of what the child writes to its standard output is *)
(* k, whoever writes it.  SIGCHLD is ignored, so the kernel reaps the      *)
(* child; waitpid() returns when it has exited all the same.               *)
(***************************************************************************)
EXTENDS RequestIO

CONSTANT PipeMax  \* the bytes that a pipe holds

ASSUME CgiAssumption == PipeMax \in Nat \ {0}

VARIABLES
  kid,     \* "none", "starting" (a copy of the server), "running", "exited"
  printed  \* the bytes that the child has written to its stdout

program == <<kid, printed>>

CgiInit == kid = "none" /\ printed = 0

(* GEMINI_HANDLER_ABORT: gemini_serve() responds with 59 and closes. *)
Abort == -1
Aborts == Responds(Abort) /\ Close

(* No path, no memory, no pipe or no process. *)
CgiGivesUp ==
  /\ sp = "dispatch" /\ Faults
  /\ Aborts
  /\ UNCHANGED <<link, up, hungup, line, size, input, writers, transfer, program>>

(* pipe() and fork(): parent and child hold both ends. *)
CgiForks ==
  /\ sp = "dispatch"
  /\ input' = <<>> /\ writers' = {"server", "kid"}
  /\ kid' = "starting" /\ printed' = 0
  /\ sp' = "forked"
  /\ UNCHANGED <<session, line, size, transfer>>

(* Mutant: the parent does not close the end it does not use. *)
ServerEndKept == {}

ServerEndClosed == {"server"}

CgiParent ==
  /\ sp = "forked"
  /\ writers' = writers \ ServerEndClosed
  /\ StreamBegins
  /\ UNCHANGED <<session, line, size, input, program>>

(* dup2() fails, and exit(1) writes nothing to the pipe. *)
KidFails ==
  /\ kid = "starting" /\ Faults
  /\ kid' = "exited" /\ writers' = writers \ {"kid"}
  /\ UNCHANGED <<session, sp, line, size, input, transfer, printed>>

(* execve() gives n + 1 bytes a writer: the program, or exit(42), which    *)
(* flushes what the server's printf() left in the buffer that fork copied. *)
KidWrites(n) ==
  /\ kid = "starting"
  /\ kid' = "running" /\ size' = n
  /\ UNCHANGED <<session, sp, line, input, writers, transfer, printed>>

KidExecutes == \E n \in -1..MaxSize : KidWrites(n)

(* The buffer is empty if the server's stdout is a terminal. *)
KidFlushes == \E n \in {-1, 0} : KidWrites(n)

(* The write blocks while the pipe is full: it always has a reader, since  *)
(* the server never closes its own end.                                    *)
KidPrints ==
  /\ kid = "running" /\ printed <= size /\ Len(input) < PipeMax
  /\ input' = Append(input, printed) /\ printed' = printed + 1
  /\ UNCHANGED <<session, sp, line, size, writers, transfer, kid>>

KidExits ==
  /\ kid = "running" /\ printed > size
  /\ kid' = "exited" /\ writers' = writers \ {"kid"}
  /\ UNCHANGED <<session, sp, line, size, input, transfer, printed>>

(* waitpid() and what follows: done, or abort if the stream has failed. *)
CgiReaps ==
  /\ sp = "streamed" /\ kid = "exited"
  /\ IF rc = 0 THEN Close /\ UNCHANGED <<down, broken>> ELSE Aborts
  /\ kid' = "none"
  /\ UNCHANGED <<link, up, hungup, line, size, input, writers, transfer, printed>>

Kid == KidFails \/ KidExecutes \/ KidFlushes \/ KidPrints \/ KidExits

Serves ==
  \/ Requests /\ UNCHANGED program
  \/ kid = "none" /\ FileSent /\ UNCHANGED program
  \/ CgiGivesUp \/ CgiForks \/ CgiParent \/ CgiReaps
=============================================================================
