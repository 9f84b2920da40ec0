------------------------------ MODULE Session ------------------------------
(***************************************************************************)
(* One TLS connection between the client and the server, as OpenSSL and    *)
(* the kernel give it to both: what is written comes out at the other end  *)
(* in order.  The client's side arrives in records, since SSL_read() never *)
(* returns bytes of two records; the server's side is a stream.  A call    *)
(* that fails leaves its name in broken; behind an SSL_write() that failed,*)
(* OpenSSL lets no other of the session succeed.                           *)
(***************************************************************************)
EXTENDS Integers, Sequences, SequencesExt, FiniteSetsExt

CONSTANTS
  Window,  \* the bytes towards the client that the network holds
  Faults   \* BOOLEAN: calls to the kernel, to OpenSSL and to malloc may fail

ASSUME SessionAssumption == Window \in Nat \ {0} /\ Faults \in BOOLEAN

VARIABLES
  link,    \* the connection: "none", "queued", "hello", "up", "refused"
  up,      \* records that the server has not read yet
  down,    \* bytes that the client has not read yet
  ended,   \* the server has closed its side
  broken,  \* which calls have failed: "ask" of the client; "line", "read" and
           \* "write" of the server
  hungup   \* the client's process is gone

wire    == <<link, up, down, ended, broken>>
session == <<wire, hungup>>

SessionInit ==
  /\ link = "none" /\ up = <<>> /\ down = <<>> /\ ended = FALSE
  /\ broken = {} /\ hungup = FALSE

(* connect(): a fresh connection, which waits in the server's backlog. *)
Connects ==
  /\ link' = "queued" /\ up' = <<>> /\ down' = <<>> /\ ended' = FALSE /\ broken' = {}
  /\ UNCHANGED hungup

(* SSL_connect() begins: the server can answer it, in SSL_accept(). *)
Greets == link' = "hello" /\ UNCHANGED <<up, down, ended, broken, hungup>>

(* A call fails. *)
Breaks(call) == (Faults \/ hungup) /\ broken' = broken \cup {call}

(* The first k elements of s, and what is behind them. *)
Take(s, k) == SubSeq(s, 1, k)
Drop(s, k) == SubSeq(s, k + 1, Len(s))
=============================================================================
