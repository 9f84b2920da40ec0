----------------------------- MODULE RequestIO -----------------------------
(***************************************************************************)
(* The bytes of one request at a time on the server's side: s_readto() of  *)
(* server.c, and gemini_request_respond(), _write(), _stream() and _close()*)
(* of request.c, as gemini_serve() and the files handler call them.        *)
(*                                                                         *)
(* A status line is one byte, 0; byte k of a file is k.  Which handler     *)
(* answers is decided in GeminiServer; here it may be any.                 *)
(***************************************************************************)
EXTENDS Session

CONSTANTS
  MaxRequest,  \* GEMINI_MAX_REQUEST
  Block,       \* the buffer of gemini_request_stream()
  MaxSize      \* bound on the bytes of a file

ASSUME RequestAssumption ==
  /\ MaxRequest \in Nat \ {0} /\ Block \in Nat \ {0} /\ MaxSize \in Nat
  /\ Block <= Window

VARIABLES
  sp,       \* where the server is
  line,     \* buf of gemini_serve(), up to its NUL
  size,     \* history: the answer is 0..size; -1 is none at all
  input,    \* what the descriptor that is streamed has to give
  writers,  \* processes that may still write to its other end
  buf,      \* the first n bytes of the block buffer
  at,       \* gemini_request_write(): how far its buf pointer has moved
  rest,     \* gemini_request_write(): its n
  back,     \* which of the two loops of the stream is writing
  rc        \* what gemini_request_stream() returned: 0 or -1

transfer == <<buf, at, rest, back, rc>>
request  == <<sp, line, size, input, writers, transfer>>

RequestInit ==
  /\ sp = "accept" /\ line = <<>> /\ size = -1
  /\ input = <<>> /\ writers = {}
  /\ buf = <<>> /\ at = 0 /\ rest = 0 /\ back = "fill" /\ rc = 0

-----------------------------------------------------------------------------
TlsAccepts ==
  /\ sp = "accept" /\ link = "hello"
  /\ link' = "up" /\ sp' = "readto" /\ line' = <<>> /\ size' = -1
  /\ UNCHANGED <<up, down, ended, broken, hungup, input, writers, transfer>>

(* The handshake goes wrong, or the peer left before it. *)
TlsRefuses ==
  /\ sp = "accept"
  /\ \/ link = "hello" /\ Faults
     \/ link = "queued" /\ hungup
  /\ link' = "refused"
  /\ UNCHANGED <<up, down, ended, broken, hungup, request>>

(* gemini_request_close(): the peer finds the end behind the last byte. *)
Close == ended' = TRUE /\ sp' = "accept"

(* A line ends with "\r\n", wherever the records were cut. *)
HasEnd(s) == \E k \in 1..Len(s) - 1 : s[k] = "CR" /\ s[k + 1] = "LF"

(* Mutant: no byte is kept for the NUL. *)
LineRoomToTheBrim == MaxRequest - Len(line)

(* Mutant: each record goes to the beginning of the buffer. *)
StoredFromStart(s) == s

LineRoom == MaxRequest - 1 - Len(line)
Stored(s) == line \o s

ReadTo ==
  /\ sp = "readto" /\ up # <<>> /\ LineRoom > 0
  /\ LET k == Min({LineRoom, Len(Head(up))})
     IN /\ line' = Stored(Take(Head(up), k))
        /\ up' = IF k < Len(Head(up)) THEN <<Drop(Head(up), k)>> \o Tail(up) ELSE Tail(up)
  /\ sp' = IF HasEnd(line') THEN "dispatch" ELSE "readto"
  /\ UNCHANGED <<link, down, ended, broken, hungup, size, input, writers, transfer>>

(* A full buffer reads as an error, like the end of the peer's data. *)
ReadToFails ==
  /\ sp = "readto"
  /\ \/ up # <<>> /\ LineRoom = 0 /\ UNCHANGED broken
     \/ Breaks("line")
  /\ Close
  /\ UNCHANGED <<link, up, down, hungup, line, size, input, writers, transfer>>

CanWrite == "write" \notin broken

(* gemini_request_respond(): nobody looks at what it returns. *)
Responds(status) ==
  \/ CanWrite /\ Len(down) < Window /\ down' = Append(down, status) /\ UNCHANGED broken
  \/ Breaks("write") /\ UNCHANGED down

(* A handler, or gemini_serve(), that answers with a status line only. *)
Refuses ==
  /\ sp = "dispatch"
  /\ size' = 0 /\ Responds(0)
  /\ Close
  /\ UNCHANGED <<link, up, hungup, line, input, writers, transfer>>

StreamBegins ==
  sp' = "fill" /\ buf' = <<>> /\ at' = 0 /\ rest' = 0 /\ back' = "fill" /\ rc' = 0

OpensFile ==
  /\ sp = "dispatch"
  /\ \E n \in 0..MaxSize : size' = n /\ input' = [k \in 1..n |-> k]
  /\ writers' = {} /\ Responds(0)
  /\ StreamBegins
  /\ UNCHANGED <<link, up, ended, hungup, line>>

-----------------------------------------------------------------------------
(* gemini_request_stream() *)

Room == Block - Len(buf)
InputEnds == input = <<>> /\ writers = {}

Writes(bytes, loop) ==
  sp' = "write" /\ buf' = bytes /\ at' = 0 /\ rest' = Len(bytes) /\ back' = loop

StreamReads ==
  /\ sp = "fill" /\ input # <<>> /\ Room > 0
  /\ LET k == Min({Room, Len(input)})
     IN /\ Writes(buf \o Take(input, k), "fill")
        /\ input' = Drop(input, k)
  /\ UNCHANGED <<session, line, size, writers, rc>>

(* read() gives 0 at the end, and also when it is asked for nothing. *)
StreamReadsNothing ==
  /\ sp = "fill" /\ (InputEnds \/ Room = 0)
  /\ sp' = "flush"
  /\ UNCHANGED <<session, line, size, input, writers, transfer>>

StreamReadFails ==
  /\ sp = "fill" /\ Faults /\ Breaks("read")
  /\ sp' = "streamed" /\ rc' = -1
  /\ UNCHANGED <<link, up, down, ended, hungup, line, size, input, writers, buf, at, rest, back>>

(* The loop behind the end of the input. *)
StreamFlushes ==
  /\ sp = "flush"
  /\ IF buf # <<>> THEN Writes(buf, "flush")
                   ELSE sp' = "streamed" /\ UNCHANGED <<buf, at, rest, back>>
  /\ UNCHANGED <<session, line, size, input, writers, rc>>

(* Mutant: SSL_MODE_ENABLE_PARTIAL_WRITE is set for the session. *)
AcceptedInPart(n) == 1..n

(* Mutant: the bytes that were written stay in the buffer. *)
UnwrittenAll(n) == buf

(* SSL_write_ex() takes all of the bytes, or fails. *)
Accepted(n) == {n}

(* memmove(): what is left after the first n bytes. *)
Unwritten(n) == Drop(buf, n)

(* A byte of the buffer; behind it there may be anything. *)
ByteAt(k) == IF k \in 1..Len(buf) THEN buf[k] ELSE -2

(* One round of gemini_request_write(): `n -= nwrit; buf += n'. *)
WritesSome ==
  /\ sp = "write" /\ CanWrite /\ Len(down) + rest <= Window
  /\ \E nwrit \in Accepted(rest) :
       /\ down' = down \o [k \in 1..nwrit |-> ByteAt(at + k)]
       /\ rest' = rest - nwrit /\ at' = at + rest'
  /\ sp'  = IF rest' = 0 THEN back ELSE "write"
  /\ buf' = IF rest' = 0 THEN Unwritten(Len(buf)) ELSE buf
  /\ UNCHANGED <<link, up, ended, broken, hungup, line, size, input, writers, back, rc>>

(* A negative result, here and of the stream. *)
WriteFails ==
  /\ sp = "write" /\ Breaks("write")
  /\ sp' = "streamed" /\ rc' = -1
  /\ UNCHANGED <<link, up, down, ended, hungup, line, size, input, writers, buf, at, rest, back>>

(* The files handler closes the request, whatever became of the stream. *)
FileSent ==
  /\ sp = "streamed" /\ Close
  /\ UNCHANGED <<link, up, down, broken, hungup, line, size, input, writers, transfer>>

Requests ==
  \/ TlsAccepts \/ TlsRefuses \/ ReadTo \/ ReadToFails \/ Refuses \/ OpensFile
  \/ StreamReads \/ StreamReadsNothing \/ StreamReadFails \/ StreamFlushes
  \/ WritesSome \/ WriteFails
=============================================================================
