--------------------------- MODULE Exchange_proofs ---------------------------
(***************************************************************************)
(* What holds of a client and a server for buffers, windows, pipes, files  *)
(* and lines of any size.                                                  *)
(***************************************************************************)
EXTENDS Exchange, SequenceTheorems, Induction, TLAPS

Letters == {"c", "CR", "LF"}

(* The smaller of two numbers. *)
LEMMA MinOfTwo ==
  ASSUME NEW a \in Nat, NEW b \in Nat
  PROVE  Min({a, b}) \in 0..b /\ Min({a, b}) <= a
<1>1. \E x \in {a, b} : \A y \in {a, b} : x <= y
  OBVIOUS
<1>2. Min({a, b}) \in {a, b} /\ \A y \in {a, b} : Min({a, b}) <= y
  BY <1>1 DEF Min
<1> QED
  BY <1>2

(* Splitting a sequence behind its first k elements. *)
LEMMA Splits ==
  ASSUME NEW S, NEW s \in Seq(S), NEW k \in 0..Len(s)
  PROVE  /\ Take(s, k) \in Seq(S) /\ Len(Take(s, k)) = k
         /\ Drop(s, k) \in Seq(S) /\ Len(Drop(s, k)) = Len(s) - k
<1>1. Take(s, k) \in Seq(S) /\ Len(Take(s, k)) = k
  BY SubSeqProperties DEF Take
<1>2. Drop(s, k) \in Seq(S) /\ Len(Drop(s, k)) = Len(s) - k
  BY SubSeqProperties DEF Drop
<1> QED
  BY <1>1, <1>2

-----------------------------------------------------------------------------
(* The sequences, and that a request is of one of the arguments. *)
Typed ==
  /\ line \in Seq(Letters) /\ up \in Seq(Seq(Letters))
  /\ down \in Seq(Int) /\ input \in Seq(Int) /\ buf \in Seq(Int) /\ cbuf \in Seq(Int)
  /\ printed \in Int /\ asked \in Seq(Asks)
  /\ cp \notin {"start", "next", "failed", "finished"} => asked # <<>>

(* A block is empty, or not full, whenever a read is about to fill it.     *)
Filled ==
  /\ BuffersHold
  /\ sp = "fill" => buf = <<>>
  /\ sp = "write" => rest = Len(buf)
  /\ back \in {"fill", "flush"}
  /\ cp = "recv" => Len(cbuf) < ClientBlock

(* Client and server take turns: the server is back in accept() when the   *)
(* client is between two requests, and a connection begins with nothing    *)
(* written to it.                                                          *)
Waiting == link \in {"queued", "hello"}
Turns ==
  /\ sp # "accept" => link = "up"
  /\ ended => sp = "accept" /\ link = "up"
  /\ cp \in {"start", "next", "lookup", "dial", "connect", "flush", "close"} =>
       sp = "accept" /\ ~Waiting
  /\ Waiting => sp = "accept" /\ down = <<>>
  /\ sp \in {"readto", "dispatch"} => down = <<>>
  /\ cp = "setup" => link = "queued"
  /\ hungup => cp \in {"failed", "finished"}

Held == Typed /\ Filled /\ Turns

LEMMA Sizes ==
  /\ Window \in Nat \ {0} /\ MaxRequest \in Nat \ {0} /\ Block \in Nat \ {0}
  /\ ClientBlock \in Nat \ {0} /\ MaxSize \in Nat
<1>1. Window \in Nat \ {0}
  BY SessionAssumption
<1>2. MaxRequest \in Nat \ {0} /\ Block \in Nat \ {0} /\ MaxSize \in Nat
  BY RequestAssumption
<1>3. ClientBlock \in Nat \ {0}
  BY ClientAssumption
<1> QED
  BY <1>1, <1>2, <1>3

LEMMA Lengths ==
  ASSUME Typed
  PROVE  /\ Len(line) \in Nat /\ Len(up) \in Nat /\ Len(down) \in Nat
         /\ Len(input) \in Nat /\ Len(buf) \in Nat /\ Len(cbuf) \in Nat
<1>1. Len(line) \in Nat /\ Len(up) \in Nat
  BY DEF Typed
<1>2. Len(down) \in Nat /\ Len(input) \in Nat /\ Len(buf) \in Nat /\ Len(cbuf) \in Nat
  BY DEF Typed
<1> QED
  BY <1>1, <1>2

LEMMA HeldInit == Init => Held
<1> SUFFICES ASSUME Init PROVE Held
  OBVIOUS
<1>1. line = <<>> /\ up = <<>> /\ down = <<>> /\ input = <<>> /\ buf = <<>> /\ cbuf = <<>>
      /\ printed = 0 /\ asked = <<>> /\ cp = "start" /\ sp = "accept" /\ back = "fill"
      /\ link = "none" /\ ended = FALSE /\ hungup = FALSE
  BY DEF Init, SessionInit, RequestInit, CgiInit, ClientInit
<1>2. Typed
  BY <1>1 DEF Typed
<1>3. Filled
  BY <1>1, Sizes DEF Filled, BuffersHold
<1>4. Turns
  BY <1>1 DEF Turns, Waiting
<1> QED
  BY <1>2, <1>3, <1>4 DEF Held

(* A response is in the window, or lost. *)
LEMMA RespondsInWindow ==
  ASSUME Typed, Filled, NEW status \in Int, Responds(status)
  PROVE  down' \in Seq(Int) /\ Len(down') <= Window
<1>n. down \in Seq(Int) /\ Len(down) \in Nat /\ Len(down) <= Window /\ Window \in Nat
  BY Lengths, Sizes DEF Typed, Filled, BuffersHold
<1>1. CASE UNCHANGED down
  BY <1>n, <1>1
<1>2. CASE Len(down) < Window /\ down' = Append(down, status)
  <2>1. down' \in Seq(Int) /\ Len(down') = Len(down) + 1
    BY <1>n, <1>2, AppendProperties
  <2> QED
    BY <1>n, <1>2, <2>1
<1> QED
  BY <1>1, <1>2 DEF Responds

LEMMA RequestsKeepHeld ==
  ASSUME Held, Requests, UNCHANGED <<program, client>>
  PROVE  Held'
<1> USE DEF Held
<1>n. /\ Len(line) \in Nat /\ Len(up) \in Nat /\ Len(down) \in Nat /\ Len(input) \in Nat
      /\ Len(buf) \in Nat /\ Len(cbuf) \in Nat
      /\ Window \in Nat \ {0} /\ MaxRequest \in Nat \ {0} /\ Block \in Nat \ {0}
  BY Lengths, Sizes
<1>h. UNCHANGED hungup
  BY DEF Requests, TlsAccepts, TlsRefuses, ReadTo, ReadToFails, Refuses, OpensFile,
         StreamReads, StreamReadsNothing, StreamReadFails, StreamFlushes, WritesSome,
         WriteFails, session
<1>u. UNCHANGED <<kid, printed, cp, asked, cbuf, hungup>>
  BY <1>h DEF program, client, dialling, response, copy
<1>1. CASE TlsAccepts
  BY <1>n, <1>u, <1>1 DEF TlsAccepts, transfer, Typed, Filled, Turns, Waiting, BuffersHold
<1>2. CASE TlsRefuses
  BY <1>n, <1>u, <1>2 DEF TlsRefuses, request, transfer, Typed, Filled, Turns, Waiting, BuffersHold
<1>3. CASE ReadTo
  <2>1. up # <<>> /\ LineRoom > 0 /\ sp = "readto"
    BY <1>3 DEF ReadTo
  <2>2. Head(up) \in Seq(Letters) /\ Tail(up) \in Seq(Seq(Letters))
    BY <2>1 DEF Typed
  <2> DEFINE k == Min({LineRoom, Len(Head(up))})
  <2>3. LineRoom \in Nat /\ Len(Head(up)) \in Nat
    BY <1>n, <2>1, <2>2 DEF LineRoom
  <2>4. k \in 0..Len(Head(up)) /\ k <= LineRoom
    BY <2>3, MinOfTwo
  <2>5. Take(Head(up), k) \in Seq(Letters) /\ Len(Take(Head(up), k)) = k
    BY <2>2, <2>4, Splits
  <2>6. line' \in Seq(Letters) /\ Len(line') = Len(line) + k
    BY <1>3, <2>5, ConcatProperties DEF ReadTo, Stored, Typed
  <2>7. up' \in Seq(Seq(Letters))
    <3>1. Drop(Head(up), k) \in Seq(Letters)
      BY <2>2, <2>4, Splits
    <3>2. <<Drop(Head(up), k)>> \in Seq(Seq(Letters))
      BY <3>1
    <3>3. <<Drop(Head(up), k)>> \o Tail(up) \in Seq(Seq(Letters))
      BY <2>2, <3>2, ConcatProperties
    <3> QED
      BY <1>3, <2>2, <3>3 DEF ReadTo
  <2>8. sp' \in {"readto", "dispatch"} /\ UNCHANGED <<link, down, ended, hungup, input, transfer>>
    BY <1>3 DEF ReadTo
  <2> QED
    BY <1>n, <1>u, <2>1, <2>4, <2>6, <2>7, <2>8
       DEF transfer, Typed, Filled, Turns, Waiting, BuffersHold, LineRoom
<1>4. CASE ReadToFails
  <2>1. sp = "readto" /\ sp' = "accept"
        /\ UNCHANGED <<link, up, down, line, input, transfer>>
    BY <1>4 DEF ReadToFails, Close
  <2> QED
    BY <1>n, <1>u, <2>1 DEF transfer, Typed, Filled, Turns, Waiting, BuffersHold
<1>5. CASE Refuses
  <2>1. sp = "dispatch" /\ sp' = "accept" /\ Responds(0)
        /\ UNCHANGED <<link, up, line, input, transfer>>
    BY <1>5 DEF Refuses, Close
  <2>2. down' \in Seq(Int) /\ Len(down') <= Window
    BY <2>1, RespondsInWindow
  <2> QED
    BY <1>n, <1>u, <2>1, <2>2 DEF transfer, Typed, Filled, Turns, Waiting, BuffersHold
<1>6. CASE OpensFile
  <2>1. input' \in Seq(Int)
    BY <1>n, <1>6, RequestAssumption DEF OpensFile
  <2>2. down' \in Seq(Int) /\ Len(down') <= Window
    BY <1>6, RespondsInWindow DEF OpensFile
  <2> QED
    BY <1>n, <1>u, <1>6, <2>1, <2>2
       DEF OpensFile, StreamBegins, Typed, Filled, Turns, Waiting, BuffersHold
<1>7. CASE StreamReads
  <2>1. input # <<>> /\ sp = "fill" /\ buf = <<>>
    BY <1>7 DEF StreamReads, Filled
  <2> DEFINE k == Min({Room, Len(input)})
  <2>2. k \in 0..Len(input) /\ k <= Block
    <3>1. Room = Block /\ Block \in Nat /\ Len(input) \in Nat
      BY <1>n, <2>1 DEF Room
    <3> QED
      BY <3>1, MinOfTwo
  <2>3. Take(input, k) \in Seq(Int) /\ Len(Take(input, k)) = k /\ Drop(input, k) \in Seq(Int)
    BY <2>2, Splits DEF Typed
  <2>4. buf' = buf \o Take(input, k) /\ input' = Drop(input, k) /\ sp' = "write"
        /\ rest' = Len(buf')
    BY <1>7 DEF StreamReads, Writes
  <2>5. buf' \in Seq(Int) /\ Len(buf') = k
    BY <2>1, <2>3, <2>4, ConcatProperties DEF Typed
  <2>6. UNCHANGED <<link, up, down, ended, line>> /\ back' = "fill"
    BY <1>7 DEF StreamReads, Writes, session, wire
  <2>7. Typed'
    BY <1>u, <2>3, <2>4, <2>5, <2>6 DEF Typed
  <2>8. Filled'
    BY <1>n, <1>u, <2>2, <2>4, <2>5, <2>6 DEF Filled, BuffersHold
  <2> QED
    BY <1>u, <2>1, <2>4, <2>6, <2>7, <2>8 DEF Turns, Waiting
<1>8. CASE StreamReadsNothing
  BY <1>n, <1>u, <1>8
     DEF StreamReadsNothing, session, wire, transfer, Typed, Filled, Turns, Waiting, BuffersHold
<1>9. CASE StreamFlushes
  BY <1>n, <1>u, <1>9
     DEF StreamFlushes, Writes, session, wire, Typed, Filled, Turns, Waiting, BuffersHold
<1>10. CASE WritesSome
  <2>1. /\ sp = "write" /\ Len(down) + rest <= Window /\ rest = Len(buf)
        /\ rest' = 0 /\ sp' = back /\ buf' = Unwritten(Len(buf))
        /\ down' = down \o [j \in 1..rest |-> ByteAt(at + j)]
        /\ UNCHANGED <<link, up, ended, hungup, line, input>>
    BY <1>n, <1>10 DEF WritesSome, Accepted, Filled
  <2>2. buf' = <<>>
    BY <1>n, <2>1, SubSeqEmpty DEF Unwritten, Drop
  <2>3. \A j : ByteAt(j) \in Int
    BY DEF ByteAt, Typed
  <2>4. [j \in 1..rest |-> ByteAt(at + j)] \in Seq(Int)
        /\ Len([j \in 1..rest |-> ByteAt(at + j)]) = rest
    BY <1>n, <2>1, <2>3
  <2>5. down' \in Seq(Int) /\ Len(down') = Len(down) + rest
    BY <2>1, <2>4, ConcatProperties DEF Typed
  <2>6. sp' \notin {"accept", "readto", "dispatch"}
    BY <2>1 DEF Filled
  <2>7. Typed'
    BY <1>u, <2>1, <2>2, <2>5 DEF Typed
  <2>8. Len(buf') = 0 /\ Len(down') <= Window /\ back' = back
    BY <1>10, <2>1, <2>2, <2>5 DEF WritesSome
  <2>9. Filled'
    BY <1>n, <1>u, <2>1, <2>2, <2>8 DEF Filled, BuffersHold
  <2> QED
    BY <1>u, <2>1, <2>6, <2>7, <2>9 DEF Turns, Waiting
<1>11. CASE WriteFails \/ StreamReadFails
  BY <1>n, <1>u, <1>11
     DEF WriteFails, StreamReadFails, Typed, Filled, Turns, Waiting, BuffersHold
<1> QED
  BY <1>1, <1>2, <1>3, <1>4, <1>5, <1>6, <1>7, <1>8, <1>9, <1>10, <1>11 DEF Requests

LEMMA ServerKeepsHeld ==
  ASSUME Held, Server
  PROVE  Held'
<1> USE DEF Held
<1>n. /\ Len(line) \in Nat /\ Len(up) \in Nat /\ Len(down) \in Nat /\ Len(input) \in Nat
      /\ Len(buf) \in Nat /\ Len(cbuf) \in Nat
      /\ Window \in Nat \ {0} /\ MaxRequest \in Nat \ {0} /\ Block \in Nat \ {0}
  BY Lengths, Sizes
<1>h. UNCHANGED hungup
  BY DEF Server, Serves, Requests, TlsAccepts, TlsRefuses, ReadTo, ReadToFails, Refuses,
         OpensFile, StreamReads, StreamReadsNothing, StreamReadFails, StreamFlushes, WritesSome,
         WriteFails, FileSent, CgiGivesUp, CgiForks, CgiParent, CgiReaps, session
<1>u. UNCHANGED <<cp, asked, cbuf, hungup>> /\ UNCHANGED client
  BY <1>h DEF Server, client, dialling, response, copy
<1>1. CASE Requests /\ UNCHANGED program
  BY <1>u, <1>1, RequestsKeepHeld
<1>2. CASE FileSent /\ UNCHANGED program
  <2>1. sp = "streamed" /\ sp' = "accept" /\ ended' = TRUE
        /\ UNCHANGED <<link, up, down, line, input, transfer, printed>>
    BY <1>2 DEF FileSent, Close, program
  <2> QED
    BY <1>n, <1>u, <2>1 DEF transfer, Typed, Filled, Turns, Waiting, BuffersHold
<1>3. ASSUME Aborts, sp # "accept", UNCHANGED <<link, up, line, input, transfer, printed>>
      PROVE  Held'
  <2>1. sp' = "accept" /\ ended' = TRUE /\ Responds(-1)
    BY <1>3 DEF Aborts, Close, Abort
  <2>2. down' \in Seq(Int) /\ Len(down') <= Window
    BY <2>1, RespondsInWindow
  <2> QED
    BY <1>n, <1>u, <1>3, <2>1, <2>2 DEF transfer, Typed, Filled, Turns, Waiting, BuffersHold
<1>4. CASE CgiGivesUp
  <2>1. sp # "accept" /\ Aborts /\ UNCHANGED <<link, up, line, input, transfer, printed>>
    BY <1>4 DEF CgiGivesUp, program
  <2> QED
    BY <1>3, <2>1
<1>5. CASE CgiForks
  <2>1. sp = "dispatch" /\ sp' = "forked" /\ input' = <<>> /\ printed' = 0
        /\ UNCHANGED <<link, up, down, ended, line, transfer>>
    BY <1>5 DEF CgiForks, session, wire
  <2> QED
    BY <1>n, <1>u, <2>1 DEF transfer, Typed, Filled, Turns, Waiting, BuffersHold
<1>6. CASE CgiParent
  <2>1. sp = "forked" /\ sp' = "fill" /\ buf' = <<>> /\ back' = "fill"
        /\ UNCHANGED <<link, up, down, ended, line, input, printed>>
    BY <1>6 DEF CgiParent, StreamBegins, session, wire, program
  <2> QED
    BY <1>n, <1>u, <2>1 DEF Typed, Filled, Turns, Waiting, BuffersHold
<1>7. CASE CgiReaps
  <2>1. sp = "streamed" /\ UNCHANGED <<link, up, line, input, transfer, printed>>
    BY <1>7 DEF CgiReaps
  <2>2. CASE Aborts
    BY <1>3, <2>1, <2>2
  <2>3. CASE Close /\ UNCHANGED down
    <3>1. sp' = "accept" /\ ended' = TRUE
      BY <2>3 DEF Close
    <3> QED
      BY <1>n, <1>u, <2>1, <2>3, <3>1 DEF transfer, Typed, Filled, Turns, Waiting, BuffersHold
  <2> QED
    BY <1>7, <2>2, <2>3 DEF CgiReaps
<1> QED
  BY <1>1, <1>2, <1>4, <1>5, <1>6, <1>7 DEF Server, Serves

LEMMA ProgramKeepsHeld ==
  ASSUME Held, Program
  PROVE  Held'
<1> USE DEF Held
<1>1. UNCHANGED <<cp, asked, cbuf>>
  BY DEF Program, client, dialling, response, copy
<1>2. UNCHANGED <<link, up, down, ended, hungup, sp, line, transfer>>
  BY DEF Program, Kid, KidFails, KidExecutes, KidFlushes, KidWrites, KidPrints, KidExits,
           session, wire
<1>3. input' \in Seq(Int) /\ printed' \in Int
  <2>1. CASE KidPrints
    <3>1. input' = Append(input, printed) /\ printed' = printed + 1
      BY <2>1 DEF KidPrints
    <3> QED
      BY <3>1 DEF Typed
  <2>2. CASE UNCHANGED <<input, printed>>
    BY <2>2 DEF Typed
  <2>3. KidPrints \/ UNCHANGED <<input, printed>>
    BY DEF Program, Kid, KidFails, KidExecutes, KidFlushes, KidWrites, KidExits
  <2> QED
    BY <2>1, <2>2, <2>3
<1> QED
  BY <1>1, <1>2, <1>3 DEF transfer, Typed, Filled, Turns, Waiting, BuffersHold

(* What gurl asks for is one of its arguments. *)
LEMMA UrlText ==
  ASSUME Typed, asked # <<>>
  PROVE  Url \in Asks /\ Url.text \in Seq(Letters)
<1>1. Url \in Asks
  BY DEF Typed, Url, Last
<1>2. Url \in [text : Seq(Letters), port : Ports]
  BY <1>1, AsksAssumption DEF Letters
<1> QED
  BY <1>1, <1>2

LEMMA GurlKeepsHeld ==
  ASSUME Held, Asking
  PROVE  Held'
<1> USE DEF Held
<1>n. /\ Len(line) \in Nat /\ Len(up) \in Nat /\ Len(down) \in Nat /\ Len(input) \in Nat
      /\ Len(buf) \in Nat /\ Len(cbuf) \in Nat
      /\ Window \in Nat \ {0} /\ ClientBlock \in Nat \ {0}
  BY Lengths, Sizes
<1>u. UNCHANGED <<sp, line, input, buf, rest, back, printed>>
  BY DEF Asking, request, transfer, program
<1>f. ASSUME Fails, UNCHANGED <<wire, asked, cbuf>>
      PROVE  Held'
  BY <1>n, <1>u, <1>f DEF Fails, wire, Typed, Filled, Turns, Waiting, BuffersHold
(* A step between two of the client's places, neither of which receives.   *)
<1>g. ASSUME UNCHANGED <<wire, asked, cbuf>>, cp' \notin {"recv", "setup"},
             hungup' => cp' = "finished",
             asked = <<>> => cp' \in {"start", "next", "failed", "finished"},
             cp' \in {"start", "next", "lookup", "dial", "connect", "flush", "close"} =>
               sp = "accept" /\ ~Waiting
      PROVE  Held'
  BY <1>n, <1>u, <1>g DEF wire, Typed, Filled, Turns, Waiting, BuffersHold
<1>1. CASE Configures
  <2>1. cp = "start" /\ UNCHANGED <<wire, asked, cbuf>>
        /\ ((cp' = "next" /\ UNCHANGED hungup) \/ Fails)
    BY <1>1 DEF Configures, copy
  <2>2. CASE cp' = "next" /\ UNCHANGED hungup
    BY <1>g, <2>1, <2>2 DEF Turns, Waiting
  <2> QED
    BY <1>f, <2>1, <2>2
<1>2. CASE LookupFails \/ NoAddress \/ SetupFails \/ HandshakeFails \/ StoreFails
  <2>1. Fails /\ UNCHANGED <<wire, asked, cbuf>>
    BY <1>2 DEF LookupFails, NoAddress, SetupFails, HandshakeFails, StoreFails, copy
  <2> QED
    BY <1>f, <2>1
<1>3. CASE Finishes
  <2>1. cp' = "finished" /\ UNCHANGED <<wire, asked, cbuf>>
    BY <1>3 DEF Finishes, copy
  <2> QED
    BY <1>g, <2>1
<1>4. CASE Begins
  <2>1. cp = "next" /\ cp' = "lookup" /\ UNCHANGED <<wire, hungup, cbuf>>
        /\ \E u \in Asks : asked' = Append(asked, u)
    BY <1>4 DEF Begins, session
  <2>2. asked' \in Seq(Asks) /\ asked' # <<>>
    BY <2>1, AppendProperties DEF Typed
  <2> QED
    BY <1>n, <1>u, <2>1, <2>2 DEF wire, Typed, Filled, Turns, Waiting, BuffersHold
<1>5. CASE LooksUp \/ NoSocket \/ Dials \/ NotConnected
  <2>1. /\ cp \in {"lookup", "dial", "connect"} /\ cp' \in {"dial", "connect"}
        /\ UNCHANGED <<wire, hungup, asked, cbuf>>
    BY <1>5 DEF LooksUp, NoSocket, Dials, NotConnected, session, copy
  <2> QED
    BY <1>g, <2>1 DEF Typed, Turns, Waiting
<1>6. CASE Connected
  <2>1. /\ cp = "connect" /\ cp' = "setup" /\ link' = "queued" /\ ended' = FALSE
        /\ up' = <<>> /\ down' = <<>> /\ UNCHANGED <<hungup, asked, cbuf>>
    BY <1>6 DEF Connected, Connects, copy
  <2> QED
    BY <1>n, <1>u, <2>1 DEF Typed, Filled, Turns, Waiting, BuffersHold
<1>7. CASE Handshakes
  <2>1. cp = "handshake" /\ cp' = "ask" /\ UNCHANGED <<wire, hungup, asked, cbuf>>
    BY <1>7 DEF Handshakes, session, copy
  <2> QED
    BY <1>g, <2>1 DEF Typed, Turns
<1>13. CASE SetsUp
  <2>1. /\ cp = "setup" /\ cp' = "handshake" /\ link' = "hello"
        /\ UNCHANGED <<up, down, ended, hungup, asked, cbuf>>
    BY <1>13 DEF SetsUp, Greets, copy
  <2> QED
    BY <1>n, <1>u, <2>1 DEF Typed, Filled, Turns, Waiting, BuffersHold
<1>8. CASE AsksUrl \/ EndsLine
  <2>1. /\ cp \in {"ask", "endask"} /\ cp' \in {"endask", "recv"}
        /\ UNCHANGED <<link, down, ended, hungup, asked>>
        /\ (cbuf' = <<>> \/ (cp' = "endask" /\ cbuf' = cbuf))
        /\ (up' = up \/ up' = Append(up, Url.text) \/ up' = Append(up, <<"CR", "LF">>))
    BY <1>8 DEF AsksUrl, EndsLine, Sends, copy
  <2>2. Url.text \in Seq(Letters) /\ <<"CR", "LF">> \in Seq(Letters)
    <3>1. asked # <<>>
      BY <2>1 DEF Typed
    <3>2. <<"CR", "LF">> \in Seq(Letters)
      BY DEF Letters
    <3> QED
      BY <3>1, <3>2, UrlText
  <2>3. up' \in Seq(Seq(Letters))
    <3>1. ASSUME NEW t \in Seq(Letters) PROVE Append(up, t) \in Seq(Seq(Letters))
      BY AppendProperties DEF Typed
    <3> QED
      BY <2>1, <2>2, <3>1 DEF Typed
  <2>4. Typed'
    <3>1. asked # <<>> /\ asked' = asked
      BY <2>1 DEF Typed
    <3>2. <<>> \in Seq(Int) /\ cbuf \in Seq(Int)
      BY DEF Typed
    <3>3. cbuf' \in Seq(Int)
      BY <2>1, <3>2
    <3> QED
      BY <1>u, <2>1, <2>3, <3>1, <3>3 DEF Typed
  <2>5. Filled'
    BY <1>n, <1>u, <2>1 DEF Filled, BuffersHold
  <2> QED
    BY <1>u, <2>1, <2>4, <2>5 DEF Turns, Waiting
<1>9. CASE Receives
  <2>1. PICK nread \in 1..Min({ClientRoom, Len(down)}) :
          /\ cbuf' = cbuf \o Take(down, nread) /\ down' = Drop(down, nread)
    BY <1>9 DEF Receives
  <2>2. /\ cp = "recv" /\ cp' = IF ClientRoom' = 0 THEN "store" ELSE "recv"
        /\ down # <<>> /\ UNCHANGED <<link, up, ended, hungup, asked>>
    BY <1>9 DEF Receives
  <2>3. ClientRoom \in Nat /\ Len(cbuf) + ClientRoom = ClientBlock
    BY <1>n DEF Filled, BuffersHold, ClientRoom
  <2>4. nread \in 0..Len(down) /\ nread <= ClientRoom
    BY <1>n, <2>3, MinOfTwo
  <2>5. /\ Take(down, nread) \in Seq(Int) /\ Len(Take(down, nread)) = nread
        /\ down' \in Seq(Int) /\ Len(down') = Len(down) - nread
    BY <2>1, <2>4, Splits DEF Typed
  <2>6. cbuf' \in Seq(Int) /\ Len(cbuf') = Len(cbuf) + nread
    BY <2>1, <2>5, ConcatProperties DEF Typed
  <2>7. Typed'
    BY <1>u, <2>2, <2>5, <2>6 DEF Typed
  <2>8. ClientRoom' = ClientBlock - Len(cbuf')
    BY DEF ClientRoom
  <2>9. Filled'
    <3>1. /\ Len(cbuf') \in Nat /\ Len(cbuf') <= ClientBlock
          /\ cp' = "recv" => Len(cbuf') < ClientBlock
      <4>1. Len(cbuf') \in Nat /\ Len(cbuf') <= ClientBlock
        BY <1>n, <2>3, <2>4, <2>6
      <4>2. cp' = "recv" => ClientRoom' # 0
        BY <2>2
      <4> QED
        BY <1>n, <2>8, <4>1, <4>2
    <3>2. Len(down') <= Window
      BY <1>n, <2>4, <2>5 DEF Filled, BuffersHold
    <3> QED
      BY <1>u, <3>1, <3>2 DEF Filled, BuffersHold
  <2>10. ~Waiting /\ sp \notin {"readto", "dispatch"}
    BY <2>2 DEF Turns, Waiting
  <2> QED
    BY <1>u, <2>2, <2>7, <2>9, <2>10 DEF Turns, Waiting
<1>10. CASE ReceivesEnd
  <2>1. /\ cp = "recv" /\ cp' \in {"store", "flush"}
        /\ UNCHANGED <<wire, hungup, asked, cbuf>>
        /\ ended \/ ClientRoom = 0
    BY <1>10 DEF ReceivesEnd, session, copy
  <2>2. ended
    BY <1>n, <2>1 DEF Filled, ClientRoom
  <2> QED
    BY <1>g, <2>1, <2>2 DEF Typed, Turns, Waiting
<1>11. CASE Stores
  <2>1. PICK nwrit \in 1..Len(cbuf) : cbuf' = Drop(cbuf, nwrit)
    BY <1>11 DEF Stores, Rest
  <2>2. cbuf' \in Seq(Int) /\ Len(cbuf') = Len(cbuf) - nwrit
    <3>1. nwrit \in 0..Len(cbuf) /\ cbuf \in Seq(Int)
      BY <1>n DEF Typed
    <3> QED
      BY <2>1, <3>1, Splits
  <2>3. /\ \/ cp = "store" /\ cp' = "recv"
           \/ cp = "flush" /\ cp' = "flush"
        /\ UNCHANGED <<wire, hungup, asked>>
    BY <1>11 DEF Stores, session
  <2>4. Len(cbuf') < ClientBlock
    BY <1>n, <2>1, <2>2 DEF Filled, BuffersHold
  <2>5. Typed'
    BY <1>u, <2>2, <2>3 DEF wire, Typed
  <2>6. Len(cbuf') \in Nat /\ Len(cbuf') <= ClientBlock
    BY <1>n, <2>2, <2>4
  <2>7. Filled'
    BY <1>u, <2>3, <2>4, <2>6 DEF wire, Filled, BuffersHold
  <2> QED
    BY <1>u, <2>3, <2>5, <2>7 DEF wire, Turns, Waiting
<1>12. CASE Streamed \/ ResponseClose
  <2>1. /\ cp \in {"flush", "close"} /\ cp' \in {"close", "next"}
        /\ UNCHANGED <<wire, hungup, asked, cbuf>>
    BY <1>12 DEF Streamed, ResponseClose, session, copy
  <2> QED
    BY <1>g, <2>1 DEF Typed, Turns, Waiting
<1> QED
  BY <1>1, <1>2, <1>3, <1>4, <1>5, <1>6, <1>7, <1>8, <1>9, <1>10, <1>11, <1>12, <1>13
     DEF Asking, Gurl

LEMMA GlitchKeepsHeld ==
  ASSUME Held, Glitch
  PROVE  Held'
<1> USE DEF Held
<1>1. cp' = "failed"
      /\ UNCHANGED <<link, up, down, ended, line, input, buf, rest, back, printed, sp,
                     asked, cbuf>>
  BY DEF Glitch, ReceiveFails, Fails, wire, program, request, transfer, copy
<1> QED
  BY <1>1 DEF Typed, Filled, Turns, Waiting, BuffersHold

LEMMA HeldInvariant == Spec => []Held
<1>1. Held /\ [Next]_vars => Held'
  <2> SUFFICES ASSUME Held, [Next]_vars PROVE Held'
    OBVIOUS
  <2>1. CASE UNCHANGED vars
    BY <2>1 DEF vars, session, wire, request, transfer, program, client, copy,
                Held, Typed, Filled, Turns, Waiting, BuffersHold
  <2> QED
    BY <2>1, ServerKeepsHeld, ProgramKeepsHeld, GurlKeepsHeld, GlitchKeepsHeld DEF Next
<1> QED
  BY <1>1, HeldInit, PTL DEF Spec

-----------------------------------------------------------------------------
(* No buffer of the two sides is overrun, nor a pipe or window exceeded,   *)
(* however the bytes are cut into records, reads and writes.               *)
THEOREM BuffersHoldAlways == Spec => []BuffersHold
<1>1. Held => BuffersHold
  BY DEF Held, Filled
<1> QED
  BY <1>1, HeldInvariant, PTL

(* Neither side asks for zero bytes: no read stops a copy before its end.  *)
THEOREM AsksForBytesAlways == Spec => []AsksForBytes
<1>1. Held => AsksForBytes
  BY Lengths, Sizes DEF Held, Filled, AsksForBytes, Room, ClientRoom
<1> QED
  BY <1>1, HeldInvariant, PTL

-----------------------------------------------------------------------------
(* socket() gives a descriptor that is not open. *)
LEMMA FreeFdIsFree ==
  ASSUME CanOpen
  PROVE  FreeFd \in (0..MaxFds) \ fds
<1> DEFINE free == (0..MaxFds) \ fds
<1>1. free # {} /\ free \in SUBSET Nat
  BY DEF CanOpen
<1>2. PICK x \in free : \A y \in free : x <= y
  <2> HIDE DEF free
  <2> QED
    BY <1>1, LeastOf
<1>3. FreeFd \in free
  BY <1>2 DEF FreeFd, Min
<1> QED
  BY <1>3

(* The descriptors that gemini_client_request() has opened at each place.  *)
Dialled ==
  /\ cp \in {"start", "lookup", "dial"} => fds = before
  /\ cp \in {"lookup", "dial"} => fd = NoFd
  /\ cp \in {"connect", "setup", "handshake"} => fds = before \cup {fd} /\ fd \notin before
  /\ cp \in {"start", "next", "lookup", "dial", "connect", "setup"} => ssl = "null"
  /\ cp \in {"handshake", "ask", "endask", "recv", "store", "flush", "close"} => ssl = "live"
  /\ FailureReleases

LEMMA GurlKeepsDialled ==
  ASSUME Dialled, Gurl
  PROVE  Dialled'
<1> USE DEF Dialled, FailureReleases
<1>1. CASE Configures \/ Finishes \/ LookupFails \/ NoAddress
  BY <1>1 DEF Configures, Finishes, LookupFails, NoAddress, Fails, dialling, response
<1>2. CASE Begins \/ LooksUp \/ NoSocket
  BY <1>2 DEF Begins, LooksUp, NoSocket, response
<1>3. CASE Dials
  <2>1. FreeFd \notin fds
    BY <1>3, FreeFdIsFree DEF Dials
  <2> QED
    BY <1>3, <2>1 DEF Dials, response
<1>4. CASE NotConnected
  BY <1>4 DEF NotConnected, Closed, response
<1>5. CASE Connected \/ SetsUp
  BY <1>5 DEF Connected, SetsUp, dialling, response
<1>6. CASE SetupFails \/ HandshakeFails
  BY <1>6 DEF SetupFails, HandshakeFails, Fails, response
<1>7. CASE Handshakes \/ AsksUrl \/ EndsLine \/ Receives \/ ReceivesEnd
  BY <1>7 DEF Handshakes, AsksUrl, EndsLine, Receives, ReceivesEnd, dialling, response
<1>8. CASE Stores \/ StoreFails \/ Streamed
  BY <1>8 DEF Stores, StoreFails, Fails, Streamed, dialling, response
<1>9. CASE ResponseClose
  BY <1>9 DEF ResponseClose
<1> QED
  BY <1>1, <1>2, <1>3, <1>4, <1>5, <1>6, <1>7, <1>8, <1>9 DEF Gurl

(* Whatever fails in gemini_client_request(), and however many addresses   *)
(* it has tried by then, no descriptor stays open that it opened.          *)
THEOREM FailureReleasesAlways == Spec => []FailureReleases
<1>1. Init => Dialled
  BY DEF Init, ClientInit, Dialled, FailureReleases
<1>2. Dialled /\ [Next]_vars => Dialled'
  <2> SUFFICES ASSUME Dialled, [Next]_vars PROVE Dialled'
    OBVIOUS
  <2>1. CASE Asking
    BY <2>1, GurlKeepsDialled DEF Asking
  <2>2. CASE UNCHANGED client
    BY <2>2 DEF client, dialling, response, Dialled, FailureReleases
  <2>3. CASE ReceiveFails
    BY <2>3 DEF ReceiveFails, Fails, dialling, response, Dialled, FailureReleases
  <2> QED
    BY <2>1, <2>2, <2>3 DEF Next, Server, Program, Glitch, vars
<1>3. Dialled => FailureReleases
  BY DEF Dialled
<1> QED
  BY <1>1, <1>2, <1>3, PTL DEF Spec
-----------------------------------------------------------------------------
LEMMA PortIsNumber == \A p \in Ports : p \in Nat /\ p <= MaxPort
<1>1. MaxPort \in Nat
  BY DEF MaxPort
<1> QED
  BY <1>1 DEF Ports

LEMMA LastDigit ==
  ASSUME NEW p \in Ports
  PROVE  /\ p \div 10 \in Ports /\ p % 10 \in 0..9
         /\ p = 10 * (p \div 10) + (p % 10)
<1>1. p \in Nat /\ p <= MaxPort /\ MaxPort \in Nat
  BY PortIsNumber DEF MaxPort
<1>2. p \div 10 \in Nat /\ p % 10 \in 0..9 /\ p = 10 * (p \div 10) + (p % 10)
  BY <1>1
<1>3. p \div 10 <= MaxPort
  BY <1>1, <1>2
<1> QED
  BY <1>1, <1>2, <1>3 DEF Ports

(* The recursion that writes a port has a value: its rows one by one.      *)
Rows == [Ports -> Seq(0..9)]
NextRow(row) == [port \in Ports |-> IF port = 0 THEN <<>>
                                    ELSE Append(row[port \div 10], port % 10)]

LEMMA DigitsEquation ==
  /\ DigitsOf \in [0..PortDigits -> Rows]
  /\ DigitsOf[0] = [port \in Ports |-> <<>>]
  /\ \A k \in 1..PortDigits : DigitsOf[k] = NextRow(DigitsOf[k - 1])
<1> DEFINE row0 == [port \in Ports |-> <<>>]
           op == [x \in Rows \X (1..PortDigits) |-> NextRow(x[1])]
           Row(f, k) == [port \in Ports |->
                           IF k = 0 \/ port = 0 THEN <<>>
                           ELSE Append(f[k - 1][port \div 10], port % 10)]
           Unfolds(f) == f = [k \in 0..PortDigits |-> Row(f, k)]
<1>0. PortDigits \in Nat
  BY DEF PortDigits
<1>1. ASSUME NEW row \in Rows PROVE NextRow(row) \in Rows
  <2>1. ASSUME NEW p \in Ports
        PROVE  Append(row[p \div 10], p % 10) \in Seq(0..9)
    <3>1. p \div 10 \in Ports /\ p % 10 \in 0..9
      BY LastDigit
    <3>2. row[p \div 10] \in Seq(0..9)
      BY <3>1 DEF Rows
    <3> QED
      BY <3>1, <3>2
  <2> QED
    BY <2>1 DEF Rows, NextRow
<1>2. row0 \in Rows
  BY DEF Rows
<1>3. OperatesOn(op, Rows, PortDigits)
  BY <1>1 DEF OperatesOn
<1>4. PICK g : Iterated(g, row0, op, Rows, PortDigits)
  <2> HIDE DEF row0, op
  <2> QED
    BY <1>0, <1>2, <1>3, Iterates
<1>g. /\ g \in [0..PortDigits -> Rows] /\ g[0] = row0
      /\ \A k \in 1..PortDigits : g[k] = op[<<g[k - 1], k>>]
  BY <1>4 DEF Iterated
<1>5. \A k \in 1..PortDigits : g[k] = NextRow(g[k - 1])
  <2> TAKE k \in 1..PortDigits
  <2>1. <<g[k - 1], k>> \in Rows \X (1..PortDigits)
    BY <1>g DEF PortDigits
  <2>2. op[<<g[k - 1], k>>] = NextRow(g[k - 1])
    BY <2>1
  <2> QED
    BY <1>g, <2>2
<1>6. Unfolds(g)
  <2>1. ASSUME NEW k \in 0..PortDigits PROVE g[k] = Row(g, k)
    <3>1. CASE k = 0
      BY <1>g, <3>1
    <3>2. CASE k # 0
      <4>1. g[k] = NextRow(g[k - 1])
        BY <1>5, <3>2 DEF PortDigits
      <4>2. \A p \in Ports : (k = 0 \/ p = 0) <=> p = 0
        BY <3>2
      <4> QED
        BY <4>1, <4>2 DEF NextRow
    <3> QED
      BY <3>1, <3>2
  <2>2. g = [k \in 0..PortDigits |-> g[k]]
    BY <1>g
  <2> HIDE DEF Row
  <2> QED
    BY <2>1, <2>2
<1>7. Unfolds(DigitsOf)
  <2>1. DigitsOf = CHOOSE f : Unfolds(f)
    BY DEF DigitsOf
  <2> HIDE DEF Unfolds
  <2> QED
    BY <1>6, <2>1
<1> DEFINE D == DigitsOf
<1>8. DOMAIN D = 0..PortDigits /\ \A k \in 0..PortDigits : D[k] = Row(D, k)
  <2>1. D = [k \in 0..PortDigits |-> Row(D, k)]
    BY <1>7
  <2> HIDE DEF D, Row
  <2> QED
    BY <2>1
<1> HIDE DEF D
<1>9. D = [k \in 0..PortDigits |-> D[k]]
  <2>1. D = [k \in 0..PortDigits |-> Row(D, k)]
    BY <1>7 DEF D
  <2> HIDE DEF Row
  <2> QED
    BY <1>8, <2>1
<1>10. D[0] = row0
  <2>1. Row(D, 0) = row0
    OBVIOUS
  <2> HIDE DEF Row, row0
  <2> QED
    BY <1>8, <2>1 DEF PortDigits
<1>11. ASSUME NEW k \in 1..PortDigits PROVE D[k] = NextRow(D[k - 1])
  <2>1. D[k] = Row(D, k) /\ k # 0
    <3>1. k \in 0..PortDigits /\ k # 0
      BY <1>0
    <3> HIDE DEF Row
    <3> QED
      BY <1>8, <3>1
  <2>2. Row(D, k) = NextRow(D[k - 1])
    BY <2>1 DEF NextRow
  <2> QED
    BY <2>1, <2>2
<1>12. \A k \in 0..PortDigits : D[k] = g[k]
  <2>1. \A k \in 1..PortDigits : D[k - 1] = g[k - 1] => D[k] = g[k]
    BY <1>5, <1>11
  <2>2. PortDigits \in Nat /\ D[0] = g[0]
    BY <1>g, <1>10 DEF PortDigits
  <2>3. GoAlike(D, g, PortDigits)
    BY <2>1, <2>2 DEF GoAlike
  <2> QED
    BY <2>2, <2>3, Alike
<1>13. D \in [0..PortDigits -> Rows]
  <2> HIDE DEF row0, op
  <2> QED
    BY <1>g, <1>9, <1>12
<1> QED
  BY <1>10, <1>11, <1>13 DEF D

(* With one digit more, ports ten times as large are written.              *)
WritesBelow(k, bound) ==
  \A p \in Ports : p < bound =>
    DigitsOf[k][p] \in Seq(0..9) /\ Value(DigitsOf[k][p]) = p

LEMMA OneDigitMore ==
  ASSUME NEW k \in 1..PortDigits, NEW bound \in Nat, WritesBelow(k - 1, bound)
  PROVE  WritesBelow(k, 10 * bound)
<1> SUFFICES ASSUME NEW p \in Ports, p < 10 * bound
             PROVE  DigitsOf[k][p] \in Seq(0..9) /\ Value(DigitsOf[k][p]) = p
  BY DEF WritesBelow
<1>1. DigitsOf[k][p] = IF p = 0 THEN <<>> ELSE Append(DigitsOf[k - 1][p \div 10], p % 10)
  BY DigitsEquation DEF NextRow
<1>2. CASE p = 0
  <2>1. <<>> \in Seq(0..9)
    OBVIOUS
  <2> QED
    BY <1>1, <1>2, <2>1, ValueOfNone
<1>3. CASE p # 0
  <2> DEFINE q == p \div 10
             r == p % 10
  <2>1. q \in Ports /\ r \in 0..9 /\ p = 10 * q + r /\ p \in Nat /\ q \in Nat
    BY LastDigit, PortIsNumber
  <2> HIDE DEF q, r
  <2>2. q < bound
    BY <2>1
  <2>3. DigitsOf[k - 1][q] \in Seq(0..9) /\ Value(DigitsOf[k - 1][q]) = q
    BY <2>1, <2>2 DEF WritesBelow
  <2>4. DigitsOf[k][p] = Append(DigitsOf[k - 1][q], r)
    BY <1>1, <1>3 DEF q, r
  <2>5. Append(DigitsOf[k - 1][q], r) \in Seq(0..9)
    BY <2>1, <2>3
  <2>6. Value(Append(DigitsOf[k - 1][q], r)) = 10 * q + r
    BY <2>1, <2>3, ValueOfAppend
  <2> QED
    BY <2>1, <2>4, <2>5, <2>6
<1> QED
  BY <1>2, <1>3

(* Five digits are enough. *)
LEMMA ServiceIsPort ==
  ASSUME NEW p \in Ports
  PROVE  Value(Service(p)) = p
<1>0. WritesBelow(0, 1)
  <2>1. \A q \in Ports : q < 1 => q = 0
    BY PortIsNumber
  <2>2. \A q \in Ports : DigitsOf[0][q] = <<>>
    BY DigitsEquation
  <2>3. <<>> \in Seq(0..9)
    OBVIOUS
  <2> QED
    BY <2>1, <2>2, <2>3, ValueOfNone DEF WritesBelow
<1>1. WritesBelow(1, 10)
  <2>1. 1 \in 1..PortDigits /\ 1 - 1 = 0 /\ 10 * 1 = 10
    BY DEF PortDigits
  <2> QED
    BY <1>0, <2>1, OneDigitMore
<1>2. WritesBelow(2, 100)
  <2>1. 2 \in 1..PortDigits /\ 2 - 1 = 1 /\ 10 * 10 = 100
    BY DEF PortDigits
  <2> QED
    BY <1>1, <2>1, OneDigitMore
<1>3. WritesBelow(3, 1000)
  <2>1. 3 \in 1..PortDigits /\ 3 - 1 = 2 /\ 10 * 100 = 1000
    BY DEF PortDigits
  <2> QED
    BY <1>2, <2>1, OneDigitMore
<1>4. WritesBelow(4, 10000)
  <2>1. 4 \in 1..PortDigits /\ 4 - 1 = 3 /\ 10 * 1000 = 10000
    BY DEF PortDigits
  <2> QED
    BY <1>3, <2>1, OneDigitMore
<1>5. WritesBelow(5, 100000)
  <2>1. 5 \in 1..PortDigits /\ 5 - 1 = 4 /\ 10 * 10000 = 100000
    BY DEF PortDigits
  <2> QED
    BY <1>4, <2>1, OneDigitMore
<1>6. p < 100000
  BY PortIsNumber DEF MaxPort
<1> QED
  BY <1>5, <1>6 DEF WritesBelow, Service, PortDigits

(* Whatever its port is, the text that a URL hands to getaddrinfo() is it. *)
THEOREM DialsPortAlways == Spec => []DialsPort
<1>1. Held => DialsPort
  <2> SUFFICES ASSUME Held, cp = "dial" PROVE Value(Service(Url.port)) = Url.port
    BY DEF DialsPort
  <2>1. asked \in Seq(Asks) /\ asked # <<>>
    BY DEF Held, Typed
  <2>2. Url \in Asks
    BY <2>1 DEF Url, Last
  <2>3. Url.port \in Ports
    BY <2>2, AsksAssumption
  <2> QED
    BY <2>3, ServiceIsPort
<1> QED
  BY <1>1, HeldInvariant, PTL
=============================================================================
