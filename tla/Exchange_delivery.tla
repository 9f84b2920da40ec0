-------------------------- MODULE Exchange_delivery --------------------------
(***************************************************************************)
(* What gurl asks for arrives, and what it gets is the answer: request and *)
(* answer through records, buffers, pipe and network of any size.          *)
(***************************************************************************)
EXTENDS Exchange_proofs

(* Calls fail, and nothing but a new connection makes up for it. *)
LEMMA ServerBreaks ==
  ASSUME Server
  PROVE  broken \subseteq broken' /\ broken' \subseteq broken \cup {"line", "read", "write"}
<1>1. ASSUME NEW call, Breaks(call)
      PROVE  broken' = broken \cup {call}
  BY <1>1 DEF Breaks
<1>2. ASSUME NEW status, Responds(status)
      PROVE  UNCHANGED broken \/ Breaks("write")
  BY <1>2 DEF Responds
<1>3. UNCHANGED broken \/ Breaks("line") \/ Breaks("read") \/ Breaks("write")
  <2>1. CASE \/ TlsAccepts \/ TlsRefuses \/ ReadTo \/ StreamReads \/ StreamReadsNothing
             \/ StreamFlushes \/ WritesSome \/ FileSent \/ CgiForks \/ CgiParent
    BY <2>1 DEF TlsAccepts, TlsRefuses, ReadTo, StreamReads, StreamReadsNothing, StreamFlushes,
                WritesSome, FileSent, CgiForks, CgiParent, session, wire
  <2>2. CASE ReadToFails \/ StreamReadFails \/ WriteFails
    BY <2>2 DEF ReadToFails, StreamReadFails, WriteFails
  <2>3. CASE Refuses \/ OpensFile \/ CgiGivesUp \/ CgiReaps
    BY <1>2, <2>3 DEF Refuses, OpensFile, CgiGivesUp, CgiReaps, Aborts
  <2> QED
    BY <2>1, <2>2, <2>3 DEF Server, Serves, Requests
<1> QED
  BY <1>1, <1>3

LEMMA ClientBreaks ==
  ASSUME Program \/ Asking \/ Glitch
  PROVE  \/ broken' \in {broken, broken \cup {"ask"}}
         \/ Connected /\ cp = "connect" /\ broken' = {}
<1>1. CASE Program
  BY <1>1 DEF Program, Kid, KidFails, KidExecutes, KidFlushes, KidWrites, KidPrints, KidExits,
              session, wire
<1>2. CASE Glitch
  BY <1>2 DEF Glitch, ReceiveFails, wire
<1>3. CASE Connected
  BY <1>3 DEF Connected, Connects
<1>4. CASE AsksUrl \/ EndsLine
  BY <1>4 DEF AsksUrl, EndsLine, Sends, Breaks
<1>5. CASE Gurl /\ ~Connected /\ ~AsksUrl /\ ~EndsLine
  BY <1>5 DEF Gurl, Configures, Finishes, Begins, LookupFails, LooksUp, NoSocket, Dials,
              NotConnected, NoAddress, SetupFails, SetsUp, Greets, HandshakeFails, Handshakes,
              Receives, ReceivesEnd, Stores, StoreFails, Streamed, ResponseClose, session, wire
<1> QED
  BY <1>1, <1>2, <1>3, <1>4, <1>5 DEF Asking

(* What follows for the failures that a step may rely on. *)
LEMMA FailuresStay ==
  ASSUME Server \/ Program \/ ((Asking \/ Glitch) /\ ~Connected)
  PROVE  (Hurt => Hurt') /\ (LineLost => LineLost') /\ (CanWrite' => CanWrite)
<1>1. CASE Server
  BY <1>1, ServerBreaks DEF Hurt, LineLost, CanWrite
<1>2. CASE Program
  <2>1. UNCHANGED broken
    BY <1>2 DEF Program, Kid, KidFails, KidExecutes, KidFlushes, KidWrites, KidPrints, KidExits,
                session, wire
  <2> QED
    BY <2>1 DEF Hurt, LineLost, CanWrite
<1>3. CASE (Asking \/ Glitch) /\ ~Connected
  <2>1. broken' \in {broken, broken \cup {"ask"}}
    BY <1>3, ClientBreaks
  <2> QED
    BY <2>1 DEF Hurt, LineLost, CanWrite
<1> QED
  BY <1>1, <1>2, <1>3

(* The child of a cgi request: what it has printed at each point of its    *)
(* life, and when the server has one at all.                               *)
KidRuns ==
  /\ kid = "starting" => printed = 0 /\ size = -1
  /\ kid = "running" => printed <= size + 1
  /\ kid = "exited" => printed = size + 1
  /\ kid \in {"starting", "running"} => "kid" \in writers
  /\ sp \in {"accept", "readto", "dispatch"} => kid = "none"
  /\ sp = "forked" => kid # "none"
  /\ sp \in {"readto", "dispatch"} => size = -1

(* gemini_request_stream(): its pointer never has to move, its second loop *)
(* finds nothing to do, and 0 is returned behind the end of the input only.*)
Copies ==
  /\ sp \in {"fill", "write", "flush"} => rc = 0
  /\ sp = "write" => at = 0 /\ back = "fill"
  /\ sp = "flush" => buf = <<>> /\ input = <<>> /\ writers = {}
  /\ sp = "streamed" => \/ rc = 0 /\ buf = <<>> /\ input = <<>> /\ writers = {}
                        \/ rc = -1 /\ Hurt

Running == TypeOK /\ KidRuns /\ Copies /\ ntotal <= Len(cbuf)

LEMMA RunningInit == Init => Running
<1> SUFFICES ASSUME Init PROVE Running
  OBVIOUS
<1>1. TypeOK
  <2>1. MaxFds \in Nat /\ Stdio \subseteq 0..MaxFds
    BY ClientAssumption DEF Stdio
  <2> QED
    <3>1. fds \subseteq 0..MaxFds /\ resfd = NoFd /\ ssl = "null" /\ ntotal = 0 /\ ended = FALSE
          /\ hungup = FALSE /\ link = "none" /\ broken = {}
      BY <2>1 DEF Init, SessionInit, ClientInit
    <3>2. /\ sp = "accept" /\ size = -1 /\ writers = {} /\ at = 0 /\ rest = 0 /\ back = "fill"
          /\ rc = 0 /\ kid = "none" /\ printed = 0
      BY DEF Init, RequestInit, CgiInit
    <3>3. size \in -1..MaxSize /\ printed \in 0..MaxSize + 1 /\ rest \in 0..Block
          /\ ntotal \in 0..ClientBlock
      BY <3>1, <3>2, Sizes
    <3> QED
      BY <3>1, <3>2, <3>3 DEF TypeOK
<1>2. KidRuns /\ Copies
  BY DEF Init, RequestInit, CgiInit, KidRuns, Copies
<1>3. ntotal = 0 /\ Len(cbuf) = 0
  BY DEF Init, ClientInit
<1> QED
  BY <1>1, <1>2, <1>3 DEF Running

LEMMA ServerKeepsRunning ==
  ASSUME Held, Running, Server
  PROVE  Running'
<1> USE DEF Held, Running
<1>n. /\ Len(line) \in Nat /\ Len(down) \in Nat /\ Len(input) \in Nat /\ Len(buf) \in Nat
      /\ Block \in Nat \ {0} /\ MaxSize \in Nat /\ at \in Nat
  BY Lengths, Sizes DEF TypeOK
<1>h. UNCHANGED hungup /\ UNCHANGED client
  BY DEF Server, Serves, Requests, TlsAccepts, TlsRefuses, ReadTo, ReadToFails, Refuses,
         OpensFile, StreamReads, StreamReadsNothing, StreamReadFails, StreamFlushes,
         WritesSome, WriteFails,
         FileSent, CgiGivesUp, CgiForks, CgiParent, CgiReaps, session
<1>u. UNCHANGED <<hungup, resfd, fds, ssl, ntotal, cbuf>>
  BY <1>h DEF client, dialling, response, copy
<1>b. broken' \subseteq Calls /\ (Hurt => Hurt')
  BY ServerBreaks, FailuresStay DEF TypeOK, Calls
<1>1. CASE UNCHANGED program /\ (TlsAccepts \/ TlsRefuses)
  <2>1. /\ link' \in {"up", "refused"} /\ sp = "accept" /\ sp' \in {"accept", "readto"}
        /\ size' = -1 \/ (sp' = "accept" /\ UNCHANGED size)
        /\ UNCHANGED <<ended, hungup, writers, transfer, kid, printed>>
    BY <1>1 DEF TlsAccepts, TlsRefuses, request, program
  <2> QED
    BY <1>n, <1>u, <1>b, <2>1 DEF transfer, TypeOK, KidRuns, Copies
<1>2. CASE UNCHANGED program /\ (ReadTo \/ ReadToFails)
  <2>1. /\ UNCHANGED <<link, hungup, size, input, writers, transfer, kid, printed>>
        /\ sp = "readto" /\ sp' \in {"accept", "readto", "dispatch"} /\ ended' \in {ended, TRUE}
    BY <1>2 DEF ReadTo, ReadToFails, Close, program
  <2> QED
    BY <1>u, <1>b, <2>1 DEF transfer, TypeOK, KidRuns, Copies
<1>3. CASE UNCHANGED program /\ (Refuses \/ OpensFile)
  <2>1. CASE Refuses
    BY <1>n, <1>u, <1>b, <1>3, <2>1 DEF Refuses, Close, transfer, program, TypeOK, KidRuns, Copies
  <2>2. CASE OpensFile
    <3>1. /\ sp = "dispatch" /\ sp' = "fill" /\ at' = 0 /\ rest' = 0 /\ back' = "fill" /\ rc' = 0
          /\ size' \in -1..MaxSize /\ writers' = {}
          /\ UNCHANGED <<link, ended, hungup, kid, printed>>
      BY <1>n, <1>3, <2>2 DEF OpensFile, StreamBegins, program
    <3> QED
      BY <1>n, <1>u, <1>b, <3>1 DEF TypeOK, KidRuns, Copies
  <2> QED
    BY <1>3, <2>1, <2>2
<1>4. CASE UNCHANGED program /\ StreamReads
  <2>1. /\ sp = "fill" /\ sp' = "write" /\ at' = 0 /\ rest' = Len(buf') /\ back' = "fill"
        /\ UNCHANGED <<link, ended, hungup, size, writers, rc, kid, printed>>
    BY <1>4 DEF StreamReads, Writes, session, wire, program
  <2>2. Len(buf') \in 0..Block
    <3>1. Held'
      BY <1>4, ServerKeepsHeld
    <3>2. Typed' /\ Len(buf') <= Block
      BY <3>1 DEF Filled, BuffersHold
    <3> QED
      BY <1>n, <3>2 DEF Typed
  <2> QED
    BY <1>n, <1>u, <1>b, <2>1, <2>2 DEF TypeOK, KidRuns, Copies
<1>5. CASE UNCHANGED program /\ StreamReadsNothing
  <2>1. /\ sp = "fill" /\ sp' = "flush" /\ buf = <<>> /\ InputEnds
        /\ UNCHANGED <<link, ended, hungup, size, input, writers, transfer, kid, printed>>
    BY <1>n, <1>5 DEF StreamReadsNothing, Filled, Room, session, wire, program
  <2> QED
    BY <1>u, <1>b, <2>1 DEF transfer, InputEnds, TypeOK, KidRuns, Copies
<1>6. CASE UNCHANGED program /\ StreamFlushes
  <2>1. /\ sp = "flush" /\ sp' = "streamed"
        /\ UNCHANGED <<link, ended, hungup, size, input, writers, transfer, kid, printed>>
    BY <1>6 DEF StreamFlushes, Copies, session, wire, transfer, program
  <2> QED
    BY <1>u, <1>b, <2>1 DEF transfer, TypeOK, KidRuns, Copies
<1>7. CASE UNCHANGED program /\ WritesSome
  <2>1. /\ sp = "write" /\ sp' = "fill" /\ rest' = 0 /\ at' = at
        /\ UNCHANGED <<link, ended, hungup, size, writers, back, rc, kid, printed>>
    <3>1. rest' = 0
      BY <1>n, <1>7 DEF WritesSome, Accepted, Filled
    <3> QED
      BY <1>n, <1>7, <3>1 DEF WritesSome, Copies, program
  <2> QED
    BY <1>n, <1>u, <1>b, <2>1 DEF TypeOK, KidRuns, Copies
<1>8. CASE UNCHANGED program /\ (WriteFails \/ StreamReadFails)
  <2>1. Hurt'
    BY <1>8 DEF WriteFails, StreamReadFails, Breaks, Hurt
  <2>2. /\ sp \in {"fill", "write"} /\ sp' = "streamed" /\ rc' = -1
        /\ UNCHANGED <<link, ended, hungup, size, writers, at, rest, back, kid, printed>>
    BY <1>8 DEF WriteFails, StreamReadFails, program
  <2> QED
    BY <1>u, <1>b, <2>1, <2>2 DEF TypeOK, KidRuns, Copies
<1>9. CASE UNCHANGED program /\ kid = "none" /\ FileSent
  BY <1>u, <1>b, <1>9 DEF FileSent, Close, transfer, program, TypeOK, KidRuns, Copies
<1>10. CASE CgiGivesUp
  <2>1. /\ sp = "dispatch" /\ sp' = "accept" /\ ended' = TRUE
        /\ UNCHANGED <<link, hungup, size, input, writers, transfer, kid, printed>>
    BY <1>10 DEF CgiGivesUp, Aborts, Close, program
  <2> QED
    BY <1>u, <1>b, <2>1 DEF transfer, TypeOK, KidRuns, Copies
<1>11. CASE CgiForks
  BY <1>n, <1>u, <1>b, <1>11 DEF CgiForks, session, wire, transfer, TypeOK, KidRuns, Copies
<1>12. CASE CgiParent
  BY <1>n, <1>u, <1>b, <1>12 DEF CgiParent, ServerEndClosed, StreamBegins, session, wire, program,
                      TypeOK, KidRuns, Copies
<1>13. CASE CgiReaps
  <2>1. /\ sp = "streamed" /\ sp' = "accept" /\ ended' = TRUE /\ kid' = "none"
        /\ UNCHANGED <<link, hungup, size, input, writers, transfer, printed>>
    BY <1>13 DEF CgiReaps, Aborts, Close
  <2> QED
    BY <1>u, <1>b, <2>1 DEF transfer, TypeOK, KidRuns, Copies
<1> QED
  BY <1>1, <1>2, <1>3, <1>4, <1>5, <1>6, <1>7, <1>8, <1>9, <1>10, <1>11, <1>12, <1>13
     DEF Server, Serves, Requests

LEMMA ProgramKeepsRunning ==
  ASSUME Running, Program
  PROVE  Running'
<1> USE DEF Running
<1>u. UNCHANGED <<link, ended, hungup, sp, transfer, broken, resfd, fds, ssl, ntotal, cbuf>>
  BY DEF Program, Kid, KidFails, KidExecutes, KidFlushes, KidWrites, KidPrints,
         KidExits, session, wire, client, dialling,
         response, copy
<1>s. MaxSize \in Nat
  BY Sizes
<1>b. UNCHANGED Hurt
  BY <1>u DEF Hurt
<1>1. CASE KidFails \/ KidExits
  <2>1. /\ kid \in {"starting", "running"} /\ kid' = "exited" /\ writers' = writers \ {"kid"}
        /\ UNCHANGED <<size, input, printed>> /\ (kid = "running" => printed > size)
    BY <1>1 DEF KidFails, KidExits
  <2>2. printed = size + 1
    BY <2>1 DEF TypeOK, KidRuns
  <2>3. KidRuns'
    BY <1>u, <2>1, <2>2 DEF KidRuns
  <2>4. TypeOK'
    BY <1>u, <2>1 DEF transfer, TypeOK
  <2>5. Copies'
    BY <1>u, <1>b, <2>1 DEF transfer, Copies
  <2> QED
    BY <1>u, <2>3, <2>4, <2>5
<1>2. CASE KidExecutes \/ KidFlushes
  <2>1. /\ kid = "starting" /\ kid' = "running" /\ size' \in -1..MaxSize
        /\ UNCHANGED <<writers, input, printed>>
    BY <1>s, <1>2 DEF KidExecutes, KidFlushes, KidWrites
  <2>a. size' \in Int /\ 0 <= size' + 1
    <3>1. ASSUME NEW n \in -1..MaxSize PROVE n \in Int /\ 0 <= n + 1
      BY <1>s
    <3> QED
      BY <2>1, <3>1
  <2>b. printed = 0 /\ "kid" \in writers /\ sp \notin {"accept", "readto", "dispatch"}
    BY <2>1 DEF KidRuns
  <2>2. KidRuns'
    BY <1>u, <2>1, <2>a, <2>b DEF KidRuns
  <2>3. TypeOK'
    BY <1>u, <2>1 DEF transfer, TypeOK
  <2>4. Copies'
    BY <1>u, <1>b, <2>1 DEF transfer, Copies
  <2> QED
    BY <1>u, <2>2, <2>3, <2>4
<1>3. CASE KidPrints
  BY <1>u, <1>b, <1>s, <1>3 DEF KidPrints, transfer, TypeOK, KidRuns, Copies
<1> QED
  BY <1>1, <1>2, <1>3 DEF Program, Kid

(* gurl's own part of the types. *)
LEMMA GurlKeepsRunning ==
  ASSUME Held, Running, Asking \/ Glitch
  PROVE  Running'
<1> USE DEF Held, Running
<1>n. Len(cbuf) \in Nat /\ Len(down) \in Nat /\ ClientBlock \in Nat /\ ntotal \in Nat
  BY Lengths, Sizes DEF TypeOK
<1>k. Held'
  BY GurlKeepsHeld, GlitchKeepsHeld
<1>m. Len(cbuf') \in Nat /\ Len(cbuf') <= ClientBlock
  BY <1>k DEF Typed, Filled, BuffersHold
<1>b. broken' \subseteq Calls /\ (sp # "accept" /\ Hurt => Hurt')
  <2>1. broken' \subseteq Calls
    BY ClientBreaks DEF TypeOK, Calls
  <2>2. sp # "accept" => ~Connected
    BY DEF Turns, Connected
  <2> QED
    BY <2>1, <2>2, FailuresStay
(* The server's variables and those of the wire. *)
<1>g. ASSUME UNCHANGED <<request, program>>, UNCHANGED link \/ link' \in {"queued", "hello"},
             ended' \in BOOLEAN, hungup' \in BOOLEAN, hungup => hungup',
             resfd' \in Heap \cup {NoFd}, fds' \subseteq 0..MaxFds, ssl' \in {"null", "live"},
             ntotal' \in Nat, ntotal' <= Len(cbuf')
      PROVE  Running'
  <2>1. ntotal' \in 0..ClientBlock
    BY <1>n, <1>m, <1>g
  <2> QED
    BY <1>b, <1>g, <2>1 DEF request, transfer, program, TypeOK, KidRuns, Copies
<1>t. /\ resfd \in Heap \cup {NoFd} /\ fds \subseteq 0..MaxFds /\ ssl \in {"null", "live"}
      /\ ended \in BOOLEAN /\ hungup \in BOOLEAN /\ ntotal <= Len(cbuf)
  BY DEF TypeOK
<1>2. CASE UNCHANGED <<request, program>> /\ (ReceiveFails \/ Configures \/ Finishes \/ LookupFails
           \/ NoAddress \/ StoreFails)
  <2>1. hungup' \in {hungup, TRUE} /\ UNCHANGED <<wire, dialling, response, copy>>
    BY <1>2 DEF ReceiveFails, Configures, Finishes, LookupFails, NoAddress, StoreFails, Fails
  <2> QED
    BY <1>2, <1>g, <1>t, <1>n, <2>1 DEF wire, dialling, response, copy
<1>3. CASE Asking /\ (Begins \/ LooksUp \/ NoSocket \/ Streamed \/ Handshakes)
  BY <1>3, <1>g, <1>t, <1>n
     DEF Asking, Begins, LooksUp, NoSocket, Streamed, Handshakes, session, wire, dialling, response,
         copy
<1>4. CASE Asking /\ (NotConnected \/ ResponseClose)
  BY <1>4, <1>g, <1>t, <1>n
     DEF Asking, NotConnected, ResponseClose, session, wire, dialling, response, copy
<1>5. CASE Asking /\ (SetupFails \/ HandshakeFails)
  BY <1>5, <1>g, <1>t, <1>n
     DEF Asking, SetupFails, HandshakeFails, Fails, wire, dialling, response, copy
<1>6. CASE Asking /\ Dials
  <2>1. fds' \subseteq 0..MaxFds
    BY <1>6, <1>t, FreeFdIsFree DEF Dials
  <2> QED
    BY <1>6, <1>g, <1>t, <1>n, <2>1 DEF Asking, Dials, session, wire, response, copy
<1>7. CASE Asking /\ (Connected \/ SetsUp)
  BY <1>7, <1>g, <1>t, <1>n
     DEF Asking, Connected, SetsUp, Connects, Greets, dialling, response, copy
<1>8. CASE Asking /\ (AsksUrl \/ EndsLine)
  <2>1. /\ UNCHANGED <<request, program, link, ended, hungup, dialling, response>>
        /\ UNCHANGED <<cbuf, ntotal>> \/ ntotal' = 0
    BY <1>8 DEF Asking, AsksUrl, EndsLine, copy
  <2> QED
    BY <1>g, <1>t, <1>n, <1>m, <2>1 DEF dialling, response
<1>9. CASE Asking /\ Receives
  <2>1. PICK nread \in 1..Min({ClientRoom, Len(down)}) :
          /\ cbuf' = cbuf \o Take(down, nread) /\ ntotal' = ntotal + nread
    BY <1>9 DEF Receives
  <2>2. nread \in 0..Len(down)
    <3>1. ClientRoom \in Nat
      BY <1>n DEF Filled, BuffersHold, ClientRoom
    <3> QED
      BY <1>n, <3>1, MinOfTwo
  <2>3. Len(cbuf') = Len(cbuf) + nread
    <3>1. Take(down, nread) \in Seq(Int) /\ Len(Take(down, nread)) = nread /\ cbuf \in Seq(Int)
      BY <2>2, Splits DEF Typed
    <3> QED
      BY <2>1, <3>1, ConcatProperties
  <2> QED
    BY <1>9, <1>g, <1>t, <1>n, <2>1, <2>2, <2>3 DEF Asking, Receives, dialling, response
<1>10. CASE Asking /\ ReceivesEnd
  BY <1>10, <1>g, <1>t, <1>n
     DEF Asking, ReceivesEnd, session, wire, dialling, response, copy
<1>11. CASE Asking /\ Stores
  BY <1>11, <1>g, <1>t, <1>n, <1>m
     DEF Asking, Stores, session, wire, dialling, response
<1> QED
  BY <1>2, <1>3, <1>4, <1>5, <1>6, <1>7, <1>8, <1>9, <1>10, <1>11
     DEF Asking, Gurl, Glitch

LEMMA RunningInvariant == Spec => []Running
<1>1. Held /\ Running /\ [Next]_vars => Running'
  <2> SUFFICES ASSUME Held, Running, [Next]_vars PROVE Running'
    OBVIOUS
  <2>1. CASE UNCHANGED vars
    BY <2>1 DEF vars, session, wire, request, transfer, program, client, dialling, response, copy,
                Running, TypeOK, KidRuns, Copies, Hurt
  <2> QED
    BY <2>1, ServerKeepsRunning, ProgramKeepsRunning, GurlKeepsRunning DEF Next
<1> QED
  BY <1>1, RunningInit, HeldInvariant, PTL DEF Spec

(* The types hold, for buffers, files and arguments of any size. *)
THEOREM TypeOKAlways == Spec => []TypeOK
<1>1. Running => TypeOK
  BY DEF Running
<1> QED
  BY <1>1, RunningInvariant, PTL

-----------------------------------------------------------------------------
(* What is on its way to gurl's standard output, without the 59 that may   *)
(* cut it short.                                                           *)
Cut == OnTheWay # <<>> /\ Last(OnTheWay) = Abort
Uncut == IF Cut THEN Len(OnTheWay) - 1 ELSE Len(OnTheWay)
InOrder == Uncut <= size + 1 /\ \A k \in 1..Uncut : OnTheWay[k] = k - 1

(* Bytes a, a + 1 and so on. *)
Counts(s, a) == \A k \in 1..Len(s) : s[k] = a + k - 1

LEMMA CountsJoin ==
  ASSUME NEW s \in Seq(Int), NEW t \in Seq(Int), NEW a \in Int,
         Counts(s, a), Counts(t, a + Len(s))
  PROVE  Counts(s \o t, a)
<1> SUFFICES ASSUME NEW k \in 1..Len(s \o t) PROVE (s \o t)[k] = a + k - 1
  BY DEF Counts
<1>1. Len(s) \in Nat /\ Len(t) \in Nat /\ Len(s \o t) = Len(s) + Len(t)
  BY ConcatProperties
<1>2. CASE k <= Len(s)
  BY <1>1, <1>2, ConcatProperties DEF Counts
<1>3. CASE k > Len(s)
  <2>1. k - Len(s) \in 1..Len(t) /\ (s \o t)[k] = t[k - Len(s)]
    BY <1>1, <1>3, ConcatProperties
  <2> QED
    BY <1>1, <2>1 DEF Counts
<1> QED
  BY <1>1, <1>2, <1>3

LEMMA TakeElements ==
  ASSUME NEW S, NEW s \in Seq(S), NEW k \in 0..Len(s), NEW i \in 1..k
  PROVE  Take(s, k)[i] = s[i]
BY SubSeqProperties DEF Take

LEMMA CountsSplit ==
  ASSUME NEW s \in Seq(Int), NEW a \in Int, NEW k \in 0..Len(s), Counts(s, a)
  PROVE  Counts(Take(s, k), a) /\ Counts(Drop(s, k), a + k)
<1>1. Len(s) \in Nat /\ Len(Take(s, k)) = k /\ Len(Drop(s, k)) = Len(s) - k
  BY Splits
<1>2. ASSUME NEW i \in 1..k PROVE Take(s, k)[i] = s[i]
  BY TakeElements
<1>3. ASSUME NEW i \in 1..Len(s) - k PROVE Drop(s, k)[i] = s[k + i]
  <2> DEFINE m == k + 1
             n == Len(s)
  <2>1. m \in Int /\ n \in Int /\ i \in 1..n - m + 1 /\ \A j \in m..n : s[j] \in Int
    BY <1>1
  <2> HIDE DEF m, n
  <2>2. SubSeq(s, m, n)[i] = s[m + i - 1]
    BY <2>1, SubSeqProperties
  <2>3. m + i - 1 = k + i
    BY <1>1 DEF m
  <2> QED
    BY <2>2, <2>3 DEF Drop, m, n
<1> QED
  BY <1>1, <1>2, <1>3 DEF Counts

(* The two parts of a sequence, put together again. *)
LEMMA Rejoins ==
  ASSUME NEW S, NEW s \in Seq(S), NEW k \in 0..Len(s)
  PROVE  Take(s, k) \o Drop(s, k) = s
<1>1. Len(s) \in Nat /\ 1 \in 1..Len(s) + 1 /\ k \in (1 - 1)..Len(s) /\ Len(s) \in k..Len(s)
  OBVIOUS
<1>2. SubSeq(s, 1, k) \o SubSeq(s, k + 1, Len(s)) = SubSeq(s, 1, Len(s))
  BY <1>1, ConcatAdjacentSubSeq
<1> QED
  BY <1>2, SubSeqFull DEF Take, Drop

(* Without a 59, in order means that the bytes count from 0. *)
LEMMA InOrderCounts ==
  ASSUME OnTheWay \in Seq(Int)
  PROVE  /\ ~Cut => (InOrder <=> Len(OnTheWay) <= size + 1 /\ Counts(OnTheWay, 0))
         /\ Counts(OnTheWay, 0) => ~Cut
<1>1. Len(OnTheWay) \in Nat /\ (OnTheWay # <<>> => Len(OnTheWay) > 0)
  BY EmptySeq
<1>2. ASSUME Counts(OnTheWay, 0), Cut PROVE FALSE
  <2>1. OnTheWay[Len(OnTheWay)] = Len(OnTheWay) - 1
    <3>1. Len(OnTheWay) \in 1..Len(OnTheWay)
      BY <1>1, <1>2 DEF Cut
    <3> QED
      BY <1>1, <1>2, <3>1 DEF Counts
  <2> QED
    BY <1>1, <1>2, <2>1 DEF Cut, Last, Abort
<1>3. ASSUME ~Cut PROVE InOrder <=> Len(OnTheWay) <= size + 1 /\ Counts(OnTheWay, 0)
  <2>1. Uncut = Len(OnTheWay)
    BY <1>3 DEF Uncut
  <2>2. Counts(OnTheWay, 0) <=> \A k \in 1..Len(OnTheWay) : OnTheWay[k] = k - 1
    BY <1>1 DEF Counts
  <2> QED
    BY <2>1, <2>2 DEF InOrder
<1> QED
  BY <1>2, <1>3

AtWork == cp \in {"setup", "handshake", "ask", "endask", "recv", "store", "flush", "close"}
Streaming == sp \in {"fill", "write", "flush", "streamed"}

(* The bytes of the answer that have been made so far. *)
Made == IF kid = "none" THEN size + 1 ELSE printed

(* Where nothing of an answer can be left over, or begun. *)
Empties ==
  /\ cp \in {"start", "next", "lookup", "dial", "connect", "flush", "close"} => down = <<>>
  /\ cp \notin {"recv", "store", "flush", "failed", "finished"} => cbuf = <<>>
  /\ cp \in {"lookup", "dial", "connect", "setup", "handshake", "ask", "endask"} => got = <<>>
  /\ cp \in {"flush", "close"} => ended
  /\ Waiting \/ sp \in {"readto", "dispatch", "forked"} => OnTheWay = <<>>

(* What gurl has, what the network holds, the block of the server and the  *)
(* pipe or file continue each other, and together are all that was made,   *)
(* as long as no write has failed; behind one that has, nothing is sent.   *)
Flows ==
  /\ InOrder
  /\ sp # "accept" => ~Cut
  /\ sp = "forked" => Counts(input, 0) /\ Len(input) = printed
  /\ Streaming /\ CanWrite =>
       /\ Counts(buf, Len(OnTheWay))
       /\ Counts(input, Len(OnTheWay) + Len(buf))
       /\ Len(OnTheWay) + Len(buf) + Len(input) = Made
  /\ ended /\ AtWork => Hurt \/ Cut \/ Uncut = size + 1

Delivering == got \in Seq(Int) /\ Empties /\ Flows

LEMMA OnTheWayType ==
  ASSUME Typed, got \in Seq(Int)
  PROVE  OnTheWay \in Seq(Int) /\ Len(OnTheWay) \in Nat
BY DEF Typed, OnTheWay

LEMMA DeliveringInit == Init => Delivering
<1> SUFFICES ASSUME Init PROVE Delivering
  OBVIOUS
<1>1. /\ got = <<>> /\ cbuf = <<>> /\ down = <<>> /\ cp = "start" /\ sp = "accept" /\ size = -1
      /\ ended = FALSE /\ link = "none"
  BY DEF Init, SessionInit, RequestInit, ClientInit
<1>2. OnTheWay = <<>> /\ ~Cut /\ Uncut = 0
  BY <1>1 DEF OnTheWay, Cut, Uncut
<1>3. Empties
  BY <1>1, <1>2 DEF Empties, Waiting
<1>4. Flows
  BY <1>1, <1>2 DEF Flows, InOrder, Streaming
<1> QED
  BY <1>1, <1>3, <1>4 DEF Delivering

-----------------------------------------------------------------------------
Four(S, a, b, c, d) == a \in Seq(S) /\ b \in Seq(S) /\ c \in Seq(S) /\ d \in Seq(S)

LEMMA ConcatOfFour ==
  ASSUME NEW S, NEW a, NEW b, NEW c, NEW d, Four(S, a, b, c, d)
  PROVE  (a \o b) \o (c \o d) = ((a \o b) \o c) \o d
BY DEF Four

LEMMA MovesOn ==
  ASSUME NEW S, NEW a, NEW b, NEW c, NEW d, Four(S, a, b, c, d)
  PROVE  (a \o (b \o c)) \o d = (a \o b) \o (c \o d)
<1>1. (a \o b) \o c = a \o (b \o c)
  BY DEF Four
<1> QED
  BY <1>1, ConcatOfFour

LEMMA MovesOut ==
  ASSUME NEW S, NEW a, NEW b, NEW c, NEW d, Four(S, a, b, c, d)
  PROVE  ((a \o b) \o c) \o d = (a \o (b \o c)) \o d
<1>1. (a \o b) \o c = a \o (b \o c)
  BY DEF Four
<1> QED
  BY <1>1

LEMMA Regroups ==
  ASSUME NEW S, NEW a, NEW b, NEW c, NEW d, Four(S, a, b, c, d)
  PROVE  (a \o b) \o (c \o d) = a \o ((b \o c) \o d)
<1>1. a \o (b \o c) \o d = a \o ((b \o c) \o d)
  BY DEF Four
<1> QED
  BY <1>1, ConcatOfFour, MovesOn

(* Bytes that are sent come behind those that are on the way. *)
LEMMA Grows ==
  ASSUME NEW x, Four(Int, got, cbuf, down, x), down' = down \o x, UNCHANGED <<got, cbuf>>
  PROVE  OnTheWay' = OnTheWay \o x /\ Len(OnTheWay') = Len(OnTheWay) + Len(x)
<1>1. OnTheWay' = OnTheWay \o x
  BY ConcatOfFour DEF OnTheWay
<1>2. OnTheWay \in Seq(Int) /\ x \in Seq(Int)
  BY DEF Four, OnTheWay
<1> QED
  BY <1>1, <1>2, ConcatProperties

(* A 59 behind an answer that is in order. *)
LEMMA CutsShort ==
  ASSUME Typed, got \in Seq(Int), Counts(OnTheWay, 0),
         down' = Append(down, Abort), UNCHANGED <<got, cbuf>>
  PROVE  Cut' /\ Uncut' = Len(OnTheWay) /\ \A k \in 1..Uncut' : OnTheWay'[k] = k - 1
<1>1. <<Abort>> \in Seq(Int) /\ Len(<<Abort>>) = 1 /\ down' = down \o <<Abort>>
  <2>1. Abort \in Int
    BY DEF Abort
  <2> QED
    BY <2>1, AppendIsConcat DEF Typed
<1>2. OnTheWay' = OnTheWay \o <<Abort>> /\ Len(OnTheWay') = Len(OnTheWay) + 1
  <2>1. Four(Int, got, cbuf, down, <<Abort>>)
    BY <1>1 DEF Four, Typed
  <2> QED
    BY <1>1, <2>1, Grows
<1>3. OnTheWay \in Seq(Int) /\ Len(OnTheWay) \in Nat
  BY OnTheWayType
<1>4. OnTheWay'[Len(OnTheWay) + 1] = Abort
  BY <1>1, <1>2, <1>3, ConcatProperties
<1>5. Cut'
  BY <1>2, <1>3, <1>4 DEF Cut, Last
<1>6. Uncut' = Len(OnTheWay)
  BY <1>2, <1>3, <1>5 DEF Uncut
<1>7. ASSUME NEW k \in 1..Len(OnTheWay) PROVE OnTheWay'[k] = k - 1
  BY <1>1, <1>2, <1>3, ConcatProperties DEF Counts
<1> QED
  BY <1>5, <1>6, <1>7


LEMMA ServerKeepsEmpties ==
  ASSUME Held, Delivering, Server
  PROVE  Empties'
<1> USE DEF Held
<1>1. UNCHANGED client /\ UNCHANGED <<cp, cbuf, got>> /\ UNCHANGED hungup
  BY DEF Server, client, copy, Serves, Requests, TlsAccepts, TlsRefuses, ReadTo, ReadToFails,
         Refuses, OpensFile, StreamReads, StreamReadsNothing, StreamReadFails, StreamFlushes,
         WritesSome, WriteFails,
         FileSent, CgiGivesUp, CgiForks, CgiParent, CgiReaps, session
<1>2. CASE sp = "accept"
  <2>1. /\ UNCHANGED <<down, ended>>
        /\ \/ sp' = "readto" /\ Waiting /\ ~Waiting'
           \/ sp' = "accept" /\ ~Waiting'
    BY <1>2 DEF Server, Serves, Requests, TlsAccepts, TlsRefuses, ReadTo, ReadToFails,
         Refuses, OpensFile, StreamReads, StreamReadsNothing, StreamReadFails, StreamFlushes,
         WritesSome, WriteFails,
         FileSent, CgiGivesUp, CgiForks, CgiParent, CgiReaps, Waiting, request
  <2>2. UNCHANGED OnTheWay
    BY <1>1, <2>1 DEF OnTheWay
  <2> QED
    BY <1>1, <2>1, <2>2 DEF Delivering, Empties
<1>3. CASE sp # "accept"
  <2>a. ASSUME ReadTo \/ ReadToFails \/ Refuses \/ OpensFile \/ CgiGivesUp
        PROVE  /\ UNCHANGED link /\ (ended => ended') /\ sp \in {"readto", "dispatch"}
               /\ sp' \in {"readto", "dispatch", "forked"} => UNCHANGED down
    BY <2>a DEF ReadTo, ReadToFails, Refuses, OpensFile, StreamBegins, CgiGivesUp, Close, Aborts
  <2>b. ASSUME \/ StreamReads \/ StreamReadsNothing \/ StreamReadFails \/ StreamFlushes
               \/ WritesSome \/ WriteFails
        PROVE  /\ UNCHANGED link /\ (ended => ended')
               /\ sp' \notin {"readto", "dispatch", "forked"}
    BY <2>b DEF StreamReads, StreamReadsNothing, StreamReadFails, StreamFlushes, Writes,
                WritesSome, WriteFails, session, wire, Filled, Held
  <2>c. ASSUME FileSent \/ CgiForks \/ CgiParent \/ CgiReaps
        PROVE  /\ UNCHANGED link /\ (ended => ended')
               /\ sp' \in {"readto", "dispatch", "forked"} =>
                    sp \in {"readto", "dispatch"} /\ UNCHANGED down
    BY <2>c DEF FileSent, CgiForks, CgiParent, CgiReaps, StreamBegins, session, wire, Close, Aborts
  <2>d. ~TlsAccepts /\ ~TlsRefuses
    BY <1>3 DEF TlsAccepts, TlsRefuses
  <2>1. /\ UNCHANGED link /\ (ended => ended')
        /\ sp' \in {"readto", "dispatch", "forked"} =>
             sp \in {"readto", "dispatch"} /\ UNCHANGED down
    BY <2>a, <2>b, <2>c, <2>d DEF Server, Serves, Requests
  <2>2. cp \notin {"start", "next", "lookup", "dial", "connect", "flush", "close"} /\ ~Waiting
    BY <1>3 DEF Turns, Waiting
  <2>3. sp' \in {"readto", "dispatch", "forked"} => OnTheWay' = <<>>
    BY <1>1, <2>1 DEF Delivering, Empties, OnTheWay
  <2> QED
    BY <1>1, <2>1, <2>2, <2>3 DEF Delivering, Empties, Waiting
<1> QED
  BY <1>2, <1>3

(* The server closes, behind the last byte or with a 59. *)
LEMMA ClosingKeepsFlows ==
  ASSUME Typed, got \in Seq(Int), Counts(OnTheWay, 0), size' \in Int, sp' = "accept",
         UNCHANGED <<got, cbuf>>, Len(OnTheWay) <= size' + 1,
         \/ UNCHANGED down /\ (AtWork' => Hurt' \/ Len(OnTheWay) = size' + 1)
         \/ down' = Append(down, Abort)
  PROVE  Flows'
<1>1. OnTheWay \in Seq(Int) /\ Len(OnTheWay) \in Nat
  BY OnTheWayType
<1>w. ~(Streaming /\ CanWrite)' /\ sp' # "forked" /\ (sp # "accept" => ~Cut)' /\ size' \in Int
  BY DEF Streaming
<1>2. CASE UNCHANGED down /\ (AtWork' => Hurt' \/ Len(OnTheWay) = size' + 1)
  <2>1. UNCHANGED OnTheWay
    BY <1>2 DEF OnTheWay
  <2>2. ~Cut /\ ~Cut' /\ Uncut = Len(OnTheWay) /\ Uncut' = Len(OnTheWay)
    BY <1>1, <2>1, InOrderCounts DEF Cut, Uncut
  <2>3. InOrder'
    BY <1>1, <2>1, <2>2 DEF InOrder, Counts
  <2>4. AtWork' => Hurt' \/ Uncut' = size' + 1
    BY <1>2, <2>1, <2>2
  <2> QED
    BY <1>w, <2>3, <2>4 DEF Flows
<1>3. CASE down' = Append(down, Abort)
  <2>1. Cut' /\ Uncut' = Len(OnTheWay) /\ \A k \in 1..Uncut' : OnTheWay'[k] = k - 1
    BY <1>3, CutsShort
  <2>2. InOrder'
    BY <2>1 DEF InOrder
  <2> QED
    BY <1>w, <2>1, <2>2 DEF Flows
<1> QED
  BY <1>2, <1>3

-----------------------------------------------------------------------------
(* While a request is open, nothing has cut the answer. *)
LEMMA OpenCounts ==
  ASSUME Held, Running, Delivering, sp # "accept"
  PROVE  /\ OnTheWay \in Seq(Int) /\ Len(OnTheWay) \in Nat /\ size \in Int /\ printed \in Int
         /\ ~Cut /\ Counts(OnTheWay, 0) /\ Len(OnTheWay) <= size + 1
         /\ sp \in {"readto", "dispatch"} => OnTheWay = <<>> /\ Len(OnTheWay) = 0 /\ size = -1
<1>1. OnTheWay \in Seq(Int) /\ Len(OnTheWay) \in Nat
  BY OnTheWayType DEF Held, Delivering
<1>2. size \in Int /\ printed \in Int
  BY DEF Running, TypeOK
<1>3. ~Cut /\ InOrder
  BY DEF Delivering, Flows
<1>4. Counts(OnTheWay, 0) /\ Len(OnTheWay) <= size + 1
  BY <1>1, <1>3, InOrderCounts
<1>5. sp \in {"readto", "dispatch"} => OnTheWay = <<>> /\ size = -1
  BY DEF Delivering, Empties, Running, KidRuns
<1> QED
  BY <1>1, <1>2, <1>3, <1>4, <1>5, EmptySeq

(* The server goes on, with a byte string behind what is on the way. *)
LEMMA OpenKeepsFlows ==
  ASSUME OnTheWay' \in Seq(Int), Counts(OnTheWay, 0)', Len(OnTheWay') <= size' + 1,
         sp' # "forked", ~ended',
         (Streaming /\ CanWrite)' => /\ Counts(buf, Len(OnTheWay))'
                                     /\ Counts(input, Len(OnTheWay) + Len(buf))'
                                     /\ (Len(OnTheWay) + Len(buf) + Len(input) = Made)'
  PROVE  Flows'
<1>1. (~Cut)' /\ InOrder'
  <2>1. Counts(OnTheWay', 0)
    BY DEF Counts
  <2>2. ~Cut'
    <3>1. Cut' <=> OnTheWay' # <<>> /\ OnTheWay'[Len(OnTheWay')] = Abort
      BY DEF Cut, Last
    <3>2. OnTheWay' # <<>> => Len(OnTheWay') \in 1..Len(OnTheWay')
      BY EmptySeq
    <3> QED
      BY <2>1, <3>1, <3>2 DEF Counts, Abort
  <2>3. Uncut' = Len(OnTheWay') /\ Len(OnTheWay') \in Nat
    BY <2>2 DEF Uncut
  <2> QED
    BY <2>1, <2>2, <2>3 DEF InOrder, Counts
<1> QED
  BY <1>1 DEF Flows

LEMMA ServerKeepsFlows ==
  ASSUME Held, Running, Delivering, Server
  PROVE  Flows'
<1> USE DEF Held, Running
<1>h. UNCHANGED hungup /\ UNCHANGED client /\ UNCHANGED <<cp, got, cbuf>>
  BY DEF Server, Serves, Requests, TlsAccepts, TlsRefuses, ReadTo, ReadToFails, Refuses,
         OpensFile, StreamReads, StreamReadsNothing, StreamReadFails, StreamFlushes,
         WritesSome, WriteFails,
         FileSent, CgiGivesUp, CgiForks, CgiParent, CgiReaps, session, client, copy
<1>b. (Hurt => Hurt') /\ (CanWrite' => CanWrite)
  BY FailuresStay
(* A response arrives, or it is known that it does not. *)
<1>r. ASSUME NEW status, Responds(status)
      PROVE  down' = Append(down, status) \/ (UNCHANGED down /\ Hurt' /\ ~CanWrite')
  BY <1>r DEF Responds, Breaks, Hurt, CanWrite
<1>t. /\ Typed /\ got \in Seq(Int) /\ OnTheWay \in Seq(Int) /\ Len(OnTheWay) \in Nat
      /\ size \in Int /\ printed \in Int
  BY OnTheWayType DEF Delivering, TypeOK
<1>l. Len(buf) \in Nat /\ Len(input) \in Nat /\ Block \in Nat /\ Block > 0 /\ Len(<<>>) = 0
  BY Lengths, Sizes
<1>s. UNCHANGED down => UNCHANGED OnTheWay
  BY <1>h DEF OnTheWay
<1>1. CASE TlsAccepts
  <2>1. /\ Waiting /\ UNCHANGED <<down, ended>> /\ size' = -1 /\ sp' = "readto"
    BY <1>1 DEF TlsAccepts, Waiting
  <2>2. OnTheWay = <<>> /\ UNCHANGED OnTheWay /\ ~ended'
    BY <1>s, <2>1 DEF Delivering, Empties, Turns, Waiting
  <2>3. Counts(OnTheWay, 0)'
    BY <2>2 DEF Counts
  <2> QED
    BY <1>t, <2>1, <2>2, <2>3, OpenKeepsFlows DEF Streaming
<1>2. CASE TlsRefuses
  <2>1. UNCHANGED <<down, ended, sp, size>> /\ sp = "accept"
    BY <1>2 DEF TlsRefuses, request
  <2>2. UNCHANGED <<Cut, Uncut, InOrder, AtWork>>
    BY <1>h, <1>s, <2>1 DEF Cut, Uncut, InOrder, AtWork
  <2> QED
    BY <1>b, <2>1, <2>2 DEF Delivering, Flows, Streaming
<1>3. CASE ReadTo
  <2>1. sp = "readto" /\ sp' \in {"readto", "dispatch"} /\ UNCHANGED <<down, ended, size>>
    BY <1>3 DEF ReadTo
  <2>2. OnTheWay' = <<>> /\ ~ended' /\ size' = -1
    BY <1>s, <2>1, OpenCounts DEF Turns
  <2>3. Counts(OnTheWay, 0)'
    BY <2>2 DEF Counts
  <2> QED
    BY <2>1, <2>2, <2>3, OpenKeepsFlows DEF Streaming
<1>4. CASE ReadToFails
  <2>1. sp = "readto" /\ sp' = "accept" /\ UNCHANGED <<down, size>>
    BY <1>4 DEF ReadToFails, Close
  <2>2. Counts(OnTheWay, 0) /\ Len(OnTheWay) = 0 /\ size' = -1
    BY <2>1, OpenCounts
  <2> QED
    BY <1>h, <1>t, <2>1, <2>2, ClosingKeepsFlows
<1>5. CASE Refuses
  <2>0. sp = "dispatch" /\ sp' = "accept" /\ size' = 0 /\ Responds(0)
    BY <1>5 DEF Refuses, Close
  <2>1. down' = Append(down, 0) \/ (UNCHANGED down /\ Hurt')
    BY <1>r, <2>0
  <2>2. OnTheWay = <<>> /\ Counts(OnTheWay, 0) /\ Len(OnTheWay) = 0
    BY <2>0, OpenCounts
  <2>3. CASE UNCHANGED down /\ Hurt'
    BY <1>h, <1>t, <2>0, <2>2, <2>3, ClosingKeepsFlows
  <2>4. CASE down' = Append(down, 0)
    <3>1. down' = down \o <<0>> /\ Four(Int, got, cbuf, down, <<0>>)
      BY <1>t, <2>4, AppendIsConcat DEF Typed, Four
    <3>2. OnTheWay' = OnTheWay \o <<0>>
      BY <1>h, <3>1, Grows
    <3>3. OnTheWay' = <<0>>
      BY <2>2, <3>2
    <3>4. (~Cut)' /\ Uncut' = 1
      BY <3>3 DEF Cut, Uncut, Last, Abort
    <3>5. InOrder'
      BY <2>0, <3>3, <3>4 DEF InOrder
    <3> QED
      BY <2>0, <3>4, <3>5 DEF Flows, Streaming
  <2> QED
    BY <2>1, <2>3, <2>4
<1>6. CASE OpensFile /\ UNCHANGED program
  <2>1. PICK n \in 0..MaxSize : size' = n /\ input' = [k \in 1..n |-> k]
    BY <1>6 DEF OpensFile
  <2>2. /\ sp = "dispatch" /\ sp' = "fill" /\ buf' = <<>>
        /\ down' = Append(down, 0) \/ (UNCHANGED down /\ ~CanWrite')
        /\ UNCHANGED <<ended, kid>>
    BY <1>6, <1>r DEF OpensFile, StreamBegins, program
  <2>3. OnTheWay = <<>> /\ Len(OnTheWay) = 0 /\ Counts(OnTheWay, 0) /\ kid = "none" /\ ~ended
    BY <2>2, OpenCounts DEF KidRuns, Turns
  <2>4. n \in Nat /\ Len(input') = n /\ Len(buf') = 0
    BY <2>1, <2>2, Sizes
  <2>5. CASE UNCHANGED down /\ ~CanWrite'
    <3>1. UNCHANGED OnTheWay /\ Len(OnTheWay') <= size' + 1
      BY <1>s, <2>1, <2>3, <2>4, <2>5
    <3>2. Counts(OnTheWay, 0)'
      BY <2>3, <3>1 DEF Counts
    <3> QED
      BY <1>t, <2>2, <2>3, <2>5, <3>1, <3>2, OpenKeepsFlows
  <2>6. CASE down' = Append(down, 0)
    <3>1. down' = down \o <<0>> /\ Four(Int, got, cbuf, down, <<0>>)
      BY <1>t, <2>6, AppendIsConcat DEF Typed, Four
    <3>2. OnTheWay' = OnTheWay \o <<0>>
      BY <1>h, <3>1, Grows
    <3>3. OnTheWay' = <<0>> /\ Len(OnTheWay') = 1 /\ OnTheWay' \in Seq(Int)
      BY <2>3, <3>2
    <3>4. Counts(OnTheWay, 0)' /\ Counts(buf, Len(OnTheWay))'
          /\ Counts(input, Len(OnTheWay) + Len(buf))'
      BY <2>1, <2>2, <2>4, <3>3 DEF Counts
    <3>5. (Len(OnTheWay) + Len(buf) + Len(input) = Made)'
      BY <2>1, <2>2, <2>3, <2>4, <3>3 DEF Made
    <3> QED
      BY <2>1, <2>2, <2>3, <2>4, <3>3, <3>4, <3>5, OpenKeepsFlows
  <2> QED
    BY <2>2, <2>5, <2>6
<1>7. CASE StreamReads /\ UNCHANGED program
  <2> DEFINE k == Min({Room, Len(input)})
  <2>1. /\ sp = "fill" /\ buf = <<>> /\ buf' = buf \o Take(input, k) /\ input' = Drop(input, k)
        /\ sp' = "write" /\ UNCHANGED <<down, ended, size, kid, printed>>
    BY <1>7 DEF StreamReads, Writes, Filled, session, wire, program
  <2>2. k \in 0..Len(input)
    <3>1. Room = Block
      BY <1>l, <2>1 DEF Room
    <3> QED
      BY <1>l, <3>1, MinOfTwo
  <2> HIDE DEF k
  <2>3. input \in Seq(Int)
    BY <1>t DEF Typed
  <2>4. buf' = Take(input, k) /\ Len(buf') = k /\ Len(input') = Len(input) - k
    BY <2>1, <2>2, <2>3, Splits
  <2>5. /\ Counts(OnTheWay, 0) /\ Len(OnTheWay) <= size + 1 /\ ~ended
        /\ CanWrite => Counts(input, Len(OnTheWay)) /\ Len(OnTheWay) + Len(input) = Made
    <3>1. Len(OnTheWay) + Len(buf) = Len(OnTheWay) /\ Len(buf) + Len(input) = Len(input)
          /\ Len(OnTheWay) + Len(buf) + Len(input) = Len(OnTheWay) + Len(input)
      BY <1>l, <1>t, <2>1
    <3>2. CanWrite => /\ Counts(input, Len(OnTheWay) + Len(buf))
                      /\ Len(OnTheWay) + Len(buf) + Len(input) = Made
      BY <2>1 DEF Delivering, Flows, Streaming
    <3> QED
      BY <2>1, <3>1, <3>2, OpenCounts DEF Turns
  <2>6. CanWrite => Counts(Take(input, k), Len(OnTheWay)) /\ Counts(Drop(input, k), Len(OnTheWay) + k)
    BY <1>t, <2>2, <2>3, <2>5, CountsSplit
  <2>7. UNCHANGED <<OnTheWay, Made>>
    BY <1>s, <2>1 DEF Made
  <2>8. /\ Counts(OnTheWay, 0)'
        /\ CanWrite => Counts(buf, Len(OnTheWay))' /\ Counts(input, Len(OnTheWay) + Len(buf))'
    BY <2>1, <2>4, <2>5, <2>6, <2>7 DEF Counts
  <2>9. CanWrite => (Len(OnTheWay) + Len(buf) + Len(input) = Made)'
    BY <1>t, <1>l, <2>2, <2>4, <2>5, <2>7
  <2> QED
    BY <1>b, <1>t, <2>1, <2>5, <2>7, <2>8, <2>9, OpenKeepsFlows
<1>8. CASE UNCHANGED program
           /\ (StreamReadsNothing \/ StreamReadFails \/ StreamFlushes \/ WriteFails)
  <2>1. /\ Streaming /\ sp # "accept" /\ sp' # "forked" /\ sp' # "accept"
        /\ UNCHANGED <<down, ended, size, kid, printed, buf, input>>
    BY <1>8 DEF StreamReadsNothing, StreamReadFails, StreamFlushes, WriteFails, Copies, session,
                wire, transfer, program, Streaming
  <2>2. UNCHANGED <<OnTheWay, Made>> /\ ~ended
    BY <1>s, <2>1 DEF Made, Turns
  <2>3. CanWrite => /\ Counts(buf, Len(OnTheWay)) /\ Counts(input, Len(OnTheWay) + Len(buf))
                    /\ Len(OnTheWay) + Len(buf) + Len(input) = Made
    BY <2>1 DEF Delivering, Flows
  <2>4. /\ Counts(OnTheWay, 0)'
        /\ CanWrite => /\ Counts(buf, Len(OnTheWay))' /\ Counts(input, Len(OnTheWay) + Len(buf))'
                       /\ (Len(OnTheWay) + Len(buf) + Len(input) = Made)'
    BY <2>1, <2>2, <2>3, OpenCounts DEF Counts
  <2>5. OnTheWay' \in Seq(Int) /\ Len(OnTheWay') <= size' + 1 /\ ~ended'
    BY <1>t, <2>1, <2>2, OpenCounts
  <2> QED
    BY <1>b, <2>1, <2>4, <2>5, OpenKeepsFlows
<1>9. CASE WritesSome /\ UNCHANGED program
  <2>1. /\ sp = "write" /\ sp' = "fill" /\ CanWrite /\ at = 0 /\ rest = Len(buf) /\ buf' = Unwritten(Len(buf))
        /\ down' = down \o [j \in 1..rest |-> ByteAt(at + j)]
        /\ UNCHANGED <<ended, size, input, kid, printed>>
    <3>1. /\ rest' = 0 /\ down' = down \o [j \in 1..rest |-> ByteAt(at + j)]
      BY <1>l, <1>9 DEF WritesSome, Accepted, Filled
    <3> QED
      BY <1>9, <3>1 DEF WritesSome, Copies, Filled, program
  <2>2. buf \in Seq(Int) /\ buf' = <<>> /\ Len(buf') = 0
    <3>1. buf \in Seq(Int)
      BY <1>t DEF Typed
    <3> QED
      BY <1>l, <2>1, <3>1, SubSeqEmpty DEF Unwritten, Drop
  <2>3. [j \in 1..rest |-> ByteAt(at + j)] = buf
    <3>1. \A j \in 1..rest : ByteAt(at + j) = buf[j]
      BY <1>l, <2>1 DEF ByteAt
    <3>2. buf = [j \in 1..Len(buf) |-> buf[j]]
      BY <2>2
    <3> QED
      BY <2>1, <3>1, <3>2
  <2>4. OnTheWay' = OnTheWay \o buf /\ Len(OnTheWay') = Len(OnTheWay) + Len(buf)
    <3>1. Four(Int, got, cbuf, down, buf) /\ down' = down \o buf
      BY <1>t, <2>1, <2>3 DEF Typed, Four
    <3> QED
      BY <1>h, <3>1, Grows
  <2>5. /\ Counts(buf, Len(OnTheWay)) /\ Counts(input, Len(OnTheWay) + Len(buf))
        /\ Len(OnTheWay) + Len(buf) + Len(input) = Made
    BY <2>1 DEF Delivering, Flows, Streaming
  <2>6. OnTheWay' \in Seq(Int) /\ Counts(OnTheWay, 0)'
    <3>1. Counts(OnTheWay, 0) /\ 0 + Len(OnTheWay) = Len(OnTheWay)
      BY <1>t, <2>1, OpenCounts
    <3>2. Counts(OnTheWay \o buf, 0)
      BY <1>t, <2>2, <2>5, <3>1, CountsJoin
    <3>3. OnTheWay \o buf \in Seq(Int)
      BY <1>t, <2>2, ConcatProperties
    <3> QED
      BY <2>4, <3>2, <3>3 DEF Counts
  <2>7. /\ Counts(buf, Len(OnTheWay))' /\ Counts(input, Len(OnTheWay) + Len(buf))'
        /\ (Len(OnTheWay) + Len(buf) + Len(input) = Made)'
    <3>1. Len(OnTheWay') + Len(buf') = Len(OnTheWay) + Len(buf)
      BY <1>l, <1>t, <2>2, <2>4
    <3>2. UNCHANGED Made
      BY <2>1 DEF Made
    <3>3. Counts(buf, Len(OnTheWay))'
      BY <2>2 DEF Counts
    <3>4. Counts(input, Len(OnTheWay) + Len(buf))'
      BY <2>1, <2>5, <3>1 DEF Counts
    <3>5. (Len(OnTheWay) + Len(buf) + Len(input) = Made)'
      BY <2>1, <2>5, <3>1, <3>2
    <3> QED
      BY <3>3, <3>4, <3>5
  <2>8. Len(OnTheWay') <= size' + 1
    <3>1. Made <= size + 1
      <4>1. kid \in {"none", "starting", "running", "exited"}
        BY DEF TypeOK
      <4> QED
        BY <1>t, <4>1 DEF Made, KidRuns
    <3> QED
      BY <1>l, <1>t, <2>1, <2>4, <2>5, <3>1 DEF Made
  <2>9. ~ended'
    BY <2>1 DEF Turns
  <2> QED
    BY <2>1, <2>6, <2>7, <2>8, <2>9, OpenKeepsFlows
<1>10. CASE kid = "none" /\ FileSent
  <2>1. sp = "streamed" /\ sp' = "accept" /\ UNCHANGED <<down, size>>
    BY <1>10 DEF FileSent, Close
  <2>2. rc = 0 /\ CanWrite => Len(OnTheWay) = size + 1
    BY <1>l, <1>t, <1>10, <2>1 DEF Delivering, Flows, Streaming, Made, Copies
  <2>3. rc # 0 \/ ~CanWrite => Hurt
    BY <2>1 DEF Copies, CanWrite, Hurt
  <2>4. Counts(OnTheWay, 0) /\ Len(OnTheWay) <= size + 1
    BY <2>1, OpenCounts
  <2> QED
    BY <1>b, <1>h, <1>t, <2>1, <2>2, <2>3, <2>4, ClosingKeepsFlows
<1>11. CASE CgiGivesUp
  <2>1. /\ sp = "dispatch" /\ sp' = "accept" /\ UNCHANGED size
        /\ down' = Append(down, Abort) \/ (UNCHANGED down /\ Hurt')
    BY <1>11, <1>r DEF CgiGivesUp, Aborts, Close
  <2>2. Counts(OnTheWay, 0) /\ Len(OnTheWay) <= size + 1
    BY <2>1, OpenCounts
  <2> QED
    BY <1>h, <1>t, <2>1, <2>2, ClosingKeepsFlows
<1>12. CASE CgiForks
  <2>1. /\ sp = "dispatch" /\ sp' = "forked" /\ input' = <<>> /\ printed' = 0
        /\ UNCHANGED <<down, ended, size>>
    BY <1>12 DEF CgiForks, session, wire
  <2>2. OnTheWay = <<>> /\ UNCHANGED OnTheWay /\ size = -1 /\ ~ended
    BY <1>s, <2>1, OpenCounts DEF Turns
  <2>3. (~Cut)' /\ Uncut' = 0
    BY <2>2 DEF Cut, Uncut
  <2>4. Len(input') = 0 /\ Counts(input, 0)'
    BY <2>1 DEF Counts
  <2> QED
    BY <2>1, <2>2, <2>3, <2>4 DEF Flows, InOrder, Streaming
<1>13. CASE CgiParent
  <2>1. /\ sp = "forked" /\ sp' = "fill" /\ buf' = <<>>
        /\ UNCHANGED <<down, ended, size, input, kid, printed>>
    BY <1>13 DEF CgiParent, StreamBegins, session, wire, program
  <2>2. OnTheWay = <<>> /\ UNCHANGED OnTheWay /\ ~ended /\ kid # "none"
        /\ Counts(input, 0) /\ Len(input) = printed
    BY <1>s, <2>1 DEF Delivering, Empties, Flows, Turns, KidRuns
  <2>3. Len(OnTheWay') = 0 /\ Len(buf') = 0 /\ Len(OnTheWay) = 0
    BY <2>1, <2>2
  <2>4. /\ Counts(OnTheWay, 0)' /\ Counts(buf, Len(OnTheWay))'
        /\ Counts(input, Len(OnTheWay) + Len(buf))'
        /\ (Len(OnTheWay) + Len(buf) + Len(input) = Made)'
    BY <1>l, <2>1, <2>2, <2>3 DEF Counts, Made
  <2>5. OnTheWay' \in Seq(Int) /\ Len(OnTheWay') <= size' + 1
    BY <1>t, <2>1, <2>2, OpenCounts
  <2> QED
    BY <2>1, <2>2, <2>4, <2>5, OpenKeepsFlows
<1>14. CASE CgiReaps
  <2>1. /\ sp = "streamed" /\ kid = "exited" /\ sp' = "accept" /\ UNCHANGED size
        /\ IF rc = 0 THEN UNCHANGED down
           ELSE down' = Append(down, Abort) \/ (UNCHANGED down /\ Hurt')
    BY <1>14, <1>r DEF CgiReaps, Aborts, Close
  <2>2. rc = 0 => Len(OnTheWay) = size + 1 \/ Hurt'
    <3>1. printed = size + 1 /\ Made = printed
      BY <2>1 DEF KidRuns, Made
    <3> QED
      BY <1>l, <1>t, <1>b, <2>1, <3>1 DEF Delivering, Flows, Streaming, Copies, CanWrite, Hurt
  <2>3. Counts(OnTheWay, 0) /\ Len(OnTheWay) <= size + 1
    BY <2>1, OpenCounts
  <2> QED
    BY <1>h, <1>t, <2>1, <2>2, <2>3, ClosingKeepsFlows
<1> QED
  BY <1>1, <1>2, <1>3, <1>4, <1>5, <1>6, <1>7, <1>8, <1>9, <1>10, <1>11, <1>12, <1>13, <1>14
     DEF Server, Serves, Requests

-----------------------------------------------------------------------------
LEMMA ProgramKeepsDelivering ==
  ASSUME Held, Running, Delivering, Program
  PROVE  Delivering'
<1> USE DEF Held, Running
<1>u. /\ UNCHANGED <<link, down, ended, sp, buf, cp, got, cbuf, broken>>
      /\ UNCHANGED <<OnTheWay, Cut, Uncut, AtWork, Streaming, Hurt, CanWrite>>
  <2>1. UNCHANGED <<link, down, ended, sp, buf, cp, got, cbuf, broken>>
    BY DEF Program, Kid, KidFails, KidExecutes, KidFlushes, KidWrites, KidPrints,
         KidExits, session, wire, transfer,
           client, copy
  <2> QED
    BY <2>1 DEF OnTheWay, Cut, Uncut, AtWork, Streaming, Hurt, CanWrite
<1>t. /\ OnTheWay \in Seq(Int) /\ Len(OnTheWay) \in Nat /\ Len(buf) \in Nat /\ Len(input) \in Nat
      /\ input \in Seq(Int) /\ printed \in Int /\ size \in Int
  BY OnTheWayType, Lengths DEF Delivering, Typed, TypeOK
<1>e. got' \in Seq(Int) /\ Empties'
  BY <1>u DEF Delivering, Empties, Waiting
<1>k. /\ sp # "accept" /\ sp \notin {"readto", "dispatch"} /\ kid # "none"
      /\ sp = "forked" \/ Streaming
  BY DEF Program, Kid, KidFails, KidExecutes, KidFlushes, KidWrites, KidPrints,
         KidExits,
         KidRuns, TypeOK, Streaming
<1>n. ~ended
  BY <1>k DEF Turns
(* Steps that print nothing. *)
<1>1. ASSUME UNCHANGED <<input, printed>>, kid' # "none", size' \in Int, Uncut <= size' + 1
      PROVE  Flows'
  <2>1. UNCHANGED Made
    BY <1>k, <1>1 DEF Made
  <2> QED
    BY <1>u, <1>n, <1>1, <2>1 DEF Delivering, Flows, InOrder, Counts
<1>2. CASE KidFails \/ KidExits
  <2>1. UNCHANGED <<input, printed, size>> /\ kid' = "exited"
    BY <1>2 DEF KidFails, KidExits
  <2>2. Uncut <= size' + 1
    BY <2>1 DEF Delivering, Flows, InOrder
  <2> QED
    BY <1>e, <1>t, <1>1, <2>1, <2>2 DEF Delivering
<1>3. CASE KidExecutes \/ KidFlushes
  <2>1. /\ UNCHANGED <<input, printed>> /\ kid' = "running" /\ kid = "starting"
        /\ size' \in -1..MaxSize
    BY <1>3, Sizes DEF KidExecutes, KidFlushes, KidWrites
  <2>2. Len(OnTheWay) <= size + 1 /\ size = -1 /\ ~Cut
    BY <1>k, <2>1, OpenCounts DEF KidRuns
  <2>3. Uncut <= size' + 1 /\ size' \in Int
    BY <1>t, <2>1, <2>2, Sizes DEF Uncut
  <2> QED
    BY <1>e, <1>1, <2>1, <2>3 DEF Delivering
<1>4. CASE KidPrints
  <2>1. /\ input' = Append(input, printed) /\ printed' = printed + 1 /\ UNCHANGED <<kid, size>>
    BY <1>4 DEF KidPrints
  <2>2. Len(input') = Len(input) + 1 /\ \A k \in 1..Len(input) : input'[k] = input[k]
    BY <1>t, <2>1, AppendProperties
  <2>3. input'[Len(input) + 1] = printed
    BY <1>t, <2>1, AppendProperties
  <2>4. ASSUME NEW a \in Int, Counts(input, a), a + Len(input) = printed
        PROVE  Counts(input', a)
    <3> SUFFICES ASSUME NEW k \in 1..Len(input') PROVE input'[k] = a + k - 1
      BY DEF Counts
    <3>1. CASE k <= Len(input)
      BY <1>t, <2>2, <2>4, <3>1 DEF Counts
    <3>2. CASE k = Len(input) + 1
      BY <1>t, <2>3, <2>4, <3>2
    <3> QED
      BY <1>t, <2>2, <3>1, <3>2
  <2>5. CASE sp = "forked"
    <3>1. Counts(input, 0) /\ Len(input) = printed
      BY <2>5 DEF Delivering, Flows
    <3>2. Counts(input', 0) /\ Len(input') = printed'
      BY <1>t, <2>1, <2>2, <2>4, <3>1
    <3> QED
      BY <1>e, <1>u, <1>n, <2>1, <2>5, <3>2 DEF Delivering, Flows, InOrder, Streaming, Counts
  <2>6. CASE Streaming
    <3>1. CanWrite => /\ Counts(input, Len(OnTheWay) + Len(buf))
                      /\ Len(OnTheWay) + Len(buf) + Len(input) = printed
      BY <1>k, <2>6 DEF Delivering, Flows, Made
    <3>2. CanWrite => Counts(input', Len(OnTheWay) + Len(buf))
      BY <1>t, <2>4, <3>1
    <3>3. CanWrite => Len(OnTheWay) + Len(buf) + Len(input') = Made'
      BY <1>k, <1>t, <2>1, <2>2, <3>1 DEF Made
    <3>4. sp # "forked"
      BY <2>6 DEF Streaming
    <3>5. (Streaming /\ CanWrite)' =>
            /\ Counts(buf, Len(OnTheWay))' /\ Counts(input, Len(OnTheWay) + Len(buf))'
            /\ (Len(OnTheWay) + Len(buf) + Len(input) = Made)'
      BY <1>u, <2>6, <3>2, <3>3 DEF Delivering, Flows, Counts
    <3> QED
      BY <1>e, <1>u, <1>n, <2>1, <3>4, <3>5 DEF Delivering, Flows, InOrder
  <2> QED
    BY <1>k, <2>5, <2>6
<1> QED
  BY <1>2, <1>3, <1>4 DEF Program, Kid

LEMMA GurlKeepsDelivering ==
  ASSUME Held, Running, Delivering, Asking
  PROVE  Delivering'
<1> USE DEF Held, Running
<1>u. UNCHANGED <<sp, size, input, buf, kid, printed>>
  BY DEF Asking, request, transfer, program
<1>b. cp' # "setup" => (Hurt => Hurt') /\ (CanWrite' => CanWrite)
  BY FailuresStay DEF Connected
<1>t. /\ got \in Seq(Int) /\ cbuf \in Seq(Int) /\ down \in Seq(Int)
      /\ OnTheWay \in Seq(Int) /\ Len(OnTheWay) \in Nat /\ size \in Int /\ size >= -1
      /\ Len(cbuf) \in Nat /\ Len(down) \in Nat
  BY OnTheWayType, Lengths DEF Delivering, Typed, TypeOK
(* What is on the way stays as it is, though it may move on. *)
<1>f. ASSUME UNCHANGED <<OnTheWay, ended>>, AtWork' => AtWork, cp' # "setup"
      PROVE  Flows'
  <2>1. UNCHANGED <<Cut, Uncut, Streaming, Made>>
    BY <1>u, <1>f DEF Cut, Uncut, Streaming, Made
  <2>2. InOrder'
    BY <1>u, <1>f, <2>1 DEF Delivering, Flows, InOrder
  <2> QED
    BY <1>u, <1>b, <1>f, <2>1, <2>2 DEF Delivering, Flows, Counts
(* There is nothing on the way. *)
<1>z. ASSUME OnTheWay' = <<>>, ~AtWork' \/ ~ended', sp = "accept"
      PROVE  Flows'
  <2>1. (~Cut)' /\ Uncut' = 0
    BY <1>z DEF Cut, Uncut
  <2> QED
    BY <1>u, <1>t, <1>z, <2>1 DEF Flows, InOrder, Streaming
<1>1. CASE Configures \/ Finishes \/ LookupFails \/ NoAddress \/ SetupFails \/ HandshakeFails
           \/ StoreFails
  <2>1. /\ UNCHANGED <<link, down, ended, cbuf, got>>
        /\ (cp = "start" /\ cp' = "next") \/ cp' \in {"failed", "finished"}
    BY <1>1 DEF Configures, Finishes, LookupFails, NoAddress, SetupFails, HandshakeFails,
                StoreFails, Fails, wire, copy
  <2>2. UNCHANGED OnTheWay /\ ~AtWork'
    BY <2>1 DEF OnTheWay, AtWork
  <2> QED
    BY <1>u, <1>f, <2>1, <2>2 DEF Delivering, Empties, Waiting
<1>2. CASE LooksUp \/ NoSocket \/ Dials \/ NotConnected
  <2>1. /\ UNCHANGED <<link, down, ended, cbuf, got>>
        /\ cp \in {"lookup", "dial", "connect"} /\ cp' \in {"dial", "connect"}
    BY <1>2 DEF LooksUp, NoSocket, Dials, NotConnected, session, wire, copy
  <2>2. UNCHANGED OnTheWay /\ ~AtWork'
    BY <2>1 DEF OnTheWay, AtWork
  <2> QED
    BY <1>u, <1>f, <2>1, <2>2 DEF Delivering, Empties, Waiting
<1>3. CASE Handshakes \/ SetsUp \/ AsksUrl \/ EndsLine
  <2>1. /\ UNCHANGED <<down, ended, got>> /\ (UNCHANGED cbuf \/ cbuf' = <<>>)
        /\ cp \in {"setup", "handshake", "ask", "endask"} /\ AtWork'
        /\ cp' \in {"handshake", "ask", "endask", "recv"}
        /\ UNCHANGED link \/ cp = "setup"
    BY <1>3 DEF Handshakes, SetsUp, AsksUrl, EndsLine, Greets, session, wire, copy, AtWork
  <2>2. cbuf = <<>> /\ got = <<>>
    BY <2>1 DEF Delivering, Empties
  <2>3. UNCHANGED cbuf
    BY <2>1, <2>2
  <2>4. UNCHANGED OnTheWay /\ AtWork
    BY <2>1, <2>3 DEF OnTheWay, AtWork
  <2>5. Waiting' => Waiting
    BY <2>1 DEF Turns, Waiting
  <2> QED
    BY <1>u, <1>f, <2>1, <2>2, <2>3, <2>4, <2>5 DEF Delivering, Empties
<1>4. CASE ReceivesEnd \/ Streamed \/ ResponseClose
  <2>1. /\ UNCHANGED <<link, down, ended, cbuf, got>>
        /\ \/ cp = "recv" /\ cp' \in {"store", "flush"} /\ (ClientRoom # 0 => down = <<>> /\ ended)
           \/ cp = "flush" /\ cp' = "close" /\ cbuf = <<>>
           \/ cp = "close" /\ cp' = "next"
    BY <1>4 DEF ReceivesEnd, Streamed, ResponseClose, FlushDone, session, wire, copy
  <2>2. UNCHANGED OnTheWay /\ AtWork
    BY <2>1 DEF OnTheWay, AtWork
  <2>3. cp = "recv" => ClientRoom # 0
    BY <1>t, Sizes DEF Filled, ClientRoom
  <2> QED
    BY <1>u, <1>f, <2>1, <2>2, <2>3 DEF Delivering, Empties, Waiting
<1>5. CASE Begins
  <2>1. /\ cp = "next" /\ cp' = "lookup" /\ got' = <<>>
        /\ UNCHANGED <<link, down, ended, cbuf>>
    BY <1>5 DEF Begins, session, wire
  <2>2. down = <<>> /\ cbuf = <<>> /\ sp = "accept" /\ ~Waiting
    BY <2>1 DEF Delivering, Empties, Turns
  <2>3. OnTheWay' = <<>> /\ ~AtWork'
    BY <2>1, <2>2 DEF OnTheWay, AtWork
  <2> QED
    BY <1>u, <1>z, <2>1, <2>2, <2>3 DEF Delivering, Empties, Waiting
<1>6. CASE Connected
  <2>1. /\ cp = "connect" /\ cp' = "setup" /\ down' = <<>> /\ ended' = FALSE
        /\ UNCHANGED <<cbuf, got>>
    BY <1>6 DEF Connected, Connects, copy
  <2>2. got = <<>> /\ cbuf = <<>> /\ sp = "accept"
    BY <2>1 DEF Delivering, Empties, Turns
  <2>3. OnTheWay' = <<>>
    BY <2>1, <2>2 DEF OnTheWay
  <2> QED
    BY <1>u, <1>z, <2>1, <2>2, <2>3 DEF Delivering, Empties
<1>7. CASE Receives
  <2>1. PICK nread \in 1..Min({ClientRoom, Len(down)}) :
          /\ cbuf' = cbuf \o Take(down, nread) /\ down' = Drop(down, nread)
    BY <1>7 DEF Receives
  <2>2. /\ cp = "recv" /\ cp' \in {"store", "recv"} /\ UNCHANGED <<link, ended, got>>
    BY <1>7 DEF Receives
  <2>3. nread \in 0..Len(down)
    <3>1. ClientRoom \in Nat /\ Len(down) \in Nat
      BY <1>t, Sizes DEF Filled, BuffersHold, ClientRoom
    <3>2. Min({ClientRoom, Len(down)}) \in 0..Len(down)
      BY <3>1, MinOfTwo
    <3> QED
      BY <3>1, <3>2
  <2>4. Take(down, nread) \o Drop(down, nread) = down
    BY <1>t, <2>3, Rejoins
  <2>5. Take(down, nread) \in Seq(Int) /\ Drop(down, nread) \in Seq(Int)
    BY <1>t, <2>3, Splits
  <2>6. UNCHANGED OnTheWay
    <3>1. OnTheWay' = (got \o (cbuf \o Take(down, nread))) \o Drop(down, nread)
      BY <2>1, <2>2 DEF OnTheWay
    <3>2. Four(Int, got, cbuf, Take(down, nread), Drop(down, nread))
      BY <1>t, <2>5 DEF Four
    <3>3. (got \o (cbuf \o Take(down, nread))) \o Drop(down, nread)
            = (got \o cbuf) \o (Take(down, nread) \o Drop(down, nread))
      BY <3>2, MovesOn
    <3> QED
      BY <2>4, <3>1, <3>3 DEF OnTheWay
  <2> QED
    BY <1>u, <1>f, <2>2, <2>6 DEF Delivering, Empties, Waiting, AtWork
<1>8. CASE Stores
  <2>1. PICK nwrit \in 1..Len(cbuf) : got' = got \o Take(cbuf, nwrit) /\ cbuf' = Drop(cbuf, nwrit)
    BY <1>8 DEF Stores, Rest
  <2>2. /\ (cp = "store" /\ cp' = "recv") \/ (cp = "flush" /\ cp' = "flush")
        /\ UNCHANGED <<link, down, ended>>
    <3>1. UNCHANGED <<link, down, ended>>
      BY <1>8 DEF Stores, session, wire
    <3>2. cp \in {"store", "flush"} /\ cp' = IF cp = "store" THEN "recv" ELSE "flush"
      BY <1>8 DEF Stores
    <3> QED
      BY <3>1, <3>2
  <2>3. nwrit \in 0..Len(cbuf)
    BY <1>t
  <2>4. Take(cbuf, nwrit) \o Drop(cbuf, nwrit) = cbuf
    BY <1>t, <2>3, Rejoins
  <2>5. Take(cbuf, nwrit) \in Seq(Int) /\ Drop(cbuf, nwrit) \in Seq(Int)
    BY <1>t, <2>3, Splits
  <2>6. UNCHANGED OnTheWay
    <3>1. OnTheWay' = ((got \o Take(cbuf, nwrit)) \o Drop(cbuf, nwrit)) \o down
      BY <2>1, <2>2 DEF OnTheWay
    <3>2. Four(Int, got, Take(cbuf, nwrit), Drop(cbuf, nwrit), down)
      BY <1>t, <2>5 DEF Four
    <3>3. ((got \o Take(cbuf, nwrit)) \o Drop(cbuf, nwrit)) \o down
            = (got \o (Take(cbuf, nwrit) \o Drop(cbuf, nwrit))) \o down
      BY <3>2, MovesOut
    <3> QED
      BY <2>4, <3>1, <3>3 DEF OnTheWay
  <2>7. got' \in Seq(Int)
    BY <1>t, <2>1, <2>5, ConcatProperties
  <2>8. cbuf' \in Seq(Int) /\ AtWork
    BY <2>1, <2>2, <2>5 DEF AtWork
  <2> QED
    BY <1>u, <1>f, <2>2, <2>6, <2>7, <2>8 DEF Delivering, Empties, Waiting
<1> QED
  BY <1>1, <1>2, <1>3, <1>4, <1>5, <1>6, <1>7, <1>8 DEF Asking, Gurl

LEMMA GlitchKeepsDelivering ==
  ASSUME Held, Running, Delivering, Glitch
  PROVE  Delivering'
<1>1. /\ cp' = "failed" /\ UNCHANGED <<link, down, ended, sp, size, input, buf, kid, printed,
                                      cbuf, got, broken>>
  BY DEF Glitch, ReceiveFails, Fails, wire, request, transfer, program, copy
<1>2. UNCHANGED <<OnTheWay, Cut, Uncut, Made, Waiting, Streaming, CanWrite>> /\ ~AtWork'
  BY <1>1 DEF OnTheWay, Cut, Uncut, AtWork, Made, Waiting, Streaming, CanWrite
<1>3. InOrder'
  BY <1>1, <1>2 DEF Delivering, Flows, InOrder
<1> QED
  BY <1>1, <1>2, <1>3 DEF Delivering, Empties, Flows, Counts

LEMMA DeliveringInvariant == Spec => []Delivering
<1>1. Held /\ Running /\ Delivering /\ [Next]_vars => Delivering'
  <2> SUFFICES ASSUME Held, Running, Delivering, [Next]_vars PROVE Delivering'
    OBVIOUS
  <2>1. CASE UNCHANGED vars
    <3>1. UNCHANGED <<OnTheWay, Cut, Uncut, Made, Waiting, Streaming, AtWork, InOrder, Hurt,
                      CanWrite>>
      BY <2>1 DEF vars, session, wire, request, transfer, program, client, copy,
                  OnTheWay, Cut, Uncut, Made, Waiting, Streaming, AtWork, InOrder, Hurt, CanWrite
    <3> QED
      BY <2>1, <3>1 DEF vars, session, wire, request, transfer, program, client, copy,
                        Delivering, Empties, Flows, Counts
  <2>2. CASE Server
    <3>1. UNCHANGED got
      BY <2>2 DEF Server, client, copy
    <3> QED
      BY <2>2, <3>1, ServerKeepsEmpties, ServerKeepsFlows DEF Delivering
  <2> QED
    BY <2>1, <2>2, ProgramKeepsDelivering, GurlKeepsDelivering, GlitchKeepsDelivering DEF Next
<1> QED
  BY <1>1, DeliveringInit, HeldInvariant, RunningInvariant, PTL DEF Spec

(* What gurl has got, or may still get, is the answer from its first byte  *)
(* on, in order, and behind it at most the byte of a 59, however the bytes *)
(* are cut on their way through pipe, blocks, network and partial writes.  *)
THEOREM DeliveredInOrderAlways == Spec => []DeliveredInOrder
<1>1. Held /\ Running /\ Delivering => DeliveredInOrder
  <2> SUFFICES ASSUME Held, Running, Delivering PROVE DeliveredInOrder
    OBVIOUS
  <2> DEFINE s == IF Cut THEN Front(OnTheWay) ELSE OnTheWay
  <2>1. OnTheWay \in Seq(Int) /\ Len(OnTheWay) \in Nat /\ size \in Int
    BY OnTheWayType DEF Held, Delivering, Running, TypeOK
  <2>2. Cut => Len(OnTheWay) > 0
    BY <2>1, EmptySeq DEF Cut
  <2>3. s \in Seq(Int) /\ Len(s) = Uncut /\ \A k \in 1..Len(s) : s[k] = OnTheWay[k]
    <3>1. CASE Cut
      <4>1. s = SubSeq(OnTheWay, 1, Len(OnTheWay) - 1) /\ Len(OnTheWay) > 0
        BY <2>2, <3>1 DEF Front
      <4>2. s \in Seq(Int) /\ Len(s) = Len(OnTheWay) - 1
            /\ \A k \in 1..Len(OnTheWay) - 1 : s[k] = OnTheWay[k]
        <5>1. s = Take(OnTheWay, Len(OnTheWay) - 1) /\ Len(OnTheWay) - 1 \in 0..Len(OnTheWay)
          BY <2>1, <4>1 DEF Take
        <5> HIDE DEF s
        <5> QED
          BY <2>1, <5>1, Splits, TakeElements
      <4> QED
        BY <3>1, <4>2 DEF Uncut
    <3> QED
      BY <2>1, <3>1 DEF Uncut
  <2>4. Len(s) <= size + 1 /\ \A k \in 1..Len(s) : s[k] = k - 1
    BY <2>3 DEF Delivering, Flows, InOrder
  <2>5. IsPrefix(s, Answer(size))
    <3> HIDE DEF s
    <3>1. Len(s) \in Nat /\ Answer(size) \in Seq(Int) /\ Len(Answer(size)) = size + 1
      BY <2>1, <2>3, <2>4 DEF Answer
    <3>2. SubSeq(s, 1, Len(s)) = s
      BY <2>3, SubSeqFull
    <3>3. SubSeq(Answer(size), 1, Len(s)) = s
      <4>1. /\ SubSeq(Answer(size), 1, Len(s)) \in Seq(Int)
            /\ Len(SubSeq(Answer(size), 1, Len(s))) = Len(s)
            /\ \A k \in 1..Len(s) : SubSeq(Answer(size), 1, Len(s))[k] = Answer(size)[k]
        BY <2>4, <3>1, SubSeqProperties
      <4>2. \A k \in 1..Len(s) : SubSeq(Answer(size), 1, Len(s))[k] = s[k]
        BY <2>1, <2>4, <3>1, <4>1 DEF Answer
      <4> QED
        BY <2>3, <4>1, <4>2, SeqEqual
    <3> QED
      BY <2>4, <3>1, <3>2, <3>3 DEF IsPrefix
  <2> QED
    BY <2>5 DEF DeliveredInOrder, Cut
<1> QED
  BY <1>1, HeldInvariant, RunningInvariant, DeliveringInvariant, PTL

(* Where gurl ends its copy without having seen a 59, and no read or write *)
(* of the server failed, it has all of the answer.                         *)
THEOREM DeliveredAlways == Spec => []Delivered
<1>1. Held /\ Running /\ Delivering => Delivered
  <2> SUFFICES ASSUME Held, Running, Delivering, cp = "close", ~Hurt, Abort \notin ToSet(got)
      PROVE  got = Answer(size)
    BY DEF Delivered
  <2>1. OnTheWay = got /\ ended /\ AtWork
    <3>1. cbuf = <<>> /\ down = <<>> /\ ended
      BY DEF Delivering, Empties
    <3> QED
      BY <3>1 DEF Delivering, OnTheWay, AtWork
  <2>2. got \in Seq(Int) /\ Len(got) \in Nat /\ size \in Int /\ size >= -1
    BY DEF Delivering, Running, TypeOK
  <2>3. ~Cut
    <3>1. got # <<>> => got[Len(got)] \in ToSet(got)
      <4>1. got # <<>> => Len(got) \in DOMAIN got
        BY <2>2, EmptySeq
      <4> QED
        BY <4>1 DEF ToSet
    <3> QED
      BY <2>1, <3>1 DEF Cut, Last
  <2>4. Len(got) = size + 1 /\ \A k \in 1..Len(got) : got[k] = k - 1
    BY <2>1, <2>3 DEF Delivering, Flows, Uncut, InOrder
  <2>5. got = [k \in 1..Len(got) |-> got[k]]
    BY <2>2
  <2> QED
    BY <2>4, <2>5 DEF Answer
<1> QED
  BY <1>1, HeldInvariant, RunningInvariant, DeliveringInvariant, PTL

-----------------------------------------------------------------------------
(* An argument of gurl is one line. *)
OneLine == \A u \in Asks : ~HasEnd(u.text)

(* What gurl has asked SSL_write() to send of its request, and what of it  *)
(* waits in records.                                                       *)
Sent == CASE cp \in {"handshake", "ask"} -> <<>>
          [] cp = "endask" -> Url.text
          [] OTHER -> Request
Second == IF Len(up) = 1 THEN <<>> ELSE up[2]
Pending == IF up = <<>> THEN <<>> ELSE up[1] \o Second

(* A write has failed, and neither it nor what came after it has arrived.  *)
Missing == "ask" \in broken /\ line \o Pending \in {<<>>, Url.text}

Talking == sp # "accept" \/ (link = "up" /\ AtWork)

(* The line and the records behind it are what gurl has written.  A line   *)
(* that has its end is the whole request; one that is dropped fills the    *)
(* buffer and has no end yet, unless a call for it has failed.             *)
Lines ==
  /\ Talking => line \o Pending = Sent \/ Missing
  /\ Len(up) <= 2
  /\ Waiting \/ (Talking /\ cp \in {"handshake", "ask"}) => up = <<>>
  /\ Talking /\ cp = "endask" => Len(up) <= 1
  /\ sp = "readto" => ~HasEnd(line)
  /\ sp \notin {"accept", "readto"} => line = Request
  /\ ended /\ AtWork => line = Request \/ Len(line) = MaxRequest - 1 \/ LineLost
  /\ sp # "accept" => asked # <<>> /\ (cp = "failed" \/ AtWork)
  /\ link = "hello" => cp = "handshake"
  /\ cp \in {"ask", "endask", "recv", "store", "flush", "close"} => link = "up"

LEMMA RequestType ==
  ASSUME Typed, asked # <<>>
  PROVE  /\ Url \in Asks /\ Url.text \in Seq(Letters) /\ Request \in Seq(Letters)
         /\ Len(Url.text) \in Nat /\ Len(Request) = Len(Url.text) + 2
         /\ \A k \in 1..Len(Url.text) : Request[k] = Url.text[k]
         /\ Request[Len(Url.text) + 1] = "CR"
<1>1. Url \in Asks /\ Url.text \in Seq(Letters)
  BY UrlText
<1>2. <<"CR", "LF">> \in Seq(Letters) /\ Len(<<"CR", "LF">>) = 2 /\ <<"CR", "LF">>[1] = "CR"
  BY DEF Letters
<1> DEFINE t == Url.text
           e == <<"CR", "LF">>
<1>3. t \in Seq(Letters) /\ e \in Seq(Letters) /\ Len(e) = 2 /\ e[1] = "CR" /\ Request = t \o e
  BY <1>1, <1>2 DEF Request
<1> HIDE DEF t, e
<1>4. /\ Request \in Seq(Letters) /\ Len(t) \in Nat /\ Len(Request) = Len(t) + 2
      /\ \A k \in 1..Len(t) : Request[k] = t[k]
      /\ Request[Len(t) + 1] = e[1]
  <2>1. Len(t) \in Nat /\ t \o e \in Seq(Letters) /\ Len(t \o e) = Len(t) + Len(e)
        /\ \A i \in 1..Len(t) + Len(e) : (t \o e)[i] = IF i <= Len(t) THEN t[i] ELSE e[i - Len(t)]
    <3>1. t \in Seq(Letters) /\ e \in Seq(Letters)
      BY <1>3
    <3> QED
      BY <3>1, ConcatProperties
  <2>2. Len(t) + 1 \in 1..Len(t) + Len(e) /\ ~(Len(t) + 1 <= Len(t)) /\ Len(t) + 1 - Len(t) = 1
        /\ \A k \in 1..Len(t) : k \in 1..Len(t) + Len(e) /\ k <= Len(t)
    BY <1>3, <2>1
  <2> QED
    BY <1>3, <2>1, <2>2
<1> QED
  BY <1>1, <1>3, <1>4 DEF t

(* Part of the request has its end only when it is all of it. *)
LEMMA EndIsTheEnd ==
  ASSUME OneLine, Typed, asked # <<>>, NEW s \in Seq(Letters), NEW r \in Seq(Letters),
         s \o r \in {<<>>, Url.text, Request}, HasEnd(s)
  PROVE  s = Request
<1> DEFINE t == Url.text
<1>1. /\ Url \in Asks /\ t \in Seq(Letters) /\ Request \in Seq(Letters)
      /\ Len(t) \in Nat /\ Len(Request) = Len(t) + 2
      /\ \A k \in 1..Len(t) : Request[k] = t[k]
      /\ Request[Len(t) + 1] = "CR"
  BY RequestType
<1>2. ~HasEnd(t)
  BY <1>1 DEF OneLine
<1> HIDE DEF t
<1>3. Len(s) \in Nat /\ Len(r) \in Nat /\ Len(s \o r) = Len(s) + Len(r)
      /\ \A k \in 1..Len(s) : (s \o r)[k] = s[k]
  BY ConcatProperties
<1>4. s \o r = t \/ s \o r = Request
  <2>1. s \o r # <<>>
    <3>1. Len(s) > 1
      BY <1>3 DEF HasEnd
    <3> QED
      BY <1>3, <3>1
  <2> QED
    BY <2>1 DEF t
<1>5. \A k \in 1..Len(s) : s[k] = Request[k]
  <2>1. CASE s \o r = t
    <3>0. Len(s \o r) = Len(t) /\ Len(r) >= 0
      BY <1>3, <2>1
    <3>1. Len(s) <= Len(t)
      BY <1>1, <1>3, <3>0
    <3>2. ASSUME NEW k \in 1..Len(s) PROVE s[k] = t[k] /\ t[k] = Request[k]
      <4>1. k \in 1..Len(t)
        BY <1>1, <1>3, <3>1
      <4>2. s[k] = (s \o r)[k]
        BY <1>3
      <4> QED
        BY <1>1, <2>1, <4>1, <4>2
    <3> QED
      BY <3>2
  <2>2. CASE s \o r = Request
    BY <1>3, <2>2
  <2> QED
    BY <1>4, <2>1, <2>2
<1>6. Len(s) <= Len(Request)
  BY <1>1, <1>3, <1>4
<1>7. PICK k \in 1..Len(s) - 1 : s[k] = "CR" /\ s[k + 1] = "LF"
  BY DEF HasEnd
<1>8. Request[k] = "CR" /\ Request[k + 1] = "LF" /\ k \in 1..Len(Request) - 1
  <2>1. k \in 1..Len(s) /\ k + 1 \in 1..Len(s)
    BY <1>3
  <2> QED
    BY <1>1, <1>3, <1>5, <1>6, <1>7, <2>1
<1>9. k = Len(t) + 1
  <2>1. k # Len(t)
    BY <1>1, <1>8
  <2>2. ~(k < Len(t))
    <3> SUFFICES ASSUME k < Len(t) PROVE FALSE
      OBVIOUS
    <3>1. k \in 1..Len(t) - 1 /\ k \in 1..Len(t) /\ k + 1 \in 1..Len(t)
      BY <1>1, <1>8
    <3>2. t[k] = "CR" /\ t[k + 1] = "LF"
      BY <1>1, <1>8, <3>1
    <3> QED
      BY <1>2, <3>1, <3>2 DEF HasEnd
  <2> QED
    BY <1>1, <1>8, <2>1, <2>2
<1>10. Len(s) = Len(Request)
  BY <1>1, <1>3, <1>6, <1>9
<1> QED
  BY <1>1, <1>5, <1>10, SeqEqual

LEMMA OneOrTwo ==
  ASSUME NEW n \in Nat, n # 0
  PROVE  (n <= 2 => n = 1 \/ n = 2) /\ (n <= 1 => n = 1)
OBVIOUS

LEMMA PendingType ==
  ASSUME Typed, Len(up) <= 2
  PROVE  /\ Pending \in Seq(Letters)
         /\ up # <<>> => up[1] \in Seq(Letters) /\ Second \in Seq(Letters)
<1>1. up \in Seq(Seq(Letters)) /\ Len(up) \in Nat
  BY DEF Typed
<1>2. CASE up = <<>>
  BY <1>2 DEF Pending
<1>3. CASE up # <<>>
  <2>1. Len(up) = 1 \/ Len(up) = 2
    <3>1. Len(up) # 0
      BY <1>1, <1>3, EmptySeq
    <3>2. Len(up) \in Nat /\ Len(up) <= 2
      BY <1>1
    <3> QED
      BY <3>1, <3>2, OneOrTwo
  <2>2. up[1] \in Seq(Letters) /\ (Len(up) = 2 => up[2] \in Seq(Letters))
    BY <1>1, <2>1
  <2>3. Second \in Seq(Letters)
    BY <2>1, <2>2 DEF Second
  <2> QED
    BY <1>3, <2>2, <2>3, ConcatProperties DEF Pending
<1> QED
  BY <1>2, <1>3

-----------------------------------------------------------------------------
LEMMA LinesInit == Init => Lines
<1> SUFFICES ASSUME Init PROVE Lines
  OBVIOUS
<1>1. /\ up = <<>> /\ sp = "accept" /\ link = "none" /\ ended = FALSE /\ cp = "start"
  BY DEF Init, SessionInit, RequestInit, ClientInit
<1> QED
  BY <1>1 DEF Lines, Talking, Waiting

(* A record is read as far as there is room for it. *)
LEMMA ReadToMoves ==
  ASSUME Typed, Filled, Len(up) <= 2, ReadTo
  PROVE  /\ line' \o Pending' = line \o Pending /\ Len(up') <= Len(up)
         /\ line' \in Seq(Letters) /\ Pending' \in Seq(Letters)
<1> DEFINE h == Head(up)
           k == Min({LineRoom, Len(h)})
<1>1. up # <<>> /\ LineRoom > 0 /\ line' = line \o Take(h, k)
      /\ up' = IF k < Len(h) THEN <<Drop(h, k)>> \o Tail(up) ELSE Tail(up)
  BY DEF ReadTo, Stored
<1>2. /\ line \in Seq(Letters) /\ Len(line) \in Nat /\ up \in Seq(Seq(Letters)) /\ Len(up) \in Nat
      /\ h = up[1] /\ h \in Seq(Letters) /\ Len(h) \in Nat /\ Second \in Seq(Letters)
  <2>1. up[1] \in Seq(Letters) /\ Second \in Seq(Letters)
    BY <1>1, PendingType
  <2>2. up \in Seq(Seq(Letters)) /\ line \in Seq(Letters) /\ Len(up) \in Nat /\ Len(line) \in Nat
    BY DEF Typed
  <2>3. h = up[1]
    BY <1>1, <2>2, HeadTailProperties
  <2> QED
    BY <2>1, <2>2, <2>3
<1>3. k \in 0..Len(h)
  <2>1. LineRoom \in Nat
    BY <1>2, Sizes DEF LineRoom, Filled, BuffersHold
  <2> QED
    BY <1>2, <2>1, MinOfTwo
<1> HIDE DEF k
<1>4. /\ Take(h, k) \in Seq(Letters) /\ Drop(h, k) \in Seq(Letters)
      /\ Take(h, k) \o Drop(h, k) = h /\ Len(Drop(h, k)) = Len(h) - k
  BY <1>2, <1>3, Splits, Rejoins
<1>5. Len(up) = 1 \/ Len(up) = 2
  <2>1. Len(up) # 0
    BY <1>1, <1>2, EmptySeq
  <2> QED
    BY <1>2, <2>1, OneOrTwo
<1>6. /\ Tail(up) \in Seq(Seq(Letters)) /\ Len(Tail(up)) = Len(up) - 1
      /\ Len(up) = 1 => Tail(up) = <<>>
      /\ Len(up) = 2 => Tail(up)[1] = up[2] /\ Tail(up) # <<>>
  <2>1. /\ Tail(up) \in Seq(Seq(Letters)) /\ Len(Tail(up)) = Len(up) - 1
        /\ \A i \in 1..Len(Tail(up)) : Tail(up)[i] = up[i + 1]
    BY <1>1, <1>2, HeadTailProperties
  <2> QED
    BY <1>2, <1>5, <2>1, EmptySeq
<1> DEFINE d == Drop(h, k)
<1>7. Pending' = d \o Second /\ Len(up') <= Len(up)
  <2>1. CASE k < Len(h)
    <3>1. up' = <<d>> \o Tail(up) /\ <<d>> \in Seq(Seq(Letters)) /\ Len(<<d>>) = 1 /\ <<d>>[1] = d
      BY <1>1, <1>4, <2>1
    <3> HIDE DEF d
    <3>2. /\ Len(up') = Len(up) /\ up'[1] = d /\ (Len(up) = 2 => up'[2] = Tail(up)[1])
      <4>1. /\ Len(<<d>> \o Tail(up)) = 1 + Len(Tail(up))
            /\ \A i \in 1..1 + Len(Tail(up)) :
                 (<<d>> \o Tail(up))[i] = IF i <= 1 THEN <<d>>[i] ELSE Tail(up)[i - 1]
        BY <1>6, <3>1, ConcatProperties
      <4> QED
        BY <1>2, <1>5, <1>6, <3>1, <4>1
    <3>3. up' # <<>>
      BY <1>5, <3>2
    <3>4. Second' = Second
      BY <1>5, <1>6, <3>2 DEF Second
    <3> QED
      BY <3>2, <3>3, <3>4 DEF Pending
  <2>2. CASE k = Len(h)
    <3>1. up' = Tail(up) /\ d = <<>>
      BY <1>1, <1>2, <1>4, <2>2, EmptySeq
    <3> HIDE DEF d
    <3>2. CASE Len(up) = 1
      BY <1>6, <3>1, <3>2 DEF Pending, Second
    <3>3. CASE Len(up) = 2
      <4>1. Second = up[2] /\ up[2] \in Seq(Letters) /\ Len(up') = 1 /\ up' # <<>> /\ up'[1] = up[2]
        BY <1>2, <1>6, <3>1, <3>3 DEF Second
      <4>2. Pending' = up[2] \o <<>> /\ d \o Second = <<>> \o up[2]
        BY <3>1, <4>1 DEF Pending, Second
      <4> QED
        BY <3>3, <4>1, <4>2, ConcatEmptySeq
    <3> QED
      BY <1>5, <3>2, <3>3
  <2> QED
    BY <1>2, <1>3, <2>1, <2>2
<1>8. line' \o Pending' = line \o Pending
  <2>1. Pending = h \o Second
    BY <1>1, <1>2 DEF Pending
  <2>2. Four(Letters, line, Take(h, k), Drop(h, k), Second)
    BY <1>2, <1>4 DEF Four
  <2>3. (line \o Take(h, k)) \o (Drop(h, k) \o Second)
          = line \o ((Take(h, k) \o Drop(h, k)) \o Second)
    BY <2>2, Regroups
  <2> QED
    BY <1>1, <1>4, <1>7, <2>1, <2>3
<1>9. line' \in Seq(Letters) /\ Pending' \in Seq(Letters)
  BY <1>1, <1>2, <1>4, <1>7, ConcatProperties
<1> QED
  BY <1>7, <1>8, <1>9

LEMMA ServerKeepsLines ==
  ASSUME OneLine, Held, Running, Lines, Server
  PROVE  Lines'
<1> USE DEF Held
<1>h. UNCHANGED client /\ UNCHANGED <<hungup, cp, asked, AtWork, Sent, Request>>
  BY DEF Server, Serves, Requests, TlsAccepts, TlsRefuses, ReadTo, ReadToFails, Refuses,
         OpensFile, StreamReads, StreamReadsNothing, StreamReadFails, StreamFlushes,
         WritesSome, WriteFails,
         FileSent, CgiGivesUp, CgiForks, CgiParent, CgiReaps, session, client, AtWork, Sent,
         Request, Url
<1>p. UNCHANGED up => UNCHANGED <<Pending, Second>>
  BY DEF Pending, Second
<1>b. (LineLost => LineLost') /\ ("ask" \in broken' <=> "ask" \in broken) /\ UNCHANGED Url
  BY <1>h, FailuresStay, ServerBreaks DEF client, Url
<1>m. UNCHANGED <<line, up>> => UNCHANGED Missing
  BY <1>b, <1>p DEF Missing
<1>1. CASE TlsAccepts
  <2>1. /\ link = "hello" /\ link' = "up" /\ sp = "accept" /\ sp' = "readto" /\ line' = <<>>
        /\ UNCHANGED <<up, ended>>
    BY <1>1 DEF TlsAccepts
  <2>2. up = <<>> /\ cp = "handshake" /\ ~ended /\ asked # <<>>
    BY <2>1 DEF Lines, Turns, Waiting, Typed
  <2>3. Pending' = <<>> /\ Sent' = <<>> /\ AtWork'
    BY <1>h, <2>1, <2>2 DEF Pending, Sent, AtWork
  <2>4. ~HasEnd(line')
    BY <2>1 DEF HasEnd
  <2> QED
    BY <1>h, <2>1, <2>2, <2>3, <2>4 DEF Lines, Talking, Waiting
<1>2. CASE TlsRefuses
  <2>1. link \in {"hello", "queued"} /\ link' = "refused" /\ sp = "accept"
        /\ UNCHANGED <<up, ended, sp, line>>
    BY <1>2 DEF TlsRefuses, request
  <2> QED
    BY <1>b, <1>h, <1>m, <1>p, <2>1 DEF Lines, Talking, Waiting, Turns
<1>3. CASE ReadTo
  <2>1. /\ sp = "readto" /\ sp' = IF HasEnd(line') THEN "dispatch" ELSE "readto"
        /\ UNCHANGED <<link, ended>> /\ link = "up" /\ ~ended /\ up # <<>>
    BY <1>3 DEF ReadTo, Turns
  <2>2. /\ line' \o Pending' = Sent' \/ Missing'
        /\ Len(up') <= Len(up)
        /\ line' \in Seq(Letters) /\ Pending' \in Seq(Letters)
    <3>1. line \o Pending = Sent \/ Missing
      BY <2>1 DEF Lines, Talking
    <3>2. /\ line' \o Pending' = line \o Pending /\ Len(up') <= Len(up)
          /\ line' \in Seq(Letters) /\ Pending' \in Seq(Letters)
      BY <1>3, ReadToMoves DEF Lines
    <3> QED
      BY <1>b, <1>h, <3>1, <3>2 DEF Missing
  <2>3. HasEnd(line') => line' = Request'
    <3>1. asked # <<>> /\ cp \notin {"handshake", "ask"}
      BY <2>1 DEF Lines, Talking
    <3>2. line' \o Pending' \in {<<>>, Url.text, Request}
      BY <1>b, <1>h, <2>2, <3>1 DEF Sent, Missing
    <3> QED
      BY <1>h, <2>2, <3>1, <3>2, EndIsTheEnd
  <2>4. Len(up) \in Nat /\ Len(up') \in Nat
    <3>1. Typed'
      BY <1>3, ServerKeepsHeld
    <3> QED
      BY <3>1, Lengths DEF Typed
  <2> QED
    BY <1>b, <1>h, <2>1, <2>2, <2>3, <2>4 DEF Lines, Talking, Waiting
<1>4. CASE ReadToFails
  <2>1. /\ sp = "readto" /\ sp' = "accept" /\ UNCHANGED <<link, up, line>> /\ link = "up"
        /\ LineLost' \/ LineRoom = 0
    BY <1>4 DEF ReadToFails, Close, Turns, Breaks, LineLost
  <2>3. LineRoom = 0 => Len(line) = MaxRequest - 1
    BY Lengths, Sizes DEF LineRoom
  <2> QED
    BY <1>b, <1>h, <1>m, <1>p, <2>1, <2>3 DEF Lines, Talking, Waiting
(* The other steps come behind the line, or leave the request. *)
<1>5. ASSUME sp \notin {"accept", "readto"}, sp' # "readto", UNCHANGED <<link, up, line>>
      PROVE  Lines'
  BY <1>b, <1>h, <1>m, <1>p, <1>5 DEF Lines, Talking, Waiting
<1>6. CASE \/ Refuses \/ OpensFile \/ StreamReads \/ StreamReadsNothing \/ StreamReadFails
           \/ StreamFlushes \/ WriteFails \/ FileSent \/ CgiGivesUp \/ CgiForks \/ CgiParent \/ CgiReaps
  <2>1. sp \notin {"accept", "readto"} /\ sp' # "readto" /\ UNCHANGED <<link, up, line>>
    BY <1>6 DEF Refuses, OpensFile, StreamBegins, StreamReads, StreamReadsNothing,
         StreamReadFails, StreamFlushes, Writes, WriteFails, FileSent, CgiGivesUp, CgiForks, CgiParent, CgiReaps, Aborts, Close,
         session, wire
  <2> QED
    BY <1>5, <2>1
<1>7. CASE WritesSome
  <2>1. sp' \in {"write", back} /\ sp = "write" /\ UNCHANGED <<link, up, line>>
    BY <1>7 DEF WritesSome
  <2> QED
    BY <1>5, <2>1 DEF Filled
<1> QED
  BY <1>1, <1>2, <1>3, <1>4, <1>6, <1>7 DEF Server, Serves, Requests

LEMMA GurlKeepsLines ==
  ASSUME Held, Running, Lines, Asking
  PROVE  Lines'
<1> USE DEF Held
<1>u. UNCHANGED <<sp, line>>
  BY DEF Asking, request, transfer
<1>p. UNCHANGED up => UNCHANGED <<Pending, Second>>
  BY DEF Pending, Second
<1>r. UNCHANGED asked => UNCHANGED <<Request, Url>>
  BY DEF Request, Url
<1>b. cp' # "setup" => ("ask" \in broken => "ask" \in broken') /\ (LineLost => LineLost')
  BY ClientBreaks, FailuresStay DEF Connected
<1>m. cp' # "setup" /\ UNCHANGED <<up, asked>> => (Missing => Missing')
  BY <1>b, <1>p, <1>r, <1>u DEF Missing
<1>1. CASE \/ Configures \/ Finishes \/ LookupFails \/ NoAddress \/ LooksUp \/ NoSocket
           \/ Dials \/ NotConnected \/ ResponseClose
  <2>1. /\ UNCHANGED <<link, up, ended>>
        /\ cp \in {"start", "next", "lookup", "dial", "connect", "close"}
        /\ cp' \in {"next", "failed", "finished", "dial", "connect"}
    BY <1>1 DEF Configures, Finishes, LookupFails, NoAddress, LooksUp, NoSocket, Dials,
                NotConnected, ResponseClose, Fails, session, wire
  <2>2. sp = "accept" /\ ~Waiting /\ ~AtWork'
    BY <2>1 DEF Turns, AtWork
  <2> QED
    BY <1>u, <2>1, <2>2 DEF Lines, Talking, Waiting
<1>2. CASE SetupFails \/ HandshakeFails
  <2>1. /\ UNCHANGED <<link, up, ended>> /\ cp' = "failed"
        /\ cp = "setup" \/ (cp = "handshake" /\ link = "refused")
    BY <1>2 DEF SetupFails, HandshakeFails, Fails, wire
  <2>2. sp = "accept" /\ link # "hello" /\ ~AtWork'
    BY <2>1 DEF Turns, Waiting, AtWork
  <2> QED
    BY <1>u, <2>1, <2>2 DEF Lines, Talking, Waiting
<1>3. CASE Begins
  <2>1. cp = "next" /\ cp' = "lookup" /\ UNCHANGED <<link, up, ended>>
    BY <1>3 DEF Begins, session, wire
  <2>2. sp = "accept" /\ ~Waiting /\ ~AtWork'
    BY <2>1 DEF Turns, AtWork
  <2> QED
    BY <1>u, <2>1, <2>2 DEF Lines, Talking, Waiting
<1>4. CASE Connected
  <2>1. cp = "connect" /\ cp' = "setup" /\ link' = "queued" /\ up' = <<>> /\ ended' = FALSE
    BY <1>4 DEF Connected, Connects
  <2>2. sp = "accept" /\ Len(up') = 0
    BY <2>1 DEF Turns
  <2> QED
    BY <1>u, <2>1, <2>2 DEF Lines, Talking
<1>5. CASE SetsUp
  <2>1. cp = "setup" /\ cp' = "handshake" /\ link' = "hello" /\ UNCHANGED <<up, ended>>
    BY <1>5 DEF SetsUp, Greets
  <2>2. Waiting /\ sp = "accept" /\ ~ended
    BY <2>1 DEF Turns, Waiting
  <2> QED
    BY <1>u, <2>1, <2>2 DEF Lines, Talking
<1>6. CASE Handshakes
  <2>1. cp = "handshake" /\ cp' = "ask" /\ link = "up" /\ UNCHANGED <<link, up, ended, asked>>
    BY <1>6 DEF Handshakes, session, wire
  <2>2. AtWork /\ AtWork' /\ Sent' = Sent
    BY <2>1 DEF AtWork, Sent
  <2> QED
    BY <1>u, <1>b, <1>m, <1>p, <1>r, <2>1, <2>2 DEF Lines, Talking, Waiting
<1>7. CASE AsksUrl
  <2>1. /\ cp = "ask" /\ cp' = "endask" /\ UNCHANGED <<link, ended, asked>>
        /\ \/ "ask" \notin broken /\ up' = Append(up, Url.text)
           \/ "ask" \in broken' /\ UNCHANGED up
    BY <1>7 DEF AsksUrl, Sends, Breaks
  <2>2. /\ AtWork /\ AtWork' /\ link = "up" /\ up = <<>>
        /\ line \o Pending = <<>> \/ Missing
    BY <2>1 DEF AtWork, Lines, Talking, Sent
  <2>3. CASE "ask" \notin broken /\ up' = Append(up, Url.text)
    <3>1. Url.text \in Seq(Letters) /\ line \in Seq(Letters) /\ line \o Pending = <<>>
      BY <2>1, <2>2, <2>3, UrlText DEF Typed, Missing
    <3>2. up' = <<Url.text>> /\ Len(up') = 1 /\ up' # <<>> /\ up'[1] = Url.text
      BY <2>2, <2>3, <3>1
    <3>3. line = <<>> /\ Pending' = Url.text
      <4>1. Pending = <<>> /\ Pending' = Url.text \o <<>>
        BY <2>2, <3>2 DEF Pending, Second
      <4> QED
        BY <3>1, <4>1, ConcatEmptySeq
    <3>4. line' \o Pending' = Sent'
      <4>1. Sent' = Url.text
        BY <1>r, <2>1 DEF Sent
      <4> QED
        BY <1>u, <3>1, <3>3, <4>1, ConcatEmptySeq
    <3> QED
      BY <1>b, <1>u, <1>r, <2>1, <2>2, <3>2, <3>4 DEF Lines, Talking, Waiting
  <2>4. CASE "ask" \in broken' /\ UNCHANGED up
    <3>1. Missing'
      BY <1>p, <1>r, <1>u, <2>1, <2>2, <2>4 DEF Missing
    <3> QED
      BY <1>b, <1>u, <1>r, <2>1, <2>2, <2>4, <3>1 DEF Lines, Talking, Waiting
  <2> QED
    BY <2>1, <2>3, <2>4
<1>8. CASE EndsLine
  <2> DEFINE e == <<"CR", "LF">>
  <2>1. /\ cp = "endask" /\ cp' = "recv" /\ UNCHANGED <<link, ended, asked>>
        /\ \/ "ask" \notin broken /\ up' = Append(up, e)
           \/ "ask" \in broken' /\ UNCHANGED up
    BY <1>8 DEF EndsLine, Sends, Breaks
  <2>2. /\ AtWork /\ AtWork' /\ link = "up" /\ Len(up) <= 1
        /\ line \o Pending = Url.text \/ Missing
    BY <2>1 DEF AtWork, Lines, Talking, Sent
  <2>3. e \in Seq(Letters) /\ line \in Seq(Letters) /\ up \in Seq(Seq(Letters)) /\ Len(up) \in Nat
        /\ Pending \in Seq(Letters)
    <3>1. e \in Seq(Letters)
      BY DEF Letters
    <3> QED
      BY <2>2, <3>1, PendingType, Lengths DEF Lines, Typed
  <2>s. Sent' = Url.text \o e
    BY <1>r, <2>1 DEF Sent, Request
  <2> HIDE DEF e
  <2>4. ASSUME up' = Append(up, e)
        PROVE  Pending' = Pending \o e /\ Len(up') <= 2
    <3>1. /\ Len(up') = Len(up) + 1 /\ up' # <<>> /\ up'[Len(up) + 1] = e
          /\ \A i \in 1..Len(up) : up'[i] = up[i]
      <4>1. /\ Append(up, e) # <<>> /\ Len(Append(up, e)) = Len(up) + 1
            /\ \A i \in 1..Len(up) : Append(up, e)[i] = up[i]
            /\ Append(up, e)[Len(up) + 1] = e
        BY <2>3, AppendProperties
      <4> QED
        BY <2>4, <4>1
    <3>2. CASE up = <<>>
      <4>1. Len(up') = 1 /\ up'[1] = e
        BY <3>1, <3>2
      <4>2. Pending = <<>> /\ Pending' = e \o <<>>
        BY <3>1, <3>2, <4>1 DEF Pending, Second
      <4> QED
        BY <2>3, <4>1, <4>2, ConcatEmptySeq
    <3>3. CASE up # <<>>
      <4>1. Len(up) = 1
        <5>1. Len(up) # 0
          BY <2>3, <3>3, EmptySeq
        <5> QED
          BY <2>2, <2>3, <5>1, OneOrTwo
      <4>2. up[1] \in Seq(Letters) /\ Len(up') = 2 /\ up'[1] = up[1] /\ up'[2] = e
        BY <2>3, <3>1, <4>1
      <4>3. Pending = up[1] \o <<>> /\ Pending' = up[1] \o e
        BY <3>1, <3>3, <4>1, <4>2 DEF Pending, Second
      <4> QED
        BY <4>2, <4>3, ConcatEmptySeq
    <3> QED
      BY <3>2, <3>3
  <2>5. CASE "ask" \notin broken /\ up' = Append(up, e)
    <3>1. line' \o Pending' = Sent'
      <4>1. (line \o Pending) \o e = line \o (Pending \o e)
        BY <2>3, ConcatAssociative
      <4>2. line \o Pending = Url.text
        BY <2>2, <2>5 DEF Missing
      <4> QED
        BY <1>u, <2>4, <2>5, <2>s, <4>1, <4>2
    <3> QED
      BY <1>b, <1>u, <1>r, <2>1, <2>2, <2>4, <2>5, <3>1 DEF Lines, Talking, Waiting
  <2>6. CASE "ask" \in broken' /\ UNCHANGED up
    <3>1. Missing'
      BY <1>p, <1>r, <1>u, <2>1, <2>2, <2>6 DEF Missing
    <3> QED
      BY <1>b, <1>u, <1>r, <2>1, <2>2, <2>6, <3>1 DEF Lines, Talking, Waiting
  <2> QED
    BY <2>1, <2>5, <2>6
<1>9. CASE Receives \/ ReceivesEnd \/ Stores \/ Streamed \/ StoreFails
  <2>1. /\ UNCHANGED <<link, up, ended, asked>> /\ cp \in {"recv", "store", "flush"}
        /\ cp' \in {"recv", "store", "flush", "close", "failed"}
    BY <1>9 DEF Receives, ReceivesEnd, Stores, Streamed, StoreFails, Fails, session, wire
  <2>2. AtWork /\ (AtWork' \/ cp' = "failed") /\ Sent' = Request /\ Sent = Request
    BY <1>r, <2>1 DEF AtWork, Sent
  <2> QED
    BY <1>b, <1>u, <1>m, <1>p, <1>r, <2>1, <2>2 DEF Lines, Talking, Waiting
<1> QED
  BY <1>1, <1>2, <1>3, <1>4, <1>5, <1>6, <1>7, <1>8, <1>9 DEF Asking, Gurl

LEMMA LinesInvariant ==
  ASSUME OneLine
  PROVE  Spec => []Lines
<1>1. Held /\ Running /\ Lines /\ [Next]_vars => Lines'
  <2> SUFFICES ASSUME Held, Running, Lines, [Next]_vars PROVE Lines'
    OBVIOUS
  <2>1. CASE UNCHANGED vars \/ Program
    <3>1. UNCHANGED <<sp, line, link, up, ended, broken, cp, asked>>
      BY <2>1 DEF Program, Kid, KidFails, KidExecutes, KidFlushes, KidWrites, KidPrints,
         KidExits, vars, session, wire,
                  request, client
    <3>2. UNCHANGED <<AtWork, Sent, Request, Pending, Missing, LineLost>>
      BY <3>1 DEF AtWork, Sent, Request, Url, Pending, Second, Missing, LineLost
    <3> QED
      BY <3>1, <3>2 DEF Lines, Talking, Waiting
  <2>2. CASE Glitch
    <3>1. UNCHANGED <<sp, line, link, up, ended, broken, asked>> /\ cp = "recv" /\ cp' = "failed"
      BY <2>2 DEF Glitch, ReceiveFails, Fails, wire, request
    <3>2. UNCHANGED <<Sent, Request, Pending, Missing, LineLost>> /\ ~AtWork'
      BY <3>1 DEF AtWork, Sent, Request, Url, Pending, Second, Missing, LineLost
    <3> QED
      BY <3>1, <3>2 DEF Lines, Talking, Waiting
  <2> QED
    BY <2>1, <2>2, ServerKeepsLines, GurlKeepsLines DEF Next
<1> QED
  BY <1>1, LinesInit, HeldInvariant, RunningInvariant, PTL DEF Spec

(* Whatever records SSL_read() gives it, and whatever writes of gurl have  *)
(* failed, s_readto() hands the dispatch the line that gurl was given or   *)
(* none; and it drops one that is shorter than the buffer only when a read *)
(* or a write of it has failed.                                            *)
THEOREM RequestArrivesAlways ==
  ASSUME OneLine
  PROVE  Spec => []RequestArrives
<1>1. Held /\ Lines /\ Delivering => RequestArrives
  <2> SUFFICES ASSUME Held, Lines, Delivering PROVE RequestArrives
    OBVIOUS
  <2>1. ASSUME cp = "close", ~LineLost, Len(Request) < MaxRequest PROVE line = Request
    <3>1. ended /\ AtWork /\ link = "up" /\ asked # <<>>
      BY <2>1 DEF Delivering, Empties, AtWork, Lines, Held, Typed
    <3>2. line \o Pending = Request /\ (line = Request \/ Len(line) = MaxRequest - 1)
      BY <2>1, <3>1 DEF Lines, Talking, Sent, Missing, LineLost
    <3>3. line \in Seq(Letters) /\ Len(line) \in Nat /\ Len(line) < MaxRequest
          /\ Pending \in Seq(Letters) /\ Len(Pending) \in Nat
      BY PendingType DEF Lines, Held, Typed, Filled, BuffersHold
    <3>4. Len(Request) = Len(line) + Len(Pending)
      BY <3>2, <3>3, ConcatProperties
    <3>5. ASSUME line # Request PROVE Len(Request) >= MaxRequest
      <4>1. Len(Pending) # 0
        <5> SUFFICES ASSUME Len(Pending) = 0 PROVE FALSE
          OBVIOUS
        <5>1. Pending = <<>>
          BY <3>3, EmptySeq
        <5> QED
          BY <3>2, <3>3, <3>5, <5>1, ConcatEmptySeq
      <4> QED
        BY <3>2, <3>3, <3>4, <3>5, <4>1, Sizes
    <3> QED
      BY <2>1, <3>3, <3>4, <3>5, Sizes
  <2> QED
    BY <2>1 DEF RequestArrives, Lines
<1> QED
  BY <1>1, HeldInvariant, DeliveringInvariant, LinesInvariant, PTL
=============================================================================
