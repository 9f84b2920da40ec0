------------------------ MODULE GeminiServer_proofs ------------------------
(***************************************************************************)
(* Proofs about GeminiServer, for any number of connections, handlers,     *)
(* URLs, certificates and descriptors.                                     *)
(***************************************************************************)
EXTENDS GeminiServer, SequenceTheorems, TLAPS

USE DEF Serving, Walking, Stopped, SessionCert, HasMore

(* Before there is a URL the structure has none left from earlier. *)
NoStaleUrl == pc \in {"tls", "read"} => req.url = NoUrl

Session == TypeOK /\ OneSession /\ NoStaleUrl

LEMMA ServedConnection ==
  ASSUME TypeOK, OneSession, pc \in Serving
  PROVE  req.fd \in Conns /\ conn[req.fd] = "open" /\ req.ssl = "live"
BY DEF TypeOK, OneSession, SessionOpen

LEMMA WriteType ==
  ASSUME TypeOK, req.fd \in Conns, NEW items \in Seq(Items), Write(items)
  PROVE  out' \in [Conns -> Seq(Items)]
<1>1. PICK n \in 0..Len(items) : out' = [out EXCEPT ![req.fd] = @ \o SubSeq(items, 1, n)]
  BY DEF Write
<1>2. SubSeq(items, 1, n) \in Seq(Items)
  BY SubSeqProperties
<1>3. out[req.fd] \o SubSeq(items, 1, n) \in Seq(Items)
  BY <1>2, ConcatProperties DEF TypeOK
<1>4. QED
  BY <1>1, <1>3 DEF TypeOK

LEMMA EndType ==
  ASSUME TypeOK, req.fd \in Conns, EndRequest
  PROVE  /\ pc' \in {"accept", "finished"}
         /\ chain' = chain /\ backlog' = backlog /\ UNCHANGED <<cert, line, gone>>
         /\ i' = 0 /\ left' = 0
         /\ requests' \in Nat
         /\ req' = [fd |-> NoConn, ssl |-> "null", url |-> NoUrl, cert |-> req.cert]
         /\ conn' = [conn EXCEPT ![req.fd] = "closed"]
<1>1. requests' \in Nat
  <2>1. requests' = (requests + 1) % CounterMod /\ requests + 1 \in Nat
    BY DEF EndRequest, TypeOK
  <2>2. QED
    BY <2>1, ConfigurationAssumption
<1>2. req' = [fd |-> NoConn, ssl |-> "null", url |-> NoUrl, cert |-> req.cert]
  BY DEF EndRequest, CloseRequest, TypeOK
<1>3. QED
  BY <1>1, <1>2 DEF EndRequest, CloseRequest, peers

(* What is left of the iteration after a response was written. *)
LEMMA EndTypeOK ==
  ASSUME TypeOK, req.fd \in Conns, EndRequest, leaked' \in Nat,
         out' \in [Conns -> Seq(Items)], by' \in [Conns -> 0..Len(chain) + 1]
  PROVE  TypeOK'
<1>1. /\ pc' \in {"accept", "finished"}
      /\ chain' = chain /\ backlog' = backlog /\ UNCHANGED <<cert, line, gone>>
      /\ i' = 0 /\ left' = 0 /\ requests' \in Nat
      /\ req' = [fd |-> NoConn, ssl |-> "null", url |-> NoUrl, cert |-> req.cert]
      /\ conn' = [conn EXCEPT ![req.fd] = "closed"]
  BY EndType
<1>2. req.cert \in Certs \cup {NoCert} /\ Len(chain) \in Nat
  BY LenProperties DEF TypeOK
<1>3. QED
  BY <1>1, <1>2 DEF TypeOK

LEMMA InitSession == Init => Session
BY SentinelAssumption DEF Init, Session, TypeOK, OneSession, NoStaleUrl, SessionOpen

(* A step that answers: everything but the descriptors it leaks. *)
LEMMA AnswerType ==
  ASSUME TypeOK, req.fd \in Conns,
         NEW items \in Seq(Items), Answer(items), leaked' \in Nat
  PROVE  TypeOK'
<1>1. out' \in [Conns -> Seq(Items)]
  BY WriteType DEF Answer
<1>2. by' \in [Conns -> 0..Len(chain) + 1]
  BY DEF Answer, TypeOK
<1>3. QED
  BY <1>1, <1>2, EndTypeOK DEF Answer

LEMMA TypeStep == Session /\ [Next]_vars => TypeOK'
<1> SUFFICES ASSUME Session, [Next]_vars PROVE TypeOK'
  OBVIOUS
<1> USE SentinelAssumption, ConfigurationAssumption DEF Session
<1>1. CASE UNCHANGED vars
  BY <1>1 DEF TypeOK, vars
<1>2. CASE Serve
  BY <1>2 DEF Serve, TypeOK, peers
<1>3. CASE \E h \in Handlers : Register(h)
  <2>1. PICK h \in Handlers : Register(h)
    BY <1>3
  <2>2. chain' \in Seq(Handlers) /\ Len(chain') = Len(chain) + 1
    BY <2>1, AppendProperties DEF Register, TypeOK
  <2>3. Len(chain) \in Nat
    BY LenProperties DEF TypeOK
  <2>4. QED
    BY <2>1, <2>2, <2>3 DEF Register, TypeOK, peers
<1>4. CASE \E c \in Conns : Peer(c)
  <2>1. PICK c \in Conns : Peer(c)
    BY <1>4
  <2>2. CASE Connect(c)
    <3>1. backlog' \in Seq(Conns)
      BY <2>2, AppendProperties DEF Connect, TypeOK
    <3>2. QED
      BY <2>2, <3>1 DEF Connect, TypeOK, peers
  <2>3. CASE Hello(c)
    BY <2>3 DEF Hello, TypeOK, Hellos
  <2>4. CASE Send(c)
    BY <2>4 DEF Send, TypeOK, Lines
  <2>5. CASE HangUp(c)
    BY <2>5 DEF HangUp, TypeOK
  <2>6. QED
    BY <2>1, <2>2, <2>3, <2>4, <2>5 DEF Peer
<1>5. CASE Accept
  <2>1. Head(backlog) \in Conns /\ Tail(backlog) \in Seq(Conns)
    BY <1>5, HeadTailProperties DEF Accept, TypeOK
  <2>2. QED
    BY <1>5, <2>1 DEF Accept, TypeOK, peers
<1>6. CASE AcceptFails
  BY <1>6 DEF AcceptFails, TypeOK, peers
<1>7. CASE TlsAccepted
  BY <1>7 DEF TlsAccepted, TypeOK, peers
<1>8. CASE TlsRefused
  BY <1>8, ServedConnection DEF TlsRefused, TypeOK, peers
<1>9. CASE ReadFails
  BY <1>9, ServedConnection DEF ReadFails, CloseRequest, TypeOK, peers
<1>10. CASE ReadBadUrl
  <2>1. <<"50">> \in Seq(Items)
    BY DEF Items, Statuses
  <2>2. out' \in [Conns -> Seq(Items)]
    BY <1>10, <2>1, WriteType, ServedConnection DEF ReadBadUrl
  <2>3. QED
    BY <1>10, <2>2, ServedConnection DEF ReadBadUrl, CloseRequest, TypeOK, peers
<1>11. CASE ReadUrl
  <2>1. Len(chain) \in Nat
    BY LenProperties DEF TypeOK
  <2>2. QED
    <3>1. i' \in 0..Len(chain) + 1
      BY <1>11, <2>1 DEF ReadUrl
    <3>2. req' \in [fd : Conns \cup {NoConn}, ssl : {"null", "live", "freed"},
                    url : Urls \cup {NoUrl}, cert : Certs \cup {NoCert}]
      BY <1>11 DEF ReadUrl, TypeOK
    <3>3. QED
      BY <1>11, <3>1, <3>2 DEF ReadUrl, TypeOK, peers
<1>12. CASE Skip \/ AuthnPasses \/ VhostsPasses \/ FsMisses
  <2>1. i \in 1..Len(chain) /\ Continue /\ leaked' \in {leaked, leaked + 1}
    BY <1>12 DEF Skip, AuthnPasses, VhostsPasses, FsMisses, At
  <2>2. QED
    BY <2>1, LenProperties DEF Continue, TypeOK, peers
<1>13. ASSUME NEW items \in Seq(Items), Answer(items), pc \in Serving,
              leaked' \in {leaked, leaked + 2}
       PROVE  TypeOK'
  <2>1. leaked' \in Nat
    BY <1>13 DEF TypeOK
  <2>2. QED
    BY <1>13, <2>1, ServedConnection, AnswerType
<1>14. CASE AuthnRefuses
  <2>1. pc \in Serving /\ leaked' \in {leaked, leaked + 2} /\ (Answer(<<"60">>) \/ Answer(<<"61">>))
    BY <1>14 DEF AuthnRefuses, At
  <2>2. <<"60">> \in Seq(Items) /\ <<"61">> \in Seq(Items)
    BY DEF Items, Statuses
  <2>3. QED
    BY <1>13, <2>1, <2>2
<1>15. CASE VhostsRefuses
  <2>1. pc \in Serving /\ leaked' \in {leaked, leaked + 2} /\ (Answer(<<"53">>))
    BY <1>15 DEF VhostsRefuses, At
  <2>2. <<"53">> \in Seq(Items)
    BY DEF Items, Statuses
  <2>3. QED
    BY <1>13, <2>1, <2>2
<1>16. CASE Fallback
  <2>1. pc \in Serving /\ leaked' \in {leaked, leaked + 2} /\ (Answer(<<"51">>))
    BY <1>16 DEF Fallback, At
  <2>2. <<"51">> \in Seq(Items)
    BY DEF Items, Statuses
  <2>3. QED
    BY <1>13, <2>1, <2>2
<1>17. CASE Echo
  <2>1. pc \in Serving /\ leaked' \in {leaked, leaked + 2} /\ (Answer(<<"20", "body">>))
    BY <1>17 DEF Echo, At
  <2>2. <<"20", "body">> \in Seq(Items)
    BY DEF Items, Statuses
  <2>3. QED
    BY <1>13, <2>1, <2>2
<1>18. CASE CgiAborts
  <2>1. pc \in Serving /\ leaked' \in {leaked, leaked + 2} /\ (Answer(<<"59">>))
    BY <1>18 DEF CgiAborts, At
  <2>2. <<"59">> \in Seq(Items)
    BY DEF Items, Statuses
  <2>3. QED
    BY <1>13, <2>1, <2>2
<1>19. CASE CgiReaped
  <2>1. pc \in Serving /\ leaked' \in {leaked, leaked + 2} /\ (Answer(<<"59">>))
    BY <1>19 DEF CgiReaped, At
  <2>2. <<"59">> \in Seq(Items)
    BY DEF Items, Statuses
  <2>3. QED
    BY <1>13, <2>1, <2>2
<1>20. CASE FsOpens
  <2>1. out' \in [Conns -> Seq(Items)]
    <3>1. <<"20">> \in Seq(Items)
      BY DEF Items, Statuses
    <3>2. QED
      BY <1>20, <3>1, WriteType, ServedConnection DEF FsOpens, At
  <2>2. req.fd \in Conns
    BY <1>20, ServedConnection DEF FsOpens, At
  <2>3. i \in 0..Len(chain) + 1 /\ FileBlocks \in Nat
    BY DEF TypeOK
  <2>4. by' \in [Conns -> 0..Len(chain) + 1]
    BY <1>20, <2>2, <2>3 DEF FsOpens, TypeOK
  <2>5. left' \in Nat /\ leaked' \in Nat
    BY <1>20, <2>3 DEF FsOpens, TypeOK
  <2>6. QED
    BY <1>20, <2>1, <2>4, <2>5 DEF FsOpens, TypeOK, peers
<1>21. CASE StreamBlock \/ CgiBlock
  <2>1. out[req.fd] \in Seq(Items)
    BY <1>21, ServedConnection DEF StreamBlock, CgiBlock, TypeOK
  <2>2. Append(out[req.fd], "body") \in Seq(Items) /\ Append(out[req.fd], "cgi") \in Seq(Items)
    BY <2>1, AppendProperties DEF Items
  <2>3. out' \in [Conns -> Seq(Items)]
    <3>1. \/ out' = [out EXCEPT ![req.fd] = Append(out[req.fd], "body")]
          \/ out' = [out EXCEPT ![req.fd] = Append(out[req.fd], "cgi")]
      BY <1>21 DEF StreamBlock, CgiBlock
    <3>2. ASSUME NEW s \in Seq(Items), out' = [out EXCEPT ![req.fd] = s]
          PROVE  out' \in [Conns -> Seq(Items)]
      BY <3>2 DEF TypeOK
    <3>3. QED
      BY <2>2, <3>1, <3>2
  <2>4. left' \in Nat
    BY <1>21 DEF StreamBlock, CgiBlock, TypeOK
  <2>5. QED
    BY <1>21, <2>3, <2>4 DEF StreamBlock, CgiBlock, TypeOK, peers
<1>22. CASE StreamEnds \/ CgiEnds
  <2>1. /\ pc \in Serving /\ EndRequest
        /\ leaked' \in Nat /\ out' \in [Conns -> Seq(Items)]
        /\ by' \in [Conns -> 0..Len(chain) + 1]
    BY <1>22 DEF StreamEnds, CgiEnds, TypeOK
  <2>2. QED
    BY <2>1, ServedConnection, EndTypeOK
<1>23. CASE CgiStarts
  <2>1. req.fd \in Conns
    BY <1>23, ServedConnection DEF CgiStarts, At
  <2>2. left' \in Nat /\ leaked' \in Nat
    BY <1>23 DEF CgiStarts, TypeOK
  <2>3. by' \in [Conns -> 0..Len(chain) + 1]
    BY <1>23, <2>1 DEF CgiStarts, TypeOK
  <2>4. QED
    BY <1>23, <2>2, <2>3 DEF CgiStarts, TypeOK, peers
<1>24. CASE CgiFails
  BY <1>24 DEF CgiFails, TypeOK, peers
<1>25. CASE Killed
  BY <1>25 DEF Killed, TypeOK, peers
<1>26. QED
  BY <1>1, <1>2, <1>3, <1>4, <1>5, <1>6, <1>7, <1>8, <1>9, <1>10, <1>11, <1>12, <1>20,
     <1>21, <1>22, <1>23, <1>24, <1>25, <1>14, <1>15, <1>16, <1>17, <1>18, <1>19
     DEF Next, Setup, Server, Library, Program

(* Closing the request leaves nothing open. *)
LEMMA CloseSession ==
  ASSUME Session, pc \in Serving, CloseRequest, pc' \in {"accept", "finished"}
  PROVE  OneSession' /\ NoStaleUrl'
<1>1. req.fd \in Conns /\ conn[req.fd] = "open"
  BY ServedConnection DEF Session
<1>2. req'.ssl = "null" /\ req'.url = NoUrl /\ req'.fd = NoConn
  BY DEF CloseRequest, Session, TypeOK
<1>3. conn' = [conn EXCEPT ![req.fd] = "closed"] /\ conn \in [Conns -> {"none", "queued", "open", "closed"}]
  BY DEF CloseRequest, Session, TypeOK
<1>4. \A c \in Conns : conn[c] = "open" => c = req.fd
  BY DEF Session, OneSession
<1>5. \A c \in Conns : conn'[c] # "open"
  BY <1>1, <1>3, <1>4
<1>6. QED
  BY <1>2, <1>5 DEF OneSession, NoStaleUrl, SessionOpen

LEMMA SessionStep == Session /\ [Next]_vars => OneSession' /\ NoStaleUrl'
<1> SUFFICES ASSUME Session, [Next]_vars PROVE OneSession' /\ NoStaleUrl'
  OBVIOUS
<1> USE SentinelAssumption
<1>1. CASE UNCHANGED <<pc, req, conn>>
  BY <1>1 DEF Session, OneSession, NoStaleUrl, SessionOpen
<1>2. CASE Serve
  BY <1>2 DEF Serve, Session, TypeOK, OneSession, NoStaleUrl, SessionOpen
<1>3. CASE \E c \in Conns : Connect(c)
  BY <1>3 DEF Connect, Session, TypeOK, OneSession, NoStaleUrl, SessionOpen
<1>4. CASE Accept
  <2>1. Head(backlog) \in Conns
    BY <1>4, HeadTailProperties DEF Accept, Session, TypeOK
  <2>2. \A c \in Conns : conn[c] # "open"
    BY <1>4 DEF Accept, Session, OneSession
  <2>3. req'.fd = Head(backlog) /\ req'.ssl = "live" /\ req'.url = NoUrl
    BY <1>4 DEF Accept, Session, TypeOK, OneSession
  <2>4. conn' = [conn EXCEPT ![Head(backlog)] = "open"]
    BY <1>4 DEF Accept
  <2>5. pc' = "tls"
    BY <1>4 DEF Accept
  <2>6. QED
    BY <2>1, <2>2, <2>3, <2>4, <2>5 DEF Session, TypeOK, OneSession, NoStaleUrl, SessionOpen
<1>5. CASE AcceptFails
  BY <1>5 DEF AcceptFails, Session, TypeOK, OneSession, NoStaleUrl, SessionOpen
<1>6. CASE TlsAccepted
  BY <1>6 DEF TlsAccepted, Session, TypeOK, OneSession, NoStaleUrl, SessionOpen
<1>7. CASE TlsRefused
  <2>1. req.fd \in Conns /\ conn' = [conn EXCEPT ![req.fd] = "closed"]
    BY <1>7, ServedConnection DEF TlsRefused, Session
  <2>2. req'.ssl = "freed" /\ req'.url = NoUrl /\ pc' = "accept"
    BY <1>7 DEF TlsRefused, Session, TypeOK, NoStaleUrl
  <2>3. \A c \in Conns : conn'[c] # "open"
    BY <2>1 DEF Session, TypeOK, OneSession
  <2>4. QED
    BY <2>2, <2>3 DEF OneSession, NoStaleUrl
<1>8. CASE ReadUrl
  BY <1>8 DEF ReadUrl, Session, TypeOK, OneSession, NoStaleUrl, SessionOpen
<1>9. CASE pc \in Serving /\ CloseRequest /\ pc' \in {"accept", "finished"}
  BY <1>9, CloseSession
<1>10. CASE FsOpens \/ CgiStarts \/ CgiFails \/ Killed
  BY <1>10 DEF FsOpens, CgiStarts, CgiFails, Killed, At, Session, TypeOK, OneSession, NoStaleUrl, SessionOpen
<1>11. QED
  BY <1>1, <1>2, <1>3, <1>4, <1>5, <1>6, <1>7, <1>8, <1>9, <1>10
     DEF Next, Setup, Server, Library, Program, vars, peers, Register, Peer, Hello, Send, HangUp,
         ReadFails, ReadBadUrl, Skip, AuthnRefuses, AuthnPasses, VhostsRefuses, VhostsPasses,
         FsMisses, StreamBlock, StreamEnds, Fallback, Echo, CgiAborts, CgiBlock, CgiEnds, CgiReaped,
         Answer, EndRequest, Continue, At

(* Every behaviour keeps the types of the variables. *)
THEOREM TypeCorrect == Spec => []TypeOK
<1>1. Init => Session
  BY InitSession
<1>2. Session /\ [Next]_vars => Session'
  BY TypeStep, SessionStep DEF Session
<1>3. Session => TypeOK
  BY DEF Session
<1>4. QED
  BY <1>1, <1>2, <1>3, PTL DEF Spec

(* The request structure serves one live session at a time, and nothing of *)
(* a session is left open or pending when gemini_serve() accepts the next. *)
THEOREM OneSessionHolds == Spec => []OneSession
<1>1. Init => Session
  BY InitSession
<1>2. Session /\ [Next]_vars => Session'
  BY TypeStep, SessionStep DEF Session
<1>3. Session => OneSession
  BY DEF Session
<1>4. QED
  BY <1>1, <1>2, <1>3, PTL DEF Spec

-----------------------------------------------------------------------------
(* Descriptors: a connection being served holds one, a file being streamed *)
(* another, and at least one is free before the next connection.           *)
Room ==
  /\ pc \in {"setup", "accept"} => leaked + 1 <= MaxFds
  /\ pc \in Serving => leaked + 1 <= MaxFds
  /\ pc = "stream" => leaked + 2 <= MaxFds

(* What a handler finds free besides the connection it serves. *)
LEMMA FreeWhileDispatching ==
  ASSUME Session, pc = "dispatch"
  PROVE  FreeFds = MaxFds - leaked - 1
BY ConfigurationAssumption DEF FreeFds, Session, TypeOK, OneSession

LEMMA RoomStep == Session /\ Room /\ [Next]_vars => Room'
<1> SUFFICES ASSUME Session, Room, [Next]_vars PROVE Room'
  OBVIOUS
<1> USE ConfigurationAssumption
<1>0. leaked \in Nat /\ MaxFds \in Nat
  BY DEF Session, TypeOK
<1>1. CASE FsMisses
  BY <1>0, <1>1, FreeWhileDispatching DEF FsMisses, At, Continue, Room
<1>2. CASE FsOpens
  BY <1>0, <1>2, FreeWhileDispatching DEF FsOpens, FileOpens, At, Room
<1>3. CASE CgiStarts
  BY <1>0, <1>3, FreeWhileDispatching DEF CgiStarts, At, Room
<1>4. CASE CgiAborts
  <2>1. pc = "dispatch" /\ pc' \in {"accept", "finished"}
    BY <1>4 DEF CgiAborts, Answer, EndRequest, At
  <2>2. leaked' = leaked \/ (leaked' = leaked + 2 /\ FreeFds >= 2)
    BY <1>4 DEF CgiAborts
  <2>3. QED
    BY <1>0, <2>1, <2>2, FreeWhileDispatching DEF Room
<1>5. CASE leaked' = leaked /\ (pc' = pc \/ pc' # "stream")
           /\ (pc \in {"setup", "accept"} \cup Serving \/ pc' = pc)
  BY <1>0, <1>5 DEF Room
<1>6. QED
  BY <1>1, <1>2, <1>3, <1>4, <1>5
     DEF Next, Setup, Server, Library, Program, vars, peers, Register, Serve, Peer, Connect,
         Hello, Send, HangUp, Accept, AcceptFails, TlsAccepted, TlsRefused, ReadFails, ReadBadUrl,
         ReadUrl, Skip, AuthnRefuses, AuthnPasses, VhostsRefuses, VhostsPasses, StreamBlock,
         StreamEnds, Fallback, Echo, CgiBlock, CgiEnds, CgiFails, CgiReaped, Killed,
         Answer, EndRequest, Continue, At

(* accept() never runs out of descriptors, although some leak. *)
THEOREM AcceptHasDescriptorHolds == Spec => []AcceptHasDescriptor
<1>1. Init => Session /\ Room
  BY InitSession, ConfigurationAssumption DEF Init, Room
<1>2. Session /\ Room /\ [Next]_vars => (Session /\ Room)'
  BY TypeStep, SessionStep, RoomStep DEF Session
<1>3. Session /\ Room => AcceptHasDescriptor
  <2>1. Session /\ pc = "accept" => ~SessionOpen
    BY SentinelAssumption DEF Session, OneSession, TypeOK, SessionOpen
  <2>2. Session => leaked \in Nat
    BY DEF Session, TypeOK
  <2>3. QED
    BY <2>1, <2>2, ConfigurationAssumption DEF AcceptHasDescriptor, Room, FreeFds
<1>4. QED
  BY <1>1, <1>2, <1>3, PTL DEF Spec

-----------------------------------------------------------------------------
(* The walk along the chain.  What has been answered was asked by a peer    *)
(* that has finished its handshake, and nothing is before the loop starts. *)
Sealed ==
  /\ \A c \in Conns : by[c] # 0 => cert[c] # NoHello
  /\ pc = "setup" => \A c \in Conns : by[c] = 0

Walk == Session /\ Sealed /\ WalkInvariant /\ FirstMatchAnswers

(* A peer says each thing once. *)
LEMMA PeerKeepsItsWord ==
  ASSUME TypeOK, [Next]_vars, NEW c \in Conns
  PROVE  /\ cert[c] # NoHello => cert'[c] = cert[c]
         /\ line[c] # NoLine => line'[c] = line[c]
<1>1. CASE UNCHANGED <<cert, line>>
  BY <1>1
<1>2. CASE \E d \in Conns : Hello(d) \/ Send(d)
  BY <1>2 DEF Hello, Send, TypeOK
<1>3. QED
  BY <1>1, <1>2
     DEF Next, Setup, Server, Library, Program, vars, peers, Register, Serve, Peer, Connect,
         HangUp, Accept, AcceptFails, TlsAccepted, TlsRefused, ReadFails, ReadBadUrl,
         ReadUrl, Skip, AuthnRefuses, AuthnPasses, VhostsRefuses, VhostsPasses, FsMisses, FsOpens,
         StreamBlock, StreamEnds, Fallback, Echo, CgiAborts, CgiStarts, CgiBlock, CgiEnds,
         CgiFails, CgiReaped, Killed, Answer, EndRequest, Continue

(* A descriptor that is lost stays lost. *)
LEMMA LeaksStay ==
  ASSUME TypeOK, [Next]_vars
  PROVE  leaked \in Nat /\ leaked' \in Nat /\ leaked <= leaked'
<1>1. leaked \in Nat
  BY DEF TypeOK
<1>2. CASE leaked' = leaked
  BY <1>1, <1>2
<1>3. CASE FsMisses \/ FsOpens \/ CgiAborts \/ CgiStarts
  BY <1>1, <1>3 DEF FsMisses, FsOpens, CgiAborts, CgiStarts
<1>4. QED
  BY <1>2, <1>3
     DEF Next, Setup, Server, Library, Program, vars, Register, Serve, Peer, Connect, Hello, Send,
         HangUp, Accept, AcceptFails, TlsAccepted, TlsRefused, ReadFails, ReadBadUrl,
         ReadUrl, Skip, AuthnRefuses, AuthnPasses, VhostsRefuses, VhostsPasses,
         StreamBlock, StreamEnds, Fallback, Echo, CgiBlock, CgiEnds,
         CgiFails, CgiReaped, Killed, Answer, EndRequest, Continue

(* A handler that let a request pass would let it pass again. *)
LEMMA PassesStays ==
  ASSUME TypeOK, [Next]_vars, NEW h, NEW c \in Conns,
         cert[c] # NoHello, line[c] # NoLine, Passes(h, c)
  PROVE  Passes(h, c)'
<1>1. cert'[c] = cert[c] /\ line'[c] = line[c]
  BY PeerKeepsItsWord
<1>2. Exhausted => Exhausted'
  BY LeaksStay, ConfigurationAssumption DEF Exhausted
<1>3. QED
  BY <1>1, <1>2 DEF Passes, Below

LEMMA PassedStays ==
  ASSUME TypeOK, [Next]_vars, chain' = chain, NEW c \in Conns, NEW n,
         cert[c] # NoHello, line[c] # NoLine, Passed(c, n)
  PROVE  Passed(c, n)'
<1>1. line'[c] = line[c]
  BY PeerKeepsItsWord
<1>2. \A k \in 1..Len(chain) : Passes(chain[k], c) => Passes(chain[k], c)'
  BY PassesStays
<1>3. QED
  BY <1>1, <1>2 DEF Passed, Covers

LEMMA StopsStays ==
  ASSUME TypeOK, [Next]_vars, NEW h, NEW c \in Conns,
         cert[c] # NoHello, line[c] # NoLine, Stops(h, c)
  PROVE  Stops(h, c)'
<1>1. cert'[c] = cert[c] /\ line'[c] = line[c]
  BY PeerKeepsItsWord
<1>2. QED
  BY <1>1 DEF Stops, Covers, Below

(* The peer being served has spoken; the structure says what it said. *)
LEMMA Spoken ==
  ASSUME Session, WalkInvariant, pc \in {"read"} \cup Walking
  PROVE  /\ req.fd \in Conns /\ cert[req.fd] # NoHello
         /\ pc \in Walking => req.url = line[req.fd] /\ line[req.fd] \in Urls
                              /\ line[req.fd] # NoLine
<1>1. req.fd \in Conns
  BY ServedConnection DEF Session
<1>2. req.cert = cert[req.fd] /\ req.cert \in Certs \cup {NoCert}
  BY DEF WalkInvariant, Session, TypeOK
<1>3. pc \in Walking => req.url = line[req.fd] /\ req.url # NoUrl /\ req.url \in Urls \cup {NoUrl}
  BY DEF WalkInvariant, Session, OneSession, TypeOK
<1>4. QED
  BY <1>1, <1>2, <1>3, SentinelAssumption

(* One handler further on. *)
LEMMA WalksOn ==
  ASSUME Session, WalkInvariant, [Next]_vars, pc = "dispatch", i \in 1..Len(chain), Continue,
         NEW h, h = chain[i], NEW c \in Conns, c = req.fd,
         Covers(h, line[c]) => Passes(h, c)'
  PROVE  WalkInvariant'
<1>1. cert[c] # NoHello /\ req.url = line[c] /\ line[c] # NoLine
  BY Spoken
<1>2. UNCHANGED <<pc, chain, req, cert, line>> /\ i' = i + 1 /\ i \in Nat
  BY DEF Continue, peers, Session, TypeOK
<1>3. Passed(c, i)
  BY DEF WalkInvariant
<1>4. Passed(c, i)'
  <2> SUFFICES ASSUME NEW k \in 1..Len(chain), k < i + 1, Covers(chain[k], line[c])
               PROVE  Passes(chain[k], c)'
    BY <1>2 DEF Passed, Covers
  <2>1. CASE k = i
    BY <1>2, <2>1 DEF Passes
  <2>2. CASE k < i
    <3>1. PICK g : g = chain[k]
      OBVIOUS
    <3>2. Passes(g, c)
      BY <1>3, <2>2, <3>1 DEF Passed
    <3>3. Passes(g, c)'
      BY <1>1, <3>2, PassesStays DEF Session
    <3>4. QED
      BY <1>2, <3>1, <3>3 DEF Passes
  <2>3. QED
    BY <1>2, <2>1, <2>2
<1>5. QED
  BY <1>1, <1>2, <1>4 DEF WalkInvariant, Passed

LEMMA WalkStep == Session /\ WalkInvariant /\ [Next]_vars => WalkInvariant'
<1> SUFFICES ASSUME Session, WalkInvariant, [Next]_vars PROVE WalkInvariant'
  OBVIOUS
<1> USE SentinelAssumption
<1>1. CASE UNCHANGED <<pc, chain, i, req, by>>
  BY <1>1, Spoken, PeerKeepsItsWord, PassedStays DEF WalkInvariant, Session
<1>2. CASE pc' \notin {"read"} \cup Walking
  BY <1>2 DEF WalkInvariant
<1>3. CASE TlsAccepted
  BY <1>3 DEF TlsAccepted, WalkInvariant, Session, TypeOK, peers
<1>4. CASE ReadUrl
  BY <1>4 DEF ReadUrl, WalkInvariant, Session, TypeOK, peers, Passed
<1>5. ASSUME pc = "dispatch", i \in 1..Len(chain), Continue,
             NEW h, h = chain[i], NEW c \in Conns, c = req.fd,
             Skip \/ AuthnPasses \/ VhostsPasses \/ FsMisses
      PROVE  Covers(h, line[c]) => Passes(h, c)'
  <2>1. /\ req.url = line[c] /\ req.cert = cert[c]
        /\ cert[c] # NoHello /\ line[c] # NoLine
    BY <1>5, Spoken DEF WalkInvariant
  <2>2. CASE Skip
    BY <1>5, <2>1, <2>2 DEF Skip, Handler
  <2>3. CASE AuthnPasses \/ VhostsPasses
    <3>1. Passes(h, c)
      BY <1>5, <2>1, <2>3 DEF AuthnPasses, VhostsPasses, At, Handler, Passes
    <3>2. QED
      BY <2>1, <3>1, PassesStays DEF Session
  <2>4. CASE FsMisses
    <3>1. Kind[h] = "fs" /\ UNCHANGED line
      BY <1>5, <2>4 DEF FsMisses, At, Handler, Continue, peers
    <3>2. CASE Below(h, line[c]) \notin Files[h]
      BY <3>1, <3>2 DEF Passes, Below
    <3>3. CASE ~(FreeFds >= 2)
      <4>1. FreeFds = MaxFds - leaked - 1
        BY <1>5, FreeWhileDispatching
      <4>2. /\ leaked \in Nat /\ leaked' \in Nat /\ leaked <= leaked'
            /\ MaxFds \in Nat
        BY LeaksStay, ConfigurationAssumption DEF Session
      <4>3. ~(MaxFds - leaked - 1 >= 2)
        BY <3>3, <4>1
      <4>4. leaked' + 2 >= MaxFds
        <5>1. \A m, a, b \in Nat : a <= b /\ ~(m - a - 1 >= 2) => b + 2 >= m
          OBVIOUS
        <5>2. QED
          BY <4>2, <4>3, <5>1
      <4>5. QED
        BY <3>1, <4>4 DEF Passes, Exhausted
    <3>4. QED
      BY <1>5, <2>1, <2>4, <3>2, <3>3 DEF FsMisses, FileOpens, Handler
  <2>5. QED
    BY <1>5, <2>2, <2>3, <2>4
<1>6. CASE Skip \/ AuthnPasses \/ VhostsPasses \/ FsMisses
  <2>1. pc = "dispatch" /\ i \in 1..Len(chain) /\ Continue
    BY <1>6 DEF Skip, AuthnPasses, VhostsPasses, FsMisses, At
  <2>2. PICK h : h = chain[i]
    OBVIOUS
  <2>3. PICK c \in Conns : c = req.fd
    BY <2>1, Spoken
  <2>4. QED
    BY <1>5, <1>6, <2>1, <2>2, <2>3, WalksOn
<1>8. CASE FsOpens \/ CgiStarts
  <2>1. /\ pc = "dispatch" /\ i > 0 /\ by' = [by EXCEPT ![req.fd] = i]
        /\ pc' \in {"stream", "cgi"} /\ UNCHANGED <<i, req, cert, line>>
    BY <1>8 DEF FsOpens, CgiStarts, At, WalkInvariant, peers
  <2>2. by'[req.fd] = i
    BY <2>1, Spoken DEF Session, TypeOK
  <2>3. QED
    BY <2>1, <2>2 DEF WalkInvariant
<1>9. CASE CgiFails \/ StreamBlock \/ CgiBlock
  BY <1>9 DEF CgiFails, StreamBlock, CgiBlock, WalkInvariant, peers
<1>10. QED
  BY <1>1, <1>2, <1>3, <1>4, <1>6, <1>8, <1>9
     DEF Next, Setup, Server, Library, Program, vars, peers, Register, Serve, Peer, Connect,
         Hello, Send, HangUp, Accept, AcceptFails, TlsRefused, ReadFails, ReadBadUrl,
         AuthnRefuses, VhostsRefuses, StreamEnds, Fallback, Echo, CgiAborts, CgiEnds,
         CgiReaped, Killed, Answer, EndRequest, At, WalkInvariant

(* A connection that was answered stays rightly answered. *)
LEMMA AnsweredStays ==
  ASSUME Walk, [Next]_vars, chain' = chain, NEW c \in Conns, by[c] # 0, by'[c] = by[c]
  PROVE  /\ cert'[c] # NoHello /\ line'[c] \in Urls
         /\ Passed(c, by[c])'
         /\ by[c] <= Len(chain) => Stops(chain[by[c]], c)'
<1>1. /\ cert[c] # NoHello /\ line[c] \in Urls /\ line[c] # NoLine
      /\ Passed(c, by[c])
      /\ by[c] <= Len(chain) => Stops(chain[by[c]], c)
  BY SentinelAssumption DEF Walk, Sealed, FirstMatchAnswers
<1>2. cert'[c] = cert[c] /\ line'[c] = line[c] /\ TypeOK
  BY <1>1, PeerKeepsItsWord DEF Walk, Session
<1>3. Passed(c, by[c])'
  <2>1. PICK n : n = by[c]
    OBVIOUS
  <2>2. Passed(c, n)'
    BY <1>1, <1>2, <2>1, PassedStays
  <2>3. QED
    BY <2>1, <2>2 DEF Passed
<1>4. ASSUME by[c] <= Len(chain) PROVE Stops(chain[by[c]], c)'
  <2>1. PICK h : h = chain[by[c]]
    OBVIOUS
  <2>2. Stops(h, c)'
    BY <1>1, <1>2, <1>4, <2>1, StopsStays
  <2>3. QED
    BY <2>1, <2>2 DEF Stops
<1>5. QED
  BY <1>1, <1>2, <1>3, <1>4

(* The step that answers, by a handler or by the fallback. *)
LEMMA RightlyAnswered ==
  ASSUME Walk, [Next]_vars, chain' = chain, pc \in Walking, i > 0,
         by' = [by EXCEPT ![req.fd] = i], pc' # "setup",
         Passed(req.fd, i), i <= Len(chain) => Stops(chain[i], req.fd)
  PROVE  Sealed' /\ FirstMatchAnswers'
<1>1. PICK c \in Conns : /\ c = req.fd /\ cert[c] # NoHello
                         /\ line[c] \in Urls /\ line[c] # NoLine
  BY Spoken DEF Walk
<1>2. cert'[c] = cert[c] /\ line'[c] = line[c] /\ TypeOK
  BY <1>1, PeerKeepsItsWord DEF Walk, Session
<1>3. PICK n \in Nat : n = i
  BY <1>2 DEF TypeOK
<1>4. by' = [by EXCEPT ![c] = n] /\ by'[c] = n
  BY <1>1, <1>2, <1>3 DEF TypeOK
<1>5. Passed(c, n)'
  BY <1>1, <1>2, <1>3, PassedStays
<1>6. ASSUME n <= Len(chain) PROVE Stops(chain[n], c)'
  <2>1. PICK h : h = chain[n]
    OBVIOUS
  <2>2. Stops(h, c)'
    BY <1>1, <1>2, <1>3, <1>6, <2>1, StopsStays
  <2>3. QED
    BY <2>1, <2>2 DEF Stops
<1>7. ASSUME NEW d \in Conns, d # c, by'[d] # 0
      PROVE  /\ cert'[d] # NoHello /\ line'[d] \in Urls
             /\ Passed(d, by[d])'
             /\ by'[d] <= Len(chain') => Stops(chain[by[d]], d)'
  <2>1. by'[d] = by[d]
    BY <1>2, <1>4, <1>7 DEF TypeOK
  <2>2. QED
    BY <1>7, <2>1, AnsweredStays
<1>8. QED
  BY <1>1, <1>2, <1>4, <1>5, <1>6, <1>7 DEF Sealed, FirstMatchAnswers, Passed, Stops

LEMMA AnswerStep == Walk /\ [Next]_vars => Sealed' /\ FirstMatchAnswers'
<1> SUFFICES ASSUME Walk, [Next]_vars PROVE Sealed' /\ FirstMatchAnswers'
  OBVIOUS
<1>0. TypeOK /\ WalkInvariant
  BY DEF Walk, Session
<1>1. CASE pc = "setup" /\ by' = by
  <2>1. \A c \in Conns : by'[c] = 0
    BY <1>1 DEF Walk, Sealed
  <2>2. QED
    BY <2>1 DEF Sealed, FirstMatchAnswers
<1>2. CASE UNCHANGED <<chain, by>> /\ pc' # "setup"
  <2>1. \A c \in Conns : by'[c] # 0 =>
          /\ cert'[c] # NoHello /\ line'[c] \in Urls
          /\ Passed(c, by[c])'
          /\ by'[c] <= Len(chain') => Stops(chain[by[c]], c)'
    BY <1>2, AnsweredStays
  <2>2. QED
    BY <1>2, <2>1 DEF Sealed, FirstMatchAnswers
<1>3. ASSUME pc \in Walking, i > 0, chain' = chain, pc' # "setup",
             by' = [by EXCEPT ![req.fd] = i], Passed(req.fd, i),
             i <= Len(chain) => Stops(chain[i], req.fd)
      PROVE  Sealed' /\ FirstMatchAnswers'
  BY <1>3, RightlyAnswered
<1>4. CASE AuthnRefuses \/ VhostsRefuses \/ Echo \/ CgiAborts \/ FsOpens \/ CgiStarts
  <2>1. /\ pc = "dispatch" /\ i > 0 /\ chain' = chain /\ pc' # "setup"
        /\ by' = [by EXCEPT ![req.fd] = i]
    BY <1>0, <1>4 DEF AuthnRefuses, VhostsRefuses, Echo, CgiAborts, FsOpens, CgiStarts, Answer,
                      EndRequest, At, WalkInvariant
  <2>2. Passed(req.fd, i) /\ req.url = line[req.fd] /\ req.cert = cert[req.fd]
    BY <1>0, <2>1 DEF WalkInvariant
  <2>3. Stops(chain[i], req.fd)
    BY <1>4, <2>2 DEF AuthnRefuses, VhostsRefuses, Echo, CgiAborts, FsOpens, CgiStarts, At,
                      FileOpens, Handler, Stops
  <2>4. QED
    BY <1>3, <2>1, <2>2, <2>3
<1>5. CASE Fallback
  <2>1. /\ pc = "dispatch" /\ i = Len(chain) + 1 /\ chain' = chain /\ pc' # "setup"
        /\ by' = [by EXCEPT ![req.fd] = i]
    BY <1>5 DEF Fallback, Answer, EndRequest
  <2>2. Passed(req.fd, i) /\ i > 0 /\ Len(chain) \in Nat
    BY <1>0, <2>1, LenProperties DEF WalkInvariant, TypeOK
  <2>3. QED
    BY <1>3, <2>1, <2>2
<1>6. CASE CgiReaped
  <2>1. /\ pc = "wait" /\ chain' = chain /\ pc' # "setup"
        /\ by' = [by EXCEPT ![req.fd] = i]
    BY <1>6 DEF CgiReaped, Answer, EndRequest
  <2>2. i > 0 /\ by[req.fd] = i /\ req.fd \in Conns
    BY <1>0, <2>1, Spoken DEF WalkInvariant, Walk
  <2>3. /\ Passed(req.fd, i)
        /\ i <= Len(chain) => Stops(chain[i], req.fd)
    BY <1>0, <2>2 DEF Walk, FirstMatchAnswers, TypeOK
  <2>4. QED
    BY <1>3, <2>1, <2>2, <2>3
<1>7. QED
  BY <1>1, <1>2, <1>4, <1>5, <1>6
     DEF Next, Setup, Server, Library, Program, vars, peers, Register, Serve, Peer, Connect,
         Hello, Send, HangUp, Accept, AcceptFails, TlsAccepted, TlsRefused, ReadFails, ReadBadUrl,
         ReadUrl, Skip, AuthnPasses, VhostsPasses, FsMisses, StreamBlock, StreamEnds,
         CgiBlock, CgiEnds, CgiFails, Killed, EndRequest, Continue, At

LEMMA WalkAlways == Spec => []Walk
<1>1. Init => Walk
  BY InitSession DEF Init, Walk, Sealed, WalkInvariant, FirstMatchAnswers
<1>2. Walk /\ [Next]_vars => Walk'
  BY TypeStep, SessionStep, WalkStep, AnswerStep DEF Walk, Session
<1>3. QED
  BY <1>1, <1>2, PTL DEF Spec

(* While the chain is walked, the request structure describes the peer at  *)
(* the other end of its descriptor, and all handlers passed let it pass.   *)
THEOREM WalkInvariantHolds == Spec => []WalkInvariant
<1>1. Walk => WalkInvariant
  BY DEF Walk
<1>2. QED
  BY <1>1, WalkAlways, PTL

(* Every request is answered by the first handler that covers it and does  *)
(* not let it pass, judged by what this very peer presented.               *)
THEOREM FirstMatchHolds == Spec => []FirstMatchAnswers
<1>1. Walk => FirstMatchAnswers
  BY DEF Walk
<1>2. QED
  BY <1>1, WalkAlways, PTL

-----------------------------------------------------------------------------
(* The server implements GeminiService: every step of the server and of    *)
(* its peers is a step of the service, or leaves it as it is.              *)
USE DEF Serving, Walking, Stopped

(* The backlog holds the connections that are queued, each once. *)
BacklogQueued ==
  /\ \A k \in 1..Len(backlog) : conn[backlog[k]] = "queued"
  /\ \A j, k \in 1..Len(backlog) : backlog[j] = backlog[k] => j = k

serving == IF SessionOpen THEN req.fd ELSE NoConn
done    == {c \in Conns : conn[c] = "closed"}
up      == pc \notin Stopped

LEMMA PrefixOfConcat ==
  ASSUME NEW S, NEW s \in Seq(S), NEW t \in Seq(S)
  PROVE  IsPrefix(s, s \o t)
<1>1. s \o t \in Seq(S) /\ Len(s \o t) = Len(s) + Len(t) /\ Len(s) \in Nat /\ Len(t) \in Nat
      /\ \A k \in 1..Len(s) : (s \o t)[k] = s[k]
  BY ConcatProperties, LenProperties
<1>2. SubSeq(s, 1, Len(s)) = SubSeq(s \o t, 1, Len(s))
  BY <1>1, SubSeqProperties
<1>3. QED
  BY <1>1, <1>2 DEF IsPrefix

LEMMA PrefixOfSelf ==
  ASSUME NEW S, NEW s \in Seq(S)
  PROVE  IsPrefix(s, s)
BY LenProperties DEF IsPrefix

LEMMA BacklogStep == Session /\ BacklogQueued /\ [Next]_vars => BacklogQueued'
<1> SUFFICES ASSUME Session, BacklogQueued, [Next]_vars PROVE BacklogQueued'
  OBVIOUS
<1>0. backlog \in Seq(Conns) /\ conn \in [Conns -> {"none", "queued", "open", "closed"}]
  BY DEF Session, TypeOK
<1>1. CASE UNCHANGED <<backlog, conn>>
  BY <1>1 DEF BacklogQueued
<1>2. CASE \E c \in Conns : Connect(c)
  <2>1. PICK c \in Conns : Connect(c)
    BY <1>2
  <2>2. /\ backlog' = Append(backlog, c) /\ conn[c] = "none"
        /\ conn' = [conn EXCEPT ![c] = "queued"]
    BY <2>1 DEF Connect
  <2>3. /\ Len(backlog') = Len(backlog) + 1 /\ Len(backlog) \in Nat
        /\ \A k \in 1..Len(backlog) : backlog'[k] = backlog[k] /\ backlog[k] \in Conns
        /\ backlog'[Len(backlog) + 1] = c
    BY <1>0, <2>2, AppendProperties, LenProperties, ElementOfSeq
  <2>4. \A k \in 1..Len(backlog) : conn[backlog[k]] = "queued" /\ backlog[k] # c
    BY <2>2 DEF BacklogQueued
  <2>5. QED
    BY <1>0, <2>2, <2>3, <2>4 DEF BacklogQueued
<1>3. CASE Accept
  <2>1. /\ backlog # <<>> /\ backlog' = Tail(backlog)
        /\ conn' = [conn EXCEPT ![Head(backlog)] = "open"]
    BY <1>3 DEF Accept
  <2>2. /\ Len(backlog') = Len(backlog) - 1 /\ Len(backlog) \in Nat \ {0}
        /\ Head(backlog) = backlog[1]
        /\ \A k \in 1..Len(backlog) - 1 : backlog'[k] = backlog[k + 1]
        /\ \A k \in 1..Len(backlog) : backlog[k] \in Conns
    BY <1>0, <2>1, HeadTailProperties, LenProperties, ElementOfSeq, EmptySeq
  <2>3. \A k \in 1..Len(backlog) - 1 : backlog'[k] # Head(backlog)
    BY <2>2 DEF BacklogQueued
  <2>4. QED
    BY <1>0, <2>1, <2>2, <2>3 DEF BacklogQueued
<1>4. CASE backlog' = backlog /\ pc \in Serving /\ conn' = [conn EXCEPT ![req.fd] = "closed"]
  <2>1. conn[req.fd] = "open" /\ req.fd \in Conns
    BY <1>4, ServedConnection DEF Session
  <2>2. \A k \in 1..Len(backlog) : backlog[k] \in Conns /\ backlog[k] # req.fd
    BY <1>0, <2>1, ElementOfSeq DEF BacklogQueued
  <2>3. QED
    BY <1>0, <1>4, <2>2 DEF BacklogQueued
<1>5. QED
  BY <1>1, <1>2, <1>3, <1>4
     DEF Next, Setup, Server, Library, Program, vars, peers, Register, Serve, Peer,
         Hello, Send, HangUp, AcceptFails, TlsAccepted, TlsRefused, ReadFails, ReadBadUrl,
         ReadUrl, Skip, AuthnRefuses, AuthnPasses, VhostsRefuses, VhostsPasses, FsMisses,
         FsOpens, StreamBlock, StreamEnds, Fallback, Echo, CgiAborts, CgiStarts, CgiBlock,
         CgiEnds, CgiFails, CgiReaped, Killed, Answer, EndRequest, CloseRequest, Continue, At

-----------------------------------------------------------------------------
(* The steps, seen as steps of the service. *)

(* What is written extends what was written. *)
LEMMA WriteExtends ==
  ASSUME TypeOK, req.fd \in Conns, NEW items \in Seq(Items), Write(items)
  PROVE  /\ IsPrefix(out[req.fd], out'[req.fd])
         /\ out' = [out EXCEPT ![req.fd] = out'[req.fd]]
<1>1. PICK n \in 0..Len(items) : out' = [out EXCEPT ![req.fd] = @ \o SubSeq(items, 1, n)]
  BY DEF Write
<1>2. SubSeq(items, 1, n) \in Seq(Items)
  BY SubSeqProperties
<1>3. out[req.fd] \in Seq(Items) /\ out \in [Conns -> Seq(Items)]
  BY DEF TypeOK
<1>4. out'[req.fd] = out[req.fd] \o SubSeq(items, 1, n)
  BY <1>1, <1>3
<1>5. QED
  BY <1>1, <1>2, <1>3, <1>4, PrefixOfConcat

(* While a connection is served it is the one that the service serves. *)
LEMMA ServingIt ==
  ASSUME Session, pc \in Serving
  PROVE  serving = req.fd /\ serving \in Conns /\ serving # NoConn /\ up
BY ServedConnection, SentinelAssumption DEF Session, serving, SessionOpen, up

(* A step that closes the connection ends its service. *)
LEMMA ClosingFinishes ==
  ASSUME Session, Session', pc \in Serving, pc' \in {"accept", "finished"},
         conn' = [conn EXCEPT ![req.fd] = "closed"], backlog' = backlog,
         IsPrefix(out[req.fd], out'[req.fd]), out' = [out EXCEPT ![req.fd] = out'[req.fd]]
  PROVE  Service!Finish
<1>1. serving = req.fd /\ serving \in Conns /\ serving # NoConn /\ up
  BY ServingIt
<1>2. serving' = NoConn
  <2>1. \A c \in Conns : conn'[c] # "open"
    BY DEF Session, OneSession
  <2>2. req'.fd \in Conns \cup {NoConn}
    BY DEF Session, TypeOK
  <2>3. QED
    BY <2>1, <2>2 DEF serving, SessionOpen
<1>3. done' = done \cup {serving}
  BY <1>1 DEF done, Session, TypeOK
<1>4. Service!Speaks
  BY <1>1 DEF Service!Speaks, serving, IsPrefix, Service!IsPrefix
<1>5. (pc \notin Stopped)' \in BOOLEAN
  OBVIOUS
<1>6. QED
  BY <1>1, <1>2, <1>3, <1>4, <1>5 DEF Service!Finish, serving, done, up

(* A step that only adds to what the peer being served is told. *)
LEMMA SpeakingSays ==
  ASSUME Session, pc \in Serving, pc' \in Serving, UNCHANGED <<backlog, conn, req>>,
         IsPrefix(out[req.fd], out'[req.fd]), out' = [out EXCEPT ![req.fd] = out'[req.fd]]
  PROVE  Service!Say
<1>1. serving = req.fd /\ serving \in Conns /\ serving # NoConn /\ up
  BY ServingIt
<1>2. Service!Speaks
  BY <1>1 DEF Service!Speaks, serving, IsPrefix, Service!IsPrefix
<1>3. UNCHANGED <<serving, done, up>>
  BY <1>1 DEF serving, SessionOpen, done, up
<1>4. QED
  BY <1>1, <1>2, <1>3 DEF Service!Say, serving, done, up

(* A step of which the service sees nothing. *)
LEMMA Unseen ==
  ASSUME UNCHANGED <<backlog, conn, out>>, UNCHANGED <<serving, up>>
  PROVE  UNCHANGED Service!vars
BY DEF Service!vars, serving, done, up

LEMMA InitImplements == Init => Service!Init
BY SentinelAssumption DEF Init, Service!Init, SessionOpen, Stopped

LEMMA StepImplements ==
  Session /\ Session' /\ BacklogQueued /\ [Next]_vars => [Service!Next]_(Service!vars)
<1> SUFFICES ASSUME Session, Session', BacklogQueued, [Next]_vars
             PROVE  Service!Next \/ UNCHANGED Service!vars
  OBVIOUS
<1> USE SentinelAssumption
<1>0. TypeOK /\ TypeOK'
  BY DEF Session
<1>1. CASE UNCHANGED <<pc, req, backlog, conn, out>>
  <2>1. UNCHANGED <<serving, up>>
    BY <1>1 DEF serving, SessionOpen, up
  <2>2. QED
    BY <1>1, <2>1, Unseen
<1>2. CASE Serve
  <2>1. UNCHANGED <<serving, up>>
    BY <1>2 DEF Serve, serving, SessionOpen, up
  <2>2. QED
    BY <1>2, <2>1, Unseen DEF Serve
<1>3. CASE \E c \in Conns : Connect(c)
  <2>1. PICK c \in Conns : Connect(c)
    BY <1>3
  <2>2. /\ pc \notin Stopped \cup {"setup"} /\ conn[c] = "none"
        /\ conn' = [conn EXCEPT ![c] = "queued"] /\ backlog' = Append(backlog, c)
        /\ UNCHANGED <<pc, req, out>>
    BY <2>1 DEF Connect
  <2>3. c # serving /\ c \notin done
    BY <2>2 DEF serving, SessionOpen, done
  <2>4. \A k \in 1..Len(backlog) : backlog[k] # c
    BY <2>2 DEF BacklogQueued
  <2>5. UNCHANGED <<serving, done, up>>
    BY <1>0, <2>2 DEF serving, SessionOpen, done, up, TypeOK
  <2>6. Service!Arrive(c)
    BY <2>2, <2>3, <2>4, <2>5 DEF Service!Arrive, serving, done, up
  <2>7. QED
    BY <2>6 DEF Service!Next
<1>4. CASE Accept
  <2>1. /\ pc = "accept" /\ pc' = "tls" /\ backlog # <<>> /\ backlog' = Tail(backlog)
        /\ conn' = [conn EXCEPT ![Head(backlog)] = "open"] /\ UNCHANGED out
        /\ req' = [req EXCEPT !.fd = Head(backlog), !.ssl = "live"]
    BY <1>4 DEF Accept
  <2>2. Head(backlog) \in Conns /\ conn[Head(backlog)] = "queued"
    <3>1. backlog \in Seq(Conns) /\ backlog # <<>>
      BY <1>0, <2>1 DEF TypeOK
    <3>2. Head(backlog) = backlog[1] /\ backlog[1] \in Conns /\ 1 \in 1..Len(backlog)
      BY <3>1, HeadTailProperties, LenProperties, EmptySeq, ElementOfSeq
    <3>3. QED
      BY <3>2 DEF BacklogQueued
  <2>3. req'.fd = Head(backlog) /\ conn'[Head(backlog)] = "open"
    BY <1>0, <2>1, <2>2 DEF TypeOK
  <2>4. serving = NoConn /\ serving' = Head(backlog)
    BY <1>0, <2>1, <2>2, <2>3 DEF Session, OneSession, serving, SessionOpen, TypeOK
  <2>5. UNCHANGED <<done, up>>
    BY <1>0, <2>1, <2>2 DEF done, up, TypeOK
  <2>6. Service!Take
    BY <2>1, <2>4, <2>5 DEF Service!Take, serving, done, up
  <2>7. QED
    BY <2>6 DEF Service!Next
<1>5. CASE AcceptFails
  <2>1. /\ pc = "accept" /\ pc' = "failed" /\ UNCHANGED <<backlog, conn, out>>
        /\ req' = [req EXCEPT !.fd = NoConn]
    BY <1>5 DEF AcceptFails
  <2>2. serving = NoConn /\ serving' = NoConn
    BY <1>0, <2>1 DEF Session, OneSession, serving, SessionOpen, TypeOK
  <2>3. Service!Halt
    BY <2>1, <2>2 DEF Service!Halt, serving
  <2>4. QED
    BY <2>3 DEF Service!Next
<1>6. CASE Killed
  <2>1. pc \in Serving /\ pc' = "killed" /\ UNCHANGED <<backlog, conn, out, req>>
    BY <1>6 DEF Killed
  <2>2. Service!Halt
    BY <2>1 DEF Service!Halt, SessionOpen
  <2>3. QED
    BY <2>2 DEF Service!Next
<1>7. CASE /\ pc \in Serving /\ pc' \in Serving
           /\ UNCHANGED <<backlog, conn, req>> /\ UNCHANGED out
  <2>1. UNCHANGED <<serving, up>>
    BY <1>7 DEF serving, SessionOpen, up
  <2>2. QED
    BY <1>7, <2>1, Unseen
<1>8. CASE TlsAccepted \/ ReadUrl
  <2>1. /\ pc \in Serving /\ pc' \in Serving /\ UNCHANGED <<backlog, conn, out>>
        /\ req'.fd = req.fd
    BY <1>0, <1>8 DEF TlsAccepted, ReadUrl, TypeOK
  <2>2. UNCHANGED <<serving, up>>
    BY <2>1 DEF serving, SessionOpen, up
  <2>3. QED
    BY <2>1, <2>2, Unseen
<1>9. CASE TlsRefused \/ ReadFails \/ StreamEnds \/ CgiEnds
  <2>1. /\ pc \in Serving /\ pc' \in {"accept", "finished"} /\ UNCHANGED <<backlog, out>>
        /\ conn' = [conn EXCEPT ![req.fd] = "closed"]
    BY <1>9 DEF TlsRefused, ReadFails, StreamEnds, CgiEnds, EndRequest, CloseRequest
  <2>2. out[req.fd] \in Seq(Items) /\ out' = [out EXCEPT ![req.fd] = out'[req.fd]]
    BY <1>0, <2>1, ServedConnection DEF Session, TypeOK
  <2>3. IsPrefix(out[req.fd], out'[req.fd])
    BY <2>1, <2>2, PrefixOfSelf
  <2>4. QED
    BY <2>1, <2>2, <2>3, ClosingFinishes DEF Service!Next
<1>10. ASSUME NEW items \in Seq(Items), Write(items), CloseRequest, backlog' = backlog,
              pc \in Serving, pc' \in {"accept", "finished"}
       PROVE  Service!Next
  <2>1. conn' = [conn EXCEPT ![req.fd] = "closed"]
    BY <1>10 DEF CloseRequest
  <2>2. IsPrefix(out[req.fd], out'[req.fd]) /\ out' = [out EXCEPT ![req.fd] = out'[req.fd]]
    BY <1>0, <1>10, ServedConnection, WriteExtends DEF Session
  <2>3. QED
    BY <1>10, <2>1, <2>2, ClosingFinishes DEF Service!Next
<1>11. CASE ReadBadUrl \/ AuthnRefuses \/ VhostsRefuses \/ Fallback \/ Echo \/ CgiAborts \/ CgiReaped
  <2>1. \A s \in Statuses : <<s>> \in Seq(Items) /\ <<s, "body">> \in Seq(Items)
    BY DEF Items
  <2>2. /\ pc \in Serving /\ pc' \in {"accept", "finished"} /\ backlog' = backlog /\ CloseRequest
        /\ \E s \in Statuses : Write(<<s>>) \/ Write(<<s, "body">>)
    BY <1>11 DEF ReadBadUrl, AuthnRefuses, VhostsRefuses, Fallback, Echo, CgiAborts, CgiReaped,
                 Answer, EndRequest, At, Statuses
  <2>3. QED
    BY <1>10, <2>1, <2>2
<1>12. CASE FsOpens \/ StreamBlock \/ CgiBlock
  <2>1. /\ pc \in Serving /\ pc' \in Serving /\ UNCHANGED <<backlog, conn, req>>
    BY <1>12 DEF FsOpens, StreamBlock, CgiBlock, At
  <2>2. req.fd \in Conns /\ out[req.fd] \in Seq(Items)
    BY <1>0, <2>1, ServedConnection DEF Session, TypeOK
  <2>3. IsPrefix(out[req.fd], out'[req.fd]) /\ out' = [out EXCEPT ![req.fd] = out'[req.fd]]
    <3>1. CASE FsOpens
      <4>1. <<"20">> \in Seq(Items)
        BY DEF Items, Statuses
      <4>2. QED
        BY <1>0, <2>2, <3>1, <4>1, WriteExtends DEF FsOpens
    <3>2. ASSUME NEW x \in Items, out' = [out EXCEPT ![req.fd] = Append(@, x)]
          PROVE  IsPrefix(out[req.fd], out'[req.fd]) /\ out' = [out EXCEPT ![req.fd] = out'[req.fd]]
      <4>1. <<x>> \in Seq(Items) /\ Append(out[req.fd], x) = out[req.fd] \o <<x>>
        BY <2>2, <3>2
      <4>2. out'[req.fd] = Append(out[req.fd], x)
        BY <1>0, <2>2, <3>2 DEF TypeOK
      <4>3. QED
        BY <1>0, <2>2, <3>2, <4>1, <4>2, PrefixOfConcat
    <3>3. QED
      BY <1>12, <3>1, <3>2 DEF StreamBlock, CgiBlock, Items
  <2>4. QED
    BY <2>1, <2>3, SpeakingSays DEF Service!Next
<1>13. QED
  BY <1>1, <1>2, <1>3, <1>4, <1>5, <1>6, <1>7, <1>8, <1>9, <1>11, <1>12
     DEF Next, Setup, Server, Library, Program, vars, peers, Register, Peer, Hello, Send, HangUp,
         Skip, AuthnPasses, VhostsPasses, FsMisses, CgiStarts, CgiFails, Continue, At

(* The loop implements the service: connections are served in the order in *)
(* which they arrived, one at a time, and what a peer was told is final.   *)
THEOREM ServiceImplemented == Spec => ServiceSpec
<1>1. Init => Session /\ BacklogQueued /\ Service!Init
  BY InitSession, InitImplements DEF Init, BacklogQueued
<1>2. Session /\ BacklogQueued /\ [Next]_vars => Session' /\ BacklogQueued'
  BY TypeStep, SessionStep, BacklogStep DEF Session
<1>3. Session /\ Session' /\ BacklogQueued /\ [Next]_vars => [Service!Next]_(Service!vars)
  BY StepImplements
<1>4. QED
  BY <1>1, <1>2, <1>3, PTL DEF Spec, ServiceSpec, Service!Spec
=============================================================================
