------------------------ MODULE GeminiServer_answers ------------------------
(***************************************************************************)
(* What peers have got and how many of them, for any number of             *)
(* connections, handlers, blocks and any limit of requests.                *)
(***************************************************************************)
EXTENDS GeminiServer_proofs, FiniteSetTheorems

USE DEF Serving, Walking, Stopped, SessionCert, HasMore

(* Nobody is answered before the URL is known, and the position of the     *)
(* handler that answers is known once one does.                            *)
Fresh ==
  /\ \A c \in Conns : conn[c] \in {"none", "queued"} => by[c] = 0
  /\ pc \in {"tls", "read", "dispatch"} => by[req.fd] = 0

LEMMA AcceptFresh ==
  ASSUME TypeOK, BacklogQueued, Fresh, Accept
  PROVE  Head(backlog) \in Conns /\ conn[Head(backlog)] = "queued" /\ by[Head(backlog)] = 0
<1>1. backlog \in Seq(Conns) /\ backlog # <<>>
  BY DEF TypeOK, Accept
<1>2. Head(backlog) \in Conns /\ Head(backlog) = backlog[1] /\ 1 \in 1..Len(backlog)
  BY <1>1, HeadTailProperties, EmptySeq, LenProperties
<1> QED
  BY <1>2 DEF BacklogQueued, Fresh

LEMMA FreshStep == Walk /\ BacklogQueued /\ Fresh /\ [Next]_vars => Fresh'
<1> SUFFICES ASSUME Walk, BacklogQueued, Fresh, [Next]_vars PROVE Fresh'
  OBVIOUS
<1> USE DEF Walk, Session, Fresh
<1>1. CASE /\ UNCHANGED <<conn, by>>
           /\ UNCHANGED <<pc, req>> \/ pc' \notin {"tls", "read", "dispatch"}
  BY <1>1
<1>2. CASE \E c \in Conns : Connect(c)
  BY <1>2 DEF Connect, TypeOK, OneSession, SessionOpen
<1>3. CASE Accept
  <2>1. Head(backlog) \in Conns /\ by[Head(backlog)] = 0
    BY <1>3, AcceptFresh
  <2> QED
    BY <1>3, <2>1 DEF Accept, TypeOK
<1>4. CASE TlsAccepted \/ ReadUrl
  BY <1>4 DEF TlsAccepted, ReadUrl, TypeOK
<1>5. CASE Continue
  BY <1>5 DEF Continue
<1>6. CASE /\ pc \in Serving /\ pc' \in {"accept", "finished"}
           /\ conn' = [conn EXCEPT ![req.fd] = "closed"]
           /\ UNCHANGED by \/ by' = [by EXCEPT ![req.fd] = i]
  <2>1. req.fd \in Conns /\ conn[req.fd] = "open"
    BY <1>6, ServedConnection
  <2> QED
    BY <1>6, <2>1 DEF TypeOK
<1>7. CASE FsOpens \/ CgiStarts
  <2>1. /\ pc = "dispatch" /\ by' = [by EXCEPT ![req.fd] = i] /\ UNCHANGED conn
        /\ pc' \in {"stream", "cgi"}
    BY <1>7 DEF FsOpens, CgiStarts, At
  <2>2. req.fd \in Conns /\ conn[req.fd] = "open"
    BY <2>1, ServedConnection
  <2> QED
    BY <2>1, <2>2 DEF TypeOK
<1> QED
  BY <1>1, <1>2, <1>3, <1>4, <1>5, <1>6, <1>7
     DEF Next, Setup, Server, Library, Program, vars, peers, Register, Serve, Peer, Hello, Send,
         HangUp, AcceptFails, TlsRefused, ReadFails, ReadBadUrl, Skip, AuthnRefuses, AuthnPasses,
         VhostsRefuses, VhostsPasses, FsMisses, StreamBlock, StreamEnds, Fallback, Echo, CgiAborts,
         CgiBlock, CgiEnds, CgiFails, CgiReaped, Killed, Answer, EndRequest, CloseRequest, At

-----------------------------------------------------------------------------
(* The counter counts the requests that were handled, and does not wrap    *)
(* before the limit ends the loop.                                         *)
Limited == MaxRequests \in 1..CounterMod - 2

Counted ==
  Limited =>
    /\ IsFiniteSet(Handled) /\ requests = Cardinality(Handled)
    /\ pc \notin {"finished"} => requests <= MaxRequests
    /\ pc = "finished" => requests = MaxRequests + 1

(* A connection counts from the step that closes it, if it was answered.   *)
LEMMA CountedEnd ==
  ASSUME Walk, Fresh, Counted, Limited, pc \in Walking, EndRequest, by'[req.fd] # 0,
         \A c \in Conns : c # req.fd => by'[c] = by[c]
  PROVE  Counted'
<1>1. req.fd \in Conns /\ conn[req.fd] = "open"
  BY ServedConnection DEF Walk, Session
<1>2. conn' = [conn EXCEPT ![req.fd] = "closed"]
  BY DEF EndRequest, CloseRequest
<1>3. req.fd \notin Handled /\ Handled' = Handled \cup {req.fd}
  BY <1>1, <1>2 DEF Handled, Walk, Session, TypeOK
<1>4. IsFiniteSet(Handled') /\ Cardinality(Handled') = Cardinality(Handled) + 1
  BY <1>3, FS_AddElement DEF Counted
<1>5. /\ MaxRequests \in Nat /\ CounterMod \in Nat /\ MaxRequests <= CounterMod - 2
      /\ MaxRequests >= 1
  BY ConfigurationAssumption DEF Limited
<1>6. requests \in Nat /\ requests <= MaxRequests
  BY DEF Counted, Walk, Session, TypeOK
<1>7. requests' = requests + 1
  <2>1. requests' = (requests + 1) % CounterMod
    BY DEF EndRequest
  <2> QED
    BY <1>5, <1>6, <2>1
<1>8. pc' = IF requests + 1 > MaxRequests THEN "finished" ELSE "accept"
  BY <1>5, <1>7 DEF EndRequest, OverLimit
<1> QED
  BY <1>4, <1>5, <1>6, <1>7, <1>8 DEF Counted

LEMMA CountedStep == Walk /\ BacklogQueued /\ Fresh /\ Counted /\ [Next]_vars => Counted'
<1> SUFFICES ASSUME Walk, BacklogQueued, Fresh, Counted, [Next]_vars, Limited PROVE Counted'
  BY DEF Counted
<1> USE DEF Walk, Session
<1>1. CASE UNCHANGED <<requests, conn, by>> /\ (pc' = pc \/ (pc # "finished" /\ pc' # "finished"))
  BY <1>1 DEF Counted, Handled
<1>2. ASSUME NEW c \in Conns, conn[c] # "closed" \/ by[c] = 0, UNCHANGED <<requests, by>>,
             \A d \in Conns : d # c => conn'[d] = conn[d],
             conn'[c] # "closed" \/ by[c] = 0, pc # "finished", pc' # "finished"
      PROVE  Counted'
  <2>1. Handled' = Handled
    BY <1>2 DEF Handled
  <2> QED
    BY <1>2, <2>1 DEF Counted
<1>3. CASE \E c \in Conns : Connect(c)
  BY <1>2, <1>3 DEF Connect, TypeOK
<1>4. CASE Accept
  <2>1. Head(backlog) \in Conns /\ conn[Head(backlog)] = "queued"
    BY <1>4, AcceptFresh
  <2>2. /\ conn' = [conn EXCEPT ![Head(backlog)] = "open"] /\ UNCHANGED <<requests, by>>
        /\ pc = "accept" /\ pc' = "tls"
    BY <1>4 DEF Accept
  <2> QED
    BY <1>2, <2>1, <2>2 DEF TypeOK
<1>5. CASE TlsRefused \/ ReadFails \/ ReadBadUrl
  <2>1. pc \in {"tls", "read"} /\ conn' = [conn EXCEPT ![req.fd] = "closed"]
        /\ UNCHANGED <<requests, by>> /\ pc' = "accept"
    BY <1>5 DEF TlsRefused, ReadFails, ReadBadUrl, CloseRequest
  <2>2. req.fd \in Conns /\ conn[req.fd] = "open"
    BY <2>1, ServedConnection
  <2> QED
    BY <1>2, <2>1, <2>2 DEF Fresh, TypeOK
<1>6. CASE AuthnRefuses \/ VhostsRefuses \/ Fallback \/ Echo \/ CgiAborts \/ CgiReaped
  <2>1. /\ pc \in Walking /\ EndRequest /\ by' = [by EXCEPT ![req.fd] = i]
    BY <1>6 DEF AuthnRefuses, VhostsRefuses, Fallback, Echo, CgiAborts, CgiReaped, Answer, At
  <2>2. req.fd \in Conns /\ i > 0
    BY <2>1, ServedConnection DEF WalkInvariant
  <2> QED
    BY <2>1, <2>2, CountedEnd DEF TypeOK
<1>7. CASE StreamEnds \/ CgiEnds
  <2>1. pc \in {"stream", "cgi"} /\ EndRequest /\ by' = by
    BY <1>7 DEF StreamEnds, CgiEnds
  <2>2. by[req.fd] # 0
    BY <2>1 DEF WalkInvariant, TypeOK
  <2> QED
    BY <2>1, <2>2, CountedEnd
<1>8. CASE FsOpens \/ CgiStarts
  <2>1. /\ pc = "dispatch" /\ by' = [by EXCEPT ![req.fd] = i] /\ UNCHANGED <<conn, requests>>
        /\ pc' \in {"stream", "cgi"}
    BY <1>8 DEF FsOpens, CgiStarts, At
  <2>2. req.fd \in Conns /\ conn[req.fd] = "open"
    BY <2>1, ServedConnection
  <2>3. Handled' = Handled
    BY <2>1, <2>2 DEF Handled, TypeOK
  <2> QED
    BY <2>1, <2>3 DEF Counted
<1> QED
  BY <1>1, <1>3, <1>4, <1>5, <1>6, <1>7, <1>8
     DEF Next, Setup, Server, Library, Program, vars, peers, Register, Serve, Peer, Hello, Send,
         HangUp, AcceptFails, TlsAccepted, ReadUrl, Skip, AuthnPasses, VhostsPasses, FsMisses,
         StreamBlock, CgiBlock, CgiFails, Killed, Continue, At

(* The server stops exactly when it has handled one request more than the  *)
(* limit, for every limit that the counter can hold with two to spare.     *)
THEOREM RequestLimitHolds == Spec => []RequestLimit
<1> DEFINE IInv == Walk /\ BacklogQueued /\ Fresh /\ Counted
<1>1. Init => IInv
  <2> SUFFICES ASSUME Init PROVE IInv
    OBVIOUS
  <2>1. Walk /\ Fresh
    BY InitSession DEF Init, Walk, Sealed, WalkInvariant, FirstMatchAnswers, Fresh
  <2>2. BacklogQueued
    BY EmptySeq DEF Init, BacklogQueued
  <2>3. Handled = {}
    BY DEF Init, Handled
  <2>4. IsFiniteSet(Handled) /\ Cardinality(Handled) = 0
    BY <2>3, FS_EmptySet
  <2>5. pc = "setup" /\ requests = 0
    BY DEF Init
  <2>6. Limited => requests <= MaxRequests
    BY <2>5, ConfigurationAssumption DEF Limited
  <2> QED
    BY <2>1, <2>2, <2>4, <2>5, <2>6 DEF Counted
<1>2. IInv /\ [Next]_vars => IInv'
  <2>1. Walk /\ [Next]_vars => Walk'
    BY TypeStep, SessionStep, WalkStep, AnswerStep DEF Walk, Session
  <2> QED
    BY <2>1, BacklogStep, FreshStep, CountedStep DEF Walk
<1>3. IInv => RequestLimit
  BY ConfigurationAssumption DEF Walk, Session, TypeOK, Counted, Limited, RequestLimit
<1> QED
  BY <1>1, <1>2, <1>3, PTL DEF Spec

-----------------------------------------------------------------------------
(* Nothing is said or sent on a connection before it is served, and        *)
(* nothing is sent before there is a handler that answers.                 *)
Unspoken ==
  /\ \A c \in Conns : conn[c] \in {"none", "queued"} => line[c] = NoLine /\ out[c] = <<>>
  /\ pc = "tls" => line[req.fd] = NoLine
  /\ pc \in {"tls", "read", "dispatch"} => out[req.fd] = <<>>

(* What a peer that still listens has got while a body is sent. *)
Body(n) == [k \in 1..n |-> "body"]
Sending ==
  /\ pc = "stream" =>
       /\ i \in 1..Len(chain) /\ Kind[chain[i]] = "fs" /\ left <= FileBlocks
       /\ ~gone[req.fd] => out[req.fd] = <<"20">> \o Body(FileBlocks - left)
  /\ pc = "cgi" =>
       i \in 1..Len(chain) /\ Kind[chain[i]] = "cgi" /\ out[req.fd] \in Seq({"cgi"})
  /\ pc = "wait" => gone[req.fd] \/ Faults

(* A step sends to the connection that is served, and to no other. *)
LEMMA SendsToServed ==
  ASSUME Walk, [Next]_vars, NEW c \in Conns, pc \notin Serving \/ c # req.fd
  PROVE  out'[c] = out[c] /\ by'[c] = by[c] /\ (pc # "read" => line'[c] = line[c])
<1> USE DEF Walk, Session
<1>1. CASE UNCHANGED <<out, by, line>>
  BY <1>1
<1>2. CASE \E d \in Conns : Peer(d)
  BY <1>2 DEF Peer, Connect, Hello, Send, HangUp, TypeOK, peers
<1>3. CASE /\ pc \in Serving /\ UNCHANGED line
           /\ (\E s : out' = [out EXCEPT ![req.fd] = s]) \/ out' = out
           /\ by' = by \/ by' = [by EXCEPT ![req.fd] = i]
  BY <1>3 DEF TypeOK
<1> QED
  BY <1>1, <1>2, <1>3
     DEF Next, Setup, Server, Library, Program, vars, peers, Register, Serve, Accept, AcceptFails,
         TlsAccepted, TlsRefused, ReadFails, ReadBadUrl, ReadUrl, Skip, AuthnRefuses, AuthnPasses,
         VhostsRefuses, VhostsPasses, FsMisses, FsOpens, StreamBlock, StreamEnds, Fallback, Echo,
         CgiAborts, CgiStarts, CgiBlock, CgiEnds, CgiFails, CgiReaped, Killed, Continue, Answer,
         EndRequest, CloseRequest, Write, At

LEMMA UnspokenStep == Walk /\ BacklogQueued /\ Fresh /\ Unspoken /\ [Next]_vars => Unspoken'
<1> SUFFICES ASSUME Walk, BacklogQueued, Fresh, Unspoken, [Next]_vars PROVE Unspoken'
  OBVIOUS
<1> USE DEF Walk, Session, Unspoken
<1>1. CASE /\ UNCHANGED <<conn, line, out>>
           /\ UNCHANGED <<pc, req>> \/ pc' \notin {"tls", "read", "dispatch"}
  BY <1>1
<1>2. CASE \E c \in Conns : Connect(c)
  BY <1>2 DEF Connect, TypeOK, peers
<1>3. CASE \E c \in Conns : Send(c)
  <2>1. PICK c \in Conns : Send(c)
    BY <1>3
  <2>2. /\ pc = "read" /\ req.fd = c /\ UNCHANGED <<pc, req, conn, out>>
        /\ \A d \in Conns : d # c => line'[d] = line[d]
    BY <2>1 DEF Send, TypeOK
  <2>3. conn[c] = "open"
    BY <2>2, ServedConnection
  <2> QED
    BY <2>2, <2>3
<1>4. CASE Accept
  <2>1. /\ Head(backlog) \in Conns /\ conn[Head(backlog)] = "queued"
        /\ conn' = [conn EXCEPT ![Head(backlog)] = "open"] /\ UNCHANGED <<out, line>>
        /\ req'.fd = Head(backlog) /\ pc' = "tls"
    BY <1>4, AcceptFresh DEF Accept, TypeOK, peers
  <2> QED
    BY <2>1 DEF TypeOK
<1>5. CASE TlsAccepted \/ ReadUrl
  BY <1>5 DEF TlsAccepted, ReadUrl, TypeOK, peers
<1>6. CASE Continue
  BY <1>6 DEF Continue, peers
<1>7. CASE /\ pc \in Serving /\ pc' \notin {"tls", "read", "dispatch"} /\ UNCHANGED line
           /\ conn' = conn \/ conn' = [conn EXCEPT ![req.fd] = "closed"]
  <2>1. req.fd \in Conns /\ conn[req.fd] = "open"
    BY <1>7, ServedConnection
  <2>2. \A c \in Conns : c # req.fd => out'[c] = out[c] /\ conn'[c] = conn[c]
    BY <1>7, SendsToServed DEF TypeOK
  <2>3. conn'[req.fd] \in {"open", "closed"}
    BY <1>7, <2>1 DEF TypeOK
  <2> QED
    BY <1>7, <2>1, <2>2, <2>3
<1> QED
  BY <1>1, <1>2, <1>3, <1>4, <1>5, <1>6, <1>7
     DEF Next, Setup, Server, Library, Program, vars, peers, Register, Serve, Peer, Hello, HangUp,
         AcceptFails, TlsRefused, ReadFails, ReadBadUrl, Skip, AuthnRefuses, AuthnPasses,
         VhostsRefuses, VhostsPasses, FsMisses, FsOpens, StreamBlock, StreamEnds, Fallback, Echo,
         CgiAborts, CgiStarts, CgiBlock, CgiEnds, CgiFails, CgiReaped, Killed, Answer,
         EndRequest, CloseRequest, At

(* What is written to a peer that still listens arrives in full. *)
LEMMA WriteWhole ==
  ASSUME TypeOK, req.fd \in Conns, NEW items \in Seq(Items), Write(items),
         out[req.fd] = <<>>, ~gone[req.fd]
  PROVE  out' = [out EXCEPT ![req.fd] = items]
<1>1. Len(items) \in Nat /\ SubSeq(items, 1, Len(items)) = items
  BY LenProperties
<1>2. out' = [out EXCEPT ![req.fd] = out[req.fd] \o SubSeq(items, 1, Len(items))]
  BY DEF Write
<1>3. <<>> \o items = items
  OBVIOUS
<1> QED
  BY <1>1, <1>2, <1>3

LEMMA BodyGrows ==
  ASSUME NEW n \in Nat
  PROVE  Append(<<"20">> \o Body(n), "body") = <<"20">> \o Body(n + 1)
<1>1. Body(n) \in Seq({"body"}) /\ Len(Body(n)) = n /\ Body(n + 1) \in Seq({"body"})
      /\ Len(Body(n + 1)) = n + 1
  BY DEF Body
<1> QED
  BY <1>1 DEF Body

LEMMA SendingStep == Walk /\ Unspoken /\ Sending /\ [Next]_vars => Sending'
<1> SUFFICES ASSUME Walk, Unspoken, Sending, [Next]_vars PROVE Sending'
  OBVIOUS
<1> USE DEF Walk, Session, Sending
<1>1. CASE /\ UNCHANGED <<pc, chain, i, req, left, out>>
           /\ \A c \in Conns : gone[c] => gone'[c]
  BY <1>1, ServedConnection
<1>2. CASE pc' \notin {"stream", "cgi", "wait"}
  BY <1>2
<1>3. CASE FsOpens
  <2>1. /\ pc = "dispatch" /\ pc' = "stream" /\ left' = FileBlocks /\ Write(<<"20">>)
        /\ i \in 1..Len(chain) /\ Kind[chain[i]] = "fs" /\ UNCHANGED <<chain, i, req, gone>>
    BY <1>3 DEF FsOpens, At, Handler, peers
  <2>2. req.fd \in Conns /\ out[req.fd] = <<>>
    BY <2>1, ServedConnection DEF Unspoken
  <2>3. ASSUME ~gone[req.fd] PROVE out'[req.fd] = <<"20">> \o Body(0)
    <3>1. <<"20">> \in Seq(Items)
      BY DEF Items, Statuses
    <3>2. out'[req.fd] = <<"20">>
      BY <2>1, <2>2, <2>3, <3>1, WriteWhole DEF TypeOK
    <3>3. Body(0) \in Seq({"body"}) /\ Len(Body(0)) = 0
      BY DEF Body
    <3>4. Body(0) = <<>>
      BY <3>3, EmptySeq
    <3> QED
      BY <3>2, <3>4
  <2>4. FileBlocks \in Nat /\ FileBlocks - left' = 0
    BY <2>1, ConfigurationAssumption
  <2> QED
    BY <2>1, <2>3, <2>4
<1>4. CASE StreamBlock
  <2>1. /\ pc = "stream" /\ left > 0 /\ left' = left - 1 /\ UNCHANGED <<pc, chain, i, req, gone>>
        /\ out' = [out EXCEPT ![req.fd] = Append(out[req.fd], "body")]
    BY <1>4 DEF StreamBlock, peers
  <2>2. req.fd \in Conns
    BY <2>1, ServedConnection
  <2>3. /\ FileBlocks - left \in Nat /\ FileBlocks - left' = FileBlocks - left + 1
        /\ left' <= FileBlocks
    BY <2>1, ConfigurationAssumption DEF TypeOK
  <2>4. out'[req.fd] = Append(out[req.fd], "body")
    BY <2>1, <2>2 DEF TypeOK
  <2>5. ~gone[req.fd] => out'[req.fd] = <<"20">> \o Body(FileBlocks - left')
    BY <2>1, <2>3, <2>4, BodyGrows
  <2> QED
    BY <2>1, <2>3, <2>5
<1>5. CASE CgiStarts
  <2>1. /\ pc = "dispatch" /\ pc' = "cgi" /\ UNCHANGED <<chain, i, req, out>>
        /\ i \in 1..Len(chain) /\ Kind[chain[i]] = "cgi"
    BY <1>5 DEF CgiStarts, At, Handler
  <2> QED
    BY <2>1, ServedConnection, EmptySeq DEF Unspoken
<1>6. CASE CgiBlock
  <2>1. /\ pc = "cgi" /\ UNCHANGED <<pc, chain, i, req>>
        /\ out' = [out EXCEPT ![req.fd] = Append(out[req.fd], "cgi")]
    BY <1>6 DEF CgiBlock
  <2>2. req.fd \in Conns
    BY <2>1, ServedConnection
  <2>3. out'[req.fd] = Append(out[req.fd], "cgi") /\ out[req.fd] \in Seq({"cgi"})
    BY <2>1, <2>2 DEF TypeOK
  <2>4. out'[req.fd] \in Seq({"cgi"})
    BY <2>3, AppendProperties
  <2> QED
    BY <2>1, <2>4
<1>7. CASE CgiFails
  BY <1>7 DEF CgiFails, peers
<1>8. CASE \E c \in Conns : HangUp(c)
  BY <1>1, <1>8 DEF HangUp, TypeOK
<1> QED
  BY <1>1, <1>2, <1>3, <1>4, <1>5, <1>6, <1>7, <1>8
     DEF Next, Setup, Server, Library, Program, vars, peers, Register, Serve, Peer, Connect, Hello,
         Send, Accept, AcceptFails, TlsAccepted, TlsRefused, ReadFails, ReadBadUrl, ReadUrl, Skip,
         AuthnRefuses, AuthnPasses, VhostsRefuses, VhostsPasses, FsMisses, StreamEnds, Fallback,
         Echo, CgiAborts, CgiEnds, CgiReaped, Killed, Continue, Answer, EndRequest, At

(* What was answered in full stays so, and its peer has nothing to add. *)
LEMMA WholeStays ==
  ASSUME Walk, BacklogQueued, [Next]_vars, NEW c \in Conns, conn[c] = "closed",
         ~gone[c], Whole(c, out[c]), line[c] \in Urls => by[c] # 0
  PROVE  Whole(c, out[c])' /\ (line'[c] \in Urls => by'[c] # 0)
<1> USE DEF Walk, Session
<1>1. pc \in Serving => c # req.fd
  BY ServedConnection
<1>2. out'[c] = out[c] /\ by'[c] = by[c]
  BY <1>1, SendsToServed
<1>3. line'[c] = line[c] /\ cert'[c] = cert[c]
  <2>1. CASE UNCHANGED <<cert, line>>
    BY <2>1
  <2>2. CASE \E d \in Conns : Hello(d) \/ Send(d)
    BY <1>1, <2>2 DEF Hello, Send, TypeOK
  <2> QED
    BY <2>1, <2>2
       DEF Next, Setup, Server, Library, Program, vars, peers, Register, Serve, Peer, Connect,
           HangUp, Accept, AcceptFails, TlsAccepted, TlsRefused, ReadFails, ReadBadUrl, ReadUrl,
           Skip, AuthnRefuses, AuthnPasses, VhostsRefuses, VhostsPasses, FsMisses, FsOpens,
           StreamBlock, StreamEnds, Fallback, Echo, CgiAborts, CgiStarts, CgiBlock, CgiEnds,
           CgiFails, CgiReaped, Killed, Continue, Answer, EndRequest, CloseRequest, At
<1>4. chain' = chain \/ by[c] = 0
  BY DEF Sealed, Next, Setup, Server, Library, Program, vars, peers, Register, Serve, Peer, Connect,
         Hello, Send, HangUp, Accept, AcceptFails, TlsAccepted, TlsRefused, ReadFails, ReadBadUrl,
         ReadUrl, Skip, AuthnRefuses, AuthnPasses, VhostsRefuses, VhostsPasses, FsMisses, FsOpens,
         StreamBlock, StreamEnds, Fallback, Echo, CgiAborts, CgiStarts, CgiBlock, CgiEnds,
         CgiFails, CgiReaped, Killed, Continue, Answer, EndRequest, CloseRequest, At
<1> QED
  BY <1>2, <1>3, <1>4 DEF Whole, AnsweredBy

(* The connection that a step closes was answered in full. *)
LEMMA AnswerWhole ==
  ASSUME Walk, Unspoken, pc = "dispatch", NEW items \in Seq(Items), Answer(items), ~gone[req.fd]
  PROVE  /\ req.fd \in Conns /\ out'[req.fd] = items /\ by'[req.fd] = i /\ i > 0
         /\ UNCHANGED <<chain, cert, line>> /\ req.cert = cert[req.fd]
<1>1. req.fd \in Conns /\ out[req.fd] = <<>>
  BY ServedConnection DEF Unspoken, Walk, Session
<1>2. Write(items) /\ by' = [by EXCEPT ![req.fd] = i] /\ UNCHANGED <<chain, cert, line>>
  BY DEF Answer, EndRequest, peers
<1>3. out' = [out EXCEPT ![req.fd] = items]
  BY <1>1, <1>2, WriteWhole DEF Walk, Session
<1> QED
  BY <1>1, <1>2, <1>3 DEF Walk, Session, TypeOK, WalkInvariant

LEMMA ClosesWhole ==
  ASSUME Walk, Fresh, Unspoken, Sending, [Next]_vars, pc \in Serving, conn'[req.fd] = "closed",
         ~gone'[req.fd], ~Faults, NEW c, c = req.fd
  PROVE  Whole(c, out[c])' /\ (line'[c] \in Urls => by'[c] # 0)
<1> USE SentinelAssumption, ConfigurationAssumption DEF Walk, Session
<1>0. c \in Conns /\ conn[c] = "open" /\ ~gone[c]
  <2>1. c \in Conns /\ conn[c] = "open"
    BY ServedConnection
  <2>2. gone[c] => gone'[c]
    BY <2>1 DEF TypeOK, Next, Setup, Server, Library, Program, vars, peers, Register, Serve,
         Peer, Connect, Hello, Send, HangUp, Accept, AcceptFails, TlsAccepted, TlsRefused, ReadFails,
         ReadBadUrl, ReadUrl, Skip, AuthnRefuses, AuthnPasses, VhostsRefuses, VhostsPasses,
         FsMisses, FsOpens, StreamBlock, StreamEnds, Fallback, Echo, CgiAborts, CgiStarts, CgiBlock,
         CgiEnds, CgiFails, CgiReaped, Killed, Continue, Answer, EndRequest, CloseRequest, At
  <2> QED
    BY <2>1, <2>2
<1>1. CASE TlsRefused \/ ReadFails
  <2>1. pc \in {"tls", "read"} /\ UNCHANGED <<out, by, line>>
        /\ (pc = "read" => line[c] = Overlong)
    BY <1>0, <1>1 DEF TlsRefused, ReadFails, ReadError, peers
  <2>2. by[c] = 0 /\ out[c] = <<>> /\ line[c] \notin Urls \cup {BadUrl}
    BY <1>0, <2>1 DEF Fresh, Unspoken
  <2> QED
    BY <2>1, <2>2 DEF Whole, AnsweredBy
<1>2. CASE ReadBadUrl
  <2>1. <<"50">> \in Seq(Items)
    BY DEF Items, Statuses
  <2>2. /\ pc = "read" /\ line[c] = BadUrl /\ Write(<<"50">>) /\ UNCHANGED <<by, line>>
        /\ out[c] = <<>> /\ by[c] = 0
    BY <1>0, <1>2 DEF ReadBadUrl, Fresh, Unspoken, peers
  <2>3. out'[c] = <<"50">>
    <3>1. /\ TypeOK /\ req.fd \in Conns /\ Write(<<"50">>) /\ out[req.fd] = <<>>
          /\ ~gone[req.fd]
      BY <1>0, <2>2
    <3>2. out' = [out EXCEPT ![req.fd] = <<"50">>]
      BY <2>1, <3>1, WriteWhole
    <3> QED
      BY <1>0, <3>2 DEF TypeOK
  <2> QED
    BY <2>2, <2>3 DEF Whole, AnsweredBy
<1>3. ASSUME NEW items \in Seq(Items), Answer(items),
             At("authn") \/ At("vhosts") \/ At("echo") \/ At("cgi")
  PROVE  /\ out'[c] = items /\ by'[c] # 0 /\ AnsweredBy(c)' = Kind[Handler]
         /\ cert'[c] = cert[c] /\ req.cert = cert[c]
  <2>1. pc = "dispatch" /\ i \in 1..Len(chain)
    BY <1>3 DEF At
  <2>2. /\ out'[c] = items /\ by'[c] = i /\ i > 0 /\ UNCHANGED <<chain, cert>>
        /\ req.cert = cert[c]
    BY <1>0, <1>3, <2>1, AnswerWhole
  <2> QED
    BY <2>1, <2>2 DEF AnsweredBy, Handler
<1>4. \A s \in Statuses : <<s>> \in Seq(Items)
  BY DEF Items
<1>5. CASE AuthnRefuses
  BY <1>3, <1>4, <1>5 DEF AuthnRefuses, At, Handler, Whole, Statuses
<1>6. CASE VhostsRefuses
  BY <1>3, <1>4, <1>6 DEF VhostsRefuses, At, Handler, Whole, Statuses
<1>7. CASE Echo
  <2>1. <<"20", "body">> \in Seq(Items)
    BY DEF Items, Statuses
  <2> QED
    BY <1>3, <1>7, <2>1 DEF Echo, At, Handler, Whole
<1>8. CASE CgiAborts
  BY <1>3, <1>4, <1>8 DEF CgiAborts, At, Handler, Whole, Statuses
<1>9. CASE Fallback
  <2>1. pc = "dispatch" /\ i = Len(chain) + 1 /\ Answer(<<"51">>) /\ Len(chain) \in Nat
    BY <1>9, LenProperties DEF Fallback, TypeOK
  <2>2. out'[c] = <<"51">> /\ by'[c] = i /\ i > 0 /\ chain' = chain
    BY <1>0, <1>4, <2>1, AnswerWhole DEF Statuses
  <2> QED
    BY <2>1, <2>2 DEF Whole, AnsweredBy
<1>10. CASE StreamEnds
  <2>1. pc = "stream" /\ left = 0 /\ UNCHANGED <<out, by, chain>>
    BY <1>0, <1>10 DEF StreamEnds, StreamOver, EndRequest
  <2>2. /\ out[c] = <<"20">> \o Body(FileBlocks) /\ by[c] = i
        /\ i \in 1..Len(chain) /\ Kind[chain[i]] = "fs"
    BY <1>0, <2>1 DEF Sending, WalkInvariant
  <2>3. by'[c] # 0 /\ AnsweredBy(c)' = "fs"
    BY <2>1, <2>2 DEF AnsweredBy
  <2> QED
    BY <2>1, <2>2, <2>3 DEF Whole, Body
<1>11. CASE CgiEnds
  <2>1. pc = "cgi" /\ UNCHANGED <<out, by, chain>>
    BY <1>11 DEF CgiEnds, EndRequest
  <2>2. /\ out[c] \in Seq({"cgi"}) /\ by[c] = i
        /\ i \in 1..Len(chain) /\ Kind[chain[i]] = "cgi"
    BY <2>1 DEF Sending, WalkInvariant
  <2>3. ToSet(out[c]) \subseteq {"cgi"}
    BY <2>2, ElementOfSeq DEF ToSet
  <2>4. by'[c] # 0 /\ AnsweredBy(c)' = "cgi"
    BY <2>1, <2>2 DEF AnsweredBy
  <2> QED
    BY <2>1, <2>3, <2>4 DEF Whole
<1>12. CASE CgiReaped
  BY <1>0, <1>12 DEF CgiReaped, Sending
<1>13. CASE conn'[c] = conn[c]
  BY <1>0, <1>13
<1> QED
  BY <1>0, <1>1, <1>2, <1>5, <1>6, <1>7, <1>8, <1>9, <1>10, <1>11, <1>12, <1>13
     DEF Next, Setup, Server, Library, Program, vars, peers, Register, Serve, Peer, Connect, Hello,
         Send, HangUp, Accept, AcceptFails, TlsAccepted, ReadUrl, Skip, AuthnPasses, VhostsPasses,
         FsMisses, FsOpens, StreamBlock, CgiStarts, CgiBlock, CgiFails, Killed, Continue, At, TypeOK

LEMMA WholeStep ==
  Walk /\ BacklogQueued /\ Fresh /\ Unspoken /\ Sending /\ AnswersAreWhole /\ [Next]_vars
  => AnswersAreWhole'
<1> SUFFICES ASSUME Walk, BacklogQueued, Fresh, Unspoken, Sending, AnswersAreWhole, [Next]_vars,
                    NEW c \in Conns, conn'[c] = "closed", ~gone'[c], ~Faults
             PROVE  Whole(c, out[c])' /\ (line'[c] \in Urls => by'[c] # 0)
  BY DEF AnswersAreWhole
<1>1. CASE conn[c] = "closed"
  <2>1. ~gone[c]
    BY <1>1
       DEF Walk, Session, TypeOK, Next, Setup, Server, Library, Program, vars, peers, Register, Serve,
         Peer, Connect, Hello, Send, HangUp, Accept, AcceptFails, TlsAccepted, TlsRefused,
         ReadFails, ReadBadUrl, ReadUrl, Skip, AuthnRefuses, AuthnPasses, VhostsRefuses,
         VhostsPasses, FsMisses, FsOpens, StreamBlock, StreamEnds, Fallback, Echo, CgiAborts,
         CgiStarts, CgiBlock, CgiEnds, CgiFails, CgiReaped, Killed, Continue, Answer, EndRequest,
         CloseRequest, At
  <2> QED
    BY <1>1, <2>1, WholeStays DEF AnswersAreWhole
<1>2. CASE conn[c] # "closed"
  <2>1. pc \in Serving /\ c = req.fd
    BY <1>2, AcceptFresh
       DEF Walk, Session, TypeOK, Next, Setup, Server, Library, Program, vars, peers, Register, Serve,
         Peer, Connect, Hello, Send, HangUp, Accept, AcceptFails, TlsAccepted, TlsRefused, ReadFails,
         ReadBadUrl, ReadUrl, Skip, AuthnRefuses, AuthnPasses, VhostsRefuses, VhostsPasses,
         FsMisses, FsOpens, StreamBlock, StreamEnds, Fallback, Echo, CgiAborts, CgiStarts, CgiBlock,
         CgiEnds, CgiFails, CgiReaped, Killed, Continue, Answer, EndRequest, CloseRequest, At
  <2> QED
    BY <2>1, ClosesWhole
<1> QED
  BY <1>1, <1>2

(* Whatever a peer asked for, it has got in full when its connection is    *)
(* closed, unless it left or the system failed the server.                 *)
THEOREM AnswersAreWholeHolds == Spec => []AnswersAreWhole
<1> DEFINE IInv == Walk /\ BacklogQueued /\ Fresh /\ Unspoken /\ Sending /\ AnswersAreWhole
<1>1. Init => IInv
  <2> SUFFICES ASSUME Init PROVE IInv
    OBVIOUS
  <2>1. Walk /\ Fresh /\ Unspoken /\ Sending /\ AnswersAreWhole
    BY InitSession DEF Init, Walk, Sealed, WalkInvariant, FirstMatchAnswers, Fresh, Unspoken,
                       Sending, AnswersAreWhole
  <2>2. BacklogQueued
    BY EmptySeq DEF Init, BacklogQueued
  <2> QED
    BY <2>1, <2>2
<1>2. IInv /\ [Next]_vars => IInv'
  <2>1. Walk /\ [Next]_vars => Walk'
    BY TypeStep, SessionStep, WalkStep, AnswerStep DEF Walk, Session
  <2> QED
    BY <2>1, BacklogStep, FreshStep, UnspokenStep, SendingStep, WholeStep DEF Walk
<1>3. IInv => AnswersAreWhole
  OBVIOUS
<1> QED
  BY <1>1, <1>2, <1>3, PTL DEF Spec
=============================================================================
