--------------------------- MODULE Geminon_proofs ---------------------------
(***************************************************************************)
(* What geminon makes of its command line, and the list of handlers from   *)
(* the first registration to its release, for all command lines, all ports *)
(* and all addresses that malloc() may return.                             *)
(***************************************************************************)
EXTENDS Geminon, Induction, TLAPS

Closing == gp \in {"close", "exit0"}

(* The nodes before the k-th have been freed, and those from it on are     *)
(* linked in the order of registration.                                    *)
FreedUpTo(k) ==
  \A n \in Nodes : freed[n] = IF \E j \in 1..k - 1 : order[j] = n THEN 1 ELSE 0
LinkedFrom(k) ==
  \A j \in k..Len(order) : next[order[j]] = IF j = Len(order) THEN Null ELSE order[j + 1]
StandsAt(k) == cur = IF k <= Len(order) THEN order[k] ELSE Null

Ordered ==
  /\ order \in Seq(Nodes)
  /\ \A j, k \in 1..Len(order) : order[j] = order[k] => j = k
  /\ first = IF order = <<>> THEN Null ELSE order[1]
  /\ last  = IF order = <<>> THEN Null ELSE order[Len(order)]
  /\ next \in [Nodes -> Nodes \cup {Null, Junk}] /\ freed \in [Nodes -> Nat]

(* The loop of gemini_server_close() is at some node of the order; the     *)
(* first is where it begins, so that nothing is freed before.              *)
Chain ==
  /\ Ordered
  /\ ~Closing => cur = Null /\ FreedUpTo(1) /\ LinkedFrom(1)
  /\ Closing  => \E k \in 1..Len(order) + 1 : StandsAt(k) /\ FreedUpTo(k) /\ LinkedFrom(k)
  /\ gp = "exit0" => cur = Null

LEMMA ChainInit == Init => Chain
BY DEF Init, ListInit, Chain, Ordered, Closing, FreedUpTo, LinkedFrom

(* Registering a handler appends a node that is in no place of the list.   *)
LEMMA ChainHandle ==
  ASSUME Chain, ~Closing, NEW h, Handle(h), ~Closing'
  PROVE  Chain'
<1> PICK n \in Nodes \ ToSet(order) :
      /\ next' = [m \in Nodes |-> CASE m = n    -> EndOfList(n)
                                    [] m = last -> n
                                    [] OTHER    -> next[m]]
      /\ first' = ListHead(n) /\ last' = n
      /\ order' = Append(order, n)
      /\ UNCHANGED <<freed, cur>>
  BY DEF Handle
<1> DEFINE L == Len(order)
<1>1. order \in Seq(Nodes) /\ L \in Nat /\ \A j \in 1..L : order[j] \in Nodes
  BY DEF Chain, Ordered
<1>2. \A j \in 1..L : order[j] # n
  BY <1>1 DEF ToSet
<1>3. order' \in Seq(Nodes) /\ Len(order') = L + 1
  BY <1>1
<1>4. order'[L + 1] = n /\ \A j \in 1..L : order'[j] = order[j]
  BY <1>1
<1>5. \A j, k \in 1..Len(order') : order'[j] = order'[k] => j = k
  BY <1>1, <1>2, <1>3, <1>4 DEF Chain, Ordered
<1>6. last = IF order = <<>> THEN Null ELSE order[L]
  BY DEF Chain, Ordered
<1>7. first' = order'[1] /\ last' = order'[Len(order')] /\ order' # <<>>
  <2>1. CASE order = <<>>
    BY <1>1, <1>3, <1>4, <2>1 DEF ListHead, Chain, Ordered
  <2>2. CASE order # <<>>
    <3>1. L >= 1 /\ first = order[1] /\ order[1] \in Nodes
      BY <1>1, <2>2 DEF Chain, Ordered
    <3> QED
      BY <1>3, <1>4, <3>1, ListAssumption DEF ListHead
  <2> QED
    BY <2>1, <2>2
<1>8. next' \in [Nodes -> Nodes \cup {Null, Junk}]
  BY DEF EndOfList, Chain, Ordered
<1>9. LinkedFrom(1)'
  <2>0. n # last
    BY <1>1, <1>2, <1>6, ListAssumption
  <2> SUFFICES ASSUME NEW j \in 1..L + 1
               PROVE  next'[order'[j]] = IF j = L + 1 THEN Null ELSE order'[j + 1]
    BY <1>3 DEF LinkedFrom
  <2>1. CASE j = L + 1
    BY <1>4, <2>0, <2>1 DEF EndOfList
  <2>2. CASE j = L /\ j # L + 1
    BY <1>1, <1>2, <1>4, <1>6, <2>2
  <2>3. CASE j < L
    <3>1. order[j] # order[L]
      <4>1. j \in 1..L /\ L \in 1..L /\ j # L
        BY <1>1, <2>3
      <4> QED
        BY <4>1 DEF Chain, Ordered
    <3>2. next[order[j]] = order[j + 1]
      BY <1>1, <2>3 DEF Chain, LinkedFrom
    <3> QED
      BY <1>1, <1>2, <1>4, <1>6, <2>3, <3>1, <3>2
  <2> QED
    BY <1>1, <2>1, <2>2, <2>3
<1>10. FreedUpTo(1)' /\ cur' = Null
  BY <1>1 DEF Chain, FreedUpTo
<1> QED
  BY <1>3, <1>5, <1>7, <1>8, <1>9, <1>10 DEF Chain, Ordered

(* A step that leaves the list alone, and does not end the freeing.        *)
LEMMA ChainKept ==
  ASSUME Chain, UNCHANGED list, Closing' = Closing, gp' = "exit0" => cur = Null
  PROVE  Chain'
BY DEF Chain, Ordered, FreedUpTo, LinkedFrom, StandsAt, list

LEMMA ChainStep == Chain /\ [Next]_vars => Chain'
<1> SUFFICES ASSUME Chain, [Next]_vars PROVE Chain'
  OBVIOUS
<1>1. CASE Starts \/ ConfigureFails \/ Bind \/ Listen \/ Certificate \/ Key \/ Unknown
           \/ Usable \/ Binds \/ TlsLoads \/ ServeFails
  <2>1. UNCHANGED list /\ ~Closing /\ ~Closing'
    BY <1>1 DEF Starts, ConfigureFails, Bind, Listen, Certificate, Key, Unknown, Option,
                Usable, Binds, TlsLoads, ServeFails, Closing
  <2> QED
    BY <2>1, ChainKept DEF Closing
<1>2. CASE Authn \/ Echo \/ ExecOrStatic \/ AddVhosts
  <2>1. ~Closing /\ ~Closing' /\ (UNCHANGED list \/ \E h : Handle(h))
    BY <1>2 DEF Authn, Echo, ExecOrStatic, AddVhosts, Option, Closing
  <2>2. CASE UNCHANGED list
    BY <2>1, <2>2, ChainKept DEF Closing
  <2>3. CASE \E h : Handle(h)
    BY <2>1, <2>3, ChainHandle
  <2> QED
    BY <2>1, <2>2, <2>3
<1>3. CASE ServeReturns
  <2>1. ~Closing /\ Closing' /\ gp' # "exit0"
    BY <1>3 DEF ServeReturns, Closing
  <2>2. cur' = first /\ UNCHANGED <<first, last, next, order, freed>>
    BY <1>3 DEF ServeReturns, CloseBegins, FreeFrom
  <2>3. Len(order) \in Nat /\ (order # <<>> => Len(order) >= 1) /\ (order = <<>> => Len(order) = 0)
    BY DEF Chain, Ordered
  <2>4. StandsAt(1)'
    BY <2>2, <2>3 DEF Chain, Ordered, StandsAt
  <2>5. FreedUpTo(1)' /\ LinkedFrom(1)'
    BY <2>1, <2>2 DEF Chain, FreedUpTo, LinkedFrom
  <2>6. Ordered'
    BY <2>2 DEF Chain, Ordered
  <2>7. 1 \in 1..Len(order') + 1
    BY <2>2, <2>3
  <2> QED
    BY <2>1, <2>4, <2>5, <2>6, <2>7 DEF Chain
<1>4. CASE CloseFrees
  <2>1. Closing /\ Closing' /\ gp' # "exit0" /\ cur # Null
    BY <1>4 DEF CloseFrees, FreeNode, Closing
  <2>2. PICK k \in 1..Len(order) + 1 : StandsAt(k) /\ FreedUpTo(k) /\ LinkedFrom(k)
    BY <2>1 DEF Chain
  <2> DEFINE L == Len(order)
  <2>3. /\ L \in Nat /\ \A j \in 1..L : order[j] \in Nodes
        /\ \A j, l \in 1..L : order[j] = order[l] => j = l
    BY DEF Chain, Ordered
  <2>4. k \in 1..L /\ cur = order[k]
    BY <2>1, <2>2, <2>3 DEF StandsAt
  <2>5. /\ freed' = [freed EXCEPT ![cur] = @ + 1]
        /\ next' = [next EXCEPT ![cur] = Junk]
        /\ cur' = next[cur]
        /\ UNCHANGED <<first, last, order>>
    BY <1>4 DEF CloseFrees, FreeNode, NextOfNode
  <2>6. Ordered'
    BY <2>3, <2>4, <2>5 DEF Chain, Ordered
  <2>7. StandsAt(k + 1)'
    BY <2>2, <2>3, <2>4, <2>5 DEF StandsAt, LinkedFrom
  <2>8. FreedUpTo(k + 1)'
    <3> SUFFICES ASSUME NEW n \in Nodes
                 PROVE  freed'[n] = IF \E j \in 1..k : order[j] = n THEN 1 ELSE 0
      BY <2>4, <2>5 DEF FreedUpTo
    <3>1. freed[n] = IF \E j \in 1..k - 1 : order[j] = n THEN 1 ELSE 0
      BY <2>2 DEF FreedUpTo
    <3>2. CASE n = order[k]
      <4>1. ~ \E j \in 1..k - 1 : order[j] = n
        BY <2>3, <2>4, <3>2
      <4>2. freed[n] = 0
        BY <3>1, <4>1
      <4>3. freed'[n] = freed[n] + 1
        BY <2>4, <2>5, <3>2 DEF Chain, Ordered
      <4> QED
        BY <2>4, <3>2, <4>2, <4>3
    <3>3. CASE n # order[k]
      <4>1. freed'[n] = freed[n]
        BY <2>4, <2>5, <3>3 DEF Chain, Ordered
      <4>2. (\E j \in 1..k : order[j] = n) <=> (\E j \in 1..k - 1 : order[j] = n)
        BY <2>4, <3>3
      <4> QED
        BY <3>1, <4>1, <4>2
    <3> QED
      BY <3>2, <3>3
  <2>9. LinkedFrom(k + 1)'
    <3> SUFFICES ASSUME NEW j \in k + 1..L
                 PROVE  next'[order[j]] = IF j = L THEN Null ELSE order[j + 1]
      BY <2>5 DEF LinkedFrom
    <3>1. j \in 1..L /\ order[j] # order[k] /\ order[j] \in Nodes
      BY <2>3, <2>4
    <3>2. next'[order[j]] = next[order[j]]
      BY <2>4, <2>5, <3>1 DEF Chain, Ordered
    <3>3. next[order[j]] = IF j = L THEN Null ELSE order[j + 1]
      BY <2>2, <2>4 DEF LinkedFrom
    <3> QED
      BY <3>2, <3>3
  <2>10. k + 1 \in 1..Len(order') + 1
    BY <2>3, <2>4, <2>5
  <2> QED
    BY <2>1, <2>6, <2>7, <2>8, <2>9, <2>10 DEF Chain
<1>5. CASE Closes
  BY <1>5, ChainKept DEF Closes, Closing
<1>6. CASE UNCHANGED vars
  BY <1>6, ChainKept DEF vars, list, Closing, Chain
<1> QED
  BY <1>1, <1>2, <1>3, <1>4, <1>5, <1>6 DEF Next

LEMMA ChainInvariant == Spec => []Chain
BY ChainInit, ChainStep, PTL DEF Spec

-----------------------------------------------------------------------------
(* The pointers spell the order of registration as long as nothing was     *)
(* freed: what GeminiServer calls the chain is what gemini_serve() walks.  *)
THEOREM ListIsOrderHolds == Spec => []ListIsOrder
<1>1. Chain => ListIsOrder
  <2> SUFFICES ASSUME Chain, \A n \in Nodes : Live(n) PROVE ListIsOrder
    BY DEF ListIsOrder
  <2>1. Len(order) \in Nat /\ \A j \in 1..Len(order) : order[j] \in Nodes
    BY DEF Chain, Ordered
  <2>2. LinkedFrom(1)
    <3>1. CASE ~Closing
      BY <3>1 DEF Chain
    <3>2. CASE Closing
      <4>1. PICK k \in 1..Len(order) + 1 : FreedUpTo(k) /\ LinkedFrom(k)
        BY <3>2 DEF Chain
      <4>2. k = 1
        <5> SUFFICES ASSUME k # 1 PROVE FALSE
          OBVIOUS
        <5>1. 1 \in 1..k - 1 /\ order[1] \in Nodes
          BY <2>1
        <5>2. freed[order[1]] = 1
          BY <4>1, <5>1 DEF FreedUpTo
        <5> QED
          BY <5>1, <5>2 DEF Live
      <4> QED
        BY <4>1, <4>2
    <3> QED
      BY <3>1, <3>2
  <2> QED
    BY <2>1, <2>2 DEF ListIsOrder, LinkedFrom, Chain, Ordered
<1> QED
  BY <1>1, ChainInvariant, PTL

(* gemini_server_close() frees every node once, and reads none after that. *)
THEOREM FreedOnceHolds == Spec => []FreedOnce
<1>1. Chain => FreedOnce
  <2> SUFFICES ASSUME Chain PROVE FreedOnce
    OBVIOUS
  <2>1. Len(order) \in Nat /\ \A j \in 1..Len(order) : order[j] \in Nodes
    BY DEF Chain, Ordered
  <2>2. ToSet(order) = {order[j] : j \in 1..Len(order)}
    BY DEF ToSet, Chain, Ordered
  <2>3. PICK k \in 1..Len(order) + 1 : FreedUpTo(k) /\ (cur = Null \/ StandsAt(k))
    BY <2>1 DEF Chain
  <2>4. ASSUME NEW n \in Nodes
        PROVE  freed[n] <= (IF n \in ToSet(order) THEN 1 ELSE 0)
    <3>1. freed[n] = IF \E j \in 1..k - 1 : order[j] = n THEN 1 ELSE 0
      BY <2>3 DEF FreedUpTo
    <3>2. (\E j \in 1..k - 1 : order[j] = n) => n \in ToSet(order)
      BY <2>1, <2>2
    <3> QED
      BY <3>1, <3>2
  <2>5. ASSUME cur # Null PROVE cur \in ToSet(order) /\ Live(cur)
    <3>1. k \in 1..Len(order) /\ cur = order[k]
      BY <2>1, <2>3, <2>5 DEF StandsAt
    <3>2. ~ \E j \in 1..k - 1 : order[j] = cur
      BY <2>1, <3>1 DEF Chain, Ordered
    <3>3. cur \in Nodes /\ freed[cur] = 0
      BY <2>1, <2>3, <3>1, <3>2 DEF FreedUpTo
    <3> QED
      BY <2>2, <3>1, <3>3 DEF Live
  <2> QED
    BY <2>4, <2>5 DEF FreedOnce
<1> QED
  BY <1>1, ChainInvariant, PTL

(* When gemini_server_close() is done, all nodes have been freed.          *)
THEOREM AllFreedHolds == Spec => []AllFreed
<1>1. Chain => AllFreed
  <2> SUFFICES ASSUME Chain, gp = "exit0", NEW n \in ToSet(order) PROVE freed[n] = 1
    BY DEF AllFreed
  <2>1. Len(order) \in Nat /\ \A j \in 1..Len(order) : order[j] \in Nodes
    BY DEF Chain, Ordered
  <2>2. PICK j \in 1..Len(order) : order[j] = n
    BY DEF ToSet, Chain, Ordered
  <2>3. PICK k \in 1..Len(order) + 1 : StandsAt(k) /\ FreedUpTo(k)
    BY DEF Chain, Closing
  <2>4. k = Len(order) + 1
    BY <2>1, <2>3, ListAssumption DEF StandsAt, Chain
  <2>5. j \in 1..k - 1
    BY <2>1, <2>2, <2>4
  <2> QED
    BY <2>1, <2>2, <2>3, <2>5 DEF FreedUpTo
<1> QED
  BY <1>1, ChainInvariant, PTL

-----------------------------------------------------------------------------
Slots == nvhosts \in Nat /\ cap \in Nat /\ VhostsFit

LEMMA SlotsInvariant == Spec => []Slots
<1>1. Init => Slots
  BY GeminonAssumption DEF Init, Slots, VhostsFit
<1>2. Slots /\ [Next]_vars => Slots'
  <2> SUFFICES ASSUME Slots, [Next]_vars PROVE Slots'
    OBVIOUS
  <2>1. CASE Bind
    BY <2>1, GeminonAssumption DEF Bind, ArrayFull, Slots, VhostsFit
  <2>2. CASE UNCHANGED <<nvhosts, cap>>
    BY <2>2 DEF Slots, VhostsFit
  <2>3. CASE Authn \/ Echo \/ ExecOrStatic \/ Listen \/ Certificate \/ Key \/ Unknown
             \/ Starts \/ ConfigureFails \/ Usable \/ AddVhosts \/ Binds \/ TlsLoads
             \/ ServeFails \/ ServeReturns \/ CloseFrees \/ Closes \/ UNCHANGED vars
    BY <2>2, <2>3 DEF Authn, Echo, ExecOrStatic, Listen, Certificate, Key, Unknown,
          Starts, ConfigureFails, Usable, AddVhosts, Binds, TlsLoads,
          ServeFails, ServeReturns, CloseFrees, Closes, vars, options
  <2> QED
    BY <2>1, <2>3 DEF Next
<1> QED
  BY <1>1, <1>2, PTL DEF Spec

(* However many -b there are, none is stored behind the array. *)
THEOREM VhostsFitHolds == Spec => []VhostsFit
<1>1. Slots => VhostsFit
  BY DEF Slots
<1> QED
  BY <1>1, SlotsInvariant, PTL
-----------------------------------------------------------------------------
OptionRecord == [opt : Content \cup {"A", "b", "l", "c", "k", "?"},
                 arg : PortTexts \cup {Unset}]
Phases == {"start", "options", "vhosts", "bind", "tls", "serve", "close",
           "exit0", "exit1", "exit4"}

(* An int is what it is read from, where that is a port. *)
LEMMA IntRange ==
  ASSUME NEW n \in Int
  PROVE  /\ AsInt(n) \in -(IntMod \div 2)..(IntMod \div 2)
         /\ n \in 0..PortMod - 1 => AsInt(n) = n
<1> DEFINE h == IntMod \div 2
           m == (n + h) % IntMod
<1>1. IntMod \in Nat \ {0} /\ PortMod \in Nat \ {0} /\ 2 * PortMod <= IntMod
  BY GeminonAssumption
<1>2. h \in Nat /\ 2 * h <= IntMod /\ IntMod <= 2 * h + 1
  BY <1>1
<1> HIDE DEF h
<1>3. m \in 0..IntMod - 1
  BY <1>1, <1>2
<1>4. ASSUME n \in 0..PortMod - 1 PROVE m = n + h
  <2>1. 0 <= n + h /\ n + h < IntMod
    BY <1>1, <1>2, <1>4
  <2> QED
    BY <1>1, <1>2, <2>1
<1> HIDE DEF m
<1>5. AsInt(n) = m - h
  BY DEF AsInt, m, h
<1>6. -h <= m - h /\ m - h <= h /\ m - h \in Int /\ -h \in Int
  BY <1>1, <1>2, <1>3
<1>7. m - h \in -h..h
  BY <1>2, <1>6
<1>8. n \in 0..PortMod - 1 => m - h = n
  BY <1>2, <1>4
<1> QED
  BY <1>5, <1>7, <1>8 DEF h

(* What is on the command line after one more option. *)
LEMMA OneMore ==
  ASSUME given \in Seq(OptionRecord), NEW r \in OptionRecord, given' = Append(given, r)
  PROVE  /\ given' \in Seq(OptionRecord) /\ Len(given) \in Nat /\ Len(given') = Here
         /\ given'[Here] = r /\ \A k \in 1..Len(given) : given'[k] = given[k]
         /\ \A kinds : Places(kinds) \subseteq 1..Len(given)
         /\ \A kinds : Places(kinds)' = IF r.opt \in kinds THEN Places(kinds) \cup {Here}
                                                           ELSE Places(kinds)
<1>1. /\ given' \in Seq(OptionRecord) /\ Len(given) \in Nat /\ Len(given') = Here
      /\ given'[Here] = r /\ \A k \in 1..Len(given) : given'[k] = given[k]
  BY DEF Here
<1>2. 1..Len(given') = 1..Len(given) \cup {Here} /\ Here \notin 1..Len(given)
  BY <1>1 DEF Here
<1>3. ASSUME NEW kinds
      PROVE  Places(kinds)' = IF r.opt \in kinds THEN Places(kinds) \cup {Here}
                                                 ELSE Places(kinds)
  <2>1. Places(kinds)' = {k \in 1..Len(given') : given'[k].opt \in kinds}
    BY DEF Places
  <2> QED
    BY <1>1, <1>2, <2>1 DEF Places
<1> QED
  BY <1>1, <1>3 DEF Places

(* The handlers of the list after one more registration. *)
LEMMA HandlersAfter ==
  ASSUME Ordered, what \in [Nodes -> Int], NEW h \in Int, Handle(h)
  PROVE  /\ what' \in [Nodes -> Int] /\ Len(order) \in Nat /\ Len(order') = Len(order) + 1
         /\ \A k \in 1..Len(order') : Handler(k)' = IF k = Len(order') THEN h ELSE Handler(k)
<1>1. PICK n \in Nodes \ ToSet(order) : what' = [what EXCEPT ![n] = h] /\ order' = Append(order, n)
  BY DEF Handle
<1>2. order \in Seq(Nodes) /\ Len(order) \in Nat /\ \A k \in 1..Len(order) : order[k] \in Nodes
  BY DEF Ordered
<1>3. \A k \in 1..Len(order) : order[k] # n
  BY <1>1, <1>2 DEF ToSet
<1>4. Len(order') = Len(order) + 1 /\ order'[Len(order) + 1] = n
      /\ \A k \in 1..Len(order) : order'[k] = order[k]
  BY <1>1, <1>2
<1>5. what' \in [Nodes -> Int] /\ what'[n] = h /\ \A m \in Nodes \ {n} : what'[m] = what[m]
  BY <1>1
<1>6. \A k \in 1..Len(order') : Handler(k)' = what'[order'[k]]
  BY DEF Handler
<1>7. \A k \in 1..Len(order') : k = Len(order') \/ k \in 1..Len(order)
  BY <1>2, <1>4
<1> QED
  BY <1>2, <1>3, <1>4, <1>5, <1>6, <1>7 DEF Handler

-----------------------------------------------------------------------------
(* How the list grows with the command line: the vhosts are not in it      *)
(* before the server is about to bind its socket.                          *)
Placed ==
  /\ given \in Seq(OptionRecord) /\ what \in [Nodes -> Int] /\ nvhosts \in Nat
  /\ nvhosts > 0 <=> Places({"b"}) # {}
  /\ lost \subseteq Places({"X", "S"})
  /\ gp \in {"start", "options", "vhosts"} => \A n \in Nat : n = Len(order) => Walks(n)
  /\ gp \in {"bind", "tls", "serve"} =>
       \A n \in Nat : n = Len(order) =>
         IF Places({"b"}) = {} THEN Walks(n) ELSE n > 0 /\ Handler(n) = 0 /\ Walks(n - 1)

LEMMA PlacedInit == Init => Placed
<1> SUFFICES ASSUME Init PROVE Placed
  OBVIOUS
<1>1. given = <<>> /\ order = <<>> /\ Len(given) = 0 /\ Len(order) = 0 /\ lost = {}
      /\ nvhosts = 0 /\ gp = "start" /\ what \in [Nodes -> Int] /\ given \in Seq(OptionRecord)
  BY DEF Init, ListInit
<1>2. \A kinds : Places(kinds) = {}
  BY <1>1 DEF Places
<1>3. \A n \in Nat : n = 0 => Walks(n)
  BY <1>1, <1>2 DEF Walks
<1> QED
  BY <1>1, <1>2, <1>3 DEF Placed

(* What the last handler adds to a list that is in the order of the        *)
(* command line.                                                           *)
LEMMA WalksOn ==
  ASSUME NEW L \in Nat, Walks(L), Ordered, what \in [Nodes -> Int], L = Len(order),
         given \in Seq(OptionRecord), NEW o \in Content \cup {"A"}, Option(o, Unset),
         Handle(Here), UNCHANGED lost, lost \subseteq 1..Len(given)
  PROVE  L + 1 = Len(order') /\ \A n \in Nat : n = L + 1 => Walks(n)'
<1> DEFINE here == Here
           kinds == Content \cup {"A"}
<1>1. here \in Nat /\ here = Len(given) + 1
  BY DEF Here
<1>2. /\ Len(order') = L + 1
      /\ \A k \in 1..L + 1 : Handler(k)' = IF k = L + 1 THEN here ELSE Handler(k)
  <2> HIDE DEF here
  <2>1. Handle(here)
    BY DEF here
  <2> QED
    BY <1>1, <2>1, HandlersAfter
<1>3. Places(kinds)' = Places(kinds) \cup {here} /\ Places(kinds) \subseteq 1..Len(given)
  <2>1. [opt |-> o, arg |-> Unset] \in OptionRecord
    BY DEF OptionRecord
  <2> HIDE DEF kinds
  <2>2. [opt |-> o, arg |-> Unset].opt \in kinds
    BY DEF kinds
  <2> QED
    BY <2>1, <2>2, OneMore DEF Option
<1> HIDE DEF here, kinds
<1>4. /\ {Handler(k) : k \in 1..L} = Places(kinds) \ lost
      /\ \A j, k \in 1..L : j < k => Handler(j) < Handler(k)
  BY DEF Walks, kinds
<1>5. ASSUME NEW n \in Nat, n = L + 1 PROVE Walks(n)'
  <2>1. {Handler(k)' : k \in 1..n} = (Places(kinds)') \ lost'
    <3>1. \A k \in 1..L : k \in 1..n /\ Handler(k)' = Handler(k)
      BY <1>2, <1>5
    <3>2. n \in 1..n /\ Handler(n)' = here /\ \A k \in 1..n : k = n \/ k \in 1..L
      BY <1>2, <1>5
    <3>3. here \notin lost
      BY <1>1
    <3> QED
      BY <1>3, <1>4, <3>1, <3>2, <3>3
  <2>2. ASSUME NEW j \in 1..n, NEW k \in 1..n, j < k PROVE Handler(j)' < Handler(k)'
    <3>1. j \in 1..L /\ Handler(j)' = Handler(j)
      BY <1>2, <1>5, <2>2
    <3>2. CASE k = n
      <4>1. Handler(k)' = here
        BY <1>2, <1>5, <3>2
      <4>2. Handler(j) \in 1..Len(given)
        BY <1>3, <1>4, <3>1
      <4> QED
        BY <1>1, <3>1, <4>1, <4>2
    <3>3. CASE k # n
      <4>1. k \in 1..L /\ Handler(k)' = Handler(k)
        BY <1>2, <1>5, <3>3
      <4> QED
        BY <1>4, <2>2, <3>1, <4>1
    <3> QED
      BY <3>2, <3>3
  <2> QED
    BY <2>1, <2>2 DEF Walks, kinds
<1> QED
  BY <1>2, <1>5

LEMMA WalksStill ==
  ASSUME UNCHANGED <<order, what, lost, Places(Content \cup {"A"})>>
  PROVE  \A n \in Int : Walks(n)' = Walks(n) /\ Handler(n)' = Handler(n)
BY DEF Walks, Handler

(* A step that registers nothing. *)
LEMMA PlacedKept ==
  ASSUME Placed, UNCHANGED <<given, order, what, lost, nvhosts>>,
         \/ gp' \in {"close", "exit0", "exit1", "exit4"} \cup {gp}
         \/ <<gp, gp'>> \in {<<"start", "options">>, <<"options", "vhosts">>,
                            <<"bind", "tls">>, <<"tls", "serve">>}
  PROVE  Placed'
<1>1. \A kinds : Places(kinds)' = Places(kinds)
  BY DEF Places
<1>2. \A n \in Int : Walks(n)' = Walks(n) /\ Handler(n)' = Handler(n)
  BY <1>1, WalksStill
<1>3. \A n \in Nat : n - 1 \in Int
  OBVIOUS
<1> QED
  BY <1>1, <1>2, <1>3 DEF Placed

(* An option that asks for no handler of its own. *)
LEMMA PlacedOption ==
  ASSUME Placed, gp' = gp, UNCHANGED <<order, what, lost>>,
         NEW o \in {"b", "l", "c", "k", "?"}, NEW arg \in PortTexts \cup {Unset}, Option(o, arg),
         nvhosts' = IF o = "b" THEN nvhosts + 1 ELSE nvhosts
  PROVE  Placed'
<1> DEFINE r == [opt |-> o, arg |-> arg]
<1>1. r \in OptionRecord /\ r.opt = o
  BY DEF OptionRecord
<1>2. gp = "options" /\ given' = Append(given, r)
  BY DEF Option
<1>3. /\ given' \in Seq(OptionRecord)
      /\ \A kinds : Places(kinds)' = IF o \in kinds THEN Places(kinds) \cup {Here}
                                                  ELSE Places(kinds)
  <2> HIDE DEF r
  <2> QED
    BY <1>1, <1>2, OneMore DEF Placed
<1>4. UNCHANGED <<Places(Content \cup {"A"}), Places({"X", "S"})>>
  BY <1>3 DEF Content
<1>5. \A n \in Int : Walks(n)' = Walks(n)
  BY <1>4, WalksStill
<1>6. nvhosts' \in Nat /\ (nvhosts' > 0 <=> (Places({"b"})') # {})
  <2>1. CASE o = "b"
    <3>1. nvhosts \in Nat /\ nvhosts' = nvhosts + 1
      BY <2>1 DEF Placed
    <3>2. Here \in Places({"b"})'
      <4>1. Places({"b"})' = Places({"b"}) \cup {Here}
        BY <1>3, <2>1
      <4> QED
        BY <4>1
    <3>3. (Places({"b"})') # {}
      BY <3>2
    <3> QED
      BY <3>1, <3>3
  <2>2. CASE o # "b"
    BY <1>3, <2>2 DEF Placed
  <2> QED
    BY <2>1, <2>2
<1>7. UNCHANGED <<what, lost, order>> /\ gp' = "options"
  BY <1>2
<1> QED
  BY <1>3, <1>4, <1>5, <1>6, <1>7 DEF Placed

(* An option that asks for one. *)
LEMMA PlacedHandler ==
  ASSUME Placed, Ordered, gp' = gp, nvhosts' = nvhosts, NEW o \in Content \cup {"A"},
         Option(o, Unset),
         \/ Handle(Here) /\ UNCHANGED lost
         \/ o \in {"X", "S"} /\ lost' = lost \cup {Here} /\ UNCHANGED list
  PROVE  Placed'
<1> DEFINE r == [opt |-> o, arg |-> Unset]
<1>1. r \in OptionRecord /\ r.opt = o
  BY DEF OptionRecord
<1>2. gp = "options" /\ given' = Append(given, r)
  BY DEF Option
<1>3. /\ given' \in Seq(OptionRecord) /\ Len(given) \in Nat
      /\ \A kinds : Places(kinds) \subseteq 1..Len(given)
      /\ \A kinds : Places(kinds)' = IF o \in kinds THEN Places(kinds) \cup {Here}
                                                  ELSE Places(kinds)
  <2> HIDE DEF r
  <2> QED
    BY <1>1, <1>2, OneMore DEF Placed
<1>4. nvhosts' > 0 <=> (Places({"b"})') # {}
  BY <1>3 DEF Placed, Content
<1>5. (lost \subseteq Places({"X", "S"})) /\ (lost' \subseteq Places({"X", "S"})')
  BY <1>3 DEF Placed
<1>6. Len(order) \in Nat /\ Walks(Len(order))
  BY <1>2 DEF Placed, Ordered
<1>7. CASE Handle(Here) /\ UNCHANGED lost
  <2>1. lost \subseteq 1..Len(given) /\ what \in [Nodes -> Int]
    BY <1>3, <1>5 DEF Placed
  <2>2. \A n \in Nat : n = Len(order') => Walks(n)'
    <3> DEFINE L == Len(order)
    <3>1. L \in Nat /\ L = Len(order) /\ Walks(L)
      BY <1>6
    <3> HIDE DEF L
    <3> QED
      BY <1>7, <2>1, <3>1, WalksOn DEF Placed
  <2>3. what' \in [Nodes -> Int]
    <3>1. Here \in Int
      BY <1>3 DEF Here
    <3> QED
      BY <1>7, <2>1, <3>1, HandlersAfter
  <2> QED
    BY <1>2, <1>3, <1>4, <1>5, <2>2, <2>3 DEF Placed
<1>8. CASE o \in {"X", "S"} /\ lost' = lost \cup {Here} /\ UNCHANGED list
  <2>1. UNCHANGED <<order, what>>
    BY <1>8 DEF list
  <2>2. Here \notin Places(Content \cup {"A"})
    BY <1>3 DEF Here
  <2>3. Places(Content \cup {"A"})' \ lost' = Places(Content \cup {"A"}) \ lost
    BY <1>3, <1>8, <2>2 DEF Content
  <2>4. \A n \in Int : Walks(n)' = Walks(n)
    BY <2>1, <2>3 DEF Walks, Handler
  <2> QED
    BY <1>2, <1>3, <1>4, <1>5, <2>1, <2>4 DEF Placed
<1> QED
  BY <1>7, <1>8

(* The vhosts come behind all of them. *)
LEMMA PlacedVhosts ==
  ASSUME Placed, Ordered, AddVhosts
  PROVE  Placed'
<1>1. gp = "vhosts" /\ gp' = "bind" /\ UNCHANGED <<given, nvhosts, lost>>
  BY DEF AddVhosts, options
<1>2. \A kinds : Places(kinds)' = Places(kinds)
  BY <1>1 DEF Places
<1>3. Len(order) \in Nat /\ Walks(Len(order))
  BY <1>1 DEF Placed, Ordered
<1>4. CASE nvhosts > 0
  <2>1. Handle(0) /\ Places({"b"}) # {}
    BY <1>4 DEF AddVhosts, VhostsGiven, Placed
  <2>2. PICK L \in Nat : L = Len(order)
    BY <1>3
  <2>3. /\ what' \in [Nodes -> Int] /\ Len(order') = L + 1
        /\ \A k \in 1..L + 1 : Handler(k)' = IF k = L + 1 THEN 0 ELSE Handler(k)
    BY <2>1, <2>2, HandlersAfter DEF Placed
  <2>4. \A k \in 1..L : Handler(k)' = Handler(k)
    BY <2>2, <2>3
  <2>5. Walks(L)'
    <3>1. Walks(L)
      BY <1>3, <2>2
    <3>2. {Handler(k)' : k \in 1..L} = {Handler(k) : k \in 1..L}
      BY <2>4
    <3> QED
      BY <1>1, <1>2, <2>4, <3>1, <3>2 DEF Walks
  <2>6. ASSUME NEW n \in Nat, n = L + 1 PROVE n > 0 /\ Handler(n)' = 0 /\ Walks(n - 1)'
    <3>1. n - 1 = L /\ n \in 1..L + 1
      BY <2>2, <2>6
    <3> QED
      BY <2>2, <2>3, <2>5, <2>6, <3>1
  <2> QED
    BY <1>1, <1>2, <2>1, <2>3, <2>6 DEF Placed
<1>5. CASE ~ (nvhosts > 0)
  <2>1. UNCHANGED list /\ Places({"b"}) = {}
    BY <1>5 DEF AddVhosts, VhostsGiven, Placed
  <2>2. UNCHANGED <<order, what>>
    BY <2>1 DEF list
  <2>3. \A n \in Int : Walks(n)' = Walks(n)
    BY <1>1, <1>2, <2>2, WalksStill
  <2> QED
    BY <1>1, <1>2, <2>1, <2>2, <2>3 DEF Placed
<1> QED
  BY <1>4, <1>5

LEMMA PlacedStep == Placed /\ Ordered /\ [Next]_vars => Placed'
<1> SUFFICES ASSUME Placed, Ordered, [Next]_vars PROVE Placed'
  OBVIOUS
<1>1. CASE Starts \/ ConfigureFails \/ Usable \/ Binds \/ TlsLoads \/ ServeFails
  <2>1. UNCHANGED <<given, order, what, lost, nvhosts>>
    BY <1>1 DEF Starts, ConfigureFails, Usable, Binds, TlsLoads, ServeFails, list, options
  <2>2. \/ gp' \in {"exit1", "exit4"}
        \/ <<gp, gp'>> \in {<<"start", "options">>, <<"options", "vhosts">>,
                           <<"bind", "tls">>, <<"tls", "serve">>}
    BY <1>1 DEF Starts, ConfigureFails, Usable, Binds, TlsLoads, ServeFails
  <2> QED
    BY <2>1, <2>2, PlacedKept
<1>2. CASE ServeReturns \/ CloseFrees \/ Closes \/ UNCHANGED vars
  BY <1>2, PlacedKept
  DEF ServeReturns, CloseBegins, CloseFrees, FreeNode, Closes, vars, list, options
<1>3. CASE Bind
  BY <1>3, PlacedOption DEF Bind, list
<1>4. CASE Listen
  <2>1. PICK text \in PortTexts : Option("l", text)
    BY <1>4 DEF Listen
  <2>2. gp' = gp /\ UNCHANGED <<order, what, lost, nvhosts>>
    BY <1>4 DEF Listen, list
  <2> QED
    BY <2>1, <2>2, PlacedOption
<1>5. CASE Certificate
  BY <1>5, PlacedOption DEF Certificate, list
<1>6. CASE Key
  BY <1>6, PlacedOption DEF Key, list
<1>7. CASE Unknown
  BY <1>7, PlacedOption DEF Unknown, list
<1>8. CASE Authn \/ Echo
  BY <1>8, PlacedHandler DEF Authn, Echo, Content
<1>9. CASE ExecOrStatic
  BY <1>9, PlacedHandler DEF ExecOrStatic, Content
<1>10. CASE AddVhosts
  BY <1>10, PlacedVhosts
<1> QED
  BY <1>1, <1>2, <1>3, <1>4, <1>5, <1>6, <1>7, <1>8, <1>9, <1>10 DEF Next

LEMMA PlacedInvariant == Spec => []Placed
<1>1. Chain => Ordered
  BY DEF Chain
<1> QED
  BY <1>1, PlacedInit, PlacedStep, ChainInvariant, PTL DEF Spec

(* However the options are mixed and wherever memory ran out, the server   *)
(* walks the handlers in the order of the command line, the vhosts last.   *)
THEOREM ChainIsCommandLineHolds == Spec => []ChainIsCommandLine
<1>1. Placed /\ Ordered => ChainIsCommandLine
  <2> SUFFICES ASSUME Placed, Ordered, gp = "serve" PROVE ChainIsCommandLine
    BY DEF ChainIsCommandLine
  <2>1. Len(order) \in Nat
    BY DEF Ordered
  <2> QED
    BY <2>1 DEF Placed, ChainIsCommandLine
<1>2. Chain => Ordered
  BY DEF Chain
<1> QED
  BY <1>1, <1>2, PlacedInvariant, ChainInvariant, PTL

-----------------------------------------------------------------------------
(* What the options come to, and what is checked and done on the way from  *)
(* them to gemini_serve().                                                 *)
LastListen(m) == m \in Places({"l"}) /\ \A k \in Places({"l"}) : k <= m

Settled ==
  /\ handlers \in Nat /\ (handlers > 0 => Places(Content) # {})
  /\ \A k \in Places({"l"}) : given[k].arg \in PortTexts
  /\ Places({"l"}) = {} => port = 0
  /\ \A m \in Nat : LastListen(m) => port = ReadPort(given[m].arg)
  /\ gp \in {"vhosts", "bind", "tls", "serve"} => cert /\ key /\ handlers > 0
  /\ gp \in {"tls", "serve"} => sock = (IF port = 0 THEN DefaultPort ELSE port) % PortMod
  /\ gp = "serve" => tls

LEMMA SettledInit == Init => Settled
<1> SUFFICES ASSUME Init PROVE Settled
  OBVIOUS
<1>1. given = <<>> /\ Len(given) = 0
  BY DEF Init
<1>2. \A kinds : Places(kinds) = {}
  BY <1>1 DEF Places
<1> QED
  BY <1>2 DEF Init, Settled, LastListen

(* An option, in the loop. *)
Takes(o, arg) ==
  /\ [opt |-> o, arg |-> arg] \in OptionRecord /\ Option(o, arg) /\ gp' = gp
  /\ handlers' = IF o \in Content THEN handlers + 1 ELSE handlers
  /\ IF o = "l" THEN arg \in PortTexts /\ port' = ReadPort(arg) ELSE port' = port

LEMMA SettledOption ==
  ASSUME Placed, Settled, NEW o, NEW arg, Takes(o, arg)
  PROVE  Settled'
<1> USE DEF Takes
<1> DEFINE r == [opt |-> o, arg |-> arg]
<1>1. r \in OptionRecord /\ r.opt = o /\ r.arg = arg
  OBVIOUS
<1>2. gp = "options" /\ gp' = "options" /\ given' = Append(given, r)
  BY DEF Option
<1>3. /\ Len(given) \in Nat /\ given'[Here] = r
      /\ \A k \in 1..Len(given) : given'[k] = given[k]
      /\ \A kinds : Places(kinds) \subseteq 1..Len(given)
      /\ \A kinds : Places(kinds)' = IF o \in kinds THEN Places(kinds) \cup {Here}
                                                  ELSE Places(kinds)
  <2> HIDE DEF r
  <2> QED
    BY <1>1, <1>2, OneMore DEF Placed
<1>4. Here \in Nat /\ \A k \in 1..Len(given) : k < Here
  BY <1>3 DEF Here
<1> HIDE DEF r
<1>5. handlers' \in Nat /\ (handlers' > 0 => (Places(Content)') # {})
  <2>1. CASE o \notin Content
    BY <1>3, <2>1 DEF Settled
  <2>2. CASE o \in Content
    <3>1. Here \in Places(Content)'
      BY <1>3, <2>2
    <3> QED
      BY <2>2, <3>1 DEF Settled
  <2> QED
    BY <2>1, <2>2
<1>6. /\ \A k \in Places({"l"})' : given'[k].arg \in PortTexts
      /\ (Places({"l"})') = {} => port' = 0
      /\ \A m \in Nat : LastListen(m)' => port' = ReadPort(given'[m].arg)
  <2>1. CASE o = "l"
    <3>1. (Places({"l"})') = Places({"l"}) \cup {Here}
      BY <1>3, <2>1
    <3>2. ASSUME NEW k \in Places({"l"})' PROVE given'[k].arg \in PortTexts
      <4>1. CASE k = Here
        BY <1>1, <1>3, <2>1, <4>1
      <4>2. CASE k # Here
        <5>1. k \in Places({"l"}) /\ k \in 1..Len(given)
          BY <1>3, <3>1, <4>2
        <5> QED
          BY <1>3, <5>1 DEF Settled
      <4> QED
        BY <4>1, <4>2
    <3>3. ASSUME NEW m \in Nat, LastListen(m)' PROVE m = Here
      <4>1. m \in Places({"l"}) \cup {Here} /\ \A k \in Places({"l"}) \cup {Here} : k <= m
        BY <3>1, <3>3 DEF LastListen
      <4>2. m \notin 1..Len(given)
        BY <1>4, <4>1
      <4> QED
        BY <1>3, <4>1, <4>2
    <3> QED
      BY <1>1, <1>3, <2>1, <3>1, <3>2, <3>3
  <2>2. CASE o # "l"
    <3>1. (Places({"l"})') = Places({"l"})
      BY <1>3, <2>2
    <3>2. \A k \in Places({"l"}) : given'[k] = given[k]
      BY <1>3
    <3>3. \A m \in Nat : LastListen(m)' = LastListen(m)
      BY <3>1 DEF LastListen
    <3>4. \A m \in Nat : LastListen(m) => m \in Places({"l"})
      BY DEF LastListen
    <3> QED
      BY <2>2, <3>1, <3>2, <3>3, <3>4 DEF Settled
  <2> QED
    BY <2>1, <2>2
<1> QED
  BY <1>2, <1>5, <1>6 DEF Settled

(* A step behind the loop, or in front of it. *)
GoesOn ==
  /\ UNCHANGED <<given, handlers, port>>
  /\ \/ gp' \in {"options", "close", "exit0", "exit1", "exit4"}
     \/ gp' = "vhosts" /\ cert' /\ key' /\ handlers' > 0
     \/ gp = "vhosts" /\ gp' = "bind" /\ UNCHANGED <<cert, key>>
     \/ /\ gp = "bind" /\ gp' = "tls" /\ UNCHANGED <<cert, key>>
        /\ sock' = (IF port = 0 THEN DefaultPort ELSE port) % PortMod
     \/ gp = "tls" /\ gp' = "serve" /\ tls' /\ UNCHANGED <<cert, key, sock>>
     \/ UNCHANGED <<gp, cert, key, sock, tls>>

LEMMA SettledKept ==
  ASSUME Settled, GoesOn
  PROVE  Settled'
<1> USE DEF GoesOn
<1>1. \A kinds : Places(kinds)' = Places(kinds)
  BY DEF Places
<1>2. \A m \in Nat : LastListen(m)' = LastListen(m)
  BY <1>1 DEF LastListen
<1>3. /\ handlers' \in Nat /\ (handlers' > 0 => (Places(Content)') # {})
      /\ \A k \in Places({"l"})' : given'[k].arg \in PortTexts
      /\ (Places({"l"})') = {} => port' = 0
      /\ \A m \in Nat : LastListen(m)' => port' = ReadPort(given'[m].arg)
  BY <1>1, <1>2 DEF Settled
<1>4. gp' \in {"vhosts", "bind", "tls", "serve"} => cert' /\ key' /\ handlers' > 0
  BY DEF Settled
<1>5. /\ gp' \in {"tls", "serve"} => sock' = (IF port' = 0 THEN DefaultPort ELSE port') % PortMod
      /\ gp' = "serve" => tls'
  BY DEF Settled
<1> QED
  BY <1>3, <1>4, <1>5 DEF Settled

LEMMA SettledStep == Placed /\ Settled /\ [Next]_vars => Settled'
<1> SUFFICES ASSUME Placed, Settled, [Next]_vars PROVE Settled'
  OBVIOUS
<1>1. CASE Starts \/ ConfigureFails \/ Usable \/ ServeFails
  <2>1. GoesOn
    BY <1>1 DEF Starts, ConfigureFails, Usable, ServeFails, options, GoesOn
  <2> QED
    BY <2>1, SettledKept
<1>2. CASE AddVhosts \/ Binds \/ TlsLoads
  <2>1. GoesOn
    BY <1>2 DEF AddVhosts, Binds, ListenOn, TlsLoads, options, GoesOn
  <2> QED
    BY <2>1, SettledKept
<1>3. CASE ServeReturns \/ CloseFrees \/ Closes \/ UNCHANGED vars
  <2>1. GoesOn
    BY <1>3 DEF ServeReturns, CloseFrees, Closes, vars, options, GoesOn
  <2> QED
    BY <2>1, SettledKept
<1>4. CASE Authn \/ Echo \/ Bind
  <2>1. Takes("A", Unset) \/ Takes("E", Unset) \/ Takes("b", Unset)
    BY <1>4 DEF Authn, Echo, Bind, Takes, OptionRecord, Content
  <2> QED
    BY <2>1, SettledOption
<1>5. CASE ExecOrStatic
  <2>1. PICK o \in {"X", "S"} : Takes(o, Unset)
    BY <1>5 DEF ExecOrStatic, Takes, OptionRecord, Content
  <2> QED
    BY <2>1, SettledOption
<1>6. CASE Listen
  <2>1. PICK text \in PortTexts : Takes("l", text)
    BY <1>6 DEF Listen, Takes, OptionRecord, Content
  <2> QED
    BY <2>1, SettledOption
<1>7. CASE Certificate \/ Key \/ Unknown
  <2>1. Takes("c", Unset) \/ Takes("k", Unset) \/ Takes("?", Unset)
    BY <1>7 DEF Certificate, Key, Unknown, Takes, OptionRecord, Content
  <2> QED
    BY <2>1, SettledOption
<1> QED
  BY <1>1, <1>2, <1>3, <1>4, <1>5, <1>6, <1>7 DEF Next

LEMMA SettledInvariant == Spec => []Settled
BY SettledInit, SettledStep, PlacedInvariant, PTL DEF Spec

(* The last -l, where there is one. *)
LEMMA LastOne ==
  ASSUME Placed, Settled, Places({"l"}) # {}
  PROVE  LET m == Max(Places({"l"}))
         IN /\ m \in Nat /\ LastListen(m)
            /\ given[m].arg \in PortTexts /\ port = ReadPort(given[m].arg)
<1> DEFINE S == Places({"l"})
<1>1. Len(given) \in Nat /\ S \in SUBSET (0..Len(given))
  BY DEF Placed, Places
<1>2. PICK m \in S : \A k \in S : k <= m
  <2> HIDE DEF S
  <2>1. S # {}
    BY DEF S
  <2> QED
    BY <1>1, <2>1, LargestOf
<1>3. \A k \in S : k \in Nat
  BY <1>1
<1>4. Max(S) = m
  <2> HIDE DEF S
  <2> QED
    BY <1>2, <1>3 DEF Max
<1>5. m \in Nat /\ LastListen(m)
  BY <1>2, <1>3 DEF LastListen
<1> QED
  BY <1>4, <1>5 DEF Settled, LastListen

(* geminon serves with a certificate, its key and some content, on the     *)
(* port of the last -l, if it is one, and on that of Gemini if neither the *)
(* command line nor the environment gives one.                             *)
THEOREM ServesAsAskedHolds == Spec => []ServesAsAsked
<1>1. Placed /\ Settled => ServesAsAsked
  <2> SUFFICES ASSUME Placed, Settled, gp = "serve" PROVE ServesAsAsked
    BY DEF ServesAsAsked
  <2>1. /\ tls /\ cert /\ key /\ Places(Content) # {}
        /\ sock = (IF port = 0 THEN DefaultPort ELSE port) % PortMod
    BY DEF Settled
  <2>2. PortMod \in Nat \ {0} /\ \A n \in 0..PortMod - 1 : n % PortMod = n
    BY GeminonAssumption
  <2>3. DefaultPort \in 0..PortMod - 1
    BY GeminonAssumption
  <2>4. CASE Places({"l"}) = {}
    <3>1. port = 0
      BY <2>4 DEF Settled
    <3> QED
      BY <2>1, <2>2, <2>3, <2>4, <3>1 DEF ServesAsAsked
  <2>5. CASE Places({"l"}) # {}
    <3>1. ASSUME AskedPort \in 1..PortMod - 1 PROVE sock = AskedPort
      <4>1. port = AsInt(AskedPort)
        BY <2>5, LastOne DEF ReadPort, AskedPort
      <4>2. AskedPort \in Int /\ AskedPort \in 0..PortMod - 1 /\ AskedPort # 0
        BY <3>1
      <4>3. port = AskedPort
        BY <4>1, <4>2, IntRange
      <4> QED
        BY <2>1, <2>2, <4>2, <4>3
    <3> QED
      BY <2>1, <2>5, <3>1 DEF ServesAsAsked
  <2> QED
    BY <2>4, <2>5
<1> QED
  BY <1>1, PlacedInvariant, SettledInvariant, PTL

-----------------------------------------------------------------------------
LEMMA PortRange ==
  ASSUME Placed, Settled
  PROVE  port \in -(IntMod \div 2)..(IntMod \div 2)
<1>1. CASE Places({"l"}) = {}
  <2>1. port = 0
    BY <1>1 DEF Settled
  <2>2. AsInt(0) = 0 /\ 0 \in Int
    <3>1. 0 \in 0..PortMod - 1
      BY GeminonAssumption
    <3> QED
      BY <3>1, IntRange
  <2> QED
    BY <2>1, <2>2, IntRange
<1>2. CASE Places({"l"}) # {}
  <2>1. PICK text \in PortTexts : port = ReadPort(text)
    BY <1>2, LastOne
  <2>2. text \in Seq(0..9)
    BY GeminonAssumption
  <2>3. Value(text) \in Nat
    BY <2>2, ValueType
  <2> QED
    BY <2>1, <2>3, IntRange DEF ReadPort
<1> QED
  BY <1>1, <1>2

(* The variables that are not part of the list, nor of what is settled.    *)
Simple ==
  /\ gp \in Phases /\ env \in PortTexts \cup {Unset} /\ cert \in BOOLEAN /\ key \in BOOLEAN
  /\ tls \in BOOLEAN /\ sock \in {NoSock} \cup 0..PortMod - 1

LEMMA SimpleStep ==
  ASSUME Simple, Placed, Settled, [Next]_vars
  PROVE  Simple'
<1>1. CASE Starts \/ ConfigureFails \/ Usable \/ AddVhosts
  BY <1>1 DEF Simple, Phases, Starts, ConfigureFails, Usable, AddVhosts, options
<1>2. CASE Authn \/ Echo \/ ExecOrStatic \/ Bind
  BY <1>2 DEF Simple, Phases, Authn, Echo, ExecOrStatic, Bind, Option
<1>3. CASE Listen \/ Certificate \/ Key \/ Unknown
  BY <1>3 DEF Simple, Phases, Listen, Certificate, Key, Unknown, Option
<1>4. CASE TlsLoads \/ ServeFails \/ ServeReturns \/ CloseFrees \/ Closes \/ UNCHANGED vars
  BY <1>4 DEF Simple, Phases, TlsLoads, ServeFails, ServeReturns, CloseFrees, Closes, vars, options
<1>5. CASE Binds
  <2>1. PICK p \in Int : sock' = p % PortMod
    <3>1. port \in Int /\ DefaultPort \in Int
      <4>1. IntMod \div 2 \in Int
        BY GeminonAssumption
      <4>2. port \in -(IntMod \div 2)..(IntMod \div 2)
        BY PortRange
      <4>3. DefaultPort \in Int
        BY GeminonAssumption
      <4> QED
        BY <4>1, <4>2, <4>3
    <3> QED
      BY <1>5, <3>1 DEF Binds, ListenOn
  <2>2. sock' \in 0..PortMod - 1
    BY <2>1, GeminonAssumption
  <2> QED
    BY <1>5, <2>2 DEF Simple, Phases, Binds, options
<1> QED
  BY <1>1, <1>2, <1>3, <1>4, <1>5 DEF Next

(* Every variable keeps its type: the list points to nodes and never to    *)
(* what was freed, and the port of the socket is a port.                   *)
THEOREM TypeCorrect == Spec => []TypeOK
<1>1. Init => Simple
  BY DEF Init, Simple, Phases
<1>2. Simple /\ Placed /\ Settled /\ [Next]_vars => Simple'
  BY SimpleStep
<1>3. Simple /\ Placed /\ Settled /\ Slots /\ Chain => TypeOK
  <2> SUFFICES ASSUME Simple, Placed, Settled, Slots, Chain PROVE TypeOK
    OBVIOUS
  <2>1. lost \subseteq Nat
    BY DEF Placed, Places
  <2>2. order \in Seq(Nodes) /\ Len(order) \in Nat /\ \A k \in 1..Len(order) : order[k] \in Nodes
    BY DEF Chain, Ordered
  <2>3. first \in Nodes \cup {Null} /\ last \in Nodes \cup {Null}
    <3>1. order # <<>> => 1 \in 1..Len(order) /\ Len(order) \in 1..Len(order)
      BY <2>2
    <3> QED
      BY <2>2, <3>1 DEF Chain, Ordered
  <2>4. cur \in Nodes \cup {Null}
    <3>1. CASE Closing
      <4>1. PICK k \in 1..Len(order) + 1 : StandsAt(k)
        BY <3>1 DEF Chain
      <4>2. k <= Len(order) => k \in 1..Len(order)
        BY <2>2
      <4> QED
        BY <2>2, <4>1, <4>2 DEF StandsAt
    <3>2. CASE ~Closing
      BY <3>2 DEF Chain
    <3> QED
      BY <3>1, <3>2
  <2>5. port \in -(IntMod \div 2)..(IntMod \div 2)
    BY PortRange
  <2>6. given \in Seq(OptionRecord) /\ nvhosts \in Nat /\ cap \in Nat /\ handlers \in Nat
    BY DEF Placed, Settled, Slots
  <2> QED
    BY <2>1, <2>2, <2>3, <2>4, <2>5, <2>6 DEF TypeOK, Simple, Phases, OptionRecord
<1> QED
  BY <1>1, <1>2, <1>3, PlacedInvariant, SettledInvariant, SlotsInvariant, ChainInvariant, PTL
  DEF Spec
=============================================================================
