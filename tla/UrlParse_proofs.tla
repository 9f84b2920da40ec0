--------------------------- MODULE UrlParse_proofs ---------------------------
(***************************************************************************)
(* What holds of gemini_parse_url_into() for all URLs, alphabets, ports    *)
(* and sizes of buffers.                                                   *)
(***************************************************************************)
EXTENDS UrlParse, Induction, TLAPS

(* A transition leads to a state of the automaton. *)
LEMMA ToState ==
  ASSUME NEW from \in 0..12, NEW ch
  PROVE  To(from, ch) \in -1..12
BY DEF To

(* The port after another digit is a number, and a digit more than what    *)
(* was allowed before it at most.                                          *)
LEMMA NextPortBound ==
  ASSUME TypeOK, More, To(11, s[pos]) = 11
  PROVE  /\ NextPort \in Nat
         /\ port <= MaxPort => NextPort <= 10 * MaxPort + 9
<1>1. s[pos] \in Digits
  BY DEF To, Scheme
<1>2. Digit[s[pos]] \in 0..9
  BY <1>1, UrlAssumption DEF Digits
<1>3. MaxPort \in Nat /\ port \in Nat
  BY UrlAssumption DEF TypeOK
<1> QED
  BY <1>2, <1>3 DEF NextPort

-----------------------------------------------------------------------------
(* What the parser has written, from where it is in the URL. *)
Written ==
  /\ state <= 9 => pos = state + 1 /\ buf = <<>>
  /\ state = 10 => Len(buf) = pos - 10
  /\ state = 11 => Len(buf) <= pos - 10
  /\ state = 12 => Len(buf) <= IF rc = "ok" THEN pos - 8 ELSE pos - 9
  /\ rc = "ok" => state = 12

(* The port is beyond the largest one only when it has been refused. *)
Bounded == rc = "running" => port <= MaxPort

Parsed == TypeOK /\ Bounded /\ Written /\ OwnBufferSuffices

LEMMA ParsedInit == Init => Parsed
BY UrlAssumption DEF Init, Parsed, TypeOK, Bounded, Written, OwnBufferSuffices

LEMMA ParsedStep == Parsed /\ [Next]_vars => Parsed'
<1> SUFFICES ASSUME Parsed, [Next]_vars PROVE Parsed'
  OBVIOUS
<1> USE DEF Parsed
<1>m. MaxPort \in Nat
  BY UrlAssumption
<1>l. Len(s) \in Nat /\ Len(buf) \in Nat
  BY DEF TypeOK
<1>c. More => s[pos] \in Chars
  BY DEF TypeOK, More
<1>1. CASE TooSmall
  <2>1. TypeOK' /\ Bounded' /\ Written'
    BY <1>1 DEF TooSmall, Refuse, Full, More, TypeOK, Bounded, Written, Refusals
  <2>2. Len(buf) <= Len(s)
    <3>1. buf = <<>> => Len(buf) = 0
      OBVIOUS
    <3>2. pos \in Nat /\ state \in 0..12
      BY <1>l DEF TypeOK
    <3>3. pos <= Len(s) /\ rc = "running"
      BY <1>1 DEF TooSmall, Full, More
    <3> QED
      BY <1>l, <3>1, <3>2, <3>3 DEF Written
  <2>3. OwnBufferSuffices'
    <3>1. Len(buf) >= len /\ len \in Nat
      BY <1>1 DEF TooSmall, Full, TypeOK
    <3>2. ~(len > Len(s))
      BY <1>l, <2>2, <3>1
    <3> QED
      BY <1>1, <3>2 DEF TooSmall, Refuse, OwnBufferSuffices
  <2> QED BY <2>1, <2>3
<1>2. CASE BadCharacter
  BY <1>2 DEF BadCharacter, Refuse, Full, More, TypeOK, Bounded, Written,
              OwnBufferSuffices, Refusals
<1>3. CASE SchemeChar
  <2>1. PICK from \in 0..8 : Step(from, from + 1)
    BY <1>3 DEF SchemeChar
  <2> QED
    BY <1>3, <2>1 DEF SchemeChar, Step, Full, More, TypeOK, Bounded, Written,
                      OwnBufferSuffices
<1>4. CASE HostChar
  <2>1. /\ buf' \in Seq(Chars \cup {NUL}) /\ Len(buf') = Len(buf) + 1
    BY <1>4, <1>c DEF HostChar, Step, Full, More, TypeOK
  <2>2. TypeOK' /\ Bounded'
    BY <1>4, <2>1 DEF HostChar, Step, Full, More, TypeOK, Bounded
  <2>3. Written'
    <3>1. Len(buf) = pos - 10
      BY <1>4 DEF HostChar, Step, TypeOK, Written
    <3>2. state' = 10 /\ pos' = pos + 1 /\ rc' = "running"
      BY <1>4 DEF HostChar, Step, More
    <3> QED
      BY <2>1, <3>1, <3>2 DEF TypeOK, Written
  <2>4. OwnBufferSuffices'
    <3>1. Len(buf) < len /\ len \in Nat
      BY <1>4, <1>l DEF HostChar, Step, Full, TypeOK
    <3>2. s' = s /\ len' = len /\ rc' = "running"
      BY <1>4 DEF HostChar, Step, More
    <3>3. Len(buf') <= len
      BY <1>l, <2>1, <3>1
    <3> QED
      BY <3>2, <3>3 DEF OwnBufferSuffices
  <2> QED BY <2>2, <2>3, <2>4
<1>5. CASE HostEndsAtPath
  <2>1. /\ buf' \in Seq(Chars \cup {NUL}) /\ Len(buf') = Len(buf) + 2
    BY <1>5, <1>c DEF HostEndsAtPath, Step, Full, More, TypeOK
  <2> QED
    BY <1>5, <2>1 DEF HostEndsAtPath, Step, Full, More, TypeOK, Bounded, Written,
                      OwnBufferSuffices
<1>6. CASE HostEndsAtPort
  BY <1>6, <1>m DEF HostEndsAtPort, Step, Full, More, TypeOK, Bounded, Written,
              OwnBufferSuffices
<1>7. CASE PathStarts
  BY <1>7, <1>c DEF PathStarts, Step, Full, More, TypeOK, Bounded, Written,
              OwnBufferSuffices
<1>8. CASE PathChar
  BY <1>8, <1>c DEF PathChar, Step, Full, More, TypeOK, Bounded, Written,
              OwnBufferSuffices
<1>9. CASE PortDigit
  <2>1. NextPort \in 0..MaxPort
    BY <1>9, NextPortBound DEF PortDigit, PortFits, Step
  <2> QED
    BY <1>9, <1>m, <2>1 DEF PortDigit, Step, Full, More, TypeOK, Bounded, Written,
                      OwnBufferSuffices
<1>10. CASE PortTooLarge
  <2>1. NextPort \in 0..10 * MaxPort + 9
    <3>1. NextPort \in Nat /\ NextPort <= 10 * MaxPort + 9
      BY <1>10, NextPortBound DEF PortTooLarge, More, Bounded
    <3> QED BY <3>1
  <2> QED
    BY <1>10, <2>1 DEF PortTooLarge, Full, More, TypeOK, Bounded, Written,
                       OwnBufferSuffices, Refusals
<1>11. CASE Accept
  BY <1>11 DEF Accept, TypeOK, Bounded, Written, OwnBufferSuffices
<1>12. CASE Incomplete
  BY <1>12 DEF Incomplete, Refuse, TypeOK, Bounded, Written, OwnBufferSuffices, Refusals
<1>13. CASE UNCHANGED vars
  BY <1>13 DEF vars, TypeOK, Bounded, Written, OwnBufferSuffices
<1> QED
  BY <1>1, <1>2, <1>3, <1>4, <1>5, <1>6, <1>7, <1>8, <1>9, <1>10, <1>11, <1>12,
     <1>13 DEF Next

LEMMA ParsedAlways == Spec => []Parsed
BY ParsedInit, ParsedStep, PTL DEF Spec

(* Every variable keeps its type; the port, an int, is bounded by ten      *)
(* times the largest port, however many digits there are.                  *)
THEOREM TypeCorrect == Spec => []TypeOK
<1>1. Parsed => TypeOK
  BY DEF Parsed
<1> QED BY <1>1, ParsedAlways, PTL

(* gemini_parse_url() never writes behind the buffer it allocates, and     *)
(* never finds it too small, whatever the URL.                             *)
THEOREM OwnBufferHolds == Spec => []OwnBufferSuffices
<1>1. Parsed => OwnBufferSuffices
  BY DEF Parsed
<1> QED BY <1>1, ParsedAlways, PTL
-----------------------------------------------------------------------------
(* The automaton, state by state. *)
LEMMA Separators ==
  /\ ":" \notin HostChars /\ "/" \notin HostChars /\ ":" # "/" /\ Digits \subseteq HostChars
  /\ HostChars \subseteq Chars /\ ":" \in Chars /\ "/" \in Chars /\ NUL \notin Chars
  /\ \A ch \in Digits : Digit[ch] \in 0..9
<1>1. \A ch \in Digits : Digit[ch] \in 0..9
  BY UrlAssumption DEF Digits
<1> QED
  BY <1>1, UrlAssumption

LEMMA Transitions ==
  ASSUME NEW ch
  PROVE  /\ \A from \in 0..8 : To(from, ch) = IF ch = Scheme[from + 1] THEN from + 1 ELSE -1
         /\ To(9, ch) = IF ch \in HostChars THEN 10 ELSE -1
         /\ To(10, ch) = IF ch \in HostChars THEN 10
                         ELSE IF ch = ":" THEN 11 ELSE IF ch = "/" THEN 12 ELSE -1
         /\ To(11, ch) = IF ch \in Digits THEN 11 ELSE IF ch = "/" THEN 12 ELSE -1
         /\ To(12, ch) = 12
<1> HIDE DEF Scheme
<1>1. \A from \in 0..8 : To(from, ch) = IF ch = Scheme[from + 1] THEN from + 1 ELSE -1
  BY DEF To
<1>2. To(9, ch) = IF ch \in HostChars THEN 10 ELSE -1
  BY DEF To
<1>3. To(10, ch) = IF ch \in HostChars THEN 10
                   ELSE IF ch = ":" THEN 11 ELSE IF ch = "/" THEN 12 ELSE -1
  BY Separators DEF To
<1>4. To(11, ch) = IF ch \in Digits THEN 11 ELSE IF ch = "/" THEN 12 ELSE -1
  BY Separators DEF To
<1>5. To(12, ch) = 12
  BY DEF To
<1> QED
  BY <1>1, <1>2, <1>3, <1>4, <1>5

(* What was read, and what of it is in the buffer, in each part of a URL.  *)
SchemeRead(n) == \A k \in 1..n : s[k] = Scheme[k]
HostRead(h) == /\ h >= 1 /\ SchemeRead(9)
               /\ \A k \in 10..9 + h : s[k] \in HostChars
HostIn(h) == \A k \in 1..h : buf[k] = s[9 + k]

InScheme == pos = state + 1 /\ buf = <<>> /\ SchemeRead(state) /\ port = DefaultPort
InHost == /\ HostRead(pos - 10) /\ HostIn(pos - 10) /\ Len(buf) = pos - 10
          /\ port = DefaultPort
InPort(h) ==
  /\ HostRead(h) /\ HostIn(h) /\ Len(buf) = h + 1 /\ buf[h + 1] = NUL
  /\ h + 11 <= pos /\ s[10 + h] = ":" /\ \A k \in 11 + h..pos - 1 : s[k] \in Digits
  /\ IF rc = "bad port" THEN s[pos] \in Digits /\ Value(PortText(h, pos - 9)) > MaxPort
                        ELSE port = Value(PortText(h, pos - 10))
InPath(h, a) ==
  /\ IsUrl(h, a) /\ HostIn(h) /\ buf[h + 1] = NUL /\ pathAt = h + 2
  /\ 10 + a < pos /\ \A k \in 10 + a..pos - 1 : buf[h + k - 8 - a] = s[k]
  /\ port = IF h < a THEN Value(PortText(h, a)) ELSE DefaultPort
  /\ IF rc = "ok" THEN Len(buf) = pos + h - 8 - a /\ buf[pos + h - 8 - a] = NUL
                  ELSE Len(buf) = pos + h - 9 - a

Reading ==
  /\ state <= 9 => InScheme
  /\ state = 10 => InHost
  /\ state = 11 => \E h \in Lengths : InPort(h)
  /\ state = 12 => \E h, a \in Lengths : InPath(h, a)

Ending ==
  /\ rc = "too small" => pos <= Len(s) /\ Len(buf) >= len
  /\ rc = "bad character" => pos <= Len(s) /\ To(state, s[pos]) < 0
  /\ rc = "bad port" => pos <= Len(s) /\ state = 11
  /\ rc = "incomplete" => pos = Len(s) + 1 /\ state # 12
  /\ rc = "ok" => pos = Len(s) + 1 /\ state = 12

-----------------------------------------------------------------------------
(* The host ends in one place, *)
LEMMA OneHost ==
  ASSUME NEW g \in Nat, NEW h \in Nat, NEW a \in Nat, IsUrl(h, a),
         \A k \in 10..9 + g : s[k] \in HostChars, s[10 + g] \notin HostChars
  PROVE  h = g
<1>1. \A k \in 10..9 + h : s[k] \in HostChars
  BY DEF IsUrl
<1>2. s[10 + h] \notin HostChars
  <2>1. CASE h < a
    BY <2>1, Separators DEF IsUrl
  <2>2. CASE h = a
    BY <2>2, Separators DEF IsUrl
  <2> QED
    BY <2>1, <2>2 DEF IsUrl
<1>3. ~ (h < g)
  <2> SUFFICES ASSUME h < g PROVE FALSE
    OBVIOUS
  <2>1. 10 + h \in 10..9 + g
    OBVIOUS
  <2> QED
    BY <1>2, <2>1
<1>4. ~ (g < h)
  <2> SUFFICES ASSUME g < h PROVE FALSE
    OBVIOUS
  <2>1. 10 + g \in 10..9 + h
    OBVIOUS
  <2> QED
    BY <1>1, <2>1
<1> QED
  BY <1>3, <1>4

(* and so does the port. *)
LEMMA OneAuthority ==
  ASSUME NEW h \in Nat, NEW a \in Nat, NEW b \in Nat, IsUrl(h, a), IsUrl(h, b)
  PROVE  a = b
<1>1. ASSUME NEW c \in Nat, NEW d \in Nat, IsUrl(h, c), IsUrl(h, d), c < d PROVE FALSE
  <2>1. s[10 + h] = ":" /\ \A k \in 11 + h..9 + d : s[k] \in Digits
    BY <1>1 DEF IsUrl
  <2>2. s[10 + c] = "/" /\ h <= c
    BY <1>1 DEF IsUrl
  <2>3. CASE c = h
    BY <2>1, <2>2, <2>3, Separators
  <2>4. CASE c # h
    <3>1. 10 + c \in 11 + h..9 + d
      BY <1>1, <2>2, <2>4
    <3> QED
      BY <2>1, <2>2, <3>1, Separators
  <2> QED
    BY <2>3, <2>4
<1> QED
  BY <1>1

(* A text of digits is worth no less than what it begins with.             *)
LEMMA ValueGrows ==
  ASSUME NEW t \in Seq(0..9), NEW n \in 0..Len(t)
  PROVE  Value(SubSeq(t, 1, n)) <= Value(t)
<1> DEFINE L == Len(t)
           V(m) == Value(SubSeq(t, 1, m))
           A == {m \in 0..L - n : V(n) <= V(n + m)}
<1>1. L \in Nat /\ n \in Nat /\ n <= L
  OBVIOUS
<1>2. ASSUME NEW m \in 0..L PROVE SubSeq(t, 1, m) \in Seq(0..9) /\ V(m) \in Nat
  <2>1. SubSeq(t, 1, m) \in Seq(0..9)
    OBVIOUS
  <2>2. \A u \in Seq(0..9) : Value(u) \in Nat
    BY ValueType
  <2> QED
    BY <2>1, <2>2
<1>3. ASSUME NEW m \in 0..L - 1 PROVE V(m) <= V(m + 1)
  <2>1. SubSeq(t, 1, m + 1) = Append(SubSeq(t, 1, m), t[m + 1]) /\ t[m + 1] \in 0..9
    BY <1>1
  <2>2. V(m + 1) = 10 * V(m) + t[m + 1]
    <3>1. SubSeq(t, 1, m) \in Seq(0..9)
      BY <1>2
    <3> QED
      BY <2>1, <3>1, ValueOfAppend
  <2>3. V(m) \in Nat
    BY <1>2
  <2> HIDE DEF V
  <2> QED
    BY <2>1, <2>2, <2>3
<1> HIDE DEF V
<1>4. 0 \in A
  <2>1. n \in 0..L
    BY <1>1
  <2>2. V(n) \in Nat
    BY <1>2, <2>1
  <2> QED
    BY <1>1, <2>2
<1>5. ASSUME NEW m \in 0..(L - n) - 1, m \in A PROVE m + 1 \in A
  <2>1. n + m \in 0..L - 1 /\ (n + m) + 1 = n + (m + 1) /\ n \in 0..L /\ (n + m) + 1 \in 0..L
    BY <1>1
  <2>2. V(n + m) <= V((n + m) + 1)
    BY <1>3, <2>1
  <2>3. V(n) \in Nat /\ V(n + m) \in Nat /\ V((n + m) + 1) \in Nat
    BY <1>2, <2>1
  <2>4. V(n) <= V(n + m)
    BY <1>5
  <2>5. V(n) <= V(n + (m + 1))
    BY <2>1, <2>2, <2>3, <2>4
  <2> QED
    BY <1>1, <2>5
<1>6. L - n \in A
  <2> HIDE DEF A
  <2>1. L - n \in Nat
    BY <1>1
  <2>2. \A m \in 0..L - n : m \in A
    BY <1>4, <1>5, <2>1, HandedOnUpTo
  <2> QED
    BY <2>1, <2>2
<1>7. SubSeq(t, 1, L) = t
  OBVIOUS
<1>8. n + (L - n) = L
  BY <1>1
<1> QED
  BY <1>6, <1>7, <1>8 DEF V
(* The digits of a port, and one more of them. *)
LEMMA PortTextType ==
  ASSUME NEW h \in Nat, NEW a \in Nat, h < a, \A k \in 11 + h..9 + a : s[k] \in Digits
  PROVE  PortText(h, a) \in Seq(0..9) /\ Len(PortText(h, a)) = a - h - 1
<1> DEFINE n == a - h - 1
           t == [k \in 1..n |-> Digit[s[10 + h + k]]]
<1>1. n \in Nat
  OBVIOUS
<1>2. \A k \in 1..n : Digit[s[10 + h + k]] \in 0..9
  <2>1. \A k \in 1..n : 10 + h + k \in 11 + h..9 + a
    OBVIOUS
  <2> QED
    BY <2>1, Separators
<1>3. t \in [1..n -> 0..9]
  BY <1>2
<1>4. t \in Seq(0..9) /\ Len(t) = n
  <2> HIDE DEF n
  <2>1. DOMAIN t = 1..n
    OBVIOUS
  <2> HIDE DEF t
  <2> QED
    BY <1>1, <1>3, <2>1
<1> QED
  BY <1>4 DEF PortText

LEMMA PortTextAppends ==
  ASSUME NEW h \in Nat, NEW a \in Nat, h < a, \A k \in 11 + h..9 + a : s[k] \in Digits,
         s[10 + a] \in Digits
  PROVE  Value(PortText(h, a + 1)) = 10 * Value(PortText(h, a)) + Digit[s[10 + a]]
<1>1. PortText(h, a) \in Seq(0..9) /\ Len(PortText(h, a)) = a - h - 1
  BY PortTextType
<1>2. \A k \in 11 + h..9 + (a + 1) : s[k] \in Digits
  <2>1. \A k \in 11 + h..9 + (a + 1) : k \in 11 + h..9 + a \/ k = 10 + a
    OBVIOUS
  <2> QED
    BY <2>1
<1>3. PortText(h, a + 1) \in Seq(0..9) /\ Len(PortText(h, a + 1)) = a - h
  <2>1. a + 1 \in Nat /\ h < a + 1 /\ (a + 1) - h - 1 = a - h
    OBVIOUS
  <2> QED
    BY <1>2, <2>1, PortTextType
<1>4. Digit[s[10 + a]] \in 0..9
  BY Separators
<1> DEFINE u == Append(PortText(h, a), Digit[s[10 + a]])
<1>5. u \in Seq(0..9) /\ Len(u) = a - h
  BY <1>1, <1>4
<1>6. ASSUME NEW k \in 1..a - h PROVE PortText(h, a + 1)[k] = u[k]
  <2>1. PortText(h, a + 1)[k] = Digit[s[10 + h + k]]
    BY DEF PortText
  <2>2. CASE k = a - h
    <3>1. 10 + h + k = 10 + a
      BY <2>2
    <3>2. u[k] = Digit[s[10 + a]]
      BY <1>1, <1>4, <2>2
    <3> QED
      BY <2>1, <3>1, <3>2
  <2>3. CASE k # a - h
    <3>1. k \in 1..a - h - 1
      BY <2>3
    <3>2. u[k] = PortText(h, a)[k]
      BY <1>1, <1>4, <3>1
    <3>3. PortText(h, a)[k] = Digit[s[10 + h + k]]
      BY <3>1 DEF PortText
    <3> QED
      BY <2>1, <3>2, <3>3
  <2> QED
    BY <2>2, <2>3
<1>7. PortText(h, a + 1) = u
  <2> HIDE DEF u
  <2> QED
    BY <1>3, <1>5, <1>6
<1> QED
  BY <1>1, <1>4, <1>7, ValueOfAppend
-----------------------------------------------------------------------------
LEMMA Appended ==
  ASSUME NEW C, NEW b \in Seq(C), NEW ch \in C
  PROVE  /\ Len(Append(b, ch)) = Len(b) + 1 /\ Append(b, ch)[Len(b) + 1] = ch
         /\ \A k \in 1..Len(b) : Append(b, ch)[k] = b[k]
OBVIOUS

LEMMA ReadsInit == Init => Reading /\ Ending
<1> SUFFICES ASSUME Init PROVE Reading /\ Ending
  OBVIOUS
<1>1. pos = 1 /\ state = 0 /\ buf = <<>> /\ port = DefaultPort /\ rc = "running"
  BY DEF Init
<1>2. SchemeRead(0)
  BY DEF SchemeRead
<1>3. InScheme
  BY <1>1, <1>2 DEF InScheme
<1> QED
  BY <1>1, <1>3 DEF Reading, Ending

(* What was read stays when the URL does. *)
LEMMA ReadKept ==
  ASSUME s' = s
  PROVE  /\ Lengths' = Lengths
         /\ \A n : SchemeRead(n)' <=> SchemeRead(n)
         /\ \A h : HostRead(h)' <=> HostRead(h)
         /\ \A h, a : PortText(h, a)' = PortText(h, a)
         /\ \A h, a : IsUrl(h, a)' <=> IsUrl(h, a)
BY DEF Lengths, SchemeRead, HostRead, PortText, IsUrl

LEMMA ReadsScheme ==
  ASSUME Parsed, Reading, SchemeChar
  PROVE  Reading'
<1>1. PICK from \in 0..8 : Step(from, from + 1)
  BY DEF SchemeChar
<1>2. /\ state = from /\ To(from, s[pos]) = from + 1 /\ state' = from + 1 /\ pos' = pos + 1
      /\ s' = s /\ buf' = buf /\ port' = port
  BY <1>1 DEF Step, SchemeChar
<1>3. InScheme
  BY <1>2 DEF Reading
<1>4. s[pos] = Scheme[from + 1]
  <2> HIDE DEF Scheme
  <2> QED
    BY <1>2, Transitions
<1>5. SchemeRead(from + 1)
  <2>1. pos = from + 1 /\ \A k \in 1..from : s[k] = Scheme[k]
    BY <1>2, <1>3 DEF InScheme, SchemeRead
  <2>2. \A k \in 1..from + 1 : k \in 1..from \/ k = from + 1
    OBVIOUS
  <2> HIDE DEF Scheme
  <2> QED
    BY <1>4, <2>1, <2>2 DEF SchemeRead
<1>6. InScheme'
  <2>1. SchemeRead(from + 1)'
    BY <1>2, <1>5, ReadKept
  <2> QED
    BY <1>2, <1>3, <2>1 DEF InScheme, SchemeRead
<1> QED
  BY <1>2, <1>6 DEF Reading

LEMMA ReadsHost ==
  ASSUME Parsed, Reading, HostChar
  PROVE  Reading'
<1>1. /\ More /\ state' = 10 /\ pos' = pos + 1 /\ s' = s /\ port' = port
      /\ buf' = Append(buf, s[pos])
  BY DEF HostChar, Step
<1>2. /\ pos \in 1..Len(s) /\ Len(s) \in Nat /\ buf \in Seq(Chars \cup {NUL})
      /\ s[pos] \in Chars \cup {NUL}
  BY <1>1 DEF More, Parsed, TypeOK
<1>3. s[pos] \in HostChars
  BY Transitions DEF HostChar, Step
<1>4. pos >= 10 /\ SchemeRead(9) /\ port = DefaultPort /\ Len(buf) = pos - 10
      /\ (\A k \in 10..pos - 1 : s[k] \in HostChars) /\ \A k \in 1..pos - 10 : buf[k] = s[9 + k]
  <2>1. CASE Step(9, 10)
    <3>1. InScheme /\ state = 9
      BY <2>1 DEF Step, Reading
    <3> QED
      BY <3>1 DEF InScheme
  <2>2. CASE Step(10, 10)
    <3>1. InHost
      BY <2>2 DEF Step, Reading
    <3>2. 9 + (pos - 10) = pos - 1
      BY <1>2
    <3> QED
      BY <1>2, <3>1, <3>2 DEF InHost, HostRead, HostIn
  <2> QED
    BY <2>1, <2>2 DEF HostChar
<1>5. /\ Len(buf') = pos - 9 /\ buf'[pos - 9] = s[pos]
      /\ \A k \in 1..pos - 10 : buf'[k] = s[9 + k]
  <2>1. /\ Len(buf') = Len(buf) + 1 /\ buf'[Len(buf) + 1] = s[pos]
        /\ \A k \in 1..Len(buf) : buf'[k] = buf[k]
    BY <1>1, <1>2, Appended
  <2> QED
    BY <1>2, <1>4, <2>1
<1> PICK g \in Nat : g = pos - 9
  BY <1>2, <1>4
<1>6. HostRead(g)
  <2>1. 9 + g = pos /\ \A k \in 10..pos : k \in 10..pos - 1 \/ k = pos
    BY <1>2
  <2> QED
    BY <1>2, <1>3, <1>4, <2>1 DEF HostRead
<1>7. \A k \in 1..g : buf'[k] = s'[9 + k]
  <2>1. \A k \in 1..g : k \in 1..pos - 10 \/ (k = pos - 9 /\ 9 + k = pos)
    BY <1>2
  <2> QED
    BY <1>1, <1>5, <2>1
<1>8. InHost'
  <2>1. pos' - 10 = g
    BY <1>1, <1>2
  <2>2. HostRead(g)'
    BY <1>1, <1>6, ReadKept
  <2> QED
    BY <1>1, <1>4, <1>5, <1>7, <2>1, <2>2 DEF InHost, HostRead, HostIn, SchemeRead
<1> QED
  BY <1>1, <1>8 DEF Reading
LEMMA AppendedTwo ==
  ASSUME NEW C, NEW b \in Seq(C), NEW x \in C, NEW y \in C
  PROVE  \A r : r = b \o <<x, y>> =>
           /\ Len(r) = Len(b) + 2 /\ r[Len(b) + 1] = x /\ r[Len(b) + 2] = y
           /\ \A k \in 1..Len(b) : r[k] = b[k]
OBVIOUS

(* What is known where the host ends, whatever it ends with. *)
LEMMA HostKnown ==
  ASSUME Parsed, Reading, More, state = 10, NEW h, h = pos - 10
  PROVE  /\ h \in Lengths /\ 10 + h = pos /\ pos <= Len(s) /\ Len(s) \in Nat
         /\ HostRead(h) /\ HostIn(h) /\ Len(buf) = h /\ port = DefaultPort
         /\ buf \in Seq(Chars \cup {NUL}) /\ s[pos] \in Chars \cup {NUL}
<1>1. pos \in 1..Len(s) /\ Len(s) \in Nat /\ buf \in Seq(Chars \cup {NUL})
  BY DEF More, Parsed, TypeOK
<1>2. s[pos] \in Chars \cup {NUL}
  BY <1>1 DEF Parsed, TypeOK
<1>3. HostRead(h) /\ HostIn(h) /\ Len(buf) = h /\ port = DefaultPort
  BY DEF Reading, InHost
<1>4. h >= 1
  BY <1>3 DEF HostRead
<1> QED
  BY <1>1, <1>2, <1>3, <1>4 DEF Lengths

LEMMA ReadsHostEndAtPath ==
  ASSUME Parsed, Reading, HostEndsAtPath
  PROVE  Reading'
<1>1. /\ More /\ state = 10 /\ To(10, s[pos]) = 12 /\ state' = 12 /\ pos' = pos + 1
      /\ s' = s /\ port' = port /\ rc' = rc /\ rc = "running"
      /\ buf' = buf \o <<NUL, s[pos]>> /\ pathAt' = Len(buf) + 2
  BY DEF HostEndsAtPath, Step, More
<1> PICK h : h = pos - 10
  OBVIOUS
<1>2. /\ h \in Lengths /\ 10 + h = pos /\ pos <= Len(s) /\ Len(s) \in Nat
      /\ HostRead(h) /\ HostIn(h) /\ Len(buf) = h /\ port = DefaultPort
      /\ buf \in Seq(Chars \cup {NUL}) /\ s[pos] \in Chars \cup {NUL}
  BY <1>1, HostKnown
<1>3. h \in Nat /\ h >= 1
  BY <1>2 DEF Lengths
<1>4. s[pos] = "/"
  BY <1>1, Transitions
<1>5. IsUrl(h, h)
  BY <1>2, <1>3, <1>4 DEF IsUrl, HostRead, SchemeRead
<1>6. /\ Len(buf') = h + 2 /\ buf'[h + 1] = NUL /\ buf'[h + 2] = s[pos]
      /\ \A k \in 1..h : buf'[k] = buf[k]
  <2> PICK C : C = Chars \cup {NUL}
    OBVIOUS
  <2> PICK ch : ch = s[pos]
    OBVIOUS
  <2>1. NUL \in C /\ buf \in Seq(C) /\ ch \in C
    BY <1>2
  <2>2. \A r : r = buf \o <<NUL, ch>> =>
           /\ Len(r) = Len(buf) + 2 /\ r[Len(buf) + 1] = NUL /\ r[Len(buf) + 2] = ch
           /\ \A k \in 1..Len(buf) : r[k] = buf[k]
    BY <2>1, AppendedTwo
  <2>3. buf' = buf \o <<NUL, ch>>
    BY <1>1
  <2> QED
    BY <1>2, <2>2, <2>3
<1>7. HostIn(h)'
  BY <1>1, <1>2, <1>6 DEF HostIn
<1>8. IsUrl(h, h)'
  BY <1>1, <1>5, ReadKept
<1>9. \A k \in 10 + h..pos' - 1 : buf'[h + k - 8 - h] = s'[k]
  <2>1. \A k \in 10 + h..pos' - 1 : k = pos /\ h + k - 8 - h = h + 2
    BY <1>1, <1>2, <1>3
  <2> QED
    BY <1>1, <1>6, <2>1
<1>10. /\ Len(buf') = pos' + h - 9 - h /\ 10 + h < pos' /\ pathAt' = h + 2
       /\ rc' # "ok" /\ ~(h < h) /\ port' = DefaultPort
  BY <1>1, <1>2, <1>3, <1>6
<1>11. InPath(h, h)'
  BY <1>6, <1>7, <1>8, <1>9, <1>10 DEF InPath
<1> QED
  BY <1>1, <1>2, <1>11, ReadKept DEF Reading

LEMMA ReadsHostEndAtPort ==
  ASSUME Parsed, Reading, HostEndsAtPort
  PROVE  Reading'
<1>1. /\ More /\ state = 10 /\ To(10, s[pos]) = 11 /\ state' = 11 /\ pos' = pos + 1
      /\ s' = s /\ port' = 0 /\ rc' = rc /\ rc = "running"
      /\ buf' = Append(buf, NUL)
  BY DEF HostEndsAtPort, Step, More
<1> PICK h : h = pos - 10
  OBVIOUS
<1>2. /\ h \in Lengths /\ 10 + h = pos /\ pos <= Len(s) /\ Len(s) \in Nat
      /\ HostRead(h) /\ HostIn(h) /\ Len(buf) = h /\ port = DefaultPort
      /\ buf \in Seq(Chars \cup {NUL}) /\ s[pos] \in Chars \cup {NUL}
  BY <1>1, HostKnown
<1>3. h \in Nat /\ h >= 1
  BY <1>2 DEF Lengths
<1>4. s[10 + h] = ":"
  <2>1. s[pos] = ":"
    BY <1>1, Transitions
  <2> QED
    BY <1>2, <2>1
<1>5. /\ Len(buf') = h + 1 /\ buf'[h + 1] = NUL /\ \A k \in 1..h : buf'[k] = buf[k]
  BY <1>1, <1>2, Appended
<1>6. HostIn(h)'
  BY <1>1, <1>2, <1>5 DEF HostIn
<1>7. HostRead(h)'
  BY <1>1, <1>2, ReadKept
<1>8. h + 11 <= pos' /\ \A k \in 11 + h..pos' - 1 : s'[k] \in Digits
  BY <1>1, <1>2, <1>3
<1>9. (port = Value(PortText(h, pos - 10)))'
  <2>1. pos' - 10 = h + 1 /\ (h + 1) - h - 1 = 0 /\ 1..0 = {}
    BY <1>1, <1>2, <1>3
  <2>2. PortText(h, h + 1) = <<>>
    BY <2>1 DEF PortText
  <2>3. PortText(h, pos - 10)' = PortText(h, h + 1)
    BY <1>1, <2>1 DEF PortText
  <2> QED
    BY <1>1, <2>2, <2>3, ValueOfNone
<1>10. InPort(h)'
  BY <1>1, <1>4, <1>5, <1>6, <1>7, <1>8, <1>9 DEF InPort
<1> QED
  BY <1>1, <1>2, <1>10, ReadKept DEF Reading
(* What is known in the port, *)
LEMMA PortKnown ==
  ASSUME Parsed, Reading, More, state = 11
  PROVE  \E h \in Lengths, a \in Nat :
           /\ a = pos - 10 /\ h \in Nat /\ h < a /\ 10 + a = pos /\ pos <= Len(s)
           /\ HostRead(h) /\ HostIn(h) /\ Len(buf) = h + 1 /\ buf[h + 1] = NUL
           /\ s[10 + h] = ":" /\ \A k \in 11 + h..9 + a : s[k] \in Digits
           /\ port = Value(PortText(h, a)) /\ port <= MaxPort
           /\ buf \in Seq(Chars \cup {NUL}) /\ s[pos] \in Chars \cup {NUL}
<1>1. /\ pos \in 1..Len(s) /\ Len(s) \in Nat /\ buf \in Seq(Chars \cup {NUL})
      /\ rc = "running" /\ port <= MaxPort
  BY DEF More, Parsed, TypeOK, Bounded
<1>2. s[pos] \in Chars \cup {NUL}
  BY <1>1 DEF Parsed, TypeOK
<1>3. PICK h \in Lengths : InPort(h)
  BY DEF Reading
<1>4. h \in Nat /\ h + 11 <= pos
  BY <1>1, <1>3 DEF Lengths, InPort
<1> PICK a \in Nat : a = pos - 10
  BY <1>1, <1>4
<1>5. h < a /\ 10 + a = pos /\ pos - 1 = 9 + a
  BY <1>1, <1>4
<1>6. /\ HostRead(h) /\ HostIn(h) /\ Len(buf) = h + 1 /\ buf[h + 1] = NUL
      /\ s[10 + h] = ":" /\ \A k \in 11 + h..pos - 1 : s[k] \in Digits
      /\ port = Value(PortText(h, pos - 10))
  BY <1>1, <1>3 DEF InPort
<1> QED
  BY <1>1, <1>2, <1>4, <1>5, <1>6

(* and in the path. *)
LEMMA PathKnown ==
  ASSUME Parsed, Reading, rc = "running", state = 12
  PROVE  \E h \in Lengths, a \in Lengths :
           /\ h \in Nat /\ a \in Nat /\ pos \in Nat /\ h <= a
           /\ IsUrl(h, a) /\ HostIn(h) /\ buf[h + 1] = NUL /\ pathAt = h + 2
           /\ 10 + a < pos /\ \A k \in 10 + a..pos - 1 : buf[h + k - 8 - a] = s[k]
           /\ port = IF h < a THEN Value(PortText(h, a)) ELSE DefaultPort
           /\ Len(buf) = pos + h - 9 - a
           /\ buf \in Seq(Chars \cup {NUL})
<1>1. pos \in Nat /\ Len(s) \in Nat /\ buf \in Seq(Chars \cup {NUL})
  BY DEF Parsed, TypeOK
<1>2. PICK h \in Lengths, a \in Lengths : InPath(h, a)
  BY DEF Reading
<1>3. h \in Nat /\ a \in Nat /\ h <= a
  BY <1>2 DEF Lengths, InPath, IsUrl
<1> QED
  BY <1>1, <1>2, <1>3 DEF InPath

LEMMA ReadsPathStart ==
  ASSUME Parsed, Reading, PathStarts
  PROVE  Reading'
<1>1. /\ More /\ state = 11 /\ To(11, s[pos]) = 12 /\ state' = 12 /\ pos' = pos + 1
      /\ s' = s /\ port' = port /\ rc' = rc /\ rc = "running"
      /\ buf' = Append(buf, s[pos]) /\ pathAt' = Len(buf) + 1
  BY DEF PathStarts, Step, More
<1>2. PICK h \in Lengths, a \in Nat :
           /\ a = pos - 10 /\ h \in Nat /\ h < a /\ 10 + a = pos /\ pos <= Len(s)
           /\ HostRead(h) /\ HostIn(h) /\ Len(buf) = h + 1 /\ buf[h + 1] = NUL
           /\ s[10 + h] = ":" /\ \A k \in 11 + h..9 + a : s[k] \in Digits
           /\ port = Value(PortText(h, a)) /\ port <= MaxPort
           /\ buf \in Seq(Chars \cup {NUL}) /\ s[pos] \in Chars \cup {NUL}
  BY <1>1, PortKnown
<1>3. s[10 + a] = "/"
  <2>1. s[pos] = "/"
    BY <1>1, Transitions
  <2> QED
    BY <1>2, <2>1
<1>4. IsUrl(h, a)
  BY <1>2, <1>3 DEF IsUrl, HostRead, SchemeRead
<1>5. a \in Lengths
  <2>1. Len(s) \in Nat
    BY DEF Parsed, TypeOK
  <2> QED
    BY <1>2, <2>1 DEF Lengths
<1>6. /\ Len(buf') = h + 2 /\ buf'[h + 2] = s[pos] /\ \A k \in 1..h + 1 : buf'[k] = buf[k]
  <2>1. /\ Len(buf') = Len(buf) + 1 /\ buf'[Len(buf) + 1] = s[pos]
        /\ \A k \in 1..Len(buf) : buf'[k] = buf[k]
    BY <1>1, <1>2, Appended
  <2> QED
    BY <1>2, <2>1
<1>7. HostIn(h)' /\ buf'[h + 1] = NUL
  <2>1. \A k \in 1..h : k \in 1..h + 1
    BY <1>2
  <2>2. h + 1 \in 1..h + 1
    BY <1>2
  <2> QED
    BY <1>1, <1>2, <1>6, <2>1, <2>2 DEF HostIn
<1>8. IsUrl(h, a)'
  BY <1>1, <1>4, ReadKept
<1>9. \A k \in 10 + a..pos' - 1 : buf'[h + k - 8 - a] = s'[k]
  <2>1. \A k \in 10 + a..pos' - 1 : k = pos /\ h + k - 8 - a = h + 2
    <3>1. pos' - 1 = 10 + a /\ pos = 10 + a /\ a \in Nat /\ h \in Nat
      BY <1>1, <1>2
    <3> QED
      BY <3>1
  <2> QED
    BY <1>1, <1>6, <2>1
<1>10. /\ Len(buf') = pos' + h - 9 - a /\ 10 + a < pos' /\ pathAt' = h + 2
       /\ rc' # "ok" /\ h < a
  BY <1>1, <1>2, <1>6
<1>11. port' = Value(PortText(h, a)')
  BY <1>1, <1>2, ReadKept
<1>12. InPath(h, a)'
  BY <1>7, <1>8, <1>9, <1>10, <1>11 DEF InPath
<1> QED
  BY <1>1, <1>2, <1>5, <1>12, ReadKept DEF Reading

LEMMA ReadsPath ==
  ASSUME Parsed, Reading, PathChar
  PROVE  Reading'
<1>1. /\ More /\ state = 12 /\ state' = 12 /\ pos' = pos + 1
      /\ s' = s /\ port' = port /\ rc' = rc /\ rc = "running" /\ pathAt' = pathAt
      /\ buf' = Append(buf, s[pos])
  BY DEF PathChar, Step, More
<1>2. PICK h \in Lengths, a \in Lengths :
           /\ h \in Nat /\ a \in Nat /\ pos \in Nat /\ h <= a
           /\ IsUrl(h, a) /\ HostIn(h) /\ buf[h + 1] = NUL /\ pathAt = h + 2
           /\ 10 + a < pos /\ \A k \in 10 + a..pos - 1 : buf[h + k - 8 - a] = s[k]
           /\ port = IF h < a THEN Value(PortText(h, a)) ELSE DefaultPort
           /\ Len(buf) = pos + h - 9 - a
           /\ buf \in Seq(Chars \cup {NUL})
  BY <1>1, PathKnown
<1>3. s[pos] \in Chars \cup {NUL}
  <2>1. pos \in 1..Len(s)
    BY <1>1 DEF More, Parsed, TypeOK
  <2> QED
    BY <2>1 DEF Parsed, TypeOK
<1>4. /\ Len(buf') = pos' + h - 9 - a /\ buf'[pos + h - 8 - a] = s[pos]
      /\ \A k \in 1..pos + h - 9 - a : buf'[k] = buf[k]
  <2>1. /\ Len(buf') = Len(buf) + 1 /\ buf'[Len(buf) + 1] = s[pos]
        /\ \A k \in 1..Len(buf) : buf'[k] = buf[k]
    <3>1. buf' = Append(buf, s[pos]) /\ buf \in Seq(Chars \cup {NUL})
      BY <1>1, <1>2
    <3> QED
      BY <1>3, <3>1, Appended
  <2>2. (pos + h - 9 - a) + 1 = pos + h - 8 - a /\ pos' + h - 9 - a = pos + h - 8 - a
    BY <1>1, <1>2
  <2> QED
    BY <1>2, <2>1, <2>2
<1>5. HostIn(h)' /\ buf'[h + 1] = NUL
  <2>1. \A k \in 1..h + 1 : k \in 1..pos + h - 9 - a
    BY <1>2
  <2>2. h + 1 \in 1..h + 1 /\ \A k \in 1..h : k \in 1..h + 1
    BY <1>2
  <2> QED
    BY <1>1, <1>2, <1>4, <2>1, <2>2 DEF HostIn
<1>6. IsUrl(h, a)'
  BY <1>1, <1>2, ReadKept
<1>7. ASSUME NEW k \in 10 + a..pos' - 1 PROVE buf'[h + k - 8 - a] = s'[k]
  <2>1. CASE k = pos
    <3>1. h + k - 8 - a = pos + h - 8 - a
      BY <1>2, <2>1
    <3> QED
      BY <1>1, <1>4, <2>1, <3>1
  <2>2. CASE k # pos
    <3>1. k \in 10 + a..pos - 1 /\ h + k - 8 - a \in 1..pos + h - 9 - a
      BY <1>1, <1>2, <2>2
    <3> QED
      BY <1>1, <1>2, <1>4, <3>1
  <2> QED
    BY <2>1, <2>2
<1>8. (port = IF h < a THEN Value(PortText(h, a)) ELSE DefaultPort)'
  BY <1>1, <1>2, ReadKept
<1>9. 10 + a < pos' /\ pathAt' = h + 2 /\ rc' # "ok"
  BY <1>1, <1>2
<1>10. InPath(h, a)'
  BY <1>4, <1>5, <1>6, <1>7, <1>8, <1>9 DEF InPath
<1> QED
  BY <1>1, <1>2, <1>10, ReadKept DEF Reading
(* A digit more, whether the port becomes too large or not. *)
LEMMA DigitKnown ==
  ASSUME Parsed, Reading, More, state = 11, To(11, s[pos]) = 11
  PROVE  /\ NextPort \in Nat /\ MaxPort \in Nat
         /\ \E h \in Lengths, a \in Nat :
              /\ h \in Nat /\ h < a /\ pos = 10 + a
              /\ HostRead(h) /\ HostIn(h) /\ Len(buf) = h + 1 /\ buf[h + 1] = NUL
              /\ s[10 + h] = ":" /\ \A k \in 11 + h..10 + a : s[k] \in Digits
              /\ NextPort = Value(PortText(h, a + 1))
<1>1. PICK h \in Lengths, a \in Nat :
           /\ a = pos - 10 /\ h \in Nat /\ h < a /\ 10 + a = pos /\ pos <= Len(s)
           /\ HostRead(h) /\ HostIn(h) /\ Len(buf) = h + 1 /\ buf[h + 1] = NUL
           /\ s[10 + h] = ":" /\ \A k \in 11 + h..9 + a : s[k] \in Digits
           /\ port = Value(PortText(h, a)) /\ port <= MaxPort
           /\ buf \in Seq(Chars \cup {NUL}) /\ s[pos] \in Chars \cup {NUL}
  BY PortKnown
<1>2. a \in Nat /\ h \in Nat /\ h < a /\ pos = 10 + a
  BY <1>1
<1>3. s[pos] \in Digits
  BY Transitions
<1>4. NextPort = Value(PortText(h, a + 1))
  <2>1. Value(PortText(h, a + 1)) = 10 * Value(PortText(h, a)) + Digit[s[10 + a]]
    BY <1>1, <1>3, PortTextAppends
  <2>2. NextPort = port * 10 + Digit[s[pos]]
    BY DEF NextPort
  <2>3. port \in Nat
    BY UrlAssumption DEF Parsed, TypeOK
  <2> QED
    BY <1>1, <2>1, <2>2, <2>3
<1>5. \A k \in 11 + h..10 + a : s[k] \in Digits
  <2>1. \A k \in 11 + h..10 + a : k \in 11 + h..9 + a \/ k = pos
    BY <1>2
  <2> QED
    BY <1>1, <1>3, <2>1
<1> QED
  BY <1>1, <1>2, <1>4, <1>5, NextPortBound, UrlAssumption DEF Parsed

LEMMA ReadsPort ==
  ASSUME Parsed, Reading, PortDigit
  PROVE  Reading'
<1>1. /\ More /\ state = 11 /\ To(11, s[pos]) = 11 /\ state' = 11 /\ pos' = pos + 1
      /\ s' = s /\ buf' = buf /\ port' = NextPort /\ rc' = "running"
  BY DEF PortDigit, Step, More
<1>2. PICK h \in Lengths, a \in Nat :
              /\ h \in Nat /\ h < a /\ pos = 10 + a
              /\ HostRead(h) /\ HostIn(h) /\ Len(buf) = h + 1 /\ buf[h + 1] = NUL
              /\ s[10 + h] = ":" /\ \A k \in 11 + h..10 + a : s[k] \in Digits
              /\ NextPort = Value(PortText(h, a + 1))
  BY <1>1, DigitKnown
<1>3. pos' - 1 = 10 + a /\ pos' - 10 = a + 1 /\ h + 11 <= pos'
  BY <1>1, <1>2
<1>4. HostRead(h)' /\ HostIn(h)' /\ Len(buf') = h + 1 /\ buf'[h + 1] = NUL /\ s'[10 + h] = ":"
  BY <1>1, <1>2, ReadKept DEF HostIn
<1>5. (\A k \in 11 + h..pos - 1 : s[k] \in Digits)'
  BY <1>1, <1>2, <1>3
<1>6. (port = Value(PortText(h, pos - 10)))'
  <2>1. PortText(h, pos - 10)' = PortText(h, a + 1)
    BY <1>1, <1>3 DEF PortText
  <2> QED
    BY <1>1, <1>2, <2>1
<1>7. InPort(h)'
  BY <1>1, <1>3, <1>4, <1>5, <1>6 DEF InPort
<1> QED
  BY <1>1, <1>2, <1>7, ReadKept DEF Reading

LEMMA ReadsPortTooLarge ==
  ASSUME Parsed, Reading, PortTooLarge
  PROVE  Reading'
<1>1. /\ More /\ state = 11 /\ To(11, s[pos]) = 11 /\ state' = 11 /\ pos' = pos
      /\ s' = s /\ buf' = buf /\ port' = NextPort /\ rc' = "bad port"
  BY DEF PortTooLarge, More
<1>2. PICK h \in Lengths, a \in Nat :
              /\ h \in Nat /\ h < a /\ pos = 10 + a
              /\ HostRead(h) /\ HostIn(h) /\ Len(buf) = h + 1 /\ buf[h + 1] = NUL
              /\ s[10 + h] = ":" /\ \A k \in 11 + h..10 + a : s[k] \in Digits
              /\ NextPort = Value(PortText(h, a + 1))
  BY <1>1, DigitKnown
<1>3. NextPort > MaxPort
  <2>1. NextPort \in Nat /\ MaxPort \in Nat
    BY <1>1, DigitKnown
  <2>2. ~(NextPort <= MaxPort)
    BY DEF PortTooLarge, PortFits
  <2> QED
    BY <2>1, <2>2
<1>4. pos' - 1 = 9 + a /\ pos' - 9 = a + 1 /\ h + 11 <= pos'
  <2>1. pos' = 10 + a /\ h < a /\ a \in Nat /\ h \in Nat
    BY <1>1, <1>2
  <2> QED
    BY <2>1
<1>5. HostRead(h)' /\ HostIn(h)' /\ Len(buf') = h + 1 /\ buf'[h + 1] = NUL /\ s'[10 + h] = ":"
  BY <1>1, <1>2, ReadKept DEF HostIn
<1>6. (\A k \in 11 + h..pos - 1 : s[k] \in Digits)' /\ s'[pos'] \in Digits
  <2>1. pos \in 11 + h..10 + a /\ \A k \in 11 + h..9 + a : k \in 11 + h..10 + a
    BY <1>2
  <2> QED
    BY <1>1, <1>2, <1>4, <2>1
<1>7. (Value(PortText(h, pos - 9)) > MaxPort)'
  <2>1. PortText(h, pos - 9)' = PortText(h, a + 1)
    BY <1>1, <1>4 DEF PortText
  <2> QED
    BY <1>2, <1>3, <2>1
<1>8. InPort(h)'
  BY <1>1, <1>4, <1>5, <1>6, <1>7 DEF InPort
<1>9. state' = 11 /\ h \in Lengths'
  BY <1>1, <1>2, ReadKept
<1> QED
  BY <1>8, <1>9 DEF Reading

LEMMA ReadsEnd ==
  ASSUME Parsed, Reading, Accept
  PROVE  Reading'
<1>1. /\ rc = "running" /\ state = 12 /\ state' = 12 /\ pos' = pos /\ rc' = "ok"
      /\ s' = s /\ port' = port /\ pathAt' = pathAt /\ buf' = Append(buf, NUL)
  BY DEF Accept
<1>2. PICK h \in Lengths, a \in Lengths :
           /\ h \in Nat /\ a \in Nat /\ pos \in Nat /\ h <= a
           /\ IsUrl(h, a) /\ HostIn(h) /\ buf[h + 1] = NUL /\ pathAt = h + 2
           /\ 10 + a < pos /\ \A k \in 10 + a..pos - 1 : buf[h + k - 8 - a] = s[k]
           /\ port = IF h < a THEN Value(PortText(h, a)) ELSE DefaultPort
           /\ Len(buf) = pos + h - 9 - a
           /\ buf \in Seq(Chars \cup {NUL})
  BY <1>1, PathKnown
<1>3. /\ Len(buf') = pos + h - 8 - a /\ buf'[pos + h - 8 - a] = NUL
      /\ \A k \in 1..pos + h - 9 - a : buf'[k] = buf[k]
  <2>1. /\ Len(buf') = Len(buf) + 1 /\ buf'[Len(buf) + 1] = NUL
        /\ \A k \in 1..Len(buf) : buf'[k] = buf[k]
    BY <1>1, <1>2, Appended
  <2>2. (pos + h - 9 - a) + 1 = pos + h - 8 - a
    BY <1>2
  <2> QED
    BY <1>2, <2>1, <2>2
<1>4. HostIn(h)' /\ buf'[h + 1] = NUL
  <2>1. \A k \in 1..h + 1 : k \in 1..pos + h - 9 - a
    BY <1>2
  <2>2. h + 1 \in 1..h + 1 /\ \A k \in 1..h : k \in 1..h + 1
    BY <1>2
  <2> QED
    BY <1>1, <1>2, <1>3, <2>1, <2>2 DEF HostIn
<1>5. \A k \in 10 + a..pos' - 1 : buf'[h + k - 8 - a] = s'[k]
  <2>1. \A k \in 10 + a..pos' - 1 : k \in 10 + a..pos - 1 /\ h + k - 8 - a \in 1..pos + h - 9 - a
    BY <1>1, <1>2
  <2> QED
    BY <1>1, <1>2, <1>3, <2>1
<1>6. (port = IF h < a THEN Value(PortText(h, a)) ELSE DefaultPort)' /\ IsUrl(h, a)'
  BY <1>1, <1>2, ReadKept
<1>7. InPath(h, a)'
  BY <1>1, <1>2, <1>3, <1>4, <1>5, <1>6 DEF InPath
<1> QED
  BY <1>1, <1>2, <1>7, ReadKept DEF Reading

(* A URL that is refused is left where it is. *)
LEMMA ReadsRefused ==
  ASSUME Reading, rc = "running", rc' # "ok", rc' # "bad port",
         UNCHANGED <<s, len, pos, state, port, buf, pathAt>>
  PROVE  Reading'
<1>1. /\ InScheme => InScheme'
      /\ InHost => InHost'
  BY ReadKept DEF InScheme, InHost, HostIn
<1>2. \A h : InPort(h) => InPort(h)'
  BY ReadKept DEF InPort, HostIn
<1>3. \A h, a : InPath(h, a) => InPath(h, a)'
  BY ReadKept DEF InPath, HostIn
<1> QED
  BY <1>1, <1>2, <1>3, ReadKept DEF Reading
LEMMA ReadsStep == Parsed /\ Reading /\ Ending /\ [Next]_vars => (Reading /\ Ending)'
<1> SUFFICES ASSUME Parsed, Reading, Ending, [Next]_vars PROVE Reading' /\ Ending'
  OBVIOUS
<1>t. pos \in 1..Len(s) + 1 /\ Len(s) \in Nat /\ state \in 0..12
  BY DEF Parsed, TypeOK
<1>1. CASE TooSmall
  <2>1. Reading'
    BY <1>1, ReadsRefused DEF TooSmall, Refuse, Full, More
  <2>2. Ending'
    BY <1>1 DEF TooSmall, Refuse, Full, More, Ending
  <2> QED
    BY <2>1, <2>2
<1>2. CASE BadCharacter
  <2>1. Reading'
    BY <1>2, ReadsRefused DEF BadCharacter, Refuse, More
  <2>2. Ending'
    BY <1>2 DEF BadCharacter, Refuse, More, Ending
  <2> QED
    BY <2>1, <2>2
<1>3. CASE SchemeChar
  <2>1. rc' = "running"
    BY <1>3 DEF SchemeChar, Step, More
  <2> QED
    BY <1>3, <2>1, ReadsScheme DEF Ending
<1>4. CASE HostChar
  <2>1. rc' = "running"
    BY <1>4 DEF HostChar, Step, More
  <2> QED
    BY <1>4, <2>1, ReadsHost DEF Ending
<1>5. CASE HostEndsAtPath
  <2>1. rc' = "running"
    BY <1>5 DEF HostEndsAtPath, Step, More
  <2> QED
    BY <1>5, <2>1, ReadsHostEndAtPath DEF Ending
<1>6. CASE HostEndsAtPort
  <2>1. rc' = "running"
    BY <1>6 DEF HostEndsAtPort, Step, More
  <2> QED
    BY <1>6, <2>1, ReadsHostEndAtPort DEF Ending
<1>7. CASE PathStarts
  <2>1. rc' = "running"
    BY <1>7 DEF PathStarts, Step, More
  <2> QED
    BY <1>7, <2>1, ReadsPathStart DEF Ending
<1>8. CASE PathChar
  <2>1. rc' = "running"
    BY <1>8 DEF PathChar, Step, More
  <2> QED
    BY <1>8, <2>1, ReadsPath DEF Ending
<1>9. CASE PortDigit
  <2>1. rc' = "running"
    BY <1>9 DEF PortDigit, Step, More
  <2> QED
    BY <1>9, <2>1, ReadsPort DEF Ending
<1>10. CASE PortTooLarge
  <2>1. Ending'
    BY <1>10 DEF PortTooLarge, More, Ending
  <2> QED
    BY <1>10, <2>1, ReadsPortTooLarge
<1>11. CASE Accept
  <2>1. Ending'
    <3>1. pos' = Len(s') + 1 /\ state' = 12 /\ rc' = "ok"
      BY <1>t, <1>11 DEF Accept
    <3> QED
      BY <3>1 DEF Ending
  <2> QED
    BY <1>11, <2>1, ReadsEnd
<1>12. CASE Incomplete
  <2>1. Reading'
    BY <1>12, ReadsRefused DEF Incomplete, Refuse
  <2>2. Ending'
    <3>1. pos' = Len(s') + 1 /\ state' # 12 /\ rc' = "incomplete"
      BY <1>t, <1>12 DEF Incomplete, Refuse
    <3> QED
      BY <3>1 DEF Ending
  <2> QED
    BY <2>1, <2>2
<1>13. CASE UNCHANGED vars
  <2> USE <1>13 DEF vars
  <2>1. (InScheme => InScheme') /\ (InHost => InHost')
    BY ReadKept DEF InScheme, InHost, HostIn
  <2>2. \A h : InPort(h) => InPort(h)'
    BY ReadKept DEF InPort, HostIn
  <2>3. \A h, a : InPath(h, a) => InPath(h, a)'
    BY ReadKept DEF InPath, HostIn
  <2>4. Reading'
    BY <2>1, <2>2, <2>3, ReadKept DEF Reading
  <2>5. Ending'
    BY DEF Ending
  <2> QED
    BY <2>4, <2>5
<1> QED
  BY <1>1, <1>2, <1>3, <1>4, <1>5, <1>6, <1>7, <1>8, <1>9, <1>10, <1>11, <1>12,
     <1>13 DEF Next

LEMMA ReadsAlways == Spec => [](Parsed /\ Reading /\ Ending)
<1>1. Init => Parsed /\ Reading /\ Ending
  BY ParsedInit, ReadsInit
<1>2. Parsed /\ Reading /\ Ending /\ [Next]_vars => (Parsed /\ Reading /\ Ending)'
  BY ParsedStep, ReadsStep
<1> QED
  BY <1>1, <1>2, PTL DEF Spec

-----------------------------------------------------------------------------
(* Where the parser is in a URL, while it is in the host *)
LEMMA HostNotLeft ==
  ASSUME NEW g \in Nat, HostRead(g), NEW h \in Nat, NEW a \in Nat, IsUrl(h, a)
  PROVE  g <= h
<1>1. s[10 + h] \notin HostChars /\ h <= a
  <2>1. CASE h < a
    BY <2>1, Separators DEF IsUrl
  <2>2. CASE h = a
    BY <2>2, Separators DEF IsUrl
  <2> QED
    BY <2>1, <2>2 DEF IsUrl
<1> SUFFICES ASSUME h < g PROVE FALSE
  OBVIOUS
<1>2. 10 + h \in 10..9 + g
  OBVIOUS
<1> QED
  BY <1>1, <1>2 DEF HostRead

(* and in the port. *)
LEMMA PortNotLeft ==
  ASSUME Parsed, NEW g \in Lengths, InPort(g), NEW h \in Lengths, NEW a \in Lengths, IsUrl(h, a)
  PROVE  h = g /\ h < a /\ pos <= 10 + a
<1>1. g \in Nat /\ h \in Nat /\ a \in Nat /\ pos \in Nat
  BY DEF Lengths, Parsed, TypeOK
<1>2. h = g
  <2>1. (\A k \in 10..9 + g : s[k] \in HostChars) /\ s[10 + g] \notin HostChars
    BY Separators DEF InPort, HostRead
  <2> QED
    BY <1>1, <2>1, OneHost
<1>3. s[10 + h] = ":" /\ s[10 + a] = "/" /\ h <= a
  BY <1>2 DEF InPort, IsUrl
<1>4. h < a
  BY <1>1, <1>3, Separators
<1>5. pos <= 10 + a
  <2> SUFFICES ASSUME 10 + a < pos PROVE FALSE
    BY <1>1
  <2>1. 10 + a \in 11 + g..pos - 1
    BY <1>1, <1>2, <1>4
  <2>2. s[10 + a] \in Digits
    BY <2>1 DEF InPort
  <2> QED
    BY <1>3, <2>2, Separators
<1> QED
  BY <1>2, <1>4, <1>5
(* A character that leads nowhere is in no URL, *)
LEMMA BadCharacterRefused ==
  ASSUME Parsed, Reading, pos <= Len(s), To(state, s[pos]) < 0,
         NEW h \in Lengths, NEW a \in Lengths, IsUrl(h, a)
  PROVE  FALSE
<1>1. pos \in 1..Len(s) /\ Len(s) \in Nat /\ state \in 0..12
  BY DEF Parsed, TypeOK
<1>2. To(state, s[pos]) < 0
  OBVIOUS
<1>3. h \in Nat /\ a \in Nat /\ h >= 1
  BY <1>1 DEF Lengths
<1>4. CASE state \in 0..8
  <2>1. pos = state + 1 /\ s[pos] = Scheme[pos]
    <3>1. pos = state + 1
      BY <1>4 DEF Reading, InScheme
    <3>2. pos \in 1..9
      BY <1>4, <3>1
    <3> HIDE DEF Scheme
    <3> QED
      BY <3>1, <3>2 DEF IsUrl
  <2>2. To(state, s[pos]) = state + 1
    <3> HIDE DEF Scheme
    <3> QED
      BY <1>4, <2>1, Transitions
  <2> QED
    BY <1>2, <1>4, <2>2
<1>5. CASE state = 9
  <2>1. pos = 10
    BY <1>5 DEF Reading, InScheme
  <2>2. s[pos] \in HostChars
    <3>1. 10 \in 10..9 + h
      BY <1>3
    <3> QED
      BY <2>1, <3>1 DEF IsUrl
  <2>3. To(state, s[pos]) = 10
    BY <1>5, <2>2, Transitions
  <2> QED
    BY <1>2, <2>3
<1>6. CASE state = 10
  <2>1. HostRead(pos - 10)
    BY <1>6 DEF Reading, InHost
  <2> PICK g : g = pos - 10
    OBVIOUS
  <2>2. g \in Nat /\ 10 + g = pos /\ HostRead(g)
    BY <1>1, <2>1 DEF HostRead
  <2>3. To(10, s[pos]) < 0
    BY <1>2, <1>6
  <2>4. s[pos] \notin HostChars /\ s[pos] # ":" /\ s[pos] # "/"
    BY <2>3, Transitions
  <2>5. h = g
    <3>1. (\A k \in 10..9 + g : s[k] \in HostChars) /\ s[10 + g] \notin HostChars
      BY <2>2, <2>4 DEF HostRead
    <3> QED
      BY <1>3, <2>2, <3>1, OneHost
  <2>6. s[10 + h] # ":" /\ s[10 + h] # "/"
    BY <2>2, <2>4, <2>5
  <2>7. CASE h < a
    BY <2>6, <2>7 DEF IsUrl
  <2>8. CASE h = a
    BY <2>6, <2>8 DEF IsUrl
  <2> QED
    BY <1>3, <2>7, <2>8 DEF IsUrl
<1>7. CASE state = 11
  <2>1. PICK g \in Lengths : InPort(g)
    BY <1>7 DEF Reading
  <2>2. h = g /\ h < a /\ pos <= 10 + a
    BY <2>1, PortNotLeft
  <2>3. To(11, s[pos]) < 0
    BY <1>2, <1>7
  <2>4. s[pos] \notin Digits /\ s[pos] # "/"
    BY <2>3, Transitions
  <2>5. CASE pos = 10 + a
    BY <2>4, <2>5 DEF IsUrl
  <2>6. CASE pos # 10 + a
    <3>1. pos >= h + 11
      BY <2>1, <2>2 DEF InPort
    <3>2. pos \in 11 + h..9 + a
      BY <1>1, <1>3, <2>2, <2>6, <3>1
    <3> QED
      BY <2>2, <2>4, <3>2 DEF IsUrl
  <2> QED
    BY <2>5, <2>6
<1>8. CASE state = 12
  BY <1>2, <1>8, Transitions
<1> QED
  BY <1>1, <1>4, <1>5, <1>6, <1>7, <1>8

(* a port is too large wherever it becomes so, *)
LEMMA BadPortRefused ==
  ASSUME Parsed, pos <= Len(s), NEW g \in Lengths, InPort(g),
         s[pos] \in Digits, Value(PortText(g, pos - 9)) > MaxPort,
         NEW h \in Lengths, NEW a \in Lengths, IsUrl(h, a)
  PROVE  FALSE
<1>1. pos \in 1..Len(s) /\ Len(s) \in Nat
  BY DEF Parsed, TypeOK
<1>2. h \in Nat /\ a \in Nat
  BY <1>1 DEF Lengths
<1>4. h = g /\ h < a /\ pos <= 10 + a
  BY PortNotLeft
<1>5. /\ s[pos] \in Digits /\ Value(PortText(h, pos - 9)) > MaxPort /\ h + 11 <= pos
  BY <1>4 DEF InPort
<1>6. /\ s[10 + a] = "/" /\ Value(PortText(h, a)) <= MaxPort
      /\ \A k \in 11 + h..9 + a : s[k] \in Digits
  BY <1>4 DEF IsUrl
<1>7. pos <= 9 + a
  <2>1. pos # 10 + a
    BY <1>5, <1>6, Separators
  <2> QED
    BY <1>1, <1>2, <1>4, <2>1
<1> PICK n \in Nat : n = pos - 10 - h
  BY <1>1, <1>2, <1>5
<1>8. n <= a - h - 1 /\ (pos - 9) - h - 1 = n /\ n \in 0..a - h - 1
  BY <1>1, <1>2, <1>7
<1>9. PortText(h, a) \in Seq(0..9) /\ Len(PortText(h, a)) = a - h - 1
  BY <1>2, <1>4, <1>6, PortTextType
<1>10. PortText(h, pos - 9) = SubSeq(PortText(h, a), 1, n)
  <2>1. PortText(h, pos - 9) = [k \in 1..n |-> Digit[s[10 + h + k]]]
    BY <1>8 DEF PortText
  <2>2. ASSUME NEW k \in 1..n PROVE PortText(h, a)[k] = Digit[s[10 + h + k]]
    <3>1. k \in 1..a - h - 1
      BY <1>2, <1>8
    <3> QED
      BY <3>1 DEF PortText
  <2> HIDE DEF PortText
  <2>3. SubSeq(PortText(h, a), 1, n) = [k \in 1..n |-> PortText(h, a)[k]]
    BY <1>2, <1>8, <1>9
  <2> QED
    BY <2>1, <2>2, <2>3
<1>11. Value(PortText(h, pos - 9)) <= Value(PortText(h, a))
  <2>1. n \in 0..Len(PortText(h, a))
    BY <1>8, <1>9
  <2> QED
    BY <1>9, <1>10, <2>1, ValueGrows
<1>12. Value(PortText(h, pos - 9)) \in Nat /\ Value(PortText(h, a)) \in Nat /\ MaxPort \in Nat
  <2>1. \A k \in 11 + h..9 + (pos - 9) : s[k] \in Digits
    <3>1. \A k \in 11 + h..9 + (pos - 9) : k \in 11 + h..9 + a
      BY <1>1, <1>2, <1>7
    <3> QED
      BY <1>6, <3>1
  <2>2. pos - 9 \in Nat /\ h < pos - 9
    BY <1>1, <1>2, <1>5
  <2>3. PortText(h, pos - 9) \in Seq(0..9)
    BY <1>2, <2>1, <2>2, PortTextType
  <2> QED
    BY <1>9, <2>3, ValueType, UrlAssumption
<1> QED
  BY <1>5, <1>6, <1>11, <1>12

(* and where the URL ends early it is none. *)
LEMMA IncompleteRefused ==
  ASSUME Parsed, Reading, pos = Len(s) + 1, state # 12,
         NEW h \in Lengths, NEW a \in Lengths, IsUrl(h, a)
  PROVE  FALSE
<1>1. pos = Len(s) + 1 /\ Len(s) \in Nat /\ state \in 0..11
  BY DEF Parsed, TypeOK
<1>2. h \in Nat /\ a \in Nat /\ h <= a /\ 10 + a < pos
  BY <1>1 DEF Lengths, IsUrl
<1>3. CASE state \in 0..9
  BY <1>1, <1>2, <1>3 DEF Reading, InScheme
<1>4. CASE state = 10
  <2>1. HostRead(pos - 10)
    BY <1>4 DEF Reading, InHost
  <2> PICK g \in Nat : g = pos - 10
    BY <1>1, <1>2
  <2>2. g <= h
    BY <1>2, <2>1, HostNotLeft
  <2> QED
    BY <1>1, <1>2, <2>2
<1>5. CASE state = 11
  <2>1. PICK g \in Lengths : InPort(g)
    BY <1>5 DEF Reading
  <2>2. pos <= 10 + a
    BY <2>1, PortNotLeft
  <2> QED
    BY <1>1, <1>2, <2>2
<1> QED
  BY <1>1, <1>3, <1>4, <1>5
(* A string is in the buffer if its characters are, one by one. *)
LEMMA HoldsCharacters ==
  ASSUME buf \in Seq(Chars \cup {NUL}), NEW n \in Nat, n >= 1, NEW t \in Seq(Chars),
         n + Len(t) <= Len(buf), \A k \in 1..Len(t) : buf[n + k - 1] = t[k],
         buf[n + Len(t)] = NUL
  PROVE  HoldsAt(n, t)
<1> DEFINE C == Chars \cup {NUL}
           m == n + Len(t)
           b == SubSeq(buf, n, m)
           u == Append(t, NUL)
<1>1. Len(t) \in Nat /\ Len(buf) \in Nat /\ m \in Nat /\ n <= m /\ m <= Len(buf)
  OBVIOUS
<1>2. t \in Seq(C) /\ NUL \in C
  OBVIOUS
<1>3. u \in Seq(C) /\ Len(u) = Len(t) + 1 /\ u[Len(t) + 1] = NUL
      /\ \A k \in 1..Len(t) : u[k] = t[k]
  <2> HIDE DEF C
  <2> QED
    BY <1>2
<1>4. b \in Seq(C) /\ Len(b) = Len(t) + 1 /\ \A k \in 1..Len(t) + 1 : b[k] = buf[n + k - 1]
  <2> PICK l : l = m
    OBVIOUS
  <2>1. buf \in Seq(C) /\ l \in Nat /\ l <= Len(buf) /\ n <= l /\ l - n + 1 = Len(t) + 1
    BY <1>1
  <2>2. \A k \in n..l : buf[k] \in C
    <3> HIDE DEF C
    <3> QED
      BY <1>1, <2>1
  <2>3. SubSeq(buf, n, l) \in Seq(C) /\ Len(SubSeq(buf, n, l)) = Len(t) + 1
    <3> HIDE DEF C
    <3> QED
      BY <1>1, <2>1, <2>2
  <2>4. \A k \in 1..Len(t) + 1 : SubSeq(buf, n, l)[k] = buf[n + k - 1]
    <3> HIDE DEF C
    <3> QED
      BY <1>1, <2>1
  <2> QED
    BY <2>3, <2>4
<1>5. ASSUME NEW k \in 1..Len(t) + 1 PROVE b[k] = u[k]
  <2> HIDE DEF b, u, m
  <2>1. CASE k \in 1..Len(t)
    BY <1>3, <1>4, <2>1
  <2>2. CASE k = Len(t) + 1
    <3>1. n + k - 1 = n + Len(t)
      BY <1>1, <2>2
    <3> QED
      BY <1>3, <1>4, <2>2, <3>1
  <2> QED
    BY <1>1, <2>1, <2>2
<1>6. b = u
  <2> HIDE DEF b, u, C
  <2> QED
    BY <1>3, <1>4, <1>5
<1> QED
  BY <1>1, <1>6 DEF HoldsAt

(* There is one way to read a URL. *)
LEMMA OneReading ==
  ASSUME NEW h \in Nat, NEW a \in Nat, IsUrl(h, a), NEW g \in Nat, NEW b \in Nat, IsUrl(g, b)
  PROVE  g = h /\ b = a
<1>1. \A k \in 10..9 + h : s[k] \in HostChars
  BY DEF IsUrl
<1>2. s[10 + h] \notin HostChars
  <2>1. CASE h < a
    BY <2>1, Separators DEF IsUrl
  <2>2. CASE h = a
    BY <2>2, Separators DEF IsUrl
  <2> QED
    BY <2>1, <2>2 DEF IsUrl
<1>3. g = h
  BY <1>1, <1>2, OneHost
<1> QED
  BY <1>3, OneAuthority

(* The parts that are in the buffer when all was read are the URL's. *)
LEMMA PartsHeld ==
  ASSUME Parsed, pos = Len(s) + 1, NEW h \in Lengths, NEW a \in Lengths,
         IsUrl(h, a), HostIn(h), buf[h + 1] = NUL, pathAt = h + 2, 10 + a < pos,
         \A k \in 10 + a..pos - 1 : buf[h + k - 8 - a] = s[k],
         Len(buf) = pos + h - 8 - a, buf[pos + h - 8 - a] = NUL
  PROVE  HoldsAt(1, Host(h)) /\ HoldsAt(pathAt, Path(a))
<1>1. /\ Len(s) \in Nat /\ s \in Seq(Chars) /\ buf \in Seq(Chars \cup {NUL})
      /\ h \in Nat /\ a \in Nat /\ pos \in Nat
  BY DEF Parsed, TypeOK, Lengths
<1>2. h <= a /\ 10 + a <= Len(s)
  BY DEF IsUrl
<1>3. /\ Host(h) \in Seq(Chars) /\ Len(Host(h)) = h
      /\ \A k \in 1..h : Host(h)[k] = s[9 + k]
  <2>1. 9 + h <= Len(s)
    BY <1>1, <1>2
  <2> QED
    BY <1>1, <2>1 DEF Host
<1>4. /\ Path(a) \in Seq(Chars) /\ Len(Path(a)) = Len(s) - 9 - a
      /\ \A k \in 1..Len(s) - 9 - a : Path(a)[k] = s[9 + a + k]
  <2>1. 10 + a <= Len(s)
    BY <1>1, <1>2
  <2> QED
    BY <1>1, <2>1 DEF Path
<1>5. HoldsAt(1, Host(h))
  <2>1. 1 + h <= Len(buf)
    BY <1>1, <1>2
  <2>2. \A k \in 1..h : buf[1 + k - 1] = Host(h)[k]
    <3>1. \A k \in 1..h : 1 + k - 1 = k
      BY <1>1
    <3> QED
      BY <1>3, <3>1 DEF HostIn
  <2>3. buf[1 + h] = NUL
    <3>1. 1 + h = h + 1
      BY <1>1
    <3> QED
      BY <3>1
  <2> PICK t : t = Host(h)
    OBVIOUS
  <2>4. /\ t \in Seq(Chars) /\ 1 + Len(t) <= Len(buf) /\ buf[1 + Len(t)] = NUL
        /\ \A k \in 1..Len(t) : buf[1 + k - 1] = t[k]
    BY <1>3, <2>1, <2>2, <2>3
  <2>5. 1 \in Nat /\ 1 >= 1
    OBVIOUS
  <2>6. HoldsAt(1, t)
    BY <1>1, <2>4, <2>5, HoldsCharacters
  <2> QED
    BY <2>6
<1>6. HoldsAt(pathAt, Path(a))
  <2>1. pathAt + Len(Path(a)) = pos + h - 8 - a /\ pathAt \in Nat /\ pathAt >= 1
    BY <1>1, <1>4
  <2>2. ASSUME NEW k \in 1..Len(Path(a)) PROVE buf[pathAt + k - 1] = Path(a)[k]
    <3>1. 9 + a + k \in 10 + a..pos - 1 /\ h + (9 + a + k) - 8 - a = pathAt + k - 1
      <4>1. Len(Path(a)) = Len(s) - 9 - a
        BY <1>4
      <4>2. k \in 1..Len(s) - 9 - a
        BY <4>1
      <4> QED
        BY <1>1, <4>2
    <3>2. buf[h + (9 + a + k) - 8 - a] = s[9 + a + k]
      BY <3>1
    <3> QED
      BY <1>4, <3>1, <3>2
  <2>3. pathAt + Len(Path(a)) <= Len(buf)
    BY <1>1, <2>1
  <2> QED
    BY <1>1, <1>4, <2>1, <2>2, <2>3, HoldsCharacters
<1> QED
  BY <1>5, <1>6
LEMMA ReadLikeReference == Parsed /\ Reading /\ Ending => ParsesLikeReference
<1> SUFFICES ASSUME Parsed, Reading, Ending PROVE ParsesLikeReference
  OBVIOUS
<1>1. ASSUME rc = "bad character" PROVE ~Valid
  <2>1. pos <= Len(s) /\ To(state, s[pos]) < 0
    BY <1>1 DEF Ending
  <2> QED
    BY <2>1, BadCharacterRefused DEF Valid
<1>2. ASSUME rc = "bad port" PROVE ~Valid
  <2>1. pos <= Len(s) /\ state = 11
    BY <1>2 DEF Ending
  <2>2. PICK g \in Lengths : InPort(g)
    BY <2>1 DEF Reading
  <2>3. s[pos] \in Digits /\ Value(PortText(g, pos - 9)) > MaxPort
    BY <1>2, <2>2 DEF InPort
  <2> QED
    BY <2>1, <2>2, <2>3, BadPortRefused DEF Valid
<1>3. ASSUME rc = "incomplete" PROVE ~Valid
  <2>1. pos = Len(s) + 1 /\ state # 12
    BY <1>3 DEF Ending
  <2> QED
    BY <2>1, IncompleteRefused DEF Valid
<1>4. ASSUME rc = "ok"
      PROVE  /\ Valid
             /\ \A h, a \in Lengths : IsUrl(h, a) =>
                  /\ HoldsAt(1, Host(h)) /\ HoldsAt(pathAt, Path(a))
                  /\ h = a => port = DefaultPort
                  /\ h + 1 < a => port = Value(PortText(h, a))
  <2>1. pos = Len(s) + 1 /\ state = 12
    BY <1>4 DEF Ending
  <2>2. PICK h \in Lengths, a \in Lengths : InPath(h, a)
    BY <2>1 DEF Reading
  <2>3. /\ IsUrl(h, a) /\ HostIn(h) /\ buf[h + 1] = NUL /\ pathAt = h + 2
        /\ 10 + a < pos /\ \A k \in 10 + a..pos - 1 : buf[h + k - 8 - a] = s[k]
        /\ port = IF h < a THEN Value(PortText(h, a)) ELSE DefaultPort
        /\ Len(buf) = pos + h - 8 - a /\ buf[pos + h - 8 - a] = NUL
    BY <1>4, <2>2 DEF InPath
  <2>4. HoldsAt(1, Host(h)) /\ HoldsAt(pathAt, Path(a))
    BY <2>1, <2>3, PartsHeld
  <2>5. ASSUME NEW g \in Lengths, NEW b \in Lengths, IsUrl(g, b) PROVE g = h /\ b = a
    <3>1. \A x \in Lengths : x \in Nat
      BY DEF Lengths, Parsed, TypeOK
    <3> QED
      BY <2>3, <2>5, <3>1, OneReading
  <2>6. Valid
    BY <2>3 DEF Valid
  <2>7. (h = a => port = DefaultPort) /\ (h + 1 < a => port = Value(PortText(h, a)))
    <3>1. h \in Nat /\ a \in Nat
      BY DEF Lengths, Parsed, TypeOK
    <3> QED
      BY <2>3, <3>1
  <2> QED
    BY <2>4, <2>5, <2>6, <2>7
<1> QED
  BY <1>1, <1>2, <1>3, <1>4 DEF ParsesLikeReference

(* A URL is accepted exactly if it is one, and its host, its port and its  *)
(* path are found, whatever its length, the alphabet and the buffer; a URL *)
(* that is refused for what it says can be read in no way.                 *)
THEOREM ParsesLikeReferenceHolds == Spec => []ParsesLikeReference
BY ReadsAlways, ReadLikeReference, PTL

(* What fills the buffer is never more than what the URL needs of it.      *)
LEMMA FullOfNeeded ==
  ASSUME Parsed, Reading, pos <= Len(s), Len(buf) >= len, rc # "ok",
         NEW h \in Lengths, NEW a \in Lengths, IsUrl(h, a)
  PROVE  Len(Host(h)) + 1 + Len(Path(a)) + 1 > len
<1>1. /\ Len(s) \in Nat /\ s \in Seq(Chars) /\ Len(buf) \in Nat /\ len \in Nat
      /\ h \in Nat /\ a \in Nat /\ pos \in Nat /\ state \in 0..12
  BY DEF Parsed, TypeOK, Lengths
<1>2. h <= a /\ 10 + a <= Len(s)
  BY DEF IsUrl
<1>3. Len(Host(h)) = h
  <2>1. 9 + h <= Len(s)
    BY <1>1, <1>2
  <2> QED
    BY <1>1, <2>1 DEF Host
<1>4. Len(Path(a)) = Len(s) - 9 - a
  BY <1>1, <1>2 DEF Path
<1>5. Len(buf) <= h + Len(s) - 9 - a
  <2>1. CASE state \in 0..9
    <3>1. buf = <<>>
      BY <2>1 DEF Reading, InScheme
    <3>2. Len(buf) = 0
      BY <3>1
    <3> QED
      BY <1>1, <1>2, <3>2
  <2>2. CASE state = 10
    <3>1. HostRead(pos - 10) /\ Len(buf) = pos - 10
      BY <2>2 DEF Reading, InHost
    <3> PICK g : g = pos - 10
      OBVIOUS
    <3>2. HostRead(g) /\ g \in Nat /\ Len(buf) = g
      BY <1>1, <3>1
    <3>3. g <= h
      BY <1>1, <3>2, HostNotLeft
    <3> QED
      BY <1>1, <1>2, <3>2, <3>3
  <2>3. CASE state = 11
    <3>1. PICK g \in Lengths : InPort(g)
      BY <2>3 DEF Reading
    <3>2. h = g
      BY <3>1, PortNotLeft
    <3>3. Len(buf) = h + 1
      BY <3>1, <3>2 DEF InPort
    <3> QED
      BY <1>1, <1>2, <3>3
  <2>4. CASE state = 12
    <3>1. PICK g \in Lengths, b \in Lengths : InPath(g, b)
      BY <2>4 DEF Reading
    <3>2. IsUrl(g, b) /\ Len(buf) = pos + g - 9 - b
      BY <3>1 DEF InPath
    <3>3. g = h /\ b = a
      <4>1. g \in Nat /\ b \in Nat
        BY <1>1 DEF Lengths
      <4> QED
        BY <1>1, <3>2, <4>1, OneReading
    <3> QED
      BY <1>1, <3>2, <3>3
  <2> QED
    BY <1>1, <2>1, <2>2, <2>3, <2>4
<1> QED
  BY <1>1, <1>2, <1>3, <1>4, <1>5

LEMMA ReadsAsFarAsFits == Parsed /\ Reading /\ Ending => RefusedOnlyIfTooSmall
<1> SUFFICES ASSUME Parsed, Reading, Ending, rc = "too small"
             PROVE  \A h, a \in Lengths : IsUrl(h, a) =>
                      Len(Host(h)) + 1 + Len(Path(a)) + 1 > len
  BY DEF RefusedOnlyIfTooSmall
<1>1. pos <= Len(s) /\ Len(buf) >= len /\ rc # "ok"
  BY DEF Ending
<1> QED
  BY <1>1, FullOfNeeded

(* No buffer of a caller is called too small for a URL whose host and path *)
(* fit it with their NULs, although room is asked for before it is known   *)
(* what a character takes.                                                 *)
THEOREM RefusedOnlyIfTooSmallHolds == Spec => []RefusedOnlyIfTooSmall
BY ReadsAlways, ReadsAsFarAsFits, PTL
=============================================================================
