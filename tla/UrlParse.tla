------------------------------ MODULE UrlParse ------------------------------
(***************************************************************************)
(* gemini_parse_url_into() of url.c: it takes a URL apart with the         *)
(* automaton of url.pl (fsm.url.c) and writes the host and the path, each  *)
(* with a NUL behind it, into the buffer that ends a struct gemini_url.    *)
(* gemini_parse_url() makes that buffer one longer than the URL, other     *)
(* callers bring one of theirs.                                            *)
(*                                                                         *)
(* The bytes that are written are counted even when they lie behind the    *)
(* buffer; allocation does not fail.                                       *)
(***************************************************************************)
EXTENDS Decimal, SequencesExt

CONSTANTS
  Chars,        \* the characters of a URL
  HostChars,    \* those a host may have
  Digit,        \* the value of each digit
  NUL,          \* what is behind a string
  Texts,        \* the URLs to parse
  Sizes,        \* the sizes of the buffers of callers
  MaxPort,      \* 0xffff
  DefaultPort   \* GEMINI_DEFAULT_PORT

Digits == DOMAIN Digit
Scheme == <<"g", "e", "m", "i", "n", "i", ":", "/", "/">>

ASSUME UrlAssumption ==
  /\ {":", "/"} \subseteq Chars \ HostChars
  /\ HostChars \subseteq Chars /\ Digits \subseteq HostChars /\ NUL \notin Chars
  /\ Digit \in [Digits -> 0..9]
  /\ Texts \subseteq Seq(Chars) /\ Sizes \subseteq Nat
  /\ MaxPort \in Nat /\ DefaultPort \in 0..MaxPort

VARIABLES
  s,        \* the argument
  len,      \* url->len
  pos,      \* the position of `next' in s, from 1
  state,    \* the state of the automaton, 0 to 12
  port,
  buf,      \* url->buf, up to `fill'
  pathAt,   \* the position of url->path in buf, from 1; url->host is at 1
  rc        \* "running", "ok" or why the URL is refused

vars == <<s, len, pos, state, port, buf, pathAt, rc>>
Refusals == {"too small", "bad character", "bad port", "incomplete"}

Init ==
  /\ s \in Texts
  /\ len \in Sizes \cup {Len(s) + 1}
  /\ pos = 1 /\ state = 0 /\ port = DefaultPort
  /\ buf = <<>> /\ pathAt = 0
  /\ rc = "running"

(* STATES[from][ch], -1 where there is none *)
To(from, ch) ==
  CASE from < 9 /\ ch = Scheme[from + 1]      -> from + 1
    [] from \in {9, 10} /\ ch \in HostChars   -> 10
    [] from = 10 /\ ch = ":"                  -> 11
    [] from = 11 /\ ch \in Digits             -> 11
    [] from \in {10, 11} /\ ch = "/"          -> 12
    [] from = 12                              -> 12
    [] OTHER                                  -> -1

-----------------------------------------------------------------------------
More == rc = "running" /\ pos <= Len(s)

(* Mutant: room for what comes at the end is asked for all the time. *)
FullOfReserve == More /\ Len(buf) >= len - 3

Full == More /\ Len(buf) >= len

(* The character at `next' leads from one state to another. *)
Step(from, to) ==
  /\ More /\ ~Full
  /\ state = from /\ To(from, s[pos]) = to
  /\ state' = to /\ pos' = pos + 1
  /\ UNCHANGED <<s, len, rc>>

Refuse(why) == rc' = why /\ UNCHANGED <<s, len, pos, state, port, buf, pathAt>>

TooSmall == Full /\ Refuse("too small")

BadCharacter ==
  /\ More /\ ~Full
  /\ To(state, s[pos]) < 0
  /\ Refuse("bad character")

(* Mutant: the scheme is copied like the rest. *)
SchemeCharCopied ==
  /\ \E from \in 0..8 : Step(from, from + 1)
  /\ buf' = Append(buf, s[pos])
  /\ UNCHANGED <<port, pathAt>>

SchemeChar ==
  /\ \E from \in 0..8 : Step(from, from + 1)
  /\ UNCHANGED <<port, buf, pathAt>>

HostChar ==
  /\ Step(9, 10) \/ Step(10, 10)
  /\ buf' = Append(buf, s[pos])
  /\ UNCHANGED <<port, pathAt>>

(* Two bytes are written after a check for one. *)
HostEndsAtPath ==
  /\ Step(10, 12)
  /\ buf' = buf \o <<NUL, s[pos]>>
  /\ pathAt' = Len(buf) + 2
  /\ UNCHANGED port

HostEndsAtPort ==
  /\ Step(10, 11)
  /\ buf' = Append(buf, NUL)
  /\ port' = 0
  /\ UNCHANGED pathAt

PathStarts ==
  /\ Step(11, 12)
  /\ pathAt' = Len(buf) + 1
  /\ buf' = Append(buf, s[pos])
  /\ UNCHANGED port

PathChar ==
  /\ Step(12, 12)
  /\ buf' = Append(buf, s[pos])
  /\ UNCHANGED <<port, pathAt>>

NextPort == port * 10 + Digit[s[pos]]

(* Mutant: the port is looked at before the digit is added. *)
PortFitsBefore == port <= MaxPort
(* Mutant: the port is not looked at. *)
PortFitsAlways == TRUE

PortFits == NextPort <= MaxPort

PortDigit ==
  /\ Step(11, 11)
  /\ PortFits
  /\ port' = NextPort
  /\ UNCHANGED <<buf, pathAt>>

PortTooLarge ==
  /\ More /\ ~Full
  /\ state = 11 /\ To(11, s[pos]) = 11
  /\ ~PortFits
  /\ rc' = "bad port" /\ port' = NextPort
  /\ UNCHANGED <<s, len, pos, state, buf, pathAt>>

(* The last NUL is written without a check. *)
Accept ==
  /\ rc = "running" /\ pos > Len(s)
  /\ state = 12
  /\ buf' = Append(buf, NUL) /\ rc' = "ok"
  /\ UNCHANGED <<s, len, pos, state, port, pathAt>>

Incomplete ==
  /\ rc = "running" /\ pos > Len(s)
  /\ state # 12
  /\ Refuse("incomplete")

Next ==
  \/ TooSmall \/ BadCharacter \/ SchemeChar
  \/ HostChar \/ HostEndsAtPath \/ HostEndsAtPort
  \/ PathStarts \/ PathChar
  \/ PortDigit \/ PortTooLarge
  \/ Accept \/ Incomplete

Spec == Init /\ [][Next]_vars

-----------------------------------------------------------------------------
(* A reference: behind the scheme comes a host of h characters, and behind *)
(* `a' characters the path; what is between the two is a colon and a port. *)

Lengths        == 1..Len(s)
Host(h)        == SubSeq(s, 10, 9 + h)
PortText(h, a) == [k \in 1..a - h - 1 |-> Digit[s[10 + h + k]]]
Path(a)        == SubSeq(s, 10 + a, Len(s))

IsUrl(h, a) ==
  /\ h <= a /\ 10 + a <= Len(s)
  /\ \A k \in 1..9 : s[k] = Scheme[k]
  /\ \A k \in 10..9 + h : s[k] \in HostChars
  /\ h < a => /\ s[10 + h] = ":"
              /\ \A k \in 11 + h..9 + a : s[k] \in Digits
              /\ Value(PortText(h, a)) <= MaxPort
  /\ s[10 + a] = "/"
Valid == \E h, a \in Lengths : IsUrl(h, a)

(* The C string at n in the buffer is t; there is no NUL in a URL. *)
HoldsAt(n, t) ==
  /\ n > 0 /\ n + Len(t) <= Len(buf)
  /\ SubSeq(buf, n, n + Len(t)) = Append(t, NUL)

(* The types; `port' is an int and stays below ten times the largest port, *)
(* so that it cannot overflow whatever the digits are (url.c:83-86).       *)
TypeOK ==
  /\ s \in Seq(Chars) /\ len \in Nat
  /\ pos \in 1..Len(s) + 1 /\ state \in 0..12
  /\ port \in 0..10 * MaxPort + 9
  /\ buf \in Seq(Chars \cup {NUL}) /\ pathAt \in 0..Len(buf)
  /\ rc \in {"running", "ok"} \cup Refusals

(* t/url.c: a URL is accepted if it is one, and the host, the port and the *)
(* path found in the buffer are those it names.  The port of gemini://h:/  *)
(* is left open: gemini.h:21-22 says the default port, the code 0.         *)
ParsesLikeReference ==
  /\ rc \in {"bad character", "bad port", "incomplete"} => ~Valid
  /\ rc = "ok" =>
       /\ Valid
       /\ \A h, a \in Lengths : IsUrl(h, a) =>
            /\ HoldsAt(1, Host(h)) /\ HoldsAt(pathAt, Path(a))
            /\ h = a => port = DefaultPort
            /\ h + 1 < a => port = Value(PortText(h, a))

(* url.c:23: a buffer as large as the URL and its NUL is never too small   *)
(* and nothing is written behind it, although most of what is written is   *)
(* not checked by itself.                                                  *)
OwnBufferSuffices == len > Len(s) => rc # "too small" /\ Len(buf) <= len

(* url.c:46-48: the check comes before it is known whether a character     *)
(* takes any room, and yet no URL is refused whose host and path fit.      *)
RefusedOnlyIfTooSmall ==
  rc = "too small" =>
    \A h, a \in Lengths : IsUrl(h, a) => Len(Host(h)) + 1 + Len(Path(a)) + 1 > len
=============================================================================
