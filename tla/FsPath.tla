------------------------------- MODULE FsPath -------------------------------
(***************************************************************************)
(* gemini_fs_resolve() of fs.c: it turns the path of a request into one    *)
(* relative to the root of a files or cgi handler, in a buffer of          *)
(* GEMINI_MAX_PATH bytes, with the automaton of s_parse_path() (fs.pl,     *)
(* fsm.fs.c) that hands over one component at a time.                      *)
(*                                                                         *)
(* A string is the sequence of its characters, without the NUL at its end. *)
(***************************************************************************)
EXTENDS Integers, Sequences, SequencesExt

CONSTANTS
  Chars,    \* the characters of a path: "/", "." and others
  Files,    \* the paths to resolve
  MaxPath   \* GEMINI_MAX_PATH

ASSUME PathAssumption ==
  /\ {"/", "."} \subseteq Chars /\ Files \subseteq Seq(Chars)
  /\ MaxPath \in Nat /\ MaxPath > 2

VARIABLES
  file,   \* the argument
  pos,    \* the position of parser.src in it, from 1
  state,  \* the state of the automaton, 1 to 4
  buf,    \* parser.buf, up to `fill'
  path,   \* the result so far
  deep,   \* the components in it
  phase   \* what happens next: "scan" in s_parse_path(), "dir" or "up" when
          \* it has returned; or how gemini_fs_resolve() ended

vars == <<file, pos, state, buf, path, deep, phase>>
Ends == {"resolved", "null", "overrun"}

Init ==
  /\ file \in Files
  /\ pos = 1 /\ state = 1 /\ buf = <<>>
  /\ path = <<>> /\ deep = 0
  /\ phase = "scan"

(* STATES[from][ch] *)
To(from, ch) ==
  CASE ch = "/"                     -> 1
    [] ch = "." /\ from \in {1, 2}  -> from + 1
    [] OTHER                        -> 4

-----------------------------------------------------------------------------
(* s_parse_path() *)

(* Mutant: ".." is handed over like any other component. *)
EndsComponentOfDots(from) == IF from \in {3, 4} THEN "dir" ELSE "scan"

(* What is found when a slash, or the end, is met in a state. *)
EndsComponent(from) == CASE from = 3 -> "up" [] from = 4 -> "dir" [] OTHER -> "scan"

AtSlash == pos <= Len(file) /\ file[pos] = "/"
AtName  == pos <= Len(file) /\ file[pos] # "/"
AtEnd   == pos = Len(file) + 1

(* It returns without passing the slash. *)
Return ==
  /\ phase = "scan" /\ (AtSlash \/ AtEnd) /\ EndsComponent(state) # "scan"
  /\ phase' = EndsComponent(state)
  /\ UNCHANGED <<file, pos, state, buf, path, deep>>

SkipChar ==
  /\ phase = "scan" /\ AtSlash
  /\ EndsComponent(state) = "scan"
  /\ state' = 1 /\ pos' = pos + 1
  /\ UNCHANGED <<file, buf, path, deep, phase>>

(* Mutant: no room is kept for the NUL. *)
BufLeftToTheBrim == MaxPath - Len(buf)

BufLeft == MaxPath - 1 - Len(buf)

(* The buffer keeps what it holds when "." was followed by a slash. *)
KeepChar ==
  /\ phase = "scan" /\ AtName
  /\ BufLeft > 0
  /\ buf' = Append(buf, file[pos])
  /\ state' = To(state, file[pos]) /\ pos' = pos + 1
  /\ UNCHANGED <<file, path, deep, phase>>

TooLong ==
  /\ phase = "scan" /\ AtName
  /\ BufLeft = 0
  /\ phase' = "null"
  /\ UNCHANGED <<file, pos, state, buf, path, deep>>

Finish ==
  /\ phase = "scan" /\ AtEnd
  /\ EndsComponent(state) = "scan"
  /\ phase' = "resolved"
  /\ UNCHANGED <<file, pos, state, buf, path, deep>>

-----------------------------------------------------------------------------
(* gemini_fs_resolve() *)

(* Mutant: the automaton goes on from where it was. *)
RescanKeepsState == phase' = "scan" /\ state' = state /\ buf' = <<>>

(* The next call of s_parse_path() starts its automaton and buffer anew. *)
Rescan == phase' = "scan" /\ state' = 1 /\ buf' = <<>>

(* Mutant: the slash between two components is forgotten. *)
NoSeparator == <<>>

Separator == IF deep > 0 THEN <<"/">> ELSE <<>>
Room == MaxPath - Len(path) - 1 - Len(Separator)   \* left, after the slash

(* Of the component as much is copied as there is room for. *)
AppendComponent ==
  /\ phase = "dir" /\ Room >= 0
  /\ path' = path \o Separator \o SubSeq(buf, 1, Min({Room, Len(buf)}))
  /\ deep' = deep + 1
  /\ Rescan
  /\ UNCHANGED <<file, pos>>

(* The slash alone uses up more than there is: `left', a size_t, goes from *)
(* 0 to its largest value, and the copy is not bounded any more.           *)
LeftWraps ==
  /\ phase = "dir" /\ Room < 0
  /\ phase' = "overrun"
  /\ UNCHANGED <<file, pos, state, buf, path, deep>>

(* Mutant: any slash will do. *)
CutAtAny(k) == k = 0 \/ path[k + 1] = "/"

(* The last slash, or the start where there is none, comes after k. *)
CutAt(k) ==
  /\ k = 0 \/ path[k + 1] = "/"
  /\ \A l \in k + 2..Len(path) : path[l] # "/"

CutComponent ==
  /\ phase = "up" /\ deep > 0
  /\ \E k \in 0..Len(path) - 1 : CutAt(k) /\ path' = SubSeq(path, 1, k)
  /\ deep' = deep - 1
  /\ Rescan
  /\ UNCHANGED <<file, pos>>

(* There is nothing above the root. *)
StayAtRoot ==
  /\ phase = "up" /\ deep = 0
  /\ Rescan
  /\ UNCHANGED <<file, pos, path, deep>>

Next ==
  \/ Return \/ SkipChar \/ KeepChar \/ TooLong \/ Finish
  \/ AppendComponent \/ LeftWraps \/ CutComponent \/ StayAtRoot

Spec == Init /\ [][Next]_vars
(* Nothing but the function itself decides when it goes on. *)
FairSpec == Spec /\ WF_vars(Next)

-----------------------------------------------------------------------------
(* A reference: what the components of a path are, and what they say.     *)

Dot == <<".">>
Up  == <<".", ".">>

(* Where components begin, and that the one which begins at j is `name'.   *)
Begins(s) == {j \in 1..Len(s) + 1 : j = 1 \/ s[j - 1] = "/"}
HasAt(s, j, name) ==
  /\ \A k \in 1..Len(name) : j + k - 1 <= Len(s) /\ s[j + k - 1] = name[k]
  /\ j + Len(name) = Len(s) + 1 \/ s[j + Len(name)] = "/"
Skips(s, j) == HasAt(s, j, <<>>) \/ HasAt(s, j, Dot)
Ups(s)      == {j \in Begins(s) : HasAt(s, j, Up)}
Names(s)    == {j \in Begins(s) : ~Skips(s, j) /\ ~HasAt(s, j, Up)}

(* Nowhere behind k have there been more ".." than names. *)
DescendsFrom(s, k) ==
  \A n \in Begins(s) : Cardinality({j \in Ups(s) : k < j /\ j <= n})
                          <= Cardinality({j \in Names(s) : k < j /\ j <= n})
(* A name comes after a lone dot. *)
Glued(s) ==
  \E j \in Begins(s), k \in Names(s) :
    /\ j < k /\ HasAt(s, j, Dot)
    /\ \A l \in Begins(s) : j < l /\ l < k => Skips(s, l)
Fits(s) == Len(s) < MaxPath

(* What is left when the next component is `name', *)
Enter(names, name) ==
  CASE name \in {<<>>, Dot} -> names
    [] name = Up            -> IF names = <<>> THEN names ELSE Front(names)
    [] OTHER                -> Append(names, name)
(* and what one more character makes of the names and the component so far; *)
Read(c, ch) ==
  IF ch = "/" THEN [names |-> Enter(c.names, c.name), name |-> <<>>]
              ELSE [names |-> c.names, name |-> Append(c.name, ch)]
(* so after the first n characters of a path, and at its end. *)
Nothing == [names |-> <<>>, name |-> <<>>]
Reads(s) ==
  LET r[n \in 0..Len(s)] == IF n = 0 THEN Nothing ELSE Read(r[n - 1], s[n]) IN r
Resolved(s) == LET c == Reads(s)[Len(s)] IN Enter(c.names, c.name)

With(p, name) == IF p = <<>> THEN name ELSE p \o <<"/">> \o name
Join(names) ==
  LET t[n \in 0..Len(names)] == IF n = 0 THEN <<>> ELSE With(t[n - 1], names[n])
  IN t[Len(names)]

Slashes(s) == Cardinality({k \in 1..Len(s) : s[k] = "/"})

(* The buffers keep room for their NUL. *)
TypeOK ==
  /\ file \in Seq(Chars) /\ pos \in 1..Len(file) + 1 /\ state \in 1..4
  /\ buf \in Seq(Chars) /\ Len(buf) < MaxPath
  /\ path \in Seq(Chars) /\ Len(path) < MaxPath
  /\ deep \in Nat
  /\ phase \in {"scan", "dir", "up"} \cup Ends

(* `deep' is kept beside the string it counts in, and decides whether      *)
(* there is a component to cut and whether a slash has to go before the    *)
(* next one: it has to agree with the string after any order of            *)
(* components and "..", even where a component was copied only in part.    *)
DepthAgrees == deep = IF path = <<>> THEN 0 ELSE Slashes(path) + 1

(* No part of the result leads above the root: ".." never gets into the    *)
(* result where it would do so, not even as what is left of a name that    *)
(* was cut short.                                                          *)
StaysBelowRoot == DescendsFrom(path, 0)

(* t/fs.c: what fits into the buffer resolves to what its components say,  *)
(* unless a name comes after a lone dot: then `./a' becomes `.a'.          *)
ResolvesLikeReference ==
  phase \in Ends /\ Fits(file) /\ ~Glued(file) =>
    phase = "resolved" /\ path = Join(Resolved(file))

(* s_parse_path() may return without having read anything, and is called   *)
(* until it reports the end: the end comes.                                *)
Terminates == <>(phase \in Ends)

-----------------------------------------------------------------------------
(* What gemini.h says and the code does not do. *)

(* gemini.h:32: GEMINI_MAX_PATH limits a single component; that there are  *)
(* several is no reason not to come to a result.                           *)
LimitIsPerComponent ==
  (\A j \in 1..Len(file) - MaxPath + 1 : \E k \in j..j + MaxPath - 1 : file[k] = "/")
    => phase # "overrun"
=============================================================================
