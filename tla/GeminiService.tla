--------------------------- MODULE GeminiService ---------------------------
(***************************************************************************)
(* What gemini_serve() promises to the peers, whatever the handlers do:    *)
(* connections are served in the order in which they arrived, one at a     *)
(* time; only the one being served is spoken to; what it was told is never *)
(* taken back; and once it is closed nothing more is said to it.           *)
(***************************************************************************)
EXTENDS Sequences, SequencesExt

CONSTANTS Conns, NoConn

VARIABLES
  waiting,  \* the connections that arrived and are not served yet, in order
  serving,  \* the connection being served, or NoConn
  done,     \* the connections that were closed
  reply,    \* what each was told
  up        \* whether the service runs

vars == <<waiting, serving, done, reply, up>>

Init ==
  /\ waiting = <<>> /\ serving = NoConn /\ done = {} /\ up = TRUE
  /\ reply = [c \in Conns |-> <<>>]

Arrive(c) ==
  /\ up /\ c # serving /\ c \notin done
  /\ \A k \in 1..Len(waiting) : waiting[k] # c
  /\ waiting' = Append(waiting, c)
  /\ UNCHANGED <<serving, done, reply, up>>

Take ==
  /\ up /\ serving = NoConn /\ waiting # <<>>
  /\ serving' = Head(waiting) /\ waiting' = Tail(waiting)
  /\ UNCHANGED <<done, reply, up>>

(* Something, or nothing, is added to what the connection served was told. *)
Speaks ==
  /\ IsPrefix(reply[serving], reply'[serving])
  /\ reply' = [reply EXCEPT ![serving] = reply'[serving]]

Say ==
  /\ up /\ serving # NoConn
  /\ Speaks
  /\ UNCHANGED <<waiting, serving, done, up>>

(* The last words, if any; the service may stop after them. *)
Finish ==
  /\ up /\ serving # NoConn
  /\ Speaks
  /\ done' = done \cup {serving} /\ serving' = NoConn
  /\ up' \in BOOLEAN
  /\ UNCHANGED waiting

Halt ==
  /\ up /\ up' = FALSE
  /\ UNCHANGED <<waiting, serving, done, reply>>

Next == Take \/ Say \/ Finish \/ Halt \/ \E c \in Conns : Arrive(c)

Spec == Init /\ [][Next]_vars
=============================================================================
