----------------------------- MODULE MCExchange -----------------------------
(***************************************************************************)
(* A client and a server for TLC.  Lines of one, three and four characters *)
(* before the CRLF: shorter than the buffer, filling it up to its NUL, and *)
(* filling it altogether, so that there is no room for the NUL.            *)
(***************************************************************************)
EXTENDS Exchange

Text(n) == [k \in 1..n |-> "c"]
MCAsks == {[text |-> Text(1), port |-> 1965], [text |-> Text(3), port |-> 65535],
           [text |-> Text(4), port |-> 80]}
MCHeap == {NoFd, 0}
=============================================================================
