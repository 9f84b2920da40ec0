--------------------------- MODULE MCGeminiServer ---------------------------
(***************************************************************************)
(* Small servers for TLC.  Five handlers, one of each kind, are told apart *)
(* by name; a run registers those in its Handlers, in every order.  The    *)
(* authn and cgi handlers cover a part of the URL space, the others all.   *)
(***************************************************************************)
EXTENDS GeminiServer

CONSTANTS authn, vhosts, fs, echo, cgi,  \* the handlers
          good, other                    \* the certificates

AllHandlers == {authn, vhosts, fs, echo, cgi}
MCKind   == [h \in Handlers |->
               CASE h = authn  -> "authn" [] h = vhosts -> "vhosts"
                 [] h = fs     -> "fs"    [] h = echo   -> "echo" [] OTHER -> "cgi"]
MCPrefix == [h \in Handlers |-> IF h \in {authn, cgi} THEN <<"/", "p">> ELSE <<"/">>]
MCTrust  == [h \in Handlers |-> {good}]
MCSites  == [h \in Handlers |-> {<<"here", 1965>>}]

(* Below "/" there is a file p but no file q; below "/p" there is nothing. *)
MCFiles  == [h \in Handlers |-> {<<"p">>}]

Url(host, port, name) == [host |-> host, port |-> port, path |-> <<"/", name>>]
(* A covered file, the same on another port, and a URL outside "/p". *)
ThreeUrls == {Url("here", 1965, "p"), Url("here", 1966, "p"), Url("here", 1965, "q")}
OneUrl    == {Url("here", 1965, "p")}
TwoUrls   == {Url("here", 1965, "p"), Url("here", 1965, "q")}

(* Connections differ only in their names; FIFO order is in the backlog.   *)
AnyConn == Permutations(Conns)
=============================================================================
