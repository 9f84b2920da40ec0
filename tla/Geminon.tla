------------------------------ MODULE Geminon ------------------------------
(***************************************************************************)
(* The program geminon: main() and configure() of geminon.c with the       *)
(* set-up functions of server.c that they call.  The environment and the   *)
(* options, in their order, become the list of handlers that the server    *)
(* walks, the socket it listens on and its TLS parameters.                 *)
(*                                                                         *)
(* An option stands for itself: what[n] of a handler's node is the place   *)
(* of its option on the command line, and 0 for that of the vhosts.        *)
(***************************************************************************)
EXTENDS HandlerList, FiniteSetsExt, Decimal

CONSTANTS
  MaxOptions,   \* bound on the options given
  PortTexts,    \* what follows -l or is in GEMINON_PORT: sequences of digits
  Chunk,        \* by how much the array of vhosts grows, 8
  IntMod,       \* the number of values of an int
  PortMod,      \* the number of values of a port, 2^16
  DefaultPort,  \* GEMINI_DEFAULT_PORT
  Unset         \* no GEMINON_PORT in the environment

ASSUME GeminonAssumption ==
  /\ MaxOptions \in Nat /\ Chunk \in Nat \ {0}
  /\ PortTexts \subseteq Seq(0..9) /\ Unset \notin PortTexts
  /\ PortMod \in Nat \ {0} /\ IntMod \in Nat \ {0} /\ 2 * PortMod <= IntMod
  /\ DefaultPort \in 1..PortMod - 1

VARIABLES
  gp,        \* where the program is
  given,     \* history: the options so far, records [opt, arg]
  env,       \* history: GEMINON_PORT
  cert, key, \* whether there is one
  port,      \* the local variable of configure()
  handlers,  \* its count of handlers
  nvhosts,   \* the -b options, and the slots of the array of vhosts in use
  cap,       \* the slots that it has
  lost,      \* history: options whose handler could not be allocated
  sock,      \* the port that server->sockfd listens on, or NoSock
  tls        \* server->ssl has a certificate and a key

options == <<given, env, cert, key, port, handlers, nvhosts, cap, lost>>
vars    == <<gp, options, sock, tls, list>>

NoSock == -1
Content == {"E", "X", "S"}

Init ==
  /\ gp = "start" /\ given = <<>> /\ env = Unset
  /\ cert = FALSE /\ key = FALSE /\ port = 0 /\ handlers = 0
  /\ nvhosts = 0 /\ cap = Chunk /\ lost = {}
  /\ sock = NoSock /\ tls = FALSE
  /\ ListInit

(* main() returns 1: memory ran out, an argument is not accepted or left   *)
(* over, a certificate does not load, the port is taken, and so on; the    *)
(* checks in front of the vhosts make sure that it may not go on instead.  *)
ConfigureFails ==
  /\ gp \in {"start", "options", "vhosts", "bind", "tls"}
  /\ gp' = "exit1"
  /\ UNCHANGED <<options, sock, tls, list>>

-----------------------------------------------------------------------------
(* The environment; the port is checked for digits and not used. *)
Starts ==
  /\ gp = "start"
  /\ cert' \in BOOLEAN /\ key' \in BOOLEAN
  /\ env' \in PortTexts \cup {Unset}
  /\ gp' = "options"
  /\ UNCHANGED <<given, port, handlers, nvhosts, cap, lost, sock, tls, list>>

(* The next option is o, with the argument arg. *)
Option(o, arg) ==
  /\ gp = "options" /\ Len(given) < MaxOptions
  /\ given' = Append(given, [opt |-> o, arg |-> arg])
  /\ UNCHANGED env
Here == Len(given) + 1

(* Certificate authorities are loaded, and their handler registered. *)
Authn ==
  /\ Option("A", Unset)
  /\ Handle(Here)
  /\ UNCHANGED <<gp, cert, key, port, handlers, nvhosts, cap, lost, sock, tls>>

Echo ==
  /\ Option("E", Unset)
  /\ handlers' = handlers + 1
  /\ Handle(Here)
  /\ UNCHANGED <<gp, cert, key, port, nvhosts, cap, lost, sock, tls>>

(* For -X and -S the result of the registration is not looked at. *)
ExecOrStatic ==
  /\ \E o \in {"X", "S"} : Option(o, Unset)
  /\ handlers' = handlers + 1
  /\ \/ Handle(Here) /\ UNCHANGED lost
     \/ lost' = lost \cup {Here} /\ UNCHANGED list
  /\ UNCHANGED <<gp, cert, key, port, nvhosts, cap, sock, tls>>

(* Mutant: the array grows one option too late. *)
ArrayOverfull == nvhosts > cap

ArrayFull == nvhosts = cap

Bind ==
  /\ Option("b", Unset)
  /\ cap' = IF ArrayFull THEN cap + Chunk ELSE cap
  /\ nvhosts' = nvhosts + 1
  /\ UNCHANGED <<gp, cert, key, port, handlers, lost, sock, tls, list>>

(* An int, when it is computed without regard to its range.  It is the     *)
(* same whether it wraps after every digit or once, at the end.            *)
AsInt(n) == ((n + (IntMod \div 2)) % IntMod) - (IntMod \div 2)

(* Mutant: the port is not reset by a second -l. *)
ReadPortOnTop(text) == AsInt(Value(<<port>> \o text))

ReadPort(text) == AsInt(Value(text))

Listen ==
  /\ \E text \in PortTexts : Option("l", text) /\ port' = ReadPort(text)
  /\ UNCHANGED <<gp, cert, key, handlers, nvhosts, cap, lost, sock, tls, list>>

Certificate ==
  /\ Option("c", Unset) /\ cert' = TRUE
  /\ UNCHANGED <<gp, key, port, handlers, nvhosts, cap, lost, sock, tls, list>>

Key ==
  /\ Option("k", Unset) /\ key' = TRUE
  /\ UNCHANGED <<gp, cert, port, handlers, nvhosts, cap, lost, sock, tls, list>>

(* getopt_long() complains, and the program goes on. *)
Unknown ==
  /\ Option("?", Unset)
  /\ UNCHANGED <<gp, cert, key, port, handlers, nvhosts, cap, lost, sock, tls, list>>

-----------------------------------------------------------------------------
Usable ==
  /\ gp = "options" /\ cert /\ key /\ handlers > 0
  /\ gp' = "vhosts"
  /\ UNCHANGED <<options, sock, tls, list>>

(* Mutant: the vhosts handler is registered without a -b, too. *)
VhostsAlways == TRUE

VhostsGiven == nvhosts > 0

(* Behind all other handlers. *)
AddVhosts ==
  /\ gp = "vhosts"
  /\ IF VhostsGiven THEN Handle(0) ELSE UNCHANGED list
  /\ gp' = "bind"
  /\ UNCHANGED <<options, sock, tls>>

(* Mutant: the port keeps the width of an int. *)
ListenOnInt(p) == sock' = p

(* gemini_bind(): socket, setsockopt, bind and listen, or nothing. *)
ListenOn(p) == sock' = p % PortMod

Binds ==
  /\ gp = "bind"
  /\ ListenOn(IF port = 0 THEN DefaultPort ELSE port)
  /\ gp' = "tls"
  /\ UNCHANGED <<options, tls, list>>

(* gemini_tls(): a context, the certificate and the key. *)
TlsLoads ==
  /\ gp = "tls"
  /\ tls' = TRUE /\ gp' = "serve"
  /\ UNCHANGED <<options, sock, list>>

(* gemini_serve() returns -1 when accept() fails, and 0 over the limit,    *)
(* which geminon leaves unset and other programs do not.                   *)
ServeFails ==
  /\ gp = "serve"
  /\ gp' = "exit4"
  /\ UNCHANGED <<options, sock, tls, list>>

ServeReturns ==
  /\ gp = "serve"
  /\ CloseBegins
  /\ gp' = "close"
  /\ UNCHANGED <<options, sock, tls>>

CloseFrees ==
  /\ gp = "close" /\ FreeNode
  /\ UNCHANGED <<gp, options, sock, tls>>

(* SSL_CTX_free(); the socket stays open until the process ends. *)
Closes ==
  /\ gp = "close" /\ cur = Null
  /\ gp' = "exit0" /\ tls' = FALSE
  /\ UNCHANGED <<options, sock, list>>

Next ==
  \/ Starts \/ ConfigureFails
  \/ Authn \/ Echo \/ ExecOrStatic \/ Bind \/ Listen \/ Certificate \/ Key \/ Unknown
  \/ Usable \/ AddVhosts \/ Binds \/ TlsLoads
  \/ ServeFails \/ ServeReturns \/ CloseFrees \/ Closes

Spec == Init /\ [][Next]_vars

-----------------------------------------------------------------------------
(* Every variable keeps its type. *)
TypeOK ==
  /\ gp \in {"start", "options", "vhosts", "bind", "tls", "serve", "close",
             "exit0", "exit1", "exit4"}
  /\ given \in Seq([opt : Content \cup {"A", "b", "l", "c", "k", "?"},
                    arg : PortTexts \cup {Unset}])
  /\ env \in PortTexts \cup {Unset} /\ cert \in BOOLEAN /\ key \in BOOLEAN
  /\ port \in -(IntMod \div 2)..(IntMod \div 2) /\ handlers \in Nat
  /\ nvhosts \in Nat /\ cap \in Nat /\ lost \subseteq Nat
  /\ sock \in {NoSock} \cup 0..PortMod - 1 /\ tls \in BOOLEAN
  /\ first \in Nodes \cup {Null} /\ last \in Nodes \cup {Null}
  /\ order \in Seq(Nodes) /\ cur \in Nodes \cup {Null}

(* The places of the options of some kinds on the command line. *)
Places(kinds) == {k \in 1..Len(given) : given[k].opt \in kinds}

(* The first n handlers of the list, in order, are those of the options    *)
(* that ask for one, as long as they could be allocated.                   *)
Handler(k) == what[order[k]]
Walks(n) ==
  /\ {Handler(k) : k \in 1..n} = Places(Content \cup {"A"}) \ lost
  /\ \A j, k \in 1..n : j < k => Handler(j) < Handler(k)

(* The server walks the handlers in the order of the command line, the     *)
(* vhosts behind all of them: none is dropped, and none moves before an    *)
(* authn handler that protects it.  Only a files or cgi handler can be     *)
(* missing, where memory ran out; an authn handler never is.               *)
ChainIsCommandLine ==
  gp = "serve" =>
    LET n == Len(order)
    IN /\ IF Places({"b"}) = {} THEN Walks(n)
          ELSE n > 0 /\ Handler(n) = 0 /\ Walks(n - 1)
       /\ lost \subseteq Places({"X", "S"})

(* Each -b finds a slot in the array, which grows only when it is full.    *)
VhostsFit == nvhosts <= cap

(* The program serves only with a certificate and its key, with something  *)
(* to serve, and listening where the last -l says, if that is a port, and  *)
(* on the default port if nothing says where, GEMINON_PORT neither.        *)
AskedPort == Value(given[Max(Places({"l"}))].arg)
ServesAsAsked ==
  gp = "serve" =>
    /\ tls /\ cert /\ key /\ Places(Content) # {}
    /\ Places({"l"}) = {} /\ env = Unset => sock = DefaultPort
    /\ Places({"l"}) # {} /\ AskedPort \in 1..PortMod - 1 => sock = AskedPort

(* When the server is closed, every node of the list has been freed.       *)
AllFreed == gp = "exit0" => \A n \in ToSet(order) : freed[n] = 1

-----------------------------------------------------------------------------
(* geminon.c:131 and 143: the port is first taken from the environment, as *)
(* in GEMINON_PORT=1965.                                                   *)
PortFromEnvironment ==
  gp = "serve" /\ env # Unset /\ Places({"l"}) = {} =>
    (Value(env) \in 1..PortMod - 1 => sock = Value(env))
=============================================================================
