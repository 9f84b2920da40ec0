# geminon in TLA+

geminon is a Gemini server and a small library for Gemini servers and clients
(C, one thread). This directory models the parts of it that carry its logic: the
request loop with its handlers, the bytes of a request and of its answer, the cgi
handler with its child, the client and `gurl`, the set-up of the server from its
command line to its list of handlers, the resolution of paths and the parser of
URLs. TLC checks the models on small instances, TLAPS proves what matters most
for every value of the constants.

## The system

| part | state | operations | interacts with |
|---|---|---|---|
| request loop (`server.c`) | `server->first` list, `requests`, one `struct gemini_request` on the stack, reused for every connection | `gemini_handle*`, `gemini_serve`, `gemini_server_close` | kernel (accept), OpenSSL, URL parser, handlers |
| library handlers (`server.c`) | prefix and data of each | files, authn, vhosts | request writing, path resolution |
| program handlers (`geminon.c`) | none; a pipe and a child per request | echo, cgi | request writing, path resolution, processes |
| request writing (`request.c`) | the session, a block buffer | respond, write, stream, close | OpenSSL |
| path resolution (`fs.c`, `fsm.fs.c`) | component buffer, result, `deep` | `gemini_fs_resolve`, `_open`, `_path` | called by files and cgi |
| URL parser (`url.c`, `fsm.url.c`) | automaton state, buffer, port | `gemini_parse_url`, `_into` | called by loop, client, command line |
| command line (`geminon.c`) | handlers, vhosts array, port | `configure`, `main` | registration, bind, tls |
| client (`client.c`, `response.c`, `gurl.c`) | a response with session and descriptor | request, read, stream, close | URL parser, OpenSSL |
| initialisation (`init.c`) | none | init, deinit | OpenSSL |

What is hard here:

* one request structure survives every path through the loop, and no path
  resets all of it (`server.c:222-256`, `request.c:70-86`);
* protection by authn and vhosts rests on the order of a list (`server.c:259`);
* handlers leak descriptors (`fs.c:130`, `geminon.c:50-69`) in a process that
  must keep one for the next `accept()`;
* peers arrive, speak, stay silent and leave at any time, and a single thread
  waits for them, and for child processes, without timeouts;
* bytes pass through five buffers of different sizes (a program's pipe, the block
  of the server, the network, the block of the client, standard output), with
  loops that mistake an empty read for the end (`request.c:51`, `response.c:12`);
* parent and child both hold the ends of a pipe after `fork()` (`geminon.c:56-87`);
* a list is built and freed through pointers that `malloc()` does not clear
  (`server.c:18-41`, `server.c:304-316`);
* two hand-written automata write into bounded buffers with checks that cover
  some of the writes only (`fs.c:51`, `fs.c:96-105`, `url.c:46-68`).

## Modules

| module | what it is |
|---|---|
| `GeminiServer` | `gemini_serve()`, its handlers and its peers |
| `GeminiService` | what the loop promises to peers, abstractly |
| `Session` | one TLS connection, as both sides see it (external) |
| `RequestIO` | the server's side of a request, byte by byte: `s_readto()`, `request.c` |
| `Cgi` | `cgi_handler()`: parent, child and pipe |
| `Client` | `client.c`, `response.c` and `gurl.c` |
| `Exchange` | client, server and program together |
| `HandlerList` | the list of handlers as pointers: `gemini_handle*()`, `gemini_server_close()` |
| `Geminon` | `configure()` and `main()` of `geminon.c`, with `gemini_bind()`, `gemini_tls()` and the list |
| `FsPath`, `FsRoot` | `gemini_fs_resolve()`; `gemini_fs_path()` on top of it |
| `UrlParse` | `gemini_parse_url_into()` |
| `Decimal` | what digits are worth, as the URL parser, `geminon` and `getaddrinfo` read a port |
| `GeminiServer_proofs`, `GeminiServer_answers`, `Exchange_proofs`, `Exchange_delivery`, `Geminon_proofs`, `FsPath_proofs`, `UrlParse_proofs` | theorems |
| `Induction` | induction over numbers, and what recursive functions compute |
| `MCGeminiServer`, `MCExchange`, `MCGeminon`, `MCFsPath`, `MCUrlParse` | instances for TLC |

`GeminiServer` and `Exchange` look at the same loop from two distances. In
`GeminiServer` many peers meet a chain of handlers, and an answer is a status and
some blocks. In `Exchange` there is one client, any handler may answer, and an
answer is bytes. Modules build on each other by `EXTENDS`: `RequestIO` on `Session`, `Cgi`
on `RequestIO`, `Client` on `Session`, `Exchange` on both; `Geminon` on `HandlerList`;
`FsRoot` on `FsPath`; `Exchange`, `Geminon` and `UrlParse` on `Decimal`. `GeminiServer_answers`
extends `GeminiServer_proofs`, and `Exchange_delivery` extends `Exchange_proofs`.

### GeminiServer

`pc` is the place in `gemini_serve()`: `setup` (registering), `accept`, `tls`
(in `SSL_accept`), `read` (in `s_readto`), `dispatch` (in the loop over the
handlers, at position `i`), `stream` (in the files handler), `cgi` and `wait` (in
`gemini_request_stream` and `waitpid` of the cgi handler), and three ends: `finished`
(limit exceeded), `failed` (`accept` failed), `killed` (SIGPIPE). `req` is
`struct gemini_request`: `ssl` may be `null`, `live` or `freed`, so that a stale
session can be told from none. `chain` is the linked list as a sequence.
`leaked` counts descriptors that nothing refers to any more; `FreeFds` is what
`MaxFds` leaves. `out` is what was sent to each peer, as statuses and blocks; `by`
is a history variable: the position of the chain that answered.

Each action is one system call or one handler with everything up to the next
place where the peer, the scheduler or another process can interfere. A handler
that answers at once (`AuthnRefuses`, `VhostsRefuses`, `Echo`, `Fallback`) is one
action with the closing of the request and the count (`Answer` = `Write` and
`EndRequest`), because nothing is shared with anybody in between but the
session; streaming is one action per block. `Write` may stop early when the
peer left. `Killed` is the signal that such a write raises, never ignored by
`init.c` or `geminon.c`; `SigPipe = FALSE` models a program that does ignore it.
`Faults` lets `accept`, `pipe`, `fork` and reads fail.

Peers are external: they connect, offer a handshake with a certificate, without
one or a broken one, send one line, and leave; each at most once and at any
time. Certificates are values; whether `X509_verify_cert` accepts one is the set
`Trust`. URLs are records; a path is a sequence, so that prefixes are prefixes.
`s_readto` reads a whole line at once (its reads are in `RequestIO`). A program prints up to `CgiBlocks` blocks and
ends when it has written them to the pipe.

Not in the model: failing `malloc`, `SSL_new` and `X509_STORE_CTX_new`; the text
of a status line; a directory in place of the file and a missing root (both as
if there were no file).

`GeminiService` is the contract: connections are taken first in, first out, one at
a time; only the one being served is told anything; nothing is taken back; after
it is closed nothing more is said. The mapping is in `Service` at the end of
`GeminiServer`.

### Session, RequestIO, Cgi, Client, Exchange

`link` is the connection (`queued` in the backlog, `hello` when the client is in
`SSL_connect`, `up`, `refused`), `up` what the server has yet to read, in records, and
`down` what the client has yet to read, at most `Window` bytes; `ended` that the
server has closed, `hungup` that the client's process is gone. `Breaks` is a call that
fails, which with `Faults` it may do while the peer is there: `broken` has which have
failed, `ask` for an `SSL_write` of the client, `line`, `write` and `read` for
`SSL_read_ex`, `SSL_write_ex` and `read` of the server. When an `SSL_write` has failed,
no later one of the session succeeds (OpenSSL, external). A failed call does not
break the other direction.

In `RequestIO`, `sp` is the place in the server: `accept`, `readto`, `dispatch` (a
handler is chosen, which one is left open), and in `gemini_request_stream` `fill`,
`write`, `flush` and `streamed`. `line` is the request buffer, `buf` the block buffer up to `n`,
and `at` and `rest` are the pointer and the count of `gemini_request_write`, with
the code's `buf += n` after `n -= nwrit`: `ByteAt` shows what that pointer finds. The
status line is byte 0 and byte k of the body is k, so that lost, repeated and
swapped bytes all differ. `SSL_write_ex` writes all or nothing, since nothing sets
`SSL_MODE_ENABLE_PARTIAL_WRITE`; the mutant of `DeliveredInOrder` sets it, and shows
that `buf += n` is then wrong. The loop behind the end of input (`StreamFlushes`)
is therefore never entered with bytes in the buffer, as in the code. A write that fails
ends the stream (`WriteFails`), but neither `Responds` nor `FileSent` takes notice.

In `Cgi`, `kid` is the child: `starting` between `fork` and `execve`, `running`,
`exited`. `writers` is who holds the write end of the pipe; reading ends when
nobody does. The program prints its answer, status line included, a byte at a time, or
nothing at all. `KidFails` is a failed `dup2`, whose `exit(1)` leaves the pipe empty.
`KidFlushes` is a program that cannot be executed: `exit(42)` writes what the server's
`printf` of `geminon.c:335-340` left in the buffer that `fork` copied, if standard output
is no terminal, and the peer gets it in place of an answer. In the model it is a first
byte like another, for no property depends on whose it is.

In `Client`, `cp` is the place in `gurl`. `fds` are the descriptors that are open,
`fd` the local variable of `gemini_client_request`, `resfd` is `res->fd`, which starts
as whatever `Heap` says, because nothing assigns it. `cbuf` is the block buffer of
`gemini_response_stream`, `ntotal` what the current `gemini_response_read` has got,
`got` what standard output was given. `Sends` is `SSL_write` with its result ignored:
the URL, the CRLF or both may never leave, and `gurl` waits for the answer all the same.
`asked`, `before`, `size` and `broken` (but for `CanWrite` and `Sends`, where it is the
state of the session) are history variables. A descriptor stands for a socket whatever it is connected to: that the old
connection is never closed is seen in `fds`.

`Exchange` composes the three by disjunction of their actions; shared variables are
those of `Session`. `Glitch` is an `SSL_read` of `gurl` that fails while it waits.

Left out: SIGPIPE, which would end the server here (it is in `GeminiServer`), or `gurl`; the URL
that `gemini_client_request` allocates and does not free on most paths; `malloc` failing
in the two stream functions.

### HandlerList, Geminon

`next`, `first` and `last` are the pointers, over addresses `Nodes`; a field that was
never written or was freed is `Junk`. `order` is the sequence they ought to spell,
`freed` counts calls of `free`. In `Geminon`, `gp` is the place in `main`, `given` the
options so far; a handler is the place of its option on the command line, `what`
tells which. `ExecOrStatic` may lose a handler, because `geminon.c:220` and `:237` do
not look at the result. `port` is an int of `IntMod` values, and `ListenOn` is `htons`.
`ConfigureFails` is every `return -1` and `return 1` before serving: an
argument is refused, memory or a system call fails; it changes nothing else that
matters, for the program ends. `geminon` never sets `max_requests`, so that its own
`gemini_serve` does not return 0: `ServeReturns` and the tear-down behind it are for
programs that do.

### FsPath, FsRoot

`pos` is `parser.src`, `state` and `buf` the automaton and its buffer, `path` and
`deep` the result; `phase` says which of the two functions runs and what
`s_parse_path()` returned. One action per character, per component and per
`..`. `LeftWraps` is the decrement of a `size_t` at 0 (`fs.c:102`): what happens to
memory after it is not modelled, the run ends as `overrun`. `PARSED_ERR` for a
character without a transition cannot happen: the table has one for each.
`FsRoot` computes what `gemini_fs_path()` makes of the result for each of `Roots`:
no root, slashes only, with and without trailing slashes.

The reference in `FsPath` knows no automaton and no buffer: `Names` and `Ups` are the
places where a name or `..` stands between slashes, and `DescendsFrom` compares how many of
each there have been; `Resolved` takes one component after the other, and `Join` puts slashes
between what is left.

### UrlParse

One action per transition that does something. `buf` counts what is written,
also behind the buffer. `len` is any of `Sizes`, for callers of
`gemini_parse_url_into()`, or one more than the URL, for `gemini_parse_url()`.

## Runs

| run | bounds | shows |
|---|---|---|
| `dispatch` | 2 connections, 4 handlers in every order and number, 2 certificates (one trusted), 3 URLs, 4 descriptors | `TypeOK`, `WalkInvariant`, `FirstMatchAnswers`, `AnswersAreWhole` |
| `faults` | 3 connections, 2 places in the backlog, files and cgi, 3 descriptors, limit 2, all faults and SIGPIPE | `OneSession`, `AcceptHasDescriptor`, `RequestLimit`, `ServiceSpec`: the loop implements `GeminiService` |
| `liveness` | 2 connections, programs that fit into the pipe | `EveryConnectionEnds` |
| `path` | all paths up to 9 characters over `/`, `.`, `a`; buffers of 8; six roots | `TypeOK`, `DepthAgrees`, `StaysBelowRoot`, `ResolvesLikeReference`, `JoinsBelowRoot`, `Terminates` |
| `url` | the scheme with all continuations of up to 5 characters over two digits, a letter, `:`, `/`, `!`, and cut schemes; largest port 15; buffers of 0 to 6 bytes and the parser's own | `TypeOK`, `ParsesLikeReference`, `OwnBufferSuffices`, `RefusedOnlyIfTooSmall` |
| `exchange` | two requests (lines of 3, 5 and 6 bytes, ports of 2, 4 and 5 digits), a line buffer of 6, files and programs of up to 4 bytes, blocks of 3 (server) and 2 (client), a window of 3, a pipe of 2, 2 addresses, descriptors 0 to 4, every call may fail | `TypeOK`, `BuffersHold`, `AsksForBytes`, `RequestArrives`, `DeliveredInOrder`, `Delivered`, `FailureReleases`, `DialsPort`, `GurlEnds` |
| `geminon` | all command lines of up to 4 options, 4 addresses, 3 port texts, an array that grows by 2, an int of 8 bits and a port of 4 | `TypeOK`, `ListIsOrder`, `FreedOnce`, `ChainIsCommandLine`, `VhostsFit`, `ServesAsAsked`, `AllFreed` |

Why the bounds are enough: one connection leaves its state in `req`, a second one
could be misjudged by it, a third exhausts descriptors that two have leaked.
Four handlers are one of each kind that decides something, and overlapping
prefixes let each come before each. Three descriptors are the smallest number with which
a file can be opened at all; the first request leaks one and the next cannot. In
`FsPath` a buffer of 8 is filled by one long name, overfilled by a cut one, and
filled exactly to the brim by two names that a third one follows. In `UrlParse` ports of one and two digits lie on both sides of
the largest. In `Exchange` a body of 4 bytes takes more than one block of either
side, more than the pipe, and with the status more than the window; the
second request finds what the first has left, and descriptors run out after it.
In `Geminon` three `-b` overfill the array once it has grown or not, and the port
texts are none (0, hence the default), a port, and a number that overflows the int. `CounterMod` exceeds what three connections can count, so the
counter does not wrap; `RequestLimit` assumes it.

Deadlock is not checked in any run: the server may stop, peers and requests are
finite, an automaton ends and so does a program, so that behaviours end as they
should. That they do not end too early is said by the liveness properties. `Conns`
is symmetric in `dispatch` and `faults`, and the addresses in `geminon`, which check
safety only (`ServiceSpec` has no fairness).

**Fairness.** `liveness` and `jam` use the `FairSpec` of `GeminiServer`: weak fairness of the
server's thread (the kernel schedules it when a call returns) and, for each peer
that is connected, of saying what the server waits for or leaving. The code has no
timeout, so without the latter a silent peer stops the server for ever, and
`EveryConnectionEnds` would be false; it is an assumption about the network. It
also needs `SigPipe = FALSE`, which is an assumption about the program: `geminon` does not
ignore the signal, and one peer that leaves at the wrong moment ends it, with all
that wait. And accept() does not fail there: any error of it ends the loop
(`AcceptFails`), to which `ServiceSpec`, a safety property, has no objection either.
`exchange` uses weak fairness of each of its three processes: server, program and `gurl`
run when they can, as a scheduler lets them. That a call fails is never certain: the
fairness of the server is that of its steps that leave `broken` as it is. Where only a
failure could move it, it stands, and `GurlEnds` names those cases. `Jammed` is the
finding `jam` seen from the other side: after a failed read or write the server waits for
a program that waits for room in the pipe. `Unasked` is a request that was lost in
`client.c:125-126`, where nobody looks: the server waits for the rest of the line and `gurl` for the
answer.
`Terminates` needs that the function is executed at all.

### Where code and documentation differ

Each of these runs is expected to end in a violation.

| run | statement | what the code does |
|---|---|---|
| `lost_files` | `gemini.h:407-411`, existing files are sent | the root's descriptor is leaked (`fs.c:130`) until `openat` fails |
| `jam` | `gemini.h:468-469`, clients are served | parent and child wait for each other (`geminon.c:70`) |
| `path_wraps` | `gemini.h:32`, a limit for one component | the sum of components wraps `left` |
| `response_close` | `gemini.h:163-165`, the socket is released | `res->fd` is never assigned (`client.c:100`) |
| `env_port` | `geminon.c:131`, `:143`, the port from the environment | it is checked and not used (`geminon.c:141`) |

`ServesAsAsked`, which holds, asks for the default port only where neither `-l` nor
`GEMINON_PORT` is given.

More differences can be read off an action, and have no run of their own. In the first
three the passing property takes no side:

* a vhosts handler refuses with 53 where `gemini.h:440-442` says 51 (`VhostsRefuses`;
  `AnswersAreWhole` allows either);
* `gemini://h:/` has port 0, not the default of `gemini.h:21-22` (`HostEndsAtPort`;
  `ParsesLikeReference` leaves that port open), and `gurl` then looks up the empty service;
* a request line has at most `GEMINI_MAX_REQUEST - 1` bytes with its CRLF, not the whole of
  `gemini.h:26` (`LineRoom`; `RequestArrives` asks for an answer only to shorter lines);
* a URL may be accepted that is longer than a caller's buffer, by up to two bytes, where
  `gemini.h:219-221` promises an error: one byte is checked and two are written
  (`url.c:46`; `HostEndsAtPath`, `Accept`; `OwnBufferSuffices` speaks of the parser's own
  buffer only);
* cgi reports DONE also for a program that printed nothing (`CgiEnds`, `CgiReaps`),
  where `gemini.h:12-13` says that the handler has responded; for one that cannot be
  executed the peer may get what `geminon` printed when it started (`KidFlushes`);
* a cgi handler whose stream fails aborts, and a status line 59 follows part of a body
  (`geminon.c:75`; `CgiReaps`); `DeliveredInOrder` tolerates it at the end;
* an error of `accept()`, also one of a single connection, ends `gemini_serve()`
  (`server.c:226`; `AcceptFails`);
* a write to a peer that left raises SIGPIPE, and nothing ignores it (`Killed`), where
  `gemini.h:362-363` says that a negative value is returned;
* a vhosts handler restricts only what is registered behind it, which in `geminon` is
  nothing (`AddVhosts`; `ChainIsCommandLine` has it last, as the code does);
* `./a` is resolved to `.a`: a lone `.` stays in the buffer (`fs.c:15`, `fs.c:37`; `Glued`);
* a component that fits only in part is cut without an error, where `fs.c:100` appends it
  (`AppendComponent`);
* a request line that is too long is dropped without an answer, and `gurl` takes the empty
  answer for a success (`ReadToFails`); so it does when the server fails to read the line;
* `gurl` does not see that its request was not sent (`client.c:125-126`; `Sends`), and waits;
* nobody looks at what `gemini_request_respond()` returns (`Responds`);
* `gemini_server_close()` never closes the listening socket (`gemini.h:473-475`; `Closes`);
* a files handler closes as usual after a failed read or write, so that the peer
  takes a part for the whole (`server.c:54-58`; `FileSent`; hence `~Hurt` in `Delivered`);
* `-l 70000` listens on port 4464 (`ListenOn`).

## Proofs

All theorems hold for any constants that satisfy `ConfigurationAssumption` and
`SentinelAssumption` (kinds are known, sentinels are none of the values),
`PathAssumption` (a buffer of more than two bytes), `UrlAssumption` (`:` and `/` are
not host characters, digits are), `SessionAssumption`, `RequestAssumption`, `CgiAssumption` and
`ClientAssumption` (sizes are positive, a block fits the window), `AsksAssumption` (what
is asked for is a text and a port), `ListAssumption` and `GeminonAssumption` (null and
junk are no addresses; the step of growth is positive).

*Server.* `Session` is the inductive core: types, `OneSession`, and that there is
no stale URL before one is read. `TypeCorrect` and `OneSessionHolds` follow.
`AcceptHasDescriptor` alone is not inductive, since a handler may leak while it
holds the connection's own descriptor; `Room` adds how much can be missing at each
place. `FirstMatchAnswers` speaks of connections that are long closed, so `Walk` adds
`Sealed`: who has been answered has said all it will say, and the chain does not change
after set-up. What remains is the current connection, for which `WalkInvariant`
says that the request structure describes its peer and that all handlers passed
did pass it. Since leaked descriptors only grow, a files handler that passed
because nothing could be opened would pass again (`PassesStays`).

*Refinement.* `ServiceImplemented` shows that each step is a step of `GeminiService`
or a stutter, from `Session` and `BacklogQueued`: the backlog holds each queued
connection once.

*Answers.* `RequestLimitHolds` rests on `Counted`: until it stops, the server's counter is
the number of connections closed with an answer, and not above the limit; as the limit
leaves two values to spare, the counter cannot wrap before. `Fresh` says that a
connection has no answer before its handlers are walked, so that none is counted
twice or at its refusal. `AnswersAreWholeHolds` adds `Unspoken`, nothing is
sent before a handler answers, and `Sending`, how much of the body has been sent while
one streams: at the end of the file that is all of it.

*Paths.* `TypeCorrect` is that no buffer is overrun (before `left` wraps).
`DepthAgreesHolds` needs `Component` (a component is not empty and has no slash) and
`Relative` (the result does not begin with a slash); the lemmas on `Slashes` say
what appending, separating and cutting do to the number of slashes.
`StaysBelowRootHolds` rests on `OfNames`: every component of the result is a name, except that
the last one may be the rest of a name that was cut short (`CutShort`), and then the
result is full. A `..` that is left of such a name is therefore alone, behind at
least one name, and the next step overruns or cuts it away (`OfNamesTame`). That the
automaton never takes `.` or `..` for a name, although its buffer may still hold a
dot from before, is `Spelled`. `JoinsBelowRootHolds` carries the same behind the joint
(`BehindComponents`), once all slashes at the end of the root are gone (`TrimmedRoot`).

For `ResolvesLikeReferenceHolds` the invariant is `Follows`: in a component, the result is the
names so far, joined, and the state of the automaton is which component has been
read (`Within`); once it has been handed over, before its slash is passed, it
belongs to the result (`HandedOver`). The buffer holds the component alone or a lone
dot came before it (`AfterDot`), and then it cannot be a name, or the path were `Glued`. Both
count their characters against the position, so that nothing runs out of room. What
the reference itself computes comes from `ReadsEquation`, `JoinEquation` and `JoinOfAppend`.

*URLs.* `Written` relates the bytes written to the position in the URL: in the scheme
none, then one per character, and one more NUL at most; `OwnBufferHolds` and
`TypeCorrect` (the port is an int that cannot overflow) follow. For
`ParsesLikeReferenceHolds` the invariant is `Reading`, what each state of the automaton
has read and which of it is in the buffer, and `Ending`, where the parser can be when it
ends in one way or another. The reference says what a URL is without an
automaton: some lengths of host and authority make it one. `OneHost` and `OneAuthority`
show that at most one pair does, because what ends a host cannot be in one; a bad
character, a port that has become too large (`ValueGrows`: more digits are worth no
less) and a missing end contradict any pair. `RefusedOnlyIfTooSmallHolds` counts
from the same invariant: what is in the buffer when it is full is less than the host,
the path and their NULs.

*Exchange.* `BuffersHold` and `AsksForBytes` rest on one invariant, `Held`: `Typed`, the types
of the sequences; `Filled`, that a block is empty or not full whenever a read is
about to fill it; and `Turns`, that client and server take turns: the server is
back in `accept` when the client is between two requests, and nothing is
written to a connection before its line is read. Without `Turns` a second
connection could find bytes of the first in its window. `FailureReleases` rests on `Dialled`: at each
place of `gemini_client_request`, which descriptors are open beyond those before
it; that `socket()` gives a free one is `FreeFdIsFree`. `DialsPortAlways` is an
induction over the digits of a port, the text that `snprintf` makes of it being worth
the port again.

`DeliveredInOrder` and `Delivered` follow a byte from the file or the program to standard
output. What the server holds (`buf` from `at` on), what is in the pipe, in the window and
in the block of the client is in each state the next part of the answer; `Running` says which
of these buffers can hold anything at each pair of places of server and client,
and `Delivering` that they are joined without a gap, `Abort` only at their end. `Flows` has this
as long as the session can be written to (`CanWrite`): behind a write that failed nothing is
sent, what is on the way is still in order, and `Hurt` is known (`FailuresStay`). `RequestArrives`
is the same in the other direction (`Lines`): what is in records and what `s_readto()` has
put into its buffer are a prefix of the line, or what is left of it when a write failed
(`Missing`), which has no end (`EndIsTheEnd`) and is not dispatched. It is proved for requests that are one line
each (`OneLine`): a URL with CRLF inside would be dispatched at the first, and `gurl`
does not look for one. All requests of the run are one line.

*List.* `Chain` says that the registered nodes are distinct, that `first`, `last` and `next`
spell them, and, while the list is freed, that what is free is exactly what is in
front of the loop's node. `FreedOnce`, `ListIsOrder` and `AllFreed` follow. `Slots` is `VhostsFit` with
its types, by arithmetic on the growth.

*Command line.* `Placed` says that the handlers of the list are the options of the
command line that ask for one and were not lost, in their order, and the vhosts last, if
they are there at all; `ChainIsCommandLineHolds` is what it says when serving.
`Settled` follows the port: it is the default one before a `-l` and what the last one reads
afterwards. What `ListenOn` makes of an int is then the port itself when it is
one of 16 bits, for which `ServesAsAskedHolds` needs that the int does not wrap on the way there
(`AsInt` of a value in range is the value).

*Induction.* The induction theorems of the library take an operator as a parameter, which
the provers cannot instantiate. `Induction` derives from the one fact that `<` is
well-founded on the numbers that a non-empty set has a least member (`LeastOf`), and from that
induction for sets (`HandedOn`); that two functions which begin alike and go on alike
are alike (`Alike`), that there is a function which begins and goes on as an equation says
(`Iterates`), and with both, what the recursive function in `Value` computes
(`ValueEquation`, `ValueOfAppend`); `FsPath_proofs` does the same for `Reads` and `Join`.

Only model-checked: liveness (`EveryConnectionEnds`, `Terminates`, `GurlEnds`), as it rests on
fairness, which is out of the prover's reach. Every other property of a passing run is
a theorem.

## Not modelled, and what is left

`init.c` (three calls into OpenSSL), the generators `fs.pl` and `url.pl` (the tables they
print are what is modelled), the tests and the fuzzer. Of what is modelled, memory
is not counted: no run says that the client frees its URL or the stream functions
their block on every path, which they do not.

Worth doing next: a refinement from `RequestIO` to the one-step reads and writes of
`GeminiServer`, with the bytes of a request mapped to its items; `GeminiServer` with the
chain of `Geminon`, for what vhosts then protects.
