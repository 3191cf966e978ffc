---------------------------- MODULE Connections ----------------------------
(***************************************************************************)
(* HTTP requests on the event loop: ExecutionLoop::make_http_request and   *)
(* add_connection (src/src/execution/loop.cc), the poller that runs their  *)
(* callbacks (util/poller.cc), and TLS on a non-blocking socket            *)
(* (net/nb_secure_socket.cc, net/secure_socket.cc).                        *)
(*                                                                         *)
(* A round of the poller takes one look at all sockets and then runs the   *)
(* callbacks of each in turn: Out before In, one socket after the other.   *)
(* The network does not wait for it: what a callback meets may no longer   *)
(* be what the round has seen. A handshake is under way inside SSL_write   *)
(* and SSL_read, because SecureSocket::connect() takes any result of       *)
(* SSL_connect but 0 for success.                                          *)
(***************************************************************************)
EXTENDS HTTPParser

CONSTANTS
    Conn,              \* requests, each on a connection of its own
    Tls,               \* those made with TLS
    Size,              \* the size of each request, in units of the send buffer
    Answer,            \* the response the peer gives to each, as a stream
    Expected,          \* that response as the caller should see it
    Cuts,              \* bound: where each response may be cut into pieces
    Parsers,           \* the states of the parser after so much of each response
    Cap,               \* the size of a send buffer
    Faults,            \* what the network may do besides: "refuse", "close", "reset"
    MaxFaults          \* bound: faults in one behaviour

ASSUME ConnectionsAssumption ==
    /\ IsFiniteSet(Conn) /\ Tls \subseteq Conn
    /\ Size \in [Conn -> Nat \ {0}]
    /\ Cap \in Nat \ {0}
    /\ Faults \subseteq {"refuse", "close", "reset"}
    /\ \A c \in Conn : Len(Answer[c]) \in Nat \ {0} /\ Cuts[c] \subseteq 1 .. Len(Answer[c])
    /\ MaxFaults \in Nat

\* The parser gets the responses right, in whatever pieces they come.
ASSUME ParsersAssumption ==
    \A c \in Conn :
        /\ new_request_arrived(NewParser) \in Parsers[c][0]
        /\ \A n \in 0 .. Len(Answer[c]) : \A p \in Parsers[c][n] :
              /\ ~ p.threw
              /\ \/ p.complete = << >>
                 \/ p.complete = << Expected[c] >>
              /\ p.complete = << >> => \A m \in Cuts[c] \cup {Len(Answer[c])} : m > n =>
                    parse(p, SubSeq(Answer[c], n + 1, m)) \in Parsers[c][m]

VARIABLES
    loop,              \* "idle", in a "round", "exited" or "threw"
    actions,           \* actions_: the sockets, in the order they were added
    todo,              \* callbacks of this round that are not done
    revents,           \* what the round's poll() has seen of each socket
    fds_to_remove,     \* fds_to_remove of this round
    sock,              \* our side of each connection
    peer,              \* the network's and the peer's side
    calls,             \* the callbacks of the caller, in order
    faults             \* faults so far

vars == <<loop, actions, todo, revents, fds_to_remove, sock, peer, calls, faults>>

\* left: how much of the request is not in the send buffer; state: of
\* NBSecureSocket; hello: SSL has sent its first message; secure: the handshake
\* is done; writing: the request is in NBSecureSocket's own buffer.
NewSocket(c) == [state  |-> IF c \in Tls THEN "needs_connect" ELSE "tcp",
                 left   |-> Size[c], writing |-> FALSE, hello |-> FALSE, secure |-> FALSE,
                 eof    |-> FALSE, parser |-> new_request_arrived(NewParser)]

NewPeer == [up |-> "connecting", fin |-> FALSE, rx |-> << >>, tx |-> 0, got |-> 0, sent |-> 0,
            hello |-> FALSE]

Init ==
    /\ loop = "idle"
    /\ actions = << >>
    /\ todo = << >>
    /\ revents = << >>
    /\ fds_to_remove = {}
    /\ sock = << >>
    /\ peer = << >>
    /\ calls = [c \in Conn |-> << >>]
    /\ faults = {}

lists == <<loop, actions, todo, revents, fds_to_remove, calls, faults>>

\* make_http_request, between two rounds.
MakeRequest(c) ==
    /\ loop = "idle" /\ c \notin DOMAIN sock
    /\ actions' = Append(actions, c)
    /\ sock' = [x \in DOMAIN sock \cup {c} |-> IF x = c THEN NewSocket(c) ELSE sock[x]]
    /\ peer' = [x \in DOMAIN sock \cup {c} |-> IF x = c THEN NewPeer ELSE peer[x]]
    /\ UNCHANGED <<loop, todo, revents, fds_to_remove, calls, faults>>

(***************************************************************************)
(* The network and the peer                                                *)
(***************************************************************************)

SetPeer(c, p) == peer' = [peer EXCEPT ![c] = p] /\ UNCHANGED <<lists, sock>>

Fault(kind) == kind \in Faults \ faults /\ Cardinality(faults) < MaxFaults

Accept(c) ==
    /\ peer[c].up = "connecting"
    /\ SetPeer(c, [peer[c] EXCEPT !.up = "up"])

PeerHello(c) ==
    /\ peer[c].up = "up" /\ sock[c].hello /\ ~ peer[c].hello /\ ~ peer[c].fin
    /\ SetPeer(c, [peer[c] EXCEPT !.hello = TRUE, !.rx = Append(@, << "hello" >>)])

PeerReceives(c) ==
    /\ peer[c].up = "up" /\ peer[c].tx > 0
    /\ SetPeer(c, [peer[c] EXCEPT !.tx = @ - 1, !.got = @ + 1])

\* Some of the response arrives, as one piece (of TCP, or one TLS record).
PeerAnswers(c) ==
    /\ peer[c].up = "up" /\ ~ peer[c].fin /\ peer[c].rx = << >>
    /\ peer[c].got = Size[c]
    /\ \E n \in Cuts[c] \cup {Len(Answer[c])} :
          /\ n > peer[c].sent
          /\ SetPeer(c, [peer[c] EXCEPT !.rx = << SubSeq(Answer[c], peer[c].sent + 1, n) >>,
                                        !.sent = n])

\* The peer closes the connection when it has sent everything.
PeerFinishes(c) ==
    /\ peer[c].up = "up" /\ ~ peer[c].fin /\ peer[c].sent = Len(Answer[c])
    /\ SetPeer(c, [peer[c] EXCEPT !.fin = TRUE])

\* Faults: the connection is refused, closed too early, or reset.
Breaks(c) ==
    /\ \/ /\ peer[c].up = "connecting" /\ Fault("refuse")
          /\ peer' = [peer EXCEPT ![c].up = "broken"]
          /\ faults' = faults \cup {"refuse"}
       \/ /\ peer[c].up = "up" /\ ~ peer[c].fin /\ peer[c].sent < Len(Answer[c])
          /\ Fault("close")
          /\ peer' = [peer EXCEPT ![c].fin = TRUE]
          /\ faults' = faults \cup {"close"}
       \/ /\ peer[c].up = "up" /\ Fault("reset")
          /\ peer' = [peer EXCEPT ![c].up = "broken"]
          /\ faults' = faults \cup {"reset"}
    /\ UNCHANGED <<loop, actions, todo, revents, fds_to_remove, sock, calls>>

Readable(c) == peer[c].up = "up" /\ (peer[c].rx # << >> \/ peer[c].fin)
Writable(c) == peer[c].up = "up" /\ peer[c].tx < Cap

(***************************************************************************)
(* Poller::poll                                                            *)
(***************************************************************************)

Unwritten(c) == sock[c].left > 0 /\ ~ sock[c].writing     \* write_buffer_.size()

InterestedOut(c) ==
    \/ sock[c].state \in {"needs_connect", "needs_ssl_write_to_write"}
    \/ sock[c].state \in {"ready", "tcp"} /\ Unwritten(c)

\* Mutant of InterestedIn: a write that waits for the peer's handshake is not polled.
InterestedInForgets(c) ==
    sock[c].state \in {"needs_connect", "needs_ssl_read_to_read", "ready", "tcp"} /\ ~ sock[c].eof

InterestedIn(c) ==
    /\ sock[c].state \in {"needs_connect", "needs_ssl_read_to_write", "needs_ssl_read_to_read",
                          "ready", "tcp"}
    /\ ~ sock[c].eof

Polled == { c \in ToSet(actions) : InterestedOut(c) \/ InterestedIn(c) }

\* The events of a socket, as poll() reports them.
Seen(c) == [out |-> InterestedOut(c) /\ Writable(c),
            in  |-> InterestedIn(c) /\ Readable(c),
            err |-> peer[c].up = "broken"]

Poll ==
    /\ loop = "idle"
    /\ Polled # {}
    /\ \E c \in ToSet(actions) : Seen(c).out \/ Seen(c).in \/ Seen(c).err
    /\ revents' = [c \in ToSet(actions) |-> Seen(c)]
    /\ todo' = [i \in 1 .. 2 * Len(actions) |->
                   <<actions[(i + 1) \div 2], IF i % 2 = 1 THEN "out" ELSE "in">>]
    /\ loop' = "round"
    /\ UNCHANGED <<actions, fds_to_remove, sock, peer, calls, faults>>

\* No socket has an event to wait for.
PollExit ==
    /\ loop = "idle" /\ actions # << >>
    /\ Polled = {}
    /\ loop' = "exited"
    /\ UNCHANGED <<actions, todo, revents, fds_to_remove, sock, peer, calls, faults>>

\* The sockets that are left, in their order.
remove_actions(socks, fd_nums) ==
    LET left[i \in 0 .. Len(socks)] ==
            IF i = 0 THEN << >>
            ELSE IF socks[i] \in fd_nums THEN left[i - 1] ELSE Append(left[i - 1], socks[i])
    IN  left[Len(socks)]

\* The end of a round.
RoundEnds ==
    /\ loop = "round" /\ todo = << >>
    /\ actions' = remove_actions(actions, fds_to_remove)
    /\ fds_to_remove' = {}
    /\ revents' = << >>
    /\ loop' = "idle"
    /\ UNCHANGED <<todo, sock, peer, calls, faults>>

Servicing(c, dir) == loop = "round" /\ todo # << >> /\ Head(todo) = <<c, dir>>

\* Mutant of ServiceError: each of the two actions calls back.
ServiceErrorTwice(c, dir) ==
    /\ Servicing(c, dir)
    /\ revents[c].err
    /\ calls' = [calls EXCEPT ![c] = Append(@, "failure")]
    /\ fds_to_remove' = fds_to_remove \cup {c}
    /\ todo' = Tail(todo)
    /\ UNCHANGED <<loop, actions, revents, sock, peer, faults>>

\* poll() has reported an error: fderror_callback, once for the two actions.
ServiceError(c, dir) ==
    /\ Servicing(c, dir)
    /\ revents[c].err
    /\ \/ c \notin fds_to_remove /\ calls' = [calls EXCEPT ![c] = Append(@, "failure")]
       \/ c \in fds_to_remove /\ UNCHANGED calls
    /\ fds_to_remove' = fds_to_remove \cup {c}
    /\ todo' = Tail(todo)
    /\ UNCHANGED <<loop, actions, revents, sock, peer, faults>>

\* Nothing was seen that this action waits for.
SkipAction(c, dir) ==
    /\ Servicing(c, dir)
    /\ ~ revents[c].err
    /\ dir = "out" => ~ revents[c].out
    /\ dir = "in" => ~ revents[c].in
    /\ todo' = Tail(todo)
    /\ UNCHANGED <<loop, actions, revents, fds_to_remove, sock, peer, calls, faults>>

\* A callback throws: the exception leaves the loop.
Throw ==
    /\ loop' = "threw"
    /\ UNCHANGED <<actions, todo, revents, fds_to_remove, sock, peer, calls, faults>>

(***************************************************************************)
(* SSL_write and SSL_read (OpenSSL, external): [result, sock, peer, data]. *)
(***************************************************************************)

SslResult(result, s, p, data) == [result |-> result, sock |-> s, peer |-> p, data |-> data]

\* The handshake goes on when the peer's message is there.
Handshake(s, p) ==
    CASE s.secure -> SslResult("ok", s, p, << >>)
      [] ~ s.secure /\ p.rx # << >> ->
            SslResult("ok", [s EXCEPT !.secure = TRUE], [p EXCEPT !.rx = Tail(@)], << >>)
      [] ~ s.secure /\ p.rx = << >> /\ p.fin -> SslResult("cut", s, p, << >>)
      [] ~ s.secure /\ p.rx = << >> /\ ~ p.fin -> SslResult("want_read", s, p, << >>)

\* As much as fits goes into the send buffer.
Push(s, p) ==
    LET n == Min({s.left, Cap - p.tx})
        t == [s EXCEPT !.left = @ - n]
        q == [p EXCEPT !.tx = @ + n]
    IN  SslResult(IF t.left = 0 THEN "ok" ELSE "want_write", t, q, << >>)

SSL_write(s, p) ==
    LET h == Handshake(s, p)
    IN  CASE p.up = "broken" -> SslResult("error", s, p, << >>)
          [] p.up # "broken" /\ h.result # "ok" -> h
          [] p.up # "broken" /\ h.result = "ok" -> Push(h.sock, h.peer)

SSL_read(s, p) ==
    LET h == Handshake(s, p)
    IN  CASE p.up = "broken" -> SslResult("error", s, p, << >>)
          [] p.up # "broken" /\ h.result # "ok" -> h
          [] p.up # "broken" /\ h.result = "ok" /\ h.peer.rx # << >> ->
                SslResult("ok", h.sock, [h.peer EXCEPT !.rx = Tail(@)], Head(h.peer.rx))
          [] p.up # "broken" /\ h.result = "ok" /\ h.peer.rx = << >> /\ h.peer.fin ->
                SslResult("eof", h.sock, h.peer, << >>)
          [] p.up # "broken" /\ h.result = "ok" /\ h.peer.rx = << >> /\ ~ h.peer.fin ->
                SslResult("want_read", h.sock, h.peer, << >>)

(***************************************************************************)
(* The callbacks                                                           *)
(***************************************************************************)

\* A callback is done and the connection goes on.
Goes(c, s, p) ==
    /\ sock' = [sock EXCEPT ![c] = s]
    /\ peer' = [peer EXCEPT ![c] = p]
    /\ todo' = Tail(todo)
    /\ UNCHANGED <<loop, actions, revents, fds_to_remove, calls, faults>>

\* continue_SSL_connect: whatever SSL_connect has done, the socket counts as ready,
\* unless it returns 0. How it reports a connection that is already closed depends
\* on the library.
ContinueConnect(c) ==
    \/ /\ peer[c].up # "broken"
       /\ Goes(c, [sock[c] EXCEPT !.state = "ready", !.hello = TRUE], peer[c])
    \/ (peer[c].up = "broken" \/ peer[c].fin) /\ Throw

\* continue_SSL_write, with the request in the socket's own buffer.
ContinueWrite(c) ==
    LET w == SSL_write(sock[c], peer[c])
        State(st) == [w.sock EXCEPT !.writing = TRUE, !.state = st]
    IN  \/ w.result = "ok" /\ Goes(c, [State("ready") EXCEPT !.writing = FALSE], w.peer)
        \/ w.result = "want_read" /\ Goes(c, State("needs_ssl_read_to_write"), w.peer)
        \/ w.result = "want_write" /\ Goes(c, State("needs_ssl_write_to_write"), w.peer)
        \/ w.result \in {"error", "cut"} /\ Throw

\* The data callback of make_http_request: the parser takes the data; a complete
\* response is handed on and the connection is closed.
Data(c, s, p, data) ==
    LET q == parse(s.parser, data)
    IN  \/ q.threw /\ Throw
        \/ /\ ~ q.threw /\ q.complete = << >>
           /\ Goes(c, [s EXCEPT !.parser = q], p)
        \/ /\ ~ q.threw /\ q.complete # << >>
           /\ calls' = [calls EXCEPT ![c] = Append(@, "response")]
           /\ sock' = [sock EXCEPT ![c] = [s EXCEPT !.parser = q]]
           /\ peer' = [peer EXCEPT ![c] = p]
           /\ fds_to_remove' = fds_to_remove \cup {c}
           /\ todo' = Tail(todo)
           /\ UNCHANGED <<loop, actions, revents, faults>>

OutSeen(c) == Servicing(c, "out") /\ ~ revents[c].err /\ revents[c].out
InSeen(c)  == Servicing(c, "in") /\ ~ revents[c].err /\ revents[c].in

\* TCP: as much of the request as fits is written.
TcpOut(c) ==
    /\ c \notin Tls /\ OutSeen(c)
    /\ LET w == Push(sock[c], peer[c])
       IN  \/ peer[c].up # "broken" /\ Goes(c, w.sock, w.peer)
           \/ peer[c].up = "broken" /\ Throw

\* TCP: everything there is is read; an empty read closes the connection, and
\* nobody is told.
TcpIn(c) ==
    /\ c \notin Tls /\ InSeen(c)
    /\ \/ /\ peer[c].up # "broken" /\ peer[c].rx # << >>
          /\ Data(c, sock[c], [peer[c] EXCEPT !.rx = << >>], FlattenSeq(peer[c].rx))
       \/ /\ peer[c].up # "broken" /\ peer[c].rx = << >>
          /\ fds_to_remove' = fds_to_remove \cup {c}
          /\ todo' = Tail(todo)
          /\ UNCHANGED <<loop, actions, revents, sock, peer, calls, faults>>
       \/ peer[c].up = "broken" /\ Throw

TlsOut(c) ==
    /\ c \in Tls /\ OutSeen(c)
    /\ \/ sock[c].state = "needs_connect" /\ ContinueConnect(c)
       \/ sock[c].state \in {"needs_ssl_write_to_write", "ready"} /\ ContinueWrite(c)

\* continue_SSL_read and then the data callback, if anything was read. At the end
\* of the stream nothing is called: from then on In is not polled. How SSL_read
\* reports a handshake that is cut off depends on the library.
ContinueRead(c) ==
    LET r == SSL_read(sock[c], peer[c])
        State(st) == [r.sock EXCEPT !.state = st]
    IN  \/ r.result = "ok" /\ Data(c, State("ready"), r.peer, r.data)
        \/ r.result \in {"eof", "cut"} /\ Goes(c, [State("ready") EXCEPT !.eof = TRUE], r.peer)
        \/ r.result = "want_read" /\ Goes(c, State("needs_ssl_read_to_read"), r.peer)
        \/ r.result \in {"error", "cut"} /\ Throw

\* Mutant of TlsIn: a handshake that waits for the peer is not continued.
TlsInForgets(c) ==
    /\ c \in Tls /\ InSeen(c)
    /\ \/ sock[c].state = "needs_connect" /\ ContinueConnect(c)
       \/ sock[c].state \in {"needs_ssl_read_to_read", "ready"} /\ ContinueRead(c)
       \/ sock[c].state \in {"needs_ssl_read_to_write", "needs_ssl_write_to_write"} /\ Throw

TlsIn(c) ==
    /\ c \in Tls /\ InSeen(c)
    /\ \/ sock[c].state = "needs_connect" /\ ContinueConnect(c)
       \/ sock[c].state = "needs_ssl_read_to_write" /\ ContinueWrite(c)
       \/ sock[c].state \in {"needs_ssl_read_to_read", "ready"} /\ ContinueRead(c)
       \/ sock[c].state = "needs_ssl_write_to_write" /\ Throw       \* "unexpected state"

(***************************************************************************)

Service(c) ==
    \/ \E dir \in {"out", "in"} : ServiceError(c, dir) \/ SkipAction(c, dir)
    \/ TcpOut(c) \/ TcpIn(c)
    \/ TlsOut(c) \/ TlsIn(c)

Network(c) ==
    \/ Accept(c) \/ PeerHello(c) \/ PeerReceives(c) \/ PeerAnswers(c) \/ PeerFinishes(c)
    \/ Breaks(c)

Ended == loop \in {"exited", "threw"} \/ (actions = << >> /\ DOMAIN sock = Conn)

Done == Ended /\ UNCHANGED vars

loop_once == Poll \/ PollExit \/ RoundEnds \/ \E c \in DOMAIN sock : Service(c)

Next ==
    \/ \E c \in Conn : MakeRequest(c)
    \/ loop_once
    \/ \E c \in ToSet(actions) : loop \notin {"exited", "threw"} /\ Network(c)
    \/ Done

Spec == Init /\ [][Next]_vars

(***************************************************************************)
(* Fairness. The loop's thread runs whenever poll() does not block. The    *)
(* peer accepts connections, reads what is sent to it and answers.         *)
(***************************************************************************)

\* The loop's thread can take a step: in a round there is a callback to run or the
\* round to end, and poll() returns if there is an event or nothing to wait for.
LoopReady ==
    \/ loop = "round"
    \/ /\ loop = "idle" /\ actions # << >>
       /\ Polled = {} \/ \E c \in ToSet(actions) : Seen(c).out \/ Seen(c).in \/ Seen(c).err

LoopMoved == loop' # loop \/ todo' # todo

Progress(c) ==
    /\ c \in ToSet(actions) /\ loop \notin {"exited", "threw"}
    /\ Accept(c) \/ PeerHello(c) \/ PeerReceives(c) \/ PeerAnswers(c)

Fairness ==
    /\ []<>(~ LoopReady) \/ []<><<LoopMoved>>_vars
    /\ \A c \in Conn : WF_vars(Progress(c))

FairSpec == Spec /\ Fairness

-----------------------------------------------------------------------------
\* The caller hears of a request at most once, although an error is reported to
\* both actions of its socket; a response is the one the peer sent, in whatever
\* pieces; a failure is a connection that broke (poller.cc:76-82, loop.cc:237-252).
CallbackIsRight ==
    \A c \in Conn :
        /\ Len(calls[c]) <= 1
        /\ calls[c] = << "response" >> => sock[c].parser.complete = << Expected[c] >>
        /\ calls[c] = << "failure" >> => peer[c].up = "broken"

ClosedEarly(c) == c \in DOMAIN peer /\ peer[c].fin /\ peer[c].sent < Len(Answer[c])

\* The whole loop is brought down by one connection only if that connection broke
\* after poll() had looked at it, was closed within its handshake, or is a TLS
\* connection whose request does not fit into the send buffer: then In may be
\* serviced in the round in which Out was left waiting (nb_secure_socket.cc:84-86).
ThrowsOnlyWhen ==
    loop = "threw" =>
        LET c == Head(todo)[1]
        IN  \/ peer[c].up = "broken" /\ ~ revents[c].err
            \/ c \in Tls /\ ClosedEarly(c) /\ ~ sock[c].secure
            \/ c \in Tls /\ Size[c] > Cap /\ sock[c].state = "needs_ssl_write_to_write"

\* Every request is answered or reported as failed in the end, unless the peer
\* closes its connection without answering: of that nobody is told
\* (loop.cc:117-119, nb_secure_socket.cc:88-92).
EveryRequestSettles ==
    \A c \in Conn :
        [](c \in DOMAIN sock => <>(calls[c] # << >> \/ loop = "threw" \/ ClosedEarly(c)))
=============================================================================
