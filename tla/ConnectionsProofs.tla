------------------------- MODULE ConnectionsProofs --------------------------
(***************************************************************************)
(* Proofs about Connections, for any number of requests of any size: the   *)
(* caller hears of each at most once and of the right thing, and the loop  *)
(* is brought down only in the known ways. What the parser makes of the    *)
(* pieces of a response is assumed (ParsersAssumption).                    *)
(***************************************************************************)
EXTENDS Connections, WellFoundedInduction, TLAPS

Upto(c) == 0 .. Len(Answer[c])

Hello == << "hello" >>

States == {"needs_connect", "needs_ssl_read_to_write", "needs_ssl_write_to_write",
           "needs_ssl_read_to_read", "ready", "tcp"}

Sock == [state : States, left : Nat, writing : BOOLEAN, hello : BOOLEAN, secure : BOOLEAN,
         eof : BOOLEAN,
         parser : UNION { UNION { Parsers[c][n] : n \in Upto(c) } : c \in Conn }]

\* The pieces that arrive: the peer's part of the handshake, or some of the response.
Piece == {Hello} \cup
    UNION { UNION { { SubSeq(Answer[d], k + 1, l) : l \in Upto(d) } : k \in Upto(d) } : d \in Conn }

Peer == [up : {"connecting", "up", "broken"}, fin : BOOLEAN,
         rx : { << >> } \cup { <<x>> : x \in Piece },
         tx : Nat, got : Nat, sent : Nat, hello : BOOLEAN]

Shape ==
    /\ loop \in {"idle", "round", "exited", "threw"}
    /\ DOMAIN sock \subseteq Conn
    /\ sock \in [DOMAIN sock -> Sock] /\ peer \in [DOMAIN sock -> Peer]
    /\ actions \in Seq(DOMAIN sock)
    /\ \A i, j \in DOMAIN actions : actions[i] = actions[j] => i = j
    /\ todo \in Seq(ToSet(actions) \X {"out", "in"})
    /\ calls \in [Conn -> { << >>, << "response" >>, << "failure" >> }]

\* In is the last callback of a socket in a round; what poll() has seen broken is broken.
Round ==
    /\ loop = "idle" => todo = << >> /\ fds_to_remove = {}
    /\ \A i, j \in DOMAIN todo : i < j /\ todo[i][2] = "in" => todo[j][1] # todo[i][1]
    /\ loop = "round" => \A c \in ToSet(actions) : revents[c].err => peer[c].up = "broken"

\* Where the request is: unwritten, in the send buffer, with the peer. Nothing of it
\* leaves before the handshake is done, and nothing comes back before all of it is there.
Transport(c, s, p) ==
    /\ s.left + p.tx + p.got = Size[c] /\ p.tx <= Cap
    /\ p.sent \in {0} \cup Cuts[c] \cup {Len(Answer[c])}
    /\ c \notin Tls => s.state = "tcp" /\ ~ s.hello /\ ~ s.secure
    /\ c \in Tls => s.state # "tcp"
    /\ c \in Tls /\ ~ s.secure => s.left = Size[c] /\ p.sent = 0
    /\ s.secure => p.hello /\ s.state # "needs_connect"
    /\ c \in Tls /\ ~ p.hello => p.rx = << >>
    /\ s.state = "needs_ssl_write_to_write" => Size[c] > Cap

\* The parser has been given all of the response that has arrived, but for the piece
\* that waits to be read.
Fed(c, s, p, n) ==
    /\ s.parser \in Parsers[c][n] /\ s.parser.complete = << >>
    /\ \/ n = p.sent /\ p.rx = << >>
       \/ n = p.sent /\ c \in Tls /\ ~ s.secure /\ p.rx = << Hello >>
       \/ /\ n < p.sent /\ (c \in Tls => s.secure)
          /\ p.rx = << SubSeq(Answer[c], n + 1, p.sent) >>

Waits(c, s, p) == \E n \in Upto(c) : Fed(c, s, p, n)

Each ==
    \A c \in DOMAIN sock :
        /\ Transport(c, sock[c], peer[c])
        /\ calls[c] = << >> => Waits(c, sock[c], peer[c])

\* Once the caller has heard, the socket is about to be removed and serviced no more,
\* except for an error that it shares with the first callback.
Called(c) ==
    /\ calls[c] # << >> =>
          /\ c \in DOMAIN sock
          /\ c \in ToSet(actions) => c \in fds_to_remove
          /\ \A i \in DOMAIN todo : todo[i][1] = c => revents[c].err
    /\ calls[c] = << "response" >> => sock[c].parser.complete = << Expected[c] >>
    /\ calls[c] = << "failure" >> => peer[c].up = "broken"

ConnInv ==
    /\ Shape /\ Round /\ Each
    /\ \A c \in Conn : Called(c)
    /\ ThrowsOnlyWhen

-----------------------------------------------------------------------------
\* A set of numbers that is not empty has a smallest one.
LEMMA Smallest ==
    ASSUME NEW S \in SUBSET Nat, S # {}
    PROVE  \E x \in S : \A y \in S : x =< y
<1> DEFINE R == {ss \in Nat \X Nat : ss[1] < ss[2]}
<1>1. IsWellFoundedOn(R, Nat)
    BY NatLessThanWellFounded DEF OpToRel
<1> HIDE DEF R
<1>2. PICK x \in S : \A y \in S : ~ (<<y, x>> \in R)
    BY <1>1, WFMin
<1>3. \A y \in S : x =< y
  <2> SUFFICES ASSUME NEW y \in S, y < x PROVE FALSE
      OBVIOUS
  <2>1. <<y, x>> \in Nat \X Nat /\ <<y, x>>[1] = y /\ <<y, x>>[2] = x
      OBVIOUS
  <2>2. <<y, x>> \in R
      BY <2>1 DEF R
  <2> QED
      BY <1>2, <2>2
<1> QED
    BY <1>3

\* The smaller of two numbers.
LEMMA MinOfTwo ==
    ASSUME NEW a \in Nat, NEW b \in Nat
    PROVE  Min({a, b}) \in {a, b} /\ Min({a, b}) <= a /\ Min({a, b}) <= b
<1>1. \E x \in {a, b} : \A y \in {a, b} : x =< y
    OBVIOUS
<1> QED
    BY <1>1 DEF Min

\* A read that takes the only piece there is returns that piece.
LEMMA FlattenOne ==
    ASSUME NEW x
    PROVE  FlattenSeq(<<x>>) = x
<1> DEFINE F(g) == [i \in 1 .. Len(<<x>>) |-> IF i = 1 THEN <<x>>[i] ELSE g[i - 1] \o <<x>>[i]]
<1>1. Len(<<x>>) = 1 /\ <<x>>[1] = x
    OBVIOUS
<1>2. \E g : g = F(g)
  <2>1. [i \in 1 .. 1 |-> x] = F([i \in 1 .. 1 |-> x])
      BY <1>1
  <2> QED
      BY <2>1
<1>3. (CHOOSE g : g = F(g)) = F(CHOOSE g : g = F(g))
    BY <1>2
<1> QED
    BY <1>1, <1>3 DEF FlattenSeq

\* Without the sockets to be removed the list is the same: nothing else is lost and
\* nothing occurs twice.
LEMMA Remaining ==
    ASSUME NEW S, NEW s \in Seq(S), NEW gone,
           \A i, j \in DOMAIN s : s[i] = s[j] => i = j
    PROVE  LET r == remove_actions(s, gone)
           IN  /\ r \in Seq(S) /\ ToSet(r) = ToSet(s) \ gone
               /\ \A i, j \in DOMAIN r : r[i] = r[j] => i = j
<1> DEFINE Step(g, i) == IF i = 0 THEN << >>
                         ELSE IF s[i] \in gone THEN g[i - 1] ELSE Append(g[i - 1], s[i])
           F(g, k) == [i \in 0 .. k |-> Step(g, i)]
           N == Len(s)
<1>1. N \in Nat /\ DOMAIN s = 1 .. N
    OBVIOUS
<1> HIDE DEF N
<1>2. \E g : g = F(g, N)
  <2> DEFINE Some(k) == \E g : g = F(g, k)
             Bad == { k \in 0 .. N : ~ Some(k) }
  <2> SUFFICES Some(N)
      OBVIOUS
  <2> HIDE DEF Some
  <2> SUFFICES ASSUME Bad # {} PROVE FALSE
      BY <1>1
  <2>0. Bad \in SUBSET Nat
      BY <1>1
  <2> HIDE DEF Bad
  <2>1. PICK k \in Bad : \A m \in Bad : k =< m
      BY <2>0, Smallest
  <2>2. k \in 0 .. N /\ ~ Some(k)
      BY <2>1 DEF Bad
  <2>3. k # 0
    <3>1. [i \in 0 .. 0 |-> << >>] = F([i \in 0 .. 0 |-> << >>], 0)
        OBVIOUS
    <3> QED
        BY <2>2, <3>1 DEF Some
  <2>4. k - 1 \in 0 .. N /\ Some(k - 1)
      BY <1>1, <2>1, <2>2, <2>3 DEF Bad
  <2>5. PICK g : g = F(g, k - 1)
      BY <2>4 DEF Some
  <2>5a. \A i \in 0 .. k - 1 : g[i] = Step(g, i)
      BY <2>5
  <2> DEFINE h == [i \in 0 .. k |-> IF i < k THEN g[i] ELSE Step(g, k)]
  <2>6. \A i \in 0 .. k : h[i] = Step(h, i)
    <3> TAKE i \in 0 .. k
    <3>1. i = 0 => g[0] = << >>
        BY <1>1, <2>2, <2>3, <2>5a
    <3>2. i # 0 /\ i < k => h[i] = g[i] /\ h[i - 1] = g[i - 1] /\ g[i] = Step(g, i)
      <4> HIDE DEF Step
      <4> QED
          BY <1>1, <2>2, <2>3, <2>5a
    <3>3. i = k => h[i] = Step(g, k) /\ h[i - 1] = g[i - 1]
        BY <1>1, <2>2, <2>3
    <3> QED
        BY <1>1, <2>2, <2>3, <3>1, <3>2, <3>3
  <2>7. h = F(h, k)
      BY <2>6
  <2> QED
      BY <2>2, <2>7 DEF Some
<1> DEFINE left == CHOOSE g : g = F(g, N)
<1>3. left = F(left, N)
    BY <1>2
<1>4. remove_actions(s, gone) = left[N]
    BY DEF remove_actions, N
<1> HIDE DEF left
<1>5. \A i \in 0 .. N : left[i] = Step(left, i)
    BY <1>3
<1> HIDE DEF Step
<1> DEFINE Upper(k) == { s[i] : i \in 1 .. k }
           Right(k) == /\ left[k] \in Seq(S)
                       /\ \A x : x \in ToSet(left[k]) <=> x \in Upper(k) /\ x \notin gone
                       /\ \A i, j \in DOMAIN left[k] : left[k][i] = left[k][j] => i = j
<1>6. \A k \in 0 .. N : Right(k)
  <2> DEFINE Bad == { k \in 0 .. N : ~ Right(k) }
  <2> HIDE DEF Right
  <2> SUFFICES ASSUME Bad # {} PROVE FALSE
      BY <1>1
  <2>0. Bad \in SUBSET Nat
      BY <1>1
  <2> HIDE DEF Bad
  <2>1. PICK k \in Bad : \A m \in Bad : k =< m
      BY <2>0, Smallest
  <2>2. k \in 0 .. N /\ ~ Right(k)
      BY <2>1 DEF Bad
  <2>3. k # 0
    <3>1. left[0] = << >> /\ Upper(0) = {}
        BY <1>1, <1>5 DEF Step
    <3>2. Right(0)
        BY <3>1 DEF Right, ToSet
    <3> QED
        BY <2>2, <3>2
  <2>4. k - 1 \in 0 .. N /\ Right(k - 1) /\ k \in DOMAIN s
      BY <1>1, <2>1, <2>2, <2>3 DEF Bad
  <2>5. \A x : x \in Upper(k) <=> x \in Upper(k - 1) \/ x = s[k]
      BY <1>1, <2>2, <2>3
  <2>6. s[k] \notin Upper(k - 1)
      BY <1>1, <2>2, <2>4
  <2> HIDE DEF Upper
  <2>7. CASE s[k] \in gone
    <3>1. left[k] = left[k - 1]
        BY <1>5, <2>2, <2>3, <2>7 DEF Step
    <3>2. Right(k)
        BY <2>4, <2>5, <2>7, <3>1 DEF Right
    <3> QED
        BY <2>2, <3>2
  <2>8. CASE s[k] \notin gone
    <3>1. left[k] = Append(left[k - 1], s[k])
        BY <1>5, <2>2, <2>3, <2>8 DEF Step
    <3> DEFINE l == left[k - 1]
    <3>2. l \in Seq(S) /\ s[k] \in S
        BY <2>4 DEF Right
    <3>3. /\ left[k] \in Seq(S) /\ Len(left[k]) = Len(l) + 1
          /\ DOMAIN left[k] = 1 .. Len(l) + 1 /\ DOMAIN l = 1 .. Len(l) /\ Len(l) \in Nat
          /\ \A i \in 1 .. Len(l) : left[k][i] = l[i]
          /\ left[k][Len(l) + 1] = s[k]
        BY <3>1, <3>2
    <3>4. /\ \A x : x \in ToSet(l) <=> x \in Upper(k - 1) /\ x \notin gone
          /\ \A i, j \in DOMAIN l : l[i] = l[j] => i = j
        BY <2>4 DEF Right
    <3> HIDE DEF l
    <3>5. \A x : x \in ToSet(left[k]) <=> x \in ToSet(l) \/ x = s[k]
      <4>1. \A x \in ToSet(left[k]) : x \in ToSet(l) \/ x = s[k]
          BY <3>3 DEF ToSet
      <4>2. \A x \in ToSet(l) : x \in ToSet(left[k])
        <5> TAKE x \in ToSet(l)
        <5>1. PICK i \in 1 .. Len(l) : x = l[i]
            BY <3>3 DEF ToSet
        <5>2. i \in DOMAIN left[k] /\ left[k][i] = x
            BY <3>3, <5>1
        <5> QED
            BY <5>2 DEF ToSet
      <4>3. Len(l) + 1 \in DOMAIN left[k]
          BY <3>3
      <4>4. s[k] \in ToSet(left[k])
          BY <3>3, <4>3 DEF ToSet
      <4> QED
          BY <4>1, <4>2, <4>4
    <3>6. \A i \in 1 .. Len(l) : l[i] # s[k]
        BY <2>6, <3>3, <3>4 DEF ToSet
    <3>7. \A i, j \in DOMAIN left[k] : left[k][i] = left[k][j] => i = j
        BY <3>3, <3>4, <3>6
    <3>8. Right(k)
        BY <2>5, <2>8, <3>3, <3>4, <3>5, <3>7 DEF Right
    <3> QED
        BY <2>2, <3>8
  <2> QED
      BY <2>7, <2>8
<1>7. Upper(N) = ToSet(s)
    BY <1>1 DEF ToSet
<1> HIDE DEF Upper
<1>8. Right(N)
    BY <1>1, <1>6
<1> QED
    BY <1>4, <1>7, <1>8
-----------------------------------------------------------------------------
\* What is assumed of one request.
LEMMA OfRequest ==
    ASSUME NEW c \in Conn
    PROVE  /\ Size[c] \in Nat \ {0} /\ Cap \in Nat \ {0}
           /\ Len(Answer[c]) \in Nat \ {0}
           /\ \A m \in Cuts[c] \cup {Len(Answer[c])} : m \in Upto(c) /\ m # 0
BY ConnectionsAssumption DEF Upto

\* A parser that is waiting for more takes the next piece.
LEMMA ParsesRight ==
    ASSUME NEW c \in Conn, NEW n \in Upto(c), NEW p \in Parsers[c][n], p.complete = << >>,
           NEW m \in Cuts[c] \cup {Len(Answer[c])}, m > n
    PROVE  LET q == parse(p, SubSeq(Answer[c], n + 1, m))
           IN  /\ q \in Parsers[c][m] /\ ~ q.threw
               /\ q.complete = << >> \/ q.complete = << Expected[c] >>
<1>1. m \in Upto(c)
    BY OfRequest
<1>2. parse(p, SubSeq(Answer[c], n + 1, m)) \in Parsers[c][m]
    BY ParsersAssumption DEF Upto
<1> QED
    BY <1>1, <1>2, ParsersAssumption DEF Upto

\* The parser of a socket, and any other state of it that is listed.
LEMMA ParserType ==
    ASSUME NEW c \in Conn, NEW n \in Upto(c), NEW p \in Parsers[c][n]
    PROVE  p \in UNION { UNION { Parsers[d][m] : m \in Upto(d) } : d \in Conn }
OBVIOUS

LEMMA PieceType ==
    ASSUME NEW c \in Conn, NEW n \in Upto(c), NEW m \in Upto(c)
    PROVE  SubSeq(Answer[c], n + 1, m) \in Piece
<1> DEFINE P(d, k) == { SubSeq(Answer[d], k + 1, l) : l \in Upto(d) }
           Q(d) == UNION { P(d, k) : k \in Upto(d) }
<1>1. SubSeq(Answer[c], n + 1, m) \in P(c, n)
    OBVIOUS
<1> HIDE DEF P
<1>2. SubSeq(Answer[c], n + 1, m) \in Q(c)
    BY <1>1
<1> HIDE DEF Q
<1>3. SubSeq(Answer[c], n + 1, m) \in UNION { Q(d) : d \in Conn }
    BY <1>2
<1> QED
    BY <1>3 DEF P, Q, Piece

\* The callbacks that are left when one is done.
LEMMA TodoTail ==
    ASSUME Shape, Round, todo # << >>, todo' = Tail(todo), actions' = actions
    PROVE  /\ todo' \in Seq(ToSet(actions') \X {"out", "in"})
           /\ \A j \in DOMAIN todo' : j + 1 \in DOMAIN todo /\ todo'[j] = todo[j + 1]
           /\ \A i, j \in DOMAIN todo' :
                 i < j /\ todo'[i][2] = "in" => todo'[j][1] # todo'[i][1]
           /\ 1 \in DOMAIN todo /\ todo[1] = Head(todo)
           /\ todo[1][2] = "in" => \A j \in DOMAIN todo' : todo'[j][1] # todo[1][1]
<1> DEFINE T == ToSet(actions) \X {"out", "in"}
<1>1. todo \in Seq(T) /\ ToSet(actions') = ToSet(actions)
    BY DEF Shape
<1> HIDE DEF T
<1>2. /\ todo' \in Seq(T) /\ DOMAIN todo' = 1 .. Len(todo) - 1 /\ Len(todo) \in Nat \ {0}
      /\ DOMAIN todo = 1 .. Len(todo) /\ todo[1] = Head(todo)
      /\ \A j \in 1 .. Len(todo) - 1 : todo'[j] = todo[j + 1]
    BY <1>1
<1>3. \A j \in DOMAIN todo' : j \in Nat /\ j + 1 \in DOMAIN todo /\ todo'[j] = todo[j + 1] /\ 1 < j + 1
    BY <1>2
<1>4. \A i, j \in DOMAIN todo : i < j /\ todo[i][2] = "in" => todo[j][1] # todo[i][1]
    BY DEF Round
<1>5. \A i, j \in DOMAIN todo' : i < j /\ todo'[i][2] = "in" => todo'[j][1] # todo'[i][1]
    BY <1>3, <1>4
<1>6. 1 \in DOMAIN todo
    BY <1>2
<1>7. todo[1][2] = "in" => \A j \in DOMAIN todo' : todo'[j][1] # todo[1][1]
    BY <1>3, <1>4, <1>6
<1> QED
    BY <1>1, <1>2, <1>3, <1>5, <1>6, <1>7 DEF T

\* A step that changes the two sides of one connection and tells the caller nothing.
LEMMA Keeps ==
    ASSUME ConnInv, NEW c \in DOMAIN sock, NEW s \in Sock, NEW p \in Peer,
           loop \in {"idle", "round"}, loop' = loop,
           sock' = [sock EXCEPT ![c] = s], peer' = [peer EXCEPT ![c] = p],
           UNCHANGED <<actions, revents, calls>>,
           \/ fds_to_remove' = fds_to_remove
           \/ loop = "round" /\ fds_to_remove \subseteq fds_to_remove',
           todo' = todo \/ (todo # << >> /\ todo' = Tail(todo)),
           Transport(c, s, p), calls[c] = << >> => Waits(c, s, p),
           calls[c] # << >> => s.parser = sock[c].parser,
           peer[c].up = "broken" => p.up = "broken"
    PROVE  ConnInv'
<1> USE DEF ConnInv
<1>1. /\ DOMAIN sock' = DOMAIN sock /\ DOMAIN peer = DOMAIN sock /\ DOMAIN peer' = DOMAIN sock
      /\ sock'[c] = s /\ peer'[c] = p
      /\ \A d \in DOMAIN sock : d # c => sock'[d] = sock[d] /\ peer'[d] = peer[d]
    BY DEF Shape
<1>2. sock' \in [DOMAIN sock' -> Sock] /\ peer' \in [DOMAIN sock' -> Peer]
    BY <1>1 DEF Shape
<1>3. /\ todo' \in Seq(ToSet(actions') \X {"out", "in"})
      /\ \A i, j \in DOMAIN todo' : i < j /\ todo'[i][2] = "in" => todo'[j][1] # todo'[i][1]
      /\ \A i \in DOMAIN todo' : \E j \in DOMAIN todo : todo'[i] = todo[j]
      /\ todo = << >> => todo' = << >>
  <2>1. CASE todo' = todo
      BY <2>1 DEF Shape, Round
  <2>2. CASE todo # << >> /\ todo' = Tail(todo)
      BY <2>2, TodoTail
  <2> QED
      BY <2>1, <2>2
<1>4. Shape'
    BY <1>1, <1>2, <1>3 DEF Shape
<1>5. \A d \in DOMAIN sock : peer[d].up = "broken" => peer'[d].up = "broken"
    BY <1>1
<1>6. Round'
  <2>1. \A d \in ToSet(actions) : d \in DOMAIN sock
      BY DEF Shape, ToSet
  <2> QED
      BY <1>3, <1>5, <2>1 DEF Round
<1>7. Each'
    BY <1>1 DEF Each
<1>8. \A d \in Conn : Called(d)'
  <2> TAKE d \in Conn
  <2>1. Called(d)
      OBVIOUS
  <2>2. calls[d] # << >> => d \in DOMAIN sock
      BY <2>1 DEF Called
  <2>3. calls[d] # << >> => sock'[d].parser = sock[d].parser
      BY <1>1, <2>2
  <2>4. calls[d] # << >> => \A i \in DOMAIN todo' : todo'[i][1] = d => revents'[d].err
      BY <1>3, <2>1 DEF Called
  <2>5. calls'[d] = << "response" >> => sock'[d].parser.complete = << Expected[d] >>
      BY <2>1, <2>3 DEF Called
  <2>6. calls'[d] = << "failure" >> => peer'[d].up = "broken"
      BY <1>5, <2>1, <2>2 DEF Called
  <2>7. calls'[d] # << >> => (d \in ToSet(actions') => d \in fds_to_remove')
      BY <2>1 DEF Called
  <2> QED
      BY <1>1, <2>2, <2>4, <2>5, <2>6, <2>7 DEF Called
<1>9. ThrowsOnlyWhen'
    BY DEF ThrowsOnlyWhen
<1> QED
    BY <1>4, <1>6, <1>7, <1>8, <1>9

\* An exception leaves the loop in a known way.
LEMMA Throws ==
    ASSUME ConnInv, NEW c, NEW dir, Servicing(c, dir), Throw,
           \/ peer[c].up = "broken" /\ ~ revents[c].err
           \/ c \in Tls /\ ClosedEarly(c) /\ ~ sock[c].secure
           \/ c \in Tls /\ Size[c] > Cap /\ sock[c].state = "needs_ssl_write_to_write"
    PROVE  ConnInv'
<1> USE DEF ConnInv
<1>1. Head(todo)[1] = c
    BY DEF Servicing
<1>2. Shape' /\ Round' /\ Each'
    BY DEF Throw, Shape, Round, Each
<1>3. \A d \in Conn : Called(d)'
    BY DEF Throw, Called
<1>4. ThrowsOnlyWhen'
    BY <1>1 DEF Throw, ThrowsOnlyWhen, ClosedEarly
<1> QED
    BY <1>2, <1>3, <1>4

\* A socket whose callback runs without an error is one whose caller has not heard.
LEMMA NotYetCalled ==
    ASSUME ConnInv, NEW c, NEW dir \in {"out", "in"}, Servicing(c, dir)
    PROVE  /\ c \in DOMAIN sock /\ c \in Conn /\ c \in ToSet(actions)
           /\ todo # << >> /\ 1 \in DOMAIN todo /\ todo[1] = <<c, dir>>
           /\ ~ revents[c].err => calls[c] = << >>
<1> USE DEF ConnInv
<1> DEFINE T == ToSet(actions) \X {"out", "in"}
<1>1. todo # << >> /\ todo \in Seq(T) /\ Head(todo) = <<c, dir>>
    BY DEF Servicing, Shape
<1> HIDE DEF T
<1>2. 1 \in DOMAIN todo /\ todo[1] = <<c, dir>> /\ todo[1] \in T
    BY <1>1
<1>3. c \in ToSet(actions)
    BY <1>2 DEF T
<1>4. c \in DOMAIN sock /\ c \in Conn
    BY <1>3 DEF Shape, ToSet
<1>5. todo[1][1] = c
    BY <1>2
<1> QED
    BY <1>1, <1>2, <1>3, <1>4, <1>5 DEF Called
-----------------------------------------------------------------------------
\* What holds of one connection.
LEMMA OfConnection ==
    ASSUME ConnInv, NEW c \in DOMAIN sock
    PROVE  /\ c \in Conn /\ sock[c] \in Sock /\ peer[c] \in Peer
           /\ Transport(c, sock[c], peer[c])
           /\ calls[c] = << >> => Waits(c, sock[c], peer[c])
BY DEF ConnInv, Shape, Each

\* A step of the network.
LEMMA NetworkKeeps ==
    ASSUME ConnInv, NEW c \in DOMAIN sock, NEW p \in Peer, loop \in {"idle", "round"},
           peer' = [peer EXCEPT ![c] = p],
           UNCHANGED <<loop, actions, todo, revents, fds_to_remove, sock, calls>>,
           Transport(c, sock[c], p), calls[c] = << >> => Waits(c, sock[c], p),
           peer[c].up = "broken" => p.up = "broken"
    PROVE  ConnInv'
<1>1. sock' = [sock EXCEPT ![c] = sock[c]] /\ sock[c] \in Sock
    BY OfConnection DEF ConnInv, Shape
<1> QED
    BY <1>1, Keeps

\* Nothing that the network does to a connection disturbs what holds.
LEMMA NetworkInv ==
    ASSUME ConnInv, NEW c \in ToSet(actions), loop \notin {"exited", "threw"}, Network(c)
    PROVE  ConnInv'
<1> DEFINE s == sock[c]
           p == peer[c]
           Up(u) == [p EXCEPT !.up = u]
           Fin == [p EXCEPT !.fin = TRUE]
<1>1. c \in DOMAIN sock /\ loop \in {"idle", "round"}
    BY DEF ConnInv, Shape, ToSet
<1>2. /\ c \in Conn /\ s \in Sock /\ p \in Peer
      /\ Transport(c, s, p)
      /\ calls[c] = << >> => Waits(c, s, p)
    BY <1>1, OfConnection
<1>3. Peer = [up : {"connecting", "up", "broken"}, fin : BOOLEAN,
              rx : { << >> } \cup { <<x>> : x \in Piece },
              tx : Nat, got : Nat, sent : Nat, hello : BOOLEAN]
    BY DEF Peer
<1>4. \A u \in {"up", "broken"} : /\ Up(u) \in Peer /\ Up(u).up = u
                                  /\ Transport(c, s, Up(u))
                                  /\ calls[c] = << >> => Waits(c, s, Up(u))
  <2> TAKE u \in {"up", "broken"}
  <2>1. /\ Up(u) \in Peer /\ Up(u).up = u /\ Up(u).rx = p.rx /\ Up(u).tx = p.tx
        /\ Up(u).got = p.got /\ Up(u).sent = p.sent /\ Up(u).hello = p.hello
      BY <1>2, <1>3
  <2> HIDE DEF Up
  <2> QED
      BY <1>2, <2>1 DEF Transport, Waits, Fed
<1>5. /\ Fin \in Peer /\ Fin.up = p.up /\ Transport(c, s, Fin)
      /\ calls[c] = << >> => Waits(c, s, Fin)
  <2>1. /\ Fin \in Peer /\ Fin.up = p.up /\ Fin.rx = p.rx /\ Fin.tx = p.tx
        /\ Fin.got = p.got /\ Fin.sent = p.sent /\ Fin.hello = p.hello
      BY <1>2, <1>3
  <2> HIDE DEF Fin
  <2> QED
      BY <1>2, <2>1 DEF Transport, Waits, Fed
<1>6. CASE Accept(c)
  <2>1. peer' = [peer EXCEPT ![c] = Up("up")] /\ p.up # "broken"
      BY <1>6 DEF Accept, SetPeer
  <2> HIDE DEF Up
  <2> QED
      BY <1>1, <1>4, <1>6, <2>1, NetworkKeeps DEF Accept, SetPeer, lists
<1>7. CASE PeerHello(c)
  <2> DEFINE q == [p EXCEPT !.hello = TRUE, !.rx = Append(p.rx, Hello)]
  <2>1. s.hello /\ ~ p.hello /\ peer' = [peer EXCEPT ![c] = q]
      BY <1>7 DEF PeerHello, SetPeer, Hello
  <2>2. c \in Tls /\ p.rx = << >> /\ ~ s.secure
      BY <1>2, <2>1 DEF Transport
  <2>3. Append(p.rx, Hello) = <<Hello>> /\ Hello \in Piece
      BY <2>2 DEF Piece
  <2>4. /\ q \in Peer /\ q.up = p.up /\ q.rx = <<Hello>> /\ q.tx = p.tx
        /\ q.got = p.got /\ q.sent = p.sent /\ q.hello
    <3>1. [p EXCEPT !.hello = TRUE] \in Peer
        BY <1>2, <1>3
    <3>2. <<Hello>> \in { << >> } \cup { <<x>> : x \in Piece }
        BY <2>3
    <3> QED
        BY <1>2, <1>3, <2>3, <3>2
  <2> HIDE DEF q
  <2>5. Transport(c, s, q)
      BY <1>2, <2>2, <2>4 DEF Transport
  <2>6. calls[c] = << >> => Waits(c, s, q)
    <3> SUFFICES ASSUME NEW n \in Upto(c), Fed(c, s, p, n) PROVE Fed(c, s, q, n)
        BY <1>2 DEF Waits
    <3>1. n = p.sent
        BY <2>2 DEF Fed
    <3> QED
        BY <2>2, <2>4, <3>1 DEF Fed
  <2> QED
      BY <1>1, <1>7, <2>1, <2>4, <2>5, <2>6, NetworkKeeps DEF PeerHello, SetPeer, lists
<1>8. CASE PeerReceives(c)
  <2> DEFINE q == [p EXCEPT !.tx = p.tx - 1, !.got = p.got + 1]
  <2>1. p.tx > 0 /\ peer' = [peer EXCEPT ![c] = q]
      BY <1>8 DEF PeerReceives, SetPeer
  <2>2. /\ q \in Peer /\ q.up = p.up /\ q.rx = p.rx /\ q.tx = p.tx - 1
        /\ q.got = p.got + 1 /\ q.sent = p.sent /\ q.hello = p.hello
    <3>1. p.tx \in Nat /\ p.got \in Nat
        BY <1>2, <1>3
    <3> DEFINE a == p.tx - 1
               b == p.got + 1
    <3>2. a \in Nat /\ b \in Nat
        BY <2>1, <3>1
    <3> HIDE DEF a, b
    <3>3. [p EXCEPT !.tx = a, !.got = b] \in Peer
        BY <1>2, <1>3, <3>2
    <3> QED
        BY <1>2, <1>3, <3>3 DEF a, b
  <2> HIDE DEF q
  <2>3. p.tx \in Nat /\ p.got \in Nat /\ s.left \in Nat /\ Cap \in Nat
      BY <1>2, <1>3, OfRequest DEF Sock
  <2>4. Transport(c, s, q)
    <3>1. Transport(c, s, p)
        BY <1>2
    <3>2. s.left + q.tx + q.got = Size[c] /\ q.tx <= Cap
      <4>1. s.left + p.tx + p.got = Size[c] /\ p.tx <= Cap
          BY <3>1 DEF Transport
      <4> QED
          BY ONLY <2>2, <2>3, <4>1
    <3> QED
        BY ONLY <2>2, <3>1, <3>2 DEF Transport
  <2>5. calls[c] = << >> => Waits(c, s, q)
      BY <1>2, <2>2 DEF Waits, Fed
  <2> QED
      BY <1>1, <1>8, <2>1, <2>2, <2>4, <2>5, NetworkKeeps DEF PeerReceives, SetPeer, lists
<1>9. CASE PeerAnswers(c)
  <2>1. PICK m \in Cuts[c] \cup {Len(Answer[c])} :
            /\ m > p.sent
            /\ SetPeer(c, [p EXCEPT !.rx = << SubSeq(Answer[c], p.sent + 1, m) >>, !.sent = m])
      BY <1>9 DEF PeerAnswers
  <2> DEFINE x == SubSeq(Answer[c], p.sent + 1, m)
             q == [p EXCEPT !.rx = <<x>>, !.sent = m]
  <2>2. p.rx = << >> /\ p.got = Size[c] /\ p.sent \in Nat
      BY <1>2, <1>3, <1>9 DEF PeerAnswers
  <2>3. m \in Upto(c) /\ m \in Nat /\ p.sent \in Upto(c)
      BY <1>2, <2>1, OfRequest DEF Upto, Transport
  <2>4. x \in Piece
      BY <1>2, <2>3, PieceType
  <2>5. peer' = [peer EXCEPT ![c] = q]
      BY <2>1 DEF SetPeer
  <2> HIDE DEF x
  <2>6. /\ q \in Peer /\ q.up = p.up /\ q.rx = <<x>> /\ q.tx = p.tx
        /\ q.got = p.got /\ q.sent = m /\ q.hello = p.hello
    <3>1. <<x>> \in { << >> } \cup { <<y>> : y \in Piece }
        BY <2>4
    <3> QED
        BY <1>2, <1>3, <2>3, <3>1
  <2> HIDE DEF q
  <2>7. c \in Tls => s.secure /\ p.hello
    <3>1. s.left \in Nat /\ p.tx \in Nat /\ Size[c] \in Nat \ {0}
        BY <1>2, <1>3, OfRequest DEF Sock
    <3> QED
        BY <1>2, <2>2, <3>1 DEF Transport
  <2>8. Transport(c, s, q)
      BY <1>2, <2>6, <2>7 DEF Transport
  <2>9. calls[c] = << >> => Waits(c, s, q)
    <3> SUFFICES ASSUME NEW n \in Upto(c), Fed(c, s, p, n) PROVE Fed(c, s, q, n)
        BY <1>2 DEF Waits
    <3>1. n = p.sent
        BY <2>2 DEF Fed
    <3> QED
        BY <2>1, <2>6, <2>7, <3>1 DEF Fed, x
  <2> QED
      BY <1>1, <2>1, <2>5, <2>6, <2>8, <2>9, NetworkKeeps DEF SetPeer, lists
<1>10. CASE PeerFinishes(c)
  <2>1. peer' = [peer EXCEPT ![c] = Fin]
      BY <1>10 DEF PeerFinishes, SetPeer
  <2> HIDE DEF Fin
  <2> QED
      BY <1>1, <1>5, <1>10, <2>1, NetworkKeeps DEF PeerFinishes, SetPeer, lists
<1>11. CASE Breaks(c)
  <2>1. peer' = [peer EXCEPT ![c] = Up("broken")] \/ peer' = [peer EXCEPT ![c] = Fin]
      BY <1>11 DEF Breaks
  <2> HIDE DEF Up, Fin
  <2> QED
      BY <1>1, <1>4, <1>5, <1>11, <2>1, NetworkKeeps DEF Breaks
<1> QED
    BY <1>6, <1>7, <1>8, <1>9, <1>10, <1>11 DEF Network
-----------------------------------------------------------------------------
\* Transport and Waits depend on little of our side.
LEMMA Restate ==
    ASSUME NEW c \in Tls, NEW s \in Sock, NEW p \in Peer, Transport(c, s, p), Waits(c, s, p),
           NEW t \in Sock, t.left = s.left, t.secure = s.secure, t.parser = s.parser,
           t.state \notin {"tcp", "needs_connect"}, t.state = "needs_ssl_write_to_write" => Size[c] > Cap
    PROVE  Transport(c, t, p) /\ Waits(c, t, p)
BY DEF Transport, Waits, Fed

\* What goes into the send buffer is missing from the request, and the buffer is
\* full when something is left.
LEMMA PushRight ==
    ASSUME NEW c \in Conn, NEW s \in Sock, NEW p \in Peer, Transport(c, s, p),
           c \in Tls => s.secure
    PROVE  LET w == Push(s, p)
           IN  /\ w.sock \in Sock /\ w.peer \in Peer /\ w.peer.up = p.up
               /\ Transport(c, w.sock, w.peer)
               /\ Waits(c, s, p) => Waits(c, w.sock, w.peer)
               /\ w.sock.parser = s.parser
               /\ w.result \in {"ok", "want_write"}
               /\ w.result = "want_write" => Size[c] > Cap
<1>1. /\ s.left \in Nat /\ p.tx \in Nat /\ p.got \in Nat /\ Size[c] \in Nat /\ Cap \in Nat
      /\ p.tx <= Cap /\ s.left + p.tx + p.got = Size[c]
    BY OfRequest DEF Sock, Peer, Transport
<1> DEFINE n == Min({s.left, Cap - p.tx})
           a == s.left - n
           b == p.tx + n
           t == [s EXCEPT !.left = a]
           q == [p EXCEPT !.tx = b]
<1>2. n \in {s.left, Cap - p.tx} /\ n <= s.left /\ n <= Cap - p.tx
    BY <1>1, MinOfTwo
<1> HIDE DEF n
<1>3. /\ a \in Nat /\ b \in Nat /\ b <= Cap /\ a + b + p.got = Size[c]
      /\ a # 0 => Size[c] > Cap
    BY <1>1, <1>2
<1> HIDE DEF a, b
<1>4. /\ t \in Sock /\ t.left = a /\ t.state = s.state /\ t.hello = s.hello
      /\ t.secure = s.secure /\ t.parser = s.parser
    BY <1>3 DEF Sock
<1>5. /\ q \in Peer /\ q.tx = b /\ q.up = p.up /\ q.rx = p.rx /\ q.got = p.got /\ q.sent = p.sent
      /\ q.hello = p.hello
    BY <1>3 DEF Peer
<1>6. Push(s, p) = SslResult(IF t.left = 0 THEN "ok" ELSE "want_write", t, q, << >>)
    BY DEF Push, n, a, b
<1> HIDE DEF t, q
<1>7. Transport(c, t, q)
    BY <1>3, <1>4, <1>5 DEF Transport
<1>8. Waits(c, s, p) => Waits(c, t, q)
    BY <1>4, <1>5 DEF Waits, Fed
<1> QED
    BY <1>3, <1>4, <1>5, <1>6, <1>7, <1>8 DEF SslResult

\* The handshake takes the peer's message and no other. A handshake that is cut off
\* belongs to a connection on which nothing was sent.
LEMMA HandshakeRight ==
    ASSUME NEW c \in Tls, c \in Conn, NEW s \in Sock, NEW p \in Peer, Transport(c, s, p),
           Waits(c, s, p), s.state # "needs_connect"
    PROVE  LET h == Handshake(s, p)
           IN  /\ h.sock \in Sock /\ h.peer \in Peer /\ h.peer.up = p.up
               /\ Transport(c, h.sock, h.peer) /\ Waits(c, h.sock, h.peer)
               /\ h.sock.parser = s.parser
               /\ h.result \in {"ok", "cut", "want_read"}
               /\ h.result = "ok" => h.sock.secure
               /\ h.result = "cut" => ~ s.secure /\ p.fin /\ p.sent = 0
<1>1. s.secure \in BOOLEAN /\ p.fin \in BOOLEAN /\ p.rx \in { << >> } \cup { <<x>> : x \in Piece }
    BY DEF Sock, Peer
<1>2. CASE s.secure
  <2>1. Handshake(s, p) = SslResult("ok", s, p, << >>)
      BY <1>2 DEF Handshake
  <2> QED
      BY <1>2, <2>1 DEF SslResult
<1>3. CASE ~ s.secure /\ p.rx # << >>
  <2> DEFINE t == [s EXCEPT !.secure = TRUE]
             q == [p EXCEPT !.rx = Tail(p.rx)]
  <2>1. Handshake(s, p) = SslResult("ok", t, q, << >>)
      BY <1>3 DEF Handshake
  <2>2. PICK n \in Upto(c) : Fed(c, s, p, n)
      BY DEF Waits
  <2>3. n = p.sent /\ p.rx = << Hello >> /\ p.hello
      BY <1>3, <2>2 DEF Fed, Transport
  <2>4. Tail(p.rx) = << >>
      BY <2>3
  <2>5. /\ t \in Sock /\ t.secure /\ t.left = s.left /\ t.state = s.state /\ t.hello = s.hello
        /\ t.parser = s.parser
      BY DEF Sock
  <2>6. /\ q \in Peer /\ q.rx = << >> /\ q.up = p.up /\ q.tx = p.tx /\ q.got = p.got
        /\ q.sent = p.sent /\ q.hello = p.hello
      BY <2>4 DEF Peer
  <2> HIDE DEF t, q
  <2>7. Transport(c, t, q)
      BY <2>3, <2>5, <2>6 DEF Transport
  <2>8. Fed(c, t, q, n)
      BY <2>2, <2>3, <2>5, <2>6 DEF Fed
  <2> QED
      BY <2>1, <2>5, <2>6, <2>7, <2>8 DEF SslResult, Waits
<1>4. CASE ~ s.secure /\ p.rx = << >> /\ p.fin
  <2>1. Handshake(s, p) = SslResult("cut", s, p, << >>)
      BY <1>4 DEF Handshake
  <2> QED
      BY <1>4, <2>1 DEF SslResult, Transport
<1>5. CASE ~ s.secure /\ p.rx = << >> /\ ~ p.fin
  <2>1. Handshake(s, p) = SslResult("want_read", s, p, << >>)
      BY <1>5 DEF Handshake
  <2> QED
      BY <1>5, <2>1 DEF SslResult
<1> QED
    BY <1>1, <1>2, <1>3, <1>4, <1>5

\* What SSL_write returns.
LEMMA WriteRight ==
    ASSUME NEW c \in Tls, c \in Conn, NEW s \in Sock, NEW p \in Peer, Transport(c, s, p),
           Waits(c, s, p), s.state # "needs_connect"
    PROVE  LET w == SSL_write(s, p)
           IN  /\ w.sock \in Sock /\ w.peer \in Peer /\ w.peer.up = p.up
               /\ Transport(c, w.sock, w.peer) /\ Waits(c, w.sock, w.peer)
               /\ w.result = "want_write" => Size[c] > Cap
               /\ w.result = "error" => p.up = "broken"
               /\ w.result = "cut" => ~ s.secure /\ p.fin /\ p.sent = 0
<1> DEFINE h == Handshake(s, p)
<1>1. /\ h.sock \in Sock /\ h.peer \in Peer /\ h.peer.up = p.up
      /\ Transport(c, h.sock, h.peer) /\ Waits(c, h.sock, h.peer)
      /\ h.result \in {"ok", "cut", "want_read"}
      /\ h.result = "ok" => h.sock.secure
      /\ h.result = "cut" => ~ s.secure /\ p.fin /\ p.sent = 0
    BY HandshakeRight
<1> HIDE DEF h
<1>2. CASE p.up = "broken"
  <2>1. SSL_write(s, p) = SslResult("error", s, p, << >>)
      BY <1>2 DEF SSL_write
  <2> QED
      BY <1>2, <2>1 DEF SslResult
<1>3. CASE p.up # "broken" /\ h.result # "ok"
  <2>1. SSL_write(s, p) = h
      BY <1>3 DEF SSL_write, h
  <2> QED
      BY <1>1, <1>3, <2>1
<1>4. CASE p.up # "broken" /\ h.result = "ok"
  <2>1. SSL_write(s, p) = Push(h.sock, h.peer)
      BY <1>4 DEF SSL_write, h
  <2> QED
      BY <1>1, <1>4, <2>1, PushRight
<1> QED
    BY <1>2, <1>3, <1>4

\* What SSL_read returns: data is the piece that waited.
LEMMA ReadRight ==
    ASSUME NEW c \in Tls, c \in Conn, NEW s \in Sock, NEW p \in Peer, Transport(c, s, p),
           Waits(c, s, p), s.state # "needs_connect"
    PROVE  LET r == SSL_read(s, p)
           IN  /\ r.sock \in Sock /\ r.peer \in Peer /\ r.peer.up = p.up
               /\ Transport(c, r.sock, r.peer)
               /\ r.result = "ok" =>
                     \E n \in Upto(c) :
                        /\ r.sock.parser \in Parsers[c][n] /\ r.sock.parser.complete = << >>
                        /\ n < r.peer.sent /\ r.peer.rx = << >> /\ r.sock.secure
                        /\ r.data = SubSeq(Answer[c], n + 1, r.peer.sent)
               /\ r.result # "ok" => Waits(c, r.sock, r.peer)
               /\ r.result = "error" => p.up = "broken"
               /\ r.result = "cut" => ~ s.secure /\ p.fin /\ p.sent = 0
<1> DEFINE h == Handshake(s, p)
<1>1. /\ h.sock \in Sock /\ h.peer \in Peer /\ h.peer.up = p.up
      /\ Transport(c, h.sock, h.peer) /\ Waits(c, h.sock, h.peer)
      /\ h.result \in {"ok", "cut", "want_read"}
      /\ h.result = "ok" => h.sock.secure
      /\ h.result = "cut" => ~ s.secure /\ p.fin /\ p.sent = 0
    BY HandshakeRight
<1> HIDE DEF h
<1>2. CASE p.up = "broken"
  <2>1. SSL_read(s, p) = SslResult("error", s, p, << >>)
      BY <1>2 DEF SSL_read
  <2> QED
      BY <1>2, <2>1 DEF SslResult
<1>3. CASE p.up # "broken" /\ h.result # "ok"
  <2>1. SSL_read(s, p) = h
      BY <1>3 DEF SSL_read, h
  <2> QED
      BY <1>1, <1>3, <2>1
<1>4. CASE p.up # "broken" /\ h.result = "ok" /\ h.peer.rx # << >>
  <2> DEFINE q == [h.peer EXCEPT !.rx = Tail(h.peer.rx)]
  <2>1. SSL_read(s, p) = SslResult("ok", h.sock, q, Head(h.peer.rx))
      BY <1>4 DEF SSL_read, h
  <2>2. PICK n \in Upto(c) : Fed(c, h.sock, h.peer, n)
      BY <1>1 DEF Waits
  <2>3. n < h.peer.sent /\ h.peer.rx = << SubSeq(Answer[c], n + 1, h.peer.sent) >>
      BY <1>1, <1>4, <2>2 DEF Fed
  <2>4. Tail(h.peer.rx) = << >> /\ Head(h.peer.rx) = SubSeq(Answer[c], n + 1, h.peer.sent)
    <3> DEFINE x == SubSeq(Answer[c], n + 1, h.peer.sent)
    <3>1. h.peer.rx = <<x>>
        BY <2>3
    <3> HIDE DEF x
    <3>2. Tail(<<x>>) = << >> /\ Head(<<x>>) = x
        OBVIOUS
    <3> QED
        BY <3>1, <3>2 DEF x
  <2>5. /\ q \in Peer /\ q.rx = << >> /\ q.up = h.peer.up /\ q.tx = h.peer.tx /\ q.got = h.peer.got
        /\ q.sent = h.peer.sent /\ q.hello = h.peer.hello
      BY <1>1, <2>4 DEF Peer
  <2> HIDE DEF q
  <2>6. Transport(c, h.sock, q)
      BY <1>1, <2>5 DEF Transport
  <2>7. h.sock.parser \in Parsers[c][n] /\ h.sock.parser.complete = << >>
      BY <2>2 DEF Fed
  <2> DEFINE r == SSL_read(s, p)
  <2>8. r.result = "ok" /\ r.sock = h.sock /\ r.peer = q /\ r.data = Head(h.peer.rx)
      BY <2>1 DEF SslResult
  <2> HIDE DEF r
  <2>9. /\ n \in Upto(c) /\ r.sock.parser \in Parsers[c][n] /\ r.sock.parser.complete = << >>
        /\ n < r.peer.sent /\ r.peer.rx = << >> /\ r.sock.secure
        /\ r.data = SubSeq(Answer[c], n + 1, r.peer.sent)
      BY <1>1, <1>4, <2>3, <2>4, <2>5, <2>7, <2>8
  <2>10. /\ r.sock \in Sock /\ r.peer \in Peer /\ r.peer.up = p.up
         /\ Transport(c, r.sock, r.peer)
      BY <1>1, <2>5, <2>6, <2>8
  <2> QED
      BY <2>8, <2>9, <2>10 DEF r
<1>5. CASE p.up # "broken" /\ h.result = "ok" /\ h.peer.rx = << >>
  <2>0. h.peer.fin \in BOOLEAN
      BY <1>1 DEF Peer
  <2>1. \/ SSL_read(s, p) = SslResult("eof", h.sock, h.peer, << >>)
        \/ SSL_read(s, p) = SslResult("want_read", h.sock, h.peer, << >>)
      BY <1>5, <2>0 DEF SSL_read, h
  <2> QED
      BY <1>1, <1>5, <2>1 DEF SslResult
<1> QED
    BY <1>2, <1>3, <1>4, <1>5
-----------------------------------------------------------------------------
\* A callback that goes on with the connection.
LEMMA GoesOn ==
    ASSUME ConnInv, NEW c, NEW dir \in {"out", "in"}, Servicing(c, dir), ~ revents[c].err,
           NEW s \in Sock, NEW p \in Peer, p.up = peer[c].up, Goes(c, s, p),
           Transport(c, s, p), Waits(c, s, p)
    PROVE  ConnInv'
<1>1. c \in DOMAIN sock /\ todo # << >> /\ calls[c] = << >>
    BY NotYetCalled
<1>2. loop = "round"
    BY DEF Servicing
<1> QED
    BY <1>1, <1>2, Keeps DEF Goes

\* The caller is handed a complete response.
LEMMA Responds ==
    ASSUME ConnInv, NEW c, Servicing(c, "in"), ~ revents[c].err,
           NEW s \in Sock, NEW p \in Peer, p.up = peer[c].up, Transport(c, s, p),
           s.parser.complete = << Expected[c] >>,
           calls' = [calls EXCEPT ![c] = Append(@, "response")],
           sock' = [sock EXCEPT ![c] = s], peer' = [peer EXCEPT ![c] = p],
           fds_to_remove' = fds_to_remove \cup {c}, todo' = Tail(todo),
           UNCHANGED <<loop, actions, revents>>
    PROVE  ConnInv'
<1> USE DEF ConnInv
<1>1. /\ c \in DOMAIN sock /\ c \in Conn /\ todo # << >> /\ calls[c] = << >>
      /\ todo[1] = <<c, "in">> /\ loop = "round"
    BY NotYetCalled DEF Servicing
<1>2. /\ calls' \in [Conn -> { << >>, << "response" >>, << "failure" >> }]
      /\ calls'[c] = << "response" >> /\ \A d \in Conn : d # c => calls'[d] = calls[d]
  <2>1. Append(calls[c], "response") = << "response" >>
      BY <1>1
  <2> QED
      BY <1>1, <2>1 DEF Shape
<1>3. /\ DOMAIN sock' = DOMAIN sock /\ DOMAIN peer' = DOMAIN sock
      /\ sock' \in [DOMAIN sock' -> Sock] /\ peer' \in [DOMAIN sock' -> Peer]
      /\ sock'[c] = s /\ peer'[c] = p
      /\ \A d \in DOMAIN sock : d # c => sock'[d] = sock[d] /\ peer'[d] = peer[d]
    BY <1>1 DEF Shape
<1>4. /\ todo' \in Seq(ToSet(actions') \X {"out", "in"})
      /\ \A j \in DOMAIN todo' : j + 1 \in DOMAIN todo /\ todo'[j] = todo[j + 1]
      /\ \A i, j \in DOMAIN todo' : i < j /\ todo'[i][2] = "in" => todo'[j][1] # todo'[i][1]
      /\ \A j \in DOMAIN todo' : todo'[j][1] # c
  <2>1. todo[1][2] = "in" /\ todo[1][1] = c
      BY <1>1
  <2> QED
      BY <1>1, <2>1, TodoTail
<1>5. Shape'
    BY <1>2, <1>3, <1>4 DEF Shape
<1>6. Round'
  <2>1. \A d \in ToSet(actions) : d \in DOMAIN sock
      BY DEF Shape, ToSet
  <2>2. \A d \in DOMAIN sock : peer'[d].up = peer[d].up
      BY <1>1, <1>3
  <2> QED
      BY <1>1, <1>4, <2>1, <2>2 DEF Round
<1>7. Each'
  <2>1. DOMAIN sock \subseteq Conn
      BY DEF Shape
  <2> QED
      BY <1>1, <1>2, <1>3, <2>1 DEF Each
<1>8. Called(c)'
    BY <1>1, <1>2, <1>3, <1>4 DEF Called
<1>9. \A d \in Conn : d # c => Called(d)'
  <2> TAKE d \in Conn
  <2> SUFFICES ASSUME d # c PROVE Called(d)'
      OBVIOUS
  <2>1. Called(d) /\ calls'[d] = calls[d]
      BY <1>2
  <2>2. calls[d] # << >> => d \in DOMAIN sock
      BY <2>1 DEF Called
  <2>3. calls[d] # << >> => sock'[d] = sock[d] /\ peer'[d] = peer[d] /\ d \in DOMAIN sock'
      BY <1>3, <2>2
  <2>4. calls[d] # << >> => \A i \in DOMAIN todo' : todo'[i][1] = d => revents'[d].err
      BY <1>4, <2>1 DEF Called
  <2>5. calls'[d] # << >> => (d \in ToSet(actions') => d \in fds_to_remove')
      BY <2>1 DEF Called
  <2> QED
      BY <2>1, <2>3, <2>4, <2>5 DEF Called
<1>10. ThrowsOnlyWhen'
    BY <1>1 DEF ThrowsOnlyWhen
<1> QED
    BY <1>5, <1>6, <1>7, <1>8, <1>9, <1>10

\* The parser is given the piece that waited.
LEMMA DataInv ==
    ASSUME ConnInv, NEW c, Servicing(c, "in"), ~ revents[c].err,
           NEW s \in Sock, NEW p \in Peer, p.up = peer[c].up, Transport(c, s, p),
           NEW n \in Upto(c), s.parser \in Parsers[c][n], s.parser.complete = << >>,
           n < p.sent, p.rx = << >>, c \in Tls => s.secure,
           NEW data, data = SubSeq(Answer[c], n + 1, p.sent), Data(c, s, p, data)
    PROVE  ConnInv'
<1>1. c \in DOMAIN sock /\ c \in Conn
    BY NotYetCalled
<1> DEFINE q == parse(s.parser, data)
           t == [s EXCEPT !.parser = q]
<1>2. p.sent \in Cuts[c] \cup {Len(Answer[c])} /\ p.sent \in Upto(c) /\ p.sent > n
  <2>1. p.sent # 0
      BY <1>1, OfRequest DEF Upto
  <2>2. p.sent \in Cuts[c] \cup {Len(Answer[c])}
      BY <2>1 DEF Transport
  <2>3. p.sent \in Upto(c)
      BY <1>1, <2>2, OfRequest
  <2> QED
      BY <1>1, <2>2, <2>3, OfRequest DEF Upto
<1>3. /\ q \in Parsers[c][p.sent] /\ ~ q.threw
      /\ q.complete = << >> \/ q.complete = << Expected[c] >>
    BY <1>1, <1>2, ParsesRight
<1> HIDE DEF q
<1>4. /\ t \in Sock /\ t.parser = q /\ t.left = s.left /\ t.state = s.state /\ t.hello = s.hello
      /\ t.secure = s.secure
  <2>1. q \in UNION { UNION { Parsers[d][m] : m \in Upto(d) } : d \in Conn }
      BY <1>1, <1>2, <1>3, ParserType
  <2> QED
      BY <2>1 DEF Sock
<1>5. \/ q.complete = << >> /\ Goes(c, t, p)
      \/ /\ q.complete # << >>
         /\ calls' = [calls EXCEPT ![c] = Append(@, "response")]
         /\ sock' = [sock EXCEPT ![c] = t] /\ peer' = [peer EXCEPT ![c] = p]
         /\ fds_to_remove' = fds_to_remove \cup {c} /\ todo' = Tail(todo)
         /\ UNCHANGED <<loop, actions, revents>>
    BY <1>3 DEF Data, q
<1> HIDE DEF t
<1>6. Transport(c, t, p)
    BY <1>4 DEF Transport
<1>7. CASE q.complete = << >> /\ Goes(c, t, p)
  <2>1. Fed(c, t, p, p.sent)
      BY <1>3, <1>4, <1>7 DEF Fed
  <2>2. Waits(c, t, p)
      BY <1>2, <2>1 DEF Waits
  <2> QED
      BY <1>4, <1>6, <1>7, <2>2, GoesOn
<1>8. CASE q.complete # << >>
  <2>1. t.parser.complete = << Expected[c] >>
      BY <1>3, <1>4, <1>8
  <2> QED
      BY <1>4, <1>5, <1>6, <1>8, <2>1, Responds
<1> QED
    BY <1>5, <1>7, <1>8
-----------------------------------------------------------------------------
\* A callback that changes neither side of the connection.
LEMMA PassesBy ==
    ASSUME ConnInv, NEW c, NEW dir \in {"out", "in"}, Servicing(c, dir),
           todo' = Tail(todo), fds_to_remove \subseteq fds_to_remove',
           UNCHANGED <<loop, actions, revents, sock, peer, calls>>
    PROVE  ConnInv'
<1>1. c \in DOMAIN sock /\ todo # << >> /\ loop = "round"
    BY NotYetCalled DEF Servicing
<1>2. /\ sock[c] \in Sock /\ peer[c] \in Peer /\ Transport(c, sock[c], peer[c])
      /\ calls[c] = << >> => Waits(c, sock[c], peer[c])
    BY <1>1, OfConnection
<1>3. sock' = [sock EXCEPT ![c] = sock[c]] /\ peer' = [peer EXCEPT ![c] = peer[c]]
    BY <1>1 DEF ConnInv, Shape
<1> QED
    BY <1>1, <1>2, <1>3, Keeps

\* An error is reported once to the caller, and the connection is broken.
LEMMA ServiceErrorInv ==
    ASSUME ConnInv, NEW c, NEW dir \in {"out", "in"}, ServiceError(c, dir)
    PROVE  ConnInv'
<1> USE DEF ConnInv
<1>1. Servicing(c, dir) /\ revents[c].err
    BY DEF ServiceError
<1>2. /\ c \in DOMAIN sock /\ c \in Conn /\ c \in ToSet(actions) /\ todo # << >>
      /\ todo[1] = <<c, dir>> /\ loop = "round"
    BY <1>1, NotYetCalled DEF Servicing
<1>3. CASE c \in fds_to_remove
    BY <1>1, <1>3, PassesBy DEF ServiceError
<1>4. CASE c \notin fds_to_remove
  <2>1. calls[c] = << >>
      BY <1>2, <1>4 DEF Called
  <2>2. peer[c].up = "broken"
      BY <1>1, <1>2 DEF Round
  <2>3. /\ calls' \in [Conn -> { << >>, << "response" >>, << "failure" >> }]
        /\ calls'[c] = << "failure" >> /\ \A d \in Conn : d # c => calls'[d] = calls[d]
    <3>1. Append(calls[c], "failure") = << "failure" >>
        BY <2>1
    <3> QED
        BY <1>2, <1>4, <3>1 DEF ServiceError, Shape
  <2>4. /\ todo' \in Seq(ToSet(actions') \X {"out", "in"})
        /\ \A j \in DOMAIN todo' : j + 1 \in DOMAIN todo /\ todo'[j] = todo[j + 1]
        /\ \A i, j \in DOMAIN todo' : i < j /\ todo'[i][2] = "in" => todo'[j][1] # todo'[i][1]
      BY <1>2, TodoTail DEF ServiceError
  <2>5. Shape'
      BY <2>3, <2>4 DEF ServiceError, Shape
  <2>6. Round'
      BY <1>2, <2>4 DEF ServiceError, Round
  <2>7. Each'
    <3>1. DOMAIN sock \subseteq Conn
        BY DEF Shape
    <3> QED
        BY <2>3, <3>1 DEF ServiceError, Each
  <2>8. Called(c)'
      BY <1>1, <1>2, <2>2, <2>3 DEF ServiceError, Called
  <2>9. \A d \in Conn : d # c => Called(d)'
    <3> TAKE d \in Conn
    <3> SUFFICES ASSUME d # c PROVE Called(d)'
        OBVIOUS
    <3>1. Called(d) /\ calls'[d] = calls[d]
        BY <2>3
    <3> QED
        BY <2>4, <3>1 DEF ServiceError, Called
  <2>10. ThrowsOnlyWhen'
      BY <1>2 DEF ServiceError, ThrowsOnlyWhen
  <2> QED
      BY <2>5, <2>6, <2>7, <2>8, <2>9, <2>10
<1> QED
    BY <1>3, <1>4

\* The callbacks of a TCP socket.
LEMMA TcpInv ==
    ASSUME ConnInv, NEW c, TcpOut(c) \/ TcpIn(c)
    PROVE  ConnInv'
<1> DEFINE s == sock[c]
           p == peer[c]
<1>1. CASE TcpOut(c)
  <2>1. c \notin Tls /\ Servicing(c, "out") /\ ~ revents[c].err
      BY <1>1 DEF TcpOut, OutSeen
  <2>2. /\ c \in DOMAIN sock /\ c \in Conn /\ calls[c] = << >>
        /\ s \in Sock /\ p \in Peer /\ Transport(c, s, p) /\ Waits(c, s, p)
      BY <2>1, NotYetCalled, OfConnection
  <2> DEFINE w == Push(s, p)
  <2>3. /\ w.sock \in Sock /\ w.peer \in Peer /\ w.peer.up = p.up
        /\ Transport(c, w.sock, w.peer) /\ Waits(c, w.sock, w.peer)
      BY <2>1, <2>2, PushRight
  <2>4. Goes(c, w.sock, w.peer) \/ (p.up = "broken" /\ Throw)
      BY <1>1 DEF TcpOut
  <2> HIDE DEF w
  <2> QED
      BY <2>1, <2>3, <2>4, GoesOn, Throws
<1>2. CASE TcpIn(c)
  <2>1. c \notin Tls /\ Servicing(c, "in") /\ ~ revents[c].err
      BY <1>2 DEF TcpIn, InSeen
  <2>2. /\ c \in DOMAIN sock /\ c \in Conn /\ calls[c] = << >>
        /\ s \in Sock /\ p \in Peer /\ Transport(c, s, p) /\ Waits(c, s, p)
      BY <2>1, NotYetCalled, OfConnection
  <2>3. CASE p.rx # << >> /\ Data(c, s, [p EXCEPT !.rx = << >>], FlattenSeq(p.rx))
    <3> DEFINE q == [p EXCEPT !.rx = << >>]
    <3>1. PICK n \in Upto(c) : Fed(c, s, p, n)
        BY <2>2 DEF Waits
    <3>2. n < p.sent /\ p.rx = << SubSeq(Answer[c], n + 1, p.sent) >>
        BY <2>1, <2>3, <3>1 DEF Fed
    <3>3. FlattenSeq(p.rx) = SubSeq(Answer[c], n + 1, p.sent)
        BY <3>2, FlattenOne
    <3>4. /\ q \in Peer /\ q.rx = << >> /\ q.up = p.up /\ q.tx = p.tx /\ q.got = p.got
          /\ q.sent = p.sent /\ q.hello = p.hello
        BY <2>2 DEF Peer
    <3>5. Data(c, s, q, FlattenSeq(p.rx))
        BY <2>3
    <3> HIDE DEF q
    <3>6. Transport(c, s, q)
        BY <2>1, <2>2, <3>4 DEF Transport
    <3>7. s.parser \in Parsers[c][n] /\ s.parser.complete = << >>
        BY <3>1 DEF Fed
    <3> QED
        BY <2>1, <2>2, <3>2, <3>3, <3>4, <3>5, <3>6, <3>7, DataInv
  <2>4. CASE /\ fds_to_remove' = fds_to_remove \cup {c} /\ todo' = Tail(todo)
             /\ UNCHANGED <<loop, actions, revents, sock, peer, calls>>
      BY <2>1, <2>4, PassesBy
  <2>5. CASE p.up = "broken" /\ Throw
      BY <2>1, <2>5, Throws
  <2> QED
      BY <1>2, <2>3, <2>4, <2>5 DEF TcpIn
<1> QED
    BY <1>1, <1>2

\* A handshake is only cut off when the peer closes early.
LEMMA CutIsEarly ==
    ASSUME ConnInv, NEW c \in DOMAIN sock, peer[c].fin, peer[c].sent = 0
    PROVE  ClosedEarly(c)
<1>1. c \in Conn /\ c \in DOMAIN peer
    BY DEF ConnInv, Shape
<1> QED
    BY <1>1, OfRequest DEF ClosedEarly

\* The socket in another state, and whatever else does not matter.
Like(t, s, st) ==
    t \in Sock /\ t.left = s.left /\ t.secure = s.secure /\ t.parser = s.parser /\ t.state = st

LEMMA Stated ==
    ASSUME NEW s \in Sock, NEW st \in States
    PROVE  /\ Like([s EXCEPT !.state = st], s, st)
           /\ \A b \in BOOLEAN : Like([s EXCEPT !.writing = b, !.state = st], s, st)
           /\ \A b \in BOOLEAN : Like([s EXCEPT !.state = st, !.hello = b], s, st)
           /\ \A b \in BOOLEAN : Like([[s EXCEPT !.state = st] EXCEPT !.eof = b], s, st)
BY DEF Sock, Like

\* A callback of a TLS socket that goes on with the handshake or the request.
LEMMA TlsWriteInv ==
    ASSUME ConnInv, NEW c \in Tls, NEW dir \in {"out", "in"}, Servicing(c, dir),
           ~ revents[c].err,
           IF sock[c].state = "needs_connect" THEN ContinueConnect(c) ELSE ContinueWrite(c)
    PROVE  ConnInv'
<1> DEFINE s == sock[c]
           p == peer[c]
<1>1. /\ c \in DOMAIN sock /\ c \in Conn
      /\ s \in Sock /\ p \in Peer /\ Transport(c, s, p) /\ Waits(c, s, p)
    BY NotYetCalled, OfConnection
<1>2. CASE sock[c].state = "needs_connect" /\ ContinueConnect(c)
  <2> DEFINE t == [s EXCEPT !.state = "ready", !.hello = TRUE]
  <2>1. Like(t, s, "ready")
    <3>1. "ready" \in States
        BY DEF States
    <3> QED
        BY <1>1, <3>1, Stated, Zenon
  <2>2. Goes(c, t, p) \/ ((p.up = "broken" \/ p.fin) /\ Throw)
      BY <1>2 DEF ContinueConnect
  <2> HIDE DEF t
  <2>3. Transport(c, t, p) /\ Waits(c, t, p)
      BY <1>1, <2>1, Restate DEF Like
  <2>4. p.fin => ~ s.secure /\ ClosedEarly(c)
    <3>1. ~ s.secure /\ p.sent = 0
        BY <1>1, <1>2 DEF Transport, Sock
    <3> QED
        BY <1>1, <3>1, CutIsEarly
  <2>5. CASE Goes(c, t, p)
      BY <1>1, <2>1, <2>3, <2>5, GoesOn DEF Like
  <2>6. CASE (p.up = "broken" \/ p.fin) /\ Throw
      BY <1>1, <2>4, <2>6, Throws
  <2> QED
      BY <2>2, <2>5, <2>6
<1>3. CASE sock[c].state # "needs_connect" /\ ContinueWrite(c)
  <2> DEFINE w == SSL_write(s, p)
             State(st) == [w.sock EXCEPT !.writing = TRUE, !.state = st]
             Written == [w.sock EXCEPT !.writing = FALSE, !.state = "ready"]
  <2>1. /\ w.sock \in Sock /\ w.peer \in Peer /\ w.peer.up = p.up
        /\ Transport(c, w.sock, w.peer) /\ Waits(c, w.sock, w.peer)
        /\ w.result = "want_write" => Size[c] > Cap
        /\ w.result = "error" => p.up = "broken"
        /\ w.result = "cut" => ~ s.secure /\ p.fin /\ p.sent = 0
      BY <1>1, <1>3, WriteRight
  <2>2. [State("ready") EXCEPT !.writing = FALSE] = Written
      BY <2>1 DEF Sock
  <2>3. \/ w.result = "ok" /\ Goes(c, Written, w.peer)
        \/ w.result = "want_read" /\ Goes(c, State("needs_ssl_read_to_write"), w.peer)
        \/ w.result = "want_write" /\ Goes(c, State("needs_ssl_write_to_write"), w.peer)
        \/ w.result \in {"error", "cut"} /\ Throw
      BY <1>3, <2>2 DEF ContinueWrite
  <2>4. /\ \A st \in States : Like(State(st), w.sock, st)
        /\ Like(Written, w.sock, "ready")
    <3>1. "ready" \in States
        BY DEF States
    <3> HIDE DEF w
    <3> QED
        BY <2>1, <3>1, Stated, Zenon
  <2> HIDE DEF w, State, Written
  <2>6. CASE w.result = "ok" /\ Goes(c, Written, w.peer)
    <3>1. Transport(c, Written, w.peer) /\ Waits(c, Written, w.peer)
        BY <2>1, <2>4, Restate DEF Like
    <3> QED
        BY <2>1, <2>4, <2>6, <3>1, GoesOn DEF Like
  <2>7. CASE w.result = "want_read" /\ Goes(c, State("needs_ssl_read_to_write"), w.peer)
    <3> DEFINE t == State("needs_ssl_read_to_write")
    <3>0. /\ t \in Sock /\ t.left = w.sock.left /\ t.state = "needs_ssl_read_to_write"
          /\ t.secure = w.sock.secure /\ t.parser = w.sock.parser /\ Goes(c, t, w.peer)
        BY <2>4, <2>7 DEF States, Like
    <3> HIDE DEF t
    <3>1. Transport(c, t, w.peer) /\ Waits(c, t, w.peer)
        BY <2>1, <3>0, Restate
    <3> QED
        BY <2>1, <3>0, <3>1, GoesOn
  <2>8. CASE w.result = "want_write" /\ Goes(c, State("needs_ssl_write_to_write"), w.peer)
    <3> DEFINE t == State("needs_ssl_write_to_write")
    <3>0. /\ t \in Sock /\ t.left = w.sock.left /\ t.state = "needs_ssl_write_to_write"
          /\ t.secure = w.sock.secure /\ t.parser = w.sock.parser /\ Goes(c, t, w.peer)
        BY <2>4, <2>8 DEF States, Like
    <3> HIDE DEF t
    <3>1. Transport(c, t, w.peer) /\ Waits(c, t, w.peer)
        BY <2>1, <2>8, <3>0, Restate
    <3> QED
        BY <2>1, <3>0, <3>1, GoesOn
  <2>9. CASE w.result \in {"error", "cut"} /\ Throw
      BY <1>1, <2>1, <2>9, CutIsEarly, Throws
  <2> QED
      BY <2>3, <2>6, <2>7, <2>8, <2>9
<1> QED
    BY <1>2, <1>3

\* A callback of a TLS socket that reads.
LEMMA TlsReadInv ==
    ASSUME ConnInv, NEW c \in Tls, Servicing(c, "in"), ~ revents[c].err, ContinueRead(c),
           sock[c].state # "needs_connect"
    PROVE  ConnInv'
<1> DEFINE s == sock[c]
           p == peer[c]
           r == SSL_read(s, p)
           State(st) == [r.sock EXCEPT !.state = st]
           Over == [State("ready") EXCEPT !.eof = TRUE]
<1>1. /\ c \in DOMAIN sock /\ c \in Conn
      /\ s \in Sock /\ p \in Peer /\ Transport(c, s, p) /\ Waits(c, s, p)
    BY NotYetCalled, OfConnection
<1>2. /\ r.sock \in Sock /\ r.peer \in Peer /\ r.peer.up = p.up
      /\ Transport(c, r.sock, r.peer)
      /\ r.result = "ok" =>
            \E n \in Upto(c) :
               /\ r.sock.parser \in Parsers[c][n] /\ r.sock.parser.complete = << >>
               /\ n < r.peer.sent /\ r.peer.rx = << >> /\ r.sock.secure
               /\ r.data = SubSeq(Answer[c], n + 1, r.peer.sent)
      /\ r.result # "ok" => Waits(c, r.sock, r.peer)
      /\ r.result = "error" => p.up = "broken"
      /\ r.result = "cut" => ~ s.secure /\ p.fin /\ p.sent = 0
    BY <1>1, ReadRight
<1>3. \/ r.result = "ok" /\ Data(c, State("ready"), r.peer, r.data)
      \/ r.result \in {"eof", "cut"} /\ Goes(c, Over, r.peer)
      \/ r.result = "want_read" /\ Goes(c, State("needs_ssl_read_to_read"), r.peer)
      \/ r.result \in {"error", "cut"} /\ Throw
    BY DEF ContinueRead
<1>4. /\ \A st \in States : Like(State(st), r.sock, st)
      /\ Like(Over, r.sock, "ready")
  <2>1. "ready" \in States
      BY DEF States
  <2> HIDE DEF r
  <2> QED
      BY <1>2, <2>1, Stated, Zenon
<1> HIDE DEF r, State, Over
<1>6. CASE r.result = "ok" /\ Data(c, State("ready"), r.peer, r.data)
  <2> DEFINE t == State("ready")
  <2>1. /\ t \in Sock /\ t.left = r.sock.left /\ t.state = "ready"
        /\ t.secure = r.sock.secure /\ t.parser = r.sock.parser /\ Data(c, t, r.peer, r.data)
      BY <1>4, <1>6 DEF States, Like
  <2> HIDE DEF t
  <2>2. Transport(c, t, r.peer)
      BY <1>2, <2>1 DEF Transport
  <2>3. PICK n \in Upto(c) :
               /\ r.sock.parser \in Parsers[c][n] /\ r.sock.parser.complete = << >>
               /\ n < r.peer.sent /\ r.peer.rx = << >> /\ r.sock.secure
               /\ r.data = SubSeq(Answer[c], n + 1, r.peer.sent)
      BY <1>2, <1>6
  <2>4. t.parser \in Parsers[c][n] /\ t.parser.complete = << >> /\ t.secure
      BY <2>1, <2>3
  <2> QED
      BY <1>2, <2>1, <2>2, <2>3, <2>4, DataInv
<1>7. CASE r.result \in {"eof", "cut"} /\ Goes(c, Over, r.peer)
  <2>1. Waits(c, r.sock, r.peer)
      BY <1>2, <1>7
  <2>2. Transport(c, Over, r.peer) /\ Waits(c, Over, r.peer)
      BY <1>2, <1>4, <2>1, Restate DEF Like
  <2> QED
      BY <1>2, <1>4, <1>7, <2>2, GoesOn DEF Like
<1>8. CASE r.result = "want_read" /\ Goes(c, State("needs_ssl_read_to_read"), r.peer)
  <2> DEFINE t == State("needs_ssl_read_to_read")
  <2>1. /\ t \in Sock /\ t.left = r.sock.left /\ t.state = "needs_ssl_read_to_read"
        /\ t.secure = r.sock.secure /\ t.parser = r.sock.parser /\ Goes(c, t, r.peer)
      BY <1>4, <1>8 DEF States, Like
  <2> HIDE DEF t
  <2>2. Waits(c, r.sock, r.peer)
      BY <1>2, <1>8
  <2>3. Transport(c, t, r.peer) /\ Waits(c, t, r.peer)
      BY <1>2, <2>1, <2>2, Restate
  <2> QED
      BY <1>2, <2>1, <2>3, GoesOn
<1>9. CASE r.result \in {"error", "cut"} /\ Throw
    BY <1>1, <1>2, <1>9, CutIsEarly, Throws
<1> QED
    BY <1>3, <1>6, <1>7, <1>8, <1>9

\* The callbacks of a TLS socket.
LEMMA TlsInv ==
    ASSUME ConnInv, NEW c, TlsOut(c) \/ TlsIn(c)
    PROVE  ConnInv'
<1>1. CASE TlsOut(c)
    BY <1>1, TlsWriteInv DEF TlsOut, OutSeen
<1>2. CASE TlsIn(c)
  <2>1. c \in Tls /\ Servicing(c, "in") /\ ~ revents[c].err
      BY <1>2 DEF TlsIn, InSeen
  <2>2. CASE sock[c].state = "needs_ssl_write_to_write" /\ Throw
    <3>1. Transport(c, sock[c], peer[c])
        BY <2>1, NotYetCalled, OfConnection
    <3>2. Size[c] > Cap
        BY <2>2, <3>1 DEF Transport
    <3> QED
        BY <2>1, <2>2, <3>2, Throws
  <2> QED
      BY <1>2, <2>1, <2>2, TlsWriteInv, TlsReadInv DEF TlsIn
<1> QED
    BY <1>1, <1>2
-----------------------------------------------------------------------------
\* A list without repetitions keeps none when something new is appended.
LEMMA AppendNew ==
    ASSUME NEW S, NEW s \in Seq(S), NEW x, x \notin S,
           \A i, j \in DOMAIN s : s[i] = s[j] => i = j,
           NEW t, t = Append(s, x)
    PROVE  /\ t \in Seq(S \cup {x})
           /\ \A y \in ToSet(t) : y = x \/ y \in ToSet(s)
           /\ \A i, j \in DOMAIN t : t[i] = t[j] => i = j
<1>1. s \in Seq(S \cup {x})
    OBVIOUS
<1>2. /\ t \in Seq(S \cup {x}) /\ DOMAIN t = 1 .. Len(s) + 1 /\ DOMAIN s = 1 .. Len(s) /\ Len(s) \in Nat
      /\ \A i \in 1 .. Len(s) : t[i] = s[i] /\ s[i] \in S
      /\ t[Len(s) + 1] = x
    BY <1>1
<1>3. \A y \in ToSet(t) : y = x \/ y \in ToSet(s)
    BY <1>2 DEF ToSet
<1>4. \A i, j \in DOMAIN t : t[i] = t[j] => i = j
    BY <1>2
<1> QED
    BY <1>2, <1>3, <1>4

LEMMA MakeRequestInv ==
    ASSUME ConnInv, NEW c \in Conn, MakeRequest(c)
    PROVE  ConnInv'
<1> USE DEF ConnInv
<1> DEFINE s == NewSocket(c)
           p == NewPeer
<1>1. loop = "idle" /\ c \notin DOMAIN sock /\ todo = << >> /\ fds_to_remove = {}
    BY DEF MakeRequest, Round
<1>2. calls[c] = << >>
    BY <1>1 DEF Called
<1>3. 0 \in Upto(c) /\ Size[c] \in Nat \ {0} /\ Cap \in Nat
    BY OfRequest DEF Upto
<1>4. /\ new_request_arrived(NewParser) \in Parsers[c][0]
      /\ new_request_arrived(NewParser).complete = << >>
    BY ParsersAssumption DEF NewParser, new_request_arrived
<1>5. s \in Sock /\ p \in Peer
  <2>1. new_request_arrived(NewParser)
            \in UNION { UNION { Parsers[d][m] : m \in Upto(d) } : d \in Conn }
      BY <1>3, <1>4, ParserType
  <2> QED
      BY <1>3, <2>1 DEF NewSocket, NewPeer, Sock, Peer, States
<1>6. Transport(c, s, p)
    BY <1>3 DEF Transport, NewSocket, NewPeer
<1>7. Waits(c, s, p)
  <2>1. Fed(c, s, p, 0)
      BY <1>4 DEF Fed, NewSocket, NewPeer
  <2> QED
      BY <1>3, <2>1 DEF Waits
<1>8. /\ sock' = [x \in DOMAIN sock \cup {c} |-> IF x = c THEN s ELSE sock[x]]
      /\ peer' = [x \in DOMAIN sock \cup {c} |-> IF x = c THEN p ELSE peer[x]]
    BY DEF MakeRequest
<1> HIDE DEF s, p
<1>9. /\ DOMAIN sock' = DOMAIN sock \cup {c}
      /\ sock'[c] = s /\ peer'[c] = p
      /\ \A d \in DOMAIN sock : d # c /\ sock'[d] = sock[d] /\ peer'[d] = peer[d]
      /\ sock' \in [DOMAIN sock' -> Sock] /\ peer' \in [DOMAIN sock' -> Peer]
    BY <1>1, <1>5, <1>8 DEF Shape
<1>10. /\ actions' \in Seq(DOMAIN sock')
       /\ \A d \in ToSet(actions') : d = c \/ d \in ToSet(actions)
       /\ \A i, j \in DOMAIN actions' : actions'[i] = actions'[j] => i = j
  <2>1. actions \in Seq(DOMAIN sock) /\ c \notin DOMAIN sock /\ actions' = Append(actions, c)
      BY <1>1 DEF Shape, MakeRequest
  <2>2. \A i, j \in DOMAIN actions : actions[i] = actions[j] => i = j
      BY DEF Shape
  <2>3. actions \in Seq(DOMAIN sock) /\ c \notin DOMAIN sock
      BY <2>1
  <2>4. \A t : t = Append(actions, c) =>
           /\ t \in Seq(DOMAIN sock \cup {c})
           /\ \A d \in ToSet(t) : d = c \/ d \in ToSet(actions)
           /\ \A i, j \in DOMAIN t : t[i] = t[j] => i = j
    <3>1. PICK S, seq : S = DOMAIN sock /\ seq = actions
        OBVIOUS
    <3>2. seq \in Seq(S) /\ c \notin S /\ \A i, j \in DOMAIN seq : seq[i] = seq[j] => i = j
        BY <2>2, <2>3, <3>1
    <3>3. \A t : t = Append(seq, c) =>
             /\ t \in Seq(S \cup {c})
             /\ \A d \in ToSet(t) : d = c \/ d \in ToSet(seq)
             /\ \A i, j \in DOMAIN t : t[i] = t[j] => i = j
        BY ONLY <3>2, AppendNew
    <3> QED
        BY <3>1, <3>3, Zenon
  <2>5. /\ actions' \in Seq(DOMAIN sock \cup {c})
        /\ \A d \in ToSet(actions') : d = c \/ d \in ToSet(actions)
        /\ \A i, j \in DOMAIN actions' : actions'[i] = actions'[j] => i = j
      BY <2>1, <2>4, Zenon
  <2> QED
      BY <1>9, <2>5
<1>11. todo' = << >> /\ todo' \in Seq(ToSet(actions') \X {"out", "in"})
    BY <1>1 DEF MakeRequest
<1>12. Shape'
    BY <1>9, <1>10, <1>11 DEF Shape, MakeRequest
<1>13. Round'
    BY <1>1, <1>11 DEF Round, MakeRequest
<1>14. Each'
    BY <1>2, <1>6, <1>7, <1>9 DEF Each, MakeRequest
<1>15. \A d \in Conn : Called(d)'
  <2> TAKE d \in Conn
  <2>1. Called(d) /\ calls' = calls /\ fds_to_remove' = fds_to_remove
      BY DEF MakeRequest
  <2>2. CASE calls[d] = << >>
      BY <2>1, <2>2 DEF Called
  <2>3. CASE calls[d] # << >>
    <3>1. d \in DOMAIN sock /\ d # c
        BY <1>1, <2>1, <2>3 DEF Called
    <3> QED
        BY <1>9, <1>10, <1>11, <2>1, <3>1 DEF Called
  <2> QED
      BY <2>2, <2>3
<1>16. ThrowsOnlyWhen'
    BY <1>1 DEF ThrowsOnlyWhen, MakeRequest
<1> QED
    BY <1>12, <1>13, <1>14, <1>15, <1>16

\* A round is planned: Out and In of each socket, and each socket once.
LEMMA PollInv ==
    ASSUME ConnInv, Poll
    PROVE  ConnInv'
<1> USE DEF ConnInv
<1> DEFINE N == Len(actions)
<1>1. loop = "idle" /\ todo = << >> /\ fds_to_remove = {}
    BY DEF Poll, Round
<1>2. N \in Nat /\ DOMAIN actions = 1 .. N /\ \A i \in 1 .. N : actions[i] \in ToSet(actions)
    BY DEF Shape, ToSet
<1>3. todo' = [i \in 1 .. 2 * N |-> <<actions[(i + 1) \div 2], IF i % 2 = 1 THEN "out" ELSE "in">>]
    BY DEF Poll
<1> HIDE DEF N
<1>4. \A i \in 1 .. 2 * N : (i + 1) \div 2 \in 1 .. N
    BY <1>2
<1>5. /\ DOMAIN todo' = 1 .. 2 * N /\ 2 * N \in Nat
      /\ \A i \in 1 .. 2 * N : /\ todo'[i][1] = actions[(i + 1) \div 2]
                               /\ todo'[i][2] = IF i % 2 = 1 THEN "out" ELSE "in"
                               /\ todo'[i] \in ToSet(actions) \X {"out", "in"}
    BY <1>2, <1>3, <1>4
<1>6. todo' \in Seq(ToSet(actions) \X {"out", "in"})
  <2> DEFINE T == ToSet(actions) \X {"out", "in"}
  <2> HIDE DEF T
  <2>1. todo' \in [1 .. 2 * N -> T]
      BY <1>3, <1>5 DEF T
  <2>2. todo' \in Seq(T)
      BY <1>5, <2>1
  <2> QED
      BY <2>2 DEF T
<1>7. \A i, j \in DOMAIN todo' : i < j /\ todo'[i][2] = "in" => todo'[j][1] # todo'[i][1]
  <2> TAKE i, j \in DOMAIN todo'
  <2> HAVE i < j /\ todo'[i][2] = "in"
  <2>1. i \in 1 .. 2 * N /\ j \in 1 .. 2 * N /\ i % 2 # 1
      BY <1>5
  <2>2. (i + 1) \div 2 # (j + 1) \div 2
      BY <1>2, <2>1
  <2> QED
      BY <1>2, <1>4, <1>5, <2>1, <2>2 DEF Shape
<1>8. Shape'
    BY <1>6 DEF Shape, Poll
<1>9. Round'
    BY <1>7 DEF Round, Poll, Seen
<1>10. Each'
    BY DEF Each, Poll
<1>11. \A d \in Conn : Called(d)'
  <2> TAKE d \in Conn
  <2>1. Called(d) /\ UNCHANGED <<calls, actions, fds_to_remove, sock, peer>>
      BY DEF Poll
  <2>2. calls[d] # << >> => d \notin ToSet(actions)
      BY <1>1, <2>1 DEF Called
  <2>3. \A i \in DOMAIN todo' : todo'[i][1] \in ToSet(actions)
      BY <1>2, <1>4, <1>5
  <2> QED
      BY <2>1, <2>2, <2>3 DEF Called
<1>12. ThrowsOnlyWhen'
    BY DEF ThrowsOnlyWhen, Poll
<1> QED
    BY <1>8, <1>9, <1>10, <1>11, <1>12

\* After a round the sockets that are done are gone.
LEMMA RoundEndsInv ==
    ASSUME ConnInv, RoundEnds
    PROVE  ConnInv'
<1> USE DEF ConnInv
<1>1. /\ loop' = "idle" /\ todo = << >> /\ todo' = << >> /\ fds_to_remove' = {}
      /\ UNCHANGED <<sock, peer, calls>>
    BY DEF RoundEnds
<1>2. /\ actions' \in Seq(DOMAIN sock) /\ ToSet(actions') = ToSet(actions) \ fds_to_remove
      /\ \A i, j \in DOMAIN actions' : actions'[i] = actions'[j] => i = j
    BY Remaining DEF RoundEnds, Shape
<1>3. todo' \in Seq(ToSet(actions') \X {"out", "in"})
    BY <1>1
<1>4. Shape'
    BY <1>1, <1>2, <1>3 DEF Shape
<1>5. Round' /\ Each' /\ ThrowsOnlyWhen'
    BY <1>1 DEF Round, Each, ThrowsOnlyWhen
<1>6. \A d \in Conn : Called(d)'
  <2> TAKE d \in Conn
  <2>1. Called(d)
      OBVIOUS
  <2> QED
      BY <1>1, <1>2, <2>1 DEF Called
<1> QED
    BY <1>4, <1>5, <1>6

\* The invariant holds of every reachable state.
LEMMA ConnInvNext ==
    ASSUME ConnInv, [Next]_vars
    PROVE  ConnInv'
<1>1. CASE UNCHANGED vars
    BY <1>1 DEF vars, ConnInv, Shape, Round, Each, Called, ThrowsOnlyWhen, ClosedEarly
<1>2. CASE PollExit
    BY <1>2 DEF PollExit, ConnInv, Shape, Round, Each, Called, ThrowsOnlyWhen
<1>3. ASSUME NEW c \in DOMAIN sock, NEW dir \in {"out", "in"}, SkipAction(c, dir)
      PROVE  ConnInv'
    BY <1>3, PassesBy DEF SkipAction
<1>4. ASSUME NEW c \in DOMAIN sock, Service(c) PROVE ConnInv'
    BY <1>3, <1>4, ServiceErrorInv, TcpInv, TlsInv DEF Service
<1>5. CASE loop_once
    BY <1>2, <1>4, <1>5, PollInv, RoundEndsInv DEF loop_once
<1> QED
    BY <1>1, <1>5, MakeRequestInv, NetworkInv DEF Next, Done

LEMMA ConnInvInit ==
    ASSUME Init
    PROVE  ConnInv
<1>1. DOMAIN sock = {} /\ DOMAIN peer = {} /\ ToSet(actions) = {}
    BY DEF Init, ToSet
<1>2. Shape
  <2>1. sock = [x \in {} |-> x] /\ peer = [x \in {} |-> x]
      BY DEF Init
  <2>2. sock \in [DOMAIN sock -> Sock] /\ peer \in [DOMAIN sock -> Peer]
      BY <1>1, <2>1
  <2>3. todo \in Seq(ToSet(actions) \X {"out", "in"})
      BY DEF Init
  <2> QED
      BY <1>1, <2>2, <2>3 DEF Init, Shape
<1> QED
    BY <1>1, <1>2 DEF Init, ConnInv, Round, Each, Called, ThrowsOnlyWhen

\* Of every request, over TCP or TLS and whatever the network does, the caller hears
\* at most once: the response that the peer sent, or a failure of a connection that
\* broke (poller.cc:76-82, loop.cc:237-252).
THEOREM CallerHearsRightly == Spec => []CallbackIsRight
<1>1. Init => ConnInv
    BY ConnInvInit
<1>2. ConnInv /\ [Next]_vars => ConnInv'
    BY ConnInvNext
<1>3. ConnInv => CallbackIsRight
  <2> SUFFICES ASSUME ConnInv, NEW c \in Conn
               PROVE  /\ Len(calls[c]) <= 1
                      /\ calls[c] = << "response" >> => sock[c].parser.complete = << Expected[c] >>
                      /\ calls[c] = << "failure" >> => peer[c].up = "broken"
      BY DEF CallbackIsRight
  <2>1. calls[c] \in { << >>, << "response" >>, << "failure" >> }
      BY DEF ConnInv, Shape
  <2>2. Len(calls[c]) <= 1
    <3>1. Len(<< >>) <= 1 /\ Len(<< "response" >>) <= 1 /\ Len(<< "failure" >>) <= 1
        OBVIOUS
    <3> QED
        BY <2>1, <3>1, Zenon
  <2> QED
      BY <2>2 DEF ConnInv, Called
<1> QED
    BY <1>1, <1>2, <1>3, PTL DEF Spec

\* One connection brings the loop down only if it broke after poll() had looked at it,
\* was closed within its handshake, or is a TLS connection whose request does not fit
\* into the send buffer (nb_secure_socket.cc:84-86).
THEOREM LoopThrowsOnlyWhen == Spec => []ThrowsOnlyWhen
<1>1. Init => ConnInv
    BY ConnInvInit
<1>2. ConnInv /\ [Next]_vars => ConnInv'
    BY ConnInvNext
<1>3. ConnInv => ThrowsOnlyWhen
    BY DEF ConnInv
<1> QED
    BY <1>1, <1>2, <1>3, PTL DEF Spec
=============================================================================
