---------------------------- MODULE GGForceProofs ----------------------------
(***************************************************************************)
(* The proofs about GGForce: for any dependencies, targets, threads, batch *)
(* sizes, pieces in which answers arrive, and numbers of failures and      *)
(* runs, the index lists only what the service has, the strides of the     *)
(* threads leave no dependency out, and files hold what they should.       *)
(*                                                                         *)
(* The argument goes from the inside out. A connection carries a sequence  *)
(* of answers, and the HTTP parser is always at a definite position in it, *)
(* so the k-th message it completes is the k-th answer, whole, in any cut  *)
(* of the stream. A batch of a thread has answers, complete messages and   *)
(* counted successes that add up to its requests, in the order it asked.   *)
(* The batches of a thread cover its stride, and the strides cover the     *)
(* requests. ForceInv says so of every thread while files move, and what   *)
(* the index, the blobs and the targets hold because of it.                *)
(***************************************************************************)
EXTENDS GGForce, FiniteSetTheorems, WellFoundedInduction, SequenceTheorems, TLAPS

(***************************************************************************)
(* Induction on the natural numbers, and the iterations of a loop          *)
(***************************************************************************)

\* Induction on the members of a set.
LEMMA NatInductionOn ==
  ASSUME NEW S, 0 \in S, \A n \in Nat : n \in S => n + 1 \in S
  PROVE  Nat \subseteq S
<1> DEFINE R == OpToRel(<, Nat)
           N == Nat \ S
<1>1. IsWellFoundedOn(R, Nat)
  BY NatLessThanWellFounded
<1> SUFFICES ASSUME N # {} PROVE FALSE
  OBVIOUS
<1>2. \E m \in N : \A n \in N : <<n, m>> \notin R
  <2>1. N \subseteq Nat
    OBVIOUS
  <2> HIDE DEF N, R
  <2> QED
    BY <1>1, <2>1, WFMin
<1>3. PICK m \in N : \A n \in N : ~ (n < m)
  BY <1>2 DEF OpToRel
<1>4. m # 0 /\ m - 1 \in Nat /\ m - 1 < m
  BY <1>3
<1>5. m - 1 \in S
  BY <1>3, <1>4
<1> QED
  BY <1>3, <1>4, <1>5

\* g is the sequence of what f makes of s, again and again.
Iteration(g, f, s) == g[0] = s /\ \A n \in Nat : g[n + 1] = f[g[n]]

\* A function on J can be iterated.
LEMMA Iterates ==
  ASSUME NEW J, NEW f \in [J -> J], NEW s \in J
  PROVE  \E g \in [Nat -> J] : Iteration(g, f, s)
<1> DEFINE Runs(m) == { h \in [0 .. m -> J] :
                          h[0] = s /\ \A k \in 0 .. m - 1 : h[k + 1] = f[h[k]] }
<1>1. \A m \in Nat : Runs(m) # {}
  <2> DEFINE S == { m \in Nat : Runs(m) # {} }
  <2>1. 0 \in S
    <3>1. [k \in 0 .. 0 |-> s] \in Runs(0)
      OBVIOUS
    <3> QED
      BY <3>1
  <2>2. ASSUME NEW m \in Nat, m \in S PROVE m + 1 \in S
    <3>1. PICK h \in Runs(m) : TRUE
      BY <2>2
    <3> DEFINE h2 == [k \in 0 .. m + 1 |-> IF k = m + 1 THEN f[h[m]] ELSE h[k]]
    <3>2. h \in [0 .. m -> J] /\ h[0] = s /\ \A k \in 0 .. m - 1 : h[k + 1] = f[h[k]]
      BY <3>1
    <3>3. h2 \in [0 .. m + 1 -> J] /\ h2[0] = s
      BY <3>2
    <3>4. ASSUME NEW k \in 0 .. m PROVE h2[k + 1] = f[h2[k]]
      <4>1. CASE k = m
        BY <3>2, <4>1
      <4>2. CASE k # m
        BY <3>2, <4>2
      <4> QED
        BY <4>1, <4>2
    <3>5. h2 \in Runs(m + 1)
      BY <3>3, <3>4
    <3> HIDE DEF h2, Runs
    <3> QED
      BY <3>5
  <2> HIDE DEF S
  <2>3. Nat \subseteq S
    BY <2>1, <2>2, NatInductionOn
  <2> QED
    BY <2>3 DEF S
<1>2. ASSUME NEW m \in Nat, NEW m2 \in Nat, NEW h \in Runs(m), NEW h2 \in Runs(m2)
      PROVE  \A k \in Nat : k <= m /\ k <= m2 => h[k] = h2[k]
  <2> DEFINE S == { k \in Nat : k <= m /\ k <= m2 => h[k] = h2[k] }
  <2>1. 0 \in S
    OBVIOUS
  <2>2. ASSUME NEW k \in Nat, k \in S PROVE k + 1 \in S
    <3> SUFFICES ASSUME k + 1 <= m, k + 1 <= m2 PROVE h[k + 1] = h2[k + 1]
      OBVIOUS
    <3>1. h[k + 1] = f[h[k]] /\ h2[k + 1] = f[h2[k]]
      OBVIOUS
    <3> QED
      BY <2>2, <3>1
  <2> HIDE DEF S
  <2>3. Nat \subseteq S
    BY <2>1, <2>2, NatInductionOn
  <2> QED
    BY <2>3 DEF S
<1> DEFINE r == [m \in Nat |-> CHOOSE h \in Runs(m) : TRUE]
           g == [n \in Nat |-> r[n][n]]
<1>3. \A m \in Nat : r[m] \in Runs(m)
  BY <1>1
<1>4. \A m \in Nat : /\ r[m] \in [0 .. m -> J] /\ r[m][0] = s
                     /\ \A k \in 0 .. m - 1 : r[m][k + 1] = f[r[m][k]]
  BY <1>3
<1>5. \A m \in Nat : r[m + 1][m] = r[m][m]
  <2> TAKE m \in Nat
  <2>1. m + 1 \in Nat /\ m <= m + 1 /\ m <= m
    OBVIOUS
  <2> HIDE DEF r, Runs
  <2> QED
    BY <1>2, <1>3, <2>1
<1> HIDE DEF r, Runs
<1>6. g \in [Nat -> J] /\ g[0] = s
  BY <1>4
<1>7. ASSUME NEW n \in Nat PROVE g[n + 1] = f[g[n]]
  <2>1. r[n + 1][n + 1] = f[r[n + 1][n]]
    BY <1>4
  <2> QED
    BY <1>5, <2>1
<1>8. Iteration(g, f, s)
  BY <1>6, <1>7 DEF Iteration
<1> HIDE DEF g
<1> QED
  BY <1>6, <1>8

\* The parser's steps, one after the other.
LEMMA ParsingSteps ==
  ASSUME NEW J, NEW start \in J, \A q \in J : parsing_step(q) \in J
  PROVE  \E g \in [Nat -> J] : /\ g[0] = start
                               /\ \A n \in Nat : g[n + 1] = parsing_step(g[n])
<1> DEFINE step == [q \in J |-> parsing_step(q)]
<1>1. step \in [J -> J]
  OBVIOUS
<1>2. PICK g \in [Nat -> J] : Iteration(g, step, start)
  <2> HIDE DEF step
  <2> QED
    BY <1>1, Iterates
<1>3. g[0] = start /\ \A n \in Nat : g[n + 1] = step[g[n]]
  BY <1>2 DEF Iteration
<1>4. \A n \in Nat : g[n + 1] = parsing_step(g[n])
  BY <1>3
<1> QED
  BY <1>3, <1>4

ParserStart(p, buf) == IF buf = << >> THEN eof(p) ELSE [p EXCEPT !.buffer = @ \o buf]

\* What parse() returns is where its steps lead, when they stay within J.
LEMMA ParseLoop ==
  ASSUME NEW J, NEW p, NEW buf, ParserStart(p, buf) \in J, StepsFor(ParserStart(p, buf)) \in Nat,
         \A q \in J : parsing_step(q) \in J
  PROVE  \E g \in [Nat -> J] : /\ g[0] = ParserStart(p, buf)
                               /\ \A n \in Nat : g[n + 1] = parsing_step(g[n])
                               /\ parse(p, buf) = g[StepsFor(ParserStart(p, buf))]
<1> DEFINE start == ParserStart(p, buf)
           loop[n \in Nat] == IF n = 0 THEN start ELSE parsing_step(loop[n - 1])
<1>1. PICK g \in [Nat -> J] : g[0] = start /\ \A n \in Nat : g[n + 1] = parsing_step(g[n])
  <2> HIDE DEF start, loop
  <2> QED
    BY ParsingSteps DEF start
<1>2. g = [n \in Nat |-> IF n = 0 THEN start ELSE parsing_step(g[n - 1])]
  <2>1. ASSUME NEW n \in Nat, n # 0 PROVE g[n] = parsing_step(g[n - 1])
    <3>1. n - 1 \in Nat /\ (n - 1) + 1 = n
      BY <2>1
    <3> HIDE DEF start
    <3> QED
      BY <1>1, <3>1
  <2> HIDE DEF start
  <2> QED
    BY <1>1, <2>1
<1>3. loop = [n \in Nat |-> IF n = 0 THEN start ELSE parsing_step(loop[n - 1])]
  <2> HIDE DEF start
  <2> QED
    BY <1>2
<1>4. parse(p, buf) = loop[StepsFor(start)]
  BY DEF parse, ParserStart
<1>5. \A n \in Nat : loop[n] = g[n]
  <2> HIDE DEF loop, start
  <2> DEFINE S == { n \in Nat : loop[n] = g[n] }
  <2>1. 0 \in S
    BY <1>1, <1>3
  <2>2. ASSUME NEW n \in Nat, n \in S PROVE n + 1 \in S
    <3>1. loop[n + 1] = parsing_step(loop[n])
      BY <1>3
    <3> QED
      BY <1>1, <2>2, <3>1
  <2> HIDE DEF S
  <2>3. Nat \subseteq S
    BY <2>1, <2>2, NatInductionOn
  <2> QED
    BY <2>3 DEF S
<1> QED
  BY <1>1, <1>4, <1>5

(***************************************************************************)
(* The body of a refusal: what the chunk parser has before it and what it  *)
(* does at each step                                                       *)
(***************************************************************************)

\* The first line of b, when b starts with n tokens of text and the end of the line.
LEMMA LineOf ==
  ASSUME NEW Token, NEW b \in Seq(Token), NEW n \in 0 .. 1, have_complete_line(b),
         n + 1 <= Len(b) => b[n + 1] = "CR",
         n + 2 <= Len(b) => b[n + 2] = "LF",
         n = 1 => b[1] # "CR"
  PROVE  /\ n + 2 <= Len(b)
         /\ LineEnd(b) = n + 1
         /\ Line(b) = SubSeq(b, 1, n)
         /\ AfterLine(b) = SubSeq(b, n + 3, Len(b))
<1>1. PICK i \in 1 .. Len(b) - 1 : b[i] = "CR" /\ b[i + 1] = "LF"
  BY DEF have_complete_line
<1>2. n + 2 <= Len(b)
  BY <1>1
<1>3. n + 1 \in CRLFs(b) /\ \A j \in CRLFs(b) : n + 1 <= j
  BY <1>2 DEF CRLFs
<1>4. \A j \in CRLFs(b) : j \in Int
  BY DEF CRLFs
<1>5. LineEnd(b) = n + 1
  BY <1>3, <1>4 DEF LineEnd
<1> QED
  BY <1>2, <1>5 DEF Line, AfterLine

\* A line is complete as soon as its end has come.
LEMMA LineIsComplete ==
  ASSUME NEW Token, NEW b \in Seq(Token), NEW i \in 1 .. Len(b) - 1, b[i] = "CR", b[i + 1] = "LF"
  PROVE  have_complete_line(b)
BY DEF have_complete_line

\* The ends of lines in a buffer can be counted.
LEMMA CRLFsFinite ==
  ASSUME NEW Token, NEW b \in Seq(Token)
  PROVE  IsFiniteSet(CRLFs(b)) /\ Cardinality(CRLFs(b)) \in Nat
<1>1. CRLFs(b) \subseteq 1 .. Len(b)
  BY DEF CRLFs
<1>2. IsFiniteSet(1 .. Len(b))
  BY FS_Interval
<1> QED
  BY <1>1, <1>2, FS_Subset, FS_CardinalityType

\* b goes on where the first `from` tokens of s end, as far as s goes.
GoesOn(b, from, s) == \A i \in 1 .. Len(b) : from + i <= Len(s) => b[i] = s[from + i]

\* The body of a refusal, and where the chunk parser may be in it.
RefusalBody == << "c1", "CR", "LF", "x", "CR", "LF", "c0", "CR", "LF", "CR", "LF" >>

ChunkStates == {"CHUNK_HDR", "CHUNK", "TRAILER"}

ChunkParsers(Token) ==
    [buffer : Seq(Token), state : ChunkStates, size : Int, acked : Int, parsed : Int,
     trailers : BOOLEAN]

\* c has been given `given` tokens of what starts with the body of a refusal, and has
\* done with the first c.parsed.
InRefusal(c, given) ==
    /\ ~ c.trailers
    /\ \/ c.parsed = 0 /\ c.state = "CHUNK_HDR"
       \/ c.parsed = 3 /\ c.state = "CHUNK" /\ c.size = 1
       \/ c.parsed = 6 /\ c.state = "CHUNK_HDR"
       \/ c.parsed = 9 /\ c.state = "TRAILER"
    /\ Len(c.buffer) = given - c.parsed
    /\ GoesOn(c.buffer, c.parsed, RefusalBody)

\* The tokens of a refusal's body: a chunk, the last chunk and the end of the trailers.
LEMMA RefusalTokens ==
  /\ Len(RefusalBody) = 11
  /\ RefusalBody[1] = "c1" /\ RefusalBody[2] = "CR" /\ RefusalBody[3] = "LF"
  /\ RefusalBody[4] = "x" /\ RefusalBody[5] = "CR" /\ RefusalBody[6] = "LF"
  /\ RefusalBody[7] = "c0" /\ RefusalBody[8] = "CR" /\ RefusalBody[9] = "LF"
  /\ RefusalBody[10] = "CR" /\ RefusalBody[11] = "LF"
BY DEF RefusalBody

\* What is left of b without its first n elements.
LEMMA RestOf ==
  ASSUME NEW Token, NEW b \in Seq(Token), NEW n \in Nat, n <= Len(b),
         NEW k, k = n + 1, NEW rest, rest = SubSeq(b, k, Len(b))
  PROVE  /\ rest \in Seq(Token)
         /\ Len(rest) = Len(b) - n
         /\ \A i \in 1 .. Len(rest) : rest[i] = b[n + i]
OBVIOUS

\* The rest of a buffer goes on with s from as much further.
LEMMA RestGoesOn ==
  ASSUME NEW Token, NEW b \in Seq(Token), NEW n \in Nat, n <= Len(b),
         NEW from \in Int, NEW s, Len(s) \in Nat, GoesOn(b, from, s),
         NEW k, k = n + 1, NEW rest, rest = SubSeq(b, k, Len(b))
  PROVE  GoesOn(rest, from + n, s)
<1>1. Len(rest) = Len(b) - n /\ \A i \in 1 .. Len(rest) : rest[i] = b[n + i]
  BY RestOf
<1>2. ASSUME NEW i \in 1 .. Len(rest), (from + n) + i <= Len(s)
      PROVE  rest[i] = s[(from + n) + i]
  <2>1. n + i \in 1 .. Len(b) /\ from + (n + i) = (from + n) + i
    BY <1>1
  <2>2. b[n + i] = s[from + (n + i)]
    BY <1>2, <2>1 DEF GoesOn
  <2> QED
    BY <1>1, <2>1, <2>2
<1> QED
  BY <1>2 DEF GoesOn

\* The chunk parser takes three tokens.
LEMMA ChunkTakesThree ==
  ASSUME NEW Token, NEW c \in ChunkParsers(Token), NEW given \in Nat, InRefusal(c, given),
         Len(c.buffer) >= 3, NEW size \in Int, NEW state \in ChunkStates,
         \/ c.parsed = 0 /\ size = 1 /\ state = "CHUNK"
         \/ c.parsed = 3 /\ state = "CHUNK_HDR"
         \/ c.parsed = 6 /\ state = "TRAILER",
         NEW d, d = [c EXCEPT !.size = size, !.state = state, !.parsed = c.parsed + 3,
                              !.buffer = SubSeq(c.buffer, 4, Len(c.buffer))]
  PROVE  d \in ChunkParsers(Token) /\ InRefusal(d, given)
<1>1. c.buffer \in Seq(Token) /\ c.parsed \in Int /\ Len(c.buffer) = given - c.parsed
  BY DEF ChunkParsers, InRefusal
<1>2. PICK rest : rest = SubSeq(c.buffer, 4, Len(c.buffer))
  OBVIOUS
<1>0. 3 \in Nat /\ 4 = 3 + 1 /\ 3 <= Len(c.buffer)
  OBVIOUS
<1>3. rest \in Seq(Token) /\ Len(rest) = Len(c.buffer) - 3
  BY ONLY <1>0, <1>1, <1>2, RestOf
<1>4. GoesOn(rest, c.parsed + 3, RefusalBody)
  <2>1. Len(RefusalBody) \in Nat /\ GoesOn(c.buffer, c.parsed, RefusalBody)
    BY RefusalTokens DEF InRefusal
  <2> QED
    BY ONLY <1>0, <1>1, <1>2, <2>1, RestGoesOn
<1>5. PICK parsed \in Int : parsed = c.parsed + 3
  BY <1>1
<1>6. d = [c EXCEPT !.size = size, !.state = state, !.parsed = parsed, !.buffer = rest]
  BY <1>2, <1>5
<1>7. /\ d \in ChunkParsers(Token) /\ d.parsed = parsed /\ d.state = state /\ d.size = size
      /\ d.trailers = c.trailers /\ d.buffer = rest
  BY ONLY <1>3, <1>6, c \in ChunkParsers(Token), size \in Int, state \in ChunkStates, parsed \in Int
     DEF ChunkParsers
<1>8. Len(d.buffer) = given - d.parsed /\ GoesOn(d.buffer, d.parsed, RefusalBody)
  BY ONLY <1>1, <1>3, <1>4, <1>5, <1>7, given \in Nat
<1>9. \/ d.parsed = 3 /\ d.state = "CHUNK" /\ d.size = 1
      \/ d.parsed = 6 /\ d.state = "CHUNK_HDR"
      \/ d.parsed = 9 /\ d.state = "TRAILER"
  BY <1>5, <1>7
<1> QED
  BY <1>7, <1>8, <1>9 DEF InRefusal

\* One step of the chunk parser. With the whole body there, it gets three tokens on.
LEMMA ChunkStepStays ==
  ASSUME NEW Token, NEW c \in ChunkParsers(Token), NEW given \in Nat, InRefusal(c, given)
  PROVE  /\ chunk_step(c) \in ChunkParsers(Token)
         /\ InRefusal(chunk_step(c), given)
         /\ chunk_step(c).acked = c.acked
         /\ given >= 11 => \/ c.parsed = 9 /\ chunk_step(c).parsed = 9
                           \/ chunk_step(c).parsed = c.parsed + 3
<1> DEFINE b == c.buffer
           d == chunk_step(c)
<1>0. /\ b \in Seq(Token) /\ Len(b) \in Nat /\ c.parsed \in Int
      /\ Len(b) = given - c.parsed
      /\ \A i \in 1 .. Len(b) : c.parsed + i <= 11 => b[i] = RefusalBody[c.parsed + i]
  BY RefusalTokens DEF ChunkParsers, InRefusal, GoesOn
<1>1. CASE c.parsed \in {0, 6}
  <2>1. c.state = "CHUNK_HDR"
    BY <1>1 DEF InRefusal
  <2>2. /\ 1 <= Len(b) => b[1] = IF c.parsed = 0 THEN "c1" ELSE "c0"
        /\ 2 <= Len(b) => b[2] = "CR"
        /\ 3 <= Len(b) => b[3] = "LF"
    <3>1. /\ 1 <= Len(b) => b[1] = RefusalBody[c.parsed + 1]
          /\ 2 <= Len(b) => b[2] = RefusalBody[c.parsed + 2]
          /\ 3 <= Len(b) => b[3] = RefusalBody[c.parsed + 3]
      BY <1>0, <1>1
    <3>2. CASE c.parsed = 0
      BY <3>1, <3>2, RefusalTokens
    <3>3. CASE c.parsed = 6
      BY <3>1, <3>3, RefusalTokens
    <3> QED
      BY <1>1, <3>2, <3>3
  <2>3. CASE have_complete_line(b)
    <3>1. /\ 3 <= Len(b) /\ LineEnd(b) = 2 /\ Line(b) = SubSeq(b, 1, 1)
          /\ AfterLine(b) = SubSeq(b, 4, Len(b))
      <4>1. Len(b) >= 2
        BY <1>0, <2>3 DEF have_complete_line
      <4>2. b[1] # "CR"
        BY <1>1, <2>2, <4>1
      <4> HIDE DEF b
      <4> QED
        BY <1>0, <2>2, <2>3, <4>2, LineOf
    <3>2. Line(b)[1] = b[1]
      BY <1>0, <3>1
    <3> DEFINE size == IF c.parsed = 0 THEN 1 ELSE 0
               state == IF c.parsed = 0 THEN "CHUNK" ELSE "TRAILER"
    <3>3. ChunkSizes[Line(b)[1]] = size
      BY <1>1, <2>2, <3>1, <3>2 DEF ChunkSizes
    <3>4. d = [c EXCEPT !.size = size, !.state = state, !.parsed = c.parsed + 3,
                        !.buffer = SubSeq(b, 4, Len(b))]
      <4>1. d = [c EXCEPT !.size = size, !.state = IF size = 0 THEN "TRAILER" ELSE "CHUNK",
                          !.parsed = c.parsed + 2 + 1, !.buffer = SubSeq(b, 4, Len(b))]
        <5> HIDE DEF size, state
        <5> QED
          BY <2>1, <2>3, <3>1, <3>3 DEF chunk_step
      <4>2. (IF size = 0 THEN "TRAILER" ELSE "CHUNK") = state /\ c.parsed + 2 + 1 = c.parsed + 3
        BY <1>0
      <4> HIDE DEF size, state, d
      <4> QED
        BY <4>1, <4>2
    <3>5. d.parsed = c.parsed + 3 /\ d.acked = c.acked
      BY <3>4 DEF ChunkParsers
    <3>6. d \in ChunkParsers(Token) /\ InRefusal(d, given)
      <4>1. size \in Int
        OBVIOUS
      <4>2. state \in ChunkStates
        BY DEF ChunkStates
      <4>3. \/ c.parsed = 0 /\ size = 1 /\ state = "CHUNK"
            \/ c.parsed = 6 /\ state = "TRAILER"
        BY <1>1
      <4> HIDE DEF d, size, state
      <4> QED
        BY <3>1, <3>4, <4>1, <4>2, <4>3, ChunkTakesThree
    <3> QED
      BY <3>5, <3>6
  <2>4. CASE ~ have_complete_line(b)
    <3>1. d = c
      BY <2>1, <2>4 DEF chunk_step
    <3>2. given < 11
      <4> SUFFICES ASSUME given >= 11 PROVE FALSE
        BY <1>0
      <4>1. Len(b) >= 3
        BY <1>0, <1>1
      <4>2. PICK i : i = 2
        OBVIOUS
      <4>3. i \in 1 .. Len(b) - 1 /\ b[i] = "CR" /\ b[i + 1] = "LF"
        BY <1>0, <2>2, <4>1, <4>2
      <4>4. have_complete_line(b)
        BY ONLY <1>0, <4>3, LineIsComplete
      <4> QED
        BY <2>4, <4>4
    <3> QED
      BY <3>1, <3>2
  <2> QED
    BY <2>3, <2>4
<1>2. CASE c.parsed = 3
  <2>1. c.state = "CHUNK" /\ c.size = 1
    BY <1>2 DEF InRefusal
  <2>2. CASE Len(b) >= 3
    <3>1. d = [c EXCEPT !.state = "CHUNK_HDR", !.parsed = c.parsed + 3,
                        !.buffer = SubSeq(b, 4, Len(b))]
      <4>1. d = [c EXCEPT !.state = "CHUNK_HDR", !.parsed = c.parsed + 1 + 2,
                          !.buffer = SubSeq(b, 1 + 3, Len(b))]
        BY <2>1, <2>2 DEF chunk_step
      <4> QED
        BY <1>2, <4>1
    <3>2. d = [c EXCEPT !.size = 1, !.state = "CHUNK_HDR", !.parsed = c.parsed + 3,
                        !.buffer = SubSeq(b, 4, Len(b))]
      BY <2>1, <3>1 DEF ChunkParsers
    <3>5. d.parsed = c.parsed + 3 /\ d.acked = c.acked
      BY <3>1 DEF ChunkParsers
    <3>6. d \in ChunkParsers(Token) /\ InRefusal(d, given)
      <4>1. 1 \in Int /\ "CHUNK_HDR" \in ChunkStates
        BY DEF ChunkStates
      <4> HIDE DEF d
      <4> QED
        BY <1>2, <2>2, <3>2, <4>1, ChunkTakesThree
    <3> QED
      BY <3>5, <3>6
  <2>3. CASE Len(b) < 3
    <3>1. d = c
      BY <1>0, <2>1, <2>3 DEF chunk_step
    <3> QED
      BY <1>0, <1>2, <2>3, <3>1
  <2> QED
    BY <1>0, <2>2, <2>3
<1>3. CASE c.parsed = 9
  <2>1. c.state = "TRAILER"
    BY <1>3 DEF InRefusal
  <2>2. d = c
    BY <2>1 DEF chunk_step
  <2> QED
    BY <1>3, <2>2
<1> QED
  BY <1>1, <1>2, <1>3 DEF InRefusal

\* The chunk parser's steps, one after the other, as far as Len(start.buffer).
LEMMA ChunkSteps ==
  ASSUME NEW Token, NEW start \in ChunkParsers(Token), NEW total \in Nat, InRefusal(start, total),
         NEW end,
         LET loop[n \in Nat] == IF n = 0 THEN start ELSE chunk_step(loop[n - 1])
         IN  end = loop[Len(start.buffer)]
  PROVE  /\ end \in ChunkParsers(Token) /\ InRefusal(end, total) /\ end.acked = start.acked
         /\ total >= 11 => end.parsed = 9
<1> DEFINE loop[n \in Nat] == IF n = 0 THEN start ELSE chunk_step(loop[n - 1])
           J == { c \in ChunkParsers(Token) : InRefusal(c, total) /\ c.acked = start.acked }
           step == [c \in J |-> chunk_step(c)]
<1>1. \A c \in J : /\ chunk_step(c) \in J
                   /\ total >= 11 => \/ c.parsed = 9 /\ chunk_step(c).parsed = 9
                                     \/ chunk_step(c).parsed = c.parsed + 3
  BY ChunkStepStays
<1>2. start \in J
  OBVIOUS
<1>3. PICK g \in [Nat -> J] : Iteration(g, step, start)
  <2>1. step \in [J -> J]
    BY <1>1
  <2> HIDE DEF step, J
  <2> QED
    BY <1>2, <2>1, Iterates
<1>4. g[0] = start /\ \A n \in Nat : g[n + 1] = chunk_step(g[n])
  <2>1. g[0] = start /\ \A n \in Nat : g[n + 1] = step[g[n]]
    BY <1>3 DEF Iteration
  <2>2. \A n \in Nat : g[n] \in J
    BY <1>3
  <2> HIDE DEF J
  <2> QED
    BY <2>1, <2>2
<1>5. g = [n \in Nat |-> IF n = 0 THEN start ELSE chunk_step(g[n - 1])]
  <2>1. ASSUME NEW n \in Nat, n # 0 PROVE g[n] = chunk_step(g[n - 1])
    <3>1. n - 1 \in Nat /\ (n - 1) + 1 = n
      BY <2>1
    <3> QED
      BY <1>4, <3>1
  <2> HIDE DEF J
  <2> QED
    BY <1>4, <2>1
<1>6. loop = [n \in Nat |-> IF n = 0 THEN start ELSE chunk_step(loop[n - 1])]
  <2> HIDE DEF J
  <2> QED
    BY <1>5
<1>7. end = loop[Len(start.buffer)]
  OBVIOUS
<1>8. \A n \in Nat : /\ loop[n] \in J
                     /\ total >= 11 => \/ loop[n].parsed = 9
                                       \/ loop[n].parsed = start.parsed + 3 * n
  <2> DEFINE Good(n) == /\ loop[n] \in J
                        /\ total >= 11 => \/ loop[n].parsed = 9
                                          \/ loop[n].parsed = start.parsed + 3 * n
             S == { n \in Nat : Good(n) }
  <2>0. start.parsed \in Int
    BY DEF ChunkParsers
  <2>1. loop[0] = start /\ \A n \in Nat : loop[n + 1] = chunk_step(loop[n])
    <3> HIDE DEF loop
    <3>1. loop[0] = start
      BY <1>6
    <3>2. ASSUME NEW n \in Nat PROVE loop[n + 1] = chunk_step(loop[n])
      <4>1. n + 1 \in Nat /\ n + 1 # 0 /\ (n + 1) - 1 = n
        OBVIOUS
      <4> QED
        BY <1>6, <4>1
    <3> QED
      BY <3>1, <3>2
  <2> HIDE DEF J, loop
  <2>2. 0 \in S
    BY <1>2, <2>0, <2>1
  <2>3. ASSUME NEW n \in Nat, n \in S PROVE n + 1 \in S
    <3>1. Good(n)
      BY <2>3
    <3>2. loop[n + 1] = chunk_step(loop[n])
      BY <2>1
    <3>3. PICK a : a = loop[n]
      OBVIOUS
    <3>4. PICK b : b = loop[n + 1]
      OBVIOUS
    <3>5. a \in J /\ b = chunk_step(a)
      BY <3>1, <3>2, <3>3, <3>4
    <3>6. b \in J /\ (total >= 11 => (a.parsed = 9 /\ b.parsed = 9) \/ b.parsed = a.parsed + 3)
      BY <1>1, <3>5
    <3>7. total >= 11 => a.parsed = 9 \/ a.parsed = start.parsed + 3 * n
      BY <3>1, <3>3
    <3>8. a.parsed \in {0, 3, 6, 9} /\ b.parsed \in {0, 3, 6, 9}
      BY <3>5, <3>6 DEF J, InRefusal
    <3>9. total >= 11 => b.parsed = 9 \/ b.parsed = start.parsed + 3 * (n + 1)
      <4>1. ASSUME b.parsed = a.parsed + 3, a.parsed = start.parsed + 3 * n
            PROVE  b.parsed = start.parsed + 3 * (n + 1)
        BY <2>0, <3>8, <4>1
      <4>2. ASSUME b.parsed = a.parsed + 3, a.parsed = 9 PROVE FALSE
        BY <3>8, <4>2
      <4> QED
        BY <3>6, <3>7, <4>1, <4>2
    <3>10. Good(n + 1)
      BY <3>4, <3>6, <3>9
    <3> HIDE DEF Good
    <3> QED
      BY <3>10
  <2> HIDE DEF S
  <2>4. Nat \subseteq S
    BY <2>2, <2>3, NatInductionOn
  <2> QED
    BY <2>4 DEF S
<1>9. Len(start.buffer) \in Nat /\ Len(start.buffer) = total - start.parsed /\ start.parsed \in {0, 3, 6, 9}
  BY DEF ChunkParsers, InRefusal
<1> HIDE DEF loop
<1>10. end \in J /\ (total >= 11 => end.parsed = 9 \/ end.parsed = start.parsed + 3 * Len(start.buffer))
  BY <1>7, <1>8, <1>9
<1>11. end.parsed \in {0, 3, 6, 9}
  BY <1>10 DEF InRefusal
<1>12. total >= 11 => end.parsed = 9
  <2>1. PICK l, a, e : l = Len(start.buffer) /\ a = start.parsed /\ e = end.parsed
    OBVIOUS
  <2>2. l \in Nat /\ l = total - a /\ a \in {0, 3, 6, 9} /\ e \in {0, 3, 6, 9}
    BY <1>9, <1>11, <2>1
  <2>3. total >= 11 => e = 9 \/ e = a + 3 * l
    BY <1>10, <2>1
  <2>4. total >= 11 => e = 9
    BY ONLY total \in Nat, <2>2, <2>3
  <2> QED
    BY <2>1, <2>4
<1> QED
  BY <1>10, <1>12

\* What GoesOn says of a piece and the next one.
LEMMA PiecesGoOn ==
  ASSUME NEW Token, NEW a \in Seq(Token), NEW b \in Seq(Token), NEW from \in Int, NEW s,
         Len(s) \in Nat, GoesOn(a, from, s), NEW to \in Int, to = from + Len(a), GoesOn(b, to, s)
  PROVE  GoesOn(a \o b, from, s) /\ Len(a \o b) = Len(a) + Len(b) /\ a \o b \in Seq(Token)
<1>1. Len(a \o b) = Len(a) + Len(b) /\ a \o b \in Seq(Token)
  OBVIOUS
<1>2. ASSUME NEW i \in 1 .. Len(a \o b), from + i <= Len(s) PROVE (a \o b)[i] = s[from + i]
  <2>1. CASE i <= Len(a)
    BY <1>2, <2>1 DEF GoesOn
  <2>2. CASE i > Len(a)
    <3>1. i - Len(a) \in 1 .. Len(b) /\ to + (i - Len(a)) = from + i
      BY <1>1, <2>2
    <3>2. b[i - Len(a)] = s[to + (i - Len(a))]
      BY <1>2, <3>1 DEF GoesOn
    <3>3. (a \o b)[i] = b[i - Len(a)]
      BY <1>1, <2>2
    <3> QED
      BY <3>1, <3>2, <3>3
  <2> QED
    BY <2>1, <2>2
<1> QED
  BY <1>1, <1>2 DEF GoesOn

\* acked is the only field of a chunk parser that changes.
LEMMA AckMore ==
  ASSUME NEW Token, NEW c \in ChunkParsers(Token), NEW n \in Nat, NEW d, d = [c EXCEPT !.acked = n]
  PROVE  /\ d \in ChunkParsers(Token) /\ d.acked = n /\ d.buffer = c.buffer
         /\ d.state = c.state /\ d.size = c.size /\ d.parsed = c.parsed
         /\ d.trailers = c.trailers
BY DEF ChunkParsers

\* read() of the chunk parser, given what follows in a refusal.
LEMMA ReadChunked ==
  ASSUME NEW Token, NEW c \in ChunkParsers(Token), NEW input \in Seq(Token), NEW given \in 0 .. 10,
         InRefusal(c, given), c.acked = given, GoesOn(input, given, RefusalBody),
         NEW r, r = read_chunked(c, input)
  PROVE  /\ r.parser \in ChunkParsers(Token)
         /\ Len(input) >= 11 - given => r.amount = 11 - given
         /\ Len(input) < 11 - given =>
               /\ r.amount = Npos
               /\ InRefusal(r.parser, given + Len(input))
               /\ r.parser.acked = given + Len(input)
<1> DEFINE start == [c EXCEPT !.buffer = @ \o input]
           loop[n \in Nat] == IF n = 0 THEN start ELSE chunk_step(loop[n - 1])
           end == loop[Len(start.buffer)]
           found == { i \in CRLFs(end.buffer) : end.trailers => i + 2 \in CRLFs(end.buffer) }
           total == given + Len(input)
<1>1. start \in ChunkParsers(Token) /\ InRefusal(start, total) /\ start.acked = given /\ total \in Nat
  <2>1. c.buffer \in Seq(Token) /\ GoesOn(c.buffer, c.parsed, RefusalBody) /\ c.parsed \in Int
        /\ Len(c.buffer) = given - c.parsed
    BY DEF ChunkParsers, InRefusal
  <2>2. PICK b : b = c.buffer \o input
    OBVIOUS
  <2>3. GoesOn(b, c.parsed, RefusalBody) /\ Len(b) = Len(c.buffer) + Len(input) /\ b \in Seq(Token)
    <3>1. given = c.parsed + Len(c.buffer) /\ Len(RefusalBody) \in Nat /\ given \in Int
      BY <2>1, RefusalTokens
    <3> QED
      BY <2>1, <2>2, <3>1, PiecesGoOn
  <2>4. start = [c EXCEPT !.buffer = b]
    BY <2>2
  <2> HIDE DEF start
  <2>5. /\ start \in ChunkParsers(Token) /\ start.buffer = b /\ start.state = c.state
        /\ start.size = c.size /\ start.acked = c.acked /\ start.parsed = c.parsed
        /\ start.trailers = c.trailers
    BY <2>3, <2>4 DEF ChunkParsers
  <2>6. Len(b) = total - c.parsed
    BY <2>1, <2>3
  <2>7. InRefusal(start, total)
    BY <2>3, <2>5, <2>6 DEF InRefusal
  <2> QED
    BY <2>5, <2>7
<1>2. /\ end \in ChunkParsers(Token) /\ InRefusal(end, total) /\ end.acked = given
      /\ total >= 11 => end.parsed = 9
  <2> HIDE DEF start
  <2>1. end = loop[Len(start.buffer)]
    OBVIOUS
  <2>2. PICK e : e = end
    OBVIOUS
  <2>3. LET lp[n \in Nat] == IF n = 0 THEN start ELSE chunk_step(lp[n - 1])
        IN  e = lp[Len(start.buffer)]
    BY <2>1, <2>2
  <2> HIDE DEF loop
  <2> QED
    BY ONLY <1>1, <2>2, <2>3, ChunkSteps
<1>3. r = IF end.state = "TRAILER" /\ { i \in CRLFs(end.buffer) : c.trailers => i + 2 \in CRLFs(end.buffer) } # {}
          THEN [parser |-> end,
                amount |-> end.parsed + (Min({ i \in CRLFs(end.buffer) : c.trailers => i + 2 \in CRLFs(end.buffer) }) - 1)
                              + (IF c.trailers THEN 4 ELSE 2) - end.acked]
          ELSE [parser |-> [end EXCEPT !.acked = @ + Len(input)], amount |-> Npos]
  BY DEF read_chunked
<1>4. ~ c.trailers
  BY DEF InRefusal
<1> HIDE DEF end, start, loop
<1>5. { i \in CRLFs(end.buffer) : c.trailers => i + 2 \in CRLFs(end.buffer) } = CRLFs(end.buffer)
  BY <1>4
<1>6. r = IF end.state = "TRAILER" /\ CRLFs(end.buffer) # {}
          THEN [parser |-> end, amount |-> end.parsed + (Min(CRLFs(end.buffer)) - 1) + 2 - given]
          ELSE [parser |-> [end EXCEPT !.acked = total], amount |-> Npos]
  BY <1>2, <1>3, <1>4, <1>5
<1>7. CASE total >= 11
  <2>1. end.state = "TRAILER" /\ Len(end.buffer) >= 2 /\ end.buffer[1] = "CR" /\ end.buffer[2] = "LF"
    <3>1. end.parsed = 9 /\ Len(end.buffer) = total - 9 /\ end.state = "TRAILER"
          /\ GoesOn(end.buffer, 9, RefusalBody)
      BY <1>2, <1>7 DEF InRefusal
    <3>2. Len(end.buffer) >= 2 /\ Len(end.buffer) \in Nat
      BY <1>1, <1>7, <3>1
    <3> QED
      BY <3>1, <3>2, RefusalTokens DEF GoesOn
  <2>2. 1 \in CRLFs(end.buffer) /\ \A i \in CRLFs(end.buffer) : i \in Int /\ 1 <= i
    <3>1. Len(end.buffer) \in Nat
      BY <1>2 DEF ChunkParsers
    <3> QED
      BY <2>1, <3>1 DEF CRLFs
  <2>3. Min(CRLFs(end.buffer)) = 1
    BY <2>2 DEF Min
  <2>4. end.parsed = 9
    BY <1>2, <1>7
  <2>5. r = [parser |-> end, amount |-> 11 - given]
    <3>1. 9 + (1 - 1) + 2 - given = 11 - given
      OBVIOUS
    <3> QED
      BY <1>6, <2>1, <2>2, <2>3, <2>4, <3>1
  <2> QED
    BY <1>1, <1>2, <1>7, <2>5
<1>8. CASE total < 11
  <2>1. ~ (end.state = "TRAILER" /\ CRLFs(end.buffer) # {})
    <3> SUFFICES ASSUME end.state = "TRAILER" PROVE CRLFs(end.buffer) = {}
      OBVIOUS
    <3>1. end.parsed = 9 /\ Len(end.buffer) = total - 9
      BY <1>2 DEF InRefusal
    <3>2. Len(end.buffer) - 1 < 1
      BY <1>1, <1>8, <3>1
    <3> QED
      BY <1>2, <3>2 DEF CRLFs, ChunkParsers
  <2>2. r = [parser |-> [end EXCEPT !.acked = total], amount |-> Npos]
    BY <1>6, <2>1
  <2>3. PICK n \in Nat : n = total
    BY <1>1
  <2>4. PICK d : d = [end EXCEPT !.acked = n]
    OBVIOUS
  <2>5. /\ d \in ChunkParsers(Token) /\ d.acked = n /\ d.buffer = end.buffer
        /\ d.state = end.state /\ d.size = end.size /\ d.parsed = end.parsed
        /\ d.trailers = end.trailers
    BY ONLY <1>2, <2>4, n \in Nat, AckMore
  <2>6. InRefusal(d, total)
    BY <1>2, <2>5 DEF InRefusal
  <2>7. r.parser = d /\ r.amount = Npos
    BY <2>2, <2>3, <2>4
  <2>8. Len(input) < 11 - given
    BY <1>8
  <2> HIDE DEF total
  <2>9. r.parser.acked = total /\ InRefusal(r.parser, total) /\ r.parser \in ChunkParsers(Token)
    BY <2>3, <2>5, <2>6, <2>7
  <2> QED
    BY ONLY <2>7, <2>8, <2>9, Len(input) \in Nat, given \in 0 .. 10 DEF total
<1> QED
  BY <1>1, <1>7, <1>8

(***************************************************************************)
(* An answer, token by token, and a message that is part of it             *)
(***************************************************************************)

\* The answer to one request: st is its status, o the object it is about. An object
\* that is granted takes size tokens: none in the answer to a put.
Statuses == {"200", "503"}
Header(size, st) == IF st = "503" THEN "chunked" ELSE IF size = 2 THEN "length2" ELSE "length0"

ReplyTokens(size, st, o) ==
    << st, "CR", "LF", Header(size, st), "CR", "LF", "CR", "LF" >>
      \o (IF st = "503" THEN RefusalBody
          ELSE IF size = 2 THEN << o, o >> ELSE << >>)

ReplyLen(size, st) == IF st = "503" THEN 19 ELSE 8 + size

\* s has the lines of an answer with status st, then an object or the body of a refusal.
HasLines(s, size, st) ==
    /\ s[1] = st /\ s[2] = "CR" /\ s[3] = "LF"
    /\ s[4] = Header(size, st) /\ s[5] = "CR" /\ s[6] = "LF"
    /\ s[7] = "CR" /\ s[8] = "LF"
HasObject(s, o) == s[9] = o /\ s[10] = o
HasRefusal(s) == \A i \in 1 .. 11 : s[8 + i] = RefusalBody[i]

\* The tokens of an answer: two lines, an empty one, and the body that its status and
\* size call for.
LEMMA ReplyTokensAre ==
  ASSUME NEW size \in {0, 2}, NEW st \in Statuses, NEW o, NEW s, s = ReplyTokens(size, st, o)
  PROVE  /\ Len(s) = ReplyLen(size, st)
         /\ ReplyLen(size, st) \in 8 .. 19
         /\ HasLines(s, size, st)
         /\ st = "200" /\ size = 2 => HasObject(s, o)
         /\ st = "503" => HasRefusal(s)
<1>0. PICK y : y = Header(size, st)
  OBVIOUS
<1> DEFINE a == << st, "CR", "LF", y, "CR", "LF", "CR", "LF" >>
<1>1. CASE st = "503"
  <2>1. s = a \o RefusalBody
    BY <1>0, <1>1 DEF ReplyTokens
  <2>2. ReplyLen(size, st) = 19
    BY <1>1 DEF ReplyLen
  <2>3. /\ Len(s) = 19 /\ s[1] = st /\ s[2] = "CR" /\ s[3] = "LF" /\ s[4] = y /\ s[5] = "CR"
        /\ s[6] = "LF" /\ s[7] = "CR" /\ s[8] = "LF"
        /\ \A i \in 1 .. 11 : s[8 + i] = RefusalBody[i]
    BY ONLY <2>1 DEF RefusalBody
  <2>4. HasRefusal(s)
    BY <2>3 DEF HasRefusal
  <2>5. HasLines(s, size, st)
    BY <1>0, <2>3 DEF HasLines
  <2>6. Len(s) = ReplyLen(size, st) /\ ReplyLen(size, st) \in 8 .. 19
    BY <2>2, <2>3
  <2>7. ~ (st = "200")
    BY <1>1
  <2> QED
    BY ONLY <2>4, <2>5, <2>6, <2>7
<1>2. CASE st = "200" /\ size = 2
  <2>1. s = a \o << o, o >>
    BY <1>0, <1>2 DEF ReplyTokens
  <2>2. ReplyLen(size, st) = 10
    BY <1>2 DEF ReplyLen
  <2>3. Len(s) = 10 /\ s[1] = st /\ s[2] = "CR" /\ s[3] = "LF" /\ s[4] = y /\ s[5] = "CR"
        /\ s[6] = "LF" /\ s[7] = "CR" /\ s[8] = "LF" /\ s[9] = o /\ s[10] = o
    BY ONLY <2>1
  <2>4. HasObject(s, o)
    BY <2>3 DEF HasObject
  <2>5. HasLines(s, size, st)
    BY <1>0, <2>3 DEF HasLines
  <2>6. Len(s) = ReplyLen(size, st) /\ ReplyLen(size, st) \in 8 .. 19
    BY <2>2, <2>3
  <2>7. ~ (st = "503")
    BY <1>2
  <2> QED
    BY ONLY <2>4, <2>5, <2>6, <2>7
<1>3. CASE st = "200" /\ size = 0
  <2>1. s = a \o << >>
    BY <1>0, <1>3 DEF ReplyTokens
  <2>2. ReplyLen(size, st) = 8
    BY <1>3 DEF ReplyLen
  <2>3. Len(s) = 8 /\ s[1] = st /\ s[2] = "CR" /\ s[3] = "LF" /\ s[4] = y /\ s[5] = "CR"
        /\ s[6] = "LF" /\ s[7] = "CR" /\ s[8] = "LF"
    BY ONLY <2>1
  <2>5. HasLines(s, size, st)
    BY <1>0, <2>3 DEF HasLines
  <2>6. Len(s) = ReplyLen(size, st) /\ ReplyLen(size, st) \in 8 .. 19
    BY <2>2, <2>3
  <2>7. ~ (st = "503") /\ ~ (size = 2)
    BY <1>3
  <2> QED
    BY ONLY <2>5, <2>6, <2>7
<1> QED
  BY <1>1, <1>2, <1>3 DEF Statuses

MessageStates == {"FIRST_LINE_PENDING", "HEADERS_PENDING", "BODY_PENDING", "COMPLETE"}

Messages(Token) ==
    [state : MessageStates, first_line : Seq(Token), headers : SUBSET Token,
     framing : {"none", "known", "chunked", "eof"}, size : Int, chunks : ChunkParsers(Token),
     body : Seq(Token)]

Parsers(Token) ==
    [buffer : Seq(Token), requests : Int, complete : Seq([status : Token, body : Seq(Token)]),
     message : Messages(Token), threw : BOOLEAN]

\* The message that the parser makes of the first off tokens of the reply.
InMessage(m, off, size, st, o) ==
    \/ /\ m.state = "FIRST_LINE_PENDING" /\ off = 0 /\ m = NewMessage
    \/ /\ m.state = "HEADERS_PENDING" /\ m.first_line = << st >> /\ m.body = << >>
       /\ \/ off = 3 /\ m.headers = {}
          \/ off = 6 /\ m.headers = {Header(size, st)}
    \/ /\ m.state = "BODY_PENDING" /\ m.first_line = << st >>
       /\ \/ /\ st = "200" /\ m.framing = "known" /\ m.size = size
             /\ Len(m.body) = off - 8 /\ Len(m.body) <= m.size
             /\ \A i \in 1 .. Len(m.body) : m.body[i] = o
          \/ /\ st = "503" /\ m.framing = "chunked" /\ off \in 8 .. 18
             /\ InRefusal(m.chunks, off - 8) /\ m.chunks.acked = off - 8
    \/ /\ m.state = "COMPLETE" /\ m.first_line = << st >> /\ off = ReplyLen(size, st)
       /\ st = "200" => Len(m.body) = size /\ \A i \in 1 .. Len(m.body) : m.body[i] = o

\* No step of the parser changes anything before more input comes.
Quiet(p) ==
    \/ p.message.state \in {"FIRST_LINE_PENDING", "HEADERS_PENDING"} /\ ~ have_complete_line(p.buffer)
    \/ /\ p.message.state = "BODY_PENDING" /\ Len(p.buffer) = 0
       /\ p.message.framing = "known" => Len(p.message.body) < p.message.size

Weight(m) == CASE m.state = "FIRST_LINE_PENDING" -> 0 [] m.state = "HEADERS_PENDING" -> 1
               [] m.state = "BODY_PENDING" -> 2 [] m.state = "COMPLETE" -> 1

\* What a step costs.
Measure(p) == Len(p.buffer) + Weight(p.message)

Begun(m) == IF m.state = "FIRST_LINE_PENDING" THEN 0 ELSE 1

\* q is the parser p after it has taken the tokens of a reply from the off-th to the to-th.
Takes(p, q, off, to, size, st, o) ==
    /\ to \in off .. off + Len(p.buffer)
    /\ q.buffer = SubSeq(p.buffer, to - off + 1, Len(p.buffer))
    /\ Len(q.buffer) = Len(p.buffer) - (to - off)
    /\ q.complete = p.complete /\ q.threw = FALSE
    /\ q.requests + Begun(q.message) = p.requests + Begun(p.message)
    /\ InMessage(q.message, to, size, st, o)
    /\ Measure(q) < Measure(p) \/ Quiet(q)
    /\ Quiet(p) => Quiet(q)

\* The parser with k requests, message m, and the buffer from its l-th token.
Stepped(p, k, m, l) ==
    [p EXCEPT !.requests = k, !.message = m, !.buffer = SubSeq(p.buffer, l, Len(p.buffer))]

\* The parser that a step leaves.
LEMMA ParserWith ==
  ASSUME NEW Token, NEW p \in Parsers(Token), NEW m \in Messages(Token), NEW b \in Seq(Token),
         NEW n \in Int, NEW q, q = [p EXCEPT !.requests = n, !.message = m, !.buffer = b]
  PROVE  /\ q \in Parsers(Token) /\ q.requests = n /\ q.message = m /\ q.buffer = b
         /\ q.complete = p.complete /\ q.threw = p.threw
BY DEF Parsers

\* A step that takes the tokens before the l-th and makes m of the message.
LEMMA StepTakes ==
  ASSUME NEW Token, NEW p \in Parsers(Token), p.threw = FALSE, NEW size \in {0, 2},
         NEW st \in Statuses, NEW o,
         NEW off \in Nat, NEW l \in Nat \ {0}, l <= Len(p.buffer) + 1, NEW m \in Messages(Token),
         NEW k \in Int, k + Begun(m) = p.requests + Begun(p.message),
         NEW q, q = Stepped(p, k, m, l),
         NEW to, to = off + (l - 1), InMessage(m, to, size, st, o),
         \/ Weight(m) + 1 < Weight(p.message) + l /\ ~ Quiet(p)
         \/ Quiet(q)
  PROVE  q \in Parsers(Token) /\ Takes(p, q, off, to, size, st, o)
<1>1. p.buffer \in Seq(Token) /\ p.message \in Messages(Token) /\ Len(p.buffer) \in Nat
  BY DEF Parsers
<1>0. PICK n \in Nat : n = l - 1 /\ n <= Len(p.buffer)
  BY <1>1
<1>2. PICK b : b = SubSeq(p.buffer, l, Len(p.buffer))
  OBVIOUS
<1>3. b \in Seq(Token) /\ Len(b) = Len(p.buffer) - n
  <2>1. l = n + 1
    BY <1>0
  <2> QED
    BY ONLY <1>0, <1>1, <1>2, <2>1, RestOf
<1>4. /\ q \in Parsers(Token) /\ q.requests = k /\ q.message = m /\ q.buffer = b
      /\ q.complete = p.complete /\ q.threw = p.threw
  <2>1. q = [p EXCEPT !.requests = k, !.message = m, !.buffer = b]
    BY <1>2 DEF Stepped
  <2> QED
    BY ONLY <1>3, <2>1, p \in Parsers(Token), m \in Messages(Token), k \in Int DEF Parsers
<1>5. Weight(m) \in 0 .. 2 /\ Weight(p.message) \in 0 .. 2
  BY <1>1 DEF Weight, Messages, MessageStates
<1>6. Measure(q) < Measure(p) \/ Quiet(q)
  <2>1. CASE Weight(m) + 1 < Weight(p.message) + l
    BY ONLY <2>1, <1>0, <1>1, <1>3, <1>4, <1>5, l \in Nat DEF Measure
  <2> QED
    BY <2>1
<1>7. to \in off .. off + Len(p.buffer) /\ to - off = n
  BY <1>0, <1>1
<1>8. q.buffer = SubSeq(p.buffer, to - off + 1, Len(p.buffer)) /\ q.threw = FALSE
  <2>1. l = to - off + 1
    BY <1>0, <1>7
  <2> QED
    BY <1>2, <1>4, <2>1
<1>9. q.requests + Begun(q.message) = p.requests + Begun(p.message)
  BY <1>4
<1>10. InMessage(q.message, to, size, st, o)
  BY <1>4
<1>11. Len(q.buffer) = Len(p.buffer) - (to - off)
  BY <1>3, <1>4, <1>7
<1> QED
  BY <1>4, <1>6, <1>7, <1>8, <1>9, <1>10, <1>11 DEF Takes

\* The fields of a parser.
LEMMA TypesOfParser ==
  ASSUME NEW Token, NEW p \in Parsers(Token)
  PROVE  /\ p.buffer \in Seq(Token) /\ Len(p.buffer) \in Nat /\ p.message \in Messages(Token)
         /\ p.requests \in Int /\ p.threw \in BOOLEAN
         /\ p.complete \in Seq([status : Token, body : Seq(Token)])
         /\ p.message.chunks \in ChunkParsers(Token) /\ p.message.body \in Seq(Token)
         /\ p.message.headers \subseteq Token
BY DEF Parsers, Messages

\* A parser that has nothing to do takes nothing.
LEMMA TakesNothing ==
  ASSUME NEW Token, NEW p \in Parsers(Token), p.threw = FALSE, NEW size \in {0, 2}, NEW st \in Statuses, NEW o,
         NEW off \in Nat, InMessage(p.message, off, size, st, o), Quiet(p)
  PROVE  Takes(p, p, off, off, size, st, o)
<1>1. p.buffer \in Seq(Token) /\ Len(p.buffer) \in Nat
  BY TypesOfParser
<1>2. p.buffer = SubSeq(p.buffer, off - off + 1, Len(p.buffer))
  <2>1. off - off + 1 = 1
    OBVIOUS
  <2>2. \A b \in Seq(Token) : b = SubSeq(b, 1, Len(b))
    OBVIOUS
  <2> QED
    BY <1>1, <2>1, <2>2
<1>3. off \in off .. off + Len(p.buffer) /\ Len(p.buffer) = Len(p.buffer) - (off - off)
  BY <1>1
<1> QED
  BY <1>2, <1>3 DEF Takes

\* The buffer in the middle of a reply.
LEMMA BufferInReply ==
  ASSUME NEW Token, NEW b \in Seq(Token), NEW size \in {0, 2}, NEW st \in Statuses, NEW o,
         NEW off \in Nat, GoesOn(b, off, ReplyTokens(size, st, o))
  PROVE  \A i \in 1 .. Len(b) :
            /\ off + i = 1 => b[i] = st
            /\ off + i \in {2, 5, 7} => b[i] = "CR"
            /\ off + i \in {3, 6, 8} => b[i] = "LF"
            /\ off + i = 4 => b[i] = Header(size, st)
            /\ off + i \in {9, 10} /\ st = "200" /\ size = 2 => b[i] = o
            /\ st = "503" /\ off + i \in 9 .. 19 => b[i] = RefusalBody[off + i - 8]
<1>1. PICK s : s = ReplyTokens(size, st, o)
  OBVIOUS
<1>2. PICK n \in 8 .. 19 : n = Len(s) /\ n = ReplyLen(size, st)
  BY <1>1, ReplyTokensAre
<1>3. \A i \in 1 .. Len(b) : off + i <= n => b[i] = s[off + i]
  BY <1>1, <1>2 DEF GoesOn
<1>4. (st = "200" /\ size = 2 => n = 10) /\ (st = "503" => n = 19)
  BY <1>2 DEF ReplyLen
<1> SUFFICES ASSUME NEW i \in 1 .. Len(b)
             PROVE  /\ off + i = 1 => b[i] = st
                    /\ off + i \in {2, 5, 7} => b[i] = "CR"
                    /\ off + i \in {3, 6, 8} => b[i] = "LF"
                    /\ off + i = 4 => b[i] = Header(size, st)
                    /\ off + i \in {9, 10} /\ st = "200" /\ size = 2 => b[i] = o
                    /\ st = "503" /\ off + i \in 9 .. 19 => b[i] = RefusalBody[off + i - 8]
  OBVIOUS
<1>5. PICK j \in Nat : j = off + i
  OBVIOUS
<1>6. j <= n => b[i] = s[j]
  BY <1>3, <1>5
<1>7. /\ j = 1 => b[i] = st
      /\ j \in {2, 5, 7} => b[i] = "CR"
      /\ j \in {3, 6, 8} => b[i] = "LF"
      /\ j = 4 => b[i] = Header(size, st)
  <2>1. HasLines(s, size, st)
    BY <1>1, ReplyTokensAre
  <2>2. ASSUME j \in 1 .. 8 PROVE b[i] = s[j]
    <3>1. n \in 8 .. 19
      BY <1>2
    <3>2. j <= n
      BY ONLY <3>1, <2>2
    <3> QED
      BY ONLY <3>2, <1>6
  <2> QED
    BY ONLY <2>1, <2>2, j \in Nat DEF HasLines
<1>8. ASSUME st = "200", size = 2, j \in {9, 10} PROVE b[i] = o
  <2>1. HasObject(s, o)
    BY <1>1, <1>8, ReplyTokensAre
  <2>2. b[i] = s[j]
    BY <1>4, <1>6, <1>8
  <2> QED
    BY ONLY <1>8, <2>1, <2>2 DEF HasObject
<1>9. ASSUME st = "503", j \in 9 .. 19 PROVE b[i] = RefusalBody[j - 8]
  <2>1. HasRefusal(s)
    BY <1>1, <1>9, ReplyTokensAre
  <2>2. b[i] = s[j]
    BY <1>4, <1>6, <1>9
  <2>3. j - 8 \in 1 .. 11 /\ 8 + (j - 8) = j
    BY <1>9
  <2>4. s[8 + (j - 8)] = RefusalBody[j - 8]
    BY <2>1, <2>3 DEF HasRefusal
  <2> QED
    BY ONLY <2>2, <2>3, <2>4
<1> QED
  BY ONLY <1>5, <1>7, <1>8, <1>9

\* A sequence's first element, as a sequence.
LEMMA HeadOf ==
  ASSUME NEW Token, NEW b \in Seq(Token), 1 <= Len(b)
  PROVE  SubSeq(b, 1, 1) = << b[1] >> /\ SubSeq(b, 1, 1) \in Seq(Token)
<1>1. SubSeq(b, 1, 1) \in Seq(Token) /\ Len(SubSeq(b, 1, 1)) = 1 /\ SubSeq(b, 1, 1)[1] = b[1]
  OBVIOUS
<1>2. << b[1] >> \in Seq(Token) /\ Len(<< b[1] >>) = 1 /\ << b[1] >>[1] = b[1]
  OBVIOUS
<1>3. \A s, t \in Seq(Token) : Len(s) = 1 /\ Len(t) = 1 /\ s[1] = t[1] => s = t
  BY SeqEqual
<1> QED
  BY ONLY <1>1, <1>2, <1>3

\* The first line of a response.
LEMMA FirstLineTaken ==
  ASSUME NEW Token, NEW p \in Parsers(Token), p.threw = FALSE, NEW size \in {0, 2},
         NEW st \in Statuses, NEW o, NEW off \in Nat, InMessage(p.message, off, size, st, o),
         GoesOn(p.buffer, off, ReplyTokens(size, st, o)),
         p.message.state = "FIRST_LINE_PENDING", have_complete_line(p.buffer), p.requests >= 1,
         NEW q, q = parsing_step(p), NEW to, to = off + 3
  PROVE  q \in Parsers(Token) /\ Takes(p, q, off, to, size, st, o)
<1> DEFINE b == p.buffer
<1>1. b \in Seq(Token) /\ Len(b) \in Nat /\ p.message \in Messages(Token) /\ p.requests \in Int
  BY TypesOfParser
<1>2. off = 0 /\ p.message = NewMessage
  BY DEF InMessage
<1>3. q = first_line_step(p)
  BY DEF parsing_step
<1>4. /\ 1 <= Len(b) => b[1] = st
      /\ 2 <= Len(b) => b[2] = "CR"
      /\ 3 <= Len(b) => b[3] = "LF"
  <2> HIDE DEF b
  <2>1. \A i \in 1 .. Len(b) : /\ off + i = 1 => b[i] = st
                               /\ off + i \in {2, 5, 7} => b[i] = "CR"
                               /\ off + i \in {3, 6, 8} => b[i] = "LF"
    BY <1>1, BufferInReply DEF b
  <2> QED
    BY <1>1, <1>2, <2>1
<1>5. 3 <= Len(b) /\ Line(b) = SubSeq(b, 1, 1) /\ AfterLine(b) = SubSeq(b, 4, Len(b))
  <2>1. Len(b) >= 2
    BY <1>1 DEF have_complete_line
  <2>2. b[1] # "CR"
    BY <1>4, <2>1 DEF Statuses
  <2>3. have_complete_line(b)
    OBVIOUS
  <2> HIDE DEF b
  <2> QED
    BY <1>1, <1>4, <2>2, <2>3, LineOf
<1>6. Line(b) = << st >> /\ Line(b) \in Seq(Token)
  <2> HIDE DEF b
  <2> QED
    BY <1>1, <1>4, <1>5, HeadOf
<1>7. PICK m : m = [p.message EXCEPT !.first_line = Line(b), !.state = "HEADERS_PENDING"]
  OBVIOUS
<1>8. /\ m \in Messages(Token) /\ m.state = "HEADERS_PENDING" /\ m.first_line = << st >>
      /\ m.body = << >> /\ m.headers = {}
  <2>1. m \in Messages(Token) /\ m.state = "HEADERS_PENDING" /\ m.first_line = Line(b)
        /\ m.body = p.message.body /\ m.headers = p.message.headers
    BY ONLY <1>1, <1>6, <1>7 DEF Messages, MessageStates
  <2> QED
    BY <1>2, <1>6, <2>1 DEF NewMessage
<1>9. q = [p EXCEPT !.requests = p.requests - 1, !.message = m, !.buffer = SubSeq(p.buffer, 4, Len(p.buffer))]
  BY <1>3, <1>5, <1>7 DEF first_line_step
<1>10. InMessage(m, to, size, st, o)
  BY <1>2, <1>8 DEF InMessage
<1>11. Begun(m) = 1 /\ Begun(p.message) = 0 /\ Weight(m) = 1 /\ Weight(p.message) = 0
  BY <1>8 DEF Begun, Weight
<1>12. ~ Quiet(p)
  BY DEF Quiet
<1>13. PICK k \in Int : k = p.requests - 1
  BY <1>1
<1>14. k + Begun(m) = p.requests + Begun(p.message)
  BY <1>1, <1>11, <1>13
<1>0. PICK l \in Nat \ {0} : l = 4
  OBVIOUS
<1>16. q = Stepped(p, k, m, l)
  BY <1>0, <1>9, <1>13 DEF Stepped
<1>17. to = off + (l - 1) /\ l <= Len(p.buffer) + 1 /\ Weight(m) + 1 < Weight(p.message) + l
  BY <1>0, <1>1, <1>5, <1>11
<1>18. m \in Messages(Token)
  BY <1>8
<1> QED
  BY ONLY p \in Parsers(Token), p.threw = FALSE, size \in {0, 2}, st \in Statuses, off \in Nat,
          k \in Int, l \in Nat \ {0},
          <1>10, <1>12, <1>14, <1>16, <1>17, <1>18, StepTakes

\* In the headers, a complete line makes a header_step.
LEMMA HeaderStep ==
  ASSUME NEW Token, NEW p \in Parsers(Token), p.threw = FALSE,
         p.message.state = "HEADERS_PENDING", have_complete_line(p.buffer)
  PROVE  parsing_step(p) = header_step(p) /\ ~ Quiet(p)
BY DEF parsing_step, Quiet

\* The one header of a response.
LEMMA HeaderTaken ==
  ASSUME NEW Token, NEW p \in Parsers(Token), p.threw = FALSE, NEW size \in {0, 2},
         NEW st \in Statuses, NEW o, NEW off \in Nat, InMessage(p.message, off, size, st, o),
         GoesOn(p.buffer, off, ReplyTokens(size, st, o)),
         p.message.state = "HEADERS_PENDING", have_complete_line(p.buffer), off = 3,
         NEW q, q = parsing_step(p), NEW to, to = off + 3
  PROVE  q \in Parsers(Token) /\ Takes(p, q, off, to, size, st, o)
<1> DEFINE b == p.buffer
<1>1. b \in Seq(Token) /\ Len(b) \in Nat /\ p.message \in Messages(Token) /\ p.requests \in Int
      /\ p.message.headers \subseteq Token
  BY TypesOfParser
<1>2. /\ p.message.first_line = << st >> /\ p.message.body = << >> /\ p.message.headers = {}
  BY DEF InMessage
<1>3. q = header_step(p) /\ ~ Quiet(p)
  BY HeaderStep
<1>4. /\ 1 <= Len(b) => b[1] = Header(size, st)
      /\ 2 <= Len(b) => b[2] = "CR"
      /\ 3 <= Len(b) => b[3] = "LF"
  <2> HIDE DEF b
  <2>1. \A i \in 1 .. Len(b) : /\ off + i \in {2, 5, 7} => b[i] = "CR"
                               /\ off + i \in {3, 6, 8} => b[i] = "LF"
                               /\ off + i = 4 => b[i] = Header(size, st)
    BY <1>1, BufferInReply DEF b
  <2> QED
    BY <1>1, <2>1
<1>5. 3 <= Len(b) /\ Line(b) = SubSeq(b, 1, 1) /\ AfterLine(b) = SubSeq(b, 4, Len(b))
  <2>1. Len(b) >= 2
    BY <1>1 DEF have_complete_line
  <2>2. b[1] # "CR"
    BY <1>4, <2>1 DEF Header
  <2>3. have_complete_line(b)
    OBVIOUS
  <2> HIDE DEF b
  <2> QED
    BY <1>1, <1>4, <2>2, <2>3, LineOf
<1>6. Line(b) = << Header(size, st) >> /\ Line(b) \in Seq(Token)
  <2> HIDE DEF b
  <2> QED
    BY <1>1, <1>4, <1>5, HeadOf
<1>7. PICK m : m = [p.message EXCEPT !.headers = {Header(size, st)}]
  OBVIOUS
<1>8. Header(size, st) \in Token
  <2>1. b[1] \in Token
    BY <1>1, <1>5
  <2> QED
    BY <1>1, <1>4, <1>5, <2>1
<1>9. /\ m \in Messages(Token) /\ m.state = "HEADERS_PENDING" /\ m.first_line = << st >>
      /\ m.body = << >> /\ m.headers = {Header(size, st)}
  <2>1. m \in Messages(Token) /\ m.state = p.message.state /\ m.first_line = p.message.first_line
        /\ m.body = p.message.body /\ m.headers = {Header(size, st)}
    BY ONLY <1>1, <1>7, <1>8 DEF Messages
  <2> QED
    BY <1>2, <2>1
<1>10. q = [p EXCEPT !.message = m, !.buffer = SubSeq(p.buffer, 4, Len(p.buffer))]
  <2>1. Line(b) # << >> /\ Line(b)[1] = Header(size, st)
    BY <1>6
  <2>2. q = [p EXCEPT !.message = add_header(p.message, Line(b)), !.buffer = AfterLine(b)]
    BY ONLY <1>3, <2>1 DEF header_step
  <2>3. add_header(p.message, Line(b)) = m
    BY <1>2, <1>7, <2>1 DEF add_header
  <2> QED
    BY <1>5, <2>2, <2>3
<1>11. InMessage(m, to, size, st, o)
  BY <1>9 DEF InMessage
<1>12. Begun(m) = 1 /\ Begun(p.message) = 1 /\ Weight(m) = 1 /\ Weight(p.message) = 1
  BY <1>9 DEF Begun, Weight
<1>13. PICK k \in Int : k = p.requests
  BY <1>1
<1>14. k + Begun(m) = p.requests + Begun(p.message)
  BY <1>1, <1>12, <1>13
<1>15. PICK l \in Nat \ {0} : l = 4
  OBVIOUS
<1>16. q = Stepped(p, k, m, l)
  BY <1>10, <1>13, <1>15 DEF Stepped, Parsers
<1>17. to = off + (l - 1) /\ l <= Len(p.buffer) + 1 /\ Weight(m) + 1 < Weight(p.message) + l
  BY <1>1, <1>5, <1>12, <1>15
<1>18. m \in Messages(Token) /\ ~ Quiet(p)
  BY <1>3, <1>9
<1> QED
  BY ONLY p \in Parsers(Token), p.threw = FALSE, size \in {0, 2}, st \in Statuses, off \in Nat,
          k \in Int, l \in Nat \ {0},
          <1>11, <1>14, <1>16, <1>17, <1>18, StepTakes

\* What the status and the header say of the body.
LEMMA HeadersSay ==
  ASSUME NEW Token, NEW m \in Messages(Token), NEW size \in {0, 2}, NEW st \in Statuses, NEW o,
         m.state = "HEADERS_PENDING", m.first_line = << st >>, m.body = << >>,
         m.headers = {Header(size, st)}, NEW d, d = done_with_headers(m), NEW to, to = 8
  PROVE  d \in Messages(Token) /\ d.state = "BODY_PENDING" /\ InMessage(d, to, size, st, o)
<1>1. ~ (m.first_line[1] \in BodilessStatus)
  <2>1. m.first_line[1] = st
    BY ONLY m.first_line = << st >>
  <2> QED
    BY ONLY <2>1, st \in Statuses DEF BodilessStatus, Statuses
<1>2. CASE st = "503"
  <2>1. m.headers = {"chunked"}
    BY <1>2 DEF Header
  <2>2. "chunked" \in m.headers /\ trailers_enabled(m) = FALSE
    BY ONLY <2>1 DEF trailers_enabled
  <2>3. PICK c : c = NewChunkedBody(FALSE)
    OBVIOUS
  <2>4. d = [m EXCEPT !.state = "BODY_PENDING", !.framing = "chunked", !.chunks = c]
    <3>1. d = [m EXCEPT !.state = "BODY_PENDING", !.framing = "chunked",
                        !.chunks = NewChunkedBody(trailers_enabled(m))]
      BY ONLY <1>1, <2>2, d = done_with_headers(m) DEF done_with_headers
    <3> QED
      BY ONLY <2>2, <2>3, <3>1
  <2>5. /\ c \in ChunkParsers(Token) /\ c.trailers = FALSE /\ c.parsed = 0 /\ c.state = "CHUNK_HDR"
        /\ c.buffer = << >> /\ c.acked = 0
    BY ONLY <2>3 DEF NewChunkedBody, ChunkParsers, ChunkStates
  <2>6. /\ d \in Messages(Token) /\ d.state = "BODY_PENDING" /\ d.framing = "chunked"
        /\ d.chunks = c /\ d.first_line = m.first_line
    BY ONLY <2>4, <2>5, m \in Messages(Token) DEF Messages, MessageStates
  <2>7. InRefusal(c, to - 8)
    BY <2>5 DEF InRefusal, GoesOn
  <2>8. c.acked = to - 8 /\ to \in 8 .. 18
    BY <2>5
  <2> QED
    BY <1>2, <2>6, <2>7, <2>8 DEF InMessage
<1>3. CASE st = "200"
  <2>1. PICK h : h = IF size = 2 THEN "length2" ELSE "length0"
    OBVIOUS
  <2>2. m.headers = {h}
    BY <1>3, <2>1 DEF Header
  <2>3. ~ ("chunked" \in m.headers) /\ m.headers \cap DOMAIN ContentLengths = {h}
        /\ ContentLengths[h] = size
    BY <2>1, <2>2 DEF ContentLengths
  <2>4. (CHOOSE x \in {h} : TRUE) = h
    OBVIOUS
  <2>5. d = [m EXCEPT !.state = "BODY_PENDING", !.framing = "known", !.size = size]
    BY <1>1, <2>3, <2>4 DEF done_with_headers
  <2>6. /\ d \in Messages(Token) /\ d.state = "BODY_PENDING" /\ d.framing = "known"
        /\ d.size = size /\ d.first_line = m.first_line /\ d.body = m.body
    <3>1. size \in Int
      OBVIOUS
    <3> QED
      BY ONLY <2>5, <3>1, m \in Messages(Token) DEF Messages, MessageStates
  <2>7. Len(d.body) = to - 8 /\ Len(d.body) <= d.size /\ \A i \in 1 .. Len(d.body) : d.body[i] = o
    BY <2>6
  <2> QED
    BY <1>3, <2>6, <2>7 DEF InMessage
<1> QED
  BY <1>2, <1>3 DEF Statuses

\* The empty line after the headers.
LEMMA HeadersTaken ==
  ASSUME NEW Token, NEW p \in Parsers(Token), p.threw = FALSE, NEW size \in {0, 2},
         NEW st \in Statuses, NEW o, NEW off \in Nat, InMessage(p.message, off, size, st, o),
         GoesOn(p.buffer, off, ReplyTokens(size, st, o)),
         p.message.state = "HEADERS_PENDING", have_complete_line(p.buffer), off = 6,
         NEW q, q = parsing_step(p), NEW to, to = off + 2
  PROVE  q \in Parsers(Token) /\ Takes(p, q, off, to, size, st, o)
<1> DEFINE b == p.buffer
<1>1. b \in Seq(Token) /\ Len(b) \in Nat /\ p.message \in Messages(Token) /\ p.requests \in Int
  BY TypesOfParser
<1>2. /\ p.message.first_line = << st >> /\ p.message.body = << >>
      /\ p.message.headers = {Header(size, st)}
  BY DEF InMessage
<1>3. q = header_step(p) /\ ~ Quiet(p)
  BY HeaderStep
<1>4. /\ 1 <= Len(b) => b[1] = "CR"
      /\ 2 <= Len(b) => b[2] = "LF"
  <2> HIDE DEF b
  <2>1. \A i \in 1 .. Len(b) : /\ off + i \in {2, 5, 7} => b[i] = "CR"
                               /\ off + i \in {3, 6, 8} => b[i] = "LF"
    BY <1>1, BufferInReply DEF b
  <2> QED
    BY <1>1, <2>1
<1>5. 2 <= Len(b) /\ Line(b) = SubSeq(b, 1, 0) /\ AfterLine(b) = SubSeq(b, 3, Len(b))
  <2>1. Len(b) >= 2
    BY <1>1 DEF have_complete_line
  <2>3. have_complete_line(b)
    OBVIOUS
  <2> HIDE DEF b
  <2> QED
    BY <1>1, <1>4, <2>1, <2>3, LineOf
<1>6. Line(b) = << >>
  <2> HIDE DEF b
  <2> QED
    BY <1>1, <1>5
<1>7. PICK m : m = done_with_headers(p.message)
  OBVIOUS
<1>9. m \in Messages(Token) /\ m.state = "BODY_PENDING" /\ InMessage(m, to, size, st, o)
  <2>1. PICK m0 : m0 = p.message
    OBVIOUS
  <2>2. m0 \in Messages(Token) /\ m0.state = "HEADERS_PENDING" /\ m0.first_line = << st >>
        /\ m0.body = << >> /\ m0.headers = {Header(size, st)} /\ m = done_with_headers(m0)
    BY <1>1, <1>2, <1>7, <2>1
  <2>3. to = 8
    OBVIOUS
  <2> QED
    BY ONLY <2>2, <2>3, HeadersSay, size \in {0, 2}, st \in Statuses
<1>10. q = [p EXCEPT !.message = m, !.buffer = SubSeq(p.buffer, 3, Len(p.buffer))]
  BY <1>3, <1>5, <1>6, <1>7 DEF header_step
<1>12. Begun(m) = 1 /\ Begun(p.message) = 1 /\ Weight(m) = 2 /\ Weight(p.message) = 1
  BY <1>9 DEF Begun, Weight
<1>13. PICK k \in Int : k = p.requests
  BY <1>1
<1>14. k + Begun(m) = p.requests + Begun(p.message)
  BY <1>1, <1>12, <1>13
<1>15. PICK l \in Nat \ {0} : l = 3
  OBVIOUS
<1>16. q = Stepped(p, k, m, l)
  BY <1>10, <1>13, <1>15 DEF Stepped, Parsers
<1>17. to = off + (l - 1) /\ l <= Len(p.buffer) + 1 /\ Weight(m) + 1 < Weight(p.message) + l
  BY <1>1, <1>5, <1>12, <1>15
<1>18. m \in Messages(Token) /\ ~ Quiet(p)
  BY <1>3, <1>9
<1> QED
  BY ONLY p \in Parsers(Token), p.threw = FALSE, size \in {0, 2}, st \in Statuses, off \in Nat,
          k \in Int, l \in Nat \ {0},
          <1>9, <1>14, <1>16, <1>17, <1>18, StepTakes

\* q is p with k requests and message m, without the tokens before the l-th.
Advanced(p, k, m, l, q) ==
    /\ q = Stepped(p, k, m, l)
    /\ q.message = m
    /\ l > Len(p.buffer) => q.buffer = << >>

\* What a step that takes the tokens before the l-th leaves.
LEMMA SteppedFields ==
  ASSUME NEW Token, NEW p \in Parsers(Token), NEW l \in Nat \ {0}, l <= Len(p.buffer) + 1,
         NEW m \in Messages(Token), NEW k \in Int, NEW q, q = Stepped(p, k, m, l)
  PROVE  Advanced(p, k, m, l, q)
<1> USE DEF Advanced
<1>1. p.buffer \in Seq(Token) /\ Len(p.buffer) \in Nat
  BY TypesOfParser
<1>2. PICK b : b = SubSeq(p.buffer, l, Len(p.buffer))
  OBVIOUS
<1>3. PICK n \in Nat : n = l - 1 /\ n <= Len(p.buffer) /\ l = n + 1
  BY <1>1
<1>4. b \in Seq(Token) /\ Len(b) = Len(p.buffer) - n
  BY ONLY <1>1, <1>2, <1>3, RestOf
<1>5. q = [p EXCEPT !.requests = k, !.message = m, !.buffer = b]
  BY <1>2 DEF Stepped
<1>6. q.message = m /\ q.buffer = b
  BY ONLY <1>4, <1>5, p \in Parsers(Token), m \in Messages(Token), k \in Int DEF Parsers
<1>7. l > Len(p.buffer) => b = << >>
  <2>1. l > Len(p.buffer) => Len(b) = 0
    BY <1>1, <1>3, <1>4
  <2> QED
    BY <1>4, <2>1
<1> QED
  BY <1>6, <1>7

\* In a body, a step is body_step.
LEMMA BodyStep ==
  ASSUME NEW Token, NEW p \in Parsers(Token), p.threw = FALSE, p.message.state = "BODY_PENDING"
  PROVE  parsing_step(p) = body_step(p)
BY DEF parsing_step

\* The body goes on with the first n tokens of b, which all are o.
LEMMA BodyGoesOn ==
  ASSUME NEW Token, NEW body \in Seq(Token), NEW b \in Seq(Token), NEW n \in Nat, n <= Len(b),
         NEW o, \A i \in 1 .. Len(body) : body[i] = o, \A i \in 1 .. n : b[i] = o,
         NEW d, d = body \o SubSeq(b, 1, n)
  PROVE  d \in Seq(Token) /\ Len(d) = Len(body) + n /\ \A i \in 1 .. Len(d) : d[i] = o
<1>1. PICK s : s = SubSeq(b, 1, n)
  OBVIOUS
<1>2. s \in Seq(Token) /\ Len(s) = n /\ \A i \in 1 .. n : s[i] = b[i]
  BY <1>1
<1>3. d = body \o s
  BY <1>1
<1>4. d \in Seq(Token) /\ Len(d) = Len(body) + n
  BY <1>2, <1>3
<1>5. ASSUME NEW i \in 1 .. Len(d) PROVE d[i] = o
  <2>1. CASE i <= Len(body)
    BY <1>2, <1>3, <1>4, <2>1
  <2>2. CASE i > Len(body)
    <3>1. i - Len(body) \in 1 .. n
      BY <1>4, <2>2
    <3>2. d[i] = s[i - Len(body)]
      BY <1>2, <1>3, <1>4, <2>2
    <3> QED
      BY <1>2, <3>1, <3>2
  <2> QED
    BY <2>1, <2>2
<1> QED
  BY <1>4, <1>5

\* The smaller of two integers.
LEMMA MinOfTwo ==
  ASSUME NEW a \in Int, NEW b \in Int
  PROVE  Min({a, b}) = IF a <= b THEN a ELSE b
BY DEF Min

\* A piece of a body of known size.
LEMMA KnownBodyTaken ==
  ASSUME NEW Token, NEW p \in Parsers(Token), p.threw = FALSE, NEW size \in {0, 2},
         NEW st \in Statuses, NEW o, NEW off \in Nat, InMessage(p.message, off, size, st, o),
         GoesOn(p.buffer, off, ReplyTokens(size, st, o)),
         p.message.state = "BODY_PENDING", st = "200",
         NEW q, q = parsing_step(p)
  PROVE  q \in Parsers(Token) /\ \E to \in Nat : Takes(p, q, off, to, size, st, o)
<1> DEFINE b == p.buffer
<1>1. b \in Seq(Token) /\ Len(b) \in Nat /\ p.message \in Messages(Token) /\ p.requests \in Int
      /\ p.message.body \in Seq(Token)
  BY TypesOfParser
<1>2. /\ p.message.first_line = << st >> /\ p.message.framing = "known" /\ p.message.size = size
      /\ Len(p.message.body) = off - 8 /\ Len(p.message.body) <= size
      /\ \A i \in 1 .. Len(p.message.body) : p.message.body[i] = o
  BY DEF InMessage
<1>3. q = body_step(p)
  BY BodyStep
<1>4. PICK amount \in Nat : /\ amount = Min({size - Len(p.message.body), Len(b)})
                            /\ amount <= Len(b) /\ amount <= size - Len(p.message.body)
                            /\ amount = Len(b) \/ amount = size - Len(p.message.body)
  <2>1. size - Len(p.message.body) \in Nat
    BY <1>1, <1>2
  <2>2. PICK a \in Nat : a = size - Len(p.message.body)
    BY <2>1
  <2> HIDE DEF b
  <2> QED
    BY <1>1, <2>2, MinOfTwo
<1>5. \A i \in 1 .. amount : b[i] = o
  <2> HIDE DEF b
  <2>1. \A i \in 1 .. Len(b) : off + i \in {9, 10} /\ st = "200" /\ size = 2 => b[i] = o
    BY <1>1, BufferInReply DEF b
  <2>2. \A i \in 1 .. amount : off + i \in {9, 10} /\ size = 2 /\ i \in 1 .. Len(b)
    BY <1>1, <1>2, <1>4
  <2> QED
    BY <2>1, <2>2
<1>6. PICK body : body = p.message.body \o SubSeq(b, 1, amount)
  OBVIOUS
<1>7. /\ body \in Seq(Token) /\ Len(body) = Len(p.message.body) + amount
      /\ \A i \in 1 .. Len(body) : body[i] = o
  <2>1. PICK b0, d0 : b0 = b /\ d0 = p.message.body
    OBVIOUS
  <2>2. b0 \in Seq(Token) /\ d0 \in Seq(Token) /\ amount <= Len(b0) /\ body = d0 \o SubSeq(b0, 1, amount)
    BY <1>1, <1>4, <1>6, <2>1
  <2>3. (\A i \in 1 .. Len(d0) : d0[i] = o) /\ \A i \in 1 .. amount : b0[i] = o
    BY <1>2, <1>5, <2>1
  <2>4. body \in Seq(Token) /\ Len(body) = Len(d0) + amount /\ \A i \in 1 .. Len(body) : body[i] = o
    BY ONLY <2>2, <2>3, amount \in Nat, BodyGoesOn
  <2> QED
    BY <2>1, <2>4
<1>8. PICK state : state = IF Len(body) = size THEN "COMPLETE" ELSE "BODY_PENDING"
  OBVIOUS
<1>9. PICK m : m = [p.message EXCEPT !.body = body, !.state = state]
  OBVIOUS
<1>10. q = [p EXCEPT !.message = m, !.buffer = SubSeq(p.buffer, amount + 1, Len(p.buffer))]
  <2>1. read_in_body(p.message, b) =
          [message |-> [p.message EXCEPT !.body = body,
                                         !.state = IF Len(body) = p.message.size THEN "COMPLETE" ELSE @],
           amount |-> amount]
    BY <1>2, <1>4, <1>6 DEF read_in_body
  <2>2. read_in_body(p.message, b) = [message |-> m, amount |-> amount]
    BY <1>2, <1>8, <1>9, <2>1
  <2> QED
    BY <1>3, <2>2 DEF body_step
<1>11. /\ m \in Messages(Token) /\ m.state = state /\ m.first_line = << st >>
       /\ m.body = body /\ m.framing = "known" /\ m.size = size
  <2>1. state \in MessageStates
    BY ONLY <1>8 DEF MessageStates
  <2>2. /\ m \in Messages(Token) /\ m.state = state /\ m.first_line = p.message.first_line
        /\ m.body = body /\ m.framing = p.message.framing /\ m.size = p.message.size
    BY ONLY <1>1, <1>7, <1>9, <2>1 DEF Messages
  <2> QED
    BY <1>2, <2>2
<1>12. PICK to \in Nat : to = off + amount
  OBVIOUS
<1>13. InMessage(m, to, size, st, o)
  <2>1. Len(body) = to - 8 /\ Len(body) <= size
    BY <1>1, <1>2, <1>4, <1>7, <1>12
  <2>2. CASE Len(body) = size
    <3>1. to = ReplyLen(size, st)
      BY <1>12, <2>1, <2>2 DEF ReplyLen
    <3> QED
      BY <1>7, <1>8, <1>11, <2>2, <3>1 DEF InMessage
  <2>3. CASE Len(body) # size
    BY <1>7, <1>8, <1>11, <2>1, <2>3 DEF InMessage
  <2> QED
    BY <2>2, <2>3
<1>14. PICK k \in Int : k = p.requests
  BY <1>1
<1>15. PICK l \in Nat \ {0} : l = amount + 1
  OBVIOUS
<1>16. q = Stepped(p, k, m, l)
  BY <1>10, <1>14, <1>15 DEF Stepped, Parsers
<1>17. to = off + (l - 1) /\ l <= Len(p.buffer) + 1
  BY <1>1, <1>4, <1>12, <1>15
<1>18. Begun(m) = 1 /\ Begun(p.message) = 1 /\ Weight(p.message) = 2
  BY <1>8, <1>11 DEF Begun, Weight
<1>19. k + Begun(m) = p.requests + Begun(p.message)
  BY <1>1, <1>14, <1>18
<1>20. m \in Messages(Token)
  BY <1>11
<1>21. \/ Weight(m) + 1 < Weight(p.message) + l /\ ~ Quiet(p)
       \/ Quiet(q)
  <2>1. CASE Len(body) = size
    <3>1. Weight(m) = 1
      BY <1>8, <1>11, <2>1 DEF Weight
    <3>2. ~ Quiet(p)
      <4>1. Len(b) = 0 => ~ (Len(p.message.body) < p.message.size)
        BY <1>1, <1>2, <1>4, <1>7, <2>1
      <4> QED
        BY <1>2, <4>1 DEF Quiet
    <3> QED
      BY <1>15, <1>18, <3>1, <3>2
  <2>2. CASE Len(body) # size
    <3>1. amount = Len(b)
      BY <1>1, <1>2, <1>4, <1>7, <2>2
    <3>2. q.message = m /\ (l > Len(p.buffer) => q.buffer = << >>)
      <4>1. Advanced(p, k, m, l, q)
        BY ONLY <1>16, <1>17, <1>20, p \in Parsers(Token), l \in Nat \ {0}, k \in Int, SteppedFields
      <4> QED
        BY <4>1 DEF Advanced
    <3>3. Len(q.buffer) = 0
      <4>1. l > Len(p.buffer)
        BY <1>1, <1>15, <3>1
      <4> QED
        BY ONLY <3>2, <4>1
    <3>4. Len(q.message.body) < q.message.size /\ q.message.state = "BODY_PENDING"
      BY <1>1, <1>2, <1>4, <1>7, <1>8, <1>11, <2>2, <3>2
    <3> QED
      BY <3>3, <3>4 DEF Quiet
  <2> QED
    BY <2>1, <2>2
<1>22. q \in Parsers(Token) /\ Takes(p, q, off, to, size, st, o)
  BY ONLY p \in Parsers(Token), p.threw = FALSE, size \in {0, 2}, st \in Statuses, off \in Nat,
          k \in Int, l \in Nat \ {0},
          <1>13, <1>16, <1>17, <1>19, <1>20, <1>21, StepTakes
<1> QED
  BY <1>22

\* A piece of the body of a refusal.
LEMMA ChunkedBodyTaken ==
  ASSUME NEW Token, NEW p \in Parsers(Token), p.threw = FALSE, NEW size \in {0, 2},
         NEW st \in Statuses, NEW o, NEW off \in Nat, InMessage(p.message, off, size, st, o),
         GoesOn(p.buffer, off, ReplyTokens(size, st, o)),
         p.message.state = "BODY_PENDING", st = "503",
         NEW q, q = parsing_step(p)
  PROVE  q \in Parsers(Token) /\ \E to \in Nat : Takes(p, q, off, to, size, st, o)
<1> DEFINE b == p.buffer
           c == p.message.chunks
<1>1. b \in Seq(Token) /\ Len(b) \in Nat /\ p.message \in Messages(Token) /\ p.requests \in Int
      /\ p.message.body \in Seq(Token) /\ c \in ChunkParsers(Token)
  BY TypesOfParser
<1>2. /\ p.message.first_line = << st >> /\ p.message.framing = "chunked"
      /\ off \in 8 .. 18 /\ InRefusal(c, off - 8) /\ c.acked = off - 8
  BY DEF InMessage
<1>3. q = body_step(p)
  BY BodyStep
<1>4. PICK given \in 0 .. 10 : given = off - 8
  BY <1>2
<1>5. GoesOn(b, given, RefusalBody)
  <2> HIDE DEF b
  <2>1. \A i \in 1 .. Len(b) : st = "503" /\ off + i \in 9 .. 19 => b[i] = RefusalBody[off + i - 8]
    BY <1>1, BufferInReply DEF b
  <2>2. ASSUME NEW i \in 1 .. Len(b), given + i <= 11 PROVE b[i] = RefusalBody[given + i]
    <3>0. off = given + 8 /\ i \in Nat \ {0}
      BY <1>1, <1>4
    <3>1. off + i \in 9 .. 19 /\ off + i - 8 = given + i
      BY ONLY <2>2, <3>0, given \in 0 .. 10, off \in Nat
    <3> QED
      BY <2>1, <3>1
  <2> QED
    BY <2>2, RefusalTokens DEF GoesOn
<1>6. PICK r : r = read_chunked(c, b)
  OBVIOUS
<1>7. /\ r.parser \in ChunkParsers(Token)
      /\ Len(b) >= 11 - given => r.amount = 11 - given
      /\ Len(b) < 11 - given =>
            /\ r.amount = Npos
            /\ InRefusal(r.parser, given + Len(b))
            /\ r.parser.acked = given + Len(b)
  <2>1. InRefusal(c, given) /\ c.acked = given
    BY <1>2, <1>4
  <2>2. PICK b0, c0 : b0 = b /\ c0 = c
    OBVIOUS
  <2>3. c0 \in ChunkParsers(Token) /\ b0 \in Seq(Token) /\ InRefusal(c0, given) /\ c0.acked = given
        /\ GoesOn(b0, given, RefusalBody) /\ r = read_chunked(c0, b0)
    BY <1>1, <1>5, <1>6, <2>1, <2>2
  <2>4. r.parser \in ChunkParsers(Token)
    BY ONLY <2>3, given \in 0 .. 10, ReadChunked
  <2>5. Len(b0) >= 11 - given => r.amount = 11 - given
    BY ONLY <2>3, given \in 0 .. 10, ReadChunked
  <2>6. Len(b0) < 11 - given => r.amount = Npos
    BY ONLY <2>3, given \in 0 .. 10, ReadChunked
  <2>7. Len(b0) < 11 - given => InRefusal(r.parser, given + Len(b0))
    BY ONLY <2>3, given \in 0 .. 10, ReadChunked
  <2>8. Len(b0) < 11 - given => r.parser.acked = given + Len(b0)
    BY ONLY <2>3, given \in 0 .. 10, ReadChunked
  <2> HIDE DEF b
  <2> QED
    BY ONLY <2>2, <2>4, <2>5, <2>6, <2>7, <2>8
<1>8. PICK amount \in Nat : amount = IF Len(b) >= 11 - given THEN 11 - given ELSE Len(b)
  <2>1. PICK n \in Nat : n = Len(b)
    BY <1>1
  <2> QED
    BY ONLY <2>1, given \in 0 .. 10
<1>9. amount <= Len(b) /\ amount = IF r.amount = Npos THEN Len(b) ELSE r.amount
  <2>1. CASE Len(b) >= 11 - given
    <3>1. r.amount = 11 - given /\ 11 - given # Npos
      BY <1>7, <2>1 DEF Npos
    <3> QED
      BY <1>1, <1>8, <2>1, <3>1
  <2>2. CASE Len(b) < 11 - given
    <3>1. amount = Len(b)
      BY <1>1, <1>8, <2>2
    <3> QED
      BY <1>1, <1>7, <2>2, <3>1
  <2>3. PICK n \in Nat : n = Len(b)
    BY <1>1
  <2>4. n >= 11 - given \/ n < 11 - given
    OBVIOUS
  <2> QED
    BY ONLY <2>1, <2>2, <2>3, <2>4
<1>10. PICK body \in Seq(Token) : body = p.message.body \o SubSeq(b, 1, amount)
  <2>1. SubSeq(b, 1, amount) \in Seq(Token)
    <3> HIDE DEF b
    <3> QED
      BY <1>1, <1>9
  <2>2. PICK s, d : s = SubSeq(b, 1, amount) /\ d = p.message.body
    OBVIOUS
  <2>3. s \in Seq(Token) /\ d \in Seq(Token)
    BY <1>1, <2>1, <2>2
  <2>4. d \o s \in Seq(Token)
    BY ONLY <2>3
  <2> QED
    BY ONLY <2>2, <2>4
<1>11. PICK state : state = IF Len(b) >= 11 - given THEN "COMPLETE" ELSE "BODY_PENDING"
  OBVIOUS
<1>12. PICK chunks \in ChunkParsers(Token) : chunks = r.parser
  BY <1>7
<1>13. PICK m : m = [p.message EXCEPT !.body = body, !.chunks = chunks, !.state = state]
  OBVIOUS
<1>14. q = [p EXCEPT !.message = m, !.buffer = SubSeq(p.buffer, amount + 1, Len(p.buffer))]
  <2>1. read_in_body(p.message, b) =
          [message |-> [p.message EXCEPT !.body = body, !.chunks = chunks,
                                         !.state = IF r.amount = Npos THEN @ ELSE "COMPLETE"],
           amount |-> amount]
    BY <1>2, <1>6, <1>9, <1>10, <1>12 DEF read_in_body
  <2>2. (IF r.amount = Npos THEN p.message.state ELSE "COMPLETE") = state
    <3>1. CASE Len(b) >= 11 - given
      BY <1>7, <1>11, <3>1 DEF Npos
    <3>2. CASE Len(b) < 11 - given
      BY <1>1, <1>7, <1>11, <3>2
    <3> QED
      BY <1>1, <3>1, <3>2
  <2>3. read_in_body(p.message, b) = [message |-> m, amount |-> amount]
    BY ONLY <1>13, <2>1, <2>2
  <2> QED
    BY <1>3, <2>3 DEF body_step
<1>15. /\ m \in Messages(Token) /\ m.state = state /\ m.first_line = << st >>
       /\ m.framing = "chunked" /\ m.chunks = chunks
  <2>1. state \in MessageStates
    BY ONLY <1>11 DEF MessageStates
  <2>2. /\ m \in Messages(Token) /\ m.state = state /\ m.first_line = p.message.first_line
        /\ m.framing = p.message.framing /\ m.chunks = chunks
    BY ONLY <1>1, body \in Seq(Token), chunks \in ChunkParsers(Token), <1>13, <2>1 DEF Messages
  <2> QED
    BY <1>2, <2>2
<1>16. PICK to \in Nat : to = off + amount
  OBVIOUS
<1>17. InMessage(m, to, size, st, o)
  <2>1. CASE Len(b) >= 11 - given
    <3>1. to = ReplyLen(size, st) /\ m.state = "COMPLETE"
      <4>1. to = 19
        BY <1>2, <1>4, <1>8, <1>16, <2>1
      <4> QED
        BY <1>11, <1>15, <2>1, <4>1 DEF ReplyLen
    <3>2. ~ (st = "200")
      OBVIOUS
    <3> QED
      BY ONLY <1>15, <3>1, <3>2 DEF InMessage
  <2>2. CASE Len(b) < 11 - given
    <3>1. amount = Len(b)
      BY <1>1, <1>8, <2>2
    <3>0. PICK n \in Nat : n = Len(b) /\ n < 11 - given /\ to = off + n /\ off = given + 8
      BY <1>1, <1>4, <1>16, <2>2, <3>1
    <3>2. to - 8 = given + Len(b) /\ to \in 8 .. 18
      <4>0. to = off + n /\ off = given + 8 /\ n < 11 - given
        BY ONLY <3>0
      <4>1. to - 8 = given + n /\ to \in 8 .. 18
        BY ONLY <4>0, to \in Nat, off \in Nat, n \in Nat, given \in 0 .. 10
      <4> QED
        BY ONLY <3>0, <4>1
    <3>3. InRefusal(m.chunks, to - 8) /\ m.chunks.acked = to - 8
      BY <1>7, <1>12, <1>15, <2>2, <3>2
    <3>4. m.state = "BODY_PENDING"
      BY <1>1, <1>11, <1>15, <2>2
    <3> QED
      BY ONLY <1>15, <3>2, <3>3, <3>4, st = "503" DEF InMessage
  <2> QED
    BY <1>1, <2>1, <2>2
<1>18. PICK k \in Int : k = p.requests
  BY <1>1
<1>19. PICK l \in Nat \ {0} : l = amount + 1
  OBVIOUS
<1>20. q = Stepped(p, k, m, l)
  BY <1>14, <1>18, <1>19 DEF Stepped, Parsers
<1>21. to = off + (l - 1) /\ l <= Len(p.buffer) + 1
  BY <1>1, <1>9, <1>16, <1>19
<1>22. Begun(m) = 1 /\ Begun(p.message) = 1 /\ Weight(p.message) = 2
  BY <1>11, <1>15 DEF Begun, Weight
<1>23. k + Begun(m) = p.requests + Begun(p.message)
  BY <1>1, <1>18, <1>22
<1>24. m \in Messages(Token)
  BY <1>15
<1>25. \/ Weight(m) + 1 < Weight(p.message) + l /\ ~ Quiet(p)
       \/ Quiet(q)
  <2>1. CASE Len(b) >= 11 - given
    <3>1. Weight(m) = 1
      BY <1>11, <1>15, <2>1 DEF Weight
    <3>2. ~ Quiet(p)
      <4>1. Len(b) # 0
        BY <1>1, <2>1
      <4> QED
        BY <4>1 DEF Quiet
    <3> QED
      BY <1>19, <1>22, <3>1, <3>2
  <2>2. CASE Len(b) < 11 - given
    <3>1. amount = Len(b)
      BY <1>1, <1>8, <2>2
    <3>2. q.message = m /\ (l > Len(p.buffer) => q.buffer = << >>)
      <4>1. Advanced(p, k, m, l, q)
        BY ONLY <1>20, <1>21, <1>24, p \in Parsers(Token), l \in Nat \ {0}, k \in Int, SteppedFields
      <4> QED
        BY <4>1 DEF Advanced
    <3>3. Len(q.buffer) = 0
      <4>1. l > Len(p.buffer)
        BY <1>1, <1>19, <3>1
      <4> QED
        BY ONLY <3>2, <4>1
    <3>4. q.message.framing = "chunked" /\ q.message.state = "BODY_PENDING"
      BY <1>1, <1>11, <1>15, <2>2, <3>2
    <3> QED
      BY <3>3, <3>4 DEF Quiet
  <2> QED
    BY <1>1, <2>1, <2>2
<1>26. q \in Parsers(Token) /\ Takes(p, q, off, to, size, st, o)
  BY ONLY p \in Parsers(Token), p.threw = FALSE, size \in {0, 2}, st \in Statuses, off \in Nat,
          k \in Int, l \in Nat \ {0},
          <1>17, <1>20, <1>21, <1>23, <1>24, <1>25, StepTakes
<1> QED
  BY <1>26

\* A step of the parser within a reply.
LEMMA StepWithinReply ==
  ASSUME NEW Token, NEW p \in Parsers(Token), p.threw = FALSE, NEW size \in {0, 2},
         NEW st \in Statuses, NEW o, NEW off \in Nat, InMessage(p.message, off, size, st, o),
         GoesOn(p.buffer, off, ReplyTokens(size, st, o)),
         p.message.state # "COMPLETE",
         p.message.state = "FIRST_LINE_PENDING" => p.requests >= 1,
         NEW q, q = parsing_step(p)
  PROVE  q \in Parsers(Token) /\ \E to \in Nat : Takes(p, q, off, to, size, st, o)
<1>1. CASE p.message.state = "BODY_PENDING"
  <2>1. CASE st = "200"
    BY <1>1, <2>1, KnownBodyTaken
  <2>2. CASE st = "503"
    BY <1>1, <2>2, ChunkedBodyTaken
  <2> QED
    BY <2>1, <2>2 DEF Statuses
<1>2. CASE p.message.state \in {"FIRST_LINE_PENDING", "HEADERS_PENDING"} /\ ~ have_complete_line(p.buffer)
  <2>1. q = p /\ Quiet(p)
    BY <1>2 DEF parsing_step, Quiet
  <2>2. Takes(p, p, off, off, size, st, o)
    BY <2>1, TakesNothing
  <2> QED
    BY <2>1, <2>2
<1>3. CASE p.message.state = "FIRST_LINE_PENDING" /\ have_complete_line(p.buffer)
  <2>1. PICK to \in Nat : to = off + 3
    OBVIOUS
  <2>2. q \in Parsers(Token) /\ Takes(p, q, off, to, size, st, o)
    BY <1>3, <2>1, FirstLineTaken
  <2> QED
    BY <2>2
<1>4. CASE p.message.state = "HEADERS_PENDING" /\ have_complete_line(p.buffer) /\ off = 3
  <2>1. PICK to \in Nat : to = off + 3
    OBVIOUS
  <2>2. q \in Parsers(Token) /\ Takes(p, q, off, to, size, st, o)
    BY <1>4, <2>1, HeaderTaken
  <2> QED
    BY <2>2
<1>5. CASE p.message.state = "HEADERS_PENDING" /\ have_complete_line(p.buffer) /\ off = 6
  <2>1. PICK to \in Nat : to = off + 2
    OBVIOUS
  <2>2. q \in Parsers(Token) /\ Takes(p, q, off, to, size, st, o)
    BY <1>5, <2>1, HeadersTaken
  <2> QED
    BY <2>2
<1>6. p.message.state = "HEADERS_PENDING" => off = 3 \/ off = 6
  BY DEF InMessage
<1>7. p.message.state \in MessageStates
  BY DEF Parsers, Messages
<1> QED
  BY <1>1, <1>2, <1>3, <1>4, <1>5, <1>6, <1>7 DEF MessageStates

(***************************************************************************)
(* The stream of a connection: answers one after the other, cut into the   *)
(* buffer, the message and the messages that are complete                  *)
(***************************************************************************)

Pos == Nat \ {0}

\* S is what a connection has carried: n answers, the k-th of them with status sts[k]
\* about objs[k], from after the starts[k]-th token on.
Stream(Token, size, S, starts, sts, objs, n) ==
    /\ S \in Seq(Token) /\ n \in Nat
    /\ starts \in [Pos -> Nat] /\ sts \in [Pos -> Statuses]
    /\ starts[1] = 0 /\ starts[n + 1] = Len(S)
    /\ \A k \in 1 .. n :
          /\ starts[k + 1] = starts[k] + ReplyLen(size, sts[k])
          /\ \A i \in 1 .. ReplyLen(size, sts[k]) :
                S[starts[k] + i] = ReplyTokens(size, sts[k], objs[k])[i]

\* b is what follows in S after its first `from` tokens.
Carries(b, S, from) == \A i \in 1 .. Len(b) : b[i] = S[from + i]

\* A complete response is the one that was sent.
RightResponse(c, size, st, o) ==
    /\ c.status = st
    /\ st = "200" => Len(c.body) = size /\ \A i \in 1 .. Len(c.body) : c.body[i] = o

\* The parser of a connection on which sent requests have been written has looked at the
\* answers before the k-th, and popped the first c.
Counted(Token, size, sts, objs, sent, c, k, p) ==
    /\ p \in Parsers(Token) /\ p.threw = FALSE
    /\ k \in Pos /\ c \in Nat /\ sent \in Nat
    /\ p.requests + Begun(p.message) = sent - (k - 1)
    /\ Len(p.complete) = k - 1 - c
    /\ \A i \in 1 .. Len(p.complete) : RightResponse(p.complete[i], size, sts[c + i], objs[c + i])

\* It has taken off tokens of the k-th answer, and holds the rest of the first `end` tokens.
Reading(size, S, starts, sts, objs, n, end, k, off, p) ==
    /\ k <= n + 1 /\ off \in Nat /\ end \in Nat /\ end <= Len(S)
    /\ InMessage(p.message, off, size, sts[k], objs[k])
    /\ k = n + 1 => p.message.state = "FIRST_LINE_PENDING"
    /\ Len(p.buffer) = end - (starts[k] + off)
    /\ Carries(p.buffer, S, starts[k] + off)

\* It has found the end of the stream within the body of a refusal.
Finished(sts, n, k, p) ==
    /\ k <= n + 1
    /\ p.buffer = << >>
    /\ \/ p.message = NewMessage
       \/ k <= n /\ p.message.state = "COMPLETE" /\ p.message.first_line = << sts[k] >> /\ sts[k] = "503"

\* What a step does to the measure.
Progress(p, q) == (Measure(q) < Measure(p) \/ Quiet(q)) /\ (Quiet(p) => Quiet(q))

\* The status of a message.
LEMMA StatusOf ==
  ASSUME NEW Token, NEW p \in Parsers(Token), NEW st, p.message.first_line = << st >>
  PROVE  p.message.first_line[1] = st /\ st \in Token
<1>1. PICK f : f = p.message.first_line
  OBVIOUS
<1>2. f \in Seq(Token) /\ f = << st >>
  BY <1>1, TypesOfParser DEF Messages
<1>3. f[1] = st /\ st \in Token
  BY ONLY <1>2
<1> QED
  BY ONLY <1>1, <1>3

\* q is the parser p after it has recorded the complete response with status st.
Records(Token, p, st, q) ==
    /\ q \in Parsers(Token) /\ q.threw = FALSE /\ q.requests = p.requests
    /\ q.message = NewMessage /\ q.buffer = p.buffer
    /\ [status |-> st, body |-> p.message.body] \in [status : Token, body : Seq(Token)]
    /\ q.complete = Append(p.complete, [status |-> st, body |-> p.message.body])
    /\ Begun(p.message) = 1 /\ Begun(q.message) = 0
    /\ Progress(p, q)

\* The step that takes a complete response.
LEMMA ResponseTaken ==
  ASSUME NEW Token, NEW p \in Parsers(Token), p.threw = FALSE, p.message.state = "COMPLETE",
         NEW st, p.message.first_line = << st >>, NEW q, q = parsing_step(p)
  PROVE  Records(Token, p, st, q)
<1>2. /\ p.buffer \in Seq(Token) /\ p.message \in Messages(Token) /\ p.requests \in Int
      /\ p.complete \in Seq([status : Token, body : Seq(Token)]) /\ p.message.body \in Seq(Token)
      /\ p.message.first_line \in Seq(Token)
  BY TypesOfParser DEF Messages
<1>3. q = complete_step(p)
  BY DEF parsing_step
<1>4. PICK e : e = [status |-> st, body |-> p.message.body]
  OBVIOUS
<1>5. p.message.first_line[1] = st /\ st \in Token
  BY StatusOf
<1>6. e \in [status : Token, body : Seq(Token)]
  BY ONLY <1>2, <1>4, <1>5
<1>7. NewMessage \in Messages(Token) /\ NewMessage.state = "FIRST_LINE_PENDING"
  BY DEF NewMessage, Messages, MessageStates, NewChunkedBody, ChunkParsers, ChunkStates
<1>8. PICK d : d = Append(p.complete, e)
  OBVIOUS
<1>9. q = [p EXCEPT !.complete = d, !.message = NewMessage]
  BY <1>3, <1>4, <1>5, <1>8 DEF complete_step
<1>10. d \in Seq([status : Token, body : Seq(Token)])
  <2>1. PICK E, s : E = [status : Token, body : Seq(Token)] /\ s = p.complete
    OBVIOUS
  <2>2. s \in Seq(E) /\ e \in E /\ d = Append(s, e)
    BY <1>2, <1>6, <1>8, <2>1
  <2>3. d \in Seq(E)
    BY ONLY <2>2
  <2> QED
    BY ONLY <2>1, <2>3
<1>11. /\ q \in Parsers(Token) /\ q.threw = p.threw /\ q.requests = p.requests /\ q.complete = d
       /\ q.message = NewMessage /\ q.buffer = p.buffer
  BY ONLY p \in Parsers(Token), <1>7, <1>9, <1>10 DEF Parsers
<1>12. Begun(p.message) = 1 /\ Begun(q.message) = 0 /\ Weight(p.message) = 1 /\ Weight(q.message) = 0
  BY <1>7, <1>11 DEF Begun, Weight
<1>19. Progress(p, q)
  <2>1. ~ Quiet(p)
    BY DEF Quiet
  <2>2. Len(p.buffer) \in Nat
    BY TypesOfParser
  <2>3. Measure(q) < Measure(p)
    BY <1>11, <1>12, <2>2 DEF Measure
  <2> QED
    BY <2>1, <2>3 DEF Progress
<1>20. /\ [status |-> st, body |-> p.message.body] \in [status : Token, body : Seq(Token)]
       /\ q.complete = Append(p.complete, [status |-> st, body |-> p.message.body])
  BY <1>4, <1>6, <1>8, <1>11
<1> QED
  BY <1>11, <1>12, <1>19, <1>20 DEF Records

\* A complete response is counted.
LEMMA ResponseCounted ==
  ASSUME NEW Token, NEW size \in {0, 2}, NEW sts \in [Pos -> Statuses], NEW objs,
         NEW sent, NEW c, NEW k, NEW p, Counted(Token, size, sts, objs, sent, c, k, p),
         p.message.state = "COMPLETE", p.message.first_line = << sts[k] >>,
         sts[k] = "200" => Len(p.message.body) = size
                           /\ \A i \in 1 .. Len(p.message.body) : p.message.body[i] = objs[k],
         NEW l, l = k + 1, NEW q, q = parsing_step(p)
  PROVE  Counted(Token, size, sts, objs, sent, c, l, q)
<1>1. /\ p \in Parsers(Token) /\ p.threw = FALSE /\ k \in Pos /\ c \in Nat /\ sent \in Nat
      /\ Len(p.complete) = k - 1 - c /\ p.requests + Begun(p.message) = sent - (k - 1)
      /\ \A i \in 1 .. Len(p.complete) : RightResponse(p.complete[i], size, sts[c + i], objs[c + i])
  BY DEF Counted
<1>2. p.complete \in Seq([status : Token, body : Seq(Token)]) /\ p.requests \in Int
  BY <1>1, TypesOfParser
<1>3. PICK st : st = sts[k]
  OBVIOUS
<1>4. PICK e : e = [status |-> st, body |-> p.message.body]
  OBVIOUS
<1>5. /\ q \in Parsers(Token) /\ q.threw = FALSE /\ q.requests = p.requests
      /\ e \in [status : Token, body : Seq(Token)] /\ q.complete = Append(p.complete, e)
      /\ Begun(p.message) = 1 /\ Begun(q.message) = 0
  <2>1. p \in Parsers(Token) /\ p.threw = FALSE
    BY <1>1
  <2>2. p.message.state = "COMPLETE"
    OBVIOUS
  <2>3. p.message.first_line = << st >>
    BY <1>3
  <2>4. q = parsing_step(p)
    OBVIOUS
  <2>5. Records(Token, p, st, q)
    BY ONLY <2>1, <2>2, <2>3, <2>4, ResponseTaken
  <2> QED
    BY <1>4, <2>5 DEF Records
<1>6. e.status = sts[k] /\ e.body = p.message.body
  BY ONLY <1>3, <1>4
<1>10. PICK d : /\ d = q.complete /\ Len(d) = Len(p.complete) + 1
                /\ d[Len(d)] = e /\ \A i \in 1 .. Len(p.complete) : d[i] = p.complete[i]
  <2>1. PICK E, s, d : E = [status : Token, body : Seq(Token)] /\ s = p.complete /\ d = q.complete
    OBVIOUS
  <2>2. s \in Seq(E) /\ e \in E /\ d = Append(s, e)
    BY <1>2, <1>5, <2>1
  <2>3. d \in Seq(E) /\ Len(d) = Len(s) + 1 /\ d[Len(d)] = e /\ \A i \in 1 .. Len(s) : d[i] = s[i]
    BY ONLY <2>2
  <2> QED
    BY ONLY <2>1, <2>3
<1>13. q.requests + Begun(q.message) = sent - (l - 1)
  BY <1>1, <1>2, <1>5 DEF Pos
<1>14. PICK len \in Nat : len = Len(p.complete) /\ len = k - 1 - c
  BY <1>1, <1>2
<1>15. Len(d) = len + 1 /\ len + 1 = l - 1 - c /\ c + (len + 1) = k
  BY <1>1, <1>10, <1>14 DEF Pos
<1>16. ASSUME NEW i \in 1 .. Len(d) PROVE RightResponse(d[i], size, sts[c + i], objs[c + i])
  <2>1. CASE i \in 1 .. len
    BY <1>1, <1>10, <1>14, <2>1
  <2>2. CASE i = len + 1
    <3>1. d[i] = e /\ c + i = k
      BY <1>10, <1>15, <2>2
    <3> QED
      BY <1>6, <3>1 DEF RightResponse
  <2> QED
    BY <1>15, <2>1, <2>2
<1>17. Len(q.complete) = l - 1 - c
  BY <1>10, <1>15
<1> QED
  <2>1. l \in Pos
    BY <1>1 DEF Pos
  <2> QED
    BY <1>1, <1>5, <1>10, <1>13, <1>16, <1>17, <2>1 DEF Counted

\* The rest of a buffer that holds S from `from` on.
LEMMA RestOfStream ==
  ASSUME NEW Token, NEW b \in Seq(Token), NEW S, NEW from \in Int,
         Carries(b, S, from),
         NEW k \in Nat \ {0}, k <= Len(b) + 1, NEW rest, rest = SubSeq(b, k, Len(b)),
         NEW then, then = from + (k - 1)
  PROVE  Carries(rest, S, then)
<1>0. PICK n \in Nat : n = k - 1 /\ n <= Len(b) /\ k = n + 1
  OBVIOUS
<1>1. Len(rest) = Len(b) - n /\ \A i \in 1 .. Len(rest) : rest[i] = b[n + i]
  BY ONLY <1>0, b \in Seq(Token), rest = SubSeq(b, k, Len(b)), RestOf
<1>2. ASSUME NEW i \in 1 .. Len(rest) PROVE rest[i] = S[then + i]
  <2>1. n + i \in 1 .. Len(b) /\ from + (n + i) = then + i
    BY <1>0, <1>1
  <2> QED
    BY <1>1, <2>1 DEF Carries
<1> QED
  BY <1>2 DEF Carries

\* A buffer within the k-th answer goes on like it.
LEMMA BufferGoesOn ==
  ASSUME NEW Token, NEW size \in {0, 2}, NEW S, NEW starts, NEW sts, NEW objs, NEW n,
         Stream(Token, size, S, starts, sts, objs, n), NEW k \in 1 .. n, NEW off \in Nat,
         NEW b \in Seq(Token), NEW from, from = starts[k] + off, Carries(b, S, from)
  PROVE  GoesOn(b, off, ReplyTokens(size, sts[k], objs[k]))
<1>1. /\ sts[k] \in Statuses /\ starts[k] \in Nat
      /\ \A i \in 1 .. ReplyLen(size, sts[k]) :
            S[starts[k] + i] = ReplyTokens(size, sts[k], objs[k])[i]
  BY DEF Stream, Pos
<1>2. PICK T : T = ReplyTokens(size, sts[k], objs[k])
  OBVIOUS
<1>3. PICK n1 \in Nat : n1 = Len(T) /\ n1 = ReplyLen(size, sts[k])
  BY <1>1, <1>2, ReplyTokensAre
<1>4. ASSUME NEW i \in 1 .. Len(b), off + i <= n1 PROVE b[i] = T[off + i]
  <2>1. off + i \in 1 .. n1 /\ starts[k] + off + i = starts[k] + (off + i)
    BY <1>1, <1>4
  <2> QED
    BY <1>1, <1>2, <1>3, <2>1 DEF Carries
<1> QED
  BY <1>2, <1>3, <1>4 DEF GoesOn

\* A step of the parser, wherever it is in the stream.
LEMMA ReadingStep ==
  ASSUME NEW Token, NEW size \in {0, 2}, NEW S, NEW starts, NEW sts, NEW objs, NEW n,
         Stream(Token, size, S, starts, sts, objs, n), NEW sent, n <= sent, NEW c, NEW end,
         NEW k, NEW off, NEW p, Counted(Token, size, sts, objs, sent, c, k, p),
         Reading(size, S, starts, sts, objs, n, end, k, off, p), NEW q, q = parsing_step(p)
  PROVE  /\ \E l \in Pos, to \in Nat : /\ Counted(Token, size, sts, objs, sent, c, l, q)
                                       /\ Reading(size, S, starts, sts, objs, n, end, l, to, q)
         /\ Progress(p, q)
<1>1. /\ p \in Parsers(Token) /\ p.threw = FALSE /\ k \in Pos /\ c \in Nat /\ sent \in Nat
      /\ Len(p.complete) = k - 1 - c /\ p.requests + Begun(p.message) = sent - (k - 1)
      /\ \A i \in 1 .. Len(p.complete) : RightResponse(p.complete[i], size, sts[c + i], objs[c + i])
  BY DEF Counted
<1>2. /\ p.buffer \in Seq(Token) /\ p.message \in Messages(Token) /\ p.requests \in Int
      /\ Len(p.buffer) \in Nat
  BY <1>1, TypesOfParser
<1>3. /\ k <= n + 1 /\ off \in Nat /\ end \in Nat /\ end <= Len(S)
      /\ InMessage(p.message, off, size, sts[k], objs[k])
      /\ k = n + 1 => p.message.state = "FIRST_LINE_PENDING"
      /\ Len(p.buffer) = end - (starts[k] + off)
      /\ Carries(p.buffer, S, starts[k] + off)
  BY DEF Reading
<1>4. /\ S \in Seq(Token) /\ n \in Nat /\ starts \in [Pos -> Nat] /\ sts \in [Pos -> Statuses]
      /\ starts[n + 1] = Len(S) /\ sts[k] \in Statuses /\ starts[k] \in Nat
  BY <1>1 DEF Stream
<1>5. CASE p.message.state = "COMPLETE"
  <2>1. k \in 1 .. n /\ k + 1 \in Pos
    BY <1>1, <1>3, <1>4, <1>5 DEF Pos
  <2>2. PICK l \in Pos : l = k + 1
    BY <2>1
  <2>3. /\ p.message.first_line = << sts[k] >> /\ off = ReplyLen(size, sts[k])
        /\ sts[k] = "200" => Len(p.message.body) = size
                             /\ \A i \in 1 .. Len(p.message.body) : p.message.body[i] = objs[k]
    BY <1>3, <1>5 DEF InMessage
  <2>4. /\ Counted(Token, size, sts, objs, sent, c, l, q)
        /\ q.buffer = p.buffer /\ q.message = NewMessage
        /\ Progress(p, q)
    <3>1. Counted(Token, size, sts, objs, sent, c, l, q)
      BY ONLY <1>4, <1>5, <2>2, <2>3, size \in {0, 2}, q = parsing_step(p),
              Counted(Token, size, sts, objs, sent, c, k, p), ResponseCounted
    <3>2. q.buffer = p.buffer /\ q.message = NewMessage /\ Progress(p, q)
      <4>1. PICK st : st = sts[k]
        OBVIOUS
      <4>2. p.message.first_line = << st >> /\ p.message.state = "COMPLETE" 
        BY <1>5, <2>3, <4>1
      <4>3. Records(Token, p, st, q)
        BY ONLY <1>1, <4>2, q = parsing_step(p), ResponseTaken
      <4> QED
        BY <4>3 DEF Records
    <3> QED
      BY <3>1, <3>2
  <2>5. starts[l] = starts[k] + off
    BY <2>1, <2>2, <2>3 DEF Stream
  <2>6. l <= n + 1
    BY <1>4, <2>1, <2>2
  <2>7. PICK to \in Nat : to = 0
    OBVIOUS
  <2>8. InMessage(q.message, to, size, sts[l], objs[l]) /\ q.message.state = "FIRST_LINE_PENDING"
    BY <2>4, <2>7 DEF InMessage, NewMessage
  <2>9. starts[l] + to = starts[k] + off
    BY <1>3, <1>4, <2>5, <2>7
  <2>10. Reading(size, S, starts, sts, objs, n, end, l, to, q)
    BY <1>3, <2>4, <2>6, <2>8, <2>9 DEF Reading
  <2> QED
    BY <2>4, <2>10
<1>6. CASE p.message.state # "COMPLETE" /\ k \in 1 .. n
  <2>1. p.message.state = "FIRST_LINE_PENDING" => p.requests >= 1
    BY <1>1, <1>2, <1>4, <1>6 DEF Begun
  <2>2. GoesOn(p.buffer, off, ReplyTokens(size, sts[k], objs[k]))
    <3>1. PICK from, b : from = starts[k] + off /\ b = p.buffer
      OBVIOUS
    <3>2. b \in Seq(Token) /\ Carries(b, S, from) /\ k \in 1 .. n /\ off \in Nat
      BY <1>2, <1>3, <1>6, <3>1
    <3>3. GoesOn(b, off, ReplyTokens(size, sts[k], objs[k]))
      BY ONLY <3>1, <3>2, Stream(Token, size, S, starts, sts, objs, n), size \in {0, 2}, BufferGoesOn
    <3> QED
      BY <3>1, <3>3
  <2>30. PICK o : o = objs[k]
    OBVIOUS
  <2>31. PICK st \in Statuses : st = sts[k]
    BY <1>4
  <2>3. st = sts[k] /\ o = objs[k]
    BY <2>30, <2>31
  <2>4. InMessage(p.message, off, size, st, o) /\ GoesOn(p.buffer, off, ReplyTokens(size, st, o))
    BY <1>3, <2>2, <2>3
  <2>5. q \in Parsers(Token) /\ \E to \in Nat : Takes(p, q, off, to, size, st, o)
    BY ONLY <1>1, <1>3, <1>6, <2>1, <2>4, q = parsing_step(p), st \in Statuses, size \in {0, 2},
            StepWithinReply
  <2>6. PICK to \in Nat : Takes(p, q, off, to, size, st, o)
    BY <2>5
  <2>7. /\ to \in off .. off + Len(p.buffer)
        /\ q.buffer = SubSeq(p.buffer, to - off + 1, Len(p.buffer))
        /\ Len(q.buffer) = Len(p.buffer) - (to - off)
        /\ q.complete = p.complete /\ q.threw = FALSE
        /\ q.requests + Begun(q.message) = p.requests + Begun(p.message)
        /\ InMessage(q.message, to, size, st, o)
        /\ Progress(p, q)
    BY <2>6 DEF Takes, Progress
  <2>8. Counted(Token, size, sts, objs, sent, c, k, q)
    BY <1>1, <2>5, <2>7 DEF Counted
  <2>9. Carries(q.buffer, S, starts[k] + to)
    <3>1. PICK b, rest : b = p.buffer /\ rest = q.buffer
      OBVIOUS
    <3>2. PICK taken \in Nat : taken = to - off /\ taken <= Len(b)
      <4>1. PICK n0 \in Nat : n0 = Len(p.buffer)
        BY <1>2
      <4>2. to \in off .. off + n0
        BY <2>7, <4>1
      <4>3. to - off \in Nat /\ to - off <= n0
        BY <1>3, <4>2
      <4> QED
        BY <3>1, <4>1, <4>3
    <3>3. PICK from \in Int, then \in Int, l \in Nat \ {0} :
             from = starts[k] + off /\ then = from + (l - 1) /\ l = taken + 1
      BY <1>3, <1>4
    <3>4. l <= Len(b) + 1
      BY <1>2, <3>1, <3>2, <3>3
    <3>5. l = to - off + 1
      BY <3>2, <3>3
    <3>6. b \in Seq(Token) /\ rest = SubSeq(b, l, Len(b)) /\ Carries(b, S, from)
      BY <1>2, <1>3, <2>7, <3>1, <3>3, <3>5
    <3>7. Carries(rest, S, then)
      BY ONLY <3>3, <3>4, <3>6, from \in Int, l \in Nat \ {0}, RestOfStream
    <3>8. then = starts[k] + to
      <4>1. PICK s0 \in Nat : s0 = starts[k]
        BY <1>4
      <4>2. from = s0 + off /\ then = from + (l - 1) /\ l = to - off + 1
        BY <3>3, <3>5, <4>1
      <4>3. then = s0 + to
        BY <1>3, <4>2
      <4> QED
        BY ONLY <4>1, <4>3
    <3> QED
      BY <3>1, <3>7, <3>8
  <2>10. Len(q.buffer) = end - (starts[k] + to)
    <3>1. PICK n0 \in Nat, s0 \in Nat : n0 = Len(p.buffer) /\ s0 = starts[k]
      BY <1>2, <1>4
    <3>2. Len(q.buffer) = n0 - (to - off) /\ n0 = end - (s0 + off)
      BY <1>3, <2>7, <3>1
    <3>3. n0 - (to - off) = end - (s0 + to)
      BY <1>3, <3>2
    <3> QED
      BY ONLY <3>1, <3>2, <3>3
  <2>11. Reading(size, S, starts, sts, objs, n, end, k, to, q)
    <3>1. k <= n + 1 /\ k # n + 1
      BY <1>4, <1>6
    <3> QED
      BY <1>3, <2>3, <2>7, <2>9, <2>10, <3>1 DEF Reading
  <2> QED
    BY <1>1, <2>7, <2>8, <2>11
<1>7. CASE p.message.state # "COMPLETE" /\ k = n + 1
  <2>1. p.message.state = "FIRST_LINE_PENDING" /\ off = 0
    BY <1>3, <1>7 DEF InMessage
  <2>2. Len(p.buffer) = 0
    BY <1>2, <1>3, <1>4, <1>7, <2>1
  <2>3. ~ have_complete_line(p.buffer)
    BY <2>2 DEF have_complete_line
  <2>4. q = p /\ Quiet(p)
    BY <1>1, <2>1, <2>3 DEF parsing_step, Quiet
  <2> QED
    BY <1>1, <1>3, <2>4 DEF Progress
<1>8. k \in 1 .. n \/ k = n + 1
  <2>1. k \in Nat /\ k # 0 /\ n \in Nat /\ k <= n + 1
    BY <1>1, <1>3, <1>4 DEF Pos
  <2> QED
    BY ONLY <2>1
<1> QED
  BY <1>5, <1>6, <1>7, <1>8

\* A step of the parser after the end of the stream.
LEMMA FinishedStep ==
  ASSUME NEW Token, NEW size \in {0, 2}, NEW S, NEW starts, NEW sts, NEW objs, NEW n,
         Stream(Token, size, S, starts, sts, objs, n), NEW sent, NEW c,
         NEW k, NEW p, Counted(Token, size, sts, objs, sent, c, k, p),
         Finished(sts, n, k, p), NEW q, q = parsing_step(p)
  PROVE  /\ \E l \in Pos : Counted(Token, size, sts, objs, sent, c, l, q) /\ Finished(sts, n, l, q)
         /\ Progress(p, q)
<1>1. p \in Parsers(Token) /\ p.threw = FALSE /\ k \in Pos
  BY DEF Counted
<1>2. sts \in [Pos -> Statuses] /\ n \in Nat
  BY DEF Stream
<1>3. CASE p.message = NewMessage
  <2>1. p.message.state = "FIRST_LINE_PENDING"
    BY <1>3 DEF NewMessage
  <2>2. ~ have_complete_line(p.buffer)
    BY DEF Finished, have_complete_line
  <2>3. q = p /\ Quiet(p)
    BY <1>1, <2>1, <2>2 DEF parsing_step, Quiet
  <2> QED
    BY <1>1, <2>3 DEF Progress
<1>4. CASE p.message # NewMessage
  <2>1. k <= n /\ p.message.state = "COMPLETE" /\ p.message.first_line = << sts[k] >> /\ sts[k] = "503"
        /\ p.buffer = << >>
    BY <1>4 DEF Finished
  <2>2. PICK l \in Pos : l = k + 1 /\ l <= n + 1
    BY <1>1, <1>2, <2>1 DEF Pos
  <2>3. ~ (sts[k] = "200")
    BY <2>1
  <2>4. /\ Counted(Token, size, sts, objs, sent, c, l, q)
        /\ q.buffer = p.buffer /\ q.message = NewMessage
        /\ Progress(p, q)
    <3>1. Counted(Token, size, sts, objs, sent, c, l, q)
      BY ONLY <1>2, <2>1, <2>2, <2>3, size \in {0, 2}, q = parsing_step(p),
              Counted(Token, size, sts, objs, sent, c, k, p), ResponseCounted
    <3>2. q.buffer = p.buffer /\ q.message = NewMessage /\ Progress(p, q)
      <4>1. PICK st : st = sts[k]
        OBVIOUS
      <4>2. p.message.first_line = << st >> /\ p.message.state = "COMPLETE" 
        BY <2>1, <4>1
      <4>3. Records(Token, p, st, q)
        BY ONLY <1>1, <4>2, q = parsing_step(p), ResponseTaken
      <4> QED
        BY <4>3 DEF Records
    <3> QED
      BY <3>1, <3>2
  <2>5. Finished(sts, n, l, q)
    BY <2>1, <2>2, <2>4 DEF Finished
  <2> QED
    BY <2>4, <2>5
<1> QED
  BY <1>3, <1>4

(***************************************************************************)
(* parse(): its steps end, and the parser it leaves follows the stream     *)
(***************************************************************************)

\* The measure of parse()'s loop is bounded.
LEMMA WeightIs ==
  ASSUME NEW Token, NEW p \in Parsers(Token)
  PROVE  Weight(p.message) \in 0 .. 2 /\ Len(p.buffer) \in Nat
<1>1. PICK m : m = p.message
  OBVIOUS
<1>2. m \in Messages(Token) /\ Len(p.buffer) \in Nat
  BY <1>1, TypesOfParser
<1>3. Weight(m) \in 0 .. 2
  BY ONLY <1>2 DEF Weight, Messages, MessageStates
<1> QED
  BY <1>1, <1>2, <1>3

\* parse() stays within what every step preserves, and does not stop before there is
\* nothing left to do: StepsFor is enough.
LEMMA ParseSettles ==
  ASSUME NEW Token, NEW J, J \subseteq Parsers(Token),
         NEW p, NEW buf, ParserStart(p, buf) \in J,
         \A q \in J : parsing_step(q) \in J /\ Progress(q, parsing_step(q))
  PROVE  parse(p, buf) \in J /\ Quiet(parse(p, buf))
<1> DEFINE start == ParserStart(p, buf)
           enough == StepsFor(start)
<1>1. start \in Parsers(Token) /\ Len(start.buffer) \in Nat
  BY TypesOfParser
<1>2. enough \in Nat /\ Measure(start) < enough
  <2>1. Weight(start.message) \in 0 .. 2
    BY <1>1, WeightIs
  <2> HIDE DEF start
  <2> QED
    BY <1>1, <2>1 DEF Measure, StepsFor
<1>3. \A q \in J : Measure(q) \in Nat
  <2> TAKE q \in J
  <2>1. Len(q.buffer) \in Nat /\ Weight(q.message) \in 0 .. 2
    BY WeightIs
  <2> QED
    BY <2>1 DEF Measure
<1> HIDE DEF start, enough
<1>4. PICK g \in [Nat -> J] : /\ g[0] = start
                             /\ \A n \in Nat : g[n + 1] = parsing_step(g[n])
                             /\ parse(p, buf) = g[enough]
  <2>1. StepsFor(ParserStart(p, buf)) \in Nat
    BY <1>2 DEF start, enough
  <2> QED
    BY <2>1, ParseLoop DEF start, enough
<1> DEFINE S == { n \in Nat : Quiet(g[n]) \/ Measure(g[n]) + n <= Measure(start) }
<1>5. 0 \in S
  BY <1>3, <1>4
<1>6. ASSUME NEW n \in Nat, n \in S PROVE n + 1 \in S
  <2>1. g[n] \in J /\ g[n + 1] \in J /\ Progress(g[n], g[n + 1])
    BY <1>4
  <2>2. Measure(g[n]) \in Nat /\ Measure(g[n + 1]) \in Nat /\ Measure(start) \in Nat
    BY <1>3, <1>4, <2>1
  <2>3. CASE Quiet(g[n])
    BY <2>1, <2>3 DEF Progress
  <2>4. CASE ~ Quiet(g[n])
    <3>1. Measure(g[n]) + n <= Measure(start)
      BY <1>6, <2>4
    <3>2. Quiet(g[n + 1]) \/ Measure(g[n + 1]) < Measure(g[n])
      BY <2>1 DEF Progress
    <3>3. Measure(g[n + 1]) < Measure(g[n]) => Measure(g[n + 1]) + (n + 1) <= Measure(start)
      BY <2>2, <3>1
    <3> QED
      BY <3>2, <3>3
  <2> QED
    BY <2>3, <2>4
<1>7. enough \in S
  <2> HIDE DEF S
  <2> QED
    BY <1>2, <1>5, <1>6, NatInductionOn
<1>8. g[enough] \in J
  BY <1>2
<1>9. Quiet(g[enough])
  <2>1. Measure(g[enough]) \in Nat /\ Measure(start) \in Nat
    BY <1>3, <1>4, <1>8
  <2>2. ~ (Measure(g[enough]) + enough <= Measure(start))
    BY <1>2, <2>1
  <2> QED
    BY <1>7, <2>2
<1> QED
  BY <1>4, <1>8, <1>9

\* A parser that has thrown has thrown.
LEMMA ThrownStays ==
  ASSUME NEW p, NEW buf, ParserStart(p, buf).threw = TRUE, Len(ParserStart(p, buf).buffer) \in Nat
  PROVE  parse(p, buf) = ParserStart(p, buf)
<1> DEFINE start == ParserStart(p, buf)
           Same == {start}
<1>1. parsing_step(start) = start
  BY DEF parsing_step
<1>2. StepsFor(start) \in Nat
  BY DEF StepsFor
<1>3. /\ ParserStart(p, buf) \in Same /\ StepsFor(ParserStart(p, buf)) \in Nat
      /\ \A q \in Same : parsing_step(q) \in Same
  BY <1>1, <1>2
<1>4. \A q \in Same : q = start
  OBVIOUS
<1> HIDE DEF start, Same
<1>5. PICK g \in [Nat -> Same] : parse(p, buf) = g[StepsFor(ParserStart(p, buf))]
  BY ONLY <1>3, ParseLoop
<1>6. g[StepsFor(ParserStart(p, buf))] \in Same
  BY <1>3
<1> QED
  BY <1>4, <1>5, <1>6 DEF start

\* A parser between two reads, when what was read is the first `end` tokens of the
\* stream, or all of it up to a closed connection.
Follows(Token, size, S, starts, sts, objs, n, sent, end, c, p) ==
    /\ Quiet(p)
    /\ \E k \in Pos, off \in Nat : /\ Counted(Token, size, sts, objs, sent, c, k, p)
                                   /\ Reading(size, S, starts, sts, objs, n, end, k, off, p)
HasEnded(Token, size, sts, objs, n, sent, c, p) ==
    /\ Quiet(p)
    /\ \E k \in Pos : Counted(Token, size, sts, objs, sent, c, k, p) /\ Finished(sts, n, k, p)

\* What the parser can be, between two steps.
Readers(Token, size, S, starts, sts, objs, n, sent, end, c) ==
    { p \in Parsers(Token) : \E k \in Pos, off \in Nat :
         /\ Counted(Token, size, sts, objs, sent, c, k, p)
         /\ Reading(size, S, starts, sts, objs, n, end, k, off, p) }
Enders(Token, size, sts, objs, n, sent, c) ==
    { p \in Parsers(Token) : \E k \in Pos :
         Counted(Token, size, sts, objs, sent, c, k, p) /\ Finished(sts, n, k, p) }

\* A parser that starts within the stream ends within it.
LEMMA ReaderParses ==
  ASSUME NEW Token, NEW size \in {0, 2}, NEW S, NEW starts, NEW sts, NEW objs, NEW n,
         Stream(Token, size, S, starts, sts, objs, n), NEW sent, n <= sent, NEW c, NEW end,
         NEW p, NEW buf,
         ParserStart(p, buf) \in Readers(Token, size, S, starts, sts, objs, n, sent, end, c),
         NEW q, q = parse(p, buf)
  PROVE  Follows(Token, size, S, starts, sts, objs, n, sent, end, c, q)
<1> DEFINE J == Readers(Token, size, S, starts, sts, objs, n, sent, end, c)
<1>1. ASSUME NEW r \in J PROVE parsing_step(r) \in J /\ Progress(r, parsing_step(r))
  <2>1. PICK k \in Pos, off \in Nat :
           /\ Counted(Token, size, sts, objs, sent, c, k, r)
           /\ Reading(size, S, starts, sts, objs, n, end, k, off, r)
    BY DEF Readers
  <2>2. PICK s : s = parsing_step(r)
    OBVIOUS
  <2>3. /\ \E l \in Pos, to \in Nat : /\ Counted(Token, size, sts, objs, sent, c, l, s)
                                      /\ Reading(size, S, starts, sts, objs, n, end, l, to, s)
        /\ Progress(r, s)
    BY ONLY <2>1, <2>2, size \in {0, 2}, n <= sent, Stream(Token, size, S, starts, sts, objs, n),
            ReadingStep
  <2>4. s \in Parsers(Token)
    BY <2>3 DEF Counted
  <2> QED
    BY <2>2, <2>3, <2>4 DEF Readers
<1>2. J \subseteq Parsers(Token)
  BY DEF Readers
<1>3. ParserStart(p, buf) \in J
  OBVIOUS
<1> HIDE DEF J
<1>4. parse(p, buf) \in J /\ Quiet(parse(p, buf))
  BY ONLY <1>1, <1>2, <1>3, ParseSettles
<1> QED
  BY <1>4 DEF J, Readers, Follows

\* A parser that starts after the end stays there.
LEMMA EnderParses ==
  ASSUME NEW Token, NEW size \in {0, 2}, NEW S, NEW starts, NEW sts, NEW objs, NEW n,
         Stream(Token, size, S, starts, sts, objs, n), NEW sent, NEW c,
         NEW p, NEW buf,
         ParserStart(p, buf) \in Enders(Token, size, sts, objs, n, sent, c),
         NEW q, q = parse(p, buf)
  PROVE  HasEnded(Token, size, sts, objs, n, sent, c, q)
<1> DEFINE J == Enders(Token, size, sts, objs, n, sent, c)
<1>1. ASSUME NEW r \in J PROVE parsing_step(r) \in J /\ Progress(r, parsing_step(r))
  <2>1. PICK k \in Pos : Counted(Token, size, sts, objs, sent, c, k, r) /\ Finished(sts, n, k, r)
    BY DEF Enders
  <2>2. PICK s : s = parsing_step(r)
    OBVIOUS
  <2>3. /\ \E l \in Pos : Counted(Token, size, sts, objs, sent, c, l, s) /\ Finished(sts, n, l, s)
        /\ Progress(r, s)
    BY ONLY <2>1, <2>2, size \in {0, 2}, Stream(Token, size, S, starts, sts, objs, n), FinishedStep
  <2>4. s \in Parsers(Token)
    BY <2>3 DEF Counted
  <2> QED
    BY <2>2, <2>3, <2>4 DEF Enders
<1>2. J \subseteq Parsers(Token)
  BY DEF Enders
<1>3. ParserStart(p, buf) \in J
  OBVIOUS
<1> HIDE DEF J
<1>4. parse(p, buf) \in J /\ Quiet(parse(p, buf))
  BY ONLY <1>1, <1>2, <1>3, ParseSettles
<1> QED
  BY <1>4 DEF J, Enders, HasEnded

\* What a concatenation carries.
LEMMA CarriesMore ==
  ASSUME NEW Token, NEW a \in Seq(Token), NEW buf \in Seq(Token), NEW S, NEW from \in Int,
         Carries(a, S, from), NEW end, end = from + Len(a), Carries(buf, S, end),
         NEW b, b = a \o buf
  PROVE  Len(b) = Len(a) + Len(buf) /\ Carries(b, S, from)
<1>1. PICK n \in Nat, m \in Nat : n = Len(a) /\ m = Len(buf)
  OBVIOUS
<1>2. /\ Len(b) = n + m
      /\ \A i \in 1 .. n : b[i] = a[i]
      /\ \A i \in n + 1 .. n + m : b[i] = buf[i - n]
  BY <1>1
<1>3. ASSUME NEW i \in 1 .. Len(b) PROVE b[i] = S[from + i]
  <2>1. CASE i <= n
    <3>1. i \in 1 .. n
      BY <1>2, <2>1
    <3> QED
      BY <1>1, <1>2, <3>1 DEF Carries
  <2>2. CASE i > n
    <3>1. i \in n + 1 .. n + m /\ i - n \in 1 .. m /\ end + (i - n) = from + i
      BY <1>1, <1>2, <2>2
    <3>2. buf[i - n] = S[end + (i - n)]
      BY <1>1, <3>1 DEF Carries
    <3> QED
      BY <1>2, <3>1, <3>2
  <2> QED
    BY <1>2, <2>1, <2>2
<1> QED
  BY <1>1, <1>2, <1>3 DEF Carries

\* More of the stream, cut anywhere.
LEMMA ParsesMore ==
  ASSUME NEW Token, NEW size \in {0, 2}, NEW S, NEW starts, NEW sts, NEW objs, NEW n,
         Stream(Token, size, S, starts, sts, objs, n), NEW sent, n <= sent, NEW c, NEW end,
         NEW p, Follows(Token, size, S, starts, sts, objs, n, sent, end, c, p),
         NEW buf \in Seq(Token), buf # << >>, Carries(buf, S, end),
         NEW then, then = end + Len(buf), then <= Len(S), NEW q, q = parse(p, buf)
  PROVE  Follows(Token, size, S, starts, sts, objs, n, sent, then, c, q)
<1>1. PICK k \in Pos, off \in Nat : /\ Counted(Token, size, sts, objs, sent, c, k, p)
                                    /\ Reading(size, S, starts, sts, objs, n, end, k, off, p)
  BY DEF Follows
<1>2. p \in Parsers(Token)
  BY <1>1 DEF Counted
<1>3. PICK a, b : a = p.buffer /\ b = a \o buf
  OBVIOUS
<1>4. PICK start : start = [p EXCEPT !.buffer = b]
  OBVIOUS
<1>5. ParserStart(p, buf) = start
  BY <1>3, <1>4 DEF ParserStart
<1>6. /\ start \in Parsers(Token) /\ start.buffer = b /\ start.message = p.message
      /\ start.requests = p.requests /\ start.complete = p.complete /\ start.threw = p.threw
  <2>1. a \in Seq(Token)
    BY <1>2, <1>3, TypesOfParser
  <2>2. b \in Seq(Token)
    BY ONLY <1>3, <2>1, buf \in Seq(Token)
  <2> QED
    BY ONLY <1>2, <1>4, <2>2 DEF Parsers
<1>7. Counted(Token, size, sts, objs, sent, c, k, start)
  BY <1>1, <1>6 DEF Counted
<1>8. /\ k <= n + 1 /\ end \in Nat /\ end <= Len(S)
      /\ InMessage(p.message, off, size, sts[k], objs[k])
      /\ k = n + 1 => p.message.state = "FIRST_LINE_PENDING"
      /\ Len(a) = end - (starts[k] + off)
      /\ Carries(a, S, starts[k] + off)
  BY <1>1, <1>3 DEF Reading
<1>9. starts[k] \in Nat
  BY DEF Stream
<1>10. PICK from \in Int : from = starts[k] + off
  BY <1>9
<1>11. a \in Seq(Token) /\ Len(a) \in Nat /\ end = from + Len(a) /\ Carries(a, S, from)
  <2>1. a \in Seq(Token) /\ Len(a) \in Nat
    BY <1>2, <1>3, TypesOfParser
  <2>2. Len(a) = end - from /\ Carries(a, S, from)
    BY <1>8, <1>10
  <2>3. end = from + Len(a)
    <3>1. PICK la \in Nat : la = Len(a)
      BY <2>1
    <3>2. end \in Nat /\ la = end - from
      BY <1>8, <2>2, <3>1
    <3>3. end = from + la
      BY ONLY <3>2, la \in Nat, from \in Int
    <3> QED
      BY ONLY <3>1, <3>3
  <2> QED
    BY <2>1, <2>2, <2>3
<1>12. Len(b) = Len(a) + Len(buf) /\ Carries(b, S, from)
  BY ONLY <1>3, <1>11, buf \in Seq(Token), from \in Int, Carries(buf, S, end), CarriesMore
<1>13. Len(buf) \in Nat
  OBVIOUS
<1>14. Len(b) = then - from /\ then \in Nat
  <2>1. PICK la \in Nat, lb \in Nat : la = Len(a) /\ lb = Len(buf)
    BY <1>11, <1>13
  <2>2. Len(b) = la + lb /\ end = from + la /\ then = end + lb /\ end \in Nat
    BY <1>8, <1>11, <1>12, <2>1
  <2>3. la + lb = then - from /\ then \in Nat
    BY ONLY <2>2, la \in Nat, lb \in Nat, from \in Int
  <2> QED
    BY ONLY <2>2, <2>3
<1>15. Reading(size, S, starts, sts, objs, n, then, k, off, start)
  BY <1>6, <1>8, <1>10, <1>12, <1>14 DEF Reading
<1>16. start \in Readers(Token, size, S, starts, sts, objs, n, sent, then, c)
  BY <1>6, <1>7, <1>15 DEF Readers
<1> QED
  BY ONLY <1>5, <1>16, size \in {0, 2}, n <= sent, q = parse(p, buf),
          Stream(Token, size, S, starts, sts, objs, n), ReaderParses

\* The end of the stream: the parser throws, or it is between two messages, or it
\* takes the rest of a refusal for read.
LEMMA ParsesEnd ==
  ASSUME NEW Token, NEW size \in {0, 2}, NEW S, NEW starts, NEW sts, NEW objs, NEW n,
         Stream(Token, size, S, starts, sts, objs, n), NEW sent, n <= sent, NEW c, NEW end,
         NEW p, \/ Follows(Token, size, S, starts, sts, objs, n, sent, end, c, p)
                \/ HasEnded(Token, size, sts, objs, n, sent, c, p),
         NEW q, q = parse(p, << >>)
  PROVE  \/ q.threw = TRUE
         \/ Follows(Token, size, S, starts, sts, objs, n, sent, end, c, q)
         \/ HasEnded(Token, size, sts, objs, n, sent, c, q)
<1>1. p \in Parsers(Token) /\ Quiet(p)
  BY DEF Follows, HasEnded, Counted
<1>2. ParserStart(p, << >>) = eof(p)
  BY DEF ParserStart
<1>3. CASE p.message.state = "FIRST_LINE_PENDING"
  <2>1. ParserStart(p, << >>) = p
    BY <1>2, <1>3 DEF eof
  <2>2. CASE Follows(Token, size, S, starts, sts, objs, n, sent, end, c, p)
    <3>1. p \in Readers(Token, size, S, starts, sts, objs, n, sent, end, c)
      BY <1>1, <2>2 DEF Readers, Follows
    <3>2. PICK buf : buf = << >>
      OBVIOUS
    <3>3. q = parse(p, buf)
          /\ ParserStart(p, buf) \in Readers(Token, size, S, starts, sts, objs, n, sent, end, c)
      BY <2>1, <3>1, <3>2
    <3>4. Follows(Token, size, S, starts, sts, objs, n, sent, end, c, q)
      BY ONLY <3>3, size \in {0, 2}, n <= sent, Stream(Token, size, S, starts, sts, objs, n),
              ReaderParses
    <3> QED
      BY <3>4
  <2>3. CASE HasEnded(Token, size, sts, objs, n, sent, c, p)
    <3>1. p \in Enders(Token, size, sts, objs, n, sent, c)
      BY <1>1, <2>3 DEF Enders, HasEnded
    <3>2. PICK buf : buf = << >>
      OBVIOUS
    <3>3. q = parse(p, buf) /\ ParserStart(p, buf) \in Enders(Token, size, sts, objs, n, sent, c)
      BY <2>1, <3>1, <3>2
    <3>4. HasEnded(Token, size, sts, objs, n, sent, c, q)
      BY ONLY <3>3, size \in {0, 2}, Stream(Token, size, S, starts, sts, objs, n), EnderParses
    <3> QED
      BY <3>4
  <2> QED
    BY <2>2, <2>3
<1>4. CASE p.message.state = "BODY_PENDING" /\ p.message.framing = "chunked"
  <2>1. ~ HasEnded(Token, size, sts, objs, n, sent, c, p)
    BY <1>4 DEF HasEnded, Finished, NewMessage
  <2>2. PICK k \in Pos, off \in Nat : /\ Counted(Token, size, sts, objs, sent, c, k, p)
                                      /\ Reading(size, S, starts, sts, objs, n, end, k, off, p)
    BY <2>1 DEF Follows
  <2>3. /\ k <= n /\ sts[k] = "503" /\ p.message.first_line = << sts[k] >> /\ p.buffer = << >>
    <3>1. /\ k <= n + 1 /\ InMessage(p.message, off, size, sts[k], objs[k])
          /\ k = n + 1 => p.message.state = "FIRST_LINE_PENDING"
      BY <2>2 DEF Reading
    <3>2. k <= n
      <4>1. k # n + 1
        BY <1>4, <3>1
      <4>2. k \in Nat /\ n \in Nat
        BY DEF Pos, Stream
      <4> QED
        BY <3>1, <4>1, <4>2
    <3>3. sts[k] = "503" /\ p.message.first_line = << sts[k] >>
      BY <1>4, <3>1 DEF InMessage
    <3>4. Len(p.buffer) = 0
      BY <1>1, <1>4 DEF Quiet
    <3>5. p.buffer = << >>
      <4>1. PICK b : b = p.buffer
        OBVIOUS
      <4>2. b \in Seq(Token) /\ Len(b) = 0
        BY <1>1, <3>4, <4>1, TypesOfParser
      <4> QED
        BY ONLY <4>1, <4>2
    <3> QED
      BY <3>2, <3>3, <3>5
  <2>4. PICK m : m = [p.message EXCEPT !.state = "COMPLETE"]
    OBVIOUS
  <2>5. PICK start : start = [p EXCEPT !.message = m]
    OBVIOUS
  <2>6. ParserStart(p, << >>) = start
    BY <1>2, <1>4, <2>4, <2>5 DEF eof
  <2>7. p.message \in Messages(Token)
    BY <1>1, TypesOfParser
  <2>8. m \in Messages(Token) /\ m.state = "COMPLETE" /\ m.first_line = p.message.first_line
    BY ONLY <2>4, <2>7 DEF Messages, MessageStates
  <2>9. /\ start \in Parsers(Token) /\ start.message = m /\ start.buffer = p.buffer
        /\ start.requests = p.requests /\ start.complete = p.complete /\ start.threw = p.threw
    BY ONLY <1>1, <2>5, <2>8 DEF Parsers
  <2>10. Begun(m) = 1 /\ Begun(p.message) = 1
    BY <1>4, <2>8 DEF Begun
  <2>11. Counted(Token, size, sts, objs, sent, c, k, start)
    BY <2>2, <2>9, <2>10 DEF Counted
  <2>12. Finished(sts, n, k, start)
    <3>1. k <= n + 1
      BY <2>2 DEF Reading
    <3> QED
      BY <2>3, <2>8, <2>9, <3>1 DEF Finished
  <2>13. start \in Enders(Token, size, sts, objs, n, sent, c)
    BY <2>9, <2>11, <2>12 DEF Enders
  <2>14. PICK buf : buf = << >>
    OBVIOUS
  <2>15. q = parse(p, buf) /\ ParserStart(p, buf) \in Enders(Token, size, sts, objs, n, sent, c)
    BY <2>6, <2>13, <2>14
  <2>16. HasEnded(Token, size, sts, objs, n, sent, c, q)
    BY ONLY <2>15, size \in {0, 2}, Stream(Token, size, S, starts, sts, objs, n), EnderParses
  <2> QED
    BY <2>16
<1>5. CASE p.message.state # "FIRST_LINE_PENDING"
           /\ ~ (p.message.state = "BODY_PENDING" /\ p.message.framing = "chunked")
  <2>1. ~ (p.message.state = "BODY_PENDING" /\ p.message.framing = "eof")
    <3> SUFFICES ASSUME p.message.state = "BODY_PENDING", p.message.framing = "eof" PROVE FALSE
      OBVIOUS
    <3>1. CASE HasEnded(Token, size, sts, objs, n, sent, c, p)
      BY <3>1 DEF HasEnded, Finished, NewMessage
    <3>2. CASE Follows(Token, size, S, starts, sts, objs, n, sent, end, c, p)
      BY <3>2 DEF Follows, Reading, InMessage
    <3> QED
      BY <3>1, <3>2
  <2>2. PICK start : start = [p EXCEPT !.threw = TRUE]
    OBVIOUS
  <2>3. ParserStart(p, << >>) = start
    BY <1>2, <1>5, <2>1, <2>2 DEF eof
  <2>4. start.threw = TRUE /\ start.buffer = p.buffer
    BY <1>1, <2>2 DEF Parsers
  <2>5. Len(p.buffer) \in Nat
    BY <1>1, TypesOfParser
  <2>6. PICK buf : buf = << >>
    OBVIOUS
  <2>7. ParserStart(p, buf).threw = TRUE /\ Len(ParserStart(p, buf).buffer) \in Nat
    BY <2>3, <2>4, <2>5, <2>6
  <2>8. parse(p, buf) = ParserStart(p, buf)
    BY ONLY <2>7, ThrownStays
  <2> QED
    BY <2>3, <2>4, <2>6, <2>8
<1> QED
  BY <1>3, <1>4, <1>5

(***************************************************************************)
(* The stream goes on, and the client takes the message at the front       *)
(***************************************************************************)

\* What S has, S has when it goes on.
LEMMA StillCarries ==
  ASSUME NEW Token, NEW S \in Seq(Token), NEW reply \in Seq(Token), NEW S2, S2 = S \o reply,
         NEW b, Len(b) \in Nat, NEW from \in Nat, from + Len(b) <= Len(S), Carries(b, S, from)
  PROVE  Carries(b, S2, from)
<1>1. PICK n \in Nat : n = Len(S)
  OBVIOUS
<1>2. \A i \in 1 .. n : S2[i] = S[i]
  BY <1>1
<1>3. ASSUME NEW i \in 1 .. Len(b) PROVE b[i] = S2[from + i]
  <2>1. from + i \in 1 .. n
    BY <1>1, <1>3
  <2> QED
    BY <1>2, <2>1 DEF Carries
<1> QED
  BY <1>3 DEF Carries

\* The service has answered one more request: reply, with status st.
Written(size, objs, S, starts, sts, n, st, reply, m, S2, starts2, sts2) ==
    /\ m = n + 1
    /\ reply = ReplyTokens(size, st, objs[m])
    /\ S2 = S \o reply
    /\ starts2 = [starts EXCEPT ![m + 1] = starts[m] + ReplyLen(size, st)]
    /\ sts2 = [sts EXCEPT ![m] = st]

\* One more answer.
LEMMA StreamGrows ==
  ASSUME NEW Token, NEW size \in {0, 2}, NEW S, NEW starts, NEW sts, NEW objs, NEW n,
         Stream(Token, size, S, starts, sts, objs, n), NEW st \in Statuses,
         NEW reply \in Seq(Token), NEW m, NEW S2, NEW starts2, NEW sts2,
         Written(size, objs, S, starts, sts, n, st, reply, m, S2, starts2, sts2)
  PROVE  Stream(Token, size, S2, starts2, sts2, objs, m)
<1> USE DEF Written
<1>1. /\ S \in Seq(Token) /\ n \in Nat /\ starts \in [Pos -> Nat] /\ sts \in [Pos -> Statuses]
      /\ starts[1] = 0 /\ starts[m] = Len(S)
  BY DEF Stream
<1>2. \A k \in 1 .. n : /\ starts[k + 1] = starts[k] + ReplyLen(size, sts[k])
                        /\ \A i \in 1 .. ReplyLen(size, sts[k]) :
                              S[starts[k] + i] = ReplyTokens(size, sts[k], objs[k])[i]
  BY DEF Stream
<1>3. m \in Nat /\ m \in Pos /\ m + 1 \in Pos /\ m # m + 1 /\ m + 1 # 1
  BY <1>1 DEF Pos
<1>4. PICK len \in Nat : len = ReplyLen(size, st) /\ len = Len(reply)
  BY ReplyTokensAre
<1>5. PICK n0 \in Nat : n0 = Len(S)
  BY <1>1
<1>6. /\ S2 \in Seq(Token) /\ Len(S2) = n0 + len /\ \A i \in 1 .. n0 : S2[i] = S[i]
      /\ \A i \in n0 + 1 .. n0 + len : S2[i] = reply[i - n0]
  BY ONLY <1>1, <1>4, <1>5, reply \in Seq(Token), S2 = S \o reply
<1>7. /\ starts2 \in [Pos -> Nat] /\ sts2 \in [Pos -> Statuses]
      /\ starts2[m + 1] = n0 + len /\ sts2[m] = st
      /\ \A k \in Pos : k # m + 1 => starts2[k] = starts[k]
      /\ \A k \in Pos : k # m => sts2[k] = sts[k]
  <2>1. starts[m] + ReplyLen(size, st) = n0 + len
    BY <1>1, <1>4, <1>5
  <2> QED
    BY ONLY <1>1, <1>3, <2>1, st \in Statuses, n0 \in Nat, len \in Nat,
            starts2 = [starts EXCEPT ![m + 1] = starts[m] + ReplyLen(size, st)],
            sts2 = [sts EXCEPT ![m] = st]
<1>8. starts2[1] = 0 /\ starts2[m + 1] = Len(S2)
  <2>1. 1 \in Pos
    BY DEF Pos
  <2> QED
    BY <1>1, <1>3, <1>6, <1>7, <2>1
<1>9. \A k \in 1 .. n + 1 : starts[k] \in 0 .. n0 /\ (k <= n => starts[k] + ReplyLen(size, sts[k]) <= n0)
  <2> DEFINE R == { d \in Nat : d <= n => starts[m - d] \in 0 .. n0 }
  <2>1. 0 \in R
    BY <1>1, <1>3, <1>5
  <2>2. ASSUME NEW d \in Nat, d \in R PROVE d + 1 \in R
    <3> SUFFICES ASSUME d + 1 <= n PROVE starts[m - (d + 1)] \in 0 .. n0
      OBVIOUS
    <3>1. PICK k \in 1 .. n : k = m - (d + 1) /\ k + 1 = m - d
      BY <1>1
    <3>2. starts[k + 1] = starts[k] + ReplyLen(size, sts[k]) /\ starts[k + 1] \in 0 .. n0
      <4>1. d <= n
        BY <1>1
      <4>2. starts[m - d] \in 0 .. n0
        BY <2>2, <4>1
      <4>3. k \in 1 .. n /\ k + 1 = m - d
        BY <3>1
      <4>4. starts[k + 1] = starts[k] + ReplyLen(size, sts[k])
        BY <1>2, <4>3
      <4> QED
        BY <4>2, <4>3, <4>4
    <3>3. starts[k] \in Nat /\ sts[k] \in Statuses
      BY <1>1 DEF Pos
    <3>4. ReplyLen(size, sts[k]) \in Nat
      BY <3>3 DEF ReplyLen
    <3> QED
      BY <3>1, <3>2, <3>3, <3>4
  <2> HIDE DEF R
  <2>3. Nat \subseteq R
    BY <2>1, <2>2, NatInductionOn
  <2>4. \A k \in 1 .. n + 1 : starts[k] \in 0 .. n0
    <3> TAKE k \in 1 .. n + 1
    <3>1. PICK d \in Nat : d = m - k /\ d <= n /\ k = m - d
      BY <1>1
    <3> QED
      BY <2>3, <3>1 DEF R
  <2>5. ASSUME NEW k \in 1 .. n PROVE starts[k] + ReplyLen(size, sts[k]) <= n0
    <3>1. k + 1 \in 1 .. n + 1
      BY <1>1
    <3>2. starts[k + 1] \in 0 .. n0 /\ starts[k + 1] = starts[k] + ReplyLen(size, sts[k])
      BY <1>2, <2>4, <3>1
    <3> QED
      BY <3>2
  <2> QED
    BY <1>1, <2>4, <2>5
<1>10. ASSUME NEW k \in 1 .. m
       PROVE  /\ starts2[k + 1] = starts2[k] + ReplyLen(size, sts2[k])
              /\ \A i \in 1 .. ReplyLen(size, sts2[k]) :
                    S2[starts2[k] + i] = ReplyTokens(size, sts2[k], objs[k])[i]
  <2>1. CASE k = m
    <3>1. starts2[k] = n0 /\ sts2[k] = st /\ starts2[k + 1] = n0 + len
      BY <1>1, <1>3, <1>5, <1>7, <2>1
    <3>2. ASSUME NEW i \in 1 .. len PROVE S2[n0 + i] = reply[i]
      <4>1. n0 + i \in n0 + 1 .. n0 + len /\ (n0 + i) - n0 = i
        OBVIOUS
      <4> QED
        BY <1>6, <4>1
    <3> QED
      BY <1>4, <2>1, <3>1, <3>2
  <2>2. CASE k # m
    <3>1. k \in 1 .. n /\ k \in Pos /\ k + 1 \in Pos /\ k + 1 # m + 1 /\ k # m + 1
      BY <1>1, <2>2 DEF Pos
    <3>2. starts2[k] = starts[k] /\ starts2[k + 1] = starts[k + 1] /\ sts2[k] = sts[k]
      BY <1>7, <2>2, <3>1
    <3>3. PICK s0 \in Nat, l0 \in Nat : s0 = starts[k] /\ l0 = ReplyLen(size, sts[k])
      <4>1. starts[k] \in Nat /\ sts[k] \in Statuses
        BY <1>1, <3>1
      <4>2. ReplyLen(size, sts[k]) \in Nat
        BY ONLY size \in {0, 2} DEF ReplyLen
      <4> QED
        BY ONLY <4>1, <4>2
    <3>4. s0 + l0 <= n0
      <4>1. k \in 1 .. n + 1 /\ k <= n
        BY <1>1, <3>1
      <4> QED
        BY <1>9, <3>3, <4>1
    <3>5. ASSUME NEW i \in 1 .. l0 PROVE S2[s0 + i] = ReplyTokens(size, sts[k], objs[k])[i]
      <4>1. s0 + i \in 1 .. n0
        BY <3>4
      <4> QED
        BY <1>2, <1>6, <3>1, <3>3, <4>1
    <3> QED
      BY <1>2, <3>1, <3>2, <3>3, <3>5
  <2> QED
    BY <2>1, <2>2
<1> QED
  BY <1>3, <1>6, <1>7, <1>8, <1>10 DEF Stream

\* A parser that follows the stream still does when the service has written more.
LEMMA FollowsGrows ==
  ASSUME NEW Token, NEW size \in {0, 2}, NEW S, NEW starts, NEW sts, NEW objs, NEW n,
         Stream(Token, size, S, starts, sts, objs, n), NEW st \in Statuses,
         NEW reply \in Seq(Token), NEW m, NEW S2, NEW starts2, NEW sts2,
         Written(size, objs, S, starts, sts, n, st, reply, m, S2, starts2, sts2),
         NEW sent, NEW end, NEW c, NEW p,
         Follows(Token, size, S, starts, sts, objs, n, sent, end, c, p)
  PROVE  Follows(Token, size, S2, starts2, sts2, objs, m, sent, end, c, p)
<1> USE DEF Written
<1>1. PICK k \in Pos, off \in Nat : /\ Counted(Token, size, sts, objs, sent, c, k, p)
                                    /\ Reading(size, S, starts, sts, objs, n, end, k, off, p)
  BY DEF Follows
<1>2. S \in Seq(Token) /\ n \in Nat /\ starts \in [Pos -> Nat] /\ sts \in [Pos -> Statuses]
  BY DEF Stream
<1>3. p \in Parsers(Token) /\ c \in Nat /\ Len(p.complete) = k - 1 - c
  BY <1>1 DEF Counted
<1>4. k <= n + 1 /\ k \in Nat /\ k # 0 /\ m \in Nat /\ m \in Pos
  <2>1. k <= n + 1
    BY <1>1 DEF Reading
  <2>2. k \in Nat /\ k # 0
    BY DEF Pos
  <2>3. m \in Nat /\ m # 0
    BY <1>2
  <2> QED
    BY <2>1, <2>2, <2>3 DEF Pos
<1>5. starts2[k] = starts[k] /\ (k # m => sts2[k] = sts[k])
  <2>1. k # m + 1
    BY <1>2, <1>4
  <2> QED
    BY <1>2, <2>1
<1>6. \A i \in 1 .. Len(p.complete) : sts2[c + i] = sts[c + i]
  <2> TAKE i \in 1 .. Len(p.complete)
  <2>1. PICK len \in Nat : len = Len(p.complete)
    BY <1>3, TypesOfParser
  <2>2. c + i < m /\ c + i \in Pos
    BY <1>2, <1>3, <1>4, <2>1 DEF Pos
  <2>3. c + i # m
    BY <1>4, <2>2 DEF Pos
  <2> QED
    BY <1>2, <2>2, <2>3
<1>7. Counted(Token, size, sts2, objs, sent, c, k, p)
  BY <1>1, <1>6 DEF Counted
<1>8. /\ off \in Nat /\ end \in Nat /\ end <= Len(S)
      /\ InMessage(p.message, off, size, sts[k], objs[k])
      /\ k = n + 1 => p.message.state = "FIRST_LINE_PENDING"
      /\ Len(p.buffer) = end - (starts[k] + off)
      /\ Carries(p.buffer, S, starts[k] + off)
  BY <1>1 DEF Reading
<1>9. InMessage(p.message, off, size, sts2[k], objs[k])
  <2>1. CASE k # m
    BY <1>5, <1>8, <2>1
  <2>2. CASE k = m
    <3>1. p.message.state = "FIRST_LINE_PENDING"
      BY <1>8, <2>2
    <3>2. off = 0 /\ p.message = NewMessage
      BY <1>8, <3>1 DEF InMessage
    <3> QED
      BY <3>1, <3>2 DEF InMessage
  <2> QED
    BY <2>1, <2>2
<1>10. PICK from \in Nat : from = starts[k] + off
  BY <1>2
<1>11. Len(p.buffer) \in Nat /\ from + Len(p.buffer) = end
  <2>1. PICK lb \in Nat : lb = Len(p.buffer)
    BY <1>3, TypesOfParser
  <2>2. lb = end - from /\ end \in Nat
    BY <1>8, <1>10, <2>1
  <2>3. from + lb = end
    BY ONLY <2>2, lb \in Nat, from \in Nat
  <2> QED
    BY <2>1, <2>3
<1>12. Carries(p.buffer, S2, from)
  <2>1. PICK b : b = p.buffer
    OBVIOUS
  <2>2. Len(b) \in Nat /\ from + Len(b) <= Len(S) /\ Carries(b, S, from)
    BY <1>8, <1>10, <1>11, <2>1
  <2>3. Carries(b, S2, from)
    BY ONLY <1>2, <2>2, from \in Nat, reply \in Seq(Token), S2 = S \o reply, StillCarries
  <2> QED
    BY <2>1, <2>3
<1>13. Len(S2) >= Len(S) /\ end <= Len(S2)
  <2>1. PICK a \in Nat, d \in Nat : a = Len(S) /\ d = Len(reply)
    BY <1>2
  <2>2. Len(S2) = a + d
    BY <1>2, <2>1
  <2> QED
    BY <1>8, <2>1, <2>2
<1>14. Reading(size, S2, starts2, sts2, objs, m, end, k, off, p)
  <2>1. k <= m + 1 /\ (k = m + 1 => p.message.state = "FIRST_LINE_PENDING")
    BY <1>2, <1>4
  <2> QED
    BY <1>5, <1>8, <1>9, <1>10, <1>12, <1>13, <2>1 DEF Reading
<1> QED
  BY <1>7, <1>14 DEF Follows

\* What is so after pop(): d responses are taken from the parser, which is q.
Popped(Token, size, sts, objs, sent, k, p, d, q) ==
    /\ Counted(Token, size, sts, objs, sent, d, k, q)
    /\ q.message = p.message /\ q.buffer = p.buffer
    /\ RightResponse(p.complete[1], size, sts[d], objs[d])
    /\ d <= k - 1

\* A parser whose first response is taken.
LEMMA ResponsePopped ==
  ASSUME NEW Token, NEW size, NEW sts, NEW objs, NEW sent, NEW c, NEW k, NEW p,
         Counted(Token, size, sts, objs, sent, c, k, p), p.complete # << >>,
         NEW d, d = c + 1, NEW q, q = pop(p)
  PROVE  Popped(Token, size, sts, objs, sent, k, p, d, q)
<1>1. /\ p \in Parsers(Token) /\ p.threw = FALSE
      /\ k \in Pos /\ c \in Nat /\ sent \in Nat
      /\ p.requests + Begun(p.message) = sent - (k - 1)
      /\ Len(p.complete) = k - 1 - c
      /\ \A i \in 1 .. Len(p.complete) : RightResponse(p.complete[i], size, sts[c + i], objs[c + i])
  BY DEF Counted
<1>2. PICK E, s, r : E = [status : Token, body : Seq(Token)] /\ s = p.complete /\ r = Tail(s)
  OBVIOUS
<1>3. s \in Seq(E) /\ s # << >> /\ p.complete = s
  BY <1>1, <1>2, TypesOfParser
<1>4. PICK len \in Nat : len + 1 = Len(s)
  <2>1. Len(s) \in Nat \ {0}
    BY ONLY <1>3
  <2>2. PICK n \in Nat \ {0} : n = Len(s)
    BY <2>1
  <2>3. n - 1 \in Nat /\ (n - 1) + 1 = n
    OBVIOUS
  <2> QED
    BY <2>2, <2>3
<1>5. r \in Seq(E) /\ Len(r) = len /\ \A i \in 1 .. len : r[i] = s[i + 1]
  BY ONLY <1>2, <1>3, <1>4, len \in Nat
<1>6. /\ q \in Parsers(Token) /\ q.threw = p.threw /\ q.requests = p.requests
      /\ q.message = p.message /\ q.buffer = p.buffer /\ q.complete = r
  <2>1. r \in Seq([status : Token, body : Seq(Token)])
    BY <1>2, <1>5
  <2>2. q = [p EXCEPT !.complete = r]
    BY <1>2 DEF pop
  <2> QED
    BY ONLY <1>1, <2>1, <2>2 DEF Parsers
<1>7. len + 1 = k - 1 - c /\ d \in Nat /\ len = k - 1 - d /\ d <= k - 1
  BY <1>1, <1>3, <1>4 DEF Pos
<1>8. ASSUME NEW i \in 1 .. len PROVE RightResponse(r[i], size, sts[d + i], objs[d + i])
  <2>1. i + 1 \in 1 .. Len(p.complete) /\ c + (i + 1) = d + i
    <3>1. Len(p.complete) = len + 1
      BY <1>3, <1>4
    <3>2. i + 1 \in 1 .. len + 1 /\ c + (i + 1) = d + i
      BY <1>1
    <3> QED
      BY <3>1, <3>2
  <2>2. RightResponse(p.complete[i + 1], size, sts[c + (i + 1)], objs[c + (i + 1)])
    BY <1>1, <2>1
  <2> QED
    BY <1>3, <1>5, <2>1, <2>2
<1>9. RightResponse(p.complete[1], size, sts[d], objs[d])
  <2>1. 1 \in 1 .. Len(p.complete)
    BY <1>3, <1>4
  <2> QED
    BY <1>1, <2>1
<1>10. Counted(Token, size, sts, objs, sent, d, k, q)
  BY <1>1, <1>5, <1>6, <1>7, <1>8 DEF Counted
<1> QED
  BY <1>6, <1>7, <1>9, <1>10 DEF Popped

\* A parser without pending requests has begun every answer.
LEMMA NonePending ==
  ASSUME NEW Token, NEW size, NEW S, NEW starts, NEW sts, NEW objs, NEW n, NEW sent, NEW end, NEW c,
         NEW p, Stream(Token, size, S, starts, sts, objs, n), ~ (p.requests > 0),
         \/ Follows(Token, size, S, starts, sts, objs, n, sent, end, c, p)
         \/ HasEnded(Token, size, sts, objs, n, sent, c, p)
  PROVE  sent <= n
<1>1. n \in Nat
  BY DEF Stream
<1>2. PICK k \in Pos : /\ Counted(Token, size, sts, objs, sent, c, k, p)
                       /\ k <= n + 1
                       /\ k <= n \/ p.message.state = "FIRST_LINE_PENDING"
  <2>1. CASE Follows(Token, size, S, starts, sts, objs, n, sent, end, c, p)
    <3>1. PICK k \in Pos, off \in Nat : /\ Counted(Token, size, sts, objs, sent, c, k, p)
                                        /\ Reading(size, S, starts, sts, objs, n, end, k, off, p)
      BY <2>1 DEF Follows
    <3>2. k <= n + 1 /\ (k = n + 1 => p.message.state = "FIRST_LINE_PENDING") /\ k \in Nat
      BY <3>1 DEF Reading, Pos
    <3>3. k <= n \/ k = n + 1
      BY <1>1, <3>2
    <3> QED
      BY <3>1, <3>2, <3>3
  <2>2. CASE HasEnded(Token, size, sts, objs, n, sent, c, p)
    <3>1. PICK k \in Pos : Counted(Token, size, sts, objs, sent, c, k, p) /\ Finished(sts, n, k, p)
      BY <2>2 DEF HasEnded
    <3> QED
      BY <3>1 DEF Finished, NewMessage
  <2> QED
    BY <2>1, <2>2
<1>3. /\ p \in Parsers(Token) /\ sent \in Nat /\ k \in Nat
      /\ p.requests + Begun(p.message) = sent - (k - 1)
  BY <1>2 DEF Counted, Pos
<1>4. p.requests \in Int
  BY <1>3, TypesOfParser
<1>5. Begun(p.message) \in {0, 1} /\ (p.message.state = "FIRST_LINE_PENDING" => Begun(p.message) = 0)
  BY DEF Begun
<1> QED
  BY <1>1, <1>2, <1>3, <1>4, <1>5

(***************************************************************************)
(* A batch of the S3 client: requests asked, answered, read and counted    *)
(***************************************************************************)

\* A batch of the S3 client: S is what the service has written on the connection, its
\* first `end` tokens have been read, and n of the requests for objs are answered. An
\* object that a put has been granted is in rem, one it has been refused in ref.
Answers(Token, size, objs, rem, ref, th, S, starts, sts, n, end) ==
    /\ Stream(Token, size, S, starts, sts, objs, n)
    /\ th.sent \in Nat
    /\ th.asked \in Seq(Token) /\ n + Len(th.asked) = th.sent
    /\ \A i \in 1 .. Len(th.asked) : th.asked[i] = objs[n + i]
    /\ th.wire \in Seq(Token) /\ end \in Nat /\ end + Len(th.wire) <= Len(S)
    /\ Carries(th.wire, S, end)
    /\ th.open = FALSE \/ end + Len(th.wire) = Len(S)
    /\ \/ Follows(Token, size, S, starts, sts, objs, n, th.sent, end, th.count, th.parser)
       \/ /\ HasEnded(Token, size, sts, objs, n, th.sent, th.count, th.parser)
          /\ th.wire = << >> /\ th.open = FALSE
    /\ size = 0 => \A j \in 1 .. n : objs[j] \in (IF sts[j] = "200" THEN rem ELSE ref)

S3Batch(Token, size, objs, rem, ref, th) ==
    \E S, starts, sts, n, end : Answers(Token, size, objs, rem, ref, th, S, starts, sts, n, end)

\* Objects that have been granted or refused stay so.
LEMMA S3BatchGrows ==
  ASSUME NEW Token, NEW size, NEW objs, NEW rem, NEW ref, NEW th,
         S3Batch(Token, size, objs, rem, ref, th),
         NEW rem2, rem \subseteq rem2, NEW ref2, ref \subseteq ref2
  PROVE  S3Batch(Token, size, objs, rem2, ref2, th)
<1>1. PICK S, starts, sts, n, end : Answers(Token, size, objs, rem, ref, th, S, starts, sts, n, end)
  BY DEF S3Batch
<1>2. size = 0 => \A j \in 1 .. n : objs[j] \in (IF sts[j] = "200" THEN rem ELSE ref)
  BY <1>1 DEF Answers
<1>3. size = 0 => \A j \in 1 .. n : objs[j] \in (IF sts[j] = "200" THEN rem2 ELSE ref2)
  BY <1>2
<1>4. Answers(Token, size, objs, rem2, ref2, th, S, starts, sts, n, end)
  BY <1>1, <1>3 DEF Answers
<1> QED
  BY <1>4 DEF S3Batch

\* The requests of a batch have been sent on a new connection.
LEMMA S3BatchSent ==
  ASSUME NEW Token, NEW size \in {0, 2}, NEW objs, NEW rem, NEW ref, NEW th,
         th.sent \in Nat, th.count = 0, th.wire = << >>,
         th.asked \in Seq(Token), Len(th.asked) = th.sent,
         \A i \in 1 .. Len(th.asked) : th.asked[i] = objs[i],
         th.parser = new_requests_arrived(NewParser, th.sent)
  PROVE  S3Batch(Token, size, objs, rem, ref, th)
<1>1. PICK starts, sts, S, n, end : /\ starts = [k \in Pos |-> 0] /\ sts = [k \in Pos |-> "200"]
                                   /\ S = << >> /\ n = 0 /\ end = 0
  OBVIOUS
<1>2. Stream(Token, size, S, starts, sts, objs, n)
  <2>1. 1 \in Pos
    BY DEF Pos
  <2>2. S \in Seq(Token) /\ n \in Nat /\ Len(S) = 0 /\ 1 .. n = {} /\ n + 1 = 1
    BY <1>1
  <2>3. starts \in [Pos -> Nat] /\ sts \in [Pos -> Statuses] /\ starts[1] = 0
    BY <1>1, <2>1 DEF Statuses
  <2> QED
    BY <2>2, <2>3 DEF Stream
<1>3. PICK p : p = th.parser
  OBVIOUS
<1>4. PICK k \in Pos, off \in Nat : k = 1 /\ off = 0
  BY DEF Pos
<1>5. /\ p \in Parsers(Token) /\ p.threw = FALSE /\ p.requests = th.sent /\ p.buffer = << >>
      /\ p.complete = << >> /\ p.message = NewMessage
  <2>1. NewMessage \in Messages(Token)
    BY DEF NewMessage, Messages, MessageStates, NewChunkedBody, ChunkParsers, ChunkStates
  <2>2. p = [buffer |-> << >>, requests |-> th.sent, complete |-> << >>,
             message |-> NewMessage, threw |-> FALSE]
    <3>1. PICK m : m = NewMessage
      OBVIOUS
    <3>2. 0 + th.sent = th.sent
      OBVIOUS
    <3>3. NewParser = [buffer |-> << >>, requests |-> 0, complete |-> << >>,
                       message |-> m, threw |-> FALSE]
      BY <3>1 DEF NewParser
    <3>4. p = [NewParser EXCEPT !.requests = NewParser.requests + th.sent]
      BY <1>3 DEF new_requests_arrived
    <3>5. p = [NewParser EXCEPT !.requests = th.sent]
      <4>1. NewParser.requests = 0
        BY <3>3
      <4> QED
        BY <3>2, <3>4, <4>1
    <3>6. p = [buffer |-> << >>, requests |-> th.sent, complete |-> << >>,
               message |-> m, threw |-> FALSE]
      BY ONLY <3>3, <3>5
    <3> QED
      BY <3>1, <3>6
  <2>3. << >> \in Seq([status : Token, body : Seq(Token)]) /\ << >> \in Seq(Token)
    OBVIOUS
  <2> QED
    BY ONLY <2>1, <2>2, <2>3, th.sent \in Nat DEF Parsers
<1>6. NewMessage.state = "FIRST_LINE_PENDING"
  BY DEF NewMessage
<1>7. PICK c : c = th.count
  OBVIOUS
<1>8. Counted(Token, size, sts, objs, th.sent, c, k, p)
  <2>1. Begun(p.message) = 0
    BY <1>5, <1>6 DEF Begun
  <2>2. Len(p.complete) = 0 /\ 1 .. Len(p.complete) = {} /\ k - 1 = 0 /\ c = 0
    BY <1>4, <1>5, <1>7
  <2>3. p.requests + Begun(p.message) = th.sent - (k - 1) /\ Len(p.complete) = k - 1 - c
    BY <1>5, <2>1, <2>2
  <2> QED
    BY <1>5, <2>2, <2>3 DEF Counted
<1>9. InMessage(p.message, off, size, sts[k], objs[k])
  BY <1>4, <1>5, <1>6 DEF InMessage
<1>10. Reading(size, S, starts, sts, objs, n, end, k, off, p)
  <2>1. starts[k] = 0
    BY <1>1
  <2>2. k <= n + 1 /\ end \in Nat /\ end <= Len(S)
    BY <1>1, <1>4
  <2>3. Len(p.buffer) = end - (starts[k] + off) /\ 1 .. Len(p.buffer) = {}
    BY <1>1, <1>4, <1>5, <2>1
  <2> QED
    BY <1>5, <1>6, <1>9, <2>2, <2>3 DEF Reading, Carries
<1>11. Quiet(p)
  BY <1>5, <1>6 DEF Quiet, have_complete_line
<1>12. Follows(Token, size, S, starts, sts, objs, n, th.sent, end, c, p)
  BY <1>8, <1>10, <1>11 DEF Follows
<1>13. Answers(Token, size, objs, rem, ref, th, S, starts, sts, n, end)
  <2>1. n + Len(th.asked) = th.sent /\ \A i \in 1 .. Len(th.asked) : th.asked[i] = objs[n + i]
    BY <1>1
  <2>2. th.wire \in Seq(Token) /\ Len(th.wire) = 0 /\ Len(S) = 0 /\ end \in Nat
    BY <1>1
  <2>3. end + Len(th.wire) = Len(S) /\ end + Len(th.wire) <= Len(S) /\ 1 .. Len(th.wire) = {}
        /\ 1 .. n = {}
    BY <1>1, <2>2
  <2> QED
    BY <1>2, <1>3, <1>7, <1>12, <2>1, <2>2, <2>3 DEF Answers, Carries
<1> QED
  BY <1>13 DEF S3Batch

\* The service closes the connection, perhaps within an answer.
LEMMA S3BatchCut ==
  ASSUME NEW Token, NEW size, NEW objs, NEW rem, NEW ref, NEW th,
         S3Batch(Token, size, objs, rem, ref, th), NEW w \in 0 .. Len(th.wire),
         NEW th2, th2.sent = th.sent, th2.count = th.count, th2.parser = th.parser,
         th2.asked = th.asked, th2.wire = SubSeq(th.wire, 1, w), th2.open = FALSE
  PROVE  S3Batch(Token, size, objs, rem, ref, th2)
<1>1. PICK S, starts, sts, n, end : Answers(Token, size, objs, rem, ref, th, S, starts, sts, n, end)
  BY DEF S3Batch
<1>2. th.wire \in Seq(Token) /\ end \in Nat /\ end + Len(th.wire) <= Len(S) /\ Carries(th.wire, S, end)
      /\ S \in Seq(Token)
  BY <1>1 DEF Answers, Stream
<1>3. PICK a, b : a = th.wire /\ b = SubSeq(a, 1, w)
  OBVIOUS
<1>4. b \in Seq(Token) /\ Len(b) = w /\ \A i \in 1 .. w : b[i] = a[i]
  BY ONLY <1>2, <1>3, w \in 0 .. Len(th.wire)
<1>5. end + Len(b) <= Len(S) /\ Carries(b, S, end)
  <2>1. PICK l \in Nat, m \in Nat : l = Len(a) /\ m = Len(S)
    BY <1>2, <1>3
  <2>2. w \in 0 .. l /\ end + l <= m /\ \A i \in 1 .. l : a[i] = S[end + i]
    BY <1>2, <1>3, <2>1 DEF Carries
  <2>3. end + w <= m
    BY <1>2, <2>2
  <2>4. \A i \in 1 .. w : a[i] = S[end + i]
    BY <2>2
  <2> QED
    BY <1>4, <2>1, <2>3, <2>4 DEF Carries
<1>6. th.wire = << >> => b = << >>
  BY ONLY <1>3, <1>4
<1>7. Answers(Token, size, objs, rem, ref, th2, S, starts, sts, n, end)
  <2>1. th2.wire = b
    BY <1>3
  <2> QED
    BY <1>1, <1>4, <1>5, <1>6, <2>1 DEF Answers
<1> QED
  BY <1>7 DEF S3Batch

\* The service answers the next request.
LEMMA S3BatchServed ==
  ASSUME NEW Token, NEW size \in {0, 2}, NEW objs, NEW rem, NEW ref, NEW th,
         S3Batch(Token, size, objs, rem, ref, th), th.asked # << >>, th.open # FALSE,
         NEW st \in Statuses, size = 0 => Head(th.asked) \in (IF st = "200" THEN rem ELSE ref),
         NEW reply \in Seq(Token), reply = ReplyTokens(size, st, Head(th.asked)),
         NEW th2, th2.sent = th.sent, th2.count = th.count, th2.parser = th.parser,
         th2.asked = Tail(th.asked), th2.wire = th.wire \o reply
  PROVE  S3Batch(Token, size, objs, rem, ref, th2)
<1>1. PICK S, starts, sts, n, end : Answers(Token, size, objs, rem, ref, th, S, starts, sts, n, end)
  BY DEF S3Batch
<1>2. /\ Stream(Token, size, S, starts, sts, objs, n)
      /\ th.sent \in Nat
      /\ th.asked \in Seq(Token) /\ n + Len(th.asked) = th.sent
      /\ \A i \in 1 .. Len(th.asked) : th.asked[i] = objs[n + i]
      /\ th.wire \in Seq(Token) /\ end \in Nat /\ end + Len(th.wire) = Len(S)
      /\ Carries(th.wire, S, end)
      /\ Follows(Token, size, S, starts, sts, objs, n, th.sent, end, th.count, th.parser)
      /\ size = 0 => \A j \in 1 .. n : objs[j] \in (IF sts[j] = "200" THEN rem ELSE ref)
  BY <1>1 DEF Answers
<1>3. n \in Nat /\ S \in Seq(Token) /\ sts \in [Pos -> Statuses]
  BY <1>2 DEF Stream
<1>4. PICK m \in Nat : m = n + 1 /\ m \in Pos
  BY <1>3 DEF Pos
<1>5. PICK a, b : a = th.asked /\ b = Tail(a)
  OBVIOUS
<1>6. PICK len \in Nat : len + 1 = Len(a)
  <2>1. Len(a) \in Nat /\ Len(a) # 0
    BY ONLY <1>2, <1>5, th.asked # << >>
  <2> QED
    BY <2>1
<1>7. b \in Seq(Token) /\ Len(b) = len /\ (\A i \in 1 .. len : b[i] = a[i + 1]) /\ Head(a) = a[1]
  BY ONLY <1>2, <1>5, <1>6, th.asked # << >>, len \in Nat
<1>8. Head(th.asked) = objs[m]
  <2>1. 1 \in 1 .. Len(th.asked)
    BY <1>5, <1>6
  <2>2. th.asked[1] = objs[n + 1]
    BY <1>2, <2>1
  <2> QED
    BY <1>4, <1>5, <1>7, <2>2
<1>9. PICK S2, starts2, sts2 :
         /\ S2 = S \o reply
         /\ starts2 = [starts EXCEPT ![m + 1] = starts[m] + ReplyLen(size, st)]
         /\ sts2 = [sts EXCEPT ![m] = st]
  OBVIOUS
<1>20. Written(size, objs, S, starts, sts, n, st, reply, m, S2, starts2, sts2)
  BY <1>4, <1>8, <1>9 DEF Written
<1>10. Stream(Token, size, S2, starts2, sts2, objs, m)
  BY ONLY <1>2, <1>20, size \in {0, 2}, st \in Statuses, reply \in Seq(Token), StreamGrows
<1>11. Follows(Token, size, S2, starts2, sts2, objs, m, th.sent, end, th.count, th.parser)
  <2>1. PICK sent, c, p : sent = th.sent /\ c = th.count /\ p = th.parser
    OBVIOUS
  <2>2. Follows(Token, size, S, starts, sts, objs, n, sent, end, c, p)
    BY <1>2, <2>1
  <2>3. Follows(Token, size, S2, starts2, sts2, objs, m, sent, end, c, p)
    BY ONLY <1>2, <1>20, <2>2, size \in {0, 2}, st \in Statuses, reply \in Seq(Token), FollowsGrows
  <2> QED
    BY <2>1, <2>3
<1>12. PICK w, w2 : w = th.wire /\ w2 = w \o reply
  OBVIOUS
<1>13. w2 \in Seq(Token) /\ end + Len(w2) = Len(S2) /\ Carries(w2, S2, end)
  <2>1. PICK x \in Nat, y \in Nat, z \in Nat : x = Len(w) /\ y = Len(reply) /\ z = Len(S)
    BY <1>2, <1>3, <1>12
  <2>2. /\ w2 \in Seq(Token) /\ Len(w2) = x + y
        /\ \A i \in 1 .. x : w2[i] = w[i]
        /\ \A i \in x + 1 .. x + y : w2[i] = reply[i - x]
    BY ONLY <1>2, <1>12, <2>1, reply \in Seq(Token)
  <2>3. /\ Len(S2) = z + y
        /\ \A i \in 1 .. z : S2[i] = S[i]
        /\ \A i \in z + 1 .. z + y : S2[i] = reply[i - z]
    BY ONLY <1>3, <1>9, <2>1, reply \in Seq(Token)
  <2>4. end + x = z /\ \A i \in 1 .. x : w[i] = S[end + i]
    BY <1>2, <1>12, <2>1 DEF Carries
  <2>5. ASSUME NEW i \in 1 .. x + y PROVE w2[i] = S2[end + i]
    <3>1. CASE i <= x
      <4>1. i \in 1 .. x /\ end + i \in 1 .. z
        BY <1>2, <2>4, <3>1
      <4> QED
        BY <2>2, <2>3, <2>4, <4>1
    <3>2. CASE i > x
      <4>1. i \in x + 1 .. x + y /\ end + i \in z + 1 .. z + y /\ (end + i) - z = i - x
        <5>1. end \in Nat /\ end + x = z
          BY <1>2, <2>4
        <5> QED
          BY ONLY <3>2, <5>1, i \in 1 .. x + y, x \in Nat, y \in Nat
      <4>2. w2[i] = reply[i - x]
        BY <2>2, <4>1
      <4>3. S2[end + i] = reply[(end + i) - z]
        BY <2>3, <4>1
      <4> QED
        BY <4>1, <4>2, <4>3
    <3> QED
      BY <3>1, <3>2
  <2>6. end + Len(w2) = Len(S2)
    <3>1. end \in Nat /\ end + x = z
      BY <1>2, <2>4
    <3>2. end + (x + y) = z + y
      BY ONLY <3>1, x \in Nat, y \in Nat
    <3> QED
      BY <2>2, <2>3, <3>2
  <2> QED
    BY <2>2, <2>5, <2>6 DEF Carries
<1>14. m + Len(b) = th.sent /\ \A i \in 1 .. Len(b) : b[i] = objs[m + i]
  <2>1. m + Len(b) = th.sent
    <3>1. n + (len + 1) = th.sent
      BY <1>2, <1>5, <1>6
    <3>2. m + len = n + (len + 1)
      BY <1>3, <1>4
    <3> QED
      BY <1>7, <3>1, <3>2
  <2>2. ASSUME NEW i \in 1 .. Len(b) PROVE b[i] = objs[m + i]
    <3>1. i + 1 \in 1 .. Len(th.asked) /\ n + (i + 1) = m + i /\ i \in 1 .. len
      <4>1. i \in 1 .. len /\ Len(th.asked) = len + 1
        BY <1>5, <1>6, <1>7
      <4>2. i + 1 \in 1 .. len + 1 /\ n + (i + 1) = m + i
        BY <1>3, <1>4, <4>1
      <4> QED
        BY <4>1, <4>2
    <3>2. th.asked[i + 1] = objs[n + (i + 1)]
      BY <1>2, <3>1
    <3> QED
      BY <1>5, <1>7, <3>1, <3>2
  <2> QED
    BY <2>1, <2>2
<1>15. size = 0 => \A j \in 1 .. m : objs[j] \in (IF sts2[j] = "200" THEN rem ELSE ref)
  <2> SUFFICES ASSUME size = 0, NEW j \in 1 .. m
               PROVE  objs[j] \in (IF sts2[j] = "200" THEN rem ELSE ref)
    OBVIOUS
  <2>1. CASE j = m
    BY <1>3, <1>4, <1>8, <1>9, <2>1
  <2>2. CASE j # m
    <3>1. j \in 1 .. n
      BY <1>3, <1>4, <2>2
    <3>2. sts2[j] = sts[j]
      BY <1>9, <2>2
    <3> QED
      BY <1>2, <3>1, <3>2
  <2> QED
    BY <2>1, <2>2
<1>16. Answers(Token, size, objs, rem, ref, th2, S2, starts2, sts2, m, end)
  <2>1. th2.asked = b /\ th2.wire = w2
    BY <1>5, <1>12
  <2>2. end + Len(w2) <= Len(S2)
    <3>1. Len(S2) \in Int
      BY <1>10 DEF Stream
    <3> QED
      BY <1>13, <3>1
  <2> QED
    BY <1>2, <1>7, <1>10, <1>11, <1>13, <1>14, <1>15, <2>1, <2>2 DEF Answers
<1> QED
  BY <1>16 DEF S3Batch

\* The client reads: some of what has arrived, or the end of the stream.
LEMMA S3BatchRead ==
  ASSUME NEW Token, NEW size \in {0, 2}, NEW objs, NEW rem, NEW ref, NEW th,
         S3Batch(Token, size, objs, rem, ref, th),
         NEW buf, \/ \E w \in 1 .. Len(th.wire) : buf = SubSeq(th.wire, 1, w)
                  \/ buf = << >> /\ th.wire = << >> /\ th.open = FALSE,
         NEW q, q = parse(th.parser, buf), ~ (q.threw = TRUE),
         NEW th2, th2.sent = th.sent, th2.count = th.count, th2.parser = q,
         th2.asked = th.asked, th2.wire = SubSeq(th.wire, Len(buf) + 1, Len(th.wire)),
         th2.open = th.open
  PROVE  S3Batch(Token, size, objs, rem, ref, th2)
<1>1. PICK S, starts, sts, n, end : Answers(Token, size, objs, rem, ref, th, S, starts, sts, n, end)
  BY DEF S3Batch
<1>2. /\ Stream(Token, size, S, starts, sts, objs, n)
      /\ th.sent \in Nat
      /\ th.asked \in Seq(Token) /\ n + Len(th.asked) = th.sent
      /\ th.wire \in Seq(Token) /\ end \in Nat /\ end + Len(th.wire) <= Len(S)
      /\ Carries(th.wire, S, end)
      /\ th.open = FALSE \/ end + Len(th.wire) = Len(S)
      /\ \/ Follows(Token, size, S, starts, sts, objs, n, th.sent, end, th.count, th.parser)
         \/ /\ HasEnded(Token, size, sts, objs, n, th.sent, th.count, th.parser)
            /\ th.wire = << >> /\ th.open = FALSE
  BY <1>1 DEF Answers
<1>3. n \in Nat /\ S \in Seq(Token) /\ n <= th.sent
  <2>1. n \in Nat /\ S \in Seq(Token)
    BY <1>2 DEF Stream
  <2>2. PICK l \in Nat : l = Len(th.asked)
    BY <1>2
  <2>3. n + l = th.sent
    BY <1>2, <2>2
  <2> QED
    BY <2>1, <2>3
<1>4. PICK sent, c, p, a : sent = th.sent /\ c = th.count /\ p = th.parser /\ a = th.wire
  OBVIOUS
<1>5. CASE \E w \in 1 .. Len(th.wire) : buf = SubSeq(th.wire, 1, w)
  <2>1. PICK w \in 1 .. Len(a) : buf = SubSeq(a, 1, w)
    BY <1>4, <1>5
  <2>2. PICK l \in Nat, m \in Nat : l = Len(a) /\ m = Len(S)
    BY <1>2, <1>3, <1>4
  <2>3. buf \in Seq(Token) /\ Len(buf) = w /\ w \in Nat /\ w # 0 /\ (\A i \in 1 .. w : buf[i] = a[i])
        /\ w <= l
    BY <1>2, <1>4, <2>1, <2>2
  <2>4. buf # << >>
    BY <2>3
  <2>5. Carries(buf, S, end)
    <3>1. \A i \in 1 .. l : a[i] = S[end + i]
      BY <1>2, <1>4, <2>2 DEF Carries
    <3>2. ASSUME NEW i \in 1 .. w PROVE buf[i] = S[end + i]
      <4>1. i \in 1 .. l
        BY <2>3
      <4> QED
        BY <2>3, <3>1, <4>1
    <3> QED
      BY <2>3, <3>2 DEF Carries
  <2>6. PICK then \in Nat : then = end + w
    BY <1>2, <2>3
  <2>7. end + l <= m
    BY <1>2, <1>4, <2>2
  <2>8. then <= Len(S) /\ then = end + Len(buf)
    BY <1>2, <2>2, <2>3, <2>6, <2>7
  <2>9. Follows(Token, size, S, starts, sts, objs, n, sent, then, c, q)
    <3>1. a # << >>
      BY <2>1, <2>2, <2>3
    <3>2. Follows(Token, size, S, starts, sts, objs, n, sent, end, c, p)
      BY <1>2, <1>4, <3>1
    <3>3. n <= sent /\ q = parse(p, buf)
      BY <1>3, <1>4
    <3> QED
      BY ONLY <1>2, <2>3, <2>4, <2>5, <2>8, <3>2, <3>3, size \in {0, 2}, ParsesMore
  <2>10. PICK w1 \in Nat \ {0} : w1 = w + 1
    BY <2>3
  <2>16. PICK b : b = SubSeq(a, w1, Len(a))
    OBVIOUS
  <2>11. th2.wire = b
    BY <1>4, <2>3, <2>10, <2>16
  <2>12. b \in Seq(Token) /\ Len(b) = l - w
    <3>1. a \in Seq(Token) /\ w \in Nat /\ w <= Len(a) /\ w1 = w + 1
      BY <1>2, <1>4, <2>2, <2>3, <2>10
    <3> QED
      BY ONLY <2>2, <2>16, <3>1, RestOf
  <2>13. Carries(b, S, then)
    <3>1. a \in Seq(Token) /\ end \in Int /\ Carries(a, S, end) /\ w1 <= Len(a) + 1
          /\ then = end + (w1 - 1)
      BY <1>2, <1>4, <2>2, <2>3, <2>6, <2>10
    <3> QED
      BY ONLY <2>16, <3>1, w1 \in Nat \ {0}, RestOfStream
  <2>14. then + Len(b) <= Len(S) /\ (th2.open = FALSE \/ then + Len(b) = Len(S))
    <3>1. then + Len(b) = end + l
      BY <1>2, <2>3, <2>6, <2>12
    <3>2. th2.open = FALSE \/ end + l = m
      BY <1>2, <1>4, <2>2
    <3> QED
      BY <2>2, <2>7, <3>1, <3>2
  <2>15. Answers(Token, size, objs, rem, ref, th2, S, starts, sts, n, then)
    <3>1. Follows(Token, size, S, starts, sts, objs, n, th2.sent, then, th2.count, th2.parser)
      BY <1>4, <2>9
    <3> QED
      BY <1>1, <2>11, <2>12, <2>13, <2>14, <3>1 DEF Answers
  <2> QED
    BY <2>15 DEF S3Batch
<1>6. CASE buf = << >> /\ th.wire = << >> /\ th.open = FALSE
  <2>1. q = parse(p, << >>) /\ n <= sent
    BY <1>3, <1>4, <1>6
  <2>2. \/ Follows(Token, size, S, starts, sts, objs, n, sent, end, c, p)
        \/ HasEnded(Token, size, sts, objs, n, sent, c, p)
    BY <1>2, <1>4
  <2>3. \/ q.threw = TRUE
        \/ Follows(Token, size, S, starts, sts, objs, n, sent, end, c, q)
        \/ HasEnded(Token, size, sts, objs, n, sent, c, q)
    BY ONLY <1>2, <2>1, <2>2, size \in {0, 2}, ParsesEnd
  <2>4. th2.wire = << >>
    <3>1. a = << >> /\ th2.wire = SubSeq(a, Len(buf) + 1, Len(a)) /\ buf = << >>
      BY <1>4, <1>6
    <3> QED
      BY ONLY <3>1
  <2>5. Answers(Token, size, objs, rem, ref, th2, S, starts, sts, n, end)
    <3>1. \/ Follows(Token, size, S, starts, sts, objs, n, th2.sent, end, th2.count, th2.parser)
          \/ HasEnded(Token, size, sts, objs, n, th2.sent, th2.count, th2.parser)
      BY <1>4, <2>3
    <3>2. th2.wire = th.wire /\ th2.open = FALSE
      BY <1>6, <2>4
    <3> QED
      BY <1>1, <2>4, <3>1, <3>2 DEF Answers
  <2> QED
    BY <2>5 DEF S3Batch
<1> QED
  BY <1>5, <1>6

\* It takes the first response, which is the one to its next request.
LEMMA S3BatchPopped ==
  ASSUME NEW Token, NEW size, NEW objs, NEW rem, NEW ref, NEW th,
         S3Batch(Token, size, objs, rem, ref, th), NEW q, q = th.parser, q.complete # << >>,
         NEW d, d = th.count + 1,
         NEW th2, th2.sent = th.sent, th2.count = d, th2.parser = pop(q),
         th2.asked = th.asked, th2.wire = th.wire, th2.open = th.open
  PROVE  /\ S3Batch(Token, size, objs, rem, ref, th2)
         /\ \E st \in Statuses : /\ RightResponse(q.complete[1], size, st, objs[d])
                                 /\ size = 0 => objs[d] \in (IF st = "200" THEN rem ELSE ref)
<1>1. PICK S, starts, sts, n, end : Answers(Token, size, objs, rem, ref, th, S, starts, sts, n, end)
  BY DEF S3Batch
<1>2. PICK sent, c, r : sent = th.sent /\ c = th.count /\ r = pop(q)
  OBVIOUS
<1>3. /\ Stream(Token, size, S, starts, sts, objs, n)
      /\ \/ Follows(Token, size, S, starts, sts, objs, n, sent, end, c, q)
         \/ HasEnded(Token, size, sts, objs, n, sent, c, q) /\ th.wire = << >> /\ th.open = FALSE
      /\ size = 0 => \A j \in 1 .. n : objs[j] \in (IF sts[j] = "200" THEN rem ELSE ref)
  BY <1>1, <1>2 DEF Answers
<1>4. n \in Nat /\ sts \in [Pos -> Statuses]
  BY <1>3 DEF Stream
<1>5. PICK k \in Pos : /\ Counted(Token, size, sts, objs, sent, c, k, q) /\ Quiet(q) /\ k <= n + 1
                       /\ \/ \E off \in Nat : Reading(size, S, starts, sts, objs, n, end, k, off, q)
                          \/ Finished(sts, n, k, q) /\ th.wire = << >> /\ th.open = FALSE
  BY <1>3 DEF Follows, HasEnded, Reading, Finished
<1>6. /\ Counted(Token, size, sts, objs, sent, d, k, r)
      /\ r.message = q.message /\ r.buffer = q.buffer
      /\ RightResponse(q.complete[1], size, sts[d], objs[d])
      /\ d <= k - 1
  <2>1. d = c + 1 /\ r = pop(q)
    BY <1>2
  <2> QED
    <3>1. Counted(Token, size, sts, objs, sent, c, k, q)
      BY <1>5
    <3>2. Popped(Token, size, sts, objs, sent, k, q, d, r)
      BY ONLY <3>1, <2>1, q.complete # << >>, ResponsePopped
    <3> QED
      BY <3>2 DEF Popped
<1>7. Quiet(r)
  BY <1>5, <1>6 DEF Quiet
<1>8. \/ \E off \in Nat : Reading(size, S, starts, sts, objs, n, end, k, off, r)
      \/ Finished(sts, n, k, r) /\ th.wire = << >> /\ th.open = FALSE
  BY <1>5, <1>6 DEF Reading, Finished
<1>9. \/ Follows(Token, size, S, starts, sts, objs, n, sent, end, d, r)
      \/ HasEnded(Token, size, sts, objs, n, sent, d, r) /\ th.wire = << >> /\ th.open = FALSE
  BY <1>6, <1>7, <1>8 DEF Follows, HasEnded
<1>10. S3Batch(Token, size, objs, rem, ref, th2)
  <2>1. th2.sent = sent /\ th2.count = d /\ th2.parser = r
    BY <1>2
  <2>2. Answers(Token, size, objs, rem, ref, th2, S, starts, sts, n, end)
    BY <1>1, <1>9, <2>1 DEF Answers
  <2> QED
    BY <2>2 DEF S3Batch
<1>11. d \in 1 .. n /\ d \in Pos
  <2>1. d \in Nat /\ d # 0
    <3>1. c \in Nat
      BY <1>5 DEF Counted
    <3> QED
      BY <1>2, <3>1
  <2>2. k \in Nat
    BY DEF Pos
  <2> QED
    BY <1>4, <1>5, <1>6, <2>1, <2>2 DEF Pos
<1>12. sts[d] \in Statuses /\ (size = 0 => objs[d] \in (IF sts[d] = "200" THEN rem ELSE ref))
  BY <1>3, <1>4, <1>11
<1> QED
  BY <1>6, <1>10, <1>12

\* No request is pending any more: all of the batch are answered.
LEMMA S3BatchOver ==
  ASSUME NEW Token, NEW objs, NEW rem, NEW ref, NEW th,
         NEW size, size = 0, S3Batch(Token, size, objs, rem, ref, th), ~ (th.parser.requests > 0)
  PROVE  \A j \in 1 .. th.sent : objs[j] \in rem \cup ref
<1>1. PICK S, starts, sts, n, end : Answers(Token, size, objs, rem, ref, th, S, starts, sts, n, end)
  BY DEF S3Batch
<1>2. PICK sent, c, p : sent = th.sent /\ c = th.count /\ p = th.parser
  OBVIOUS
<1>3. /\ Stream(Token, size, S, starts, sts, objs, n) /\ ~ (p.requests > 0)
      /\ \/ Follows(Token, size, S, starts, sts, objs, n, sent, end, c, p)
         \/ HasEnded(Token, size, sts, objs, n, sent, c, p)
  BY <1>1, <1>2 DEF Answers
<1>4. sent <= n
  BY ONLY <1>3, NonePending
<1>5. n \in Nat /\ sent \in Nat
  BY <1>1, <1>2, <1>3 DEF Answers, Stream
<1>6. \A j \in 1 .. n : objs[j] \in (IF sts[j] = "200" THEN rem ELSE ref)
  BY <1>1 DEF Answers
<1> QED
  BY <1>2, <1>4, <1>5, <1>6

(***************************************************************************)
(* Sets of positions                                                       *)
(***************************************************************************)

Below(K, i) == { j \in K : j <= i }

\* Positions have different ranks.
LEMMA RanksDiffer ==
  ASSUME NEW K \in SUBSET Nat, IsFiniteSet(K), NEW i \in K, NEW j \in K,
         Cardinality(Below(K, i)) = Cardinality(Below(K, j))
  PROVE  i = j
<1>1. ASSUME NEW a \in K, NEW b \in K, a < b PROVE Cardinality(Below(K, a)) < Cardinality(Below(K, b))
  <2>1. Below(K, a) \subseteq Below(K, b) /\ b \in Below(K, b) /\ b \notin Below(K, a)
    <3>1. a \in Nat /\ b \in Nat /\ ~ (b <= a) /\ b <= b
      BY <1>1
    <3>2. \A x \in K : x <= a => x <= b
      <4> TAKE x \in K
      <4>1. x \in Nat
        OBVIOUS
      <4> QED
        BY <1>1, <3>1, <4>1
    <3> QED
      BY <3>1, <3>2 DEF Below
  <2>2. IsFiniteSet(Below(K, b)) /\ IsFiniteSet(Below(K, a))
    BY FS_Subset DEF Below
  <2>3. Below(K, a) # Below(K, b)
    BY <2>1
  <2> QED
    BY <2>1, <2>2, <2>3, FS_Subset, FS_CardinalityType
<1>2. Cardinality(Below(K, i)) \in Nat
  BY FS_Subset, FS_CardinalityType DEF Below
<1>3. ~ (i < j) /\ ~ (j < i)
  BY <1>1, <1>2
<1> QED
  BY <1>3

\* At(s, K) has the elements of s at the positions in K.
LEMMA AtHas ==
  ASSUME NEW s, NEW K \in SUBSET Nat, IsFiniteSet(K)
  PROVE  /\ Len(At(s, K)) = Cardinality(K) /\ Cardinality(K) \in Nat
         /\ At(s, K) \in Seq(Rng(At(s, K)))
         /\ \A i \in K : \E k \in 1 .. Len(At(s, K)) : At(s, K)[k] = s[i]
<1>1. PICK n \in Nat : n = Cardinality(K)
  BY FS_CardinalityType
<1>2. PICK r : r = [k \in 1 .. n |-> s[CHOOSE i \in K : Cardinality({ j \in K : j <= i }) = k]]
  OBVIOUS
<1>3. r = At(s, K)
  BY <1>1, <1>2 DEF At
<1>4. DOMAIN r = 1 .. n /\ r = [k \in 1 .. n |-> r[k]]
  BY <1>2
<1>5. Len(r) = n /\ r \in Seq(Rng(r))
  <2>1. \A k \in 1 .. n : r[k] \in Rng(r)
    BY <1>4 DEF Rng
  <2>2. PICK E : E = Rng(r)
    OBVIOUS
  <2>3. r \in [1 .. n -> E]
    BY <1>4, <2>1, <2>2
  <2>4. r \in Seq(E) /\ Len(r) = n
    BY ONLY <2>3, n \in Nat
  <2> QED
    BY <2>2, <2>4
<1>6. ASSUME NEW i \in K PROVE \E k \in 1 .. n : r[k] = s[i]
  <2>1. PICK k : k = Cardinality(Below(K, i))
    OBVIOUS
  <2>2. Below(K, i) \subseteq K /\ i \in Below(K, i)
    BY DEF Below
  <2>3. IsFiniteSet(Below(K, i)) /\ k \in Nat /\ k <= n
    BY <1>1, <2>1, <2>2, FS_Subset, FS_CardinalityType
  <2>4. k # 0
    BY <2>1, <2>2, <2>3, FS_EmptySet
  <2>5. k \in 1 .. n
    BY <2>3, <2>4
  <2>6. r[k] = s[CHOOSE x \in K : Cardinality(Below(K, x)) = k]
    BY <1>2, <2>5 DEF Below
  <2>7. \A x \in K : Cardinality(Below(K, x)) = k => x = i
    BY <2>1, RanksDiffer
  <2>8. (CHOOSE x \in K : Cardinality(Below(K, x)) = k) = i
    BY <2>1, <2>7
  <2> QED
    BY <2>5, <2>6, <2>8
<1> QED
  BY <1>1, <1>3, <1>5, <1>6

\* A set of positions without gaps.
LEMMA NoGaps ==
  ASSUME NEW b \in Nat, NEW K, K \subseteq 1 .. b,
         \A i \in K : \A j \in 1 .. i : j \in K
  PROVE  Cardinality(K) \in Nat /\ K = 1 .. Cardinality(K)
<1> DEFINE R == { d \in Nat : K \subseteq 1 .. d => \E n \in Nat : K = 1 .. n }
<1>1. 0 \in R
  <2>1. 1 .. 0 = {}
    OBVIOUS
  <2> QED
    BY <2>1
<1>2. ASSUME NEW d \in Nat, d \in R PROVE d + 1 \in R
  <2> SUFFICES ASSUME K \subseteq 1 .. d + 1 PROVE \E n \in Nat : K = 1 .. n
    OBVIOUS
  <2>1. CASE d + 1 \in K
    <3>1. \A j \in 1 .. d + 1 : j \in K
      BY <2>1
    <3>2. 1 .. d + 1 \subseteq K /\ K \subseteq 1 .. d + 1
      BY <3>1
    <3>3. K = 1 .. d + 1 /\ d + 1 \in Nat
      <4>1. PICK I : I = 1 .. d + 1
        OBVIOUS
      <4>2. K = I
        BY ONLY <3>2, <4>1
      <4> QED
        BY ONLY <4>1, <4>2, d \in Nat
    <3> QED
      BY <3>3
  <2>2. CASE d + 1 \notin K
    <3>1. K \subseteq 1 .. d
      <4> SUFFICES ASSUME NEW j \in K PROVE j \in 1 .. d
        OBVIOUS
      <4>1. j \in 1 .. d + 1 /\ j # d + 1
        BY <2>2
      <4> QED
        BY <4>1
    <3> QED
      BY <1>2, <3>1
  <2> QED
    BY <2>1, <2>2
<1>3. b \in R
  <2> HIDE DEF R
  <2> QED
    BY <1>1, <1>2, NatInductionOn
<1>4. PICK n \in Nat : K = 1 .. n
  BY <1>3
<1>5. Cardinality(1 .. n) = n
  BY FS_Interval
<1> QED
  BY <1>4, <1>5

(***************************************************************************)
(* The threads of a transfer. R are the requests, s the setup, w is "put"  *)
(* or "get"; rem and ref are the objects the service has and has refused.  *)
(***************************************************************************)

Words == {"200", "503", "CR", "LF", "chunked", "length0", "length2", "c0", "c1", "x"}
Tokens(R) == Words \cup Rng(R)

Replies(R) == [type : {"error", "status", "string"}, body : Seq(Rng(R))]

ThreadRecs(R) ==
    [pc : {"connect", "send", "drain", "done"}, first : Nat, sent : Nat, count : Nat,
     parser : Parsers(Tokens(R)), asked : Seq(Rng(R)), wire : Seq(Tokens(R) \cup Replies(R)),
     open : BOOLEAN]

Size(w) == IF w = "put" THEN 0 ELSE 2

\* The objects of a batch that starts with the request at `from`.
Objs(R, step, from) == [j \in Pos |-> R[from + (j - 1) * step]]

\* The first `rounds` requests of thread t have been granted or refused.
Covered(R, step, rem, ref, t, rounds) ==
    \A m \in Nat : m < rounds /\ t + m * step <= Len(R) => R[t + m * step] \in rem \cup ref

\* All of the batch that starts with the request at `from` are among the first sent ones.
Whole(R, s, from, sent) ==
    \A j \in 1 .. s.batch : from + (j - 1) * s.threads <= Len(R) => j <= sent

\* A batch of the Redis client: n requests are answered.
Replied(w, objs, rem, ref, th, n) ==
    /\ th.count + Len(th.wire) <= n /\ n + Len(th.asked) = th.sent
    /\ \A i \in 1 .. Len(th.asked) : th.asked[i] = objs[n + i]
    /\ \A i \in 1 .. Len(th.wire) : th.wire[i].body = Content(objs[th.count + i])
    /\ th.open = FALSE \/ th.count + Len(th.wire) = n
    /\ w = "put" => \A j \in 1 .. n : objs[j] \in rem \cup ref

RedisBatch(w, objs, rem, ref, th) == \E n \in Nat : Replied(w, objs, rem, ref, th, n)

Draining(s, w, R, rem, ref, th) ==
    /\ Whole(R, s, th.first, th.sent)
    /\ s.backend = "s3" =>
          S3Batch(Tokens(R), Size(w), Objs(R, s.threads, th.first), rem, ref, th)
    /\ s.backend = "redis" => RedisBatch(w, Objs(R, s.threads, th.first), rem, ref, th)

Fresh(s, th) ==
    /\ th.asked = << >> /\ th.wire = << >> /\ th.count = 0
    /\ s.backend = "s3" => th.parser = NewParser

ThreadOK(s, w, R, rem, ref, t, th) ==
    /\ th \in ThreadRecs(R)
    /\ \E a \in Nat : /\ th.first = t + a * s.threads
                      /\ w = "put" => Covered(R, s.threads, rem, ref, t, a)
    /\ th.pc \in {"connect", "send"} => Fresh(s, th)
    /\ th.pc = "drain" => Draining(s, w, R, rem, ref, th)
    /\ th.pc = "done" /\ w = "put" => \A m \in Nat : Covered(R, s.threads, rem, ref, t, m)

\* What is covered stays so: the service never loses an object.
LEMMA CoveredGrows ==
  ASSUME NEW R, NEW step, NEW rem, NEW ref, NEW t, NEW a, Covered(R, step, rem, ref, t, a),
         NEW rem2, rem \subseteq rem2, NEW ref2, ref \subseteq ref2
  PROVE  Covered(R, step, rem2, ref2, t, a)
BY DEF Covered

\* The same of a batch of the Redis client.
LEMMA RedisBatchGrows ==
  ASSUME NEW w, NEW objs, NEW rem, NEW ref, NEW th, RedisBatch(w, objs, rem, ref, th),
         NEW rem2, rem \subseteq rem2, NEW ref2, ref \subseteq ref2
  PROVE  RedisBatch(w, objs, rem2, ref2, th)
<1>1. PICK n \in Nat : Replied(w, objs, rem, ref, th, n)
  BY DEF RedisBatch
<1>2. Replied(w, objs, rem2, ref2, th, n)
  BY <1>1 DEF Replied
<1> QED
  BY <1>2 DEF RedisBatch

\* Another thread's requests are answered.
LEMMA ThreadStays ==
  ASSUME NEW s, NEW w, NEW R, NEW rem, NEW ref, NEW t, NEW th,
         ThreadOK(s, w, R, rem, ref, t, th),
         NEW rem2, rem \subseteq rem2, NEW ref2, ref \subseteq ref2
  PROVE  ThreadOK(s, w, R, rem2, ref2, t, th)
<1>1. /\ th \in ThreadRecs(R)
      /\ th.pc \in {"connect", "send"} => Fresh(s, th)
  BY DEF ThreadOK
<1>2. PICK a \in Nat : /\ th.first = t + a * s.threads
                       /\ w = "put" => Covered(R, s.threads, rem, ref, t, a)
  BY DEF ThreadOK
<1>3. w = "put" => Covered(R, s.threads, rem2, ref2, t, a)
  BY <1>2, CoveredGrows
<1>4. ASSUME th.pc = "drain" PROVE Draining(s, w, R, rem2, ref2, th)
  <2>1. Draining(s, w, R, rem, ref, th)
    BY <1>4 DEF ThreadOK
  <2>2. PICK objs, size, Token : /\ objs = Objs(R, s.threads, th.first) /\ size = Size(w)
                                 /\ Token = Tokens(R)
    OBVIOUS
  <2>3. ASSUME s.backend = "s3" PROVE S3Batch(Token, size, objs, rem2, ref2, th)
    <3>1. S3Batch(Token, size, objs, rem, ref, th)
      BY <2>1, <2>2, <2>3 DEF Draining
    <3> QED
      BY ONLY <3>1, rem \subseteq rem2, ref \subseteq ref2, S3BatchGrows
  <2>4. ASSUME s.backend = "redis" PROVE RedisBatch(w, objs, rem2, ref2, th)
    <3>1. RedisBatch(w, objs, rem, ref, th)
      BY <2>1, <2>2, <2>4 DEF Draining
    <3> QED
      BY ONLY <3>1, rem \subseteq rem2, ref \subseteq ref2, RedisBatchGrows
  <2> QED
    BY <2>1, <2>2, <2>3, <2>4 DEF Draining
<1>5. ASSUME th.pc = "done", w = "put" PROVE \A m \in Nat : Covered(R, s.threads, rem2, ref2, t, m)
  <2> TAKE m \in Nat
  <2>1. Covered(R, s.threads, rem, ref, t, m)
    BY <1>5 DEF ThreadOK
  <2> QED
    BY <2>1, CoveredGrows
<1> QED
  BY <1>1, <1>2, <1>3, <1>4, <1>5 DEF ThreadOK

\* A request's position, counted from the start of its batch.
LEMMA Positions ==
  ASSUME NEW t \in Nat \ {0}, NEW step \in Nat \ {0}, NEW a \in Nat, NEW from, from = t + a * step
  PROVE  /\ from \in Nat /\ from # 0
         /\ \A m \in Nat : from + m * step \in Nat /\ from <= from + m * step
         /\ \A m \in Nat : \A b \in Nat : m <= b => from + m * step <= from + b * step
         /\ \A m \in Nat : from + m * step = t + (a + m) * step
<1>1. a * step \in Nat
  OBVIOUS
<1>2. from \in Nat /\ from # 0
  BY <1>1
<1>3. ASSUME NEW m \in Nat PROVE from + m * step \in Nat /\ from <= from + m * step
  <2>1. m * step \in Nat
    OBVIOUS
  <2> QED
    BY <1>2, <2>1
<1>4. ASSUME NEW m \in Nat, NEW b \in Nat, m <= b PROVE from + m * step <= from + b * step
  <2>1. PICK d \in Nat : b = m + d
    <3>1. b - m \in Nat /\ b = m + (b - m)
      BY <1>4
    <3> QED
      BY <3>1
  <2>2. b * step = m * step + d * step /\ d * step \in Nat /\ m * step \in Nat
    BY <2>1
  <2> QED
    BY <1>2, <2>2
<1>5. ASSUME NEW m \in Nat PROVE from + m * step = t + (a + m) * step
  <2>1. (a + m) * step = a * step + m * step
    OBVIOUS
  <2>2. m * step \in Nat
    OBVIOUS
  <2> QED
    BY <1>1, <2>1, <2>2
<1> QED
  BY <1>2, <1>3, <1>4, <1>5

(***************************************************************************)
(* The steps of one thread: Connect, Send, Serve, the end of the stream,   *)
(* Drain and BatchDone keep what is claimed of it                          *)
(***************************************************************************)

\* A new parser, and one that expects requests.
LEMMA NewParserIs ==
  ASSUME NEW Token
  PROVE  /\ NewParser \in Parsers(Token)
         /\ \A n \in Nat : new_requests_arrived(NewParser, n) \in Parsers(Token)
<1>1. NewMessage \in Messages(Token)
  BY DEF NewMessage, Messages, MessageStates, NewChunkedBody, ChunkParsers, ChunkStates
<1>2. << >> \in Seq([status : Token, body : Seq(Token)]) /\ << >> \in Seq(Token)
  OBVIOUS
<1>3. NewParser \in Parsers(Token) /\ NewParser.requests = 0
  BY ONLY <1>1, <1>2 DEF Parsers, NewParser
<1>4. ASSUME NEW n \in Nat PROVE new_requests_arrived(NewParser, n) \in Parsers(Token)
  <2>0. PICK p : p = NewParser
    OBVIOUS
  <2>1. PICK k \in Int : k = p.requests + n
    BY <1>3, <2>0
  <2>2. p \in Parsers(Token)
    BY <1>3, <2>0
  <2>3. [p EXCEPT !.requests = k] \in Parsers(Token)
    BY ONLY <2>2, k \in Int DEF Parsers
  <2> QED
    BY <2>0, <2>1, <2>3 DEF new_requests_arrived
<1> QED
  BY <1>3, <1>4

\* A thread that is about to open a connection.
LEMMA NewThreadOK ==
  ASSUME NEW s, NEW w, NEW R, NEW rem, NEW ref, NEW t,
         NEW a \in Nat, w = "put" => Covered(R, s.threads, rem, ref, t, a),
         NEW from \in Nat, from = t + a * s.threads, NEW th, th = NewThread(from)
  PROVE  ThreadOK(s, w, R, rem, ref, t, th)
<1>1. PICK E, Q, n, Token : E = Seq(Tokens(R) \cup Replies(R)) /\ Q = Seq(Rng(R)) /\ n = NewParser
                            /\ Token = Tokens(R)
  OBVIOUS
<1>2. << >> \in E /\ << >> \in Q /\ n \in Parsers(Token)
  BY <1>1, NewParserIs
<1>3. /\ th = [pc |-> "connect", first |-> from, sent |-> 0, count |-> 0, parser |-> n,
               asked |-> << >>, wire |-> << >>, open |-> TRUE]
  BY <1>1 DEF NewThread
<1>4. th \in [pc : {"connect", "send", "drain", "done"}, first : Nat, sent : Nat, count : Nat,
              parser : Parsers(Token), asked : Q, wire : E, open : BOOLEAN]
  BY ONLY <1>2, <1>3, from \in Nat
<1>5. th \in ThreadRecs(R)
  BY <1>1, <1>4 DEF ThreadRecs
<1>6. /\ th.pc = "connect" /\ th.first = from /\ th.asked = << >> /\ th.wire = << >>
      /\ th.count = 0 /\ th.parser = NewParser
  BY <1>1, <1>3
<1>7. Fresh(s, th)
  BY <1>6 DEF Fresh
<1> QED
  BY <1>5, <1>6, <1>7 DEF ThreadOK

\* Connect.
LEMMA ConnectedOK ==
  ASSUME NEW s, NEW w, NEW R, NEW rem, NEW ref, NEW t, NEW th, ThreadOK(s, w, R, rem, ref, t, th),
         th.pc = "connect", NEW th2, th2 = [th EXCEPT !.pc = "send"]
  PROVE  ThreadOK(s, w, R, rem, ref, t, th2)
<1>1. th \in ThreadRecs(R) /\ Fresh(s, th)
  BY DEF ThreadOK
<1>2. /\ th2 \in ThreadRecs(R) /\ th2.pc = "send" /\ th2.first = th.first /\ th2.asked = th.asked
      /\ th2.wire = th.wire /\ th2.count = th.count /\ th2.parser = th.parser
  BY ONLY <1>1, th2 = [th EXCEPT !.pc = "send"] DEF ThreadRecs
<1>3. Fresh(s, th2)
  BY <1>1, <1>2 DEF Fresh
<1> QED
  BY <1>2, <1>3 DEF ThreadOK

\* Send.
LEMMA SentOK ==
  ASSUME NEW s, s.threads \in Nat \ {0}, s.batch \in Nat \ {0}, s.backend \in {"s3", "redis"},
         NEW w, NEW R, Len(R) \in Nat, R \in Seq(Rng(R)), NEW rem, NEW ref, NEW t \in Nat \ {0}, NEW th,
         ThreadOK(s, w, R, rem, ref, t, th), th.pc = "send",
         NEW K, K = { j \in 1 .. s.batch : th.first + (j - 1) * s.threads <= Len(R) },
         NEW sent, sent = Cardinality(K),
         NEW batch, batch = [j \in 1 .. sent |-> R[th.first + (j - 1) * s.threads]],
         NEW q, q = IF s.backend = "redis" THEN th.parser ELSE new_requests_arrived(th.parser, sent),
         NEW th2, th2 = [th EXCEPT !.pc = "drain", !.sent = sent, !.asked = th.asked \o batch,
                                   !.parser = q]
  PROVE  ThreadOK(s, w, R, rem, ref, t, th2)
<1>1. th \in ThreadRecs(R) /\ Fresh(s, th)
  BY DEF ThreadOK
<1>2. PICK a \in Nat : /\ th.first = t + a * s.threads
                       /\ w = "put" => Covered(R, s.threads, rem, ref, t, a)
  BY DEF ThreadOK
<1>0. PICK from : from = th.first
  OBVIOUS
<1>20. PICK step \in Nat \ {0}, len \in Nat : step = s.threads /\ len = Len(R)
  OBVIOUS
<1>3. from = th.first /\ step = s.threads /\ len = Len(R)
  BY <1>0, <1>20
<1>4. /\ from \in Nat /\ from # 0
      /\ \A m \in Nat : from + m * step \in Nat /\ from <= from + m * step
      /\ \A m \in Nat : \A b \in Nat : m <= b => from + m * step <= from + b * step
  <2>1. from = t + a * step
    BY <1>2, <1>3
  <2> QED
    BY ONLY <2>1, t \in Nat \ {0}, step \in Nat \ {0}, a \in Nat, Positions
<1>5. K = { j \in 1 .. s.batch : from + (j - 1) * step <= len }
  BY <1>3
<1>6. sent \in Nat /\ K = 1 .. sent
  <2>1. ASSUME NEW i \in K, NEW j \in 1 .. i PROVE j \in K
    <3>1. i \in 1 .. s.batch /\ from + (i - 1) * step <= len
      BY <1>5
    <3>2. i - 1 \in Nat /\ j - 1 \in Nat /\ j - 1 <= i - 1 /\ j \in 1 .. s.batch
      <4>1. PICK b \in Nat : b = s.batch
        OBVIOUS
      <4>2. i \in 1 .. b /\ j \in 1 .. i
        BY <3>1, <4>1
      <4>3. i - 1 \in Nat /\ j - 1 \in Nat /\ j - 1 <= i - 1 /\ j \in 1 .. b
        BY ONLY <4>2, b \in Nat
      <4> QED
        BY <4>1, <4>3
    <3>3. from + (j - 1) * step <= from + (i - 1) * step
          /\ from + (j - 1) * step \in Nat /\ from + (i - 1) * step \in Nat
      BY <1>4, <3>2
    <3>4. from + (j - 1) * step <= len
      BY <3>1, <3>3
    <3> QED
      BY <1>5, <3>2, <3>4
  <2>2. K \subseteq 1 .. s.batch
    OBVIOUS
  <2>3. PICK b \in Nat : b = s.batch
    OBVIOUS
  <2>4. K \subseteq 1 .. b /\ \A i \in K : \A j \in 1 .. i : j \in K
    BY <2>1, <2>2, <2>3
  <2>5. Cardinality(K) \in Nat /\ K = 1 .. Cardinality(K)
    BY ONLY <2>4, b \in Nat, NoGaps
  <2> QED
    BY <2>5
<1>7. \A j \in 1 .. sent : from + (j - 1) * step \in 1 .. len
  <2> TAKE j \in 1 .. sent
  <2>1. j \in K
    BY <1>6
  <2>2. j - 1 \in Nat /\ from + (j - 1) * step <= len
    BY <1>5, <1>6, <2>1
  <2>3. from + (j - 1) * step \in Nat /\ from <= from + (j - 1) * step
    BY <1>4, <2>2
  <2> QED
    BY <1>4, <2>2, <2>3
<1>8. PICK E : E = Rng(R)
  OBVIOUS
<1>9. /\ batch \in Seq(E) /\ Len(batch) = sent
      /\ \A j \in 1 .. sent : batch[j] = R[from + (j - 1) * step]
  <2>1. \A j \in 1 .. sent : R[from + (j - 1) * step] \in E
    <3>1. \A i \in 1 .. len : R[i] \in E
      BY <1>3, <1>8
    <3> QED
      BY <1>7, <3>1
  <2>2. batch = [j \in 1 .. sent |-> R[from + (j - 1) * step]]
    BY <1>3
  <2> QED
    BY ONLY <1>6, <2>1, <2>2
<1>10. th.asked \o batch = batch
  <2>1. PICK x : x = th.asked
    OBVIOUS
  <2>2. x = << >>
    BY <1>1, <2>1 DEF Fresh
  <2>3. x \o batch = batch
    BY ONLY <1>9, <2>2
  <2> QED
    BY <2>1, <2>3
<1>11. q \in Parsers(Tokens(R))
  <2>1. CASE s.backend = "redis"
    BY <1>1, <2>1 DEF ThreadRecs
  <2>2. CASE s.backend = "s3"
    <3>1. q = new_requests_arrived(NewParser, sent)
      BY <1>1, <2>2 DEF Fresh
    <3> QED
      BY <1>6, <3>1, NewParserIs
  <2> QED
    BY <2>1, <2>2
<1>12. /\ th2 \in ThreadRecs(R) /\ th2.pc = "drain" /\ th2.first = from /\ th2.sent = sent
       /\ th2.asked = batch /\ th2.parser = q /\ th2.wire = th.wire /\ th2.count = th.count
  <2>1. th2 = [th EXCEPT !.pc = "drain", !.sent = sent, !.asked = batch, !.parser = q]
    BY <1>10
  <2>2. batch \in Seq(Rng(R))
    BY <1>8, <1>9
  <2> QED
    BY ONLY <1>1, <1>3, <1>6, <1>11, <2>1, <2>2 DEF ThreadRecs
<1>13. PICK objs : objs = Objs(R, s.threads, from)
  OBVIOUS
<1>14. \A i \in 1 .. sent : batch[i] = objs[i]
  BY <1>3, <1>6, <1>9, <1>13 DEF Objs, Pos
<1>15. Whole(R, s, from, sent)
  <2> SUFFICES ASSUME NEW j \in 1 .. s.batch, from + (j - 1) * s.threads <= Len(R) PROVE j <= sent
    BY DEF Whole
  <2>1. j \in K
    BY <1>3
  <2> QED
    BY <1>6, <2>1
<1>16. ASSUME s.backend = "s3" PROVE S3Batch(Tokens(R), Size(w), objs, rem, ref, th2)
  <2>1. PICK Token, size : Token = Tokens(R) /\ size = Size(w)
    OBVIOUS
  <2>2. size \in {0, 2}
    BY <2>1 DEF Size
  <2>3. /\ th2.sent \in Nat /\ th2.count = 0 /\ th2.wire = << >>
        /\ th2.parser = new_requests_arrived(NewParser, th2.sent)
    BY <1>1, <1>6, <1>12, <1>16 DEF Fresh
  <2>4. th2.asked \in Seq(Token)
    <3>1. E \subseteq Token
      BY <1>8, <2>1 DEF Tokens
    <3>2. batch \in Seq(Token)
      BY ONLY <1>9, <3>1
    <3> QED
      BY <1>12, <3>2
  <2>5. Len(th2.asked) = th2.sent /\ \A i \in 1 .. Len(th2.asked) : th2.asked[i] = objs[i]
    <3>1. th2.asked = batch /\ th2.sent = sent
      BY <1>12
    <3> QED
      BY ONLY <1>9, <1>14, <3>1
  <2>6. S3Batch(Token, size, objs, rem, ref, th2)
    BY ONLY <2>2, <2>3, <2>4, <2>5, S3BatchSent
  <2> QED
    BY <2>1, <2>6
<1>17. ASSUME s.backend = "redis" PROVE RedisBatch(w, objs, rem, ref, th2)
  <2>1. PICK n \in Nat : n = 0
    OBVIOUS
  <2>2. /\ th2.count = 0 /\ th2.wire = << >> /\ Len(th2.wire) = 0 /\ Len(th2.asked) = sent
    <3>1. th2.asked = batch /\ th2.count = 0 /\ th2.wire = << >>
      BY <1>1, <1>12 DEF Fresh
    <3> QED
      BY ONLY <1>9, <3>1
  <2>3. n + Len(th2.asked) = th2.sent /\ \A i \in 1 .. Len(th2.asked) : th2.asked[i] = objs[n + i]
    <3>1. th2.asked = batch /\ th2.sent = sent
      BY <1>12
    <3>2. n + sent = sent /\ \A i \in 1 .. sent : n + i = i
      BY <1>6, <2>1
    <3>3. n + Len(th2.asked) = th2.sent
      BY ONLY <1>9, <3>1, <3>2
    <3>4. ASSUME NEW i \in 1 .. Len(th2.asked) PROVE th2.asked[i] = objs[n + i]
      <4>1. i \in 1 .. sent
        BY <1>9, <3>1
      <4> QED
        BY <1>14, <3>1, <3>2, <4>1
    <3> QED
      BY <3>3, <3>4
  <2>4. Replied(w, objs, rem, ref, th2, n)
    <3>1. 1 .. Len(th2.wire) = {} /\ 1 .. n = {} /\ th2.count + Len(th2.wire) = n
      BY <2>1, <2>2
    <3>2. th2.count + Len(th2.wire) <= n
      BY <3>1
    <3>3. \A i \in 1 .. Len(th2.wire) : th2.wire[i].body = Content(objs[th2.count + i])
      BY <3>1
    <3>4. w = "put" => \A j \in 1 .. n : objs[j] \in rem \cup ref
      BY <3>1
    <3> QED
      BY ONLY <2>3, <3>1, <3>2, <3>3, <3>4 DEF Replied
  <2> QED
    BY <2>4 DEF RedisBatch
<1>18. Draining(s, w, R, rem, ref, th2)
  BY <1>12, <1>13, <1>15, <1>16, <1>17 DEF Draining
<1> QED
  BY <1>2, <1>3, <1>12, <1>18 DEF ThreadOK

\* The requests that are unanswered after the first of them is.
LEMMA RestOfAsked ==
  ASSUME NEW E, NEW a \in Seq(E), a # << >>, NEW b, b = Tail(a)
  PROVE  /\ b \in Seq(E) /\ Len(a) \in Nat \ {0} /\ Len(b) = Len(a) - 1 /\ Head(a) = a[1] /\ a[1] \in E
         /\ \A i \in 1 .. Len(b) : b[i] = a[i + 1]
OBVIOUS

\* The service has answered the request that was next for Redis.
LEMMA RedisServed ==
  ASSUME NEW E, NEW W, NEW w, NEW objs, NEW rem, NEW ref, NEW th,
         RedisBatch(w, objs, rem, ref, th), th.asked \in Seq(E), th.asked # << >>, th.open # FALSE,
         th.wire \in Seq(W), th.count \in Nat, th.sent \in Nat,
         w = "put" => Head(th.asked) \in rem \cup ref,
         NEW r \in W, r.body = Content(Head(th.asked)),
         NEW th2, th2.asked = Tail(th.asked), th2.wire = th.wire \o << r >>,
         th2.count = th.count, th2.sent = th.sent
  PROVE  RedisBatch(w, objs, rem, ref, th2)
<1>1. PICK n \in Nat : Replied(w, objs, rem, ref, th, n)
  BY DEF RedisBatch
<1>2. PICK a, b, x, y : a = th.asked /\ b = Tail(a) /\ x = th.wire /\ y = x \o << r >>
  OBVIOUS
<1>3. /\ a \in Seq(E) /\ b \in Seq(E) /\ Len(a) \in Nat /\ Len(b) \in Nat /\ Len(b) = Len(a) - 1
      /\ Head(a) = a[1]
      /\ \A i \in 1 .. Len(b) : b[i] = a[i + 1]
  BY <1>2, RestOfAsked
<1>4. PICK lx \in Nat : lx = Len(x)
  BY <1>2
<1>5. Len(y) = lx + 1 /\ y[lx + 1] = r /\ \A i \in 1 .. lx : y[i] = x[i]
  <2>1. x \in Seq(W)
    BY <1>2
  <2> QED
    BY ONLY <1>2, <1>4, <2>1, r \in W
<1>6. PICK c \in Nat, sent \in Nat, la \in Nat : c = th.count /\ sent = th.sent /\ la = Len(b)
  BY <1>3
<1>7. /\ c + lx = n /\ n + (la + 1) = sent
      /\ \A i \in 1 .. la + 1 : a[i] = objs[n + i]
      /\ \A i \in 1 .. lx : x[i].body = Content(objs[c + i])
      /\ w = "put" => \A j \in 1 .. n : objs[j] \in rem \cup ref
  <2>1. Len(a) = la + 1
    BY <1>3, <1>6
  <2>2. /\ th.count + Len(th.wire) = n /\ n + Len(th.asked) = th.sent
        /\ \A i \in 1 .. Len(th.asked) : th.asked[i] = objs[n + i]
        /\ \A i \in 1 .. Len(th.wire) : th.wire[i].body = Content(objs[th.count + i])
        /\ w = "put" => \A j \in 1 .. n : objs[j] \in rem \cup ref
    BY <1>1 DEF Replied
  <2> QED
    BY <1>2, <1>4, <1>6, <2>1, <2>2
<1>8. a[1] = objs[n + 1]
  <2>1. 1 \in 1 .. la + 1
    OBVIOUS
  <2> QED
    BY <1>7, <2>1
<1>9. PICK m \in Nat : m = n + 1
  OBVIOUS
<1>10. m + la = sent /\ c + (lx + 1) = m
  BY <1>7, <1>9
<1>11. ASSUME NEW i \in 1 .. la PROVE b[i] = objs[m + i]
  <2>1. i + 1 \in 1 .. la + 1 /\ n + (i + 1) = m + i
    BY <1>9
  <2>2. b[i] = a[i + 1]
    BY <1>3, <1>6
  <2> QED
    BY <1>7, <2>1, <2>2
<1>12. ASSUME NEW i \in 1 .. lx + 1 PROVE y[i].body = Content(objs[c + i])
  <2>1. CASE i \in 1 .. lx
    BY <1>5, <1>7, <2>1
  <2>2. CASE i = lx + 1
    <3>1. y[i] = r /\ c + i = n + 1
      BY <1>5, <1>9, <1>10, <2>2
    <3> QED
      BY <1>2, <1>3, <1>8, <3>1
  <2> QED
    BY <2>1, <2>2
<1>13. ASSUME w = "put" PROVE \A j \in 1 .. m : objs[j] \in rem \cup ref
  <2> TAKE j \in 1 .. m
  <2>1. CASE j \in 1 .. n
    BY <1>7, <1>13, <2>1
  <2>2. CASE j = n + 1
    BY <1>2, <1>3, <1>8, <1>13, <2>2
  <2> QED
    BY <1>9, <2>1, <2>2
<1>14. Replied(w, objs, rem, ref, th2, m)
  <2>1. th2.asked = b /\ th2.wire = y /\ th2.count = c /\ th2.sent = sent
    BY <1>2, <1>6
  <2>2. th2.count + Len(th2.wire) = m /\ th2.count + Len(th2.wire) <= m /\ m + Len(th2.asked) = th2.sent
    <3>1. Len(th2.wire) = lx + 1 /\ Len(th2.asked) = la
      BY <1>5, <1>6, <2>1
    <3>2. c + (lx + 1) = m /\ c + (lx + 1) <= m /\ m + la = sent
      BY <1>10
    <3> QED
      BY ONLY <2>1, <3>1, <3>2
  <2>3. \A i \in 1 .. Len(th2.asked) : th2.asked[i] = objs[m + i]
    BY <1>6, <1>11, <2>1
  <2>4. \A i \in 1 .. Len(th2.wire) : th2.wire[i].body = Content(objs[th2.count + i])
    BY <1>5, <1>12, <2>1
  <2> QED
    BY ONLY <1>13, <2>2, <2>3, <2>4 DEF Replied
<1> QED
  BY <1>14 DEF RedisBatch

\* The service answers the first request for o that thread th has sent.
Served(s, w, R, rem, ref, o, reply, th, th2) ==
    /\ th.open /\ th.asked # << >> /\ o = Head(th.asked)
    /\ s.backend = "s3" => /\ reply \in Seq(Tokens(R))
                           /\ \E st \in Statuses :
                                 /\ reply = ReplyTokens(Size(w), st, o)
                                 /\ w = "put" => o \in (IF st = "200" THEN rem ELSE ref)
    /\ s.backend = "redis" => /\ \E r \in Replies(R) : reply = << r >> /\ r.body = Content(o)
                              /\ w = "put" => o \in rem \cup ref
    /\ th2 = [th EXCEPT !.asked = Tail(th.asked), !.wire = th.wire \o reply]

\* Serve.
LEMMA ServedOK ==
  ASSUME NEW s, s.backend \in {"s3", "redis"}, NEW w, NEW R, NEW rem, NEW ref, NEW t, NEW th,
         ThreadOK(s, w, R, rem, ref, t, th), NEW o, NEW reply, NEW th2,
         Served(s, w, R, rem, ref, o, reply, th, th2)
  PROVE  ThreadOK(s, w, R, rem, ref, t, th2)
<1> USE DEF Served
<1>1. th \in ThreadRecs(R)
  BY DEF ThreadOK
<1>2. PICK E, W : E = Rng(R) /\ W = Tokens(R) \cup Replies(R)
  OBVIOUS
<1>3. /\ th.asked \in Seq(E) /\ th.wire \in Seq(W) /\ th.count \in Nat /\ th.sent \in Nat
      /\ th.open # FALSE
  BY <1>1, <1>2 DEF ThreadRecs
<1>4. PICK b : b = Tail(th.asked)
  OBVIOUS
<1>5. b \in Seq(E)
  BY <1>3, <1>4, RestOfAsked
<1>6. reply \in Seq(W)
  <2>1. CASE s.backend = "s3"
    <3>1. PICK Token : Token = Tokens(R)
      OBVIOUS
    <3>2. Token \subseteq W /\ reply \in Seq(Token)
      BY <1>2, <2>1, <3>1
    <3> QED
      BY ONLY <3>2
  <2>2. CASE s.backend = "redis"
    <3>1. PICK r \in Replies(R) : reply = << r >>
      BY <2>2
    <3>2. r \in W
      BY <1>2
    <3> QED
      BY ONLY <3>1, <3>2
  <2> QED
    BY <2>1, <2>2
<1>7. PICK y : y = th.wire \o reply
  OBVIOUS
<1>8. y \in Seq(W)
  <2>1. PICK x : x = th.wire
    OBVIOUS
  <2>2. x \in Seq(W) /\ y = x \o reply
    BY <1>3, <1>7, <2>1
  <2> QED
    BY ONLY <1>6, <2>2
<1>9. /\ th2 \in ThreadRecs(R) /\ th2.pc = th.pc /\ th2.first = th.first /\ th2.sent = th.sent
      /\ th2.count = th.count /\ th2.parser = th.parser /\ th2.asked = b /\ th2.wire = y
      /\ th2.open = th.open
  <2>1. th2 = [th EXCEPT !.asked = b, !.wire = y]
    BY <1>4, <1>7
  <2>2. b \in Seq(Rng(R)) /\ y \in Seq(Tokens(R) \cup Replies(R))
    BY <1>2, <1>5, <1>8
  <2> QED
    BY ONLY <1>1, <2>1, <2>2 DEF ThreadRecs
<1>10. ~ (th.pc \in {"connect", "send"})
  BY DEF ThreadOK, Fresh
<1>11. ASSUME th.pc = "drain" PROVE Draining(s, w, R, rem, ref, th2)
  <2>1. Draining(s, w, R, rem, ref, th)
    BY <1>11 DEF ThreadOK
  <2>2. PICK objs, size, Token : /\ objs = Objs(R, s.threads, th.first) /\ size = Size(w)
                                 /\ Token = Tokens(R)
    OBVIOUS
  <2>3. ASSUME s.backend = "s3" PROVE S3Batch(Token, size, objs, rem, ref, th2)
    <3>1. S3Batch(Token, size, objs, rem, ref, th)
      BY <2>1, <2>2, <2>3 DEF Draining
    <3>2. size \in {0, 2} /\ (size = 0 => w = "put")
      BY <2>2 DEF Size
    <3>3. PICK st \in Statuses : /\ reply = ReplyTokens(Size(w), st, o)
                                 /\ w = "put" => o \in (IF st = "200" THEN rem ELSE ref)
      BY <2>3
    <3>4. /\ reply \in Seq(Token) /\ reply = ReplyTokens(size, st, Head(th.asked))
          /\ size = 0 => Head(th.asked) \in (IF st = "200" THEN rem ELSE ref)
      BY <2>2, <2>3, <3>2, <3>3
    <3>5. /\ th2.sent = th.sent /\ th2.count = th.count /\ th2.parser = th.parser
          /\ th2.asked = Tail(th.asked) /\ th2.wire = th.wire \o reply
      BY <1>4, <1>7, <1>9
    <3> QED
      BY ONLY <1>3, <3>1, <3>2, <3>4, <3>5, th.asked # << >>, st \in Statuses, S3BatchServed
  <2>4. ASSUME s.backend = "redis" PROVE RedisBatch(w, objs, rem, ref, th2)
    <3>1. RedisBatch(w, objs, rem, ref, th)
      BY <2>1, <2>2, <2>4 DEF Draining
    <3>2. PICK r \in Replies(R) : reply = << r >> /\ r.body = Content(Head(th.asked))
      BY <2>4
    <3>3. r \in W
      BY <1>2
    <3>4. w = "put" => Head(th.asked) \in rem \cup ref
      BY <2>4
    <3>5. /\ th2.sent = th.sent /\ th2.count = th.count
          /\ th2.asked = Tail(th.asked) /\ th2.wire = th.wire \o << r >>
      BY <1>4, <1>7, <1>9, <3>2
    <3> QED
      BY ONLY <1>3, <3>1, <3>2, <3>3, <3>4, <3>5, th.asked # << >>, RedisServed
  <2> QED
    BY <1>9, <2>1, <2>2, <2>3, <2>4 DEF Draining
<1> QED
  BY <1>9, <1>10, <1>11 DEF ThreadOK

\* CloseIdle and CloseEarly: the connection is closed, perhaps within an answer.
LEMMA CutOK ==
  ASSUME NEW s, NEW w, NEW R, NEW rem, NEW ref, NEW t, NEW th,
         ThreadOK(s, w, R, rem, ref, t, th), th.pc = "drain", NEW k \in 0 .. Len(th.wire),
         NEW th2, th2 = [th EXCEPT !.open = FALSE, !.wire = SubSeq(th.wire, 1, k)]
  PROVE  ThreadOK(s, w, R, rem, ref, t, th2)
<1>1. th \in ThreadRecs(R) /\ Draining(s, w, R, rem, ref, th)
  BY DEF ThreadOK
<1>2. PICK W, x, y : W = Tokens(R) \cup Replies(R) /\ x = th.wire /\ y = SubSeq(x, 1, k)
  OBVIOUS
<1>3. x \in Seq(W) /\ th.count \in Nat
  BY <1>1, <1>2 DEF ThreadRecs
<1>4. PICK lx \in Nat : lx = Len(x)
  BY <1>3
<1>5. y \in Seq(W) /\ Len(y) = k /\ k \in Nat /\ k <= lx /\ \A i \in 1 .. k : y[i] = x[i]
  <2>1. k \in 0 .. Len(x)
    BY <1>2
  <2> QED
    BY ONLY <1>2, <1>3, <1>4, <2>1
<1>6. /\ th2 \in ThreadRecs(R) /\ th2.pc = th.pc /\ th2.first = th.first /\ th2.sent = th.sent
      /\ th2.count = th.count /\ th2.parser = th.parser /\ th2.asked = th.asked /\ th2.wire = y
      /\ th2.open = FALSE
  <2>1. th2 = [th EXCEPT !.open = FALSE, !.wire = y]
    BY <1>2
  <2>2. y \in Seq(Tokens(R) \cup Replies(R))
    BY <1>2, <1>5
  <2> QED
    BY ONLY <1>1, <2>1, <2>2 DEF ThreadRecs
<1>7. PICK objs, size, Token : /\ objs = Objs(R, s.threads, th.first) /\ size = Size(w)
                               /\ Token = Tokens(R)
  OBVIOUS
<1>8. ASSUME s.backend = "s3" PROVE S3Batch(Token, size, objs, rem, ref, th2)
  <2>1. S3Batch(Token, size, objs, rem, ref, th)
    BY <1>1, <1>7, <1>8 DEF Draining
  <2>2. /\ th2.sent = th.sent /\ th2.count = th.count /\ th2.parser = th.parser
        /\ th2.asked = th.asked /\ th2.wire = SubSeq(th.wire, 1, k) /\ th2.open = FALSE
    BY <1>2, <1>6
  <2> QED
    BY ONLY <2>1, <2>2, k \in 0 .. Len(th.wire), S3BatchCut
<1>9. ASSUME s.backend = "redis" PROVE RedisBatch(w, objs, rem, ref, th2)
  <2>1. RedisBatch(w, objs, rem, ref, th)
    BY <1>1, <1>7, <1>9 DEF Draining
  <2>2. PICK n \in Nat : Replied(w, objs, rem, ref, th, n)
    BY <2>1 DEF RedisBatch
  <2>3. PICK c \in Nat : c = th.count
    BY <1>3
  <2>4. c + lx <= n /\ \A i \in 1 .. lx : x[i].body = Content(objs[c + i])
    BY <1>2, <1>4, <2>2, <2>3 DEF Replied
  <2>5. c + k <= n
    BY <1>5, <2>4
  <2>6. \A i \in 1 .. k : y[i].body = Content(objs[c + i])
    <3> TAKE i \in 1 .. k
    <3>1. i \in 1 .. lx
      BY <1>5
    <3> QED
      BY <1>5, <2>4, <3>1
  <2>7. Replied(w, objs, rem, ref, th2, n)
    <3>1. th2.count + Len(th2.wire) <= n
      BY <1>5, <1>6, <2>3, <2>5
    <3>2. \A i \in 1 .. Len(th2.wire) : th2.wire[i].body = Content(objs[th2.count + i])
      BY <1>5, <1>6, <2>3, <2>6
    <3> QED
      BY <1>6, <2>2, <3>1, <3>2 DEF Replied
  <2> QED
    BY <2>7 DEF RedisBatch
<1>10. Draining(s, w, R, rem, ref, th2)
  BY <1>1, <1>6, <1>7, <1>8, <1>9 DEF Draining
<1> QED
  BY <1>6, <1>10 DEF ThreadOK

\* DrainS3, a read without the response that may come of it.
LEMMA ReadOK ==
  ASSUME NEW s, s.backend = "s3", NEW w, NEW R, NEW rem, NEW ref, NEW t, NEW th,
         ThreadOK(s, w, R, rem, ref, t, th), th.pc = "drain",
         NEW buf, buf \in Reads(th), NEW q, q = parse(th.parser, buf), ~ Fails(q),
         NEW th2, th2 = [th EXCEPT !.parser = q, !.wire = SubSeq(th.wire, Len(buf) + 1, Len(th.wire))]
  PROVE  ThreadOK(s, w, R, rem, ref, t, th2)
<1>1. th \in ThreadRecs(R) /\ Draining(s, w, R, rem, ref, th)
  BY DEF ThreadOK
<1>2. PICK objs, size, Token : /\ objs = Objs(R, s.threads, th.first) /\ size = Size(w)
                               /\ Token = Tokens(R)
  OBVIOUS
<1>3. S3Batch(Token, size, objs, rem, ref, th) /\ size \in {0, 2}
  BY <1>1, <1>2 DEF Draining, Size
<1>4. th.open \in BOOLEAN /\ th.wire \in Seq(Tokens(R) \cup Replies(R))
  BY <1>1 DEF ThreadRecs
<1>5. \/ \E k \in 1 .. Len(th.wire) : buf = SubSeq(th.wire, 1, k)
      \/ buf = << >> /\ th.wire = << >> /\ th.open = FALSE
  BY <1>4 DEF Reads
<1>6. ~ (q.threw = TRUE)
  BY DEF Fails
<1>7. PICK y : y = SubSeq(th.wire, Len(buf) + 1, Len(th.wire))
  OBVIOUS
<1>8. th2 = [th EXCEPT !.parser = q, !.wire = y]
  BY <1>7
<1>9. /\ th2.pc = th.pc /\ th2.first = th.first /\ th2.sent = th.sent
      /\ th2.count = th.count /\ th2.parser = q /\ th2.asked = th.asked /\ th2.wire = y
      /\ th2.open = th.open
  BY ONLY <1>1, <1>8 DEF ThreadRecs
<1>10. S3Batch(Token, size, objs, rem, ref, th2)
  <2>1. /\ th2.sent = th.sent /\ th2.count = th.count /\ th2.parser = q
        /\ th2.asked = th.asked /\ th2.wire = SubSeq(th.wire, Len(buf) + 1, Len(th.wire))
        /\ th2.open = th.open
    BY <1>7, <1>9
  <2> QED
    BY ONLY <1>3, <1>5, <1>6, <2>1, q = parse(th.parser, buf), S3BatchRead
<1>11. th2 \in ThreadRecs(R)
  <2>1. q \in Parsers(Token) /\ y \in Seq(Token)
    <3>1. PICK S, starts, sts, n, end : Answers(Token, size, objs, rem, ref, th2, S, starts, sts, n, end)
      BY <1>10 DEF S3Batch
    <3> QED
      BY <1>9, <3>1 DEF Answers, Follows, HasEnded, Counted
  <2>2. PICK W : W = Token \cup Replies(R)
    OBVIOUS
  <2>3. y \in Seq(W)
    <3>1. Token \subseteq W
      BY <2>2
    <3> QED
      BY ONLY <2>1, <3>1
  <2>4. q \in Parsers(Tokens(R)) /\ y \in Seq(Tokens(R) \cup Replies(R))
    BY <1>2, <2>1, <2>2, <2>3
  <2> QED
    BY ONLY <1>1, <1>8, <2>4 DEF ThreadRecs
<1>12. Draining(s, w, R, rem, ref, th2)
  BY <1>1, <1>2, <1>9, <1>10 DEF Draining
<1> QED
  BY <1>9, <1>11, <1>12 DEF ThreadOK

\* Thread th, whose parser is q, takes a response for the answer to its request for o.
ResponseTakenBy(s, R, q, o, th, th2) ==
    /\ q = th.parser /\ q.complete # << >> /\ ~ Fails(q)
    /\ o = R[th.first + ((th.count + 1) - 1) * s.threads]
    /\ th2 = [th EXCEPT !.parser = pop(q), !.count = th.count + 1]

\* DrainS3, the response: it is the one to the request it is taken for.
LEMMA PoppedOK ==
  ASSUME NEW s, s.backend = "s3", NEW w, NEW R, NEW rem, NEW ref, NEW t, NEW th,
         ThreadOK(s, w, R, rem, ref, t, th), th.pc = "drain",
         NEW q, NEW o, NEW th2, ResponseTakenBy(s, R, q, o, th, th2)
  PROVE  /\ ThreadOK(s, w, R, rem, ref, t, th2)
         /\ w = "put" => o \in rem
         /\ w # "put" => q.complete[1].body = Content(o)
<1> USE DEF ResponseTakenBy
<1>1. th \in ThreadRecs(R) /\ Draining(s, w, R, rem, ref, th)
  BY DEF ThreadOK
<1>2. PICK objs, size, Token : /\ objs = Objs(R, s.threads, th.first) /\ size = Size(w)
                               /\ Token = Tokens(R)
  OBVIOUS
<1>3. S3Batch(Token, size, objs, rem, ref, th)
  BY <1>1, <1>2 DEF Draining
<1>4. PICK d : d = th.count + 1
  OBVIOUS
<1>5. PICK r : r = pop(q)
  OBVIOUS
<1>6. th2 = [th EXCEPT !.parser = r, !.count = d] /\ d \in Nat /\ d \in Pos
  <2>1. th.count \in Nat
    BY <1>1 DEF ThreadRecs
  <2> QED
    BY <1>4, <1>5, <2>1 DEF Pos
<1>7. /\ th2.pc = th.pc /\ th2.first = th.first /\ th2.sent = th.sent
      /\ th2.count = d /\ th2.parser = r /\ th2.asked = th.asked /\ th2.wire = th.wire
      /\ th2.open = th.open
  BY ONLY <1>1, <1>6 DEF ThreadRecs
<1>8. /\ S3Batch(Token, size, objs, rem, ref, th2)
      /\ \E st \in Statuses : /\ RightResponse(q.complete[1], size, st, objs[d])
                              /\ size = 0 => objs[d] \in (IF st = "200" THEN rem ELSE ref)
  <2>1. /\ th2.sent = th.sent /\ th2.count = d /\ th2.parser = pop(q)
        /\ th2.asked = th.asked /\ th2.wire = th.wire /\ th2.open = th.open
    BY <1>5, <1>7
  <2> QED
    BY ONLY <1>3, <1>4, <2>1, q = th.parser, q.complete # << >>, S3BatchPopped
<1>9. PICK st \in Statuses : /\ RightResponse(q.complete[1], size, st, objs[d])
                             /\ size = 0 => objs[d] \in (IF st = "200" THEN rem ELSE ref)
  BY <1>8
<1>10. objs[d] = o
  BY <1>2, <1>4, <1>6 DEF Objs
<1>11. st = "200"
  BY <1>9 DEF Fails, RightResponse
<1>12. w = "put" => o \in rem
  BY <1>2, <1>9, <1>10, <1>11 DEF Size
<1>13. th2 \in ThreadRecs(R) /\ q \in Parsers(Token)
  <2>0. th.parser \in Parsers(Tokens(R))
    BY <1>1 DEF ThreadRecs
  <2>1. r \in Parsers(Token)
    <3>1. PICK S, starts, sts, n, end : Answers(Token, size, objs, rem, ref, th2, S, starts, sts, n, end)
      BY <1>8 DEF S3Batch
    <3> QED
      BY <1>7, <3>1 DEF Answers, Follows, HasEnded, Counted
  <2>2. r \in Parsers(Tokens(R))
    BY <1>2, <2>1
  <2>3. th2 \in ThreadRecs(R)
    BY ONLY <1>1, <1>6, <2>2 DEF ThreadRecs
  <2> QED
    BY <1>2, <2>0, <2>3
<1>14. ASSUME w # "put" PROVE q.complete[1].body = Content(o)
  <2>1. size = 2
    BY <1>2, <1>14 DEF Size
  <2>2. PICK body : body = q.complete[1].body
    OBVIOUS
  <2>3. Len(body) = 2 /\ \A i \in 1 .. Len(body) : body[i] = o
    BY <1>9, <1>10, <1>11, <2>1, <2>2 DEF RightResponse
  <2>4. body \in Seq(Token)
    <3>1. PICK E, x : E = [status : Token, body : Seq(Token)] /\ x = q.complete
      OBVIOUS
    <3>2. x \in Seq(E) /\ x # << >>
      BY <1>13, <3>1, TypesOfParser
    <3>3. x[1] \in E
      BY ONLY <3>2
    <3> QED
      BY <2>2, <3>1, <3>3
  <2>5. body[1] = o /\ body[2] = o
    BY <2>3
  <2>6. body = << body[1], body[2] >>
    BY ONLY <2>3, <2>4
  <2> QED
    BY <2>2, <2>5, <2>6 DEF Content
<1>15. Draining(s, w, R, rem, ref, th2)
  BY <1>1, <1>2, <1>7, <1>8 DEF Draining
<1>16. ThreadOK(s, w, R, rem, ref, t, th2)
  BY <1>7, <1>13, <1>15 DEF ThreadOK
<1> QED
  BY <1>12, <1>14, <1>16

\* Thread th takes a reply for the answer to its request for o.
ReplyTakenBy(s, R, o, th, th2) ==
    /\ th.wire # << >>
    /\ o = R[th.first + ((th.count + 1) - 1) * s.threads]
    /\ th2 = [th EXCEPT !.wire = Tail(th.wire), !.count = th.count + 1]

\* DrainRedis: the reply is the one to the request it is taken for.
LEMMA ReplyOK ==
  ASSUME NEW s, s.backend = "redis", NEW w, NEW R, NEW rem, NEW ref, NEW t, NEW th,
         ThreadOK(s, w, R, rem, ref, t, th), th.pc = "drain",
         NEW o, NEW th2, ReplyTakenBy(s, R, o, th, th2)
  PROVE  /\ ThreadOK(s, w, R, rem, ref, t, th2)
         /\ w = "put" => o \in rem \cup ref
         /\ Head(th.wire).body = Content(o)
<1> USE DEF ReplyTakenBy
<1>1. th \in ThreadRecs(R) /\ Draining(s, w, R, rem, ref, th)
  BY DEF ThreadOK
<1>2. PICK W, x, y : W = Tokens(R) \cup Replies(R) /\ x = th.wire /\ y = Tail(x)
  OBVIOUS
<1>3. x \in Seq(W) /\ th.count \in Nat /\ x # << >>
  BY <1>1, <1>2 DEF ThreadRecs
<1>4. /\ y \in Seq(W) /\ Len(x) \in Nat \ {0} /\ Len(y) = Len(x) - 1 /\ Head(x) = x[1]
      /\ \A i \in 1 .. Len(y) : y[i] = x[i + 1]
  BY ONLY <1>2, <1>3
<1>5. PICK ly \in Nat : ly = Len(y) /\ Len(x) = ly + 1
  BY <1>4
<1>6. PICK objs : objs = Objs(R, s.threads, th.first)
  OBVIOUS
<1>7. RedisBatch(w, objs, rem, ref, th)
  BY <1>1, <1>6 DEF Draining
<1>8. PICK n \in Nat : Replied(w, objs, rem, ref, th, n)
  BY <1>7 DEF RedisBatch
<1>9. PICK c \in Nat : c = th.count
  BY <1>3
<1>10. PICK d \in Nat : d = c + 1 /\ d \in Pos
  BY DEF Pos
<1>11. th2 = [th EXCEPT !.wire = y, !.count = d]
  BY <1>2, <1>9, <1>10
<1>12. /\ th2 \in ThreadRecs(R) /\ th2.pc = th.pc /\ th2.first = th.first /\ th2.sent = th.sent
       /\ th2.count = d /\ th2.asked = th.asked /\ th2.wire = y
       /\ th2.open = th.open
  <2>1. y \in Seq(Tokens(R) \cup Replies(R)) /\ d \in Nat
    BY <1>2, <1>4
  <2> QED
    BY ONLY <1>1, <1>11, <2>1 DEF ThreadRecs
<1>13. /\ c + (ly + 1) <= n
       /\ \A i \in 1 .. ly + 1 : x[i].body = Content(objs[c + i])
       /\ th.open = FALSE \/ c + (ly + 1) = n
       /\ w = "put" => \A j \in 1 .. n : objs[j] \in rem \cup ref
  BY <1>2, <1>5, <1>8, <1>9 DEF Replied
<1>14. d + ly <= n /\ (th.open = FALSE \/ d + ly = n) /\ d \in 1 .. n
  <2>1. c + (ly + 1) = d + ly
    BY ONLY <1>10, c \in Nat, ly \in Nat
  <2>2. d + ly <= n
    BY ONLY <1>13, <2>1
  <2>3. d \in 1 .. n
    BY ONLY <1>10, <2>2, c \in Nat, ly \in Nat, n \in Nat
  <2> QED
    BY <1>13, <2>1, <2>2, <2>3
<1>15. \A i \in 1 .. ly : y[i].body = Content(objs[d + i])
  <2> TAKE i \in 1 .. ly
  <2>1. i + 1 \in 1 .. ly + 1 /\ c + (i + 1) = d + i
    BY <1>10
  <2>2. x[i + 1].body = Content(objs[c + (i + 1)])
    BY <1>13, <2>1
  <2> QED
    BY <1>4, <1>5, <2>1, <2>2
<1>16. Replied(w, objs, rem, ref, th2, n)
  <2>1. th2.count + Len(th2.wire) <= n /\ (th2.open = FALSE \/ th2.count + Len(th2.wire) = n)
    BY <1>5, <1>12, <1>14
  <2>2. \A i \in 1 .. Len(th2.wire) : th2.wire[i].body = Content(objs[th2.count + i])
    BY <1>5, <1>12, <1>15
  <2> QED
    BY <1>8, <1>12, <2>1, <2>2 DEF Replied
<1>17. Draining(s, w, R, rem, ref, th2)
  <2>1. RedisBatch(w, objs, rem, ref, th2)
    BY <1>16 DEF RedisBatch
  <2> QED
    BY <1>1, <1>6, <1>12, <2>1 DEF Draining
<1>18. ThreadOK(s, w, R, rem, ref, t, th2)
  BY <1>12, <1>17 DEF ThreadOK
<1>19. objs[d] = o
  BY <1>6, <1>9, <1>10 DEF Objs
<1>20. w = "put" => o \in rem \cup ref
  BY <1>13, <1>14, <1>19
<1>21. Head(th.wire).body = Content(o)
  <2>1. 1 \in 1 .. ly + 1
    OBVIOUS
  <2>2. x[1].body = Content(objs[c + 1])
    BY <1>13, <2>1
  <2> QED
    BY <1>2, <1>4, <1>10, <1>19, <2>2
<1> QED
  BY <1>18, <1>20, <1>21

\* A batch that nothing is pending of: everything in it has been granted or refused.
LEMMA BatchIsOver ==
  ASSUME NEW s, s.backend \in {"s3", "redis"}, NEW w, w = "put", NEW R, NEW rem, NEW ref, NEW th,
         th \in ThreadRecs(R), Draining(s, w, R, rem, ref, th),
         IF s.backend = "s3" THEN ~ (pending_requests(th.parser) > 0) ELSE th.count = th.sent,
         NEW objs, objs = Objs(R, s.threads, th.first)
  PROVE  \A j \in 1 .. th.sent : objs[j] \in rem \cup ref
<1>1. CASE s.backend = "s3"
  <2>1. PICK size, Token : size = 0 /\ Token = Tokens(R) /\ size = Size(w)
    BY DEF Size
  <2>2. S3Batch(Token, size, objs, rem, ref, th)
    BY <1>1, <2>1 DEF Draining
  <2>3. ~ (th.parser.requests > 0)
    BY <1>1 DEF pending_requests
  <2> QED
    BY ONLY <2>1, <2>2, <2>3, S3BatchOver
<1>2. CASE s.backend = "redis"
  <2>1. PICK n \in Nat : Replied(w, objs, rem, ref, th, n)
    BY <1>2 DEF Draining, RedisBatch
  <2>2. th.count = th.sent /\ th.sent \in Nat /\ th.asked \in Seq(Rng(R))
        /\ th.wire \in Seq(Tokens(R) \cup Replies(R))
    BY <1>2 DEF ThreadRecs
  <2>3. PICK sent \in Nat, la \in Nat, lw \in Nat : sent = th.sent /\ la = Len(th.asked) /\ lw = Len(th.wire)
    BY <2>2
  <2>4. sent + lw <= n /\ n + la = sent /\ \A j \in 1 .. n : objs[j] \in rem \cup ref
    BY <2>1, <2>2, <2>3 DEF Replied
  <2>5. n = sent
    BY <2>4
  <2> QED
    BY <2>3, <2>4, <2>5
<1> QED
  BY <1>1, <1>2

\* Of a Redis connection nothing is left on the way then.
LEMMA NothingLeft ==
  ASSUME NEW s, s.backend = "redis", NEW w, NEW R, NEW rem, NEW ref, NEW th,
         th \in ThreadRecs(R), Draining(s, w, R, rem, ref, th), th.count = th.sent
  PROVE  th.asked = << >> /\ th.wire = << >>
<1>1. PICK objs : objs = Objs(R, s.threads, th.first)
  OBVIOUS
<1>2. PICK n \in Nat : Replied(w, objs, rem, ref, th, n)
  BY <1>1 DEF Draining, RedisBatch
<1>3. PICK E, W, a, x : E = Rng(R) /\ W = Tokens(R) \cup Replies(R) /\ a = th.asked /\ x = th.wire
  OBVIOUS
<1>4. th.sent \in Nat /\ a \in Seq(E) /\ x \in Seq(W)
  BY <1>3 DEF ThreadRecs
<1>5. PICK sent \in Nat, la \in Nat, lx \in Nat : sent = th.sent /\ la = Len(a) /\ lx = Len(x)
  BY <1>4
<1>6. sent + lx <= n /\ n + la = sent
  BY <1>2, <1>3, <1>5 DEF Replied
<1>7. la = 0 /\ lx = 0
  BY <1>6
<1>8. a = << >>
  <2>1. a \in Seq(E) /\ Len(a) = 0
    BY <1>4, <1>5, <1>7
  <2> QED
    BY ONLY <2>1
<1>9. x = << >>
  <2>1. x \in Seq(W) /\ Len(x) = 0
    BY <1>4, <1>5, <1>7
  <2> QED
    BY ONLY <2>1
<1> QED
  BY <1>3, <1>8, <1>9

\* The batch after the first `rounds` requests of thread t, all of them covered.
LEMMA NextCovered ==
  ASSUME NEW s, s.threads \in Nat \ {0}, s.batch \in Nat \ {0}, NEW R, Len(R) \in Nat,
         NEW rem, NEW ref, NEW t \in Nat \ {0}, NEW a \in Nat,
         Covered(R, s.threads, rem, ref, t, a),
         NEW from, from = t + a * s.threads,
         NEW sent \in Nat, Whole(R, s, from, sent),
         \A j \in 1 .. sent : Objs(R, s.threads, from)[j] \in rem \cup ref,
         NEW b, b = a + s.batch
  PROVE  Covered(R, s.threads, rem, ref, t, b)
<1> SUFFICES ASSUME NEW m \in Nat, m < b, t + m * s.threads <= Len(R)
             PROVE  R[t + m * s.threads] \in rem \cup ref
  BY DEF Covered
<1>1. CASE m < a
  BY <1>1 DEF Covered
<1>2. CASE ~ (m < a)
  <2>1. PICK d \in Nat : d = m - a /\ m = a + d
    BY <1>2
  <2>2. PICK step \in Nat \ {0} : step = s.threads
    OBVIOUS
  <2>3. from + d * step = t + m * step
    BY <2>1, <2>2, Positions
  <2>4. PICK j \in Nat : j = d + 1 /\ j \in Pos /\ d = j - 1
    BY DEF Pos
  <2>5. j \in 1 .. s.batch
    <3>1. PICK batch \in Nat : batch = s.batch
      OBVIOUS
    <3>2. m < a + batch
      BY <3>1
    <3>3. d + 1 <= batch
      BY <2>1, <3>2
    <3> QED
      BY <2>4, <3>1, <3>3
  <2>6. from + (j - 1) * s.threads <= Len(R)
    BY <2>2, <2>3, <2>4
  <2>7. j \in 1 .. sent
    BY <2>4, <2>5, <2>6 DEF Whole
  <2>8. Objs(R, s.threads, from)[j] = R[from + (j - 1) * s.threads]
    BY <2>4 DEF Objs
  <2> QED
    BY <2>2, <2>3, <2>4, <2>7, <2>8
<1> QED
  BY <1>1, <1>2

\* When the batch after the first `rounds` requests is past the end, all requests are covered.
LEMMA AllCovered ==
  ASSUME NEW s, NEW step \in Nat \ {0}, step = s.threads, NEW R, Len(R) \in Nat,
         NEW rem, NEW ref, NEW t \in Nat \ {0}, NEW b \in Nat,
         Covered(R, s.threads, rem, ref, t, b),
         NEW next, next = t + b * step, next > Len(R), NEW m \in Nat
  PROVE  Covered(R, s.threads, rem, ref, t, m)
<1> SUFFICES ASSUME NEW x \in Nat, x < m, t + x * s.threads <= Len(R)
             PROVE  R[t + x * s.threads] \in rem \cup ref
  BY DEF Covered
<1>1. CASE x < b
  BY <1>1 DEF Covered
<1>2. CASE ~ (x < b)
  <2>1. PICK d \in Nat : x = b + d
    <3>1. x - b \in Nat /\ x = b + (x - b)
      BY <1>2
    <3> QED
      BY <3>1
  <2>2. /\ next \in Nat /\ next + d * step \in Nat /\ next <= next + d * step
        /\ next + d * step = t + (b + d) * step
    <3>1. next = t + b * step
      OBVIOUS
    <3> QED
      BY ONLY <3>1, t \in Nat \ {0}, step \in Nat \ {0}, b \in Nat, d \in Nat, Positions
  <2>3. PICK z : z = t + x * step
    OBVIOUS
  <2>4. z \in Nat /\ next <= z
    BY <2>1, <2>2, <2>3
  <2>5. PICK len \in Nat : len = Len(R)
    OBVIOUS
  <2>6. z <= len /\ next > len
    BY <2>3, <2>5
  <2> QED
    BY ONLY <2>2, <2>4, <2>6, len \in Nat
<1> QED
  BY <1>1, <1>2

\* BatchDone.
LEMMA BatchOverOK ==
  ASSUME NEW s, s.threads \in Nat \ {0}, s.batch \in Nat \ {0}, s.backend \in {"s3", "redis"},
         NEW w, NEW R, Len(R) \in Nat, NEW rem, NEW ref, NEW t \in Nat \ {0}, NEW th,
         ThreadOK(s, w, R, rem, ref, t, th), th.pc = "drain",
         IF w = "put" /\ s.backend = "s3" THEN ~ (pending_requests(th.parser) > 0)
                                          ELSE ~ (th.count # th.sent),
         NEW next, next = th.first + s.threads * s.batch, NEW th2,
         \/ next > Len(R) /\ th2 = [th EXCEPT !.pc = "done"]
         \/ s.backend = "s3" /\ th2 = NewThread(next)
         \/ /\ s.backend = "redis"
            /\ th2 = [th EXCEPT !.first = next, !.pc = "send", !.count = 0, !.sent = 0]
  PROVE  ThreadOK(s, w, R, rem, ref, t, th2)
<1>1. th \in ThreadRecs(R) /\ Draining(s, w, R, rem, ref, th)
  BY DEF ThreadOK
<1>2. PICK a \in Nat : /\ th.first = t + a * s.threads
                       /\ w = "put" => Covered(R, s.threads, rem, ref, t, a)
  BY DEF ThreadOK
<1>3. PICK step \in Nat \ {0} : step = s.threads
  OBVIOUS
<1>4. PICK batch \in Nat : batch = s.batch
  OBVIOUS
<1>5. PICK b \in Nat : b = a + batch
  OBVIOUS
<1>6. PICK from : from = th.first
  OBVIOUS
<1>7. from = t + a * step
  BY <1>2, <1>3, <1>6
<1>8. next \in Nat /\ next = t + b * step
  <2>1. from \in Nat /\ from + batch * step \in Nat /\ from + batch * step = t + (a + batch) * step
    BY ONLY <1>7, t \in Nat \ {0}, step \in Nat \ {0}, a \in Nat, batch \in Nat, Positions
  <2>2. next = from + step * batch
    BY <1>3, <1>4, <1>6
  <2>3. step * batch = batch * step
    OBVIOUS
  <2> QED
    BY <1>5, <2>1, <2>2, <2>3
<1>9. ASSUME w = "put" PROVE Covered(R, s.threads, rem, ref, t, b)
  <2>1. PICK objs : objs = Objs(R, s.threads, th.first)
    OBVIOUS
  <2>2. \A j \in 1 .. th.sent : objs[j] \in rem \cup ref
    <3>1. IF s.backend = "s3" THEN ~ (pending_requests(th.parser) > 0) ELSE th.count = th.sent
      BY <1>9
    <3> QED
      BY ONLY <1>1, <1>9, <2>1, <3>1, s.backend \in {"s3", "redis"}, BatchIsOver
  <2>3. PICK sent \in Nat : sent = th.sent
    BY <1>1 DEF ThreadRecs
  <2>4. Whole(R, s, from, sent) /\ \A j \in 1 .. sent : Objs(R, s.threads, from)[j] \in rem \cup ref
    BY <1>1, <1>6, <2>1, <2>2, <2>3 DEF Draining
  <2>5. b = a + s.batch /\ from = t + a * s.threads /\ Covered(R, s.threads, rem, ref, t, a)
    BY <1>2, <1>4, <1>5, <1>6, <1>9
  <2> QED
    BY ONLY <2>4, <2>5, s.threads \in Nat \ {0}, s.batch \in Nat \ {0}, Len(R) \in Nat,
            t \in Nat \ {0}, a \in Nat, sent \in Nat, NextCovered
<1>10. CASE next > Len(R) /\ th2 = [th EXCEPT !.pc = "done"]
  <2>1. th2 \in ThreadRecs(R) /\ th2.pc = "done" /\ th2.first = th.first
    BY ONLY <1>1, <1>10 DEF ThreadRecs
  <2>2. ASSUME w = "put", NEW m \in Nat PROVE Covered(R, s.threads, rem, ref, t, m)
    <3>1. Covered(R, s.threads, rem, ref, t, b)
      BY <1>9, <2>2
    <3> QED
      BY ONLY <1>3, <1>8, <1>10, <3>1, Len(R) \in Nat, t \in Nat \ {0}, b \in Nat, m \in Nat,
              step \in Nat \ {0}, AllCovered
  <2> QED
    BY <1>2, <2>1, <2>2 DEF ThreadOK
<1>11. CASE s.backend = "s3" /\ th2 = NewThread(next)
  <2>1. next = t + b * s.threads
    BY <1>3, <1>8
  <2> QED
    BY ONLY <1>8, <1>9, <1>11, <2>1, b \in Nat, NewThreadOK
<1>12. CASE /\ s.backend = "redis"
            /\ th2 = [th EXCEPT !.first = next, !.pc = "send", !.count = 0, !.sent = 0]
  <2>1. th.count = th.sent
    BY <1>12
  <2>2. th.asked = << >> /\ th.wire = << >>
    BY ONLY <1>1, <1>12, <2>1, NothingLeft
  <2>3. PICK c \in Nat : c = 0
    OBVIOUS
  <2>4. th2 = [th EXCEPT !.first = next, !.pc = "send", !.count = c, !.sent = c]
    BY <1>12, <2>3
  <2>5. /\ th2 \in ThreadRecs(R) /\ th2.pc = "send" /\ th2.first = next /\ th2.count = c
        /\ th2.asked = th.asked /\ th2.wire = th.wire
    BY ONLY <1>1, <1>8, <2>4, c \in Nat DEF ThreadRecs
  <2>6. Fresh(s, th2)
    BY <1>12, <2>2, <2>3, <2>5 DEF Fresh
  <2>7. th2.first = t + b * s.threads
    BY <1>3, <1>8, <2>5
  <2> QED
    BY <1>9, <2>5, <2>6, <2>7 DEF ThreadOK
<1> QED
  BY <1>10, <1>11, <1>12

(***************************************************************************)
(* What the service writes                                                 *)
(***************************************************************************)

\* Sequences with the same elements are equal.
LEMMA SequencesEqual ==
  ASSUME NEW E, NEW x \in Seq(E), NEW y \in Seq(E), Len(x) = Len(y),
         \A i \in 1 .. Len(x) : x[i] = y[i]
  PROVE  x = y
OBVIOUS

\* The refusal of a request.
LEMMA RefusalIs ==
  ASSUME NEW o, NEW x,
         x = << "503", "CR", "LF", "chunked", "CR", "LF", "CR", "LF",
                "c1", "CR", "LF", "x", "CR", "LF", "c0", "CR", "LF", "CR", "LF" >>,
         NEW size \in {0, 2}
  PROVE  x = ReplyTokens(size, "503", o) /\ x \in Seq(Words)
<1>1. PICK b : b = RefusalBody
  OBVIOUS
<1>2. PICK a : a = << "503", "CR", "LF", "chunked", "CR", "LF", "CR", "LF" >>
  OBVIOUS
<1>3. a \in Seq(Words) /\ Len(a) = 8
  BY ONLY <1>2 DEF Words
<1>4. b \in Seq(Words) /\ Len(b) = 11
  BY ONLY <1>1 DEF RefusalBody, Words
<1>5. x \in Seq(Words) /\ Len(x) = 19
  BY DEF Words
<1>6. PICK y : y = a \o b
  OBVIOUS
<1>7. /\ y \in Seq(Words) /\ Len(y) = 19
      /\ \A i \in 1 .. 8 : y[i] = a[i]
      /\ \A i \in 1 .. 11 : y[8 + i] = b[i]
  <2>1. PICK W : W = Words
    OBVIOUS
  <2>2. a \in Seq(W) /\ b \in Seq(W)
    BY <1>3, <1>4, <2>1
  <2>3. y \in Seq(W) /\ Len(y) = Len(a) + Len(b)
    BY ONLY <1>6, <2>2
  <2>4. ASSUME NEW i \in 1 .. 8 PROVE y[i] = a[i]
    <3>1. i <= Len(a) /\ i <= Len(a) + Len(b)
      BY <1>3, <1>4
    <3> QED
      BY ONLY <1>6, <2>2, <3>1, i \in 1 .. 8
  <2>5. ASSUME NEW i \in 1 .. 11 PROVE y[8 + i] = b[i]
    <3>1. 8 + i > Len(a) /\ 8 + i <= Len(a) + Len(b) /\ (8 + i) - Len(a) = i
      BY <1>3, <1>4
    <3> QED
      BY ONLY <1>6, <2>2, <3>1, i \in 1 .. 11
  <2> QED
    BY <1>3, <1>4, <2>1, <2>3, <2>4, <2>5
<1>8. \A i \in 1 .. 8 : x[i] = a[i]
  BY <1>2
<1>9. \A i \in 1 .. 11 : x[8 + i] = b[i]
  BY <1>1 DEF RefusalBody
<1>10. ASSUME NEW i \in 1 .. 19 PROVE x[i] = y[i]
  <2>1. CASE i \in 1 .. 8
    BY <1>7, <1>8, <2>1
  <2>2. CASE i \notin 1 .. 8
    <3>1. PICK j \in 1 .. 11 : i = 8 + j
      <4>1. i - 8 \in 1 .. 11 /\ i = 8 + (i - 8)
        BY <2>2
      <4> QED
        BY <4>1
    <3> QED
      BY <1>7, <1>9, <3>1
  <2> QED
    BY <2>1, <2>2
<1>11. x = y
  BY ONLY <1>5, <1>7, <1>10, SequencesEqual
<1>12. ReplyTokens(size, "503", o) = a \o b
  BY <1>1, <1>2 DEF ReplyTokens, Header
<1> QED
  BY <1>5, <1>6, <1>11, <1>12

\* An answer that grants a request, without and with an object.
LEMMA GrantIs ==
  ASSUME NEW o, NEW x,
         x = << "200", "CR", "LF", "length0", "CR", "LF", "CR", "LF" >>
  PROVE  x = ReplyTokens(0, "200", o) /\ x \in Seq(Words)
<1>1. x \in Seq(Words)
  BY DEF Words
<1>2. x \o << >> = x
  BY ONLY <1>1
<1>3. ReplyTokens(0, "200", o) = x \o << >>
  <2>1. Header(0, "200") = "length0"
    BY DEF Header
  <2> QED
    BY <2>1 DEF ReplyTokens
<1> QED
  BY <1>1, <1>2, <1>3

\* The answer that grants a get carries the object's content.
LEMMA ObjectIs ==
  ASSUME NEW E, NEW o \in E, NEW x,
         x = << "200", "CR", "LF", "length2", "CR", "LF", "CR", "LF" >> \o Content(o)
  PROVE  x = ReplyTokens(2, "200", o) /\ x \in Seq(Words \cup E)
<1>1. Header(2, "200") = "length2"
  BY DEF Header
<1>2. x = ReplyTokens(2, "200", o)
  BY <1>1 DEF ReplyTokens, Content
<1>3. PICK a, b, W : /\ a = << "200", "CR", "LF", "length2", "CR", "LF", "CR", "LF" >>
                     /\ b = << o, o >> /\ W = Words \cup E
  OBVIOUS
<1>4. a \in Seq(W)
  <2>1. {"200", "CR", "LF", "length2"} \subseteq W
    BY <1>3 DEF Words
  <2> QED
    BY ONLY <1>3, <2>1
<1>5. b \in Seq(W)
  <2>1. o \in W
    BY <1>3
  <2> QED
    BY ONLY <1>3, <2>1
<1>6. a \o b \in Seq(W)
  BY ONLY <1>4, <1>5
<1> QED
  BY <1>2, <1>3, <1>6 DEF Content

\* Response(ok, o), for s3 and for redis.
ResponseTo(R, s, w, ok, o, reply) ==
    /\ s.backend = "s3" => /\ reply \in Seq(Tokens(R))
                           /\ reply = ReplyTokens(Size(w), IF ok THEN "200" ELSE "503", o)
    /\ s.backend = "redis" => \E r \in Replies(R) : reply = << r >> /\ r.body = Content(o)

\* Response is what the client's protocol expects of the service.
LEMMA ResponseIs ==
  ASSUME NEW R, NEW o \in Rng(R), phase \in {"put", "get"}, setup.backend \in {"s3", "redis"},
         NEW ok \in BOOLEAN, NEW reply, reply = Response(ok, o)
  PROVE  ResponseTo(R, setup, phase, ok, o, reply)
<1>1. ASSUME setup.backend = "s3"
      PROVE  /\ reply \in Seq(Tokens(R))
             /\ reply = ReplyTokens(Size(phase), IF ok THEN "200" ELSE "503", o)
  <2>1. Words \subseteq Tokens(R)
    BY DEF Tokens
  <2>2. CASE ~ ok
    <3>1. reply = << "503", "CR", "LF", "chunked", "CR", "LF", "CR", "LF",
                     "c1", "CR", "LF", "x", "CR", "LF", "c0", "CR", "LF", "CR", "LF" >>
      BY <1>1, <2>2 DEF Response
    <3>2. Size(phase) \in {0, 2}
      BY DEF Size
    <3>3. reply = ReplyTokens(Size(phase), "503", o) /\ reply \in Seq(Words)
      BY <3>1, <3>2, RefusalIs
    <3> QED
      BY <2>1, <2>2, <3>3
  <2>3. CASE ok /\ phase = "put"
    <3>1. reply = << "200", "CR", "LF", "length0", "CR", "LF", "CR", "LF" >>
      BY <1>1, <2>3 DEF Response
    <3>2. reply = ReplyTokens(0, "200", o) /\ reply \in Seq(Words)
      BY <3>1, GrantIs
    <3> QED
      <4>1. Size(phase) = 0 /\ (IF ok THEN "200" ELSE "503") = "200"
        BY <2>3 DEF Size
      <4> QED
        BY <2>1, <3>2, <4>1
  <2>4. CASE ok /\ phase = "get"
    <3>1. reply = << "200", "CR", "LF", "length2", "CR", "LF", "CR", "LF" >> \o Content(o)
      BY <1>1, <2>4 DEF Response
    <3>2. PICK E : E = Rng(R)
      OBVIOUS
    <3>3. reply = ReplyTokens(2, "200", o) /\ reply \in Seq(Words \cup E)
      BY <3>1, <3>2, ObjectIs
    <3> QED
      BY <2>4, <3>2, <3>3 DEF Size, Tokens
  <2> QED
    BY <2>2, <2>3, <2>4
<1>2. ASSUME setup.backend = "redis"
      PROVE  \E r \in Replies(R) : reply = << r >> /\ r.body = Content(o)
  <2>1. PICK ty : ty = CASE ~ ok -> "error" [] ok /\ phase = "put" -> "status"
                         [] ok /\ phase = "get" -> "string"
    OBVIOUS
  <2>2. ty \in {"error", "status", "string"}
    BY <2>1
  <2>3. PICK r : r = [type |-> ty, body |-> Content(o)]
    OBVIOUS
  <2>4. Content(o) \in Seq(Rng(R))
    BY DEF Content
  <2>5. r \in Replies(R) /\ r.body = Content(o)
    BY <2>2, <2>3, <2>4 DEF Replies
  <2>6. reply = << r >>
    BY <1>2, <2>1, <2>3 DEF Response
  <2> QED
    BY <2>5, <2>6
<1> QED
  BY <1>1, <1>2 DEF ResponseTo

(***************************************************************************)
(* A transfer: its threads cover all requests, and the steps of one thread *)
(* leave the others alone                                                  *)
(***************************************************************************)

\* The smaller of two natural numbers.
LEMMA MinIs ==
  ASSUME NEW a \in Nat, NEW b \in Nat
  PROVE  Min({a, b}) = IF a <= b THEN a ELSE b
BY DEF Min

\* The strides of the threads leave no request out.
LEMMA Strides ==
  ASSUME NEW step \in Nat \ {0}, NEW i \in Nat
  PROVE  \E t \in 1 .. step : \E m \in Nat : i + 1 = t + m * step
<1> DEFINE S == { x \in Nat : \E t \in 1 .. step : \E m \in Nat : x + 1 = t + m * step }
<1>1. 0 \in S
  <2>1. 1 \in 1 .. step /\ 0 \in Nat /\ 0 + 1 = 1 + 0 * step
    OBVIOUS
  <2> QED
    BY <2>1
<1>2. ASSUME NEW x \in Nat, x \in S PROVE x + 1 \in S
  <2>1. PICK t \in 1 .. step : \E m \in Nat : x + 1 = t + m * step
    BY <1>2
  <2>2. PICK m \in Nat : x + 1 = t + m * step
    BY <2>1
  <2>3. m * step \in Nat /\ (m + 1) * step = m * step + step
    OBVIOUS
  <2>4. CASE t < step
    <3>1. PICK u : u = t + 1
      OBVIOUS
    <3>2. u \in 1 .. step /\ (x + 1) + 1 = u + m * step
      BY <2>2, <2>3, <2>4, <3>1
    <3>3. \E k \in Nat : (x + 1) + 1 = u + k * step
      BY <3>2
    <3> QED
      BY <3>2, <3>3
  <2>5. CASE t = step
    <3>1. PICK n : n = m + 1
      OBVIOUS
    <3>2. PICK u : u = 1
      OBVIOUS
    <3>3. u \in 1 .. step /\ \E k \in Nat : (x + 1) + 1 = u + k * step
      <4>1. u \in 1 .. step /\ n \in Nat /\ (x + 1) + 1 = u + n * step
        BY <2>2, <2>3, <2>5, <3>1, <3>2
      <4> QED
        BY <4>1
    <3> QED
      BY <3>3
  <2> QED
    BY <2>4, <2>5
<1>3. i \in S
  <2> HIDE DEF S
  <2> QED
    BY <1>1, <1>2, NatInductionOn
<1> QED
  BY <1>3

ThreadsOK(s, w, R, rem, ref, thr) ==
    \A t \in DOMAIN thr : ThreadOK(s, w, R, rem, ref, t, thr[t])

\* The Jiffy client has no connections: its first thread counts the requests.
JiffyThread(R, th) == th \in ThreadRecs(R) /\ th.pc = "connect" /\ th.asked = << >>

\* A put or get (w) of the requests R.
Transfers(s, w, R, rem, ref, thr) ==
    /\ s.backend \in {"s3", "redis", "jiffy"}
    /\ R \in Seq(Rng(R)) /\ R # << >>
    /\ DOMAIN thr = 1 .. Min({s.threads, Len(R)})
    /\ s.backend # "jiffy" => ThreadsOK(s, w, R, rem, ref, thr)
    /\ s.backend = "jiffy" => /\ \A t \in DOMAIN thr : JiffyThread(R, thr[t])
                              /\ w = "put" => \A i \in 1 .. thr[1].count : R[i] \in rem

\* One thread takes a step.
LEMMA OneThread ==
  ASSUME NEW s, s.backend # "jiffy", NEW w, NEW R, NEW rem, NEW ref, NEW thr,
         Transfers(s, w, R, rem, ref, thr),
         NEW rem2, rem \subseteq rem2, NEW ref2, ref \subseteq ref2, NEW t \in DOMAIN thr,
         NEW th2, ThreadOK(s, w, R, rem2, ref2, t, th2), NEW thr2, thr2 = [thr EXCEPT ![t] = th2]
  PROVE  Transfers(s, w, R, rem2, ref2, thr2)
<1>1. DOMAIN thr2 = DOMAIN thr /\ thr2[t] = th2
      /\ \A u \in DOMAIN thr : u # t => thr2[u] = thr[u]
  BY ONLY t \in DOMAIN thr, thr2 = [thr EXCEPT ![t] = th2]
<1>2. ASSUME NEW u \in DOMAIN thr PROVE ThreadOK(s, w, R, rem2, ref2, u, thr2[u])
  <2>1. CASE u = t
    BY <1>1, <2>1
  <2>2. CASE u # t
    <3>1. ThreadOK(s, w, R, rem, ref, u, thr[u])
      BY DEF Transfers, ThreadsOK
    <3>2. ThreadOK(s, w, R, rem2, ref2, u, thr[u])
      BY ONLY <3>1, rem \subseteq rem2, ref \subseteq ref2, ThreadStays
    <3> QED
      BY <1>1, <2>2, <3>2
  <2> QED
    BY <2>1, <2>2
<1>3. ThreadsOK(s, w, R, rem2, ref2, thr2)
  BY <1>1, <1>2 DEF ThreadsOK
<1> QED
  BY <1>1, <1>3 DEF Transfers

\* The number of threads.
LEMMA ThreadsOf ==
  ASSUME NEW s, s.threads \in Nat \ {0}, NEW R, R \in Seq(Rng(R)), R # << >>
  PROVE  /\ Len(R) \in Nat \ {0}
         /\ \A t : t \in 1 .. Min({s.threads, Len(R)}) <=> t \in 1 .. s.threads /\ t \in 1 .. Len(R)
         /\ 1 \in 1 .. Min({s.threads, Len(R)})
<1>1. PICK E : E = Rng(R)
  OBVIOUS
<1>2. R \in Seq(E)
  BY <1>1
<1>3. Len(R) \in Nat \ {0}
  BY ONLY <1>2, R # << >>
<1>4. PICK a \in Nat \ {0}, b \in Nat \ {0} : a = s.threads /\ b = Len(R)
  BY <1>3
<1>5. Min({a, b}) = IF a <= b THEN a ELSE b
  BY MinIs
<1>6. PICK m \in Nat : m = Min({a, b}) /\ m = (IF a <= b THEN a ELSE b)
  BY <1>5
<1>7. \A t : t \in 1 .. m <=> t \in 1 .. a /\ t \in 1 .. b
  BY <1>6
<1>8. 1 \in 1 .. m
  BY <1>6
<1> QED
  BY <1>3, <1>4, <1>6, <1>7, <1>8

\* StartTransfer.
LEMMA TransferStarts ==
  ASSUME NEW s, s.backend \in {"s3", "redis", "jiffy"}, s.threads \in Nat \ {0},
         NEW w, NEW R, R \in Seq(Rng(R)), R # << >>, NEW rem, NEW ref, NEW thr,
         thr = [t \in 1 .. Min({s.threads, Len(R)}) |-> NewThread(t)]
  PROVE  Transfers(s, w, R, rem, ref, thr)
<1>1. /\ 1 \in DOMAIN thr /\ DOMAIN thr = 1 .. Min({s.threads, Len(R)})
      /\ \A t \in DOMAIN thr : t \in Nat \ {0} /\ thr[t] = NewThread(t)
  BY ThreadsOf
<1>2. ASSUME NEW t \in DOMAIN thr PROVE ThreadOK(s, w, R, rem, ref, t, thr[t])
  <2>1. PICK a \in Nat : a = 0
    OBVIOUS
  <2>2. Covered(R, s.threads, rem, ref, t, a)
    <3>1. \A m \in Nat : ~ (m < a)
      BY <2>1
    <3> QED
      BY <3>1 DEF Covered
  <2>3. t \in Nat /\ t = t + a * s.threads /\ thr[t] = NewThread(t)
    BY <1>1, <2>1
  <2> QED
    BY ONLY <2>2, <2>3, a \in Nat, NewThreadOK
<1>3. ASSUME NEW t \in DOMAIN thr PROVE JiffyThread(R, thr[t]) /\ thr[t].count = 0
  <2>1. thr[t].pc = "connect" /\ thr[t].asked = << >> /\ thr[t].count = 0
    BY <1>1 DEF NewThread
  <2> QED
    BY <1>2, <2>1 DEF ThreadOK, JiffyThread
<1>4. 1 .. thr[1].count = {}
  <2>1. thr[1].count = 0
    BY <1>1, <1>3
  <2>2. 1 .. 0 = {}
    OBVIOUS
  <2> QED
    BY <2>1, <2>2
<1> QED
  BY <1>1, <1>2, <1>3, <1>4 DEF Transfers, ThreadsOK

\* A put that is done has moved all its requests.
LEMMA TransferCovers ==
  ASSUME NEW s, s.threads \in Nat \ {0}, NEW R, NEW rem, NEW ref, NEW thr,
         Transfers(s, "put", R, rem, ref, thr),
         IF s.backend = "jiffy" THEN thr[1].count = Len(R)
                                ELSE \A t \in DOMAIN thr : thr[t].pc = "done"
  PROVE  Rng(R) \subseteq rem \cup ref
<1>1. R \in Seq(Rng(R)) /\ R # << >>
  BY DEF Transfers
<1>2. PICK len \in Nat : len = Len(R)
  BY <1>1, ThreadsOf
<1>3. DOMAIN R = 1 .. len
  BY <1>1, <1>2
<1>4. ASSUME NEW i \in 1 .. len PROVE R[i] \in rem \cup ref
  <2>1. CASE s.backend = "jiffy"
    BY <1>2, <2>1 DEF Transfers
  <2>2. CASE s.backend # "jiffy"
    <3>1. PICK step \in Nat \ {0} : step = s.threads
      OBVIOUS
    <3>2. PICK x \in Nat : i = x + 1
      <4>1. i - 1 \in Nat /\ i = (i - 1) + 1
        OBVIOUS
      <4> QED
        BY <4>1
    <3>3. PICK t \in 1 .. step : \E m \in Nat : x + 1 = t + m * step
      BY Strides
    <3>4. PICK m \in Nat : i = t + m * step
      BY <3>2, <3>3
    <3>5. m * step \in Nat /\ t \in 1 .. len
      <4>1. m * step \in Nat
        OBVIOUS
      <4>2. t <= i /\ i <= len
        BY <3>4, <4>1
      <4> QED
        BY <4>1, <4>2
    <3>6. t \in DOMAIN thr
      BY <1>1, <1>2, <3>1, <3>5, ThreadsOf DEF Transfers
    <3>7. ThreadOK(s, "put", R, rem, ref, t, thr[t]) /\ thr[t].pc = "done"
      BY <2>2, <3>6 DEF Transfers, ThreadsOK
    <3>8. PICK n \in Nat : n = m + 1
      OBVIOUS
    <3>9. Covered(R, s.threads, rem, ref, t, n)
      BY <3>7 DEF ThreadOK
    <3>10. m < n /\ t + m * s.threads = i /\ i <= Len(R)
      BY <1>2, <3>1, <3>4, <3>8
    <3> QED
      BY <3>9, <3>10 DEF Covered
  <2> QED
    BY <2>1, <2>2
<1> QED
  BY <1>3, <1>4 DEF Rng

(***************************************************************************)
(* The inductive invariant and the actions that keep it                    *)
(***************************************************************************)

FilesOK ==
    /\ index \subseteq remote \cup refused
    /\ setup.backend # "redis" => index \subseteq remote
    /\ \A o \in DOMAIN blobs : blobs[o] = Content(o)
    /\ DOMAIN targets = Targets
    /\ \A i \in Targets : targets[i] = Placeholder \/ targets[i] = Content(Outputs[i])

MovingOK == phase \in {"put", "get"} => Transfers(setup, phase, requests, remote, refused, threads)

\* Every dependency is listed already or about to be uploaded.
Listed == phase = "put" => Rng(Dependencies) \subseteq index \cup Rng(requests)

\* Every target is replaced, or its turn to be replaced is yet to come.
Replacing ==
    /\ copied \in Nat
    /\ phase = "start" => copied = 0
    /\ phase \in {"put", "reduce", "get", "copy"} =>
          /\ Len(actual) \in Nat /\ DOMAIN actual = 1 .. Len(actual)
          /\ \A i \in Targets : \/ targets[i] = Content(Outputs[i])
                                \/ \E k \in 1 .. Len(actual) : copied < k /\ actual[k] = i
    /\ phase = "returned" /\ ~ setup.no_download =>
          \A i \in Targets : targets[i] = Content(Outputs[i])

ForceInv == setup \in Setups /\ FilesOK /\ MovingOK /\ Listed /\ DependenciesUploaded /\ Replacing

\* What is assumed of the setup.
LEMMA SetupIs ==
  ASSUME setup \in Setups
  PROVE  /\ setup.threads \in Nat \ {0} /\ setup.batch \in Nat \ {0}
         /\ setup.backend \in {"s3", "redis", "jiffy", "none"}
BY ForceAssumption

\* A step of a transfer that goes on.
LEMMA MoveGoesOn ==
  ASSUME ForceInv, phase \in {"put", "get"},
         UNCHANGED << setup, phase, targets, actual, copied, requests >>,
         index \subseteq index', FilesOK',
         Transfers(setup, phase, requests, remote', refused', threads')
  PROVE  ForceInv'
<1>1. setup' \in Setups /\ phase' = phase /\ phase' # "reduce" /\ phase' # "start" /\ phase' # "returned"
  BY DEF ForceInv
<1>2. MovingOK'
  BY <1>1 DEF MovingOK
<1>3. Listed'
  BY <1>1 DEF Listed, ForceInv
<1>4. Replacing'
  BY <1>1 DEF Replacing, ForceInv
<1> QED
  BY <1>1, <1>2, <1>3, <1>4 DEF ForceInv, DependenciesUploaded

\* A run that fails.
LEMMA RunStops ==
  ASSUME ForceInv, phase' \in {"aborted", "threw", "killed"}, UNCHANGED << setup, files >>, FilesOK'
  PROVE  ForceInv'
BY DEF ForceInv, MovingOK, Listed, DependenciesUploaded, Replacing, files

\* What ForceInv says of a thread that moves files.
LEMMA ThreadOf ==
  ASSUME ForceInv, Moving, NEW t \in DOMAIN threads,
         \/ setup.backend \in {"s3", "redis"}
         \/ threads[t].pc # "connect"
         \/ threads[t].asked # << >>
  PROVE  /\ phase \in {"put", "get"} /\ t \in Nat \ {0}
         /\ setup.backend \in {"s3", "redis"} /\ setup.backend # "jiffy"
         /\ setup.threads \in Nat \ {0} /\ setup.batch \in Nat \ {0}
         /\ Transfers(setup, phase, requests, remote, refused, threads)
         /\ ThreadOK(setup, phase, requests, remote, refused, t, threads[t])
         /\ requests \in Seq(Rng(requests)) /\ Len(requests) \in Nat
<1>1. phase \in {"put", "get"} /\ Transfers(setup, phase, requests, remote, refused, threads)
  BY DEF ForceInv, MovingOK, Moving
<1>2. setup.backend \in {"s3", "redis"}
  BY <1>1 DEF Transfers, JiffyThread
<1>3. setup.threads \in Nat \ {0} /\ setup.batch \in Nat \ {0}
  BY SetupIs DEF ForceInv
<1>4. requests \in Seq(Rng(requests)) /\ requests # << >> /\ t \in 1 .. Min({setup.threads, Len(requests)})
  BY <1>1 DEF Transfers
<1>5. Len(requests) \in Nat /\ t \in Nat \ {0}
  BY ONLY <1>3, <1>4, ThreadsOf
<1>6. setup.backend # "jiffy"
  BY <1>2
<1> QED
  BY <1>1, <1>2, <1>3, <1>4, <1>5, <1>6 DEF Transfers, ThreadsOK

\* A step of one thread that moves no file.
LEMMA ThreadMoves ==
  ASSUME ForceInv, Moving, NEW t \in DOMAIN threads,
         \/ setup.backend \in {"s3", "redis"}
         \/ threads[t].pc # "connect"
         \/ threads[t].asked # << >>,
         UNCHANGED <<setup, phase, files, blobs, index, remote, requests, refused>>,
         NEW th, ThreadOK(setup, phase, requests, remote, refused, t, th),
         threads' = [threads EXCEPT ![t] = th]
  PROVE  ForceInv'
<1>1. /\ phase \in {"put", "get"} /\ setup.backend # "jiffy"
      /\ Transfers(setup, phase, requests, remote, refused, threads)
  BY ThreadOf
<1>2. Transfers(setup, phase, requests, remote, refused, threads')
  BY ONLY <1>1, threads' = [threads EXCEPT ![t] = th], t \in DOMAIN threads,
          ThreadOK(setup, phase, requests, remote, refused, t, th), OneThread
<1>3. FilesOK'
  BY DEF ForceInv, FilesOK, files
<1> QED
  BY <1>1, <1>2, <1>3, MoveGoesOn DEF files

\* A thread connects.
LEMMA ConnectInv ==
  ASSUME ForceInv, NEW t \in DOMAIN threads, Connect(t)
  PROVE  ForceInv'
<1>1. Moving /\ setup.backend \in {"s3", "redis"} /\ threads[t].pc = "connect"
  BY DEF Connect
<1>2. PICK th : th = [threads[t] EXCEPT !.pc = "send"]
  OBVIOUS
<1>3. ThreadOK(setup, phase, requests, remote, refused, t, threads[t])
  BY <1>1, ThreadOf
<1>4. ThreadOK(setup, phase, requests, remote, refused, t, th)
  BY ONLY <1>1, <1>2, <1>3, ConnectedOK
<1>5. threads' = [threads EXCEPT ![t] = th]
  BY <1>2 DEF Connect
<1> QED
  BY <1>1, <1>4, <1>5, ThreadMoves DEF Connect

\* A thread's exception ends the process; its files stay.
LEMMA ConnectFailsInv ==
  ASSUME ForceInv, NEW t \in DOMAIN threads, ConnectFails(t)
  PROVE  ForceInv'
<1>1. FilesOK'
  BY DEF ForceInv, FilesOK, ConnectFails, files
<1> QED
  BY <1>1, RunStops DEF ConnectFails, Terminate

\* A thread writes the requests of its batch.
LEMMA SendInv ==
  ASSUME ForceInv, NEW t \in DOMAIN threads, Send(t)
  PROVE  ForceInv'
<1>1. Moving /\ threads[t].pc = "send"
  BY DEF Send
<1>2. /\ setup.backend \in {"s3", "redis"} /\ t \in Nat \ {0}
      /\ setup.threads \in Nat \ {0} /\ setup.batch \in Nat \ {0}
      /\ ThreadOK(setup, phase, requests, remote, refused, t, threads[t])
      /\ requests \in Seq(Rng(requests)) /\ Len(requests) \in Nat
  BY <1>1, ThreadOf
<1>3. PICK K, sent : K = BatchOf(t) /\ sent = Cardinality(K)
  OBVIOUS
<1>4. K = { j \in 1 .. setup.batch :
               threads[t].first + (j - 1) * setup.threads <= Len(requests) }
  BY <1>3 DEF BatchOf
<1>5. PICK batch, q :
         /\ batch = [j \in 1 .. sent |-> requests[threads[t].first + (j - 1) * setup.threads]]
         /\ q = IF setup.backend = "redis" THEN threads[t].parser
                ELSE new_requests_arrived(threads[t].parser, sent)
  OBVIOUS
<1>6. PICK th : th = [threads[t] EXCEPT !.pc = "drain", !.sent = sent,
                                        !.asked = threads[t].asked \o batch, !.parser = q]
  OBVIOUS
<1>7. ThreadOK(setup, phase, requests, remote, refused, t, th)
  BY ONLY <1>1, <1>2, <1>3, <1>4, <1>5, <1>6, SentOK
<1>8. threads' = [threads EXCEPT ![t] = th]
  BY <1>3, <1>5, <1>6 DEF Send, Request
<1> QED
  BY <1>1, <1>7, <1>8, ThreadMoves DEF Send

\* A thread has an answer to all of its batch, and takes the next one.
LEMMA BatchDoneInv ==
  ASSUME ForceInv, NEW t \in DOMAIN threads, BatchDone(t)
  PROVE  ForceInv'
<1>1. Moving /\ threads[t].pc = "drain"
  BY DEF BatchDone
<1>2. /\ setup.backend \in {"s3", "redis"} /\ t \in Nat \ {0}
      /\ setup.threads \in Nat \ {0} /\ setup.batch \in Nat \ {0}
      /\ ThreadOK(setup, phase, requests, remote, refused, t, threads[t])
      /\ requests \in Seq(Rng(requests)) /\ Len(requests) \in Nat
  BY <1>1, ThreadOf
<1>3. IF phase = "put" /\ setup.backend = "s3" THEN ~ (pending_requests(threads[t].parser) > 0)
                                              ELSE ~ (threads[t].count # threads[t].sent)
  BY DEF BatchDone, DrainPending
<1>4. PICK next : next = threads[t].first + setup.threads * setup.batch
  OBVIOUS
<1>5. next \in Nat
  <2>1. threads[t].first \in Nat
    BY <1>2 DEF ThreadOK, ThreadRecs
  <2> QED
    BY ONLY <1>2, <1>4, <2>1
<1>6. PICK th : th = AfterBatch(threads[t])
  OBVIOUS
<1>7. \/ next > Len(requests) /\ th = [threads[t] EXCEPT !.pc = "done"]
      \/ setup.backend = "s3" /\ th = NewThread(next)
      \/ /\ setup.backend = "redis"
         /\ th = [threads[t] EXCEPT !.first = next, !.pc = "send", !.count = 0, !.sent = 0]
  <2>1. next > Len(requests) \/ (~ (next > Len(requests)) /\ next <= Len(requests))
    BY <1>2, <1>5
  <2> QED
    BY <1>2, <1>4, <1>6, <2>1 DEF AfterBatch
<1>8. ThreadOK(setup, phase, requests, remote, refused, t, th)
  BY ONLY <1>1, <1>2, <1>3, <1>4, <1>7, BatchOverOK
<1>9. threads' = [threads EXCEPT ![t] = th]
  BY <1>6 DEF BatchDone
<1> QED
  BY <1>1, <1>8, <1>9, ThreadMoves DEF BatchDone

\* The service closes a connection, idle or not.
LEMMA CloseInv ==
  ASSUME ForceInv, NEW t \in DOMAIN threads, CloseIdle(t) \/ CloseEarly(t)
  PROVE  ForceInv'
<1>1. Moving /\ threads[t].pc = "drain"
  BY DEF CloseIdle, CloseEarly
<1>2. ThreadOK(setup, phase, requests, remote, refused, t, threads[t])
  BY <1>1, ThreadOf
<1>3. threads[t] \in ThreadRecs(requests)
  BY <1>2 DEF ThreadOK
<1>4. PICK W, x : W = Tokens(requests) \cup Replies(requests) /\ x = threads[t].wire
  OBVIOUS
<1>5. x \in Seq(W)
  BY <1>3, <1>4 DEF ThreadRecs
<1>6. \E n \in 0 .. Len(x) : \E th :
         /\ th = [threads[t] EXCEPT !.open = FALSE, !.wire = SubSeq(x, 1, n)]
         /\ threads' = [threads EXCEPT ![t] = th]
  <2>1. CASE CloseIdle(t)
    <3>1. x = << >>
      BY <1>4, <2>1 DEF CloseIdle
    <3>2. PICK n : n = 0
      OBVIOUS
    <3>3. SubSeq(x, 1, n) = x /\ n \in 0 .. Len(x)
      BY ONLY <1>5, <3>1, <3>2
    <3>4. PICK th : th = [threads[t] EXCEPT !.open = FALSE]
      OBVIOUS
    <3>5. threads' = [threads EXCEPT ![t] = th]
      BY <2>1, <3>4 DEF CloseIdle
    <3>6. th = [threads[t] EXCEPT !.open = FALSE, !.wire = x]
      <4>1. PICK u : u = threads[t]
        OBVIOUS
      <4>2. u \in ThreadRecs(requests) /\ th = [u EXCEPT !.open = FALSE] /\ x = u.wire
        BY <1>3, <1>4, <3>4, <4>1
      <4>3. th = [u EXCEPT !.open = FALSE, !.wire = x]
        BY ONLY <4>2 DEF ThreadRecs
      <4> QED
        BY <4>1, <4>3
    <3> QED
      BY <3>3, <3>5, <3>6
  <2>2. CASE CloseEarly(t)
    <3>1. PICK n \in 0 .. Len(x) :
             threads' = [threads EXCEPT ![t] =
                            [threads[t] EXCEPT !.open = FALSE, !.wire = SubSeq(x, 1, n)]]
      BY <1>4, <2>2 DEF CloseEarly
    <3>2. PICK th : th = [threads[t] EXCEPT !.open = FALSE, !.wire = SubSeq(x, 1, n)]
      OBVIOUS
    <3> QED
      BY <3>1, <3>2
  <2> QED
    BY <2>1, <2>2
<1>7. PICK n \in 0 .. Len(x) : \E th :
         /\ th = [threads[t] EXCEPT !.open = FALSE, !.wire = SubSeq(x, 1, n)]
         /\ threads' = [threads EXCEPT ![t] = th]
  BY <1>6
<1>8. PICK th : /\ th = [threads[t] EXCEPT !.open = FALSE, !.wire = SubSeq(x, 1, n)]
                /\ threads' = [threads EXCEPT ![t] = th]
  BY <1>7
<1>9. ThreadOK(setup, phase, requests, remote, refused, t, th)
  <2>1. n \in 0 .. Len(threads[t].wire)
        /\ th = [threads[t] EXCEPT !.open = FALSE, !.wire = SubSeq(threads[t].wire, 1, n)]
    BY <1>4, <1>8
  <2> QED
    BY ONLY <1>1, <1>2, <2>1, CutOK
<1> QED
  BY <1>1, <1>8, <1>9, ThreadMoves DEF CloseIdle, CloseEarly

\* The head of a sequence is one of its elements.
LEMMA HeadIsIn ==
  ASSUME NEW E, NEW x \in Seq(E), x # << >>
  PROVE  Head(x) \in E
OBVIOUS

\* The service grants or refuses the first request that is unanswered.
LEMMA ServeInv ==
  ASSUME ForceInv, NEW t \in DOMAIN threads, Serve(t)
  PROVE  ForceInv'
<1>1. Moving /\ threads[t].asked # << >> /\ threads[t].open
  BY DEF Serve
<1>2. /\ setup.backend \in {"s3", "redis"} /\ setup.backend # "jiffy" /\ phase \in {"put", "get"}
      /\ ThreadOK(setup, phase, requests, remote, refused, t, threads[t])
      /\ Transfers(setup, phase, requests, remote, refused, threads)
  BY <1>1, ThreadOf
<1>3. PICK o : o = Head(threads[t].asked)
  OBVIOUS
<1>4. o \in Rng(requests)
  <2>1. threads[t].asked \in Seq(Rng(requests))
    BY <1>2 DEF ThreadOK, ThreadRecs
  <2> QED
    BY <1>1, <1>3, <2>1, HeadIsIn
<1>5. PICK ok \in BOOLEAN :
         /\ threads' = [threads EXCEPT ![t] =
                          [threads[t] EXCEPT !.asked = Tail(threads[t].asked),
                                             !.wire = threads[t].wire \o Response(ok, o)]]
         /\ remote \subseteq remote' /\ refused \subseteq refused'
         /\ phase = "put" => o \in (IF ok THEN remote' ELSE refused')
  <2>1. CASE /\ remote' = remote \cup {o} /\ refused' = refused
             /\ threads' = [threads EXCEPT ![t] =
                   [threads[t] EXCEPT !.asked = Tail(threads[t].asked),
                                      !.wire = threads[t].wire \o Response(TRUE, o)]]
    BY <2>1
  <2>2. CASE /\ remote' = remote /\ refused' = IF phase = "put" THEN refused \cup {o} ELSE refused
             /\ threads' = [threads EXCEPT ![t] =
                   [threads[t] EXCEPT !.asked = Tail(threads[t].asked),
                                      !.wire = threads[t].wire \o Response(FALSE, o)]]
    BY <2>2
  <2> QED
    BY <1>3, <2>1, <2>2 DEF Serve
<1>6. PICK reply, th : /\ reply = Response(ok, o)
                       /\ th = [threads[t] EXCEPT !.asked = Tail(threads[t].asked),
                                                  !.wire = threads[t].wire \o reply]
  OBVIOUS
<1>7. ResponseTo(requests, setup, phase, ok, o, reply)
  BY ONLY <1>2, <1>4, <1>6, ok \in BOOLEAN, ResponseIs
<1>8. setup.backend = "s3" => /\ reply \in Seq(Tokens(requests))
                              /\ \E st \in Statuses :
                                   /\ reply = ReplyTokens(Size(phase), st, o)
                                   /\ phase = "put" => o \in (IF st = "200" THEN remote' ELSE refused')
  <2> SUFFICES ASSUME setup.backend = "s3"
               PROVE  /\ reply \in Seq(Tokens(requests))
                      /\ \E st \in Statuses :
                           /\ reply = ReplyTokens(Size(phase), st, o)
                           /\ phase = "put" => o \in (IF st = "200" THEN remote' ELSE refused')
    OBVIOUS
  <2>1. PICK st : st = IF ok THEN "200" ELSE "503"
    OBVIOUS
  <2>2. reply \in Seq(Tokens(requests)) /\ reply = ReplyTokens(Size(phase), st, o)
    BY <1>7, <2>1 DEF ResponseTo
  <2>3. st \in Statuses /\ (st = "200" <=> ok)
    BY <2>1 DEF Statuses
  <2>4. phase = "put" => o \in (IF st = "200" THEN remote' ELSE refused')
    BY <1>5, <2>3
  <2> QED
    BY <2>2, <2>3, <2>4
<1>9. setup.backend = "redis" =>
         /\ \E r \in Replies(requests) : reply = << r >> /\ r.body = Content(o)
         /\ phase = "put" => o \in remote' \cup refused'
  BY <1>5, <1>7 DEF ResponseTo
<1>10. ThreadOK(setup, phase, requests, remote', refused', t, threads[t])
  BY ONLY <1>2, <1>5, ThreadStays
<1>11. ThreadOK(setup, phase, requests, remote', refused', t, th)
  <2>1. PICK rem2, ref2 : rem2 = remote' /\ ref2 = refused'
    OBVIOUS
  <2>2. PICK u : u = threads[t]
    OBVIOUS
  <2>3. Served(setup, phase, requests, rem2, ref2, o, reply, u, th)
    BY <1>1, <1>3, <1>6, <1>8, <1>9, <2>1, <2>2 DEF Served
  <2>4. ThreadOK(setup, phase, requests, rem2, ref2, t, u)
    BY <1>10, <2>1, <2>2
  <2>5. ThreadOK(setup, phase, requests, rem2, ref2, t, th)
    BY ONLY <1>2, <2>3, <2>4, ServedOK
  <2> QED
    BY <2>1, <2>5
<1>12. threads' = [threads EXCEPT ![t] = th]
  BY <1>5, <1>6
<1>13. Transfers(setup, phase, requests, remote', refused', threads')
  <2>1. PICK rem2, ref2, thr2 : rem2 = remote' /\ ref2 = refused' /\ thr2 = threads'
    OBVIOUS
  <2>2. /\ remote \subseteq rem2 /\ refused \subseteq ref2 /\ thr2 = [threads EXCEPT ![t] = th]
        /\ ThreadOK(setup, phase, requests, rem2, ref2, t, th)
    BY <1>5, <1>11, <1>12, <2>1
  <2>3. Transfers(setup, phase, requests, rem2, ref2, thr2)
    BY ONLY <1>2, <2>2, t \in DOMAIN threads, OneThread
  <2> QED
    BY <2>1, <2>3
<1>14. FilesOK' /\ index \subseteq index'
  BY <1>5 DEF Serve, ForceInv, FilesOK, files
<1> QED
  BY <1>2, <1>13, <1>14, MoveGoesOn DEF Serve, files

\* A success leaves the index and the blobs right, if the answer is to that request.
LEMMA SucceedsOK ==
  ASSUME FilesOK, phase \in {"put", "get"}, NEW o, NEW body, Success(o, body),
         UNCHANGED << setup, targets >>, remote \subseteq remote', refused \subseteq refused',
         phase = "put" => o \in remote' \cup refused',
         phase = "put" /\ setup.backend # "redis" => o \in remote',
         phase # "put" => body = Content(o)
  PROVE  FilesOK' /\ index \subseteq index'
<1>1. index \subseteq index' /\ index' \subseteq remote' \cup refused'
  BY DEF FilesOK, Success
<1>2. setup.backend # "redis" => index' \subseteq remote'
  BY DEF FilesOK, Success
<1>3. \A x \in DOMAIN blobs' : blobs'[x] = Content(x)
  BY DEF FilesOK, Success
<1> QED
  BY <1>1, <1>2, <1>3 DEF FilesOK

\* The Redis client reads one reply.
LEMMA DrainRedisInv ==
  ASSUME ForceInv, NEW t \in DOMAIN threads, Drain(t), DrainRedis(t)
  PROVE  ForceInv'
<1>1. Moving /\ threads[t].pc = "drain" /\ setup.backend = "redis"
      /\ UNCHANGED << setup, targets, actual, copied, remote, requests, refused >>
  BY DEF Drain, DrainRedis, files
<1>2. /\ setup.backend # "jiffy" /\ phase \in {"put", "get"}
      /\ ThreadOK(setup, phase, requests, remote, refused, t, threads[t])
      /\ Transfers(setup, phase, requests, remote, refused, threads)
  BY <1>1, ThreadOf
<1>3. CASE Terminate /\ UNCHANGED <<blobs, index>>
  <2>1. FilesOK'
    BY <1>1, <1>3 DEF ForceInv, FilesOK
  <2> QED
    BY <1>1, <1>3, <2>1, RunStops DEF Terminate, files
<1>4. CASE /\ threads[t].wire # << >>
           /\ Success(Answered(t), Head(threads[t].wire).body)
           /\ threads' = [threads EXCEPT ![t] =
                [threads[t] EXCEPT !.wire = Tail(threads[t].wire), !.count = threads[t].count + 1]]
           /\ UNCHANGED phase
  <2>1. PICK o, th :
           /\ o = requests[threads[t].first + ((threads[t].count + 1) - 1) * setup.threads]
           /\ th = [threads[t] EXCEPT !.wire = Tail(threads[t].wire), !.count = threads[t].count + 1]
    OBVIOUS
  <2>2. /\ ThreadOK(setup, phase, requests, remote, refused, t, th)
        /\ phase = "put" => o \in remote \cup refused
        /\ Head(threads[t].wire).body = Content(o)
    <3>1. PICK u : u = threads[t]
      OBVIOUS
    <3>2. /\ ThreadOK(setup, phase, requests, remote, refused, t, u) /\ u.pc = "drain"
          /\ setup.backend = "redis" /\ ReplyTakenBy(setup, requests, o, u, th)
      BY <1>1, <1>2, <1>4, <2>1, <3>1 DEF ReplyTakenBy
    <3>3. /\ ThreadOK(setup, phase, requests, remote, refused, t, th)
          /\ phase = "put" => o \in remote \cup refused
          /\ Head(u.wire).body = Content(o)
      BY ONLY <3>2, ReplyOK
    <3> QED
      BY <3>1, <3>3
  <2>3. PICK body : body = Head(threads[t].wire).body
    OBVIOUS
  <2>4. Success(o, body)
    BY <1>4, <2>1, <2>3 DEF Answered, Request
  <2>5. FilesOK' /\ index \subseteq index'
    BY <1>1, <1>2, <2>2, <2>3, <2>4, SucceedsOK DEF ForceInv
  <2>6. Transfers(setup, phase, requests, remote, refused, threads')
    <3>1. threads' = [threads EXCEPT ![t] = th]
      BY <1>4, <2>1
    <3> QED
      BY ONLY <1>2, <2>2, <3>1, t \in DOMAIN threads, OneThread
  <2> QED
    BY <1>1, <1>2, <1>4, <2>5, <2>6, MoveGoesOn
<1> QED
  BY <1>3, <1>4 DEF DrainRedis

\* The S3 client reads a piece of the stream and looks at one response at most.
LEMMA DrainS3Inv ==
  ASSUME ForceInv, NEW t \in DOMAIN threads, Drain(t), NEW buf \in Reads(threads[t]), DrainS3(t, buf)
  PROVE  ForceInv'
<1>1. Moving /\ threads[t].pc = "drain" /\ setup.backend = "s3"
      /\ UNCHANGED << setup, targets, actual, copied, remote, requests, refused >>
  BY DEF Drain, DrainS3, files
<1>2. /\ setup.backend # "jiffy" /\ phase \in {"put", "get"}
      /\ ThreadOK(setup, phase, requests, remote, refused, t, threads[t])
      /\ Transfers(setup, phase, requests, remote, refused, threads)
  BY <1>1, ThreadOf
<1>3. PICK q, y, th : /\ q = parse(threads[t].parser, buf)
                      /\ y = SubSeq(threads[t].wire, Len(buf) + 1, Len(threads[t].wire))
                      /\ th = [threads[t] EXCEPT !.parser = q, !.wire = y]
  OBVIOUS
<1>4. CASE Terminate /\ UNCHANGED <<blobs, index>>
  <2>1. FilesOK'
    BY <1>1, <1>4 DEF ForceInv, FilesOK
  <2> QED
    BY <1>1, <1>4, <2>1, RunStops DEF Terminate, files
<1>5. ASSUME ~ Fails(q) PROVE ThreadOK(setup, phase, requests, remote, refused, t, th)
  <2>1. th = [threads[t] EXCEPT !.parser = q,
                                !.wire = SubSeq(threads[t].wire, Len(buf) + 1, Len(threads[t].wire))]
    BY <1>3
  <2> QED
    BY ONLY <1>1, <1>2, <1>3, <1>5, <2>1, buf \in Reads(threads[t]), ReadOK
<1>6. CASE /\ ~ Fails(q) /\ q.complete = << >>
           /\ threads' = [threads EXCEPT ![t] = [threads[t] EXCEPT !.parser = q, !.wire = y]]
           /\ UNCHANGED <<phase, blobs, index>>
  <2>1. threads' = [threads EXCEPT ![t] = th]
    BY <1>3, <1>6
  <2> QED
    BY <1>1, <1>5, <1>6, <2>1, ThreadMoves DEF files
<1>7. CASE /\ ~ Fails(q) /\ q.complete # << >>
           /\ Success(Answered(t), q.complete[1].body)
           /\ threads' = [threads EXCEPT ![t] =
                 [threads[t] EXCEPT !.parser = pop(q), !.wire = y, !.count = threads[t].count + 1]]
           /\ UNCHANGED phase
  <2>1. PICK u, r, d : u = threads[t] /\ r = pop(q) /\ d = u.count + 1
    OBVIOUS
  <2>2. u \in ThreadRecs(requests)
    BY <1>2, <2>1 DEF ThreadOK
  <2>3. th = [u EXCEPT !.parser = q, !.wire = y]
    BY <1>3, <2>1
  <2>4. th.parser = q /\ th.count = u.count /\ th.first = u.first /\ th.pc = u.pc
    BY ONLY <2>2, <2>3 DEF ThreadRecs
  <2>5. PICK v : v = [th EXCEPT !.parser = r, !.count = d]
    OBVIOUS
  <2>6. v = [u EXCEPT !.parser = r, !.wire = y, !.count = d]
    BY ONLY <2>2, <2>3, <2>5 DEF ThreadRecs
  <2>7. PICK o : o = requests[u.first + ((u.count + 1) - 1) * setup.threads]
    OBVIOUS
  <2>8. /\ ThreadOK(setup, phase, requests, remote, refused, t, v)
        /\ phase = "put" => o \in remote
        /\ phase # "put" => q.complete[1].body = Content(o)
    <3>1. ResponseTakenBy(setup, requests, q, o, th, v) /\ th.pc = "drain"
      BY <1>1, <1>7, <2>1, <2>4, <2>5, <2>7 DEF ResponseTakenBy
    <3>2. ThreadOK(setup, phase, requests, remote, refused, t, th)
      BY <1>5, <1>7
    <3> QED
      <4>1. setup.backend = "s3"
        BY <1>1
      <4> QED
        BY ONLY <3>1, <3>2, <4>1, PoppedOK
  <2>9. PICK body : body = q.complete[1].body
    OBVIOUS
  <2>10. Success(o, body)
    BY <1>7, <2>1, <2>7, <2>9 DEF Answered, Request
  <2>11. FilesOK' /\ index \subseteq index'
    BY <1>1, <1>2, <2>8, <2>9, <2>10, SucceedsOK DEF ForceInv
  <2>12. Transfers(setup, phase, requests, remote, refused, threads')
    <3>1. threads' = [threads EXCEPT ![t] = v]
      BY <1>7, <2>1, <2>6
    <3> QED
      BY ONLY <1>2, <2>8, <3>1, t \in DOMAIN threads, OneThread
  <2> QED
    BY <1>1, <1>2, <1>7, <2>11, <2>12, MoveGoesOn
<1> QED
  BY <1>3, <1>4, <1>6, <1>7 DEF DrainS3

\* The Jiffy client moves one file.
LEMMA JiffyMoveInv ==
  ASSUME ForceInv, JiffyMove
  PROVE  ForceInv'
<1>1. /\ Moving /\ setup.backend = "jiffy"
      /\ UNCHANGED << setup, targets, actual, copied, requests, refused >>
  BY DEF JiffyMove, files
<1>2. phase \in {"put", "get"} /\ Transfers(setup, phase, requests, remote, refused, threads)
  BY <1>1 DEF ForceInv, MovingOK, Moving
<1>3. 1 \in DOMAIN threads
  <2>1. /\ setup.threads \in Nat \ {0} /\ requests \in Seq(Rng(requests)) /\ requests # << >>
        /\ DOMAIN threads = 1 .. Min({setup.threads, Len(requests)})
    BY <1>2, SetupIs DEF ForceInv, Transfers
  <2> QED
    BY ONLY <2>1, ThreadsOf
<1>4. PICK th, c, o : th = threads[1] /\ c = th.count /\ o = requests[c + 1]
  OBVIOUS
<1>5. th \in ThreadRecs(requests) /\ th.pc = "connect" /\ th.asked = << >> /\ c \in Nat
  BY <1>1, <1>2, <1>3, <1>4 DEF Transfers, JiffyThread, ThreadRecs
<1>6. CASE /\ Success(o, Content(o))
           /\ remote' = IF phase = "put" THEN remote \cup {o} ELSE remote
           /\ threads' = [threads EXCEPT ![1].count = @ + 1]
           /\ phase' = phase
  <2>1. PICK d : d = c + 1
    OBVIOUS
  <2>2. PICK th2 : th2 = [th EXCEPT !.count = d]
    OBVIOUS
  <2>3. threads' = [threads EXCEPT ![1] = th2]
    BY <1>4, <1>6, <2>1, <2>2
  <2>4. th2 \in ThreadRecs(requests) /\ th2.pc = "connect" /\ th2.asked = << >> /\ th2.count = d
    <3>1. d \in Nat
      BY <1>5, <2>1
    <3> QED
      BY ONLY <1>5, <2>2, <3>1 DEF ThreadRecs
  <2>5. remote \subseteq remote' /\ (phase = "put" => o \in remote')
    BY <1>6
  <2>6. FilesOK' /\ index \subseteq index'
    <3>1. PICK body : body = Content(o)
      OBVIOUS
    <3> QED
      BY <1>1, <1>2, <1>6, <2>5, <3>1, SucceedsOK DEF ForceInv
  <2>7. /\ DOMAIN threads' = DOMAIN threads /\ threads'[1] = th2
        /\ \A u \in DOMAIN threads : u # 1 => threads'[u] = threads[u]
    BY ONLY <1>3, <2>3
  <2>8. \A u \in DOMAIN threads' : JiffyThread(requests, threads'[u])
    <3> TAKE u \in DOMAIN threads'
    <3>1. JiffyThread(requests, threads[u])
      BY <1>1, <1>2, <2>7 DEF Transfers
    <3>2. JiffyThread(requests, th2)
      BY <2>4 DEF JiffyThread
    <3> QED
      BY <2>7, <3>1, <3>2
  <2>9. ASSUME phase = "put" PROVE \A i \in 1 .. threads'[1].count : requests[i] \in remote'
    <3> SUFFICES ASSUME NEW i \in 1 .. d PROVE requests[i] \in remote'
      BY <2>4, <2>7
    <3>1. i \in 1 .. c \/ i = c + 1
      BY <1>5, <2>1
    <3>2. \A j \in 1 .. c : requests[j] \in remote
      BY <1>1, <1>2, <1>4, <2>9 DEF Transfers
    <3> QED
      BY <1>4, <2>5, <2>9, <3>1, <3>2
  <2>10. Transfers(setup, phase, requests, remote', refused', threads')
    BY <1>1, <1>2, <2>7, <2>8, <2>9 DEF Transfers
  <2> QED
    BY <1>1, <1>2, <1>6, <2>6, <2>10, MoveGoesOn
<1>7. CASE phase' = "threw" /\ UNCHANGED <<blobs, index, remote>>
  <2>1. FilesOK'
    BY <1>1, <1>7 DEF ForceInv, FilesOK
  <2> QED
    BY <1>1, <1>7, <2>1, RunStops DEF files
<1> QED
  BY <1>4, <1>6, <1>7 DEF JiffyMove

\* The positions of a sequence form a finite set.
LEMMA PositionsOf ==
  ASSUME NEW s, s \in Seq(Rng(s)), NEW K \in SUBSET (DOMAIN s)
  PROVE  K \in SUBSET Nat /\ IsFiniteSet(K)
<1>1. PICK E : E = Rng(s)
  OBVIOUS
<1>2. PICK n \in Nat : DOMAIN s = 1 .. n
  <2>1. s \in Seq(E)
    BY <1>1
  <2> QED
    BY ONLY <2>1
<1>3. IsFiniteSet(1 .. n)
  BY FS_Interval
<1>4. K \subseteq 1 .. n
  BY <1>2
<1>5. IsFiniteSet(K)
  BY ONLY <1>3, <1>4, FS_Subset
<1> QED
  BY <1>4, <1>5

\* The first object of a sequence of what has been chosen.
LEMMA NothingChosen ==
  ASSUME NEW s, NEW K \in SUBSET Nat, IsFiniteSet(K), At(s, K) = << >>
  PROVE  K = {}
<1>1. Len(At(s, K)) = 0
  OBVIOUS
<1>2. \A i \in K : \E k \in 1 .. 0 : TRUE
  BY <1>1, AtHas
<1> QED
  BY <1>2

\* A run finds its targets and what to upload.
LEMMA StartInv ==
  ASSUME ForceInv, Start
  PROVE  ForceInv'
<1>1. /\ phase = "start" /\ copied = 0
      /\ UNCHANGED << setup, targets, copied, blobs, index, remote, refused >>
  BY DEF Start, ForceInv, Replacing
<1>2. PICK K, L : /\ K = { i \in Targets : targets[i] = Placeholder }
                  /\ L = { i \in DOMAIN Dependencies : Dependencies[i] \notin index }
  OBVIOUS
<1>3. PICK ids, todo, missing : /\ ids = [i \in Targets |-> i] /\ todo = At(ids, K)
                                /\ missing = At(Dependencies, L)
  OBVIOUS
<1>4. K \in SUBSET Nat /\ IsFiniteSet(K) /\ L \in SUBSET Nat /\ IsFiniteSet(L)
  BY <1>2, ForceAssumption, PositionsOf DEF Targets
<1>5. /\ Len(todo) \in Nat /\ DOMAIN todo = 1 .. Len(todo)
      /\ \A i \in K : \E k \in 1 .. Len(todo) : todo[k] = i
  <2>1. Len(todo) = Cardinality(K) /\ Cardinality(K) \in Nat
        /\ todo \in Seq(Rng(todo))
        /\ \A i \in K : \E k \in 1 .. Len(todo) : todo[k] = ids[i]
    BY ONLY <1>3, <1>4, AtHas
  <2>2. \A i \in K : ids[i] = i
    BY <1>2, <1>3
  <2> QED
    BY <2>1, <2>2
<1>6. FilesOK'
  BY <1>1 DEF ForceInv, FilesOK
<1>7. \A i \in Targets : \/ targets[i] = Content(Outputs[i])
                         \/ \E k \in 1 .. Len(todo) : copied < k /\ todo[k] = i
  <2> TAKE i \in Targets
  <2>1. CASE i \in K
    <3>1. PICK k \in 1 .. Len(todo) : todo[k] = i
      BY <1>5, <2>1
    <3>2. copied < k
      BY <1>1, <1>5
    <3> QED
      BY <3>1, <3>2
  <2>2. CASE i \notin K
    BY <1>2, <2>2 DEF ForceInv, FilesOK
  <2> QED
    BY <2>1, <2>2
<1>8. actual' = todo
  BY <1>2, <1>3 DEF Start
<1>9. CASE todo = << >> /\ phase' = "returned"
  <2>1. K = {}
    BY ONLY <1>3, <1>4, <1>9, NothingChosen
  <2>2. \A i \in Targets : targets[i] = Content(Outputs[i])
    BY <1>2, <2>1 DEF ForceInv, FilesOK
  <2>3. Replacing'
    BY <1>1, <1>9, <2>2 DEF Replacing
  <2> QED
    BY <1>1, <1>6, <1>9, <2>3 DEF ForceInv, MovingOK, Listed, DependenciesUploaded
<1>10. CASE phase' = "reduce" /\ (setup.backend = "none" \/ missing = << >>)
  <2>1. Replacing'
    BY <1>1, <1>5, <1>7, <1>8, <1>10 DEF Replacing
  <2>2. ASSUME setup.backend # "none" PROVE Rng(Dependencies) \subseteq remote \cup refused
    <3>1. L = {}
      <4>1. missing = << >>
        BY <1>10, <2>2
      <4> QED
        BY ONLY <1>3, <1>4, <4>1, NothingChosen
    <3>2. Rng(Dependencies) \subseteq index
      BY <1>2, <3>1 DEF Rng
    <3> QED
      BY <3>2 DEF ForceInv, FilesOK
  <2> QED
    BY <1>1, <1>6, <1>10, <2>1, <2>2 DEF ForceInv, MovingOK, Listed, DependenciesUploaded
<1>11. CASE setup.backend # "none" /\ missing # << >> /\ StartTransfer("put", missing)
  <2>1. /\ phase' = "put" /\ requests' = missing
        /\ threads' = [t \in 1 .. Min({setup.threads, Len(missing)}) |-> NewThread(t)]
    BY <1>11 DEF StartTransfer
  <2>2. missing \in Seq(Rng(missing)) /\ \A i \in L : \E k \in 1 .. Len(missing) : missing[k] = Dependencies[i]
        /\ Len(missing) \in Nat
    BY ONLY <1>3, <1>4, AtHas
  <2>3. Transfers(setup, "put", missing, remote, refused, threads')
    <3>1. setup.backend \in {"s3", "redis", "jiffy"} /\ setup.threads \in Nat \ {0} /\ missing # << >>
      BY <1>11, SetupIs DEF ForceInv
    <3>2. PICK thr : thr = threads'
      OBVIOUS
    <3>3. thr = [t \in 1 .. Min({setup.threads, Len(missing)}) |-> NewThread(t)]
      BY <2>1, <3>2
    <3>4. Transfers(setup, "put", missing, remote, refused, thr)
      BY ONLY <2>2, <3>1, <3>3, TransferStarts
    <3> QED
      BY <3>2, <3>4
  <2>4. MovingOK'
    BY <1>1, <2>1, <2>3 DEF MovingOK
  <2>5. Rng(Dependencies) \subseteq index \cup Rng(missing)
    <3>1. DOMAIN missing = 1 .. Len(missing)
      BY <2>2
    <3>2. \A i \in L : Dependencies[i] \in Rng(missing)
      BY <2>2, <3>1 DEF Rng
    <3>3. \A i \in DOMAIN Dependencies : Dependencies[i] \in index \cup Rng(missing)
      BY <1>2, <3>2
    <3> QED
      BY <3>3 DEF Rng
  <2>6. Listed'
    BY <1>1, <2>1, <2>5 DEF Listed
  <2>7. Replacing'
    BY <1>1, <1>5, <1>7, <1>8, <2>1 DEF Replacing
  <2> QED
    BY <1>1, <1>6, <2>1, <2>4, <2>6, <2>7 DEF ForceInv, DependenciesUploaded
<1> QED
  BY <1>2, <1>3, <1>9, <1>10, <1>11 DEF Start

\* All threads are done: each dependency was granted or refused.
LEMMA UploadDoneInv ==
  ASSUME ForceInv, UploadDone
  PROVE  ForceInv'
<1>1. /\ phase = "put" /\ phase' = "reduce" /\ TransferDone
      /\ UNCHANGED << setup, targets, actual, copied, blobs, index, remote, refused >>
  BY DEF UploadDone, files
<1>2. Transfers(setup, "put", requests, remote, refused, threads)
  BY <1>1 DEF ForceInv, MovingOK
<1>3. Rng(requests) \subseteq remote \cup refused
  <2>1. IF setup.backend = "jiffy" THEN threads[1].count = Len(requests)
                                   ELSE \A t \in DOMAIN threads : threads[t].pc = "done"
    BY <1>1 DEF TransferDone
  <2>2. setup.threads \in Nat \ {0}
    BY SetupIs DEF ForceInv
  <2> QED
    BY ONLY <1>2, <2>1, <2>2, TransferCovers
<1>4. Rng(Dependencies) \subseteq remote \cup refused
  BY <1>1, <1>3 DEF ForceInv, Listed, FilesOK
<1>5. FilesOK'
  BY <1>1 DEF ForceInv, FilesOK
<1>6. Replacing'
  BY <1>1 DEF ForceInv, Replacing
<1> QED
  BY <1>1, <1>4, <1>5, <1>6 DEF ForceInv, MovingOK, Listed, DependenciesUploaded

\* The reduction ends, and the download may start.
LEMMA ReduceDoneInv ==
  ASSUME ForceInv, ReduceDone
  PROVE  ForceInv'
<1>1. /\ phase = "reduce"
      /\ UNCHANGED << setup, targets, actual, copied, index, refused >>
  BY DEF ReduceDone, files
<1>2. PICK hashes : hashes = [i \in DOMAIN actual |-> Outputs[actual[i]]]
  OBVIOUS
<1>3. PICK L : L = { i \in DOMAIN hashes : hashes[i] \notin DOMAIN blobs }
  OBVIOUS
<1>4. PICK unseen : unseen = At(hashes, L)
  OBVIOUS
<1>5. /\ remote \subseteq remote'
      /\ \/ phase' = "threw"
         \/ phase' = "returned" /\ setup.no_download
         \/ phase' = "copy"
         \/ setup.backend # "none" /\ unseen # << >> /\ StartTransfer("get", unseen)
      /\ blobs' = blobs \/ blobs' = [o \in DOMAIN blobs \cup Rng(hashes) |-> Content(o)]
  BY <1>2, <1>3, <1>4 DEF ReduceDone
<1>6. FilesOK'
  <2>1. \A o \in DOMAIN blobs' : blobs'[o] = Content(o)
    BY <1>5 DEF ForceInv, FilesOK
  <2> QED
    BY <1>1, <1>5, <2>1 DEF ForceInv, FilesOK
<1>7. CASE phase' = "threw"
  BY <1>1, <1>6, <1>7, RunStops DEF files
<1>8. CASE phase' \in {"returned", "copy"} /\ (phase' = "returned" => setup.no_download)
  <2>1. Replacing'
    BY <1>1, <1>8 DEF ForceInv, Replacing
  <2> QED
    BY <1>1, <1>6, <1>8, <2>1 DEF ForceInv, MovingOK, Listed, DependenciesUploaded
<1>9. CASE setup.backend # "none" /\ unseen # << >> /\ StartTransfer("get", unseen)
  <2>1. /\ phase' = "get" /\ requests' = unseen
        /\ threads' = [t \in 1 .. Min({setup.threads, Len(unseen)}) |-> NewThread(t)]
    BY <1>9 DEF StartTransfer
  <2>2. PICK n \in Nat : DOMAIN actual = 1 .. n
    BY <1>1 DEF ForceInv, Replacing
  <2>3. L \in SUBSET Nat /\ IsFiniteSet(L)
    <3>1. L \subseteq 1 .. n
      BY <1>2, <1>3, <2>2
    <3>2. IsFiniteSet(1 .. n)
      BY FS_Interval
    <3>3. IsFiniteSet(L)
      BY ONLY <3>1, <3>2, FS_Subset
    <3> QED
      BY <3>1, <3>3
  <2>4. unseen \in Seq(Rng(unseen))
    BY ONLY <1>4, <2>3, AtHas
  <2>5. PICK thr, rem : thr = threads' /\ rem = remote'
    OBVIOUS
  <2>6. Transfers(setup, "get", unseen, rem, refused, thr)
    <3>1. setup.backend \in {"s3", "redis", "jiffy"} /\ setup.threads \in Nat \ {0} /\ unseen # << >>
      BY <1>9, SetupIs DEF ForceInv
    <3>2. thr = [t \in 1 .. Min({setup.threads, Len(unseen)}) |-> NewThread(t)]
      BY <2>1, <2>5
    <3> QED
      BY ONLY <2>4, <3>1, <3>2, TransferStarts
  <2>7. MovingOK'
    BY <1>1, <2>1, <2>5, <2>6 DEF MovingOK
  <2>8. Replacing'
    BY <1>1, <2>1 DEF ForceInv, Replacing
  <2> QED
    BY <1>1, <1>6, <2>1, <2>7, <2>8 DEF ForceInv, Listed, DependenciesUploaded
<1> QED
  BY <1>5, <1>7, <1>8, <1>9

\* The download ends.
LEMMA DownloadDoneInv ==
  ASSUME ForceInv, DownloadDone
  PROVE  ForceInv'
<1>1. /\ phase = "get" /\ phase' = "copy"
      /\ UNCHANGED << setup, targets, actual, copied, blobs, index, remote, refused >>
  BY DEF DownloadDone, files
<1>2. FilesOK'
  BY <1>1 DEF ForceInv, FilesOK
<1>3. Replacing'
  BY <1>1 DEF ForceInv, Replacing
<1> QED
  BY <1>1, <1>2, <1>3 DEF ForceInv, MovingOK, Listed, DependenciesUploaded

\* One placeholder is replaced by its object's blob.
LEMMA CopyTargetInv ==
  ASSUME ForceInv, CopyTarget
  PROVE  ForceInv'
<1>1. /\ phase = "copy" /\ copied < Len(actual)
      /\ UNCHANGED << setup, actual, blobs, index, remote, refused >>
  BY DEF CopyTarget
<1>2. PICK i, j, o : i = copied + 1 /\ j = actual[i] /\ o = Outputs[j]
  OBVIOUS
<1>3. CASE /\ o \in DOMAIN blobs /\ targets' = [targets EXCEPT ![j] = blobs[o]]
           /\ copied' = i /\ phase' = phase
  <2>1. blobs[o] = Content(o)
    BY <1>3 DEF ForceInv, FilesOK
  <2>2. PICK x : x = Content(o)
    OBVIOUS
  <2>3. targets' = [targets EXCEPT ![j] = x] /\ DOMAIN targets = Targets
    BY <1>3, <2>1, <2>2 DEF ForceInv, FilesOK
  <2>4. /\ DOMAIN targets' = Targets
        /\ \A k \in Targets : targets'[k] = IF k = j THEN x ELSE targets[k]
    BY ONLY <2>3
  <2>5. FilesOK'
    BY <1>1, <1>2, <1>3, <2>2, <2>4 DEF ForceInv, FilesOK
  <2>6. copied \in Nat /\ Len(actual) \in Nat /\ DOMAIN actual = 1 .. Len(actual)
        /\ \A k \in Targets : \/ targets[k] = Content(Outputs[k])
                              \/ \E m \in 1 .. Len(actual) : copied < m /\ actual[m] = k
    BY <1>1 DEF ForceInv, Replacing
  <2>7. ASSUME NEW k \in Targets
        PROVE  \/ targets'[k] = Content(Outputs[k])
               \/ \E m \in 1 .. Len(actual) : i < m /\ actual[m] = k
    <3>1. CASE k = j
      BY <1>2, <2>2, <2>4, <3>1
    <3>2. CASE k # j
      <4>1. targets'[k] = targets[k]
        BY <2>4, <3>2
      <4>2. CASE targets[k] = Content(Outputs[k])
        BY <4>1, <4>2
      <4>3. CASE \E m \in 1 .. Len(actual) : copied < m /\ actual[m] = k
        <5>1. PICK m \in 1 .. Len(actual) : copied < m /\ actual[m] = k
          BY <4>3
        <5>2. m # i
          BY <1>2, <3>2, <5>1
        <5>3. i < m
          BY <1>2, <2>6, <5>1, <5>2
        <5> QED
          BY <5>1, <5>3
      <4> QED
        BY <2>6, <4>2, <4>3
    <3> QED
      BY <3>1, <3>2
  <2>8. Replacing'
    BY <1>1, <1>2, <1>3, <2>6, <2>7 DEF Replacing
  <2> QED
    BY <1>1, <1>3, <2>5, <2>8 DEF ForceInv, MovingOK, Listed, DependenciesUploaded
<1>4. CASE phase' = "threw" /\ UNCHANGED <<targets, copied>>
  <2>1. FilesOK'
    BY <1>1, <1>4 DEF ForceInv, FilesOK
  <2> QED
    BY <1>1, <1>4, <2>1, RunStops DEF files
<1> QED
  BY <1>2, <1>3, <1>4 DEF CopyTarget, CopiedTo

\* All targets have had their turn.
LEMMA CopyDoneInv ==
  ASSUME ForceInv, CopyDone
  PROVE  ForceInv'
<1>1. /\ phase = "copy" /\ copied = Len(actual) /\ phase' = "returned"
      /\ UNCHANGED << setup, targets, actual, copied, blobs, index, remote, refused >>
  BY DEF CopyDone, files
<1>2. FilesOK'
  BY <1>1 DEF ForceInv, FilesOK
<1>3. copied \in Nat /\ \A i \in Targets :
         targets[i] = Content(Outputs[i]) \/ \E k \in 1 .. Len(actual) : copied < k /\ actual[k] = i
  BY <1>1 DEF ForceInv, Replacing
<1>4. \A i \in Targets : targets[i] = Content(Outputs[i])
  BY <1>1, <1>3
<1>5. Replacing'
  BY <1>1, <1>3, <1>4 DEF Replacing
<1> QED
  BY <1>1, <1>2, <1>5 DEF ForceInv, MovingOK, Listed, DependenciesUploaded

\* The process is killed anywhere.
LEMMA KillInv ==
  ASSUME ForceInv, Kill
  PROVE  ForceInv'
<1>1. FilesOK'
  BY DEF ForceInv, FilesOK, Kill, files
<1> QED
  BY <1>1, RunStops DEF Kill

\* gg-force starts again with what is on disk.
LEMMA RerunInv ==
  ASSUME ForceInv, Rerun
  PROVE  ForceInv'
<1>1. phase' = "start" /\ copied' = 0
      /\ UNCHANGED << setup, targets, blobs, index, remote, refused >>
  BY DEF Rerun
<1>2. FilesOK'
  BY <1>1 DEF ForceInv, FilesOK
<1>3. Replacing'
  BY <1>1 DEF Replacing
<1> QED
  BY <1>1, <1>2, <1>3 DEF ForceInv, MovingOK, Listed, DependenciesUploaded

\* ForceInv holds when the first run starts.
LEMMA ForceStarts ==
  ASSUME Init
  PROVE  ForceInv
<1>1. /\ setup \in Setups /\ phase = "start" /\ copied = 0 /\ index = {}
      /\ targets = [i \in Targets |-> Placeholder]
      /\ blobs = [o \in Rng(Dependencies) |-> Content(o)]
  BY DEF Init
<1>2. FilesOK
  BY <1>1 DEF FilesOK
<1>3. Replacing
  BY <1>1 DEF Replacing
<1> QED
  BY <1>1, <1>2, <1>3 DEF ForceInv, MovingOK, Listed, DependenciesUploaded

\* Every step keeps ForceInv.
LEMMA ForceSteps ==
  ASSUME ForceInv, [Next]_vars
  PROVE  ForceInv'
<1>1. CASE main
  BY <1>1, StartInv, UploadDoneInv, ReduceDoneInv, DownloadDoneInv, CopyTargetInv, CopyDoneInv,
     JiffyMoveInv DEF main
<1>2. ASSUME NEW t \in DOMAIN threads, Client(t) PROVE ForceInv'
  <2>1. CASE Drain(t)
    <3>1. DrainRedis(t) \/ \E buf \in Reads(threads[t]) : DrainS3(t, buf)
      BY <2>1 DEF Drain
    <3> QED
      BY <2>1, <3>1, DrainRedisInv, DrainS3Inv
  <2> QED
    BY <1>2, <2>1, ConnectInv, ConnectFailsInv, SendInv, BatchDoneInv DEF Client
<1>3. ASSUME NEW t \in DOMAIN threads, Service(t) PROVE ForceInv'
  BY <1>3, ServeInv, CloseInv DEF Service
<1>4. CASE Kill
  BY <1>4, KillInv
<1>5. CASE Rerun
  BY <1>5, RerunInv
<1>6. CASE UNCHANGED vars
  BY <1>6 DEF ForceInv, FilesOK, MovingOK, Listed, DependenciesUploaded, Replacing, vars, files
<1> QED
  BY <1>1, <1>2, <1>3, <1>4, <1>5, <1>6 DEF Next, Stopped

\* ForceInv is an invariant.
LEMMA ForceKeepsInv == Spec => []ForceInv
  BY ForceStarts, ForceSteps, PTL DEF Spec

\* The index of remote objects never lists one that the service does not have, with S3
\* and Jiffy, whatever is refused, cut off, killed or run again. An entry is written
\* only after a success: for S3 the response with status 200 that is popped is the one
\* to the request the thread records, however the answers were cut (s3.cc:161-178,
\* reductor.cc:349-403). For every value of the constants.
THEOREM ForceIndexIsTrue == Spec => []IndexIsTrue
<1>1. ForceInv => IndexIsTrue
  BY DEF ForceInv, FilesOK, IndexIsTrue
<1> QED
  BY <1>1, ForceKeepsInv, PTL

\* When the reduction starts, every dependency is in the service or was refused in an
\* answer nobody looked at: batches of any size on any number of threads leave no
\* request out, and a thread leaves its loop only when its whole batch is answered
\* (s3.cc:161-178, redis.cc:76-92, reductor.cc:349-403).
THEOREM ForceUploadsDependencies == Spec => []DependenciesUploaded
<1>1. ForceInv => DependenciesUploaded
  BY DEF ForceInv
<1> QED
  BY <1>1, ForceKeepsInv, PTL

\* Every blob holds its own object's content, every target its placeholder or its own
\* output, and a run that returns has replaced all targets: a response is never stored
\* under another request's name, and a target is never given another one's output,
\* in a first run or a later one (s3.cc:234-258, gg-force.cc:335-345).
THEOREM ForceFilesAreRight == Spec => []FilesAreRight
<1>1. ForceInv => FilesAreRight
  BY DEF ForceInv, FilesOK, Replacing, FilesAreRight
<1> QED
  BY <1>1, ForceKeepsInv, PTL

=============================================================================
