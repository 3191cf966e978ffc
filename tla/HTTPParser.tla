----------------------------- MODULE HTTPParser -----------------------------
(***************************************************************************)
(* The incremental parser of HTTP responses (src/src/net/                  *)
(* http_message_sequence.hh, http_message.cc, http_response.cc,            *)
(* http_response_parser.cc, chunked_parser.cc, body_parser.hh) as          *)
(* functions on its state. parse() takes whatever a read returned: a       *)
(* response may come in any pieces, cut inside a line or between the CR    *)
(* and the LF, and several responses may come in one piece.                *)
(*                                                                         *)
(* The stream is a sequence of tokens: "CR", "LF", and one token for the   *)
(* text of a status line, of a header, of a chunk size, or for one byte of *)
(* a body.                                                                 *)
(***************************************************************************)
EXTENDS Integers, Sequences, SequencesExt, FiniteSetsExt

(***************************************************************************)
(* Lines                                                                   *)
(***************************************************************************)

\* Where the pair CR LF occurs in buffer.
CRLFs(buffer) == { i \in 1 .. Len(buffer) - 1 : buffer[i] = "CR" /\ buffer[i + 1] = "LF" }

have_complete_line(buffer) ==
    \E i \in 1 .. Len(buffer) - 1 : buffer[i] = "CR" /\ buffer[i + 1] = "LF"

LineEnd(buffer) ==
    CHOOSE i \in CRLFs(buffer) : \A j \in CRLFs(buffer) : i <= j
Line(buffer) == SubSeq(buffer, 1, LineEnd(buffer) - 1)
AfterLine(buffer) == SubSeq(buffer, LineEnd(buffer) + 2, Len(buffer))

(***************************************************************************)
(* ChunkedBodyParser: it only finds out where the body ends.               *)
(***************************************************************************)

ChunkSizes == [c0 |-> 0, c1 |-> 1, c2 |-> 2]

NewChunkedBody(trailers) ==
    [buffer |-> << >>, state |-> "CHUNK_HDR", size |-> 0, acked |-> 0, parsed |-> 0,
     trailers |-> trailers]

\* One iteration of the loop in read(), or c where the loop returns.
chunk_step(c) ==
    CASE c.state = "CHUNK_HDR" /\ have_complete_line(c.buffer) ->
            LET size == ChunkSizes[Line(c.buffer)[1]]
            IN  [c EXCEPT !.size   = size,
                          !.state  = IF size = 0 THEN "TRAILER" ELSE "CHUNK",
                          !.parsed = @ + LineEnd(c.buffer) + 1,
                          !.buffer = AfterLine(@)]
      [] c.state = "CHUNK" /\ Len(c.buffer) >= c.size + 2 ->
            [c EXCEPT !.state  = "CHUNK_HDR",
                      !.parsed = @ + c.size + 2,
                      !.buffer = SubSeq(@, c.size + 3, Len(@))]
      [] OTHER -> c

Npos == -1

\* read(input): the parser afterwards, and how much of input belongs to the body.
\* An iteration that does not return takes two bytes or more.
read_chunked(c, input) ==
    LET start  == [c EXCEPT !.buffer = @ \o input]
        loop[n \in Nat] == IF n = 0 THEN start ELSE chunk_step(loop[n - 1])
        end    == loop[Len(start.buffer)]
        needle == IF c.trailers THEN 4 ELSE 2     \* two consecutive CRLFs, or one
        found  == { i \in CRLFs(end.buffer) : c.trailers => i + 2 \in CRLFs(end.buffer) }
    IN  IF end.state = "TRAILER" /\ found # {}
        THEN [parser |-> end,
              amount |-> end.parsed + (Min(found) - 1) + needle - end.acked]
        ELSE [parser |-> [end EXCEPT !.acked = @ + Len(input)], amount |-> Npos]

(***************************************************************************)
(* HTTPMessage and HTTPResponse                                            *)
(***************************************************************************)

NewMessage == [state |-> "FIRST_LINE_PENDING", first_line |-> << >>, headers |-> {},
               framing |-> "none", size |-> 0, chunks |-> NewChunkedBody(FALSE),
               body |-> << >>]

BodilessStatus == {"100", "204", "304"}
ContentLengths == [length0 |-> 0, length1 |-> 1, length2 |-> 2]

trailers_enabled(m) == "trailer" \in m.headers

\* done_with_headers and calculate_expected_body_size: rules 1, 2, 3 and 5.
done_with_headers(m) ==
    LET known(n) == [m EXCEPT !.state = "BODY_PENDING", !.framing = "known", !.size = n]
        lengths  == m.headers \cap DOMAIN ContentLengths
    IN  IF m.first_line[1] \in BodilessStatus THEN known(0)
        ELSE IF "chunked" \in m.headers
             THEN [m EXCEPT !.state = "BODY_PENDING", !.framing = "chunked",
                            !.chunks = NewChunkedBody(trailers_enabled(m))]
        ELSE IF lengths # {} THEN known(ContentLengths[CHOOSE h \in lengths : TRUE])
        ELSE [m EXCEPT !.state = "BODY_PENDING", !.framing = "eof"]

\* read_in_body(str): the message afterwards, and how much of str it took.
read_in_body(m, str) ==
    CASE m.framing = "known" ->
            LET amount == Min({m.size - Len(m.body), Len(str)})
                body   == m.body \o SubSeq(str, 1, amount)
            IN  [message |-> [m EXCEPT !.body = body,
                                       !.state = IF Len(body) = m.size THEN "COMPLETE" ELSE @],
                 amount |-> amount]
      [] m.framing = "chunked" ->
            LET r == read_chunked(m.chunks, str)
                amount == IF r.amount = Npos THEN Len(str) ELSE r.amount
            IN  [message |-> [m EXCEPT !.body   = @ \o SubSeq(str, 1, amount),
                                       !.chunks = r.parser,
                                       !.state  = IF r.amount = Npos THEN @ ELSE "COMPLETE"],
                 amount |-> amount]
      [] m.framing = "eof" ->
            [message |-> [m EXCEPT !.body = @ \o str], amount |-> Len(str)]

(***************************************************************************)
(* HTTPMessageSequence and HTTPResponseParser                              *)
(***************************************************************************)

NewParser == [buffer |-> << >>, requests |-> 0, complete |-> << >>,
              message |-> NewMessage, threw |-> FALSE]

new_request_arrived(p) == [p EXCEPT !.requests = @ + 1]
new_requests_arrived(p, n) == [p EXCEPT !.requests = @ + n]   \* n calls of it
pending_requests(p) == p.requests
pop(p) == [p EXCEPT !.complete = Tail(@)]

\* The first line of a response: it is matched with the oldest request.
first_line_step(p) ==
    IF p.requests = 0
    THEN [p EXCEPT !.threw = TRUE]
    ELSE [p EXCEPT !.requests = @ - 1,
                   !.message  = [@ EXCEPT !.first_line = Line(p.buffer), !.state = "HEADERS_PENDING"],
                   !.buffer   = AfterLine(@)]

add_header(m, line) == [m EXCEPT !.headers = @ \cup {line[1]}]

header_step(p) ==
    [p EXCEPT !.message = IF Line(p.buffer) = << >>
                          THEN done_with_headers(@)
                          ELSE add_header(@, Line(p.buffer)),
              !.buffer  = AfterLine(@)]

body_step(p) ==
    LET r == read_in_body(p.message, p.buffer)
    IN  [p EXCEPT !.message = r.message,
                  !.buffer  = SubSeq(@, r.amount + 1, Len(@))]

complete_step(p) ==
    [p EXCEPT !.complete = Append(@, [status |-> p.message.first_line[1], body |-> p.message.body]),
              !.message  = NewMessage]

\* One step of the parser; where the code returns false, another step changes nothing.
parsing_step(p) ==
    CASE p.threw -> p
      [] p.message.state = "COMPLETE" /\ ~ p.threw -> complete_step(p)
      [] p.message.state = "BODY_PENDING" /\ ~ p.threw -> body_step(p)
      [] p.message.state = "HEADERS_PENDING" /\ ~ p.threw /\ have_complete_line(p.buffer) ->
            header_step(p)
      [] p.message.state = "FIRST_LINE_PENDING" /\ ~ p.threw /\ have_complete_line(p.buffer) ->
            first_line_step(p)
      [] OTHER -> p

\* End of file: the body may end here, the headers may not.
eof(p) ==
    CASE p.message.state = "FIRST_LINE_PENDING" -> p
      [] p.message.state = "BODY_PENDING" /\ p.message.framing \in {"chunked", "eof"} ->
            [p EXCEPT !.message = [@ EXCEPT !.state = "COMPLETE"]]
      [] OTHER -> [p EXCEPT !.threw = TRUE]

\* A step takes a line, which has two bytes or more, ends a body or ends a message,
\* which has two lines or more: this many steps are enough.
StepsFor(p) == Len(p.buffer) + 4

\* parse(buf): the empty read is the end of the stream.
parse(p, buf) ==
    LET start == IF buf = << >> THEN eof(p) ELSE [p EXCEPT !.buffer = @ \o buf]
        loop[n \in Nat] == IF n = 0 THEN start ELSE parsing_step(loop[n - 1])
    IN  loop[StepsFor(start)]
=============================================================================
