--------------------------- MODULE MCConnections ----------------------------
(* A request over TCP and one over TLS, on the same loop. *)
EXTENDS Connections

MCSize == [c \in {"tcp", "tls"} |-> 2]

Status == << "200", "CR", "LF" >>
MCAnswer == [tcp |-> Status \o << "length1", "CR", "LF", "CR", "LF", "x" >>,
             tls |-> Status \o << "chunked", "CR", "LF", "CR", "LF", "c0", "CR", "LF", "CR", "LF" >>]

\* Between CR and LF of the status line, and before the body; within the header of a
\* chunk, and within the end of the body.
MCCuts == [tcp |-> {2, 8}, tls |-> {2, 9, 12}]

MCExpected == [tcp |-> [status |-> "200", body |-> << "x" >>],
               tls |-> [status |-> "200", body |-> << "c0", "CR", "LF", "CR", "LF" >>]]

\* The states of the parser, for every way in which a response may be cut.
MCParsers ==
    [c \in {"tcp", "tls"} |->
        LET cuts == {0} \cup MCCuts[c]
            after[n \in 0 .. Len(MCAnswer[c])] ==
                IF n = 0 THEN { new_request_arrived(NewParser) }
                ELSE IF n \notin MCCuts[c] \cup {Len(MCAnswer[c])} THEN {}
                ELSE UNION { { parse(p, SubSeq(MCAnswer[c], k + 1, n)) :
                                  p \in { q \in after[k] : q.complete = << >> } } :
                             k \in { k \in cuts : k < n } }
        IN  after]
=============================================================================
