----------------------------- MODULE MCExecute ------------------------------
(* A small instance of GGExecute: thunk "a" has two outputs, one of which   *)
(* thunk "b" produces too; two processes meet at the second one's second    *)
(* thunk.                                                                   *)
EXTENDS GGExecute

MCThunk == {"a", "b"}
MCNeeds == [a |-> {"x", "exe"}, b |-> {"y", "exe"}]
MCResult == [a |-> <<"o", "shared">>, b |-> <<"shared">>]

MCProc == {1, 2}
MCJobs == << <<"a">>, <<"b", "a">> >>

Inputs == {"x", "y", "exe"}
Timed == {"get", "put", "timelog"}

\* Everything is on this host.
OneHost == [flags |-> {"timelog"}, rewrites |-> FALSE, threaded |-> TRUE,
            faults |-> {"execute", "kill"}, blobs |-> MCThunk \cup Inputs, stored |-> {}]

\* Inputs come from S3 and outputs go there.
FromS3 == [flags |-> Timed, rewrites |-> FALSE, threaded |-> TRUE,
           faults |-> {"fetch", "execute", "upload", "unseen", "kill"},
           blobs |-> MCThunk, stored |-> Inputs]

\* They come from Jiffy, and the host is cleaned up.
FromJiffy == [flags |-> Timed \cup {"cleanup"}, rewrites |-> FALSE, threaded |-> FALSE,
              faults |-> {"fetch", "execute", "upload", "kill"},
              blobs |-> MCThunk \cup {"y", "exe", "old"}, stored |-> Inputs]

\* The execute server, as it starts gg-execute and as it would with --timelog.
Server == [flags |-> {"get", "put"}, rewrites |-> TRUE, threaded |-> TRUE,
           faults |-> {"fetch", "kill", "reset"}, blobs |-> {}, stored |-> Inputs]
TimedServer == [Server EXCEPT !.flags = Timed, !.faults = {"upload", "kill", "reset"}]

\* Nothing goes wrong.
Faultless == [FromS3 EXCEPT !.faults = {}]

MCSetups == {OneHost, FromS3, FromJiffy, Server, TimedServer, Faultless}

\* Nothing goes wrong, and the command line is the execute server's.
UntimedSetups == {[Faultless EXCEPT !.flags = {"get", "put"}]}
=============================================================================
