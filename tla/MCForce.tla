------------------------------ MODULE MCForce ------------------------------
(* Three dependencies and two targets, moved by one or two threads in batches. *)
EXTENDS GGForce

MCDependencies == << "d1", "d2", "d3" >>
MCOutputs      == << "o1", "o2" >>

Setup(backend, threads_, batch, no_download) ==
    [backend |-> backend, threads |-> threads_, batch |-> batch, no_download |-> no_download]

MCSetups == { Setup("s3", 1, 2, FALSE), Setup("s3", 2, 1, FALSE), Setup("redis", 2, 2, FALSE),
              Setup("redis", 2, 1, FALSE), Setup("jiffy", 1, 1, FALSE), Setup("jiffy", 1, 1, TRUE),
              Setup("none", 1, 1, FALSE) }

MCFaults == [s3    |-> {"kill", "connect", "error", "early"},
             redis |-> {"kill", "connect", "error", "early"},
             jiffy |-> {"kill", "error"},
             none  |-> {"kill"}]
=============================================================================
