----------------------------- MODULE MCHandler ------------------------------
(* Small instances of RemoteHandler: the thunks of MCExecute, the first of  *)
(* which is requested twice.                                                *)
EXTENDS RemoteHandler

MCThunk == {"a", "b"}
MCNeeds == [a |-> {"x", "exe"}, b |-> {"y", "exe"}]
MCResult == [a |-> <<"o", "shared">>, b |-> <<"shared">>]
MCProc == {1, 2, 3}
MCJobs == << <<"a">>, <<"b">>, <<"a">> >>

\* Lambda with Jiffy, whose transfers fail in the main thread, and with S3.
Lambda == [platform |-> "lambda", flags |-> {"get", "put", "cleanup", "timelog"},
           rewrites |-> TRUE, threaded |-> FALSE,
           faults |-> {"fetch", "execute", "nospace", "timeout"},
           blobs |-> {}, stored |-> {"x", "y"}]
LambdaS3 == [Lambda EXCEPT !.threaded = TRUE, !.faults = @ \cup {"upload", "kill"}]

\* Google Cloud with the same backends. A function that is stopped there leaves entries
\* whose outputs it has not uploaded.
GCloud == [Lambda EXCEPT !.platform = "gcloud", !.faults = {"fetch", "execute", "nospace"}]
GCloudS3 == [LambdaS3 EXCEPT !.platform = "gcloud"]

MCSetups == {Lambda, LambdaS3, GCloud, GCloudS3}

\* Lambda, when an upload may fail.
UploadSetups == {[Lambda EXCEPT !.faults = {"upload"}]}
=============================================================================
