# A TLA+ verification of gg

gg runs a program by *reducing thunks*. A thunk is a content-addressed description
of one function application: the function, the objects it reads (values, or outputs
of other thunks) and the names of its outputs. `gg-force` loads the thunks named on
its command line, hands every thunk whose inputs are all values to an execution
engine, replaces it by what it evaluates to, and goes on until each target is a value.
The compiler models write the thunks in the first place, in place of running the compiler.
This directory holds TLA+ modules for that core, for the processes that execute thunks,
for the loop and the connections under them, for the storage clients, for the tracer and
for the gcc model, the TLC configurations that check them, and proofs checked by TLAPS.

## Inventory

| Part | State | Operations | Interacts with |
|---|---|---|---|
| Execution graph, `src/thunk/graph.cc` | `thunks_`, `referencing_thunks_`, dependencies, the two hash maps | `add_thunk`, `update_hash`, `force_thunk`, `order_one_dependencies` | owned by the Reductor |
| Thunks, `src/thunk/thunk.cc` | contents | `update_data`, hashing, writing | rewritten in place by the graph |
| Reductor, `src/execution/reductor.cc` | targets left, job queue, jobs with their timeouts | load, dispatch, success and failure callbacks, timeout check, finish | engines (calls and callbacks), loop, cache |
| Engines, `src/execution/engine_*.cc` | job counter, limit, start times | `force_thunk`, the response and error callbacks | loop, remote services, child processes |
| Loop and poller, `src/execution/loop.cc`, `src/util/poller.cc` | connections, children, actions | add and remove connections, reap children, poll | everything runs inside its callbacks |
| Cache, `src/thunk/ggutils.cc` | the reductions directory | `check`, `insert` | Reductor, engines, gg-execute |
| gg-execute, `src/frontend/gg-execute.cc` | lock on the thunk, blobs, reductions | lock, clean up, fetch, run, enter results, upload | cache, storage, other gg-execute processes |
| Remote handlers, `src/remote/*_function/main.py` | the instance's disk | write the thunk, run gg-execute, answer | engines, gg-execute |
| gg-execute-server, `src/frontend/gg-execute-server.cc` | connections, children | start gg-execute, answer, reset | gg engine, loop, gg-execute |
| Storage, `src/storage/`, `src/net/{s3,redis,jiffy}.cc` | batches in flight per thread | `get`, `put` | Reductor (before and after), gg-execute |
| Meow engine and worker, `src/execution/engine_meow.cc` | workers, free workers, waiting thunks | accept, prepare, pick, executed | loop |
| gg-force, `src/frontend/gg-force.cc` | the targets' files, blobs, index of remote objects | upload, reduce, download, copy out | Reductor, storage |
| Sockets and HTTP, `src/net/` | state of a TLS socket, state of a response parser | connect, read, write, parse | loop and poller, storage clients |
| Tracer and gg-mock, `src/trace/tracer.cc`, `src/frontend/gg-mock.cc` | a record per traced thread, paused threads, gg-forces | the events of `waitid`, the callback at `open` | the build's processes, gg-force |
| gcc model, `src/models/{gcc,preprocessor,linker}.cc` | placeholders, thunks, the dependency cache | generate a thunk per stage, link | the build; gg-force replaces what it wrote |
| Sandbox, other models, utilities | | | |

What is hard here: results arrive in any order and each one renames the thunks that wait
for it; the same thunk may be in flight several times (once per target, per retry and
per timeout) and only one of the answers finds it in the graph; a thunk may return a
thunk, over dependencies that the graph already holds, has renamed or has finished with;
requests fail in ways that run different callbacks or none; the cache outlives a run.
Several gg-execute processes share two directories, can be killed between any two steps,
and remove what they do not need; SIGCHLDs coalesce; the Meow coordinator keeps a
picture of what its workers hold. Storage clients move files on threads that match
answers with requests by position, and answers arrive in any pieces; gg-force trusts an
index that an earlier, killed run has written. The poller looks at all sockets once and
then runs callbacks while the network goes on. The kernel reports the stops of parents
and children in any order to the tracer. The models guess, before anything has been
compiled, what a compiler would have read. `PROJECT.json` lists these hazards with their
lines.

What makes each part correct. *Graph*: no reference is lost, what is handed out is
exactly what is ready, no lookup fails, rewriting preserves meaning. *Reductor*: no job
is forgotten, duplicates are harmless, it returns and what it returns is right.
*Engines*: never more jobs than configured, counters in step with open requests.
*gg-execute*: entries in the cache appear in an order a crash cannot expose, a success
means the outputs are stored, the lock excludes. *Handlers*: the answer tells what
happened, and only a failed program is fatal. *Storage and gg-force*: a batch that ends
without an error has moved every object, the index lists only what is stored, every file
gets its own content, a run ends. *Loop*: every child is reaped once, no stray signal
ends the program. *Connections*: every request is settled once, with its own answer, and
none takes the others with it. *Tracer*: nobody opens a placeholder, nobody is left
paused. *gcc model*: the lazy build is the eager one. *Meow*: thunks, launches and
workers add up, a worker holds what it is believed to hold.

## Modules

- **ExecutionGraph**: the graph as a record and its operations as functions on it, one
  operator per operation of `graph.cc`, plus `UpdateData` for `Thunk::update_data`.
  The hash of a thunk is its content (SHA-256 is taken to be injective), so "the thunk
  was written under its new hash" is the content itself. Recursion over the graph is a
  least closed set (`LoadedThunks`, `Below`). `ForceThrows` collects the `at()` calls
  and explicit exceptions. Where the code iterates over an `unordered_set` and the
  order shows (two referrers that become the same content), the operations return
  every possible result. Arguments and environment placeholders follow the data items
  they name and are left out.
- **Reduction**: the abstract specification. An owner of a graph forces pending thunks
  in any order. Actions `Load` and `ForceThunk`. Its last part states
  the hypotheses of the proofs about the graph (`PlainPrograms`, `AllTagsReturned`,
  `NothingMergesNow`, `NothingComesBackNow`, `KnownThunks`).
- **Reductor**: `reductor.cc` with the engines and the part of the loop that feeds it.
  One action per path of `reduce()` (`TakeCached`, `Execute`, `NotStarted`,
  `QueueEmpty`, `PollSuccess`, `PollTimeout`, `PollExit`), one per kind of answer
  (`RemoteSuccess`, `RemoteFailure`, `SocketFailure`, `ConnectionClosed`, `GoesSilent`,
  `TlsFailure`, `ExecutionFailure`) and one per iteration of the constructor's loop
  (`AddTarget`). A child process ends on its own (`ChildRuns`, `ChildFails`) and leaves a
  SIGCHLD; `ReadSignal` takes it and fills `todo`, the children that the handler looks at
  one by one (`StillRunning`, `LocalSuccess`, `ChildFailure`) before any connection is
  serviced. An exception is the value `"threw"` of `pc`; `SystemFailure` stands for those
  of system calls and for signals that end gg-force. `jobs` holds the open connections and
  children, each with its state: a TLS connection that the peer has closed is `"silent"` and
  stays. `job_count` is each engine's own counter, which a socket error does not
  decrement. Timeouts fire for any set of running jobs after any poll, which covers
  every value the timeout arithmetic can take. `faults` is the sequence of the kinds of
  failures so far, so that a property can say which failure excuses what. The cache maps
  a thunk to all of its outputs, because the entry of the bare hash is written last.
- **JobTimeouts**: the same loop seen from its clock: the start, the growing timeout and
  the 8-bit `restarts` of every running job, `next_timeout_check`, and a clock that ticks
  while the loop polls. `Width` is 256 in the code. The answers are abstracted to success
  and failure; `first` and `duplicated` are history, for the properties.
- **ReductorRefinement**: the mapping from Reductor to Reduction. Pending thunks are
  those queued or in flight that the graph still holds; the answer of a target is what
  `reduce()` would look up for it.
- **GGExecute**: `gg-execute.cc` for several processes. A process' record is the step it
  is at (`pc`), the index of its thunk, the file it has open, its loop index, what is
  left to fetch and its status; `blobs`, `reductions` and `stored` are the two
  directories and the storage backend. One action per step of `main` and of the functions
  it calls (`Open`, `Lock`, `Cleanup`, `CheckDeps`, `FetchOne`, `Run`, `Grab`, `Enter`,
  `Measure`, `UploadOne`, `Log`, ...), and one per way to fail. `file` and `inode` say
  which of the files that had the thunk's name a process has open, since that is what
  `flock` locks. `Start` is the parent, `Reset` the server's `/reset`, `Kill` a signal. A
  transfer that fails in a thread ends the process (`TransferFailed`), because nobody
  catches its exception. `UploadUnseen` is a refused object whose answer nobody reads.
- **RemoteHandler**: extends GGExecute by the two Python handlers: `Invoke`, `Execute`,
  `Answer`, the platform's `TimeOut`, and `Verdict`, what the engines make of an answer.
  `InvokeFails` is a function that finds no room for the thunk.
- **ExecutionLoop**: children and signals in `loop.cc`, `child_process.cc` and
  `signalfd.cc`. The kernel's side is `alive`, `news` (what `waitid` would report) and
  `pending` (one bit per signal); the loop's side is `managed`, `todo` (the rest of the
  round over the children), `suspended`, `called`. Children change state between any two
  steps of the round. Connections are there because the loop reads signals while one is
  open. When the loop has thrown, the destructors of its children run one after the other,
  in any order: `Terminate` is the turn of `~ChildProcess` up to `wait()` (resume a child
  that is known to be suspended, send it SIGHUP), `Waited` the return of `wait()` with
  whatever the child reports next, `ending` the child whose destructor runs. Children go on
  stopping and ending meanwhile; one that runs ends after the signal, sooner or later.
- **MeowEngine**: `engine_meow.cc` and `gg-meow-worker.cc` with FIFO connections between
  them: `force_thunk`, `pick_lambda`, `prepare_lambda`, `Incoming` and `Receive` on the
  coordinator, `WorkerReceives` and `ChildExits` on the workers. Framing, and the opcodes
  that nobody sends, are left out. `disk` is what the coordinator has: the objects of the
  thunks it was given, and outputs that an earlier reduction may have left. gg-execute is taken
  to run with `GG_TIMELOG` set.
- **HTTPParser**: the response parser as functions on its state: `have_complete_line`,
  the states of a message, bodies by length, by chunks or to the end of the stream, the
  queue of requests the responses answer. A stream is a sequence of tokens fine enough to
  be cut between CR and LF and inside a body. Used by the next two modules.
- **GGForce**: `main()` of gg-force run after run, with `upload_dependencies` and
  `download_targets` of the Reductor, and under them the storage clients: for S3 and
  Redis, threads that stride over the requests in batches, send a batch and read the
  answers from a connection of their own (`Connect`, `Send`, `Drain`, `BatchDone`), with
  the service on the other end (`Serve`, `CloseIdle`, `CloseEarly`); Jiffy object by
  object. Reducing the targets is one step here, since Reductor is about it. `setup`
  chooses a backend as in GGExecute. A run may be killed anywhere; the index, the blobs
  and the targets that have been replaced stay for the next one.
- **Connections**: `make_http_request` and `add_connection` of the loop, the rounds of the
  poller (`Poll` takes `revents`, then each callback is a step, Out before In), and the two
  kinds of sockets: plain TCP, and the TLS socket with the states of `nb_secure_socket.hh`.
  `SslResult`, `Handshake` and `Push` are OpenSSL as the code uses it. The peer accepts,
  answers, finishes and breaks between any two callbacks. `Parsers` lists the states of the
  parser after each prefix of a response, in whatever pieces it came; that they are all
  right is the assumption `ParsersAssumption`, which TLC evaluates on the responses of the
  run with the parser of HTTPParser, and from which the theorems start.
- **Tracer**: the event loop of `tracer.cc` with the callback of gg-mock. The kernel's side
  is `proc`: for every thread where it is stopped, in which call, and whether the stop has
  been reported; the tracer's side is `tracers`, `waiting` and `children`. `force` are the
  gg-forces, `file` the placeholder that everybody opens, with a version for each time a
  model writes it anew. A stop of SIGTRAP that is no event of ptrace is the tracee's own
  signal, on which `handle_one_event` throws, as it does on a path that it cannot read.
- **GCCModel**: commands as `GCCArguments` parses them go through stages (`NextInput`,
  `Stage`, `SkipStage`, `Finish`, `Refuse`), each of which writes a thunk; the dependency
  cache is looked up by the source's hash and holds the command line (`DepgenArgs`: the
  include directories) and what was found. `files` is the lazy build, `real` the same build done
  by the compiler, `Value` evaluates a thunk. `Value` is RECURSIVE, so no theorem reaches
  this module.
- **ReductionProofs**, **ReductorProofs**, **GGForceProofs**, **MeowEngineProofs**,
  **ConnectionsProofs**, **TracerProofs**: the theorems, each module about the one it is
  named after; **ExecutionProofs**: those about GGExecute and RemoteHandler, which extends
  it; **LoopProofs**: those about the two loops, ExecutionLoop and JobTimeouts.
- **MCPrograms**: small numeric programs (increment, sum, division with two outputs, a
  Fibonacci function that returns thunks, ...), the set of contents their reduction can
  go through, and `Denote`, a recursive evaluator that knows nothing of graphs.
- **MCReduction**, **MCReductor**, **MCTimeouts**, **MCForce**, **MCConnections**,
  **MCExecute**, **MCHandler**, **MCLoop**, **MCMeow**, **MCTracer**, **MCGCC**: programs,
  engines, backends, processes, workers and commands for the runs.

Definitions whose comment starts with "Mutant of" are deliberately wrong variants of
the definition that follows them. They are used to confirm that each property notices
the bug in question, and by nothing else.

## Runs

| Run | Shows |
|---|---|
| `reduction` | on a program with shared, two-output and recursive thunks, for every order of arrival: references are kept, forcing never fails, exactly the ready thunks are handed out, and rewriting preserves meaning as `Denote` has it |
| `reduction_converging` | two thunks that become the same content lose a referrer (`NoLostReference` fails) |
| `reductor` | with late jobs duplicated, one failure of any kind, engines over TLS and TCP and a local one as the fallback, a warm cache, two outputs and returned thunks, the Reductor implements Reduction, forgets no job, keeps limits, throws only for what is known to make it throw, ends unless only silent connections are left, and returns the right answers |
| `timeouts` | with a counter of three values that wraps, late jobs are duplicated at most once per timeout, and the growing timeouts stay within `Width` times the age of the job |
| `transfer` | two runs of gg-force over each backend, answers cut anywhere, one failure or kill: the index is true, the strides and batches forget no dependency, every file has its own content although answers are matched by position, every run ends |
| `connection` | a TCP and a TLS request in one poller, while the network goes on between callbacks and one connection is refused, closed or reset: the caller hears once and the right thing, the loop comes down in three known ways only, every request settles unless the peer closes early |
| `execute` | two gg-execute processes, killed anywhere, in six setups (below): the bare hash is the last entry, entries have blobs, what is finished is entered and stored, the lock excludes, and everyone ends whoever dies with the lock |
| `handler` | three requests to an instance that keeps its disk, in four setups: a success is stored unless uploads were cut short, a verdict is fatal only for the causes that `FatalHasACause` lists, the answer on Lambda finds its blobs, every request is answered |
| `loop` | three children that exit, fail, stop and continue, with a connection and interrupts: no report is lost, the destructors of a loop that throws leave nobody behind and wait for nobody who is suspended, every started child gets its callback unless the loop ends |
| `meow` | workers that die, fail or are never launched, and a thunk that reads what a worker has computed: jobs are conserved, workers hold what they are believed to hold, gg-force ends only on a failure or for want of an object, every thunk is done unless something fails |
| `tracer` | three processes that open, truncate, fork, exec, detach and exit while gg-forces run: an open never gets a placeholder that the tracer has seen, the loop throws only in a build that meets one of `FaultKinds`, and it ends |
| `gcc` | compile and link commands, two at a time, with include directories in two orders, edits, a header added in between and placeholders forced at any time: every file holds, or stands for, what the compiler itself would have written, but for the two exceptions that `SameAsEager` names |

The failing run is a disagreement with a comment of the code, which `findings` in
`PROJECT.json` quotes. The other disagreements found on the way are described below.

A *setup* of GGExecute and RemoteHandler is a record: the command line, whether the parent
writes the thunks again, whether the backend transfers in threads, the faults that may
happen, the platform, and what is on disk and in the backend at first. It is chosen in
`Init` and never changes. `MCExecute` has six: everything on one host; S3 with every
failure and unseen refusals; Jiffy with clean-up; the execute server with resets, as it
starts gg-execute and as it would with `--timelog`; and one without faults. `MCForce` has
S3 with one thread and batches, S3 with two threads, Redis twice, Jiffy with and without
downloads, and no backend. `MCHandler` has
Lambda and Google Cloud, each with Jiffy (transfers fail in the main thread) and with S3
(they fail in a thread, uploads fail too and processes are killed); disks are full in all of
them, and all but Google Cloud with Jiffy have time limits. A property that a setup cannot
keep names the condition in its statement: `LockExcludes` that nobody rewrites the thunks,
`BareEntryIsLast` and
`FinishedIsEntered` that nobody resets the server, `EntriesHaveBlobs` that nobody removes
blobs, `FinishedIsStored` that refusals are seen, `HonestIfUploaded` that uploads do not fail
and are not cut short, `AnswerFindsBlobs` the platform that empties its directories,
`IndexIsTrue` that
the backend is not Redis, `DependenciesUploaded` that the service refused nothing unseen.

### What these conditions leave out

Each of them is there because the code does otherwise, and so are the choices of constants
in the other passing runs. Changing the constant named here makes TLC show the behaviour.

- The execute server replaces a thunk's file for every request
  (`gg-execute-server.cc:188`), so two processes can hold locks on two files of the same
  name and work on the thunk together, which the lock of `gg-execute.cc:402-407` is there
  to prevent. (`rewrites`, `LockExcludes` without its condition.)
- A refused upload can go unseen: the loop of `s3.cc:163` ends when no request is pending,
  and a response that has begun to arrive is no longer pending; `redis.cc:86` does not look
  at replies. (`"unseen"`, `FinishedIsStored`.)
- A reset of the execute server between two entries of a thunk leaves the bare hash
  without the others (`gg-execute-server.cc:90-101`). (`"reset"`, `BareEntryIsLast`.)
- A failed transfer in a thread, or a signal, ends gg-execute with a return code that is no
  job status, and the Reductor gives up although `reductor.cc:120` calls ExecutionFailure
  "the only fatal failure". (`FatalHasACause` with `"ExecutionFailure"` alone.)
- The Google Cloud function keeps the entries of earlier requests while `--cleanup` removes
  the blobs they name; if the thunk comes again and is not executed to its end, because a
  fetch fails, the function fails and the engine reports ExecutionFailure
  (`engine_gcloud.cc:51-56`). So it does when the function has no room for the thunk. Both
  happen in the setup `GCloud`. (`FatalHasACause` without its last case.)
- A Meow worker's launch that fails leaves its thunk in `thunks_queue_` for ever, since
  workers that become free do not look there (`engine_meow.cc:275`). (`EveryThunkIsDone`
  without `lost > 0`.)
- The Meow coordinator does not know the message of a failed execution and ends
  (`engine_meow.cc:114`), and ends too when a dependency was computed by a worker and is
  not on its disk (`engine_meow.cc:156`), as no such output ever is unless an earlier reduction has
  left it (`gg-meow-worker.cc:134`): every chain of thunks ends this way.
  (`EndsOnlyOnFailure` without the cases `"unexpected opcode"` and `"read_file"`.)
- A target that is finished and then read again by a thunk that another target returns is
  entered in the graph anew (`graph.cc:75-84` keeps only the last hash of a chain), and is
  reduced once more. The answer is the same, and `reduce()` waits for the other target, but
  the refinement, in which an answer stays known, does not hold.
  (`AgainTargetHashes` in MCReductor, `ImplementsReduction`.)
- A target that becomes the thunk it waited for hides it: with the targets `id(5)` and
  `id(id(5))`, `finalize_execution` looks up whose hash `id(5)` was after `force_thunk` has
  renamed the other target to it (`reductor.cc:187-195`), erases `id(id(5))`, twice, and
  never `id(5)`; with no failure at all, `reduce()` throws when nothing is left to poll.
  (`SameTargetHashes` in MCReductor, `NeverThrows`.)
- A thunk read over a renamed dependency is rewritten with its own tags
  (`graph.cc:56`) and keeps a stale reference. (`Tagged` in MCReduction,
  `ForcingNeverThrows`.)
- A thunk whose main output is a thunk and whose other output is a value loses a referrer
  that is ready at once (`graph.cc:145`). (`MixedTargetHashes` in MCReductor,
  `NeverThrows`.)
- A connection that is closed before its response has been parsed runs no callback of the
  engine (`loop.cc:117`, `254`); if it was the last one, `reduce()` throws. A closed TLS
  connection, as the Lambda and Google Cloud engines have, is not even noticed: the In action
  finds nothing to read and does not call the loop back, and after that the socket is not
  polled any more (`nb_secure_socket.cc:88`, `poller.cc:52-54`). The job keeps its slot. With
  timeouts the thunk is queued again, and can be executed if there is another slot; without
  them, or with all slots taken, `reduce()` polls for ever. (The fault `"closed"`,
  `NeverThrows`; the fault `"silent"`, `Terminates` without `WaitsInVain`;
  `EveryRequestSettles` without `ClosedEarly`. With `TimeoutsOn = FALSE` TLC reports the wait
  as a deadlock.)
- A socket error retries the job but keeps the slot of the engine
  (`engine_lambda.cc:112`); when all slots are lost `reduce()` throws. (The fault
  `"socket"` left out of what `NeverThrows` excuses.)
- gg-execute without `--timelog` and not sandboxed aborts at the first thunk it executes
  (`gg-execute.cc:84`), and the execute server starts it that way.
- The Lambda handler answers with success whenever the cache has the outputs, also after a
  gg-execute that failed to upload them (`main.py:126`). (`HonestIfUploaded` without its
  condition.)
- A SIGCHLD that is left over when no child is managed makes the loop throw if a connection
  keeps it polling (`loop.cc:312`). It takes a child that ends while the handler of an earlier
  SIGCHLD has yet to look at it: it is reaped, and its own SIGCHLD is read in the next round.
  A reduction on a local and a remote engine can end this way with no failure at all.
  (`OnlyFailuresThrow` with connections; `NeverThrows` without `SignalLeftOver`.)
- The Redis client takes an error reply to a SET for success (`redis.cc:86`), so the index
  can list what is not stored. (`IndexIsTrue` without its condition.)
- An S3 download whose last two responses come in one read examines one of them and goes on
  only when the service closes the idle connection (`s3.cc:234`). If a connection is closed
  while a request is pending, the thread reads the end of the stream for ever
  (`s3.cc:165`). (`EveryRunEnds` without `"early"`; fairness without the idle close.)
- A connection that is reset between `poll()` and its callback brings the loop down with all
  the other connections (`loop.cc:115`). A TLS request that does not fit into the send
  buffer at once can meet the In callback in a state it does not know
  (`nb_secure_socket.cc:85`), because `SSL_connect` returning -1 counts as connected
  (`secure_socket.cc:98`). (The disjuncts of `ThrowsOnlyWhen`.)
- A tracee that is killed while it is paused, `exec` by a thread that is not the leader,
  a death that `waitid` does not report as a stop, a SIGTRAP that a tracee raises itself, a
  signal that a new process gets before its first stop, and an `open` whose path cannot be
  read make the tracer's loop throw (`tracer.cc:78`, `197`, `62`, `203`, `invocation.cc:33`).
  (`Faults` of the run, `OnlyFaultsThrow`.)
- The dependency cache of the gcc model does not notice a header that is added to a
  directory in front of the one that had it (`preprocessor.cc:165`). Only files that should
  hold the added header are affected. (`SameAsEager` without `Shadowed`.)
- The name that the gcc model makes for the first output of a command is kept for the inputs
  that follow (`gcc.cc:782-793`): `gcc -c x.s y.s` exits with success, its thunk for `y.s`
  overwrites the one in `x.o`, and `y.o` is not written. The fourth command of `MCGCC` is of
  this kind. (`SameAsEager` without `misnamed`.)
- The model makes the default name of an output from the name of the intermediate file if
  there were stages before, which has no extension, and throws: `gcc -c x.c` and
  `gcc -c x.S` are refused (`gcc.cc:786`, `gcc-base.cc:61-73`), as is `gcc -E x.c`
  (`gcc.cc:783`). Several sources with `-o` are refused even when they are linked
  (`gcc.cc:747`). The first three are `Refuse` in the model, the last one does not `Start`; in
  the build with the compiler they do not happen either. `-S` on an assembler file with
  directives is not refused: it preprocesses and writes nothing, and `gcc` in the model does
  the same (the compiler writes to the standard output).
- gg-force reads `--timeout-multiplier` as `-T`, and its short options lack `f:` and `m:`
  (command lines are not modelled).

### Bounds

`MaxFaults` bounds the failures of a behaviour (one, of any kind, in `reductor`: it can hit
a duplicate or its original); `MaxQueue` is the length of the queue up to which late jobs
are duplicated (with 1, a late job is queued again while its first copy is in flight, and
again when the second one is late as well); `JobId` has four names, as many as the engines'
limits together: the TLS and the TCP engine take one job each, so that full engines happen,
and the local one two, so that a child can end while another one is being reaped. The
programs are the smallest that share a thunk between targets, read two outputs of one thunk,
rename a thunk twice, and return thunks over dependencies in each
state. GGExecute has two processes, one of which comes to the other's thunk as its second
one; one thunk has two outputs, one of which the other thunk produces too. What needs more
processes is proved for any number of them. RemoteHandler has three requests, the first and
the last for the same thunk. ExecutionLoop has three children, one of them added with
`throw_if_failed`, and `MaxStops` = 2: two children make a left-over signal, the third one a
round that goes on. MeowEngine has four thunks, three over shared objects and one that
reads what the first of them computes, and `MaxWorkers` = 3 (a worker beyond `MaxWorkers`
does not connect). JobTimeouts has two jobs on one slot, so that one waits while the
other is late, and `Width` = 3 with `MaxTime` = 9, in which the counter wraps; the theorems
are for any values. GGForce has three dependencies and two targets, so that two threads or
batches of two leave a short last batch, bodies of two bytes, so that a read may end within
one, and two runs, the second of which meets what the first left. Connections has a send
buffer of one unit and requests of more than that; `Cuts` are the places where an answer
may be cut: between CR and LF, before the body, within a chunk's header, before the last
LF. Tracer has three processes: a parent, a child and a grandchild or sibling; `MaxCalls`
= 2 lets a child open what its parent wrote, and one new version of the file is enough for a
placeholder that comes back. GCCModel has a C source and two assembler sources, one header
in two include directories, of which the first one's is added, seven commands of which two
are refused and two differ in the order of the directories only, `MaxJobs` = 2, and one edit.
Deadlock is checked in every run but `meow`, where the engine really may stop after a failed
launch, and `tracer`, whose loop ends: elsewhere whatever is finished or has failed stutters
explicitly.

### Fairness

In `reductor`, the coordinator is one thread that is always runnable when it is not in
`poll` (weak fairness of its loop). While children run, one of them ends at last (weak). A
SIGCHLD is read, and while there are connections that are not silent, one of them is answered
at last, in some way; both are strong because `reduce()` enters and leaves the poller, and
justified because a poll services the signals and every ready descriptor before it returns.
Nothing is assumed of a silent connection, so `Terminates` has to allow for the wait
(`WaitsInVain`). The fairness is stated on light actions (`Loads`, `LooksAtNext`, `IsAnswered`,
`Exits`) that say which of the variables `loaded`, `todo` and `jobs` moves; they are enabled
exactly when the actions they stand for are. Failures are bounded, as without a bound nothing
could be
promised. In `execute` the operating system runs every process that is not blocked (weak
fairness per process); a lock is taken as often as there are thunks, so weak fairness
suffices although others may be served first. In `handler` the platform delivers requests
and runs the instance (weak); nothing is assumed of its time limit. In `loop` the loop's
thread runs and whoever stops it continues it, and a child that is allowed to run ends
(weak). In `meow` the Reductor forces what it can, launched workers connect, messages arrive
and gg-execute ends (weak); nothing is assumed of failures. In `transfer` gg-force's main
thread and the clients' threads run whenever they are not waiting for the service, and the
service answers what it has received and does not keep an idle connection open for ever
(weak); in `connection` the loop's thread runs, and the peer accepts, reads and answers what
it is sent (weak), while nothing is assumed of closes and resets. Both state the fairness of
a step with many parts as "infinitely often not ready, or infinitely often moved", which is
weak fairness written without ENABLED. In `tracer` the processes of the build and the
gg-forces run and end, and `waitid` reports every event sooner or later (weak); processes
end because `MaxCalls` bounds their calls. `timeouts` and `gcc` check safety only.

## Proofs

`ReductorProofs` proves, for every value of the constants that meets the named
assumptions (finitely many thunk contents and job names, limits of at least one):

- `TypeCorrect`: `Spec => []TypeOK`;
- `EnginesNeverOvercommitted`: `Spec => []NeverOvercommitted`.

The inductive invariant `Inv` is the conjunction of the two. Neither part is inductive
alone: decrementing a counter keeps it a natural number only because the counter is at
least the number of open requests on that engine, and counting those needs the types.
The argument for the graph is that `force_thunk` enters finitely many thunks: those
read from disk and one per referrer that became executable, all of which the graph held
(`ReadyIsFinite`, which uses that the lookups did not fail). Then the orders in which
the next thunks are queued are sequences, and the queue stays one.

`ReductionProofs` is about the graph and its client's view, Reduction, for any targets:

- `ReadyIsHandedOut`: `PlainPrograms => (Spec /\ []KnownThunks => []HandedOut)`;
- `ReferencesAreKept` and `ForcingIsSafe`: `PlainPrograms /\ AllTagsReturned => (Spec /\
  []KnownThunks /\ []NothingMergesNow => []P)`, with `NoLostReference` and
  `ForcingNeverThrows` for `P`.

The hypotheses, in Reduction. `KnownThunks`: the constant `Thunk` is what it is declared to
be, the set of all thunks that come to exist. `PlainPrograms` is about the thunks of the
program: their tags are among the outputs of what they read, and executing one yields
values, or a single thunk that reads main outputs only. The last two are needed, as the code
loses referrers or keeps old hashes otherwise (`graph.cc:145` and `:56`, see above).
`AllTagsReturned`: a thunk returns the outputs it lists, under their tags (otherwise a reader
keeps waiting for a thunk that is gone). `NothingMergesNow`: forcing a thunk that is
executable now does not make two thunks of the graph one. It is needed, as `update_hash`
overwrites the list of referrers when a renamed thunk takes a hash that the graph already has
(`graph.cc:98`), which is what `reduction_converging` shows; it is a hypothesis on states
since whether two thunks of a program become equal depends on when each is forced. MCReduction
and MCReductor have TLC evaluate `PlainPrograms` and `AllTagsReturned` for the programs of
their runs; `KnownThunks` and `NothingMergesNow`, added to the invariants, hold in every state
of `reduction.cfg` and (as `Abstract!KnownThunks` and `Abstract!NothingMergesNow`) of
`reductor.cfg`, and the latter fails in `reduction_converging.cfg`.

`ReductionInv`, the inductive invariant of the first, says that the pending thunks are the
executable ones, that nothing has been renamed while targets are loaded, and that the graph
is `Sound` and holds an executable thunk under its own hash (`OwnContent`). `Sound` is what
makes it inductive. It has three parts: the content of an entry has the outputs of the thunk
it is entered as (`AllNamed`); it can be executed if and only if the hash it is entered under
can (`Aligned`), so that "executable" is a matter of names; a listed referrer is in the graph
and still waits for what it is listed under (`Referenced`), so that an executable thunk is
nobody's referrer. `force_thunk` is followed step by step: adding the returned thunk,
replacing the old one (by values or by a thunk), renaming the referrers that have become
ready. In between the graph is not `Aligned`; `ForceSound` says that it is at the end, and
that the thunks which are executable now were so before or are handed out. That
`order_one_dependencies` finds all executable ones among the thunks just read is
`LoadedBelow`: all of them are below the returned thunk.

The other two need that the graph is `Complete` as well: who waits for a thunk is listed as
its referrer and that thunk is in the graph, which is the converse of `Referenced`. Renaming
the ready thunks keeps that whatever the order, if their new hashes are new and different
(`RenameReadyComplete`); a returned thunk keeps it as it is read with all it waits for
(`AddThunkComplete`, `ForceThunkComplete`). Then no lookup of `force_thunk` can fail.

`ReductorProofs` takes these results through the instance `Forcing`, which reads Reduction
through the mapping of ReductorRefinement (`Same...` lemmas: the instance's operators are the
graph's; `InstanceAssumptions`: what the instance assumes of its constants holds), and proves:

- `JobsAreNotForgotten`:
  `Forcing!PlainPrograms => (Spec /\ []Forcing!KnownThunks => []NoJobForgotten)`;
- `ReductorHandsOutReady`, `ReductorKeepsReferences`, `ReductorForcesSafely`: the three
  invariants above of the Reductor's graph, queue and running jobs, under the same hypotheses;
  the first one until `reduce()` throws.

They need less than the refinement below, and they cover what Reduction leaves out: the same
thunk queued and in flight several times, results that come when the graph has gone on, jobs
that nobody will answer; one on a silent connection still counts as in flight. `JobInv` says
that what has been handed out can be executed, that the cache is true (`CacheIsTrue`), that
nothing has been renamed while targets are loaded, that
executable thunks are queued or in flight (`Covered`), and that the graph is `Sound`.
`ReductorHandsOutReady` holds under every failure, also a connection that is closed early: its
job stays in `running_jobs_` although nobody will answer it. It excepts states after an
exception, since `finalize_execution` takes its job off that list before it forces the thunk.
`GraphSteps` reduces the Reductor's actions to three kinds for these proofs: a target is
loaded, a result is finalized, or the graph stays and nothing handed out is dropped.

It goes on with the two results that say most about `reduce()`:

- `ReductorImplementsReduction`: `Forcing!PlainPrograms /\ Forcing!AllTagsReturned => (Spec /\
  []Forcing!KnownThunks /\ []Forcing!NothingMergesNow /\ []Forcing!NothingComesBackNow =>
  ImplementsReduction)`, the refinement for any targets, engines, capacities and faults;
- `ReductorThrowsForACause`: the same hypotheses with `EnginesSuffice` imply `[]NeverThrows`.

`NothingComesBackNow` is the one more hypothesis on states: forcing a thunk that is executable
now makes no referrer the thunk it waited for, and what it returns reads no target that has
been reduced and waits for nothing that waits for it. Without it an answer that is known
becomes unknown again, or a target is erased under another one's name (both see above; the
programs named there violate it). Added to the invariants, it holds in every state of
`reduction.cfg` and (as `Abstract!NothingComesBackNow`) of `reductor.cfg`. `EnginesSuffice`
says that an engine is configured for every thunk; otherwise `reduce()` throws for that
reason. MCReductor has TLC evaluate it for the engines of its run.

The step from the graph to the answers is `Followed`: the graph leads from each target that
remains to its present hash and back, and from no other entry to a target. `ForceFollowed`
says that forcing a thunk keeps this for the targets that remain, which is where a chain of
renamed targets would break it. `TargetInv` joins it with what `reduce()` will find in the
cache: while targets are loaded nothing has been renamed, afterwards the graph follows the
remaining targets, and a target that no longer remains has its final answer in the cache. Then
each step of the Reductor maps to `Load`, to one `ForceThunk`, or to nothing
(`StepImplements`; a duplicate's answer maps to nothing). The instance's operators are
Reduction's read with other constants, and the `Abstract...` lemmas identify them one by one.

That `reduce()` throws only for a cause needs that it never waits in vain. As long as a target
remains the graph is not empty; a graph without cycles has an executable thunk
(`AcyclicIsReady`), which is queued or in flight (`NoJobForgotten`). `LoadAcyclic` and
`ForceAcyclic` show that cycles do not come up: thunks on disk have fewer and fewer thunks
under them (`DiskIsAcyclic`), renaming a ready thunk makes no new dependency, and
`NothingComesBackNow` keeps what it waits for from waiting for it in turn. `ThrowInv` adds
that what is queued is known to the graph or the cache (`KnownJobs`), and that, until a slot
or a job is lost, each counter is the number of open requests and the loop polls with a queue
only if a request is open (`WaitsForJobs`). A silent connection is an open request for this.
The steps that leave the graph, the queue and the counters alone (`QuietStep`: a child ends, a
signal is read, the handler comes to a child, a connection falls silent or throws) are
treated together; those of them that throw have recorded their failure, or have found a
SIGCHLD and no child (`QuietHasCause`).

`LoopProofs` proves of ExecutionLoop, for any number of children and connections:

- `LoopTypeCorrect`: `Spec => []TypeOK`;
- `LoopLosesNothing`: `Spec => []NothingIsLost`, however SIGCHLDs coalesce;
- `LocalLoopThrowsOnlyOnFailure`: `OnlyFailuresThrow` if there are no connections, an
  assumption that is needed (see above);
- `LoopLeavesNoOrphans`: `Spec => []NoOrphans`.

`LoopInv` adds to `TypeOK` that the round is over when the loop polls and that a child
has nothing to report before it is started; `NothingIsLost` is inductive relative to it.
`OrphanInv` adds, for the destructors, that a child is taken off the list only when it is
dead, and that whoever is stopped is known to be suspended or is about to report it; so
`Terminate` resumes all whom the signal would not reach, and `wait()` returns.

`ExecutionProofs` proves for any number of processes, thunks and outputs:

- `ExecuteTypeCorrect`: `Spec => []TypeOK`;
- `LockIsExclusive`: `Spec => []LockExcludes`, which speaks of setups in which nobody
  rewrites a thunk's file;
- `BareHashIsTheLastEntry` and `WhatIsFinishedIsEntered`: `Spec => []BareEntryIsLast` and
  `Spec => []FinishedIsEntered`, which speak of setups without resets, with kills and
  failures anywhere.

The setup never changes (`SetupStays`). Each action is first reduced to the kind of step
it makes (`NextKind`), as far as the lock and the entries go; the invariants are proved
from the eight kinds. `LockInv` says that all open files are the first ones. `EnterInv`
says what the entering loop has done so far: the outputs after its index are entered,
and all of them once it is over, also those of the process' earlier thunks.
`BareEntryIsLast` is not inductive without it.

`LoopProofs` proves of JobTimeouts, for any finite set of jobs, any timeouts, capacity,
interval and width of the counter, whatever the bound on the clock:

- `DuplicatesRationed`: `Spec => []DuplicatesAreRationed`;
- `TimeoutBounded`: `Spec => []TimeoutStaysBounded`.

`TimeoutsInv` has a part for jobs that run and one for the others. A duplicate of a running
job is paid for by the time from its first start to its last one (`OneMoreDuplicate`), which
`DuplicatesAreRationed` does not mention; a timeout grows only when more time than it has
passed, so one growth is at most `Width` times that (`GrowthIsBounded`). With `Width` = 256
this is why the 8-bit counter that starts at its maximum does no harm.

`ExecutionProofs` goes on with `WhatIsEnteredIsOnDisk` (`EntriesHaveBlobs`) and
`WhatIsFinishedIsStored` (`FinishedIsStored`). `BlobInv` adds that outputs are on disk from
the moment they have been moved until they are entered; without that an entry could come
before its blob. `SentInv` says what the uploading loop has sent so far and that all earlier
thunks of the process are stored; it needs nothing of the cache, which is why kills, resets
and cleanups do not matter.

Of the handlers, which run gg-execute, it proves for any number of requests to an instance
that serves one at a time:

- `LambdaFindsItsBlobs`: `HandlerSpec => []AnswerFindsBlobs`;
- `FatalVerdictsHaveCauses`: `HandlerSpec => []FatalHasACause`;
- `SuccessIsUploaded`: `HandlerSpec => []HonestIfUploaded`.

`HandlerAssumption` says what `main.py` does: one thunk per request, and gg-execute is told to
fetch, to upload and to clean up. No theorem restricts the setups further; the conditions are
in the properties. `FatalHasACause` lists what may end the whole computation and says that a
thunk which was executed to its end is never among it: what it rules out is that entries of
earlier requests, or a fetch, an upload or a lock that fails, make a failure fatal that could
be retried, except where it says so.

`HandlerInv` ties the directories to the request that is being served: on Lambda all
entries are its own, and were made when its cleanup was over; on Google Cloud an entry was
made for a request that has come (`Origin`), so that those of a thunk that is requested for
the first time are its own as well (`OwnEntries`), and the outputs of a process that is past
its execution are on disk (`Having`). `UploadInv` says of every
entry that its outputs are stored or that the request which made it is still on the way to
uploading them. The properties speak of answers only, and none of them is inductive
without these.

`MeowEngineProofs` proves for any number of thunks, dependencies and workers:

- `MeowConservesJobs`: `Spec => []JobsConserved`;
- `MeowRemembersRightly`: `Spec => []DepsInPlace`;
- `MeowEndsOnlyOnFailure`: `Spec => []EndsOnlyOnFailure`, whatever is on the coordinator's
  disk: if it ends because a file is missing, there is a thunk under way that reads an object
  which it does not have.

`MeowInv` gives each worker its place in a conversation: idle, asked (objects and then the
thunk are under way), working, answered. From it follows that no message finds the
coordinator in a state it does not expect; that a thunk is in one place only makes the
counts add up.

`TracerProofs` proves for any number of processes and threads, calls, versions of the file
and faults:

- `TracerForcesBeforeOpen`: `Spec => ForcedBeforeOpen`, an action property;
- `TracerThrowsOnlyOnFaults`: `Spec => []OnlyFaultsThrow`.

`LookInv` says that the tracer never takes the exit of a call for an entry (`InStep`), that
a thread is held as long as its gg-force runs (`Held`) and that the file is fresh when it is
let in (`LetIn`). It holds under all faults. The second theorem is about what is left when the
faults of `FaultKinds` are set aside, each of which makes the loop throw at a line of the code
(see above): the order of reports, detached processes, paused tracees and gg-forces.
`QuietInv` is about the time before the first fault: every process is its own leader, every
tracee is known unless its first stop is still
to be reported, and a gg-force has somebody paused who waits for it.

`ConnectionsProofs` proves for any number of requests, over TCP and TLS, of any size, with
any faults of the network:

- `CallerHearsRightly`: `Spec => []CallbackIsRight`;
- `LoopThrowsOnlyWhen`: `Spec => []ThrowsOnlyWhen`.

`ConnInv` has a part for the round (In is the last callback of its socket; what poll() saw
broken is broken), one for the transport (the request is unwritten, in the send buffer or
with the peer, and nothing leaves before the handshake is done), one for the parser (until
the caller hears, it has been given all that has arrived but for one piece), and one for the
callers that have heard (their sockets are about to be removed and not serviced again, but
for an error shared by two actions). That the parser is right about each response is assumed
(`ParsersAssumption`); of the answers of a storage service it is proved, as follows.

`GGForceProofs` proves, for any dependencies and targets, backends, numbers of threads and
batch sizes, and however many failures and runs there are:

- `ForceIndexIsTrue`: `Spec => []IndexIsTrue`;
- `ForceUploadsDependencies`: `Spec => []DependenciesUploaded`;
- `ForceFilesAreRight`: `Spec => []FilesAreRight`.

`ForceAssumption` only gives the constants their types. What is taken from the model is the
form of an answer: an object of two bytes, a refusal in chunks, and a service that answers
the requests of one connection in order.

None of the three is inductive: that the response at the front is the answer to the request
which `count` points at is a fact about all that the connection has carried. `S3Batch` says
it with witnesses, since the model does not keep what has been read: a stream `S` of `n`
answers, the k-th of them to the k-th request of the batch, and the number `end` of tokens
that have been read. The rest of `S` is `wire` (a prefix of it once the connection is
closed), the requests after the n-th are `asked`, and `Follows` places the parser in `S`: it
is `off` tokens into the k-th answer (`InMessage`: the state, the headers and the part of the
body that belong there; `InRefusal`: the chunk parser, which keeps what it cannot use yet in
a buffer of its own); `complete` holds the answers from the one that is counted next up to the
one before the k-th, and `requests` says how many are left. `ParsesMore` says that
`parse()` keeps this for any piece of the stream. Its loop is followed step by step
(`StepTakes`, `KnownBodyTaken`, `ChunkedBodyTaken`) by induction on the number of iterations,
with a measure that shows that `StepsFor` are enough; where a piece ends between CR and LF,
within a chunk or after several answers does not matter. `FollowsGrows` and `ResponsePopped`
do the same for `Serve` and for `pop`. `RedisBatch` is the same for replies that come whole.

`ThreadOK` joins the batch with what a thread has behind it: the requests at its stride are
`Covered` (the object is in the service, or has been refused) as far as it has counted, and
all of them when it is done. With `ThreadsOf`, that there is a thread for each stride that is
not empty, `TransferCovers` gives all requests when all threads are done. `ForceInv` adds what
the index, the blobs and the targets hold, that each dependency is listed or among the
requests, and that each target that is still a placeholder has its turn to come. An upload
with S3 that counts a success has read status 200, so the object is in the service; the proof
does not go through for Redis, whose client counts an error reply too, and `IndexIsTrue` leaves
it out.

Working on the proofs changed the models in these places. `LeastClosed` of ExecutionGraph
gave everything instead of nothing for a hash that the graph already holds, which no run
had reached; `add_thunk` returns early there. The assumption on `Subthunks` says that no thunk
is among those that its dependencies are built from, as hashes guarantee and the proofs
about loading need. `pick_lambda` of MeowEngine is a set of
choices, and the number of workers is bounded where they connect. The lists of the poller
are written as functions on their indices, since the provers cannot unfold `SelectSeq`; for
the same reason GGForce picks from a sequence with `At`, and a batch is the set of the
iterations of its loop instead of the positions they reach. `StepsFor` and the chunk parser's
loop are bounded by the length of the buffer.

Only model-checked: liveness and everything that rests on ENABLED; `MeaningPreserved`,
`ReturnsRightAnswers` and `SameAsEager`, which compare with a recursive evaluation
(`Denote` of MCPrograms and `Value` of GCCModel, in modules that no theorem reaches): that a
rewritten thunk means what it meant would need an induction over data.

## Plan

In order:

1. *(done)* ExecutionGraph, Reduction, Reductor, ReductorRefinement, first theorems.
2. *(done)* **GGExecute** and **RemoteHandler**; the theorems on the lock and the entries.
3. *(done)* **ExecutionLoop** and its theorems.
4. *(done)* **MeowEngine**.
5. *(done)* **JobTimeouts** and its theorems.
6. *(done)* **HTTPParser**, **GGForce** with the storage clients, **Connections**.
7. *(done)* **Tracer** and **GCCModel**.
8. An abstract **Engine** (a job ends once, with an answer, a failure or not at all) that
   the request engines and MeowEngine implement, and that the Reductor could use; an
   abstract transfer that the clients of GGForce and `FetchOne` and `UploadOne` of GGExecute
   implement.
9. The HTTP front of gg-execute-server composed with ExecutionLoop; the framing of Meow
   messages; dependencies that the gcc model defers.
10. *(done)* The theorems on stored and entered outputs, on the handlers, Meow, the tracer
    and the connections.
11. *(done)* Proofs on the graph: that `force_thunk` makes executable only what it hands
    out and what was executable before, and that `order_one_dependencies` finds all that
    `add_thunk` has made executable; from these `NoJobForgotten` of the Reductor.
12. *(done)* The graph invariants of Reduction: `HandedOut` under the assumptions of
    `JobsAreNotForgotten`; `NoLostReference` and `ForcingNeverThrows` if, besides, thunks
    return the outputs they list and contents do not converge.
13. *(done)* The refinement of Reduction as a theorem, and that `reduce()` throws for a cause
    only, under the hypotheses of 12 and if nothing comes back that has been reduced.
14. *(done)* The parser on streams of answers cut anywhere, and from it the three
    invariants of GGForce.

## Not modelled

- The models of ld, ar, nm, strip and ranlib (one thunk per command, the linker's part
  of gcc is modelled), the gcc model's deferred dependency generation, `-MF` outputs and
  option parsing.
- The sandbox's table of allowed calls and paths, and the decoding of system call arguments:
  tables, without state.
- The HTTP front and the answers of gg-execute-server, request parsing, the framing of Meow
  messages, TLS on accepted connections.
- Protobuf conversion and validation, cost estimates, status output, command lines.
- Vendored and generated code. It is most of the repository's lines: the Jiffy and Thrift
  headers under `src/net/include`, and the table of system calls. The share of all
  implementation lines that a definition here stands for is small for that reason; of gg's
  own files that keep state, the ones above are the ones left out.

Values of hashes, sizes and times (outside JobTimeouts) are abstract.
