------------------------------- MODULE GCCModel -------------------------------
(***************************************************************************)
(* The gcc front end (src/src/models/gcc.cc, gcc-base.cc, preprocessor.cc, *)
(* linker.cc, src/src/thunk/factory.cc): in place of running the compiler  *)
(* it writes one thunk per stage and leaves a placeholder where the output *)
(* belongs. A build runs such commands, at times two of them together, and *)
(* edits its sources in between; gg-force may replace any placeholder by   *)
(* its value. `real' is the same build with the compiler itself.           *)
(*                                                                         *)
(* A hash is the object that it stands for, a file name is a base and an   *)
(* extension.                                                              *)
(***************************************************************************)
EXTENDS Integers, Sequences, SequencesExt, FiniteSets

CONSTANTS
    Names,      \* the files of the build
    Sources,    \* those that no command writes
    Edited,     \* those that the user edits or adds
    Added,      \* those of them that are not there at first
    Headers,    \* the header as it is found in each include directory
    Commands,   \* the commands of the build, as GCCArguments has parsed them
    MaxEdits,   \* bound: number of edits
    MaxJobs     \* bound: number of commands that run together

ASSUME GCCModelAssumption ==
    /\ Sources \subseteq Names /\ Edited \subseteq Sources
    /\ Headers \subseteq Sources
    /\ \A c \in Commands : Range(c.include) \subseteq Headers
    /\ MaxEdits \in Nat /\ MaxJobs \in Nat

VARIABLES
    files,      \* content of each file
    real,       \* content of each file when every command runs the compiler
    cache,      \* the dependency cache, by the content of the source
    locally,    \* GG_GCC_PREPROCESS_LOCALLY
    jobs,       \* the commands that run, each with its generator
    edits,      \* number of edits so far
    shadowed,   \* cached sources in front of whose header another one was added, which
                \* the entry does not show
    misnamed    \* what comes of commands that make several outputs

vars == <<files, real, cache, locally, jobs, edits, shadowed, misnamed>>

PREPROCESS == 1
COMPILE == 2
ASSEMBLE == 3
LINK == 4

Absent == [kind |-> "absent"]
None == [base |-> "", ext |-> ""]

(***************************************************************************)
(* gcc-base.cc                                                             *)
(***************************************************************************)
ext_to_lang == [c |-> "C", i |-> "CPP_OUTPUT", s |-> "ASSEMBLER", S |-> "ASSEMBLER_WITH_CPP",
                o |-> "OBJECT", a |-> "ARCHIVE_LIBRARY"]

filename_to_language(name) == ext_to_lang[name.ext]

language_to_stage(lang) ==
    CASE lang \in {"C", "ASSEMBLER_WITH_CPP"} -> PREPROCESS
      [] lang = "CPP_OUTPUT" -> COMPILE
      [] lang = "ASSEMBLER" -> ASSEMBLE

is_non_object_input(input) == input.language \notin {"OBJECT", "ARCHIVE_LIBRARY"}

stage_output_name(stage, base) ==
    [base |-> base, ext |-> CASE stage = PREPROCESS -> "i"
                              [] stage = COMPILE -> "s"
                              [] stage = ASSEMBLE -> "o"]

\* What the compiler makes of a file in one stage. Only the preprocessor looks for
\* the header, in the include directories in their order; it takes the first it sees.
Found(include, seen) == SelectSeq(include, LAMBDA h : h \in seen)

Compiled(stage, content, include, seen) ==
    LET found == Found(include, DOMAIN seen)
    IN  [kind |-> "compiled", stage |-> stage, of |-> content,
         header |-> IF stage = PREPROCESS /\ found # << >> THEN seen[Head(found)] ELSE Absent]

Linked(contents) == [kind |-> "linked", objects |-> contents]

\* What a thunk evaluates to, when gg-force reduces it and its dependencies.
RECURSIVE Value(_)
Value(object) ==
    CASE object.kind = "thunk" ->
            Compiled(object.stage, Value(object.infile), object.include, object.deps)
      [] object.kind = "link thunk" ->
            Linked([i \in DOMAIN object.infiles |-> Value(object.infiles[i])])
      [] OTHER -> object

\* What a file holds, or will hold once it is forced.
Meaning(content) ==
    IF content.kind = "placeholder" THEN Value(content.hash) ELSE content

Placeholder(hash) == [kind |-> "placeholder", hash |-> hash]

-----------------------------------------------------------------------------
(***************************************************************************)
(* The compiler itself, on the files f: what the command c would write.    *)
(***************************************************************************)
Present(f) == {n \in Names : f[n].kind # "absent"}

HeadersIn(f) == [h \in Headers \cap Present(f) |-> f[h]]

\* The stages of the command for an input file, in order; assembler with directives is
\* not compiled, and with -S only preprocessed, to the standard output.
StagesOf(lang, last) ==
    LET first == IF lang \in {"OBJECT", "ARCHIVE_LIBRARY"} THEN LINK ELSE language_to_stage(lang)
    IN  SelectSeq(<<PREPROCESS, COMPILE, ASSEMBLE>>,
                  LAMBDA s : s >= first /\ s <= last /\ ~ (lang = "ASSEMBLER_WITH_CPP" /\ s = COMPILE))

Compile(c, f, name) ==
    LET Step(content, stage) == Compiled(stage, content, c.include, HeadersIn(f))
    IN  FoldLeft(Step, f[name], StagesOf(filename_to_language(name), c.last))

OutputOf(c, i) ==
    IF c.output # None THEN c.output
    ELSE IF c.last = LINK THEN [base |-> "a", ext |-> "out"]
    ELSE stage_output_name(c.last, c.inputs[i].base)

gcc(c, f) ==
    IF c.last = LINK
    THEN [f EXCEPT ![OutputOf(c, 1)] =
             Linked([i \in DOMAIN c.inputs |-> Compile(c, f, c.inputs[i])])]
    ELSE [n \in Names |->
             LET made == {i \in DOMAIN c.inputs :
                            /\ OutputOf(c, i) = n
                            /\ Contains(StagesOf(filename_to_language(c.inputs[i]), c.last), c.last)}
             IN  IF made = {} THEN f[n]
                 ELSE Compile(c, f, c.inputs[CHOOSE i \in made : TRUE])]

-----------------------------------------------------------------------------
(***************************************************************************)
(* ThunkFactory and the dependency cache                                   *)
(***************************************************************************)

\* ThunkFactory::Data: the thunk that a placeholder names, or the file.
Data(name) == IF files[name].kind = "placeholder" THEN files[name].hash ELSE files[name]

\* gcc -M on the source: the header it will find.
MakeDeps(job) ==
    LET found == Found(job.command.include, Present(files))
    IN  IF found = << >> THEN << >> ELSE [h \in {Head(found)} |-> files[h]]

matches_filesystem(deps) == \A h \in DOMAIN deps : files[h] = deps[h]

\* makedep_fn: the command line, without the outputs, the other inputs and the stage.
\* The cache is looked up by the content of the source, so its name need not be here.
DepgenArgs(job) == job.command.include

\* Mutant of CacheHit: the files named in the entry are not looked at again.
CacheHitStale(job, source) ==
    /\ source \in DOMAIN cache
    /\ cache[source].args = DepgenArgs(job)

\* Mutant of CacheHit: the command line is not looked at.
CacheHitAnyArgs(job, source) ==
    /\ source \in DOMAIN cache
    /\ matches_filesystem(cache[source].deps)

\* An entry serves when it was made by the same command line and every file in it is
\* as it was.
CacheHit(job, source) ==
    /\ source \in DOMAIN cache
    /\ cache[source].args = DepgenArgs(job)
    /\ matches_filesystem(cache[source].deps)

generate_dependencies_file(job, source) ==
    IF CacheHit(job, source) THEN cache[source].deps ELSE MakeDeps(job)

CacheWith(job, source) ==
    IF CacheHit(job, source) THEN cache
    ELSE [s \in DOMAIN cache \cup {source} |->
             IF s = source THEN [args |-> DepgenArgs(job), deps |-> MakeDeps(job)] ELSE cache[s]]

-----------------------------------------------------------------------------
(***************************************************************************)
(* GCCModelGenerator::generate. A job is at one stage of one of its        *)
(* inputs; stage 0 is before the input has been looked at.                 *)
(***************************************************************************)
InputFile(name) ==
    [name |-> name, language |-> filename_to_language(name),
     source_language |-> filename_to_language(name), indata |-> Absent]

NewJob(c) ==
    [command |-> c, final_output |-> c.output, index |-> 1, stage |-> 0,
     inputs |-> [i \in DOMAIN c.inputs |-> InputFile(c.inputs[i])]]

Writes(c) == {OutputOf(c, i) : i \in DOMAIN c.inputs}
Reads(c) == Range(c.inputs)

\* make -j: commands that run together do not depend on each other.
Independent(c, d) ==
    /\ Writes(c) \cap (Reads(d) \cup Writes(d)) = {}
    /\ Writes(d) \cap Reads(c) = {}

source_inputs(c) == Cardinality({i \in DOMAIN c.inputs : is_non_object_input(InputFile(c.inputs[i]))})

\* Only one source may come with -o: generate() throws before it does anything.
TooManySources(c) == source_inputs(c) > 1 /\ c.output # None

Start(c) ==
    /\ Cardinality(jobs) < MaxJobs
    /\ \A j \in jobs : Independent(c, j.command)
    /\ Reads(c) \subseteq Present(files)
    /\ ~ TooManySources(c)
    /\ jobs' = jobs \cup {NewJob(c)}
    /\ UNCHANGED <<files, real, cache, locally, edits, shadowed, misnamed>>

Becomes(j, k) == jobs' = (jobs \ {j}) \cup {k}

\* The next input is hashed. An object is left to the linker.
NextInput(j) ==
    /\ j.index <= Len(j.inputs) /\ j.stage = 0
    /\ LET input == [j.inputs[j.index] EXCEPT !.indata = Data(j.inputs[j.index].name)]
           k == [j EXCEPT !.inputs[j.index] = input]
       IN  Becomes(j, IF is_non_object_input(input)
                      THEN [k EXCEPT !.stage = language_to_stage(input.language)]
                      ELSE [k EXCEPT !.index = @ + 1])
    /\ UNCHANGED <<files, real, cache, locally, edits, shadowed, misnamed>>

InputLastStage(j) == IF j.command.last = LINK THEN ASSEMBLE ELSE j.command.last

AtStage(j) == j.index <= Len(j.inputs) /\ j.stage # 0 /\ j.stage <= InputLastStage(j)

InputDone(j) ==
    /\ j.index <= Len(j.inputs) /\ j.stage > InputLastStage(j)
    /\ Becomes(j, [j EXCEPT !.index = @ + 1, !.stage = 0])
    /\ UNCHANGED <<files, real, cache, locally, edits, shadowed, misnamed>>

Skipped(j) == j.inputs[j.index].source_language = "ASSEMBLER_WITH_CPP" /\ j.stage = COMPILE

SkipStage(j) ==
    /\ AtStage(j) /\ Skipped(j)
    /\ Becomes(j, [j EXCEPT !.stage = @ + 1])
    /\ UNCHANGED <<files, real, cache, locally, edits, shadowed, misnamed>>

\* An intermediate name has no extension.
Intermediate == [base |-> "output", ext |-> ""]

\* There is no default name for preprocessed output; the others need the extension of
\* the input's present name, and stay for the inputs to come.
NameFails(j) ==
    /\ j.stage = j.command.last /\ j.final_output = None
    /\ j.stage = PREPROCESS \/ j.inputs[j.index].name.ext = ""

FinalOutput(j) ==
    IF j.stage = j.command.last /\ j.final_output = None
    THEN stage_output_name(j.stage, j.inputs[j.index].name.base) ELSE j.final_output

OutputName(j) == IF j.stage = j.command.last THEN FinalOutput(j) ELSE Intermediate

LanguageAfter(input, stage) ==
    CASE stage = PREPROCESS -> IF input.language = "C" THEN "CPP_OUTPUT" ELSE "ASSEMBLER"
      [] stage = COMPILE -> "ASSEMBLER"
      [] stage = ASSEMBLE -> "OBJECT"

preprocess_this_locally(j) == locally /\ j.stage = PREPROCESS /\ j.stage # j.command.last

\* The input has become what the stage made, and the job goes on to the next stage.
StageMade(j, hash) ==
    Becomes(j, [j EXCEPT !.inputs[j.index] =
                   [@ EXCEPT !.name = OutputName(j), !.indata = hash,
                             !.language = LanguageAfter(j.inputs[j.index], j.stage)],
                !.final_output = FinalOutput(j), !.stage = @ + 1])

do_preprocessing(j) ==
    LET made == Compiled(PREPROCESS, files[j.inputs[j.index].name], j.command.include,
                         HeadersIn(files))
    IN  StageMade(j, made) /\ UNCHANGED <<files, cache>>

\* The dependencies that the thunk of a stage lists.
DepsOf(j) ==
    IF j.stage = PREPROCESS THEN generate_dependencies_file(j, j.inputs[j.index].indata) ELSE << >>

generate_thunk(j) ==
    LET input == j.inputs[j.index]
        thunk == [kind |-> "thunk", stage |-> j.stage, infile |-> input.indata, deps |-> DepsOf(j),
                  include |-> IF j.stage = PREPROCESS THEN j.command.include ELSE << >>]
    IN  /\ cache' = IF j.stage = PREPROCESS THEN CacheWith(j, input.indata) ELSE cache
        /\ files' = IF j.stage = j.command.last
                    THEN [files EXCEPT ![OutputName(j)] = Placeholder(thunk)] ELSE files
        /\ StageMade(j, thunk)

Stage(j) ==
    /\ AtStage(j) /\ ~ Skipped(j) /\ ~ NameFails(j)
    /\ \/ preprocess_this_locally(j) /\ do_preprocessing(j)
       \/ ~ preprocess_this_locally(j) /\ generate_thunk(j)
    /\ UNCHANGED <<real, locally, edits, shadowed, misnamed>>

\* generate() or split_source_name throws.
Refuse(j) ==
    /\ AtStage(j) /\ ~ Skipped(j) /\ NameFails(j)
    /\ jobs' = jobs \ {j}
    /\ UNCHANGED <<files, real, cache, locally, edits, shadowed, misnamed>>

\* Several outputs: all have the name of the first one. What is made of them is not what
\* it should be either.
ManyOutputs(c) == c.last # LINK /\ source_inputs(c) > 1

Misnamed(c) ==
    IF ManyOutputs(c) \/ Reads(c) \cap misnamed # {}
    THEN misnamed \cup Writes(c) ELSE misnamed \ Writes(c)

Objects(j) == [i \in DOMAIN j.inputs |-> j.inputs[i].indata]

\* generate_link_thunk, and the end of the command.
Finish(j) ==
    /\ j.index > Len(j.inputs)
    /\ jobs' = jobs \ {j}
    /\ real' = gcc(j.command, real)
    /\ \/ /\ j.command.last = LINK
          /\ LET thunk == [kind |-> "link thunk", infiles |-> Objects(j)]
             IN  files' = [files EXCEPT ![OutputOf(j.command, 1)] = Placeholder(thunk)]
       \/ j.command.last # LINK /\ UNCHANGED files
    /\ misnamed' = Misnamed(j.command)
    /\ UNCHANGED <<cache, locally, edits, shadowed>>

-----------------------------------------------------------------------------
\* gg-force replaces a placeholder, whatever else runs.
Force(n) ==
    /\ files[n].kind = "placeholder"
    /\ files' = [files EXCEPT ![n] = Value(@.hash)]
    /\ UNCHANGED <<real, cache, locally, jobs, edits, shadowed, misnamed>>

Version(n, v) == [kind |-> "source", name |-> n, v |-> v]

\* The entries whose header would be found after the header h.
Shadowing(h) ==
    { source \in DOMAIN cache :
        LET seen == DOMAIN cache[source].deps
        IN  seen # {} /\ Found(cache[source].args, seen \cup {h})[1] = h }

\* The user edits a source, or adds a header, while no command runs.
Edit(n) ==
    /\ jobs = {} /\ edits < MaxEdits
    /\ edits' = edits + 1
    /\ files' = [files EXCEPT ![n] = Version(n, edits + 1)]
    /\ real' = [real EXCEPT ![n] = Version(n, edits + 1)]
    /\ shadowed' = IF files[n] = Absent
                   THEN shadowed \cup { <<source, n>> : source \in Shadowing(n) } ELSE shadowed
    /\ UNCHANGED <<cache, locally, jobs, misnamed>>

Init ==
    /\ files = [n \in Names |-> IF n \in Sources \ Added THEN Version(n, 0) ELSE Absent]
    /\ real = files
    /\ cache = << >>
    /\ locally \in BOOLEAN
    /\ jobs = {} /\ edits = 0 /\ shadowed = {} /\ misnamed = {}

Next ==
    \/ \E c \in Commands : Start(c)
    \/ \E j \in jobs : NextInput(j) \/ SkipStage(j) \/ Stage(j) \/ Refuse(j) \/ InputDone(j) \/ Finish(j)
    \/ \E n \in Names : Force(n)
    \/ \E n \in Edited : Edit(n)

Spec == Init /\ [][Next]_vars

-----------------------------------------------------------------------------
\* Is this made from a cached source with a header that was added in front of the
\* cached one?
RECURSIVE Shadowed(_)
Shadowed(content) ==
    CASE content.kind = "compiled" ->
            \/ \E s \in shadowed : /\ content.of = s[1]
                                   /\ content.header.kind = "source" /\ content.header.name = s[2]
            \/ Shadowed(content.of)
      [] content.kind = "linked" ->
            \E i \in DOMAIN content.objects : Shadowed(content.objects[i])
      [] OTHER -> FALSE

\* A lazy build is the eager build: whatever was edited, cached, forced or run
\* together, every file holds, or will hold, what the compiler would have written,
\* unless
\*   - a running command writes it,
\*   - it comes of a command that makes several outputs, which all get the name of the
\*     first one (gcc.cc:781-793),
\*   - it is due to hold a header that was added in front of another one: the dependency
\*     cache does not see this (preprocessor.cc:161-186).
SameAsEager ==
    \A n \in Names :
        \/ Meaning(files[n]) = real[n]
        \/ \E j \in jobs : n \in Writes(j.command)
        \/ n \in misnamed
        \/ Shadowed(real[n])
=============================================================================
