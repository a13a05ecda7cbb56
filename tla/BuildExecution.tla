--------------------------- MODULE BuildExecution ---------------------------
(***************************************************************************)
(* One call of executeBuild (internal/zeitwork/build.go): three goroutines *)
(* and a container.                                                        *)
(*                                                                         *)
(* The preparer turns the tarball of GitHub into a build context and       *)
(* writes it, entry by entry, into an io.Pipe: a write waits for the       *)
(* reader, an error is handed to the reader by closing the pipe with it.   *)
(* The executor reads the whole context, then creates, fills and starts a  *)
(* container in the build VM, and waits for it; the logger copies the      *)
(* container's output, line by line, into the database.  Deferred calls    *)
(* remove the container and close the tarball on every way out.  A pass    *)
(* runs under a context of its own, which a shutdown does not cancel.      *)
(*                                                                         *)
(* Output is counted in half lines, so that a write of the container may   *)
(* end in the middle of a line.                                            *)
(***************************************************************************)
EXTENDS Naturals, FiniteSets

CONSTANTS
    File,       \* what the tarball may contain
    Trees,      \* tarballs: subsets of File
    MaxPings,   \* attempts to reach the docker daemon
    MaxOutput,  \* half lines a container writes
    MaxFaults   \* how many kinds of fault may happen, each of them once

FaultKind == {"call", "remove", "tar", "insert", "stream"}

ASSUME TreeAssumption == Trees \subseteq SUBSET File
ASSUME BoundAssumption ==
    MaxPings \in Nat \ {0} /\ MaxOutput \in Nat /\ MaxFaults \in Nat

VARIABLES
    pc,         \* where the executor stands
    pings,      \* attempts so far
    outcome,    \* "none" until the call returns
    row,        \* builds.status is succesful
    pushed,     \* the registry has the image
    tree,       \* the tarball
    left,       \* entries the preparer has not seen
    prep,       \* where the preparer stands
    pipe,       \* "open", "eof", "error"
    context,    \* entries the executor has received
    box,        \* the container: "none", "created", "running", "exited"
    code,       \* its exit code
    out,        \* half lines it wrote
    logger,     \* "none", "copy", "done"
    read,       \* half lines the logger received
    stored,     \* build_logs rows of the container's output
    faults      \* the kinds of fault that have happened

executor  == <<pc, pings, outcome, row>>
preparer  == <<tree, left, prep, pipe, context>>
container == <<box, code, out, pushed>>
logs      == <<logger, read, stored>>
vars      == <<executor, preparer, container, logs, faults>>

TypeOK ==
    /\ pc \in {"fetch", "docker", "prepare", "inspect", "read", "pull", "create",
               "copy", "start", "attach", "wait", "join", "remove", "record",
               "mark", "clean", "return", "end"}
    /\ pings \in 0 .. MaxPings
    /\ outcome \in {"none", "ok", "failed"}
    /\ row \in BOOLEAN /\ pushed \in BOOLEAN
    /\ tree \in Trees /\ left \subseteq tree
    /\ context \subseteq File \union {"Dockerfile"}
    /\ prep \in {"none", "gzip", "entries", "write", "inject", "close", "done"}
    /\ pipe \in {"open", "eof", "error"}
    /\ box \in {"none", "created", "running", "exited"}
    /\ code \in {0, 1}
    /\ out \in 0 .. MaxOutput /\ read \in 0 .. out /\ stored \in Nat
    /\ logger \in {"none", "copy", "done"}
    /\ faults \subseteq FaultKind

(* The build VM runs; an earlier build of the same commit may have pushed  *)
(* its image already.                                                      *)
Init ==
    /\ pc = "fetch" /\ pings = 0 /\ outcome = "none" /\ row = FALSE
    /\ pushed \in BOOLEAN
    /\ tree \in Trees /\ left = tree /\ context = {}
    /\ prep = "none" /\ pipe = "open"
    /\ box = "none" /\ code = 0 /\ out = 0
    /\ logger = "none" /\ read = 0 /\ stored = 0
    /\ faults = {}

-----------------------------------------------------------------------------
Suffer(k) ==
    /\ k \notin faults
    /\ Cardinality(faults) < MaxFaults
    /\ faults' = faults \union {k}

(* A call of the executor that succeeds and has no other effect.           *)
Step(from, to) ==
    /\ pc = from
    /\ pc' = to
    /\ UNCHANGED <<pings, outcome, row, preparer, container, logs, faults>>

(* Mutant: the removal of the container is not deferred.                   *)
WayOutUndeferred == "return"

(* From the creation of the container on, returning removes it first.      *)
WayOut == IF pc \in {"copy", "start", "attach", "wait", "join"} THEN "remove" ELSE "return"

Fail ==
    /\ pc' = WayOut
    /\ outcome' = "failed"
    /\ UNCHANGED <<pings, row, preparer, container, logs>>

CallFails ==
    /\ pc \in {"fetch", "pull", "create", "copy", "start", "attach", "wait",
               "record", "mark"}
    /\ Suffer("call")
    /\ Fail

(* The project, the token, the tarball.                                    *)
Download == Step("fetch", "docker")

(* waitForDockerReady: one attempt per second.                             *)
DockerAnswers == Step("docker", "prepare")

PingFails ==
    /\ pc = "docker"
    /\ pings' = pings + 1
    /\ IF pings' = MaxPings
       THEN pc' = "return" /\ outcome' = "failed"
       ELSE UNCHANGED <<pc, outcome>>
    /\ UNCHANGED <<row, preparer, container, logs, faults>>

PrepareBuildContext ==
    /\ pc = "prepare"
    /\ prep' = "gzip"
    /\ pc' = "inspect"
    /\ UNCHANGED <<pings, outcome, row, tree, left, pipe, context, container, logs, faults>>

(* skopeo inspect: any error counts as "not there", and then the context   *)
(* is read; if the image is there, nobody ever reads it.                   *)
Inspect ==
    /\ pc = "inspect"
    /\ \/ pushed /\ pc' = "record" /\ UNCHANGED faults
       \/ ~pushed /\ pc' = "read" /\ UNCHANGED faults
       \/ pushed /\ pc' = "read" /\ Suffer("call")
    /\ UNCHANGED <<pings, outcome, row, preparer, container, logs>>

(* io.ReadAll.                                                             *)
ReadContext ==
    /\ pc = "read" /\ pipe # "open"
    /\ IF pipe = "eof"
       THEN pc' = "pull" /\ UNCHANGED <<pings, outcome, row, preparer, container, logs>>
       ELSE Fail
    /\ UNCHANGED faults

Pull == Step("pull", "create")

Create ==
    /\ pc = "create"
    /\ box' = "created"
    /\ pc' = "copy"
    /\ UNCHANGED <<pings, outcome, row, preparer, code, out, pushed, logs, faults>>

(* The context to /build, the registry credentials to /root.               *)
Copy == Step("copy", "start")

Start ==
    /\ pc = "start"
    /\ box' = "running"
    /\ pc' = "attach"
    /\ UNCHANGED <<pings, outcome, row, preparer, code, out, pushed, logs, faults>>

Attach ==
    /\ pc = "attach"
    /\ logger' = "copy"
    /\ pc' = "wait"
    /\ UNCHANGED <<pings, outcome, row, preparer, container, read, stored, faults>>

(* ContainerWait reports the exit.                                         *)
ContainerWait ==
    /\ box = "exited"
    /\ Step("wait", "join")

(* Mutant: the exit code is not looked at.                                 *)
JoinAnyCode ==
    /\ pc = "join" /\ logger = "done"
    /\ pc' = "remove"
    /\ UNCHANGED <<pings, outcome, row, preparer, container, logs, faults>>

(* wg.Wait, then the exit code.                                            *)
Join ==
    /\ pc = "join" /\ logger = "done"
    /\ IF code = 0
       THEN pc' = "remove" /\ UNCHANGED <<pings, outcome, row, preparer, container, logs>>
       ELSE Fail
    /\ UNCHANGED faults

(* The deferred ContainerRemove; its error is ignored.                     *)
Remove ==
    /\ pc = "remove"
    /\ \/ box' = "none" /\ UNCHANGED faults
       \/ UNCHANGED box /\ Suffer("remove")
    /\ pc' = IF outcome = "failed" THEN "return" ELSE "record"
    /\ UNCHANGED <<pings, outcome, row, preparer, code, out, pushed, logs>>

(* ImageFindOrCreate                                                       *)
Record == Step("record", "mark")

BuildMarkSuccessful ==
    /\ pc = "mark"
    /\ row' = TRUE
    /\ pc' = "clean"
    /\ UNCHANGED <<pings, outcome, preparer, container, logs, faults>>

(* cleanupBuildVM; its error is logged.                                    *)
Clean ==
    /\ pc = "clean"
    /\ outcome' = "ok"
    /\ pc' = "return"
    /\ UNCHANGED <<pings, row, preparer, container, logs, faults>>

(* The deferred tarballReader.Close, last.                                 *)
Return ==
    /\ pc = "return"
    /\ pc' = "end"
    /\ UNCHANGED <<pings, outcome, row, preparer, container, logs, faults>>

Executor ==
    \/ CallFails \/ Download \/ DockerAnswers \/ PingFails
    \/ PrepareBuildContext \/ Inspect \/ ReadContext \/ Pull \/ Create \/ Copy
    \/ Start \/ Attach \/ ContainerWait \/ Join \/ Remove \/ Record
    \/ BuildMarkSuccessful \/ Clean \/ Return

-----------------------------------------------------------------------------
(* A config file of a framework decides, in this order; manifests decide   *)
(* only when there is none.                                                *)
DetectFramework(files) ==
    LET Has(f) == f \in files
        Gems   == Has("Gemfile") \/ Has("Gemfile:rails")
    IN
    IF Has("nuxt.config") THEN "nuxt"
    ELSE IF Has("next.config") THEN "nextjs"
    ELSE IF Has("artisan") THEN "laravel"
    ELSE IF Has("routes.rb") \/ (Gems /\ Has("Rakefile")) THEN "rails"
    ELSE IF Has("package.json:nuxt") THEN "nuxt"
    ELSE IF Has("package.json:next") THEN "nextjs"
    ELSE IF Has("Gemfile:rails") THEN "rails"
    ELSE IF Has("composer.json:laravel") THEN "laravel"
    ELSE "none"

(* Mutant: the pipe is only closed, by the deferred call.                  *)
CloseWithoutError == pipe' = "eof" /\ prep' = "done"

(* Mutant: the pipe is not closed at all.                                  *)
CloseNothing == pipe' = pipe /\ prep' = "done"

(* CloseWithError; the deferred Close does not replace the error.          *)
CloseWithError == pipe' = "error" /\ prep' = "done"

(* The pipe hands a write over to a reader and keeps nothing itself.       *)
Reading == pc = "read"

OpenGzip ==
    /\ prep = "gzip"
    /\ prep' = "entries"
    /\ UNCHANGED <<executor, tree, left, pipe, context, container, logs, faults>>

(* The archive is broken, or its download was closed by the returning      *)
(* executor, which a pending write does not notice.                        *)
TarFails ==
    /\ prep \in {"gzip", "entries"}
    /\ IF pc = "end" THEN UNCHANGED faults ELSE Suffer("tar")
    /\ CloseWithError
    /\ UNCHANGED <<executor, tree, left, context, container, logs>>

(* One entry: what is not under the project's root directory is skipped.   *)
NextEntry(f) ==
    /\ prep = "entries" /\ f \in left
    /\ left' = left \ {f}
    /\ prep' = IF f = "outside" THEN "entries" ELSE "write"
    /\ UNCHANGED <<executor, tree, pipe, context, container, logs, faults>>

WriteEntry ==
    /\ prep = "write" /\ Reading
    /\ context' = (tree \ left) \ {"outside"}
    /\ prep' = "entries"
    /\ UNCHANGED <<executor, tree, left, pipe, container, logs, faults>>

LastEntry ==
    /\ prep = "entries" /\ left = {}
    /\ prep' = IF "Dockerfile" \in tree THEN "close" ELSE "inject"
    /\ UNCHANGED <<executor, tree, left, pipe, context, container, logs, faults>>

(* No Dockerfile in the context: the one of the framework, or an error.    *)
InjectDockerfile ==
    /\ prep = "inject"
    /\ IF DetectFramework(tree \ {"outside"}) = "none"
       THEN CloseWithError /\ UNCHANGED context
       ELSE /\ Reading
            /\ context' = context \union {"Dockerfile"}
            /\ prep' = "close"
            /\ UNCHANGED pipe
    /\ UNCHANGED <<executor, tree, left, container, logs, faults>>

(* The tar trailer, which needs the reader too, then the end of the pipe.  *)
CloseContext ==
    /\ prep = "close" /\ Reading
    /\ pipe' = "eof"
    /\ prep' = "done"
    /\ UNCHANGED <<executor, tree, left, context, container, logs, faults>>

Preparer ==
    \/ OpenGzip \/ TarFails
    \/ \E f \in File : NextEntry(f)
    \/ WriteEntry \/ LastEntry \/ InjectDockerfile \/ CloseContext

-----------------------------------------------------------------------------
(* docker buildx build writes, pushes and exits.                           *)
ContainerWrites ==
    /\ box = "running" /\ out < MaxOutput
    /\ out' = out + 1
    /\ UNCHANGED <<executor, preparer, box, code, pushed, logs, faults>>

ContainerExits ==
    /\ box = "running"
    /\ box' = "exited"
    /\ \/ code' = 0 /\ pushed' = TRUE
       \/ code' = 1 /\ pushed' \in {pushed, TRUE}
    /\ UNCHANGED <<executor, preparer, out, logs, faults>>

(* logWriter.Write: a line is stored when its end arrives; a failed INSERT *)
(* is ignored.                                                             *)
CopyOutput ==
    /\ logger = "copy" /\ read < out
    /\ read' = read + 1
    /\ \/ stored' = (IF read' % 2 = 0 THEN stored + 1 ELSE stored) /\ UNCHANGED faults
       \/ read' % 2 = 0 /\ stored' = stored /\ Suffer("insert")
    /\ UNCHANGED <<executor, preparer, container, logger>>

(* The stream ends with the container.                                     *)
OutputOver == read = out /\ box \in {"exited", "none"}

(* Mutant: a last line without an end is forgotten.                        *)
EndOfOutputUnflushed ==
    /\ logger = "copy"
    /\ IF OutputOver THEN UNCHANGED faults ELSE Suffer("stream")
    /\ logger' = "done"
    /\ UNCHANGED <<executor, preparer, container, read, stored>>

(* StdCopy returns, also when the stream breaks, which is only logged;     *)
(* Flush stores an unfinished line.                                        *)
EndOfOutput ==
    /\ logger = "copy"
    /\ IF OutputOver THEN UNCHANGED faults ELSE Suffer("stream")
    /\ logger' = "done"
    /\ stored' = IF read % 2 = 1 THEN stored + 1 ELSE stored
    /\ UNCHANGED <<executor, preparer, container, read>>

Logger == CopyOutput \/ EndOfOutput

Next == Executor \/ Preparer \/ Logger \/ ContainerWrites \/ ContainerExits

Spec == Init /\ [][Next]_vars

(* The three goroutines go on and the container's command ends.            *)
Fairness ==
    /\ WF_vars(Executor) /\ WF_vars(Preparer) /\ WF_vars(Logger)
    /\ WF_vars(ContainerExits)

FairSpec == Spec /\ Fairness

-----------------------------------------------------------------------------
(* A container only starts with the whole context: every entry of the      *)
(* archive under the root directory, and a Dockerfile.  An archive that    *)
(* breaks off half way is never built.                                     *)
ContextWhole ==
    box # "none" =>
        /\ tree \ {"outside"} \subseteq context
        /\ "Dockerfile" \in context

(* A build is only marked succesful when the registry has its image.       *)
SuccessIsPushed == row => pushed

(* When the container's exit was seen, every line it wrote is in           *)
(* build_logs, also a last one that has no end, before the call goes on:   *)
(* neither a success nor the failure of the container is reported before   *)
(* its logs are complete.  A stream that breaks, or an INSERT that fails,  *)
(* loses lines; a call that fails before the exit was seen loses the rest. *)
LogsComplete ==
    /\ logger # "none" /\ faults \intersect {"insert", "stream"} = {}
    /\ \/ pc \in {"record", "mark", "clean"}
       \/ pc \in {"remove", "return", "end"} /\ "call" \notin faults
    => stored = (out + 1) \div 2

(* However the call returns, the container is gone; only a failed removal  *)
(* leaves it.                                                              *)
ContainerGone == pc = "end" /\ "remove" \notin faults => box = "none"

(* The call returns and its goroutines end, whatever fails: a preparer     *)
(* that fails ends the executor, a build that fails leaves no logger, and  *)
(* a context that is read leaves no preparer behind.  (One that is not     *)
(* read, because the image exists already, does leave it waiting.)         *)
GoroutinesEnd ==
    /\ <>(pc = "end" /\ logger # "copy")
    /\ pc = "read" ~> prep = "done"
=============================================================================
