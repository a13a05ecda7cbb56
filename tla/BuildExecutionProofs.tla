------------------------ MODULE BuildExecutionProofs ------------------------
(***************************************************************************)
(* For any tarball and any bounds: a container only starts with the whole  *)
(* context, success is only recorded for a pushed image, no way out leaves *)
(* the container, and a build is reported only after its container's last  *)
(* line.                                                                   *)
(*                                                                         *)
(* The first needs what the preparer has written at each of its steps and  *)
(* that the end of the pipe, once there, stays; the second what is known   *)
(* of the image at each step of the executor after the build; the last     *)
(* how many rows the logger has stored of what it has read, and that the   *)
(* container writes nothing after its exit.                                *)
(***************************************************************************)
EXTENDS BuildExecution, TLAPS

Whole == tree \ {"outside"} \subseteq context /\ "Dockerfile" \in context

(* What the preparer has written when it stands at prep.                   *)
Written ==
    /\ prep # "done" => pipe = "open"
    /\ prep \in {"none", "gzip"} => left = tree
    /\ prep = "entries" => (tree \ left) \ {"outside"} \subseteq context
    /\ prep \in {"inject", "close"} => tree \ {"outside"} \subseteq context
    /\ prep = "close" => "Dockerfile" \in context
    /\ pipe = "eof" => Whole

(* The preparer is started once, and the executor passes the pipe's end.   *)
Received ==
    /\ pc \in {"fetch", "docker", "prepare"} => prep = "none"
    /\ pc \in {"pull", "create", "copy", "start", "attach", "wait", "join"} =>
          pipe = "eof"
    /\ box # "none" => pipe = "eof"

(* What the executor knows of the image.                                   *)
Known ==
    /\ pc = "join" => box = "exited"
    /\ box = "exited" /\ code = 0 => pushed
    /\ pc = "remove" /\ outcome # "failed" => pushed
    /\ pc \in {"record", "mark"} => pushed
    /\ row => pushed

(* Outside the part that the deferred removal covers there is no container.*)
Removed ==
    /\ pc \notin {"copy", "start", "attach", "wait", "join", "remove"}
    /\ "remove" \notin faults
    => box = "none"

IInv == Written /\ Received /\ Known /\ Removed

(* Nothing is written, and there is no container.                          *)
LEMMA InitIInv == Init => IInv
  BY DEF Init, IInv, Written, Received, Known, Removed, Whole

USE DEF executor, preparer, container, logs

(* The executor does not write into the context.                           *)
LEMMA WrittenStep == IInv /\ [Next]_vars => Written'
  <1> SUFFICES ASSUME IInv, [Next]_vars PROVE Written'
    OBVIOUS
  <1> USE DEF IInv
  <1>1. ASSUME PrepareBuildContext PROVE Written'
    BY <1>1 DEF PrepareBuildContext, Written, Received, Whole
  <1>2. ASSUME UNCHANGED preparer PROVE Written'
    BY <1>2 DEF Written, Whole
  <1>3. ASSUME OpenGzip PROVE Written'
    BY <1>3 DEF OpenGzip, Written, Whole
  <1>4. ASSUME TarFails PROVE Written'
    BY <1>4 DEF TarFails, CloseWithError, Written, Whole
  <1>5. ASSUME NEW f \in File, NextEntry(f) PROVE Written'
    BY <1>5 DEF NextEntry, Written, Whole
  <1>6. ASSUME WriteEntry PROVE Written'
    BY <1>6 DEF WriteEntry, Written, Whole
  <1>7. ASSUME LastEntry PROVE Written'
    BY <1>7 DEF LastEntry, Written, Whole
  <1>8. ASSUME InjectDockerfile PROVE Written'
    BY <1>8 DEF InjectDockerfile, CloseWithError, Written, Whole
  <1>9. ASSUME CloseContext PROVE Written'
    BY <1>9 DEF CloseContext, Written, Whole
  <1>10. ASSUME Executor \/ Logger \/ ContainerWrites \/ ContainerExits
                \/ UNCHANGED vars
         PROVE  UNCHANGED preparer \/ PrepareBuildContext
    <2>1. CASE Executor
      BY <2>1 DEF Executor, CallFails, Fail, Download, DockerAnswers, Step,
         PingFails, Inspect, ReadContext, Pull, Create, Copy, Start, Attach,
         ContainerWait, Join, Remove, Record, BuildMarkSuccessful, Clean, Return
    <2>2. CASE Logger
      BY <2>2 DEF Logger, CopyOutput, EndOfOutput
    <2>3. CASE ContainerWrites \/ ContainerExits \/ UNCHANGED vars
      BY <2>3 DEF ContainerWrites, ContainerExits, vars
    <2> QED
      BY <1>10, <2>1, <2>2, <2>3
  <1> QED
    BY <1>1, <1>2, <1>3, <1>4, <1>5, <1>6, <1>7, <1>8, <1>9, <1>10
    DEF Next, Preparer

(* The end of the pipe stays: who closes it has not closed it before.      *)
LEMMA EofStays == IInv /\ [Next]_vars /\ pipe = "eof" => pipe' = "eof"
  <1> SUFFICES ASSUME IInv, [Next]_vars, pipe = "eof" PROVE pipe' = "eof"
    OBVIOUS
  <1>1. prep = "done"
    BY DEF IInv, Written
  <1>2. CASE Executor
    BY <1>2 DEF Executor, CallFails, Fail, Download, DockerAnswers, Step,
       PingFails, PrepareBuildContext, Inspect, ReadContext, Pull, Create, Copy,
       Start, Attach, ContainerWait, Join, Remove, Record, BuildMarkSuccessful,
       Clean, Return
  <1>3. CASE Preparer
    BY <1>1, <1>3 DEF Preparer, OpenGzip, TarFails, NextEntry, WriteEntry,
       LastEntry, InjectDockerfile, CloseContext
  <1>4. CASE Logger \/ ContainerWrites \/ ContainerExits \/ UNCHANGED vars
    BY <1>4 DEF Logger, CopyOutput, EndOfOutput, ContainerWrites,
       ContainerExits, vars
  <1> QED
    BY <1>2, <1>3, <1>4 DEF Next

(* The executor's steps, one by one; the others leave pc alone.            *)
LEMMA ExecutorStep ==
    ASSUME IInv, Executor, pipe = "eof" => pipe' = "eof"
    PROVE  Received' /\ Known' /\ Removed'
  <1> USE DEF IInv, Received, Known, Removed
  <1>1. CASE CallFails
    BY <1>1 DEF CallFails, Fail, WayOut, Suffer
  <1>2. CASE Download \/ DockerAnswers \/ Pull \/ Copy \/ Record
    BY <1>2 DEF Download, DockerAnswers, Pull, Copy, Record, Step
  <1>3. CASE ContainerWait
    BY <1>3 DEF ContainerWait, Step
  <1>4. CASE PingFails
    BY <1>4 DEF PingFails
  <1>5. CASE PrepareBuildContext
    BY <1>5 DEF PrepareBuildContext
  <1>6. CASE Inspect
    BY <1>6 DEF Inspect, Suffer
  <1>7. CASE ReadContext
    BY <1>7 DEF ReadContext, Fail, WayOut
  <1>8. CASE Create
    BY <1>8 DEF Create
  <1>9. CASE Start
    BY <1>9 DEF Start
  <1>10. CASE Attach
    BY <1>10 DEF Attach
  <1>11. CASE Join
    BY <1>11 DEF Join, Fail, WayOut
  <1>12. CASE Remove
    BY <1>12 DEF Remove, Suffer
  <1>13. CASE BuildMarkSuccessful
    BY <1>13 DEF BuildMarkSuccessful
  <1>14. CASE Clean \/ Return
    BY <1>14 DEF Clean, Return
  <1> QED
    BY <1>1, <1>2, <1>3, <1>4, <1>5, <1>6, <1>7, <1>8, <1>9, <1>10, <1>11,
       <1>12, <1>13, <1>14 DEF Executor

(* The other goroutines and the container.                                 *)
LEMMA OtherStep ==
    ASSUME IInv, pipe = "eof" => pipe' = "eof",
           Preparer \/ Logger \/ ContainerWrites \/ ContainerExits
           \/ UNCHANGED vars
    PROVE  Received' /\ Known' /\ Removed'
  <1> USE DEF IInv, Received, Known, Removed
  <1>1. CASE Preparer
    <2>1. /\ UNCHANGED <<executor, container>>
          /\ faults \subseteq faults'
          /\ prep # "none"
      BY <1>1 DEF Preparer, OpenGzip, TarFails, NextEntry, WriteEntry, LastEntry,
         InjectDockerfile, CloseContext, Suffer
    <2> QED
      BY <2>1
  <1>2. CASE Logger
    BY <1>2 DEF Logger, CopyOutput, EndOfOutput, Suffer
  <1>3. CASE ContainerWrites \/ UNCHANGED vars
    BY <1>3 DEF ContainerWrites, Suffer, vars
  <1>4. CASE ContainerExits
    <2>1. pushed' = pushed \/ pushed' = TRUE
      BY <1>4 DEF ContainerExits
    <2>2. pushed => pushed'
      BY <2>1
    <2>3. code' = 0 => pushed'
      BY <1>4 DEF ContainerExits
    <2>4. box = "running" /\ box' = "exited" /\ UNCHANGED <<executor, preparer, faults>>
      BY <1>4 DEF ContainerExits
    <2> QED
      BY <2>2, <2>3, <2>4
  <1> QED
    BY <1>1, <1>2, <1>3, <1>4

(* The invariant holds in every state.                                     *)
THEOREM Invariance == Spec => []IInv
  <1>1. IInv /\ [Next]_vars => IInv'
    <2> SUFFICES ASSUME IInv, [Next]_vars PROVE IInv'
      OBVIOUS
    <2>1. Written' /\ (pipe = "eof" => pipe' = "eof")
      BY WrittenStep, EofStays
    <2>2. Received' /\ Known' /\ Removed'
      BY <2>1, ExecutorStep, OtherStep DEF Next
    <2> QED
      BY <2>1, <2>2 DEF IInv
  <1> QED
    BY InitIInv, <1>1, PTL DEF Spec

(* A container has the whole build context, wherever the archive breaks    *)
(* off: an error of the preparer reaches the executor through the pipe.    *)
THEOREM BuildsWholeContext == Spec => []ContextWhole
  <1>1. IInv => ContextWhole
    BY DEF IInv, Received, Written, Whole, ContextWhole
  <1> QED
    BY Invariance, <1>1, PTL

(* builds.status says succesful only when the registry has the image.      *)
THEOREM SuccessHasImage == Spec => []SuccessIsPushed
  <1>1. IInv => SuccessIsPushed
    BY DEF IInv, Known, SuccessIsPushed
  <1> QED
    BY Invariance, <1>1, PTL

(* The deferred removal covers every way out of executeBuild.              *)
THEOREM NoContainerLeft == Spec => []ContainerGone
  <1>1. IInv => ContainerGone
    BY DEF IInv, Removed, ContainerGone
  <1> QED
    BY Invariance, <1>1, PTL
-----------------------------------------------------------------------------
(* The daemon is only asked again while attempts are left.                 *)
PingsLeft == pc \in {"fetch", "docker"} => pings < MaxPings

(* The executor keeps the types.                                           *)
LEMMA ExecutorTypes == TypeOK /\ PingsLeft /\ Executor => TypeOK' /\ PingsLeft'
  <1> SUFFICES ASSUME TypeOK, PingsLeft, Executor PROVE TypeOK' /\ PingsLeft'
    OBVIOUS
  <1> USE DEF TypeOK, PingsLeft
  <1>1. CASE CallFails
    <2>1. faults' \subseteq FaultKind
      BY <1>1 DEF CallFails, Suffer, FaultKind
    <2>2. /\ pc' \in {"remove", "return"} /\ outcome' = "failed"
          /\ UNCHANGED <<pings, row, preparer, container, logs>>
      BY <1>1 DEF CallFails, Fail, WayOut
    <2> QED
      BY <2>1, <2>2
  <1>2. CASE ReadContext
    BY <1>2 DEF ReadContext, Fail, WayOut
  <1>3. CASE Join
    BY <1>3 DEF Join, Fail, WayOut
  <1>4. ASSUME NEW from \in {"fetch", "docker", "pull", "copy", "wait", "record"},
               NEW to \in {"docker", "prepare", "create", "start", "join", "mark"},
               Step(from, to), to = "docker" => from = "fetch"
        PROVE  TypeOK' /\ PingsLeft'
    BY <1>4 DEF Step
  <1>5. CASE Download \/ DockerAnswers \/ Pull \/ Copy \/ ContainerWait \/ Record
    BY <1>4, <1>5 DEF Download, DockerAnswers, Pull, Copy, ContainerWait, Record
  <1>6. CASE PingFails
    BY <1>6, BoundAssumption DEF PingFails
  <1>7. CASE PrepareBuildContext
    BY <1>7 DEF PrepareBuildContext
  <1>8. CASE Inspect
    <2>1. faults' \subseteq FaultKind
      BY <1>8 DEF Inspect, Suffer, FaultKind
    <2>2. /\ pc' \in {"record", "read"}
          /\ UNCHANGED <<pings, outcome, row, preparer, container, logs>>
      BY <1>8 DEF Inspect
    <2> QED
      BY <2>1, <2>2
  <1>9. CASE Create
    BY <1>9 DEF Create
  <1>10. CASE Start
    BY <1>10 DEF Start
  <1>11. CASE Attach
    BY <1>11 DEF Attach
  <1>12. CASE Remove
    <2>1. faults' \subseteq FaultKind
      BY <1>12 DEF Remove, Suffer, FaultKind
    <2>2. /\ pc' \in {"return", "record"} /\ box' \in {box, "none"}
          /\ UNCHANGED <<pings, outcome, row, preparer, code, out, pushed, logs>>
      BY <1>12 DEF Remove
    <2> QED
      BY <2>1, <2>2
  <1>13. CASE BuildMarkSuccessful
    BY <1>13 DEF BuildMarkSuccessful
  <1>14. CASE Clean
    BY <1>14 DEF Clean
  <1>15. CASE Return
    BY <1>15 DEF Return
  <1> QED
    BY <1>1, <1>2, <1>3, <1>5, <1>6, <1>7, <1>8, <1>9, <1>10, <1>11, <1>12,
       <1>13, <1>14, <1>15 DEF Executor

(* So do the preparer, the logger and the container.                       *)
LEMMA TypeStep == TypeOK /\ PingsLeft /\ [Next]_vars => TypeOK' /\ PingsLeft'
  <1> SUFFICES ASSUME TypeOK, PingsLeft, [Next]_vars PROVE TypeOK' /\ PingsLeft'
    OBVIOUS
  <1>1. CASE Executor
    BY <1>1, ExecutorTypes
  <1> USE DEF TypeOK, PingsLeft
  <1>2. CASE Preparer
    <2>1. left' \subseteq tree' /\ tree' \in Trees
      BY <1>2 DEF Preparer, OpenGzip, TarFails, NextEntry, WriteEntry, LastEntry,
         InjectDockerfile, CloseContext
    <2>2. context' \subseteq File \union {"Dockerfile"}
      <3>1. tree \subseteq File
        BY TreeAssumption
      <3> QED
        BY <1>2, <3>1 DEF Preparer, OpenGzip, TarFails, NextEntry, WriteEntry,
           LastEntry, InjectDockerfile, CloseContext
    <2>3. /\ prep' \in {"none", "gzip", "entries", "write", "inject", "close", "done"}
          /\ pipe' \in {"open", "eof", "error"}
          /\ UNCHANGED <<executor, container, logs>>
      BY <1>2 DEF Preparer, OpenGzip, TarFails, NextEntry, WriteEntry, LastEntry,
         InjectDockerfile, CloseContext, CloseWithError
    <2>4. faults' \subseteq FaultKind
      BY <1>2 DEF Preparer, OpenGzip, TarFails, NextEntry, WriteEntry, LastEntry,
         InjectDockerfile, CloseContext, Suffer, FaultKind
    <2> QED
      BY <2>1, <2>2, <2>3, <2>4
  <1>3. CASE Logger
    <2>1. read' \in 0 .. out /\ stored' \in Nat
      BY <1>3 DEF Logger, CopyOutput, EndOfOutput
    <2>2. faults' \subseteq FaultKind
      BY <1>3 DEF Logger, CopyOutput, EndOfOutput, Suffer, FaultKind
    <2>3. logger' \in {"copy", "done"} /\ UNCHANGED <<executor, preparer, container>>
      BY <1>3 DEF Logger, CopyOutput, EndOfOutput
    <2> QED
      BY <2>1, <2>2, <2>3
  <1>4. CASE ContainerWrites
    <2>1. out' \in 0 .. MaxOutput /\ read \in 0 .. out'
      BY <1>4, BoundAssumption DEF ContainerWrites
    <2> QED
      BY <1>4, <2>1 DEF ContainerWrites
  <1>6. CASE ContainerExits
    <2>1. pushed' \in BOOLEAN /\ code' \in {0, 1}
      BY <1>6 DEF ContainerExits
    <2> QED
      BY <1>6, <2>1 DEF ContainerExits
  <1>7. CASE UNCHANGED vars
    BY <1>7 DEF vars
  <1> QED
    BY <1>1, <1>2, <1>3, <1>4, <1>6, <1>7 DEF Next

(* Every variable has its type.                                            *)
LEMMA Types == Spec => [](TypeOK /\ PingsLeft)
  <1>1. Init => TypeOK /\ PingsLeft
    <2> SUFFICES ASSUME Init PROVE TypeOK /\ PingsLeft
      OBVIOUS
    <2>1. pings \in 0 .. MaxPings /\ out \in 0 .. MaxOutput /\ read \in 0 .. out
          /\ stored \in Nat /\ PingsLeft
      BY BoundAssumption DEF Init, PingsLeft
    <2> QED
      BY <2>1 DEF Init, TypeOK
  <1> QED
    BY <1>1, TypeStep, PTL DEF Spec

(* The same, for the reader of the runs.                                   *)
THEOREM TypeCorrect == Spec => []TypeOK
  BY Types, PTL

-----------------------------------------------------------------------------
(* The rows the logger has stored of the half lines it has read; it only   *)
(* ends with the output.                                                   *)
Kept == faults \intersect {"insert", "stream"} = {}

Flushed ==
    Kept =>
        /\ logger = "none" => read = 0 /\ stored = 0
        /\ logger = "copy" => stored = read \div 2
        /\ logger = "done" => /\ stored = (read + 1) \div 2
                              /\ read = out
                              /\ box \in {"exited", "none"}

(* The logger is started once, after the container, and joined unless a    *)
(* call fails before.                                                      *)
Joined ==
    /\ logger # "none" =>
          pc \in {"wait", "join", "remove", "record", "mark", "clean", "return", "end"}
    /\ logger # "none" =>
          \/ pc \in {"wait", "join"}
          \/ logger = "done"
          \/ "call" \in faults /\ pc \in {"remove", "return", "end"}
    /\ pc = "remove" /\ outcome # "failed" => logger = "done"

LogInv == Flushed /\ Joined

(* Faults are not forgotten.                                               *)
LEMMA FaultsStay == [Next]_vars => faults \subseteq faults'
  BY DEF Next, vars, Suffer, Executor, CallFails, Fail, Download, DockerAnswers,
     Step, PingFails, PrepareBuildContext, Inspect, ReadContext, Pull, Create,
     Copy, Start, Attach, ContainerWait, Join, Remove, Record,
     BuildMarkSuccessful, Clean, Return, Preparer, OpenGzip, TarFails, NextEntry,
     WriteEntry, LastEntry, InjectDockerfile, CloseContext, Logger, CopyOutput,
     EndOfOutput, ContainerWrites, ContainerExits

(* Two halves make a line.                                                 *)
LEMMA Halves ==
    ASSUME NEW n \in Nat
    PROVE  /\ n % 2 = 0 => (n + 1) \div 2 = n \div 2 /\ (n + 1) % 2 = 1
           /\ n % 2 = 1 => (n + 1) \div 2 = (n \div 2) + 1 /\ (n + 1) % 2 = 0
           /\ n % 2 \in {0, 1}
  OBVIOUS

(* A line is stored when its second half is read, the last one at the end; *)
(* the executor waits for the end before it leaves.                        *)
LEMMA LogStep == TypeOK /\ LogInv /\ [Next]_vars => LogInv'
  <1> SUFFICES ASSUME TypeOK, LogInv, [Next]_vars, faults \subseteq faults'
               PROVE  LogInv'
    BY FaultsStay
  <1> USE DEF LogInv, Flushed, Joined, Kept
  <1>1. CASE CallFails
    BY <1>1 DEF CallFails, Fail, WayOut, Suffer
  <1>2. CASE Download \/ DockerAnswers \/ Pull \/ Copy \/ ContainerWait \/ Record
    BY <1>2 DEF Download, DockerAnswers, Pull, Copy, ContainerWait, Record, Step
  <1>3. CASE PingFails \/ PrepareBuildContext \/ Inspect
    BY <1>3 DEF PingFails, PrepareBuildContext, Inspect
  <1>4. CASE ReadContext
    BY <1>4 DEF ReadContext, Fail, WayOut
  <1>5. CASE Create \/ Start
    BY <1>5 DEF Create, Start
  <1>6. CASE Attach
    BY <1>6, 0 \div 2 = 0 DEF Attach
  <1>7. CASE Join
    BY <1>7 DEF Join, Fail, WayOut
  <1>8. CASE Remove \/ BuildMarkSuccessful \/ Clean \/ Return
    BY <1>8 DEF Remove, BuildMarkSuccessful, Clean, Return
  <1>9. CASE Preparer
    <2>1. UNCHANGED <<executor, container, logs>>
      BY <1>9 DEF Preparer, OpenGzip, TarFails, NextEntry, WriteEntry, LastEntry,
         InjectDockerfile, CloseContext
    <2> QED
      BY <2>1
  <1>10. CASE CopyOutput
    <2>1. read \in Nat /\ stored \in Nat
      BY DEF TypeOK
    <2>2. UNCHANGED <<executor, container, logger>> /\ logger = "copy" /\ read' = read + 1
      BY <1>10 DEF CopyOutput
    <2>3. Kept' => stored' = IF read' % 2 = 0 THEN stored + 1 ELSE stored
      BY <1>10 DEF CopyOutput, Suffer
    <2>4. Kept' => stored' = read' \div 2
      BY <2>1, <2>2, <2>3, Halves
    <2> QED
      BY <2>2, <2>4
  <1>11. CASE EndOfOutput
    <2>1. read \in Nat /\ stored \in Nat
      BY DEF TypeOK
    <2>2. UNCHANGED <<executor, container, read>> /\ logger = "copy" /\ logger' = "done"
      BY <1>11 DEF EndOfOutput
    <2>3. Kept' => /\ read = out /\ box \in {"exited", "none"}
                   /\ stored' = IF read % 2 = 1 THEN stored + 1 ELSE stored
      BY <1>11 DEF EndOfOutput, OutputOver, Suffer
    <2>4. Kept' => stored' = (read + 1) \div 2
      BY <2>1, <2>2, <2>3, Halves
    <2> QED
      BY <2>2, <2>3, <2>4
  <1>12. CASE ContainerWrites \/ ContainerExits
    BY <1>12 DEF ContainerWrites, ContainerExits, Suffer
  <1>13. CASE UNCHANGED vars
    BY <1>13 DEF vars
  <1> QED
    BY <1>1, <1>2, <1>3, <1>4, <1>5, <1>6, <1>7, <1>8, <1>9, <1>10, <1>11, <1>12,
       <1>13 DEF Next, Executor, Logger

(* Once the exit of the container was seen, whatever its code, the build   *)
(* is not reported before its last line is stored, even one without an     *)
(* end, unless the stream breaks or an INSERT fails.                       *)
THEOREM ReportedWithLogs == Spec => []LogsComplete
  <1>1. Init => LogInv
    BY DEF Init, LogInv, Flushed, Joined, Kept
  <1>2. TypeOK /\ LogInv => LogsComplete
    BY DEF LogInv, Flushed, Joined, Kept, LogsComplete
  <1> QED
    BY <1>1, <1>2, LogStep, TypeCorrect, PTL DEF Spec
=============================================================================
