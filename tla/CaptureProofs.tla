----------------------------- MODULE CaptureProofs -----------------------------
(***************************************************************************)
(* Proofs about captures and the files that hold them, for every set of    *)
(* streams, of initial files and of paths, and every number of attempts    *)
(* and runs.                                                               *)
(***************************************************************************)
EXTENDS CaptureFiles, TLAPS

USE DEF NormalizedTime, HistoricalTime

-----------------------------------------------------------------------------
(* Types of the operators.                                                 *)

\* The analysis of a stream is one, whatever was sent before it.
LEMMA AnalysisType ==
    ASSUME NEW stream \in Streams, NEW request
    PROVE  Analysis(stream, request) \in Analyses
<1>1. ASSUME NEW a \in Analyses PROVE Unasked(a) \in Analyses
  <2>1. CASE a.class = "partial-transmit-echo"
    BY <2>1 DEF Unasked, Analyses, Unframed, Echoed
  <2>2. CASE a.class \in {"echo-only", "transmit-echo", "echo-followed-by-response"}
    BY <2>2 DEF Unasked, EchoUnasked, Analyses, Framed, FrameMessages
  <2>3. CASE a.class \notin {"partial-transmit-echo", "echo-only", "transmit-echo",
                             "echo-followed-by-response"}
    BY <2>3 DEF Unasked
  <2> QED BY <2>1, <2>2, <2>3
<1>2. PICK a \in Analyses : stream = [probe |-> a, monitor |-> Unasked(a)]
  BY DEF Streams
<1>3. stream.probe = a /\ stream.monitor = Unasked(a)
  BY <1>2
<1>4. Analysis(stream, request) \in {a, Unasked(a)}
  BY <1>3 DEF Analysis
<1> QED BY <1>1, <1>4

\* The class and the message type of an analysis.
LEMMA ClassType ==
    ASSUME NEW a \in Analyses
    PROVE  /\ a.class \in Classifications
           /\ MessageType(a) \in Classifications \cup FrameMessages
           /\ Complete(a) \in BOOLEAN
<1>1. CASE a \in [class : Unframed \cup Echoed, message : {"none"}]
  <2>1. a.class \in Unframed \cup Echoed
    BY <1>1
  <2>2. a.class \notin Framed
    BY <2>1 DEF Unframed, Echoed, Framed
  <2> QED BY <2>1, <2>2 DEF Classifications, MessageType, Complete
<1>2. CASE a \in [class : Framed, message : FrameMessages]
  <2>1. a.class \in Framed /\ a.message \in FrameMessages
    BY <1>2
  <2> QED BY <2>1 DEF Classifications, MessageType, Complete
<1> QED BY <1>1, <1>2 DEF Analyses

\* A capture that is built is a capture.
LEMMA BuildType ==
    ASSUME NEW operation \in {"probe", "monitor"}, NEW port \in Ports,
           NEW timing \in Timings, NEW stream \in Streams, NEW created \in Int
    PROVE  BuildCapture(operation, port, timing, stream, created) \in Captures
<1> DEFINE request == Request(operation)
           a == Analysis(stream, request)
<1>1. request \in Requests
  BY DEF Request, Requests
<1>2. a \in Analyses
  BY AnalysisType
<1>3. /\ a.class \in Classifications
      /\ MessageType(a) \in Classifications \cup FrameMessages
      /\ Complete(a) \in BOOLEAN
  BY <1>2, ClassType
<1>4. SafePort(port) \in Ports
  BY DEF SafePort, Ports
<1>5. Report(SafePort(port), timing, stream, request) \in Reports
  BY <1>3, <1>4 DEF Report, Reports, Received
<1> QED BY <1>1, <1>3, <1>4, <1>5 DEF BuildCapture, Captures

\* What reading returns is a capture.
LEMMA ReadType ==
    ASSUME NEW file \in Captures \cup {NoFile, Garbage}, NEW c \in Read(file)
    PROVE  c \in Captures
<1>1. file \in Captures /\ file \notin {NoFile, Garbage}
  BY DEF Read
<1>2. CASE file.schema = 1
  <2>1. Analysis(file.stream, file.request).class \in Classifications
    BY <1>1, AnalysisType, ClassType DEF Captures
  <2>2. c = [file EXCEPT !.class = Analysis(file.stream, file.request).class]
    BY <1>1, <1>2 DEF Read
  <2> QED BY <1>1, <2>1, <2>2 DEF Captures
<1>3. CASE file.schema # 1
  BY <1>1, <1>3 DEF Read
<1> QED BY <1>2, <1>3

\* A sanitized capture is a capture, and what it changes.
LEMMA SanitizeType ==
    ASSUME NEW c \in Captures
    PROVE  /\ Sanitize(c) \in Captures
           /\ Sanitize(c).created = NormalizedTime /\ Sanitize(c).schema = 3
<1> DEFINE report == [c.report EXCEPT !.port = "normalized"]
<1>1. c.report \in Reports
  BY DEF Captures
<1>2. report \in Reports
  BY <1>1 DEF Reports, Ports
<1>3. Sanitize(c) = [c EXCEPT !.schema = 3, !.created = NormalizedTime, !.port = "normalized",
                              !.report = report, !.metadata = "sanitized"]
  BY DEF Sanitize, Captures
<1> HIDE DEF report
<1>4. Sanitize(c) =
        [schema |-> 3, driver |-> c.driver, operation |-> c.operation,
         command |-> c.command, request |-> c.request, stream |-> c.stream,
         class |-> c.class, timing |-> c.timing, port |-> "normalized",
         created |-> NormalizedTime, metadata |-> "sanitized", report |-> report]
  BY <1>3 DEF Captures
<1> QED BY <1>2, <1>4 DEF Captures, Ports

-----------------------------------------------------------------------------
(* Reading back.                                                           *)

\* What CapturesReadBack asks of one file, and that the reports of captures of
\* schema 1 are of schema 1 too.
Kept(file) ==
    file \notin {NoFile, Garbage} =>
        /\ file.created > 0 => Read(file) = {file}
        /\ file.schema = 1 => file.report.schema = 1

\* A capture that is built reads back, whatever the driver and the analysis
\* make of the stream, and so does it with labels.
LEMMA BuildReadsBack ==
    ASSUME NEW operation \in {"probe", "monitor"}, NEW port \in Ports,
           NEW stream \in Streams, NEW created \in Int
    PROVE  LET c == BuildCapture(operation, port, "bounded", stream, created)
           IN  Kept(c) /\ Kept([c EXCEPT !.metadata = "labels"])
<1> DEFINE c == BuildCapture(operation, port, "bounded", stream, created)
           l == [c EXCEPT !.metadata = "labels"]
<1>1. Consistent(c) /\ c.schema = 3
  BY DEF BuildCapture, Consistent, Report, Request
<1>2. Consistent(l) /\ l.schema = 3
  BY DEF BuildCapture, Consistent, Report, Request
<1> HIDE DEF c, l
<1>3. Kept(c)
  BY <1>1 DEF Kept, Read
<1>4. Kept(l)
  BY <1>2 DEF Kept, Read
<1> QED BY <1>3, <1>4 DEF c, l

\* A capture of a current schema that was read is clean once sanitized.
LEMMA SanitizeValidates ==
    ASSUME NEW c \in Captures, Consistent(c)
    PROVE  Validate(Sanitize(c)) = "valid"
<1> DEFINE s == Sanitize(c)
<1>1. c.report \in Reports
  BY DEF Captures
<1>2. /\ s.schema = 3 /\ s.driver = c.driver /\ s.operation = c.operation
      /\ s.command = c.command /\ s.request = c.request /\ s.stream = c.stream
      /\ s.class = c.class /\ s.timing = c.timing
      /\ s.port = "normalized" /\ s.created = NormalizedTime
      /\ s.report = [c.report EXCEPT !.port = "normalized"]
  BY DEF Sanitize, Captures
<1>3. /\ s.report.port = "normalized" /\ s.report.schema = c.report.schema
      /\ s.report.timing = c.report.timing /\ s.report.transport = c.report.transport
      /\ s.report.received = c.report.received /\ s.report.complete = c.report.complete
  BY <1>1, <1>2 DEF Reports
<1>4. Consistent(s)
  BY <1>2, <1>3 DEF Consistent
<1>5. s \notin {NoFile, Garbage}
  <2>1. "driver" \in DOMAIN s
    BY SanitizeType DEF Captures
  <2>2. "driver" \notin DOMAIN NoFile /\ "driver" \notin DOMAIN Garbage
    BY DEF NoFile, Garbage
  <2> HIDE DEF s
  <2> QED BY <2>1, <2>2
<1> HIDE DEF s
<1>6. Read(s) = {s}
  BY <1>2, <1>4, <1>5 DEF Read
<1>7. ~MachineMetadata(s)
  BY <1>2 DEF MachineMetadata
<1>8. Validate(s) = "valid"
  BY <1>6, <1>7 DEF Validate
<1> QED BY <1>8 DEF s

-----------------------------------------------------------------------------
(* The runs.                                                               *)

\* What each program counter says of the rest of the state.
PhaseOK ==
    /\ pc = "exchange" => job \in RadioJobs
    /\ pc \in {"write", "replace"} => held \in Captures
    /\ exit # "none" => pc = "idle"

FilesInv ==
    /\ TypeOK
    /\ PhaseOK
    /\ \A p \in Paths : Kept(files[p])
    /\ Kept(held)

LEMMA Bounds == MaxAttempts \in Nat \ {0} /\ MaxRuns \in Nat /\ 1..MaxAttempts \subseteq Paths
BY FilesAssumption

\* A file that is there in the beginning was made by no run.
LEMMA FilesInit == Init => FilesInv
<1> SUFFICES ASSUME Init PROVE FilesInv
  OBVIOUS
<1>1. files \in [Paths -> Captures \cup {NoFile, Garbage}]
  BY FilesAssumption DEF Init
<1>2. TypeOK
  <2>1. runs = 0 /\ attempt = 1 /\ 0 \in 0..MaxRuns /\ 1 \in 1..MaxAttempts
    BY Bounds DEF Init
  <2> QED BY <1>1, <2>1 DEF Init, TypeOK, Exits
<1>3. \A p \in Paths : Kept(files[p])
  <2> TAKE p \in Paths
  <2>1. \/ files[p] \in {NoFile, Garbage}
        \/ files[p].created <= 0 /\ (files[p].schema = 1 => files[p].report.schema = 1)
    BY FilesAssumption DEF Init
  <2>2. files[p] \in Captures \cup {NoFile, Garbage}
    BY <1>1
  <2>3. files[p] \in Captures => files[p].created \in Int
    BY DEF Captures
  <2> QED BY <2>1, <2>2, <2>3 DEF Kept
<1>4. Kept(held)
  BY DEF Init, Kept
<1> QED BY <1>2, <1>3, <1>4 DEF FilesInv, PhaseOK, Init

\* The capture of an attempt.
LEMMA ListenKeeps == FilesInv /\ Listen => FilesInv'
<1> SUFFICES ASSUME FilesInv, Listen PROVE FilesInv'
  OBVIOUS
<1> USE DEF FilesInv, TypeOK, PhaseOK
<1>1. job \in RadioJobs
  BY DEF Listen
<1>2. /\ job.port \in Ports /\ job.timing = "bounded" /\ "bounded" \in Timings
      /\ Operation \in {"probe", "monitor"} /\ runs \in Int
  BY <1>1, FilesAssumption DEF Listen, RadioJobs, Jobs, Ports, Timings, Operation
<1>3. PICK stream \in Heard :
        held' = Labelled(BuildCapture(Operation, job.port, job.timing, stream, runs))
  BY DEF Listen
<1> DEFINE c == BuildCapture(Operation, job.port, "bounded", stream, runs)
<1>4. stream \in Streams
  BY FilesAssumption
<1>5. c \in Captures
  BY <1>2, <1>4, BuildType
<1>6. Kept(c) /\ Kept([c EXCEPT !.metadata = "labels"])
  BY <1>2, <1>4, BuildReadsBack
<1> HIDE DEF c
<1>7. held' \in {c, [c EXCEPT !.metadata = "labels"]}
  BY <1>2, <1>3 DEF Labelled, c
<1>8. [c EXCEPT !.metadata = "labels"] \in Captures
  BY <1>5 DEF Captures
<1>9. held' \in Captures /\ Kept(held')
  BY <1>5, <1>6, <1>7, <1>8
<1> QED BY <1>9 DEF Listen, Kept

\* A sanitization reads a capture and makes a capture that no run made.
LEMMA StartSanitizeKeeps == FilesInv /\ StartSanitize => FilesInv'
<1> SUFFICES ASSUME FilesInv, StartSanitize PROVE FilesInv'
  OBVIOUS
<1> USE DEF FilesInv, TypeOK, PhaseOK
<1>1. PICK input \in Paths, output \in Paths :
        /\ job' = [command |-> "sanitize", input |-> input, output |-> output]
        /\ IF Read(files[input]) = {}
           THEN held' = NoFile /\ Exit("3")
           ELSE /\ \E c \in Read(files[input]) : held' = Sanitize(c)
                /\ pc' = "write" /\ exit' = "none"
  BY DEF StartSanitize
<1>2. job' \in Sanitizations
  BY <1>1 DEF Sanitizations
<1>3. runs' \in 0..MaxRuns /\ attempt' \in 1..MaxAttempts /\ failing' \in BOOLEAN
  <2>1. runs \in 0..MaxRuns /\ runs < MaxRuns /\ runs' = runs + 1
    BY DEF StartSanitize
  <2>2. attempt' = 1 /\ failing' = FALSE
    BY DEF StartSanitize
  <2>3. runs' \in 0..MaxRuns
    BY <2>1, Bounds
  <2>4. attempt' \in 1..MaxAttempts
    BY <2>2, Bounds
  <2> QED BY <2>2, <2>3, <2>4
<1>4. files' = files
  BY DEF StartSanitize
<1>5. CASE Read(files[input]) = {}
  <2>1. held' = NoFile /\ pc' = "idle" /\ exit' = "3"
    BY <1>1, <1>5 DEF Exit
  <2>2. Kept(held')
    BY <2>1 DEF Kept
  <2> QED BY <1>2, <1>3, <1>4, <2>1, <2>2 DEF Exits, Kept
<1>6. CASE Read(files[input]) # {}
  <2>1. PICK c \in Read(files[input]) : held' = Sanitize(c)
    BY <1>1, <1>6
  <2>2. c \in Captures
    BY ReadType
  <2>3. held' \in Captures /\ held'.created = -1 /\ held'.schema = 3
    BY <2>1, <2>2, SanitizeType
  <2>4. Kept(held')
    BY <2>3 DEF Kept
  <2>5. pc' = "write" /\ exit' = "none"
    BY <1>1, <1>6
  <2> QED BY <1>2, <1>3, <1>4, <2>3, <2>4, <2>5 DEF Exits, Kept
<1> QED BY <1>5, <1>6

\* The file of an attempt, or of a sanitization, is replaced by what is held.
LEMMA ReplaceKeeps == FilesInv /\ Replace => FilesInv'
<1> SUFFICES ASSUME FilesInv, Replace PROVE FilesInv'
  OBVIOUS
<1> USE DEF FilesInv, TypeOK, PhaseOK
<1>1. held \in Captures
  BY DEF Replace
<1>2. files' \in [Paths -> Captures \cup {NoFile, Garbage}]
  BY <1>1 DEF Replace
<1>3. \A p \in Paths : files'[p] \in {files[p], held}
  BY DEF Replace
<1>4. \A p \in Paths : Kept(files'[p])
  BY <1>3
<1> QED BY <1>1, <1>2, <1>4 DEF Replace, Kept

\* The inductive step, action by action.
LEMMA FilesStep == FilesInv /\ [Next]_vars => FilesInv'
<1> SUFFICES ASSUME FilesInv, [Next]_vars PROVE FilesInv'
  OBVIOUS
<1>1. CASE Start
  <2>1. runs' \in 0..MaxRuns /\ job' \in RadioJobs /\ attempt' \in 1..MaxAttempts
    BY <1>1, FilesAssumption DEF Start, FilesInv, TypeOK
  <2>2. Kept(held')
    BY <1>1 DEF Start, Kept
  <2> QED BY <1>1, <2>1, <2>2 DEF Start, FilesInv, TypeOK, PhaseOK, Exits, Kept
<1>2. CASE StartSanitize
  BY <1>2, StartSanitizeKeeps
<1>3. CASE Listen
  BY <1>3, ListenKeeps
<1>4. CASE Replace
  BY <1>4, ReplaceKeeps
<1>5. CASE NextAttempt
  <2>1. job \in RadioJobs
    BY <1>5 DEF NextAttempt, FilesInv, TypeOK, Sanitizations, NoJob
  <2>2. attempt' \in 1..MaxAttempts
    BY <1>5, <2>1, FilesAssumption DEF NextAttempt, FilesInv, TypeOK, RadioJobs, Jobs
  <2> QED BY <1>5, <2>1, <2>2 DEF NextAttempt, FilesInv, TypeOK, PhaseOK, Kept
<1>6. CASE WriteTemporary
  BY <1>6 DEF WriteTemporary, FilesInv, TypeOK, PhaseOK, Kept
<1>7. CASE \/ NoPort \/ RefuseTiming \/ ExchangeFails \/ WriteFails
           \/ ProbeVerdict \/ MonitorVerdict \/ LastAttempt \/ Verify \/ Kill
  <2>1. \E code \in Exits : Exit(code)
    BY <1>7 DEF NoPort, RefuseTiming, ExchangeFails, WriteFails, ProbeVerdict,
                MonitorVerdict, LastAttempt, Verify, Kill, ProbeExit, MonitorExit, Exits
  <2>2. UNCHANGED <<files, runs, job, attempt, held>> /\ failing' \in BOOLEAN
    BY <1>7 DEF NoPort, RefuseTiming, ExchangeFails, WriteFails, ProbeVerdict,
                MonitorVerdict, LastAttempt, Verify, Kill, FilesInv, TypeOK
  <2>3. pc' = "idle" /\ exit' \in Exits
    BY <2>1 DEF Exit
  <2> QED BY <2>2, <2>3 DEF FilesInv, TypeOK, PhaseOK, Kept
<1>8. CASE UNCHANGED vars
  BY <1>8 DEF vars, FilesInv, TypeOK, PhaseOK, Kept
<1> QED
  BY <1>1, <1>2, <1>3, <1>4, <1>5, <1>6, <1>7, <1>8 DEF Next, Step, Finished

\* The types of a run hold throughout.
THEOREM FilesTypeCorrect == Spec => []TypeOK
<1>1. FilesInv => TypeOK
  BY DEF FilesInv
<1> QED BY FilesInit, FilesStep, <1>1, PTL DEF Spec

\* Every capture a run keeps can be read back, and is what was kept.
THEOREM KeptCapturesReadBack == Spec => []CapturesReadBack
<1>1. FilesInv => CapturesReadBack
  BY DEF FilesInv, CapturesReadBack, Kept, Made
<1> QED BY FilesInit, FilesStep, <1>1, PTL DEF Spec

-----------------------------------------------------------------------------
(* Sanitization.                                                           *)

\* The output of the run is the sanitized form of what its input reads as.
Derived(file) == \E c \in Read(files[job.input]) : file = Sanitize(c)

SanitizeInv ==
    job.command = "sanitize" =>
        /\ job \in Sanitizations /\ job.input # job.output
        /\ pc \in {"write", "replace"} => Derived(held)
        /\ pc = "verify" \/ exit = "0" => Derived(files[job.output])
        /\ exit = "0" => /\ Validate(files[job.output]) = "valid"
                         /\ Read(files[job.input]) # {} /\ files[job.input].schema # 1
        /\ exit = "3" /\ ~failing =>
            Read(files[job.input]) = {} \/ files[job.input].schema = 1

\* A derived file is clean, unless its source was of schema 1.
LEMMA DerivedValidates ==
    ASSUME FilesInv, job \in Sanitizations, NEW file, Derived(file),
           files[job.input].schema # 1
    PROVE  Validate(file) = "valid"
<1>1. PICK c \in Read(files[job.input]) : file = Sanitize(c)
  BY DEF Derived
<1>2. files[job.input] \in Captures \cup {NoFile, Garbage}
  BY DEF FilesInv, TypeOK, Sanitizations
<1>3. c \in Captures
  BY <1>2, ReadType
<1>4. Consistent(c)
  BY <1>1 DEF Read
<1> QED BY <1>1, <1>3, <1>4, SanitizeValidates

\* A derived file whose source was of schema 1 is refused.
LEMMA HistoricalIsRefused ==
    ASSUME FilesInv, job \in Sanitizations, NEW file, Derived(file),
           files[job.input].schema = 1
    PROVE  Validate(file) # "valid"
<1>1. PICK c \in Read(files[job.input]) : file = Sanitize(c)
  BY DEF Derived
<1>2. /\ files[job.input] \in Captures \cup {NoFile, Garbage}
      /\ files[job.input] \notin {NoFile, Garbage} /\ Kept(files[job.input])
  BY <1>1 DEF FilesInv, TypeOK, Sanitizations, Read
<1>3. c \in Captures /\ c.report.schema = 1
  <2>1. c.report = files[job.input].report
    BY <1>1, <1>2 DEF Read, Captures
  <2> QED
    BY <1>2, <2>1, ReadType DEF Kept
<1>4. file.report.schema = 1 /\ file.schema = 3
  <2>1. c.report \in Reports
    BY <1>3 DEF Captures
  <2> QED
    BY <1>1, <1>3, <2>1 DEF Sanitize, Captures, Reports
<1>5. Read(file) = {}
  BY <1>4 DEF Read, Consistent
<1> QED
  BY <1>5 DEF Validate

LEMMA SanitizeInit == Init => SanitizeInv
BY DEF Init, NoJob, SanitizeInv

LEMMA SanitizeStep == FilesInv /\ SanitizeInv /\ [Next]_vars => SanitizeInv'
<1> SUFFICES ASSUME FilesInv, SanitizeInv, [Next]_vars, job'.command = "sanitize"
             PROVE  SanitizeInv'
  BY DEF SanitizeInv
<1>1. CASE Start
  BY <1>1 DEF Start, RadioJobs, Jobs, Radio
<1>2. CASE StartSanitize
  <2>1. PICK input \in Paths, output \in Paths :
          /\ input # output
          /\ job' = [command |-> "sanitize", input |-> input, output |-> output]
          /\ IF Read(files[input]) = {}
             THEN held' = NoFile /\ Exit("3")
             ELSE /\ \E c \in Read(files[input]) : held' = Sanitize(c)
                  /\ pc' = "write" /\ exit' = "none"
    BY <1>2 DEF StartSanitize
  <2>2. job' \in Sanitizations /\ job'.input # job'.output /\ job'.input = input
    BY <2>1 DEF Sanitizations
  <2>3. files' = files
    BY <1>2 DEF StartSanitize
  <2>4. CASE Read(files[input]) = {}
    <3>1. pc' = "idle" /\ exit' = "3"
      BY <2>1, <2>4 DEF Exit
    <3> QED BY <2>2, <2>3, <2>4, <3>1 DEF SanitizeInv
  <2>5. CASE Read(files[input]) # {}
    <3>1. pc' = "write" /\ exit' = "none"
      BY <2>1, <2>5
    <3>2. \E c \in Read(files[input]) : held' = Sanitize(c)
      BY <2>1, <2>5
    <3>3. Derived(held)'
      BY <2>2, <2>3, <3>2 DEF Derived
    <3> QED BY <2>2, <3>1, <3>3 DEF SanitizeInv
  <2> QED BY <2>4, <2>5
<1>3. CASE WriteTemporary
  BY <1>3 DEF WriteTemporary, SanitizeInv, Derived
<1>4. CASE Replace
  <2>1. job' = job /\ held' = held /\ failing' = failing /\ exit' = exit
    BY <1>4 DEF Replace
  <2>2. job \in Sanitizations /\ job.input # job.output /\ Derived(held)
    BY <1>4, <2>1 DEF Replace, SanitizeInv
  <2>3. exit = "none"
    BY <1>4 DEF Replace, FilesInv, PhaseOK
  <2>4. files'[job.output] = held /\ files'[job.input] = files[job.input]
    BY <1>4, <2>1, <2>2 DEF Replace, Target, FilesInv, TypeOK, Sanitizations
  <2>5. pc' = "verify"
    BY <1>4, <2>1 DEF Replace
  <2>6. Derived(files[job.output])'
    BY <2>1, <2>2, <2>4 DEF Derived
  <2> QED BY <2>1, <2>2, <2>3, <2>5, <2>6 DEF SanitizeInv
<1>5. CASE Verify
  <2>1. job' = job /\ files' = files /\ failing' = failing /\ pc' = "idle"
    BY <1>5 DEF Verify, Exit
  <2>2. job \in Sanitizations /\ job.input # job.output /\ Derived(files[job.output])
    BY <1>5, <2>1 DEF Verify, SanitizeInv
  <2>3. exit' = IF Validate(files[job.output]) = "valid" THEN "0" ELSE "3"
    BY <1>5 DEF Verify, Exit
  <2>4. Derived(files[job.output])'
    BY <2>1, <2>2 DEF Derived
  <2>5. exit' = "3" => files[job.input].schema = 1
    BY <2>2, <2>3, DerivedValidates
  <2>6. exit' = "0" => Read(files[job.input]) # {} /\ files[job.input].schema # 1
    BY <2>2, <2>3, HistoricalIsRefused DEF Derived
  <2> QED BY <2>1, <2>2, <2>3, <2>4, <2>5, <2>6 DEF SanitizeInv
<1>6. CASE WriteFails
  <2>1. job' = job /\ files' = files /\ held' = held /\ failing' = TRUE /\ pc' = "idle"
    BY <1>6 DEF WriteFails, Exit
  <2>2. exit' # "0"
    BY <1>6 DEF WriteFails, Exit
  <2> QED BY <2>1, <2>2 DEF SanitizeInv, Derived
<1>7. CASE Kill
  <2>1. job' = job /\ files' = files /\ pc' = "idle" /\ exit' = "killed"
    BY <1>7 DEF Kill, Exit
  <2> QED BY <2>1 DEF SanitizeInv, Derived
<1>8. CASE NoPort \/ Listen \/ RefuseTiming \/ ExchangeFails
  <2>1. pc = "exchange" /\ job' = job
    BY <1>8 DEF NoPort, Listen, RefuseTiming, ExchangeFails
  <2> QED BY <2>1 DEF FilesInv, PhaseOK, RadioJobs, Jobs, Radio
<1>9. CASE ProbeVerdict \/ MonitorVerdict \/ NextAttempt \/ LastAttempt
  BY <1>9 DEF ProbeVerdict, MonitorVerdict, NextAttempt, LastAttempt
<1>10. CASE UNCHANGED vars
  BY <1>10 DEF vars, SanitizeInv, Derived
<1> QED
  BY <1>1, <1>2, <1>3, <1>4, <1>5, <1>6, <1>7, <1>8, <1>9, <1>10 DEF Next, Step, Finished

\* A sanitization that reports success left a clean file with the bytes of
\* its input, and the input as it was.
THEOREM SanitizedFilesClean == Spec => []SanitizedFilesAreClean
<1>1. FilesInv /\ SanitizeInv => SanitizedFilesAreClean
  <2> SUFFICES ASSUME FilesInv, SanitizeInv, job.command = "sanitize", exit = "0"
               PROVE  /\ Validate(files[job.output]) = "valid"
                      /\ \E c \in Read(files[job.input]) :
                          /\ files[job.output].stream = c.stream
                          /\ files[job.output].request = c.request
                          /\ files[job.output].class = c.class
    BY DEF SanitizedFilesAreClean
  <2>1. Validate(files[job.output]) = "valid"
    BY DEF SanitizeInv
  <2>2. PICK c \in Read(files[job.input]) : files[job.output] = Sanitize(c)
    BY DEF SanitizeInv, Derived
  <2>3. c \in Captures
    BY ReadType DEF SanitizeInv, Sanitizations, FilesInv, TypeOK
  <2>4. /\ Sanitize(c).stream = c.stream /\ Sanitize(c).request = c.request
        /\ Sanitize(c).class = c.class
    BY <2>3 DEF Sanitize, Captures
  <2> QED BY <2>1, <2>2, <2>4
<1> QED BY FilesInit, FilesStep, SanitizeInit, SanitizeStep, <1>1, PTL DEF Spec

\* The readable captures of schema 2 and 3, and no others, are sanitized, unless
\* the disk fails.
THEOREM CurrentMigrates == Spec => []CurrentCapturesMigrate
<1>1. SanitizeInv => CurrentCapturesMigrate
  BY DEF SanitizeInv, CurrentCapturesMigrate
<1> QED BY FilesInit, FilesStep, SanitizeInit, SanitizeStep, <1>1, PTL DEF Spec

-----------------------------------------------------------------------------
(* Attempts and verdicts.                                                  *)

\* The run has kept the captures of its first n attempts, if it keeps any.
Saved(n) == OwnFiles = IF job.saving THEN 1..n ELSE {}

\* A capture of this run that the exit code may be taken from.
Telling(c) ==
    /\ c \in Captures /\ c.created = runs
    /\ c.report.message \in {"firmware-identification-response", "bootloader-response"} =>
        c.report.complete
    /\ Operation = "monitor" => (c.report.received <=> c.report.message # "no-response")

RunInv ==
    /\ job \in RadioJobs /\ runs > 0 /\ attempt <= job.attempts /\ pc # "verify"
    /\ pc \in {"exchange", "write", "replace"} => Saved(attempt - 1)
    /\ pc \in {"write", "replace"} => job.saving
    /\ pc \in {"write", "replace", "verdict"} => Telling(held)
    /\ pc = "verdict" => Saved(attempt) /\ (job.saving => files[attempt] = held)
    /\ pc = "idle" => Saved(attempt) \/ Saved(attempt - 1)
    /\ exit = "0" => attempt = job.attempts /\ Saved(attempt)

AttemptsInv ==
    /\ \A p \in Paths : files[p] \notin {NoFile, Garbage} => files[p].created <= runs
    /\ pc \in {"write", "replace"} => held.created <= runs
    /\ job.command \in Radio => RunInv
    /\ VerdictsHaveEvidence

\* A capture is neither no file nor garbage.
LEMMA CapturesAreFiles ==
    ASSUME NEW c \in Captures
    PROVE  c \notin {NoFile, Garbage}
<1>1. "driver" \in DOMAIN c
  BY DEF Captures
<1>2. "driver" \notin DOMAIN NoFile /\ "driver" \notin DOMAIN Garbage
  BY DEF NoFile, Garbage
<1> QED BY <1>1, <1>2

\* Nothing is heard exactly when that is the message of the report.
LEMMA SilenceIsReported ==
    ASSUME NEW stream \in Streams
    PROVE  Received(stream) <=> MessageType(Analysis(stream, "nothing")) # "no-response"
<1>1. PICK a \in Analyses : stream = [probe |-> a, monitor |-> Unasked(a)]
  BY DEF Streams
<1>2. stream.probe = a /\ Analysis(stream, "nothing") = Unasked(a)
  BY <1>1 DEF Analysis
<1>3. CASE a.class \in {"partial-transmit-echo", "echo-only", "transmit-echo",
                        "echo-followed-by-response"}
  <2>1. a.class # "no-response"
    BY <1>3
  <2>2. MessageType(Unasked(a)) # "no-response"
    BY <1>3 DEF Unasked, EchoUnasked, MessageType, Complete, Framed
  <2> QED BY <1>2, <2>1, <2>2 DEF Received
<1>4. CASE a.class \notin {"partial-transmit-echo", "echo-only", "transmit-echo",
                           "echo-followed-by-response"}
  <2>1. Unasked(a) = a
    BY <1>4 DEF Unasked
  <2>2. CASE a \in [class : Unframed \cup Echoed, message : {"none"}]
    <3>1. a.class \in Unframed \cup Echoed
      BY <2>2
    <3>2. MessageType(a) = a.class
      BY <3>1 DEF MessageType, Complete, Framed, Unframed, Echoed
    <3> QED BY <1>2, <2>1, <3>2 DEF Received
  <2>3. CASE a \in [class : Framed, message : FrameMessages]
    <3>1. a.class \in Framed /\ a.message \in FrameMessages
      BY <2>3
    <3>2. a.class # "no-response" /\ MessageType(a) # "no-response"
      BY <3>1 DEF MessageType, Complete, Framed, FrameMessages
    <3> QED BY <1>2, <2>1, <3>2 DEF Received
  <2> QED BY <2>2, <2>3 DEF Analyses
<1> QED BY <1>3, <1>4

\* What is heard tells.
LEMMA ListenTells ==
    ASSUME FilesInv, Listen
    PROVE  /\ held' \in Captures /\ held'.created = runs
           /\ Telling(held)'
<1>1. job \in RadioJobs /\ runs \in 0..MaxRuns
  BY DEF FilesInv, TypeOK, PhaseOK, Listen
<1>2. /\ job.port \in Ports /\ job.timing = "bounded" /\ "bounded" \in Timings
      /\ Operation \in {"probe", "monitor"} /\ runs \in Int
  BY <1>1, Bounds DEF Listen, RadioJobs, Jobs, Ports, Timings, Operation
<1>3. PICK stream \in Heard :
        held' = Labelled(BuildCapture(Operation, job.port, job.timing, stream, runs))
  BY DEF Listen
<1> DEFINE c == BuildCapture(Operation, job.port, "bounded", stream, runs)
           a == Analysis(stream, Request(Operation))
<1>4. stream \in Streams
  BY FilesAssumption
<1>5. c \in Captures
  BY <1>2, <1>4, BuildType
<1>6. /\ c.created = runs
      /\ c.report.message = MessageType(a) /\ c.report.complete = Complete(a)
      /\ c.report.received = Received(stream)
  BY DEF BuildCapture, Report
<1> HIDE DEF c
<1>7. held' \in {c, [c EXCEPT !.metadata = "labels"]}
  BY <1>2, <1>3 DEF Labelled, c
<1>8. held' \in Captures /\ held'.created = runs /\ held'.report = c.report
  BY <1>5, <1>6, <1>7 DEF Captures
<1>9. MessageType(a) \in {"firmware-identification-response", "bootloader-response"}
        => Complete(a)
  <2>1. a \in Analyses
    BY <1>4, AnalysisType
  <2>2. a.class \in Classifications
    BY <2>1, ClassType
  <2> QED BY <2>2 DEF MessageType, Classifications, Unframed, Echoed, Framed, Complete
<1>10. Operation = "monitor" => (Received(stream) <=> MessageType(a) # "no-response")
  BY <1>4, SilenceIsReported DEF Request
<1>11. Operation' = Operation /\ runs' = runs
  BY DEF Listen, Operation
<1> QED BY <1>6, <1>8, <1>9, <1>10, <1>11 DEF Telling

LEMMA AttemptsInit == Init => AttemptsInv
<1> SUFFICES ASSUME Init PROVE AttemptsInv
  OBVIOUS
<1>1. \A p \in Paths : files[p] \notin {NoFile, Garbage} => files[p].created <= runs
  BY FilesAssumption DEF Init
<1>2. job.command \notin Radio
  BY DEF Init, NoJob, Radio
<1> QED BY <1>1, <1>2 DEF Init, AttemptsInv, VerdictsHaveEvidence, Radio

\* The files that were there before a run are not the run's.
LEMMA StartAttempts == FilesInv /\ AttemptsInv /\ Start => AttemptsInv'
<1> SUFFICES ASSUME FilesInv, AttemptsInv, Start PROVE AttemptsInv'
  OBVIOUS
<1>1. /\ runs \in Nat /\ runs' = runs + 1 /\ files' = files
      /\ job' \in RadioJobs /\ pc' = "exchange" /\ attempt' = 1 /\ exit' = "none"
  BY Bounds DEF Start, FilesInv, TypeOK
<1>2. \A p \in Paths : files[p] \notin {NoFile, Garbage} =>
        files[p] \in Captures /\ files[p].created \in Int /\ files[p].created <= runs
  BY DEF FilesInv, TypeOK, AttemptsInv, Captures
<1>3. OwnFiles' = {}
  BY <1>1, <1>2 DEF OwnFiles, Made
<1>4. job'.attempts \in 1..MaxAttempts
  BY <1>1 DEF RadioJobs, Jobs
<1>5. RunInv'
  BY <1>1, <1>3, <1>4, Bounds DEF RunInv, Saved
<1>6. \A p \in Paths : files'[p] \notin {NoFile, Garbage} => files'[p].created <= runs'
  BY <1>1, <1>2
<1> QED BY <1>1, <1>5, <1>6 DEF AttemptsInv, VerdictsHaveEvidence

LEMMA StartSanitizeAttempts == FilesInv /\ AttemptsInv /\ StartSanitize => AttemptsInv'
<1> SUFFICES ASSUME FilesInv, AttemptsInv, StartSanitize PROVE AttemptsInv'
  OBVIOUS
<1>1. runs \in Nat /\ runs' = runs + 1 /\ files' = files
  BY Bounds DEF StartSanitize, FilesInv, TypeOK
<1>2. \A p \in Paths : files[p] \notin {NoFile, Garbage} =>
        files[p].created \in Int /\ files[p].created <= runs
  BY DEF FilesInv, TypeOK, AttemptsInv, Captures
<1>3. \A p \in Paths : files'[p] \notin {NoFile, Garbage} => files'[p].created <= runs'
  BY <1>1, <1>2
<1>4. PICK input \in Paths :
        /\ job'.command = "sanitize"
        /\ IF Read(files[input]) = {}
           THEN held' = NoFile /\ Exit("3")
           ELSE /\ \E c \in Read(files[input]) : held' = Sanitize(c)
                /\ pc' = "write" /\ exit' = "none"
  BY DEF StartSanitize
<1>5. job'.command \notin Radio
  BY <1>4 DEF Radio
<1>6. pc' \in {"write", "replace"} => held'.created <= runs'
  <2>1. CASE Read(files[input]) = {}
    BY <1>4, <2>1 DEF Exit
  <2>2. CASE Read(files[input]) # {}
    <3>1. PICK c \in Read(files[input]) : held' = Sanitize(c)
      BY <1>4, <2>2
    <3>2. c \in Captures
      BY <3>1, ReadType DEF FilesInv, TypeOK
    <3>3. held'.created = -1
      BY <3>1, <3>2, SanitizeType
    <3> QED BY <1>1, <3>3
  <2> QED BY <2>1, <2>2
<1> QED BY <1>3, <1>4, <1>5, <1>6 DEF AttemptsInv, VerdictsHaveEvidence

\* The file of an attempt joins those of the attempts before.
LEMMA ReplaceAttempts == FilesInv /\ AttemptsInv /\ Replace => AttemptsInv'
<1> SUFFICES ASSUME FilesInv, AttemptsInv, Replace PROVE AttemptsInv'
  OBVIOUS
<1>1. /\ held \in Captures /\ held \notin {NoFile, Garbage} /\ exit = "none"
      /\ files \in [Paths -> Captures \cup {NoFile, Garbage}]
      /\ runs \in Nat /\ attempt \in 1..MaxAttempts /\ attempt \in Paths
  BY CapturesAreFiles, Bounds DEF Replace, FilesInv, TypeOK, PhaseOK
<1>2. /\ UNCHANGED <<runs, job, attempt, held, exit>>
      /\ files' = [files EXCEPT ![Target] = held]
      /\ pc' = IF job.command = "sanitize" THEN "verify" ELSE "verdict"
  BY DEF Replace
<1>3. \A p \in Paths : files'[p] \notin {NoFile, Garbage} => files'[p].created <= runs'
  <2> TAKE p \in Paths
  <2>1. files'[p] \in {files[p], held}
    BY <1>1, <1>2
  <2> QED BY <1>2, <2>1 DEF AttemptsInv, Replace
<1>4. ASSUME job.command \in Radio
      PROVE  RunInv'
  <2>1. RunInv /\ job.command # "sanitize" /\ pc = "replace"
    BY <1>4 DEF AttemptsInv, Radio, Replace
  <2>2. /\ job.saving /\ Saved(attempt - 1) /\ Telling(held) /\ runs > 0
    BY <2>1 DEF RunInv
  <2>3. files' = [files EXCEPT ![attempt] = held] /\ pc' = "verdict"
    BY <1>2, <2>1 DEF Target
  <2>4. held.created = runs
    BY <2>2 DEF Telling
  <2>5. OwnFiles = 1..(attempt - 1)
    BY <2>2 DEF Saved
  <2>6. \A p \in Paths : p \in OwnFiles' <=> p \in OwnFiles \/ p = attempt
    BY <1>1, <1>2, <2>2, <2>3, <2>4 DEF OwnFiles, Made
  <2>7. OwnFiles' = OwnFiles \cup {attempt}
    BY <1>1, <2>6 DEF OwnFiles
  <2>8. OwnFiles' = 1..attempt
    BY <1>1, <2>5, <2>7
  <2>9. files'[attempt] = held
    BY <1>1, <2>3
  <2>10. Telling(held)'
    BY <1>2, <2>2 DEF Telling, Operation
  <2>11. Saved(attempt)'
    BY <1>2, <2>2, <2>8 DEF Saved
  <2> QED BY <1>1, <1>2, <2>1, <2>3, <2>9, <2>10, <2>11 DEF RunInv
<1>5. VerdictsHaveEvidence'
  BY <1>1, <1>2 DEF VerdictsHaveEvidence
<1>6. pc' \notin {"write", "replace"}
  BY <1>2
<1> QED BY <1>2, <1>3, <1>4, <1>5, <1>6 DEF AttemptsInv

\* A serial call returns; nothing of the run changes on disk.
LEMMA ListenAttempts == FilesInv /\ AttemptsInv /\ Listen => AttemptsInv'
<1> SUFFICES ASSUME FilesInv, AttemptsInv, Listen PROVE AttemptsInv'
  OBVIOUS
<1>1. /\ UNCHANGED <<files, runs, job, attempt, exit>> /\ pc = "exchange"
      /\ pc' = IF job.saving THEN "write" ELSE "verdict"
      /\ job \in RadioJobs /\ exit = "none"
  BY DEF Listen, FilesInv, PhaseOK
<1>2. job.command \in Radio /\ job.saving \in BOOLEAN
  BY <1>1 DEF RadioJobs, Jobs
<1>3. RunInv /\ Saved(attempt - 1)
  BY <1>1, <1>2 DEF AttemptsInv, RunInv
<1>4. held'.created = runs /\ Telling(held)' /\ runs \in Nat
  BY ListenTells, Bounds DEF FilesInv, TypeOK
<1>5. OwnFiles' = OwnFiles
  BY <1>1 DEF OwnFiles, Made
<1>6. RunInv'
  BY <1>1, <1>2, <1>3, <1>4, <1>5 DEF RunInv, Saved
<1> QED BY <1>1, <1>4, <1>6 DEF AttemptsInv, VerdictsHaveEvidence

\* A run ends: what its exit code must be about, by the step that gives it.
LEMMA EndAttempts ==
    ASSUME FilesInv, AttemptsInv, pc # "idle", pc' = "idle",
           UNCHANGED <<files, runs, job, attempt, held>>,
           job.command \in Radio => (exit' = "0" => attempt = job.attempts /\ Saved(attempt)),
           VerdictsHaveEvidence'
    PROVE  AttemptsInv'
<1>1. OwnFiles' = OwnFiles
  BY DEF OwnFiles, Made
<1>2. ASSUME job.command \in Radio PROVE RunInv'
  <2>1. RunInv
    BY <1>2 DEF AttemptsInv
  <2>2. pc \in {"exchange", "write", "replace", "verdict"}
    BY <2>1 DEF RunInv, FilesInv, TypeOK
  <2>3. Saved(attempt) \/ Saved(attempt - 1)
    BY <2>1, <2>2 DEF RunInv
  <2> QED BY <1>1, <1>2, <2>1, <2>3 DEF RunInv, Saved
<1> QED BY <1>2 DEF AttemptsInv

\* One attempt of a probe or a monitor, whose capture is on disk if it is kept.
LEMMA OneAttempt ==
    ASSUME FilesInv, AttemptsInv, pc = "verdict", job.command \in {"probe", "monitor"}
    PROVE  /\ attempt = 1 /\ job.attempts = 1 /\ Saved(attempt)
           /\ Telling(held)
           /\ job.saving => OwnFiles = {1} /\ files[1] = held
<1>1. RunInv
  BY DEF AttemptsInv, Radio
<1>2. job.attempts = 1
  BY <1>1 DEF RunInv, RadioJobs
<1>3. attempt = 1
  BY <1>1, <1>2, Bounds DEF RunInv, FilesInv, TypeOK
<1>4. Saved(attempt) /\ Telling(held) /\ (job.saving => files[attempt] = held)
  BY <1>1 DEF RunInv
<1>5. 1..1 = {1}
  OBVIOUS
<1> QED BY <1>2, <1>3, <1>4, <1>5 DEF Saved

LEMMA ProbeVerdictAttempts == FilesInv /\ AttemptsInv /\ ProbeVerdict => AttemptsInv'
<1> SUFFICES ASSUME FilesInv, AttemptsInv, ProbeVerdict PROVE AttemptsInv'
  OBVIOUS
<1>1. /\ UNCHANGED <<files, runs, job, attempt, held>> /\ pc = "verdict" /\ pc' = "idle"
      /\ job.command = "probe" /\ exit' \in {"2", "3", ProbeExit(held.report.message)}
      /\ exit' # "2" => exit' \in {"3", ProbeExit(held.report.message)}
  BY DEF ProbeVerdict, Exit
<1>2. /\ attempt = 1 /\ job.attempts = 1 /\ Saved(attempt) /\ Telling(held)
      /\ job.saving => OwnFiles = {1} /\ files[1] = held
  BY <1>1, OneAttempt
<1>3. OwnFiles' = OwnFiles
  BY <1>1 DEF OwnFiles, Made
<1>4. exit' = "0" => held.report.complete
  BY <1>1, <1>2 DEF Telling, ProbeExit
<1>5. VerdictsHaveEvidence'
  BY <1>1, <1>2, <1>3, <1>4 DEF VerdictsHaveEvidence
<1> QED BY <1>1, <1>2, <1>5, EndAttempts

LEMMA MonitorVerdictAttempts == FilesInv /\ AttemptsInv /\ MonitorVerdict => AttemptsInv'
<1> SUFFICES ASSUME FilesInv, AttemptsInv, MonitorVerdict PROVE AttemptsInv'
  OBVIOUS
<1>1. /\ UNCHANGED <<files, runs, job, attempt, held>> /\ pc = "verdict" /\ pc' = "idle"
      /\ job.command = "monitor" /\ exit' = MonitorExit(held.report.message)
  BY DEF MonitorVerdict, Exit
<1>2. /\ attempt = 1 /\ job.attempts = 1 /\ Saved(attempt) /\ Telling(held)
      /\ job.saving => OwnFiles = {1} /\ files[1] = held
  BY <1>1, OneAttempt
<1>3. OwnFiles' = OwnFiles
  BY <1>1 DEF OwnFiles, Made
<1>4. exit' = "0" <=> held.report.received
  BY <1>1, <1>2 DEF Telling, MonitorExit, Operation
<1>5. VerdictsHaveEvidence'
  BY <1>1, <1>2, <1>3, <1>4 DEF VerdictsHaveEvidence
<1> QED BY <1>1, <1>2, <1>5, EndAttempts

\* The next attempt finds the captures of all those before it.
LEMMA NextAttemptAttempts == FilesInv /\ AttemptsInv /\ NextAttempt => AttemptsInv'
<1> SUFFICES ASSUME FilesInv, AttemptsInv, NextAttempt PROVE AttemptsInv'
  OBVIOUS
<1>1. /\ UNCHANGED <<files, runs, job, held, exit>> /\ pc = "verdict" /\ pc' = "exchange"
      /\ attempt' = attempt + 1 /\ attempt < job.attempts
      /\ job.command \in {"matrix", "evidence-probe"}
      /\ exit = "none" /\ attempt \in Nat
  BY Bounds DEF NextAttempt, FilesInv, TypeOK, PhaseOK
<1>2. RunInv /\ job.attempts \in Nat
  BY <1>1, Bounds DEF AttemptsInv, Radio, RunInv, RadioJobs, Jobs
<1>3. Saved(attempt) /\ attempt' - 1 = attempt
  BY <1>1, <1>2 DEF RunInv
<1>4. OwnFiles' = OwnFiles
  BY <1>1 DEF OwnFiles, Made
<1>5. RunInv'
  BY <1>1, <1>2, <1>3, <1>4 DEF RunInv, Saved
<1> QED BY <1>1, <1>5 DEF AttemptsInv, VerdictsHaveEvidence

\* The inductive step, action by action.
LEMMA AttemptsStep == FilesInv /\ AttemptsInv /\ [Next]_vars => AttemptsInv'
<1> SUFFICES ASSUME FilesInv, AttemptsInv, [Next]_vars PROVE AttemptsInv'
  OBVIOUS
<1>1. CASE Start
  BY <1>1, StartAttempts
<1>2. CASE StartSanitize
  BY <1>2, StartSanitizeAttempts
<1>3. CASE Listen
  BY <1>3, ListenAttempts
<1>4. CASE WriteTemporary
  <2>1. /\ UNCHANGED <<files, runs, job, attempt, held, exit>>
        /\ pc = "write" /\ pc' = "replace" /\ exit = "none"
    BY <1>4 DEF WriteTemporary, FilesInv, PhaseOK
  <2>2. OwnFiles' = OwnFiles
    BY <2>1 DEF OwnFiles, Made
  <2>3. Telling(held) => Telling(held)'
    BY <2>1 DEF Telling, Operation
  <2>4. job.command \in Radio => RunInv'
    BY <2>1, <2>2, <2>3 DEF AttemptsInv, RunInv, Saved
  <2> QED BY <2>1, <2>4 DEF AttemptsInv, VerdictsHaveEvidence
<1>5. CASE Replace
  BY <1>5, ReplaceAttempts
<1>6. CASE ProbeVerdict
  BY <1>6, ProbeVerdictAttempts
<1>7. CASE MonitorVerdict
  BY <1>7, MonitorVerdictAttempts
<1>8. CASE NextAttempt
  BY <1>8, NextAttemptAttempts
<1>9. CASE LastAttempt
  <2>1. /\ UNCHANGED <<files, runs, job, attempt, held>> /\ pc = "verdict" /\ pc' = "idle"
        /\ attempt = job.attempts /\ exit' = "0"
        /\ job.command \in {"matrix", "evidence-probe"}
    BY <1>9 DEF LastAttempt, Exit
  <2>2. Saved(attempt)
    BY <2>1 DEF AttemptsInv, Radio, RunInv
  <2>3. VerdictsHaveEvidence'
    BY <2>1 DEF VerdictsHaveEvidence
  <2> QED BY <2>1, <2>2, <2>3, EndAttempts
<1>10. CASE NoPort \/ RefuseTiming \/ ExchangeFails \/ WriteFails \/ Kill
  <2>1. /\ UNCHANGED <<files, runs, job, attempt, held>> /\ pc # "idle" /\ pc' = "idle"
    BY <1>10 DEF NoPort, RefuseTiming, ExchangeFails, WriteFails, Kill, Exit
  <2>2. /\ exit' \in {"2", "3", "traceback", "killed"}
        /\ exit' = "3" => job.command = "sanitize"
    BY <1>10 DEF NoPort, RefuseTiming, ExchangeFails, WriteFails, Kill, Exit
  <2>3. VerdictsHaveEvidence'
    BY <2>1, <2>2 DEF VerdictsHaveEvidence
  <2> QED BY <2>1, <2>2, <2>3, EndAttempts
<1>11. CASE Verify
  <2>1. /\ UNCHANGED <<files, runs, job, attempt, held>> /\ pc = "verify" /\ pc' = "idle"
    BY <1>11 DEF Verify, Exit
  <2>2. job.command \notin Radio
    BY <2>1 DEF AttemptsInv, RunInv
  <2>3. VerdictsHaveEvidence'
    BY <2>1, <2>2 DEF VerdictsHaveEvidence, Radio
  <2> QED BY <2>1, <2>2, <2>3, EndAttempts
<1>12. CASE UNCHANGED vars
  BY <1>12 DEF vars, AttemptsInv, RunInv, Saved, OwnFiles, Made, Telling, Operation,
               VerdictsHaveEvidence
<1> QED
  BY <1>1, <1>2, <1>3, <1>4, <1>5, <1>6, <1>7, <1>8, <1>9, <1>10, <1>11, <1>12
  DEF Next, Step, Finished

\* However a run ends, its captures are those of its first attempts, without
\* a gap, and all of them when it ends well.
THEOREM AttemptsPrefix == Spec => []AttemptsAreAPrefix
<1>1. FilesInv /\ AttemptsInv => AttemptsAreAPrefix
  <2> SUFFICES ASSUME FilesInv, AttemptsInv, job.command \in Radio
               PROVE  /\ \E n \in 0..attempt :
                            n >= (IF job.saving THEN attempt - 1 ELSE 0) /\ OwnFiles = 1..n
                      /\ exit = "0" /\ job.saving => OwnFiles = 1..job.attempts
    BY DEF AttemptsAreAPrefix
  <2>1. RunInv /\ attempt \in Nat \ {0}
    BY Bounds DEF AttemptsInv, FilesInv, TypeOK
  <2>2. Saved(attempt) \/ Saved(attempt - 1)
    BY <2>1 DEF RunInv, FilesInv, TypeOK
  <2>3. CASE job.saving
    <3>1. OwnFiles = 1..attempt \/ OwnFiles = 1..(attempt - 1)
      BY <2>2, <2>3 DEF Saved
    <3>2. attempt \in 0..attempt /\ attempt - 1 \in 0..attempt
      BY <2>1
    <3>3. exit = "0" => OwnFiles = 1..job.attempts
      BY <2>1, <2>3 DEF RunInv, Saved
    <3> QED BY <2>1, <2>3, <3>1, <3>2, <3>3
  <2>4. CASE ~job.saving
    <3>1. OwnFiles = {}
      BY <2>2, <2>4 DEF Saved
    <3>2. OwnFiles = 1..0 /\ 0 \in 0..attempt
      BY <2>1, <3>1
    <3> QED BY <2>4, <3>2
  <2> QED BY <2>3, <2>4
<1> QED BY FilesInit, FilesStep, AttemptsInit, AttemptsStep, <1>1, PTL DEF Spec

\* An exit code that a run gives is the one its capture on disk calls for.
THEOREM VerdictsEvidenced == Spec => []VerdictsHaveEvidence
<1>1. AttemptsInv => VerdictsHaveEvidence
  BY DEF AttemptsInv
<1> QED BY FilesInit, FilesStep, AttemptsInit, AttemptsStep, <1>1, PTL DEF Spec
=============================================================================
