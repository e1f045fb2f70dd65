----------------------------- MODULE CaptureFiles -----------------------------
(***************************************************************************)
(* The commands that talk to a radio and keep what they heard (cli.py:     *)
(* probe, monitor, matrix, evidence-probe) and the one that sanitizes a    *)
(* file, as a sequence of runs over one directory of captures.             *)
(*                                                                         *)
(* A run repeats attempts; each ends in a capture, and the capture of      *)
(* attempt n goes to the n-th file of the run.  A run can fail at each     *)
(* step and be killed between any two.  One serial call is one step        *)
(* (SerialTransport has its detail); so is the replacement of a file.      *)
(***************************************************************************)
EXTENDS Capture, FiniteSets

CONSTANTS
    Heard,          \* the streams a radio may send
    Paths,          \* file n is that of attempt n
    InitialFiles,   \* what earlier versions and other machines left there
    MaxAttempts,    \* bound: attempts of one run
    MaxRuns         \* bound: runs

VARIABLES
    files,      \* what is at each path
    runs,       \* runs started
    job,        \* the options of the run
    pc,         \* idle between two runs
    attempt,
    held,       \* the capture in memory
    exit,       \* how the last run ended
    failing     \* a file operation of the run failed

vars == <<files, runs, job, pc, attempt, held, exit, failing>>

\* No file found is younger than the runs, and a capture of schema 1 holds a
\* report of its time.
ASSUME FilesAssumption ==
    /\ Heard \subseteq Streams
    /\ InitialFiles \subseteq [Paths -> Captures \cup {NoFile, Garbage}]
    /\ \A initial \in InitialFiles, p \in Paths :
        \/ initial[p] \in {NoFile, Garbage}
        \/ /\ initial[p].created <= HistoricalTime
           /\ initial[p].schema = 1 => initial[p].report.schema = 1
    /\ MaxAttempts \in Nat \ {0} /\ MaxRuns \in Nat
    /\ 1..MaxAttempts \subseteq Paths /\ Paths \subseteq Nat

Radio == {"probe", "monitor", "matrix", "evidence-probe"}

\* advice: what the advisory of a probe comes to, when one is asked for.
\* evidence-probe can observe passively, and be given labels.
Jobs ==
    [command : Radio, timing : Timings, port : {"adapter", "home"}, saving : BOOLEAN,
     attempts : 1..MaxAttempts, passive : BOOLEAN, labels : BOOLEAN,
     advice : {"none", "agrees", "conflicts", "fails"}]
Sanitizations == [command : {"sanitize"}, input : Paths, output : Paths]

\* One attempt of a probe and a monitor; only their own options.
RadioJobs ==
    {j \in Jobs :
        /\ j.command \in {"probe", "monitor"} => j.attempts = 1
        /\ j.command = "matrix" => j.attempts = MaxAttempts
        /\ j.command # "probe" => j.advice = "none"
        /\ j.command # "evidence-probe" => ~j.passive /\ ~j.labels}

NoJob == [command |-> "none"]

\* The interpreter ends an uncaught error with status 1.
Exits == {"none", "0", "1", "2", "3", "traceback", "killed"}

TypeOK ==
    /\ files \in [Paths -> Captures \cup {NoFile, Garbage}]
    /\ runs \in 0..MaxRuns
    /\ job \in RadioJobs \cup Sanitizations \cup {NoJob}
    /\ pc \in {"idle", "exchange", "write", "replace", "verdict", "verify"}
    /\ attempt \in 1..MaxAttempts
    /\ held \in Captures \cup {NoFile}
    /\ exit \in Exits
    /\ failing \in BOOLEAN

-----------------------------------------------------------------------------
Init ==
    /\ files \in InitialFiles
    /\ runs = 0
    /\ job = NoJob /\ pc = "idle" /\ attempt = 1
    /\ held = NoFile /\ exit = "none" /\ failing = FALSE

Exit(code) == pc' = "idle" /\ exit' = code

Start ==
    /\ pc = "idle" /\ runs < MaxRuns
    /\ runs' = runs + 1
    /\ job' \in RadioJobs
    /\ pc' = "exchange" /\ attempt' = 1
    /\ held' = NoFile /\ exit' = "none" /\ failing' = FALSE
    /\ UNCHANGED files

\* capture-sanitize reads its input and refuses to replace it.
StartSanitize ==
    /\ pc = "idle" /\ runs < MaxRuns
    /\ runs' = runs + 1
    /\ \E input, output \in Paths :
        /\ input # output
        /\ job' = [command |-> "sanitize", input |-> input, output |-> output]
        /\ IF Read(files[input]) = {}
           THEN held' = NoFile /\ Exit("3")
           ELSE /\ \E c \in Read(files[input]) : held' = Sanitize(c)
                /\ pc' = "write" /\ exit' = "none"
    /\ attempt' = 1 /\ failing' = FALSE
    /\ UNCHANGED files

-----------------------------------------------------------------------------
Operation ==
    IF job.command = "monitor" \/ (job.command = "evidence-probe" /\ job.passive)
    THEN "monitor" ELSE "probe"

Labelled(c) == IF job.labels THEN [c EXCEPT !.metadata = "labels"] ELSE c

\* Faulty variant of Listen: a capture of nothing recognised is not kept.
ListenForFrames ==
    /\ pc = "exchange" /\ job.timing = "bounded"
    /\ \E stream \in Heard :
        /\ held' = Labelled(BuildCapture(Operation, job.port, job.timing, stream, runs))
        /\ pc' = IF job.saving /\ held'.report.complete THEN "write" ELSE "verdict"
    /\ UNCHANGED <<files, runs, job, attempt, exit, failing>>

\* A serial call returns, and its capture is kept whatever it holds.
Listen ==
    /\ pc = "exchange" /\ job.timing = "bounded"
    /\ \E stream \in Heard :
        held' = Labelled(BuildCapture(Operation, job.port, job.timing, stream, runs))
    /\ pc' = IF job.saving THEN "write" ELSE "verdict"
    /\ UNCHANGED <<files, runs, job, attempt, exit, failing>>

\* An idle timeout that is too long is refused with a ValueError, which
\* probe and evidence-probe do not catch.
RefuseTiming ==
    /\ pc = "exchange" /\ job.timing = "idle-longer"
    /\ Exit(IF job.command \in {"monitor", "matrix"} THEN "2" ELSE "traceback")
    /\ UNCHANGED <<files, runs, job, attempt, held, failing>>

\* No port is chosen; matrix looks for its own outside its try.
NoPort ==
    /\ pc = "exchange" /\ attempt = 1
    /\ Exit(IF job.command = "matrix" THEN "traceback" ELSE "2")
    /\ UNCHANGED <<files, runs, job, attempt, held, failing>>

\* The transport fails, and the run ends with it.
ExchangeFails ==
    /\ pc = "exchange" /\ job.timing = "bounded"
    /\ Exit("2")
    /\ UNCHANGED <<files, runs, job, attempt, held, failing>>

Target == IF job.command = "sanitize" THEN job.output ELSE attempt

\* A new file beside the old one; nothing reads it.
WriteTemporary ==
    /\ pc = "write"
    /\ pc' = "replace"
    /\ UNCHANGED <<files, runs, job, attempt, held, exit, failing>>

Replace ==
    /\ pc = "replace"
    /\ files' = [files EXCEPT ![Target] = held]
    /\ pc' = IF job.command = "sanitize" THEN "verify" ELSE "verdict"
    /\ UNCHANGED <<runs, job, attempt, held, exit, failing>>

\* matrix writes outside its try.
WriteFails ==
    /\ pc \in {"write", "replace"}
    /\ failing' = TRUE
    /\ Exit(CASE job.command = "sanitize" -> "3"
              [] job.command = "matrix" -> "traceback"
              [] OTHER -> "2")
    /\ UNCHANGED <<files, runs, job, attempt, held>>

\* The exit code of a probe, by the message type of its report.
ProbeExit(message) ==
    IF message \in {"firmware-identification-response", "bootloader-response"} THEN "0"
    ELSE IF message \in {"incomplete-response", "invalid-frame"} THEN "2"
    ELSE "1"

MonitorExit(message) == IF message = "no-response" THEN "1" ELSE "0"

\* The advice speaks before the response does.
ProbeVerdict ==
    /\ pc = "verdict" /\ job.command = "probe"
    /\ Exit(CASE job.advice = "fails" -> "3"
              [] job.advice = "conflicts" -> "2"
              [] OTHER -> ProbeExit(held.report.message))
    /\ UNCHANGED <<files, runs, job, attempt, held, failing>>

MonitorVerdict ==
    /\ pc = "verdict" /\ job.command = "monitor"
    /\ Exit(MonitorExit(held.report.message))
    /\ UNCHANGED <<files, runs, job, attempt, held, failing>>

NextAttempt ==
    /\ pc = "verdict" /\ job.command \in {"matrix", "evidence-probe"}
    /\ attempt < job.attempts
    /\ attempt' = attempt + 1
    /\ pc' = "exchange"
    /\ UNCHANGED <<files, runs, job, held, exit, failing>>

LastAttempt ==
    /\ pc = "verdict" /\ job.command \in {"matrix", "evidence-probe"}
    /\ attempt = job.attempts
    /\ Exit("0")
    /\ UNCHANGED <<files, runs, job, attempt, held, failing>>

\* Faulty variant of Verify: the output is trusted.
VerifyTrusting ==
    /\ pc = "verify"
    /\ Exit("0")
    /\ UNCHANGED <<files, runs, job, attempt, held, failing>>

\* The output is read again; one that is not clean stays where it is.
Verify ==
    /\ pc = "verify"
    /\ Exit(IF Validate(files[job.output]) = "valid" THEN "0" ELSE "3")
    /\ UNCHANGED <<files, runs, job, attempt, held, failing>>

Kill ==
    /\ pc # "idle"
    /\ Exit("killed")
    /\ UNCHANGED <<files, runs, job, attempt, held, failing>>

Step ==
    \/ NoPort \/ Listen \/ RefuseTiming \/ ExchangeFails
    \/ WriteTemporary \/ Replace \/ WriteFails
    \/ ProbeVerdict \/ MonitorVerdict \/ NextAttempt \/ LastAttempt
    \/ Verify

Finished == pc = "idle" /\ runs = MaxRuns /\ UNCHANGED vars

Next == Start \/ StartSanitize \/ Step \/ Kill \/ Finished

Spec == Init /\ [][Next]_vars

-----------------------------------------------------------------------------
(* Safety.                                                                 *)

Made(path) == files[path] \notin {NoFile, Garbage} /\ files[path].created > 0

\* What a run keeps can be read back, and reading gives what was kept:
\* whatever was heard, on whichever port, labelled or not.
CapturesReadBack ==
    \A p \in Paths : Made(p) => Read(files[p]) = {files[p]}

\* A sanitization that reports success left a clean file with the bytes and
\* the request of its input, and the input as it was.
SanitizedFilesAreClean ==
    job.command = "sanitize" /\ exit = "0" =>
        /\ Validate(files[job.output]) = "valid"
        /\ \E c \in Read(files[job.input]) :
            /\ files[job.output].stream = c.stream
            /\ files[job.output].request = c.request
            /\ files[job.output].class = c.class

\* Unless the disk fails, the readable captures of schema 2 and 3 are sanitized
\* and no others: one of schema 1 is written and then refused, as it keeps the
\* report of schema 1 it was read with.  capture-format.md, "Sanitization
\* migrates v1/v2 evidence to v3", is right about the one half only.
CurrentCapturesMigrate ==
    job.command = "sanitize" /\ exit \in {"0", "3"} /\ ~failing =>
        (exit = "0" <=> Read(files[job.input]) # {} /\ files[job.input].schema # 1)

OwnFiles == {p \in Paths : Made(p) /\ files[p].created = runs}

\* However a run ends, its captures are those of its first attempts, without a
\* gap, and all of them when it ends well; no other file of its is left.
AttemptsAreAPrefix ==
    job.command \in Radio =>
        /\ \E n \in 0..attempt : n >= (IF job.saving THEN attempt - 1 ELSE 0) /\ OwnFiles = 1..n
        /\ exit = "0" /\ job.saving => OwnFiles = 1..job.attempts

\* The verdict is about evidence that was kept: an exit code of its own that
\* the run gives (not that of a failure) is the one the capture on disk calls
\* for, and a probe says 0 only for a message it knows.
VerdictsHaveEvidence ==
    /\ job.command = "probe" /\ exit \in {"0", "1", "3"} /\ job.saving =>
        /\ OwnFiles = {1}
        /\ exit # "3" => exit = ProbeExit(files[1].report.message)
        /\ exit = "0" => files[1].report.complete
    /\ job.command = "monitor" /\ exit \in {"0", "1"} /\ job.saving =>
        OwnFiles = {1} /\ (exit = "0" <=> files[1].report.received)

=============================================================================
