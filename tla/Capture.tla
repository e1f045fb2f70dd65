-------------------------------- MODULE Capture --------------------------------
(***************************************************************************)
(* What a serial call becomes: its report (probe.py), the capture built    *)
(* from it, the file that capture is, what reading that file back demands  *)
(* (capture.py), and its sanitized derivative (hardening.py).              *)
(*                                                                         *)
(* The bytes of a stream are abstracted to the outcome of their analysis   *)
(* (FrameStream), which depends on the request they are compared with: an  *)
(* echo of the request is a frame like any other to a monitor, which sent  *)
(* nothing.                                                                *)
(***************************************************************************)
EXTENDS Integers

\* Time a capture was made, by the run that made it.
NormalizedTime == -1
HistoricalTime == 0

-----------------------------------------------------------------------------
(* Streams and their analysis.                                             *)

Unframed == {"no-response", "null-byte-response", "unframed-binary-response",
             "incomplete-response", "invalid-frame"}
Framed == {"framed-response", "echo-followed-by-response"}
Echoed == {"echo-only", "transmit-echo", "partial-transmit-echo"}

Classifications == Unframed \cup Framed \cup Echoed

\* What the payload of the first frame that is no echo decodes to.
FrameMessages ==
    {"firmware-identification-response", "bootloader-response", "valid-unknown-frame"}

Analyses ==
    [class : Unframed \cup Echoed, message : {"none"}]
        \cup [class : Framed, message : FrameMessages]

\* The frame of the request, to one who did not send it.
EchoUnasked == [class |-> "framed-response", message |-> "valid-unknown-frame"]

Unasked(analysis) ==
    CASE analysis.class = "partial-transmit-echo" ->
            [class |-> "incomplete-response", message |-> "none"]
      [] analysis.class \in {"echo-only", "transmit-echo", "echo-followed-by-response"} ->
            EchoUnasked
      [] OTHER -> analysis

\* The analysis of a stream by what was transmitted before it.
Streams == {[probe |-> a, monitor |-> Unasked(a)] : a \in Analyses}

Requests == {"identify", "other", "nothing"}

\* A request other than the one there is finds no echo of itself.
Analysis(stream, request) == IF request = "identify" THEN stream.probe ELSE stream.monitor

Received(stream) == stream.probe.class # "no-response"

Complete(analysis) == analysis.class \in Framed

\* The message type of the report: the decoded frame's, or the class itself.
MessageType(analysis) ==
    IF Complete(analysis) THEN analysis.message ELSE analysis.class

-----------------------------------------------------------------------------
(* Captures.                                                               *)

\* Device path and host metadata of a port: those of an adapter, of a path
\* below the home directory, of one that was redacted, or normalized.
Ports == {"adapter", "home", "redacted", "normalized"}

\* The idle timeout does not exceed the total one, or it does.
Timings == {"bounded", "idle-longer"}

Reports ==
    [schema : {1, 2}, port : Ports, timing : Timings, transport : Classifications,
     message : Classifications \cup FrameMessages, received : BOOLEAN, complete : BOOLEAN]

\* "class" is the stored classification; metadata holds the user's labels or
\* the record of a sanitization.
Captures ==
    [schema : {1, 2, 3}, driver : {"quansheng", "unknown"},
     operation : {"probe", "monitor"}, command : {"identify-handshake", "other", "none"},
     request : Requests, stream : Streams, class : Classifications,
     timing : Timings, port : Ports, created : Int,
     metadata : {"none", "labels", "sanitized"}, report : Reports]

Report(port, timing, stream, request) ==
    LET analysis == Analysis(stream, request) IN
    [schema |-> 2, port |-> port, timing |-> timing, transport |-> analysis.class,
     message |-> MessageType(analysis), received |-> Received(stream),
     complete |-> Complete(analysis)]

SafePort(port) == IF port = "home" THEN "redacted" ELSE port

Request(operation) == IF operation = "probe" THEN "identify" ELSE "nothing"

\* Faulty variant of BuildCapture: the path is redacted in one place only.
BuildCaptureHalfRedacted(operation, port, timing, stream, created) ==
    LET request == Request(operation) IN
    [schema |-> 3, driver |-> "quansheng", operation |-> operation,
     command |-> IF operation = "probe" THEN "identify-handshake" ELSE "none",
     request |-> request, stream |-> stream,
     class |-> Analysis(stream, request).class, timing |-> timing,
     port |-> SafePort(port), created |-> created, metadata |-> "none",
     report |-> Report(port, timing, stream, request)]

BuildCapture(operation, port, timing, stream, created) ==
    LET request == Request(operation) IN
    [schema |-> 3, driver |-> "quansheng", operation |-> operation,
     command |-> IF operation = "probe" THEN "identify-handshake" ELSE "none",
     request |-> request, stream |-> stream,
     class |-> Analysis(stream, request).class, timing |-> timing,
     port |-> SafePort(port), created |-> created, metadata |-> "none",
     report |-> Report(SafePort(port), timing, stream, request)]

-----------------------------------------------------------------------------
(* Reading a file back.                                                    *)

\* A file is a capture, or no capture at all.
NoFile == [content |-> "none"]
Garbage == [content |-> "no capture"]

\* _read_v2: what is stored agrees with the allowlist, with the analysis of
\* the stored bytes, and with the report.
Consistent(c) ==
    LET analysis == Analysis(c.stream, c.request) IN
    /\ c.driver = "quansheng"
    /\ c.operation = "probe" => c.command = "identify-handshake"
    /\ c.request = Request(c.operation)
    /\ c.class = analysis.class
    /\ c.timing = "bounded"
    /\ c.report.port = c.port
    /\ c.report.schema = 2
    /\ c.report.timing = c.timing
    /\ c.report.transport = c.class
    /\ c.report.received = Received(c.stream)
    /\ c.report.complete = Complete(analysis)

\* _read_v1 stores no analysis and makes its own; it asks for no more than the
\* fields.  Later schemas are checked.
Read(file) ==
    IF file \in {NoFile, Garbage} THEN {}
    ELSE IF file.schema = 1
         THEN {[file EXCEPT !.class = Analysis(file.stream, file.request).class]}
         ELSE IF Consistent(file) THEN {file} ELSE {}

-----------------------------------------------------------------------------
(* Sanitization and validation.                                            *)

\* Faulty variant of Sanitize: the report keeps the port of the machine.
SanitizeCaptureOnly(c) ==
    [c EXCEPT !.schema = 3, !.created = NormalizedTime, !.port = "normalized",
              !.metadata = "sanitized"]

\* The labels, which are metadata too, are replaced.
Sanitize(c) ==
    [c EXCEPT !.schema = 3, !.created = NormalizedTime, !.port = "normalized",
              !.report.port = "normalized", !.metadata = "sanitized"]

MachineMetadata(c) == c.port # "normalized" \/ c.created # NormalizedTime

Statuses == {"valid", "valid-with-warnings", "invalid", "unknown-driver"}

Validate(file) ==
    IF Read(file) = {}
    THEN IF file \notin {NoFile, Garbage} /\ file.driver = "unknown"
         THEN "unknown-driver" ELSE "invalid"
    ELSE IF \E c \in Read(file) : MachineMetadata(c)
         THEN "valid-with-warnings" ELSE "valid"
=============================================================================
