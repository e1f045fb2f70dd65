---------------------------- MODULE MCCaptureFiles ----------------------------
(* A few streams of each sort, and one capture of each earlier kind.        *)
EXTENDS CaptureFiles

Analyzed(class, message) ==
    LET a == [class |-> class, message |-> message] IN [probe |-> a, monitor |-> Unasked(a)]

MCHeard ==
    {Analyzed("no-response", "none"), Analyzed("invalid-frame", "none"),
     Analyzed("transmit-echo", "none"),
     Analyzed("echo-followed-by-response", "firmware-identification-response")}

Identification == Analyzed("framed-response", "firmware-identification-response")

Version3 == BuildCapture("probe", "adapter", "bounded", Identification, HistoricalTime)
Version2 == [BuildCapture("monitor", "adapter", "bounded",
                          Analyzed("transmit-echo", "none"), HistoricalTime)
                EXCEPT !.schema = 2]
Version1 == [Version3 EXCEPT !.schema = 1, !.report.schema = 1]

\* Damaged since, and of a driver this version does not have.
Edited == [Version3 EXCEPT !.class = "invalid-frame"]
Foreign == [Version3 EXCEPT !.driver = "unknown"]

MCPaths == 1..2

\* The second file is there before the first run.
MCInitialFiles ==
    {<<NoFile, found>> : found \in {NoFile, Garbage, Version1, Version2, Edited, Foreign}}
=============================================================================
