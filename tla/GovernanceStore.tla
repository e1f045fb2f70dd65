--------------------------- MODULE GovernanceStore ---------------------------
(***************************************************************************)
(* The governance ledger as a file, and the CLI commands that replace it:  *)
(* load_governance, an operation on the ledger in memory, write_governance *)
(* (validate, mkstemp, write, fsync, os.replace).  publication-build puts  *)
(* its package in place, and hashes it, before it writes the ledger.       *)
(*                                                                         *)
(* Governance says what the operations decide; here one is what it appends *)
(* to the ledger.  Commands are killed at any point.  The program takes no *)
(* lock: ExternalLock says whether its callers do, as public-api.md asks   *)
(* of those who share a registry.                                          *)
(***************************************************************************)
EXTENDS Integers, Sequences, SequencesExt, FiniteSets

CONSTANTS
    Processes,      \* concurrent CLI commands
    Authors,        \* reviewer ids, actors
    Absent, Torn,   \* no file; a file that is not written to its end
    ExternalLock,   \* the callers let one command run at a time
    MaxSecond,      \* bound: the clock
    MaxEvents       \* bound: audit events

VARIABLES
    second,     \* what utc() returns: whole seconds
    file,       \* the ledger file
    package,    \* the publication package at the output path
    pc,         \* where each command stands
    mem,        \* the ledger each command has in memory
    temp,       \* the temporary file each command writes
    acked       \* audit events commands reported as recorded, by position

vars == <<second, file, package, pc, mem, temp, acked>>

Seconds == 0..MaxSecond

Operations == {"review", "proposal-review", "decision"}

Events ==
    [type : {"review", "proposal", "decision", "publication"},
     author : Authors, second : Seconds]

\* review_id: a hash of the review, its second included.
ReviewIds == [op : Operations, author : Authors, second : Seconds]

\* at: the events the ledger had when the package was built, which stands for
\* the reviews and the entries the package lists.
Packages == [at : 0..MaxEvents, second : Seconds]

\* A publication record: the position of its event, and its sha256.
Publications == [position : 1..MaxEvents, sha256 : Packages]

Ledgers ==
    [audit_events : Seq(Events), reviews : Seq(ReviewIds),
     publications : SUBSET Publications]

ASSUME StoreAssumption ==
    /\ ExternalLock \in BOOLEAN
    /\ MaxSecond \in Nat /\ MaxEvents \in Nat
    /\ {Absent, Torn} \cap (Ledgers \cup Packages) = {}

NewLedger == [audit_events |-> << >>, reviews |-> << >>, publications |-> {}]

\* validate_governance: the ids of the reviews are distinct.  The sequence
\* numbers and the chain of digests are the positions in audit_events.
Valid(ledger) == IsInjective(ledger.reviews)

Steps ==
    {"idle", "loaded", "packaged", "changed", "writing", "written"}

TypeOK ==
    /\ second \in Seconds
    /\ file \in Ledgers \cup {Absent, Torn}
    /\ package \in Packages \cup {Absent}
    /\ pc \in [Processes -> Steps]
    /\ mem \in [Processes -> Ledgers]
    /\ temp \in [Processes -> Ledgers \cup {Absent, Torn}]
    /\ acked \subseteq [position : 1..MaxEvents, event : Events]

-----------------------------------------------------------------------------
(* What an operation appends.                                              *)

Event(type, author) == [type |-> type, author |-> author, second |-> second]

EventsOf(op, author) ==
    CASE op = "proposal-review" -> <<Event("review", author), Event("proposal", author)>>
      [] OTHER -> <<Event(op, author)>>

ReviewsOf(op, author) ==
    IF op = "decision" THEN << >>
    ELSE <<[op |-> op, author |-> author, second |-> second]>>

Applied(ledger, op, author) ==
    [ledger EXCEPT !.audit_events = @ \o EventsOf(op, author),
                   !.reviews = @ \o ReviewsOf(op, author)]

Published(ledger, author, sha256) ==
    [ledger EXCEPT !.audit_events = Append(@, Event("publication", author)),
                   !.publications = @ \cup
                        {[position |-> Len(ledger.audit_events) + 1, sha256 |-> sha256]}]

-----------------------------------------------------------------------------
(* The steps of a command.                                                 *)

Init ==
    /\ second = 0
    /\ file = Absent
    /\ package = Absent
    /\ pc = [p \in Processes |-> "idle"]
    /\ mem = [p \in Processes |-> NewLedger]
    /\ temp = [p \in Processes |-> Absent]
    /\ acked = {}

Goto(p, step) == pc' = [pc EXCEPT ![p] = step]

MayStart(p) ==
    /\ pc[p] = "idle"
    /\ ExternalLock => \A q \in Processes : pc[q] = "idle"

Stop(p) ==
    /\ Goto(p, "idle")
    /\ mem' = [mem EXCEPT ![p] = NewLedger]
    /\ temp' = [temp EXCEPT ![p] = Absent]

\* Faulty variant of Create: the file is not looked for.
CreateAnyway(p) ==
    /\ MayStart(p)
    /\ Goto(p, "changed")
    /\ mem' = [mem EXCEPT ![p] = NewLedger]
    /\ UNCHANGED <<second, file, package, temp, acked>>

\* governance-create: path.exists(), then create_governance.
Create(p) ==
    /\ MayStart(p)
    /\ file = Absent
    /\ Goto(p, "changed")
    /\ mem' = [mem EXCEPT ![p] = NewLedger]
    /\ UNCHANGED <<second, file, package, temp, acked>>

Load(p) ==
    /\ MayStart(p)
    /\ file \in Ledgers /\ Valid(file)
    /\ Goto(p, "loaded")
    /\ mem' = [mem EXCEPT ![p] = file]
    /\ UNCHANGED <<second, file, package, temp, acked>>

Operate(p, op, author) ==
    /\ pc[p] = "loaded"
    /\ Len(Applied(mem[p], op, author).audit_events) <= MaxEvents
    /\ Goto(p, "changed")
    /\ mem' = [mem EXCEPT ![p] = Applied(@, op, author)]
    /\ UNCHANGED <<second, file, package, temp, acked>>

\* Faulty variants of PlacePackage: the package is built from the ledger that
\* has the publication's event already; it is left for after the ledger.
PlacePackageOfUpdated(p) ==
    /\ pc[p] = "loaded"
    /\ Len(mem[p].audit_events) + 1 <= MaxEvents
    /\ Goto(p, "packaged")
    /\ package' = [at |-> Len(mem[p].audit_events) + 1, second |-> second]
    /\ UNCHANGED <<second, file, mem, temp, acked>>

PlacePackageLater(p) ==
    /\ pc[p] = "loaded"
    /\ Len(mem[p].audit_events) + 1 <= MaxEvents
    /\ Goto(p, "changed")
    /\ mem' = [mem EXCEPT ![p] = Published(@, CHOOSE a \in Authors : TRUE,
                    [at |-> Len(mem[p].audit_events), second |-> second])]
    /\ UNCHANGED <<second, file, package, temp, acked>>

\* build_publication: the package replaces whatever is at the output path...
PlacePackage(p) ==
    /\ pc[p] = "loaded"
    /\ Len(mem[p].audit_events) + 1 <= MaxEvents
    /\ Goto(p, "packaged")
    /\ package' = [at |-> Len(mem[p].audit_events), second |-> second]
    /\ UNCHANGED <<second, file, mem, temp, acked>>

\* ... and what is then read back from that path is hashed.  The event's actor
\* is "publication-builder", for whom an author stands here.
RecordPackage(p, author) ==
    /\ pc[p] = "packaged"
    /\ Goto(p, "changed")
    /\ mem' = [mem EXCEPT ![p] = Published(@, author, package)]
    /\ UNCHANGED <<second, file, package, temp, acked>>

\* Faulty variant of StartWrite: nothing is validated.
StartWriteUnchecked(p) ==
    /\ pc[p] = "changed"
    /\ Goto(p, "writing")
    /\ temp' = [temp EXCEPT ![p] = Torn]
    /\ UNCHANGED <<second, file, package, mem, acked>>

StartWrite(p) ==
    /\ pc[p] = "changed"
    /\ Valid(mem[p])
    /\ Goto(p, "writing")
    /\ temp' = [temp EXCEPT ![p] = Torn]
    /\ UNCHANGED <<second, file, package, mem, acked>>

\* write_governance raises GovernanceSchemaError: the same review twice in a
\* second.
Refuse(p) ==
    /\ pc[p] = "changed"
    /\ ~Valid(mem[p])
    /\ Stop(p)
    /\ UNCHANGED <<second, file, package, acked>>

FinishWrite(p) ==
    /\ pc[p] = "writing"
    /\ Goto(p, "written")
    /\ temp' = [temp EXCEPT ![p] = mem[p]]
    /\ UNCHANGED <<second, file, package, mem, acked>>

\* os.replace; the command reports what it recorded.
Replace(p) ==
    /\ pc[p] = "written"
    /\ file' = temp[p]
    /\ acked' = acked \cup {[position |-> n, event |-> mem[p].audit_events[n]] :
                                n \in DOMAIN mem[p].audit_events}
    /\ Stop(p)
    /\ UNCHANGED <<second, package>>

\* A command is killed, or a write fails; a temporary file that stays behind
\* has a name no other command uses.
Crash(p) ==
    /\ pc[p] # "idle"
    /\ Stop(p)
    /\ UNCHANGED <<second, file, package, acked>>

Tick ==
    /\ second < MaxSecond
    /\ second' = second + 1
    /\ UNCHANGED <<file, package, pc, mem, temp, acked>>

Next ==
    \/ \E p \in Processes :
        \/ Create(p) \/ Load(p)
        \/ \E op \in Operations, a \in Authors : Operate(p, op, a)
        \/ PlacePackage(p)
        \/ \E a \in Authors : RecordPackage(p, a)
        \/ StartWrite(p) \/ Refuse(p) \/ FinishWrite(p) \/ Replace(p)
        \/ Crash(p)
    \/ Tick

Spec == Init /\ [][Next]_vars

-----------------------------------------------------------------------------
(* Safety.                                                                 *)

\* A reader always finds no ledger or a whole one that load_governance takes,
\* whenever a command was killed or its write refused.
FileAlwaysLoads == file # Absent => file \in Ledgers /\ Valid(file)

\* A publication is recorded only after its package is in place: the package
\* at the output path is the recorded one or a later build.
PackagePrecedesRecord ==
    file # Absent => \A pub \in file.publications :
        package # Absent /\ pub.sha256.at <= package.at

\* The package a record describes was built from the very ledger the record
\* was added to: the hash is that of its own package, not of another's.
RecordsDescribeTheirPackage ==
    file # Absent => \A pub \in file.publications :
        /\ pub.sha256.at = pub.position - 1
        /\ file.audit_events[pub.position].type = "publication"

\* What a command reported as recorded stays in the ledger ("previous events
\* remain intact", evidence-governance.md).
AcknowledgedIsKept ==
    \A done \in acked :
        /\ file # Absent
        /\ done.position \in DOMAIN file.audit_events
        /\ file.audit_events[done.position] = done.event

-----------------------------------------------------------------------------
(* Strengthenings that make the invariants above inductive.                *)

Extends(t, s) == \A n \in DOMAIN s : n \in DOMAIN t /\ t[n] = s[n]

\* What a command knows of its own files at each step.
StepsAreConsistent ==
    \A p \in Processes :
        /\ Len(mem[p].audit_events) <= MaxEvents
        /\ pc[p] = "packaged" =>
                package # Absent /\ Len(mem[p].audit_events) + 1 <= MaxEvents
        /\ pc[p] \in {"writing", "written"} => Valid(mem[p])
        /\ pc[p] = "written" => temp[p] = mem[p]

FileIsBounded == file \in Ledgers => Len(file.audit_events) <= MaxEvents

StoreInv == TypeOK /\ StepsAreConsistent /\ FileIsBounded /\ FileAlwaysLoads

\* Under a lock, one command runs, and it continues the log of the file.
OneCommandContinues ==
    /\ \A p, q \in Processes : pc[p] # "idle" /\ pc[q] # "idle" => p = q
    /\ \A p \in Processes : pc[p] # "idle" /\ file # Absent =>
            Extends(mem[p].audit_events, file.audit_events)

\* The records of a ledger are about packages that were built from it as it was
\* before their events, and what is now in place was built no earlier.
Recorded(ledger, built) ==
    \A pub \in ledger.publications :
        /\ pub.position \in DOMAIN ledger.audit_events
        /\ ledger.audit_events[pub.position].type = "publication"
        /\ pub.sha256.at = pub.position - 1
        /\ built # Absent /\ pub.sha256.at <= built.at

\* Under a lock, in the file and in what a command makes of it.
PackagesAreRecorded ==
    /\ file # Absent => Recorded(file, package)
    /\ \A p \in Processes :
        /\ pc[p] # "idle" => Recorded(mem[p], package)
        /\ pc[p] = "packaged" => package.at = Len(mem[p].audit_events)

-----------------------------------------------------------------------------
(* Refinement.                                                             *)

Log == INSTANCE AppendOnlyLog WITH
    log <- IF file = Absent THEN << >> ELSE file.audit_events

\* Seen through its audit events the file is an append-only log.
ImplementsLog == Log!Spec
=============================================================================
