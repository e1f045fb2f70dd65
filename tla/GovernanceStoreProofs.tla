------------------------ MODULE GovernanceStoreProofs ------------------------
(***************************************************************************)
(* Theorems about GovernanceStore, for any number of commands, authors,    *)
(* seconds and events.                                                     *)
(***************************************************************************)
EXTENDS GovernanceStore, TLAPS

-----------------------------------------------------------------------------
(* Ledgers.                                                                *)

LEMMA NewLedgerType == NewLedger \in Ledgers /\ Valid(NewLedger)
BY DEF NewLedger, Ledgers, Valid, IsInjective

\* Ledgers with fields replaced.
LEMMA LedgerWithReviews ==
    ASSUME NEW ledger \in Ledgers, NEW x \in Seq(Events), NEW y \in Seq(ReviewIds)
    PROVE  /\ [ledger EXCEPT !.audit_events = x, !.reviews = y] \in Ledgers
           /\ [ledger EXCEPT !.audit_events = x, !.reviews = y].audit_events = x
BY DEF Ledgers

LEMMA LedgerWithPublications ==
    ASSUME NEW ledger \in Ledgers, NEW x \in Seq(Events),
           NEW y \in SUBSET Publications
    PROVE  /\ [ledger EXCEPT !.audit_events = x, !.publications = y] \in Ledgers
           /\ [ledger EXCEPT !.audit_events = x, !.publications = y].audit_events = x
BY DEF Ledgers

\* A log extends itself, the empty log, and what it was grown from.
LEMMA ExtendsFacts ==
    ASSUME NEW S, NEW s \in Seq(S), NEW t \in Seq(S), NEW e \in S
    PROVE  /\ Extends(s, s)
           /\ Extends(s, << >>)
           /\ Extends(s \o t, s)
           /\ Extends(Append(s, e), s)
           /\ Append(s, e) \in Seq(S)
           /\ Len(Append(s, e)) = Len(s) + 1
<1>1. Extends(s, s) /\ Extends(s, << >>)
  BY DEF Extends
<1>2. Append(s, e) \in Seq(S) /\ Len(Append(s, e)) = Len(s) + 1
  OBVIOUS
<1>3. ASSUME NEW n \in DOMAIN s
      PROVE  /\ n \in DOMAIN (s \o t) /\ (s \o t)[n] = s[n]
             /\ n \in DOMAIN Append(s, e) /\ Append(s, e)[n] = s[n]
  <2>1. n \in 1..Len(s)
    OBVIOUS
  <2>2. n \in 1..(Len(s) + Len(t)) /\ n \in 1..(Len(s) + 1)
    BY <2>1
  <2>3. Len(s \o t) = Len(s) + Len(t) /\ s \o t \in Seq(S)
    OBVIOUS
  <2>4. n \in DOMAIN (s \o t)
    BY <2>2, <2>3
  <2>5. n \in DOMAIN Append(s, e)
    BY <1>2, <2>2
  <2>6. (s \o t)[n] = s[n]
    BY <2>1, <2>2
  <2>7. Append(s, e)[n] = s[n]
    BY <2>1, <2>2
  <2> QED
    BY <2>4, <2>5, <2>6, <2>7
<1> QED
  BY <1>1, <1>2, <1>3 DEF Extends

\* An operation yields a ledger, whose log extends the one it was given.
LEMMA AppliedType ==
    ASSUME NEW ledger \in Ledgers, NEW op \in Operations, NEW a \in Authors,
           second \in Seconds
    PROVE  /\ Applied(ledger, op, a) \in Ledgers
           /\ Extends(Applied(ledger, op, a).audit_events, ledger.audit_events)
<1>1. EventsOf(op, a) \in Seq(Events)
  <2>1. /\ Event("review", a) \in Events /\ Event("proposal", a) \in Events
        /\ Event("decision", a) \in Events
    BY DEF Event, Events
  <2>2. CASE op = "proposal-review"
    BY <2>1, <2>2 DEF EventsOf
  <2>3. CASE op # "proposal-review"
    <3>1. EventsOf(op, a) = <<Event(op, a)>>
      BY <2>3 DEF EventsOf
    <3>2. Event(op, a) \in Events
      BY <2>1, <2>3 DEF Operations
    <3> QED
      BY <3>1, <3>2
  <2> QED
    BY <2>2, <2>3
<1>2. ReviewsOf(op, a) \in Seq(ReviewIds)
  <2>1. [op |-> op, author |-> a, second |-> second] \in ReviewIds
    BY DEF ReviewIds
  <2>2. CASE op = "decision"
    BY <2>2 DEF ReviewsOf
  <2>3. CASE op # "decision"
    BY <2>1, <2>3 DEF ReviewsOf
  <2> QED
    BY <2>2, <2>3
<1>3. /\ ledger.audit_events \in Seq(Events)
      /\ ledger.reviews \in Seq(ReviewIds)
      /\ ledger.publications \in SUBSET Publications
  BY DEF Ledgers
<1>4. /\ ledger.audit_events \o EventsOf(op, a) \in Seq(Events)
      /\ ledger.reviews \o ReviewsOf(op, a) \in Seq(ReviewIds)
  BY <1>1, <1>2, <1>3
<1>5. Extends(ledger.audit_events \o EventsOf(op, a), ledger.audit_events)
  <2>1. Event("review", a) \in Events
    BY DEF Event, Events
  <2> QED
    BY <1>1, <1>3, <2>1, ExtendsFacts
<1> QED
  BY <1>4, <1>5, LedgerWithReviews DEF Applied

LEMMA PublishedType ==
    ASSUME NEW ledger \in Ledgers, NEW a \in Authors, NEW sha256 \in Packages,
           second \in Seconds, Len(ledger.audit_events) + 1 <= MaxEvents
    PROVE  /\ Published(ledger, a, sha256) \in Ledgers
           /\ Extends(Published(ledger, a, sha256).audit_events, ledger.audit_events)
           /\ Len(Published(ledger, a, sha256).audit_events) <= MaxEvents
<1> DEFINE record == [position |-> Len(ledger.audit_events) + 1, sha256 |-> sha256]
<1>1. /\ ledger.audit_events \in Seq(Events)
      /\ ledger.reviews \in Seq(ReviewIds)
      /\ ledger.publications \in SUBSET Publications
  BY DEF Ledgers
<1>2. Event("publication", a) \in Events
  BY DEF Event, Events
<1>3. record \in Publications
  <2>1. Len(ledger.audit_events) + 1 \in 1..MaxEvents
    BY <1>1, StoreAssumption
  <2> QED
    BY <2>1 DEF Publications
<1>4. ledger.publications \cup {record} \in SUBSET Publications
  BY <1>1, <1>3
<1>5. /\ Append(ledger.audit_events, Event("publication", a)) \in Seq(Events)
      /\ Extends(Append(ledger.audit_events, Event("publication", a)), ledger.audit_events)
      /\ Len(Append(ledger.audit_events, Event("publication", a))) <= MaxEvents
  BY <1>1, <1>2, ExtendsFacts
<1> QED
  BY <1>4, <1>5, LedgerWithPublications DEF Published

-----------------------------------------------------------------------------
(* Types, and what a command knows of its own files.                       *)

LEMMA StoreInit == Init => StoreInv
<1> SUFFICES ASSUME Init PROVE StoreInv
  OBVIOUS
<1>1. NewLedger.audit_events = << >>
  BY DEF NewLedger
<1>2. TypeOK
  BY NewLedgerType, StoreAssumption DEF Init, TypeOK, Seconds, Steps
<1>3. StepsAreConsistent
  BY <1>1, StoreAssumption DEF Init, StepsAreConsistent
<1> QED
  BY <1>2, <1>3, StoreAssumption DEF Init, StoreInv, FileIsBounded, FileAlwaysLoads

\* What every step below starts from.
LEMMA StoreFacts ==
    ASSUME StoreInv, NEW p \in Processes
    PROVE  /\ second \in Seconds
           /\ mem[p] \in Ledgers
           /\ mem[p].audit_events \in Seq(Events)
           /\ Len(mem[p].audit_events) \in Nat
           /\ Len(mem[p].audit_events) <= MaxEvents
           /\ NewLedger \in Ledgers /\ Len(NewLedger.audit_events) = 0
           /\ MaxEvents \in Nat
<1>1. mem[p] \in Ledgers /\ second \in Seconds
  BY DEF StoreInv, TypeOK
<1>2. mem[p].audit_events \in Seq(Events)
  BY <1>1 DEF Ledgers
<1>3. Len(NewLedger.audit_events) = 0
  BY DEF NewLedger
<1> QED
  BY <1>1, <1>2, <1>3, NewLedgerType, StoreAssumption
     DEF StoreInv, StepsAreConsistent

\* A step of one command leaves the others as they are.
LEMMA StepKeeps ==
    ASSUME StoreInv, NEW p \in Processes,
           NEW step \in Steps, NEW ledger \in Ledgers,
           NEW written \in Ledgers \cup {Absent, Torn},
           pc' = [pc EXCEPT ![p] = step],
           mem' = [mem EXCEPT ![p] = ledger],
           temp' = [temp EXCEPT ![p] = written],
           second' = second, file' \in Ledgers \cup {Absent, Torn},
           package' \in Packages \cup {Absent},
           package # Absent => package' # Absent,
           acked' \subseteq [position : 1..MaxEvents, event : Events],
           Len(ledger.audit_events) <= MaxEvents,
           step = "packaged" => /\ package' # Absent
                                /\ Len(ledger.audit_events) + 1 <= MaxEvents,
           step \in {"writing", "written"} => Valid(ledger),
           step = "written" => written = ledger
    PROVE  TypeOK' /\ StepsAreConsistent'
<1>1. TypeOK'
  BY DEF StoreInv, TypeOK
<1>2. ASSUME NEW q \in Processes
      PROVE  /\ Len(mem'[q].audit_events) <= MaxEvents
             /\ pc'[q] = "packaged" => /\ package' # Absent
                                       /\ Len(mem'[q].audit_events) + 1 <= MaxEvents
             /\ pc'[q] \in {"writing", "written"} => Valid(mem'[q])
             /\ pc'[q] = "written" => temp'[q] = mem'[q]
  <2>1. CASE q = p
    <3>1. pc'[q] = step /\ mem'[q] = ledger /\ temp'[q] = written
      BY <2>1 DEF StoreInv, TypeOK
    <3> QED
      BY <3>1
  <2>2. CASE q # p
    <3>1. pc'[q] = pc[q] /\ mem'[q] = mem[q] /\ temp'[q] = temp[q]
      BY <2>2 DEF StoreInv, TypeOK
    <3> QED
      BY <3>1 DEF StoreInv, StepsAreConsistent
  <2> QED
    BY <2>1, <2>2
<1>3. StepsAreConsistent'
  BY <1>2 DEF StepsAreConsistent
<1> QED
  BY <1>1, <1>3

\* A component that keeps its value is replaced by itself.
LEMMA SameInPlace ==
    ASSUME StoreInv, NEW p \in Processes
    PROVE  /\ mem = [mem EXCEPT ![p] = mem[p]] /\ mem[p] \in Ledgers
           /\ temp = [temp EXCEPT ![p] = temp[p]]
           /\ temp[p] \in Ledgers \cup {Absent, Torn}
BY DEF StoreInv, TypeOK

-----------------------------------------------------------------------------
(* One lemma per step of a command.                                        *)

LEMMA StopStep ==
    ASSUME StoreInv, NEW p \in Processes, Refuse(p) \/ Crash(p)
    PROVE  StoreInv'
<1>1. TypeOK' /\ StepsAreConsistent'
  <2>1. "idle" \in Steps /\ file' = file /\ package' = package /\ acked' = acked
    BY DEF Steps, Refuse, Crash
  <2>2. /\ pc' = [pc EXCEPT ![p] = "idle"] /\ mem' = [mem EXCEPT ![p] = NewLedger]
        /\ temp' = [temp EXCEPT ![p] = Absent] /\ second' = second
    BY DEF Refuse, Crash, Stop, Goto
  <2>3. /\ file \in Ledgers \cup {Absent, Torn} /\ package \in Packages \cup {Absent}
        /\ acked \subseteq [position : 1..MaxEvents, event : Events]
    BY DEF StoreInv, TypeOK
  <2>4. NewLedger \in Ledgers /\ Len(NewLedger.audit_events) <= MaxEvents
    BY StoreFacts
  <2> QED
    BY <2>1, <2>2, <2>3, <2>4, StepKeeps
<1>2. FileIsBounded' /\ FileAlwaysLoads'
  BY DEF StoreInv, FileIsBounded, FileAlwaysLoads, Refuse, Crash, Valid
<1> QED
  BY <1>1, <1>2 DEF StoreInv

\* The file, the package and what was acknowledged, before a step.
LEMMA SharedFacts ==
    ASSUME StoreInv
    PROVE  /\ file \in Ledgers \cup {Absent, Torn}
           /\ package \in Packages \cup {Absent}
           /\ acked \subseteq [position : 1..MaxEvents, event : Events]
           /\ file # Absent => file \in Ledgers /\ Valid(file)
BY DEF StoreInv, TypeOK, FileAlwaysLoads

LEMMA CreateStep ==
    ASSUME StoreInv, NEW p \in Processes, Create(p)
    PROVE  StoreInv'
<1>1. /\ pc' = [pc EXCEPT ![p] = "changed"] /\ mem' = [mem EXCEPT ![p] = NewLedger]
      /\ temp' = temp /\ second' = second /\ file' = file /\ package' = package
      /\ acked' = acked
  BY DEF Create, Goto
<1>2. TypeOK' /\ StepsAreConsistent'
  <2>1. "changed" \in Steps /\ NewLedger \in Ledgers
        /\ Len(NewLedger.audit_events) <= MaxEvents
    BY StoreFacts DEF Steps
  <2> QED
    BY <1>1, <2>1, SharedFacts, SameInPlace, StepKeeps
<1> QED
  BY <1>1, <1>2 DEF StoreInv, FileIsBounded, FileAlwaysLoads

LEMMA LoadStep ==
    ASSUME StoreInv, NEW p \in Processes, Load(p)
    PROVE  StoreInv'
<1>1. /\ pc' = [pc EXCEPT ![p] = "loaded"] /\ mem' = [mem EXCEPT ![p] = file]
      /\ temp' = temp /\ second' = second /\ file' = file /\ package' = package
      /\ acked' = acked /\ file \in Ledgers
  BY DEF Load, Goto
<1>2. TypeOK' /\ StepsAreConsistent'
  <2>1. "loaded" \in Steps /\ Len(file.audit_events) <= MaxEvents
    BY <1>1 DEF Steps, StoreInv, FileIsBounded
  <2> QED
    BY <1>1, <2>1, SharedFacts, SameInPlace, StepKeeps
<1> QED
  BY <1>1, <1>2 DEF StoreInv, FileIsBounded, FileAlwaysLoads

LEMMA OperateStep ==
    ASSUME StoreInv, NEW p \in Processes, NEW op \in Operations, NEW a \in Authors,
           Operate(p, op, a)
    PROVE  StoreInv'
<1> DEFINE ledger == Applied(mem[p], op, a)
<1>1. /\ pc' = [pc EXCEPT ![p] = "changed"] /\ mem' = [mem EXCEPT ![p] = ledger]
      /\ temp' = temp /\ second' = second /\ file' = file /\ package' = package
      /\ acked' = acked /\ Len(ledger.audit_events) <= MaxEvents
  BY SameInPlace DEF Operate, Goto
<1>2. ledger \in Ledgers
  BY StoreFacts, AppliedType
<1> HIDE DEF ledger
<1>3. TypeOK' /\ StepsAreConsistent'
  <2>1. "changed" \in Steps
    BY DEF Steps
  <2> QED
    BY <1>1, <1>2, <2>1, SharedFacts, SameInPlace, StepKeeps
<1> QED
  BY <1>1, <1>3 DEF StoreInv, FileIsBounded, FileAlwaysLoads

LEMMA PlacePackageStep ==
    ASSUME StoreInv, NEW p \in Processes, PlacePackage(p)
    PROVE  StoreInv'
<1>1. /\ pc' = [pc EXCEPT ![p] = "packaged"] /\ mem' = mem
      /\ temp' = temp /\ second' = second /\ file' = file
      /\ acked' = acked /\ Len(mem[p].audit_events) + 1 <= MaxEvents
  BY DEF PlacePackage, Goto
<1>2. package' \in Packages
  <2>1. Len(mem[p].audit_events) \in 0..MaxEvents /\ second \in Seconds
    BY <1>1, StoreFacts
  <2> QED
    BY <2>1 DEF PlacePackage, Packages
<1>3. package' # Absent
  BY <1>2, StoreAssumption
<1>4. TypeOK' /\ StepsAreConsistent'
  <2>1. "packaged" \in Steps
    BY DEF Steps
  <2> QED
    BY <1>1, <1>2, <1>3, <2>1, StoreFacts, SharedFacts, SameInPlace, StepKeeps
<1> QED
  BY <1>1, <1>4 DEF StoreInv, FileIsBounded, FileAlwaysLoads

LEMMA RecordPackageStep ==
    ASSUME StoreInv, NEW p \in Processes, NEW a \in Authors, RecordPackage(p, a)
    PROVE  StoreInv'
<1> DEFINE ledger == Published(mem[p], a, package)
<1>1. /\ pc' = [pc EXCEPT ![p] = "changed"] /\ mem' = [mem EXCEPT ![p] = ledger]
      /\ temp' = temp /\ second' = second /\ file' = file /\ package' = package
      /\ acked' = acked
  BY DEF RecordPackage, Goto
<1>2. package \in Packages /\ Len(mem[p].audit_events) + 1 <= MaxEvents
  BY SharedFacts DEF RecordPackage, StoreInv, StepsAreConsistent
<1>3. ledger \in Ledgers /\ Len(ledger.audit_events) <= MaxEvents
  BY <1>2, StoreFacts, PublishedType
<1> HIDE DEF ledger
<1>4. TypeOK' /\ StepsAreConsistent'
  <2>1. "changed" \in Steps
    BY DEF Steps
  <2> QED
    BY <1>1, <1>3, <2>1, SharedFacts, SameInPlace, StepKeeps
<1> QED
  BY <1>1, <1>4 DEF StoreInv, FileIsBounded, FileAlwaysLoads

LEMMA StartWriteStep ==
    ASSUME StoreInv, NEW p \in Processes, StartWrite(p)
    PROVE  StoreInv'
<1>1. /\ pc' = [pc EXCEPT ![p] = "writing"] /\ mem' = mem /\ Valid(mem[p])
      /\ temp' = [temp EXCEPT ![p] = Torn] /\ second' = second /\ file' = file
      /\ package' = package /\ acked' = acked
  BY DEF StartWrite, Goto
<1>2. TypeOK' /\ StepsAreConsistent'
  <2>1. "writing" \in Steps
    BY DEF Steps
  <2> QED
    BY <1>1, <2>1, StoreFacts, SharedFacts, SameInPlace, StepKeeps
<1> QED
  BY <1>1, <1>2 DEF StoreInv, FileIsBounded, FileAlwaysLoads

LEMMA FinishWriteStep ==
    ASSUME StoreInv, NEW p \in Processes, FinishWrite(p)
    PROVE  StoreInv'
<1>1. /\ pc' = [pc EXCEPT ![p] = "written"] /\ mem' = mem /\ Valid(mem[p])
      /\ temp' = [temp EXCEPT ![p] = mem[p]] /\ second' = second /\ file' = file
      /\ package' = package /\ acked' = acked
  BY DEF FinishWrite, Goto, StoreInv, StepsAreConsistent
<1>2. TypeOK' /\ StepsAreConsistent'
  <2>1. "written" \in Steps
    BY DEF Steps
  <2> QED
    BY <1>1, <2>1, StoreFacts, SharedFacts, SameInPlace, StepKeeps
<1> QED
  BY <1>1, <1>2 DEF StoreInv, FileIsBounded, FileAlwaysLoads

LEMMA ReplaceStep ==
    ASSUME StoreInv, NEW p \in Processes, Replace(p)
    PROVE  StoreInv'
<1>1. /\ pc' = [pc EXCEPT ![p] = "idle"] /\ mem' = [mem EXCEPT ![p] = NewLedger]
      /\ temp' = [temp EXCEPT ![p] = Absent] /\ second' = second
      /\ package' = package
  BY DEF Replace, Stop, Goto
<1>2. file' = mem[p] /\ Valid(mem[p]) /\ mem[p] \in Ledgers
  BY SameInPlace DEF Replace, StoreInv, StepsAreConsistent
<1>3. acked' \subseteq [position : 1..MaxEvents, event : Events]
  <2>1. ASSUME NEW n \in DOMAIN mem[p].audit_events
        PROVE  [position |-> n, event |-> mem[p].audit_events[n]]
                 \in [position : 1..MaxEvents, event : Events]
    <3>1. n \in 1..MaxEvents /\ mem[p].audit_events[n] \in Events
      BY StoreFacts
    <3> QED
      BY <3>1
  <2> QED
    BY <2>1, SharedFacts DEF Replace
<1>4. TypeOK' /\ StepsAreConsistent'
  <2>1. "idle" \in Steps
    BY DEF Steps
  <2>2. NewLedger \in Ledgers /\ Len(NewLedger.audit_events) <= MaxEvents
    BY StoreFacts
  <2> QED
    BY <1>1, <1>2, <1>3, <2>1, <2>2, SharedFacts, StepKeeps
<1>5. FileIsBounded' /\ FileAlwaysLoads'
  BY <1>2, StoreFacts DEF FileIsBounded, FileAlwaysLoads
<1> QED
  BY <1>4, <1>5 DEF StoreInv

LEMMA TickStep ==
    ASSUME StoreInv, Tick \/ UNCHANGED vars
    PROVE  StoreInv'
<1>1. /\ file' = file /\ package' = package /\ pc' = pc /\ mem' = mem
      /\ temp' = temp /\ acked' = acked
  BY DEF Tick, vars
<1>2. second' \in Seconds
  BY StoreAssumption DEF StoreInv, TypeOK, Tick, vars, Seconds
<1>3. TypeOK'
  BY <1>1, <1>2 DEF StoreInv, TypeOK
<1>4. StepsAreConsistent' /\ FileIsBounded' /\ FileAlwaysLoads'
  BY <1>1 DEF StoreInv, StepsAreConsistent, FileIsBounded, FileAlwaysLoads
<1> QED
  BY <1>3, <1>4 DEF StoreInv

LEMMA StoreNext == StoreInv /\ [Next]_vars => StoreInv'
<1> SUFFICES ASSUME StoreInv, [Next]_vars PROVE StoreInv'
  OBVIOUS
<1>1. ASSUME NEW p \in Processes,
             \/ Create(p) \/ Load(p)
             \/ \E op \in Operations, a \in Authors : Operate(p, op, a)
             \/ PlacePackage(p)
             \/ \E a \in Authors : RecordPackage(p, a)
             \/ StartWrite(p) \/ Refuse(p) \/ FinishWrite(p) \/ Replace(p)
             \/ Crash(p)
      PROVE  StoreInv'
  BY <1>1, CreateStep, LoadStep, OperateStep, PlacePackageStep, RecordPackageStep,
     StartWriteStep, FinishWriteStep, ReplaceStep, StopStep
<1>2. CASE Tick \/ UNCHANGED vars
  BY <1>2, TickStep
<1> QED
  BY <1>1, <1>2 DEF Next

-----------------------------------------------------------------------------
(* Theorems, with or without a lock.                                       *)

THEOREM StoreInvariant == Spec => []StoreInv
BY StoreInit, StoreNext, PTL DEF Spec

\* The variables keep their types, whatever the commands interleave.
THEOREM StoreTypeCorrect == Spec => []TypeOK
<1>1. StoreInv => TypeOK
  BY DEF StoreInv
<1> QED
  BY <1>1, StoreInvariant, PTL

\* Kill any command at any point, lock or no lock: the path holds no ledger
\* or a whole one that load_governance accepts.
THEOREM LedgerAlwaysLoads == Spec => []FileAlwaysLoads
<1>1. StoreInv => FileAlwaysLoads
  BY DEF StoreInv
<1> QED
  BY <1>1, StoreInvariant, PTL

-----------------------------------------------------------------------------
(* Theorems about commands their callers run one at a time.                *)

LEMMA ExtendsIsPrefix ==
    ASSUME NEW S, NEW s \in Seq(S), NEW t \in Seq(S), Extends(t, s)
    PROVE  Log!IsPrefix(s, t)
<1>1. Len(s) <= Len(t)
  <2>1. CASE Len(s) = 0
    BY <2>1
  <2>2. CASE Len(s) # 0
    <3>1. Len(s) \in DOMAIN s
      BY <2>2
    <3>2. Len(s) \in DOMAIN t
      BY <3>1 DEF Extends
    <3> QED
      BY <3>2
  <2> QED
    BY <2>1, <2>2
<1>2. \A n \in 1..Len(s) : t[n] = s[n]
  BY DEF Extends
<1>3. SubSeq(s, 1, Len(s)) = SubSeq(t, 1, Len(s))
  BY <1>1, <1>2
<1> QED
  BY <1>1, <1>3 DEF Log!IsPrefix

LEMMA ExtendsIsTransitive ==
    ASSUME NEW s, NEW t, NEW u, Extends(u, t), Extends(t, s)
    PROVE  Extends(u, s)
BY DEF Extends

LockedInv == StoreInv /\ OneCommandContinues /\ AcknowledgedIsKept

LEMMA LockedInit == Init => LockedInv
BY StoreInit DEF Init, LockedInv, OneCommandContinues, AcknowledgedIsKept

\* A step that leaves the file alone, for a command that was running or that
\* starts when none is.
LEMMA CommandContinues ==
    ASSUME LockedInv, NEW p \in Processes, NEW step \in Steps, NEW ledger \in Ledgers,
           pc' = [pc EXCEPT ![p] = step],
           mem' = [mem EXCEPT ![p] = ledger],
           file' = file, acked' = acked,
           pc[p] # "idle" \/ \A q \in Processes : pc[q] = "idle",
           file # Absent /\ step # "idle" =>
               Extends(ledger.audit_events, file.audit_events)
    PROVE  OneCommandContinues' /\ AcknowledgedIsKept'
<1>1. pc \in [Processes -> Steps] /\ mem \in [Processes -> Ledgers]
  BY DEF LockedInv, StoreInv, TypeOK
<1>2. \A q \in Processes : q # p => pc[q] = "idle" /\ pc'[q] = "idle"
  BY <1>1 DEF LockedInv, OneCommandContinues
<1>3. pc'[p] = step /\ mem'[p] = ledger
  BY <1>1
<1>4. OneCommandContinues'
  BY <1>2, <1>3 DEF OneCommandContinues
<1>5. AcknowledgedIsKept'
  BY DEF LockedInv, AcknowledgedIsKept
<1> QED
  BY <1>4, <1>5

\* The steps of a command that has started keep what it extends.
LEMMA RunningStep ==
    ASSUME LockedInv, NEW p \in Processes, pc[p] # "idle",
           \/ \E op \in Operations, a \in Authors : Operate(p, op, a)
           \/ PlacePackage(p)
           \/ \E a \in Authors : RecordPackage(p, a)
           \/ StartWrite(p) \/ Refuse(p) \/ FinishWrite(p) \/ Crash(p)
    PROVE  OneCommandContinues' /\ AcknowledgedIsKept'
<1> DEFINE log == mem[p].audit_events
<1>1. StoreInv /\ log \in Seq(Events)
  BY StoreFacts DEF LockedInv
<1>2. file # Absent => Extends(log, file.audit_events)
  BY DEF LockedInv, OneCommandContinues
<1>3. ASSUME NEW op \in Operations, NEW a \in Authors, Operate(p, op, a)
      PROVE  OneCommandContinues' /\ AcknowledgedIsKept'
  <2> DEFINE ledger == Applied(mem[p], op, a)
  <2>1. /\ pc' = [pc EXCEPT ![p] = "changed"] /\ mem' = [mem EXCEPT ![p] = ledger]
        /\ file' = file /\ acked' = acked
    BY <1>1, <1>3, SameInPlace DEF Operate, Goto
  <2>2. ledger \in Ledgers /\ Extends(ledger.audit_events, log)
    BY <1>1, StoreFacts, AppliedType
  <2>3. file # Absent => Extends(ledger.audit_events, file.audit_events)
    BY <1>2, <2>2, ExtendsIsTransitive
  <2>4. "changed" \in Steps
    BY DEF Steps
  <2> HIDE DEF ledger
  <2> QED
    BY <2>1, <2>2, <2>3, <2>4, CommandContinues
<1>4. ASSUME NEW a \in Authors, RecordPackage(p, a)
      PROVE  OneCommandContinues' /\ AcknowledgedIsKept'
  <2> DEFINE ledger == Published(mem[p], a, package)
  <2>1. /\ pc' = [pc EXCEPT ![p] = "changed"] /\ mem' = [mem EXCEPT ![p] = ledger]
        /\ file' = file /\ acked' = acked
    BY <1>1, <1>4, SameInPlace DEF RecordPackage, Goto
  <2>2. package \in Packages /\ Len(mem[p].audit_events) + 1 <= MaxEvents
    BY <1>1, <1>4, SharedFacts DEF RecordPackage, StoreInv, StepsAreConsistent
  <2>3. ledger \in Ledgers /\ Extends(ledger.audit_events, log)
    BY <1>1, <2>2, StoreFacts, PublishedType
  <2>4. file # Absent => Extends(ledger.audit_events, file.audit_events)
    BY <1>2, <2>3, ExtendsIsTransitive
  <2>5. "changed" \in Steps
    BY DEF Steps
  <2> HIDE DEF ledger
  <2> QED
    BY <2>1, <2>3, <2>4, <2>5, CommandContinues
<1>5. CASE PlacePackage(p) \/ StartWrite(p) \/ FinishWrite(p)
  <2>1. /\ mem' = [mem EXCEPT ![p] = mem[p]] /\ mem[p] \in Ledgers
        /\ file' = file /\ acked' = acked
    BY <1>1, <1>5, SameInPlace DEF PlacePackage, StartWrite, FinishWrite
  <2>2. PICK step \in Steps : pc' = [pc EXCEPT ![p] = step]
    BY <1>5 DEF PlacePackage, StartWrite, FinishWrite, Goto, Steps
  <2> QED
    BY <1>2, <2>1, <2>2, CommandContinues
<1>6. CASE Refuse(p) \/ Crash(p)
  <2>1. /\ pc' = [pc EXCEPT ![p] = "idle"] /\ mem' = [mem EXCEPT ![p] = NewLedger]
        /\ file' = file /\ acked' = acked
    BY <1>6 DEF Refuse, Crash, Stop, Goto
  <2>2. "idle" \in Steps
    BY DEF Steps
  <2> QED
    BY <2>1, <2>2, NewLedgerType, CommandContinues
<1> QED
  BY <1>3, <1>4, <1>5, <1>6

LEMMA StartingStep ==
    ASSUME LockedInv, ExternalLock, NEW p \in Processes, Create(p) \/ Load(p)
    PROVE  OneCommandContinues' /\ AcknowledgedIsKept'
<1>1. \A q \in Processes : pc[q] = "idle"
  BY DEF Create, Load, MayStart
<1>2. file' = file /\ acked' = acked
  BY DEF Create, Load
<1>3. CASE Create(p)
  <2>1. /\ pc' = [pc EXCEPT ![p] = "changed"] /\ mem' = [mem EXCEPT ![p] = NewLedger]
        /\ file = Absent /\ "changed" \in Steps
    BY <1>3 DEF Create, Goto, Steps
  <2> QED
    BY <1>1, <1>2, <2>1, NewLedgerType, CommandContinues
<1>4. CASE Load(p)
  <2>1. /\ pc' = [pc EXCEPT ![p] = "loaded"] /\ mem' = [mem EXCEPT ![p] = file]
        /\ file \in Ledgers /\ "loaded" \in Steps
    BY <1>4 DEF Load, Goto, Steps
  <2>2. Extends(file.audit_events, file.audit_events)
    BY DEF Extends
  <2> QED
    BY <1>1, <1>2, <2>1, <2>2, CommandContinues
<1> QED
  BY <1>3, <1>4

\* The command that replaces the file is the only one, and its ledger holds
\* whatever was acknowledged before.
LEMMA LockedReplaceStep ==
    ASSUME LockedInv, NEW p \in Processes, Replace(p)
    PROVE  OneCommandContinues' /\ AcknowledgedIsKept'
<1> DEFINE log == mem[p].audit_events
<1>1. /\ pc' = [pc EXCEPT ![p] = "idle"] /\ file' = mem[p] /\ pc[p] # "idle"
      /\ pc \in [Processes -> Steps]
  BY DEF Replace, Stop, Goto, LockedInv, StoreInv, TypeOK, StepsAreConsistent
<1>2. \A q \in Processes : pc'[q] = "idle"
  BY <1>1 DEF LockedInv, OneCommandContinues
<1>3. OneCommandContinues'
  BY <1>2 DEF OneCommandContinues
<1>4. file' # Absent
  BY <1>1, SameInPlace, StoreAssumption DEF LockedInv
<1>5. ASSUME NEW done \in acked'
      PROVE  done.position \in DOMAIN log /\ log[done.position] = done.event
  <2>1. CASE done \in acked
    <3>1. /\ file # Absent /\ done.position \in DOMAIN file.audit_events
          /\ file.audit_events[done.position] = done.event
      BY <2>1 DEF LockedInv, AcknowledgedIsKept
    <3>2. Extends(log, file.audit_events)
      BY <1>1, <3>1 DEF LockedInv, OneCommandContinues
    <3> QED
      BY <3>1, <3>2 DEF Extends
  <2>2. CASE done \notin acked
    <3>1. PICK n \in DOMAIN log : done = [position |-> n, event |-> log[n]]
      BY <2>2 DEF Replace
    <3> QED
      BY <3>1
  <2> QED
    BY <2>1, <2>2
<1> QED
  BY <1>1, <1>3, <1>4, <1>5 DEF AcknowledgedIsKept

LEMMA LockedNext ==
    ASSUME ExternalLock
    PROVE  LockedInv /\ [Next]_vars => LockedInv'
<1> SUFFICES ASSUME LockedInv, [Next]_vars PROVE LockedInv'
  OBVIOUS
<1>1. StoreInv'
  BY StoreNext DEF LockedInv
<1>2. ASSUME NEW p \in Processes, Create(p) \/ Load(p)
      PROVE  OneCommandContinues' /\ AcknowledgedIsKept'
  BY <1>2, StartingStep
<1>3. ASSUME NEW p \in Processes,
             \/ \E op \in Operations, a \in Authors : Operate(p, op, a)
             \/ PlacePackage(p)
             \/ \E a \in Authors : RecordPackage(p, a)
             \/ StartWrite(p) \/ Refuse(p) \/ FinishWrite(p) \/ Crash(p)
      PROVE  OneCommandContinues' /\ AcknowledgedIsKept'
  <2>1. pc[p] # "idle"
    BY <1>3 DEF Operate, PlacePackage, RecordPackage, StartWrite, Refuse,
                FinishWrite, Crash
  <2> QED
    BY <1>3, <2>1, RunningStep
<1>4. ASSUME NEW p \in Processes, Replace(p)
      PROVE  OneCommandContinues' /\ AcknowledgedIsKept'
  BY <1>4, LockedReplaceStep
<1>5. CASE Tick \/ UNCHANGED vars
  <2>1. file' = file /\ pc' = pc /\ mem' = mem /\ acked' = acked
    BY <1>5 DEF Tick, vars
  <2>2. OneCommandContinues'
    BY <2>1 DEF LockedInv, OneCommandContinues
  <2>3. AcknowledgedIsKept'
    BY <2>1 DEF LockedInv, AcknowledgedIsKept
  <2> QED
    BY <1>1, <2>2, <2>3 DEF LockedInv
<1> QED
  BY <1>1, <1>2, <1>3, <1>4, <1>5 DEF Next, LockedInv

THEOREM LockedInvariant ==
    ASSUME ExternalLock
    PROVE  Spec => []LockedInv
BY LockedInit, LockedNext, PTL DEF Spec

\* A step leaves the log as it is or appends to it.
LEMMA LogStep ==
    ASSUME LockedInv, [Next]_vars
    PROVE  [Log!Extend]_(IF file = Absent THEN << >> ELSE file.audit_events)
<1> DEFINE log == IF file = Absent THEN << >> ELSE file.audit_events
<1>1. CASE file' = file
  BY <1>1
<1>2. ASSUME NEW p \in Processes, Replace(p)
      PROVE  log' = log \/ Log!IsPrefix(log, log')
  <2>1. /\ file' = mem[p] /\ mem[p] \in Ledgers /\ pc[p] # "idle"
        /\ mem[p].audit_events \in Seq(Events)
    BY <1>2, StoreFacts DEF Replace, LockedInv, StoreInv, StepsAreConsistent
  <2>2. log' = mem[p].audit_events
    BY <2>1, StoreAssumption
  <2>3. CASE file = Absent
    <3>1. Extends(mem[p].audit_events, << >>) /\ << >> \in Seq(Events)
      BY DEF Extends
    <3>2. Log!IsPrefix(<< >>, mem[p].audit_events)
      BY <2>1, <3>1, ExtendsIsPrefix
    <3> QED
      BY <2>2, <2>3, <3>2
  <2>4. CASE file # Absent
    <3>1. file.audit_events \in Seq(Events)
      BY <2>4, SharedFacts DEF LockedInv, Ledgers
    <3>2. Extends(mem[p].audit_events, file.audit_events)
      BY <2>1, <2>4 DEF LockedInv, OneCommandContinues
    <3> QED
      BY <2>1, <2>2, <2>4, <3>1, <3>2, ExtendsIsPrefix
  <2> QED
    BY <2>3, <2>4
<1>3. file' = file \/ \E p \in Processes : Replace(p)
  BY DEF Next, vars, Create, Load, Operate, PlacePackage, RecordPackage, StartWrite,
         Refuse, FinishWrite, Crash, Tick
<1> QED
  BY <1>1, <1>2, <1>3 DEF Log!Extend

\* When its callers serialise the commands, the file is an append-only log.
THEOREM LockedLedgerIsALog ==
    ASSUME ExternalLock
    PROVE  Spec => ImplementsLog
<1>1. Init => Log!Init
  BY DEF Init, Log!Init
<1>2. LockedInv /\ [Next]_vars =>
        [Log!Extend]_(IF file = Absent THEN << >> ELSE file.audit_events)
  BY LogStep
<1> QED
  BY <1>1, <1>2, LockedInvariant, PTL DEF Spec, ImplementsLog, Log!Spec

\* When its callers serialise the commands, what a command reported as
\* recorded is never lost, whatever is killed.
THEOREM AcknowledgedStays ==
    ASSUME ExternalLock
    PROVE  Spec => []AcknowledgedIsKept
<1>1. LockedInv => AcknowledgedIsKept
  BY DEF LockedInv
<1> QED
  BY <1>1, LockedInvariant, PTL

-----------------------------------------------------------------------------
(* Packages and their records, when the callers serialise the commands.    *)

RecordsInv == LockedInv /\ PackagesAreRecorded

\* A ledger whose log grew keeps its records.
LEMMA GrownRecords ==
    ASSUME NEW s, NEW t, NEW built, Recorded(s, built),
           t.publications = s.publications, Extends(t.audit_events, s.audit_events)
    PROVE  Recorded(t, built)
BY DEF Recorded, Extends

\* So it does when a later package replaces the one in place.
LEMMA LaterPackage ==
    ASSUME NEW ledger, NEW s \in Ledgers, NEW built, NEW later \in Packages,
           Recorded(s, built), Extends(ledger.audit_events, s.audit_events),
           ledger \in Ledgers, later.at = Len(ledger.audit_events)
    PROVE  Recorded(s, later)
<1>1. later # Absent
  BY StoreAssumption
<1>2. ASSUME NEW pub \in s.publications
      PROVE  pub.sha256.at <= later.at
  <2>1. /\ pub.position \in DOMAIN s.audit_events
        /\ pub.sha256.at = pub.position - 1
    BY DEF Recorded
  <2>2. pub.position \in DOMAIN ledger.audit_events
    BY <2>1 DEF Extends
  <2>3. ledger.audit_events \in Seq(Events)
    BY DEF Ledgers
  <2>4. pub.position \in 1..Len(ledger.audit_events)
    BY <2>2, <2>3
  <2> QED
    BY <2>1, <2>3, <2>4
<1> QED
  BY <1>1, <1>2 DEF Recorded

\* The record that is added is about the package that is in place.
LEMMA PublishedRecords ==
    ASSUME NEW ledger \in Ledgers, NEW a \in Authors, NEW built \in Packages,
           second \in Seconds, Len(ledger.audit_events) + 1 <= MaxEvents,
           Recorded(ledger, built), built.at = Len(ledger.audit_events)
    PROVE  Recorded(Published(ledger, a, built), built)
<1> DEFINE new == Published(ledger, a, built)
           log == ledger.audit_events
           record == [position |-> Len(log) + 1, sha256 |-> built]
<1>1. log \in Seq(Events) /\ ledger.publications \in SUBSET Publications
  BY DEF Ledgers
<1>2. Event("publication", a) \in Events
  BY DEF Event, Events
<1>3. /\ new.audit_events = Append(log, Event("publication", a))
      /\ new.publications = ledger.publications \cup {record}
  BY DEF Published, Ledgers
<1>4. Extends(new.audit_events, log)
  BY <1>1, <1>2, <1>3, ExtendsFacts
<1>5. built # Absent
  BY StoreAssumption
<1> HIDE DEF new
<1>6. /\ Len(log) + 1 \in DOMAIN new.audit_events
      /\ new.audit_events[Len(log) + 1].type = "publication"
  BY <1>1, <1>2, <1>3 DEF Event
<1>7. ASSUME NEW pub \in new.publications
      PROVE  /\ pub.position \in DOMAIN new.audit_events
             /\ new.audit_events[pub.position].type = "publication"
             /\ pub.sha256.at = pub.position - 1
             /\ pub.sha256.at <= built.at
  <2>1. CASE pub \in ledger.publications
    BY <1>4, <2>1 DEF Recorded, Extends
  <2>2. CASE pub = record
    BY <1>1, <1>6, <2>2
  <2> QED
    BY <1>3, <2>1, <2>2
<1> QED
  BY <1>5, <1>7 DEF Recorded, new

LEMMA RecordsInit == Init => RecordsInv
BY LockedInit DEF Init, RecordsInv, PackagesAreRecorded

\* What a step of the one command that runs has to show.
LEMMA RecordsStep ==
    ASSUME RecordsInv, NEW p \in Processes, NEW step \in Steps, NEW ledger \in Ledgers,
           pc' = [pc EXCEPT ![p] = step],
           mem' = [mem EXCEPT ![p] = ledger],
           pc[p] # "idle" \/ \A q \in Processes : pc[q] = "idle",
           file' # Absent => Recorded(file', package'),
           step # "idle" => Recorded(ledger, package'),
           step = "packaged" => package'.at = Len(ledger.audit_events)
    PROVE  PackagesAreRecorded'
<1>1. pc \in [Processes -> Steps] /\ mem \in [Processes -> Ledgers]
  BY DEF RecordsInv, LockedInv, StoreInv, TypeOK
<1>2. \A q \in Processes : q # p => pc'[q] = "idle"
  BY <1>1 DEF RecordsInv, LockedInv, OneCommandContinues
<1>3. pc'[p] = step /\ mem'[p] = ledger
  BY <1>1
<1>4. ASSUME NEW q \in Processes
      PROVE  /\ pc'[q] # "idle" => Recorded(mem'[q], package')
             /\ pc'[q] = "packaged" => package'.at = Len(mem'[q].audit_events)
  BY <1>2, <1>3
<1> QED
  BY <1>4 DEF PackagesAreRecorded

LEMMA RecordsNext ==
    ASSUME ExternalLock
    PROVE  RecordsInv /\ [Next]_vars => RecordsInv'
<1> SUFFICES ASSUME RecordsInv, [Next]_vars PROVE RecordsInv'
  OBVIOUS
<1>1. LockedInv' /\ LockedInv /\ StoreInv
  BY LockedNext DEF RecordsInv, LockedInv
<1>2. /\ file # Absent => Recorded(file, package)
      /\ \A p \in Processes : pc[p] # "idle" => Recorded(mem[p], package)
  BY DEF RecordsInv, PackagesAreRecorded
<1>3. Recorded(NewLedger, package)
  BY DEF Recorded, NewLedger
<1>4. ASSUME NEW p \in Processes, Create(p)
      PROVE  PackagesAreRecorded'
  <2>1. /\ pc' = [pc EXCEPT ![p] = "changed"] /\ mem' = [mem EXCEPT ![p] = NewLedger]
        /\ file' = file /\ package' = package /\ "changed" \in Steps
        /\ \A q \in Processes : pc[q] = "idle"
    BY <1>4 DEF Create, Goto, MayStart, Steps
  <2> QED
    BY <1>2, <1>3, <2>1, NewLedgerType, RecordsStep
<1>5. ASSUME NEW p \in Processes, Load(p)
      PROVE  PackagesAreRecorded'
  <2>1. /\ pc' = [pc EXCEPT ![p] = "loaded"] /\ mem' = [mem EXCEPT ![p] = file]
        /\ file' = file /\ package' = package /\ "loaded" \in Steps
        /\ \A q \in Processes : pc[q] = "idle"
        /\ file \in Ledgers /\ file # Absent
    BY <1>5, StoreAssumption DEF Load, Goto, MayStart, Steps
  <2> QED
    BY <1>2, <2>1, RecordsStep
<1>6. ASSUME NEW p \in Processes, NEW op \in Operations, NEW a \in Authors, Operate(p, op, a)
      PROVE  PackagesAreRecorded'
  <2> DEFINE ledger == Applied(mem[p], op, a)
  <2>1. /\ pc' = [pc EXCEPT ![p] = "changed"] /\ mem' = [mem EXCEPT ![p] = ledger]
        /\ file' = file /\ package' = package /\ "changed" \in Steps
        /\ pc[p] # "idle"
    BY <1>1, <1>6, SameInPlace DEF Operate, Goto, Steps
  <2>2. ledger \in Ledgers /\ Extends(ledger.audit_events, mem[p].audit_events)
    BY <1>1, StoreFacts, AppliedType
  <2>3. ledger.publications = mem[p].publications
    BY <1>1, StoreFacts DEF Applied, Ledgers
  <2> HIDE DEF ledger
  <2>4. Recorded(ledger, package)
    BY <1>2, <2>1, <2>2, <2>3, GrownRecords
  <2> QED
    BY <1>2, <2>1, <2>2, <2>4, RecordsStep
<1>7. ASSUME NEW p \in Processes, PlacePackage(p)
      PROVE  PackagesAreRecorded'
  <2>1. /\ pc' = [pc EXCEPT ![p] = "packaged"] /\ mem' = [mem EXCEPT ![p] = mem[p]]
        /\ file' = file /\ "packaged" \in Steps /\ pc[p] # "idle"
        /\ mem[p] \in Ledgers
    BY <1>1, <1>7, SameInPlace DEF PlacePackage, Goto, Steps
  <2>2. package' \in Packages /\ package'.at = Len(mem[p].audit_events)
    <3>1. Len(mem[p].audit_events) \in 0..MaxEvents /\ second \in Seconds
      BY <1>1, StoreFacts
    <3> QED
      BY <1>7, <3>1 DEF PlacePackage, Packages
  <2>3. Extends(mem[p].audit_events, mem[p].audit_events)
    BY DEF Extends
  <2>4. Recorded(mem[p], package')
    BY <1>2, <2>1, <2>2, <2>3, LaterPackage
  <2>5. CASE file = Absent
    BY <2>1, <2>2, <2>4, <2>5, RecordsStep
  <2>6. CASE file # Absent
    <3>1. file \in Ledgers /\ Extends(mem[p].audit_events, file.audit_events)
      BY <1>1, <2>1, <2>6, SharedFacts DEF LockedInv, OneCommandContinues
    <3>2. Recorded(file, package')
      BY <1>2, <2>1, <2>2, <2>6, <3>1, LaterPackage
    <3> QED
      BY <2>1, <2>2, <2>4, <3>2, RecordsStep
  <2> QED
    BY <2>5, <2>6
<1>8. ASSUME NEW p \in Processes, NEW a \in Authors, RecordPackage(p, a)
      PROVE  PackagesAreRecorded'
  <2> DEFINE ledger == Published(mem[p], a, package)
  <2>1. /\ pc' = [pc EXCEPT ![p] = "changed"] /\ mem' = [mem EXCEPT ![p] = ledger]
        /\ file' = file /\ package' = package /\ "changed" \in Steps
        /\ pc[p] # "idle"
    BY <1>1, <1>8, SameInPlace DEF RecordPackage, Goto, Steps
  <2>2. /\ package \in Packages /\ Len(mem[p].audit_events) + 1 <= MaxEvents
        /\ package.at = Len(mem[p].audit_events)
    BY <1>1, <1>8, SharedFacts
       DEF RecordPackage, StoreInv, StepsAreConsistent, RecordsInv, PackagesAreRecorded
  <2>3. ledger \in Ledgers
    BY <1>1, <2>2, StoreFacts, PublishedType
  <2>4. Recorded(ledger, package)
    BY <1>1, <1>2, <2>1, <2>2, StoreFacts, PublishedRecords
  <2> HIDE DEF ledger
  <2> QED
    BY <1>2, <2>1, <2>3, <2>4, RecordsStep
<1>9. ASSUME NEW p \in Processes, StartWrite(p) \/ FinishWrite(p)
      PROVE  PackagesAreRecorded'
  <2>1. /\ mem' = [mem EXCEPT ![p] = mem[p]] /\ mem[p] \in Ledgers
        /\ file' = file /\ package' = package /\ pc[p] # "idle"
    BY <1>1, <1>9, SameInPlace DEF StartWrite, FinishWrite
  <2>2. PICK step \in {"writing", "written"} : pc' = [pc EXCEPT ![p] = step]
    BY <1>9 DEF StartWrite, FinishWrite, Goto
  <2>3. step \in Steps /\ step # "packaged"
    BY DEF Steps
  <2> QED
    BY <1>2, <2>1, <2>2, <2>3, RecordsStep
<1>10. ASSUME NEW p \in Processes, Refuse(p) \/ Crash(p) \/ Replace(p)
       PROVE  PackagesAreRecorded'
  <2>1. /\ pc' = [pc EXCEPT ![p] = "idle"] /\ mem' = [mem EXCEPT ![p] = NewLedger]
        /\ package' = package /\ "idle" \in Steps /\ pc[p] # "idle"
    BY <1>10 DEF Refuse, Crash, Replace, Stop, Goto, Steps
  <2>2. file' = file \/ file' = mem[p]
    BY <1>1, <1>10 DEF Refuse, Crash, Replace, StoreInv, StepsAreConsistent
  <2>3. file' # Absent => Recorded(file', package')
    BY <1>2, <2>1, <2>2
  <2> QED
    BY <2>1, <2>3, NewLedgerType, RecordsStep
<1>11. CASE Tick \/ UNCHANGED vars
  <2>1. file' = file /\ package' = package /\ pc' = pc /\ mem' = mem
    BY <1>11 DEF Tick, vars
  <2> QED
    BY <1>1, <2>1 DEF RecordsInv, PackagesAreRecorded
<1> QED
  BY <1>1, <1>4, <1>5, <1>6, <1>7, <1>8, <1>9, <1>10, <1>11 DEF Next, RecordsInv

\* No record without its package: what the ledger says was published is at the
\* output path, or a later build of the same ledger is.
THEOREM NoRecordWithoutPackage ==
    ASSUME ExternalLock
    PROVE  Spec => []PackagePrecedesRecord
<1>1. RecordsInv => PackagePrecedesRecord
  BY DEF RecordsInv, PackagesAreRecorded, Recorded, PackagePrecedesRecord
<1> QED
  BY <1>1, RecordsInit, RecordsNext, PTL DEF Spec

\* The hash of a record is that of the package made for it.
THEOREM RecordsAreOfTheirPackage ==
    ASSUME ExternalLock
    PROVE  Spec => []RecordsDescribeTheirPackage
<1>1. RecordsInv => RecordsDescribeTheirPackage
  BY DEF RecordsInv, PackagesAreRecorded, Recorded, RecordsDescribeTheirPackage
<1> QED
  BY <1>1, RecordsInit, RecordsNext, PTL DEF Spec

=============================================================================
