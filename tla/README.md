# A verification project for QSIdentify

QSIdentify identifies Quansheng radios over a serial line with one read-only
request, keeps what it heard as capture files, distils captures into evidence
bundles, collects bundles in a registry, and governs what may be published from
that registry: reviews, proposals, thresholds, lifecycle stages, publications.
Here are TLA+ modules of the parts of it that decide, store or wait, the TLC
runs that check them on small instances, and the theorems that TLAPS proves
about them for every instance. `PROJECT.json` lists components, runs, the
source lines behind each definition, hazards, findings and theorems.

    tlasany M.tla                       parse
    tlc -workers 2 -config X.cfg M      model-check
    tlapm M.tla                         check the proofs of M

Paths below are under `src/src/qsidentify/` unless they begin with `docs/` or
`tests/`, which are under `src/`.

## 1. Inventory

### The parts and how they interact

    radio/adapter -> serial transport -> stream analysis -> decoder -> report
                                                                         |
                       capture file  <- build / sanitize / read <--------+
                            |
                      evidence bundle -> registry  <- contribution package
                                            |
         reviews, proposals, approvals -> governance ledger -> publication

Everything is a command-line program: one process per command, no daemon, no
threads. Commands talk to each other only through files (captures, bundles,
the registry, the ledger, packages), each of which is read whole, changed in
memory and replaced whole. What is concurrent is therefore (a) a process, its
port and the clock, (b) two commands on the same files, and (c) a command and
the signal or fault that kills it. What is hard besides is the long protocol of
reviews, approvals, removals and publications that no single test walks.

| Part | Source | State | Operations | What makes it correct |
|---|---|---|---|---|
| Serial transport | `transport.py` | port, input buffer, bytes so far, chunks, two deadlines | `collect_stream` (`exchange`, `monitor`) | no byte lost, doubled or reordered; exact size limit; honest stamps; stops on time; always ends and closes |
| Frame codec | `drivers/quansheng/frame.py` | none | `encode_frame`, `decode_frame`, `crc16_xmodem`, `xor_transform` | accepts what it encodes and nothing damaged |
| Stream analysis | `drivers/quansheng/stream.py` | cursor, candidates, consumed ranges | `analyze_stream` | ends; partitions the bytes; takes only sent frames for responses; resynchronises unless a stray header swallows a frame; classifies what is there |
| Decoder, driver | `drivers/` | none | `decode_response`, allowlist | read-only commands only; one message type per payload |
| Probe, monitor, matrix, evidence-probe | `probe.py`, `cli.py` | attempt, capture in memory, files | one serial call per attempt, capture written per attempt | attempts kept without gaps; verdicts about evidence that was kept |
| Capture files | `capture.py`, `hardening.py` | files, schemas 1 to 3 | build, write, read, sanitize, validate | what is written can be read; sanitizing keeps evidence and leaves no machine metadata |
| Evidence bundles | `evidence.py` | bundle files | stability, fingerprint, comparison, export, validate | stable octets are stable in every capture; labels, times and repetitions make no other fingerprint, and order only through the protocol |
| Evidence registry | `evidence_registry.py` | file: bundles, devices, declarations, candidates, events | create, add, remove, propose | the log explains the registry; devices index active bundles; contradictions stay |
| Contributions | `contribution.py` | package file | create, review, plan import | what is imported is valid, duplicates skipped; own packages are rejected only for their notes or a bundle replaced meanwhile |
| Governance ledger | `governance/` | transitions, reviews, proposals, publications, audit events | create, review, propose, review a proposal, approve, publish, transition | stages backed by reviews, persons, thresholds and approvals; history only grows |
| Ledger file, commands | `governance/ledger.py`, `cli.py` | file, temporaries, package | load, operate, validate, replace | always loads; loses nothing acknowledged |
| Publication archive | `governance/publication.py` | archive | build, verify | what is built verifies; records describe packages |
| Advisory and catalog | `drivers/quansheng/advisory.py`, `catalog.py` | packaged catalogs | load, advise | advice is true of the radio that is declared; contradictions get no verdict |
| CLI presentation, fixtures | `cli.py`, `comparison.py`, `doctor.py`, `api.py`, `fixtures.py` | none | output | not modelled |

The hazards, each at its line and with the properties that cover it, are in
`PROJECT.json`.

### Modules

| Module | Models | Extends / instances |
|---|---|---|
| `Evidence` | bundles and declarations, policy counts, conflicts, candidate status: pure operators | |
| `EvidenceView` | abstract registry: active bundles, declarations, candidates | `Evidence` |
| `EvidenceRegistry` | the registry in full, as a file that commands replace; implements `EvidenceView` | `Evidence`, `View == INSTANCE EvidenceView` |
| `EvidenceBundle` | stability, fingerprint, comparison, sanitized bundles: pure operators | |
| `Contribution` | packages, their review, the plan of an import: pure operators | `EvidenceBundle` |
| `EvidencePipeline` | from captures to candidates: export, pack, review, import, add, remove and propose over files that others replace | `Contribution` |
| `Governance` | the ledger's operations while the registry changes under it | `EvidenceView` |
| `GovernanceStore` | the ledger as a file and the commands that replace it | `Log == INSTANCE AppendOnlyLog` |
| `AppendOnlyLog` | abstract: a log that is only extended | |
| `SerialTransport` | one call of `collect_stream` | |
| `Frame` | the codec with its real constants, parameterised by the arithmetic of bits | |
| `Crc` | CRC-16/XMODEM and the exclusive or of octets | |
| `FrameStream` | both loops of the stream analysis and its classification, parameterised by the codec | |
| `Capture` | reports, captures, reading, sanitizing, validating: pure operators | |
| `CaptureFiles` | the radio commands and `capture-sanitize` over a directory | `Capture` |
| `Advisory` | the packaged catalogs, their loaders and `firmware-advice` | |
| `GovernanceProofs`, `GovernanceStoreProofs`, `EvidenceRegistryProofs`, `PipelineProofs`, `SerialTransportProofs`, `FrameStreamProofs`, `CaptureProofs`, `AdvisoryProofs` | theorems | the module named (`PipelineProofs`: `EvidencePipeline`; `FrameStreamProofs` also `Frame`), `TLAPS` |
| `MC*` | small instances | the module named |

Operators named "Faulty variant" in comments are not part of the model: each
is what a plausible bug would make of the definition after it, and is used to
see that a property notices.

## 2. Governance

`Governance` has one action per command of the ledger: `CreateReview`,
`CreateProposal`, `ReviewProposal`, `ApproveProposal`, `BuildPublication`,
`ApplyTransition`. An action's guard is the conjunction of all the refusals of
the code (a refused command changes nothing), and the registry moves by the
actions of `EvidenceView` between any two. Stage gates are those of
`apply_transition`: the allowed move, the human gate, an approving review, the
policy's capability, a supporting approved proposal. `People` are the actors
not in `NON_HUMAN_ACTORS`; reviews and approvals do not look at that set, and
neither does the model.

What is abstracted: a subject's transition history is its authoritative stage;
audit events are the set of (type, subject, actor); ids, digests and times are
gone, so the same decision twice is one record; two members stand for the
review types and two for the decisions, since the code asks only "is it of
type proposal" and "does it approve". Candidate entries of a proposal are the
supporting ones of the registry.

`governance_lifecycle` checks, over two radios, two bundles, one subject, one
proposal, one reviewer, two review records and two publications:
promoted subjects were reviewed (`PromotedSubjectsWereReviewed`) and a person
took part (`PromotionTookAPerson`); approved subjects come from
approved proposals (`ApprovedSubjectsWereApproved`), although a later review
reopens a proposal of any status; publications cite lasting reviews and the
draft they were built from (`PublicationsAreBacked`); `published` means built
(`StatusMatchesPublications`); an approval long after the draft still meets the
draft's thresholds (`ApprovalKeepsDraftThresholds`); and history only grows
(`HistoryOnlyGrows`). Thresholds are scaled to two radios (1, 2, 2, 1, 2 in
place of 1, 2, 3, 5, 10); two publications let one proposal be built twice. One
subject and one proposal are enough for the gates, which look at one of each;
`GovernanceProofs` has the same statements for any number.

Two runs refute what documents say. `governance_contradiction`: a proposal is
approved while a blocking conflict is reported, since `approve_proposal` never
calls `detect_conflicts`. `governance_inspection`: the docstring of
`_device_counts` (`governance/policy.py:25-28`) says that inspected radios
"additionally carry" a declaration beside their bundle, and that verified radios
carry theirs "on an evidence-bearing device". The code counts declarations alone,
and these outlive the bundles; so after both bundles are removed a subject still
gets to candidate on two inspected radios of which none has evidence
(`StagesCountRadiosWithEvidence`). A known limitation that no run is spent on:
the approver is added to the reviewer ids of the proposal that is returned and
not of the stored one (`governance/proposals.py:209`), so a publication, which
`docs/catalog-publication.md:20` says certifies reviewer ids, does not name him.

A smaller observation is in the model and not a finding: the docstring of
`approve_proposal` speaks of a proposal under review, and the code also
approves a drafted one (`proposals.py:192`) if an approving review of it exists.

## 3. The ledger as a file

`GovernanceStore` looks inside a command: `Create` or `Load`, `Operate` or
`PlacePackage` then `RecordPackage`, then `StartWrite` (the ledger in memory is
validated, a temporary file opened) or `Refuse`, `FinishWrite`, `Replace`;
`Crash` at every point stands for a kill and a failed write alike. The clock
has whole seconds, because `review_id` hashes them: the same review twice in a
second makes a ledger that fails validation, and it must be refused before it
is written. A ledger is its list of events, its review ids and its publication
records; the digest chain is the position in the list. `record_registry_mutation`
is the operation `decision`. The actor of a publication event is fixed in the
code, and an author stands for it. `write_governance` is taken to fail as a
whole or to do all of its write; a short write without error does not happen.

The program takes no lock. `docs/public-api.md:30-31` asks callers who share a
registry for one, so `ExternalLock` is a constant. With it, `governance_store`
(two commands, two authors, two seconds, four events) checks that the file
always loads (`FileAlwaysLoads`), that a record never precedes its package
(`PackagePrecedesRecord`), that its hash is of the package built from the ledger
it was added to (`RecordsDescribeTheirPackage`), that acknowledged events stay
(`AcknowledgedIsKept`), and that the file is an `AppendOnlyLog`. Without the
lock `AcknowledgedIsKept` fails, as it must: the second of two commands drops
the events of the first. That the file still always loads is the theorem
`LedgerAlwaysLoads`, which holds for both values of the constant. Four events
are room for a refused duplicate, two builds and a lost update.

## 4. The evidence registry

`EvidenceRegistry` is the registry file and the commands on it. A command loads
the file (`Load`), changes the registry in memory (`RegistryAdd` and
`ImportContribution`, one bundle a step, as many as the command line or the
package has; `RegistryRemove`; `ProposeDiscriminator`) and replaces the file
once (`Replace`), or ends without (`End`: refused, killed, a dry run). A
duplicate ends an add and is skipped by an import. Which bundles a command is
given is chosen as it goes, which gives every list. The program takes no lock;
`ExternalLock` says whether callers do (`docs/public-api.md:30-31`).

The registry has bundles, devices, declarations, candidates and events.
Abstractions: of the declared hardware fields one (`mcu`) is kept, the others
being treated alike; `--device-label` is fixed per bundle, in the bundle's
description `File`; byte regions are few and each bundle has the values it shows
there. Conflicts and candidate status are operators of `Evidence`, shared with
governance.

`evidence_registry` has two commands, which are alike and so symmetric, under a
lock, and five bundles of three radios chosen so that every kind of conflict and
relation occurs (see `MCEvidenceRegistry`). The log explains the registry
(`LogExplainsRegistry`), device records list exactly their active bundles
(`DeviceIndexExact`), the first claim stands (`FirstClaimStands`), candidates
are snapshots of the moment they were proposed (`CandidatesAreSnapshots`),
contradictions are never cleared (`ConflictsAreNeverCleared`), and each command
is one step of `EvidenceView` or none (`ImplementsView`), which is what lets
`Governance` use the view for its environment. Five events are an add, another,
a proposal, a removal and an add again; a command that finds no room for its
events still ends, so deadlock is checked.

Without the lock `ConflictsAreNeverCleared` and `ImplementsView` fail by a lost
update; the four invariants do not, which is proved. A known limitation:
`registry-discriminator-propose` prints the first candidate of the offset and
length asked for, whichever probe it is of (`cli.py:1352`).

## 5. Serial transport

`SerialTransport` is one call of `collect_stream`, an action per statement that
can fail or wait: open, set the lines, reset, write, then check the clock, read,
receive. Bytes are numbered by arrival, so loss and reordering show. The port
and the clock are actions of their own: `Arrive` between any two statements,
`Tick` whenever the process is in the loop. `prompt` distinguishes a process
that runs whenever it can from one that may be held up anywhere. The serial
library is external: a read returns when it has all it asked for or when its
timeout has passed, with what there is.

`serial_transport` (timeouts of 4, 2 and 1 ticks, five bytes, a limit of three,
reads of at most three in place of 64) checks `ResponseIsTheStream`,
`SizeLimitIsExact`, `ChunksAreNotEarly`, `StopsOnTime` and, as liveness,
`EveryCallEnds`. The limit equals the read size so that both `min` branches of
the read size are taken; five bytes go past the limit. Fairness is weak, on the
process's steps (an operating system schedules it and `read` has a timeout) and
on the clock; nothing is assumed of the radio, which may send for ever or never.
A process that is held up between two reads may find its idle timeout expired
with bytes unread; `StopsOnTime` is therefore about the prompt one, and no
document promises more. `TransportAssumption` has the timeouts in the order that
`SerialTiming` demands: an idle timeout above the total one raises a
`ValueError`, which `probe`, `evidence-probe` and `identify` do not catch
(`RefuseTiming` in `CaptureFiles`).

## 6. Codec and scan

`Frame` is the codec with the real constants and the XOR key, `Crc` the
arithmetic of bits below it: the provers cannot use a module of bitwise
operators, so the exclusive or and the checksum are parameters of `Frame`, which
the configuration gives their real values. Only frames of the length their
header declares are decoded, which is all the scanner hands over; a declared
size of 0 stands for a `FrameError` of `frame_size_from_header`.

`FrameStream` is `analyze_stream`, one turn of a loop an action. The first loop
looks for a header from the cursor on and records one candidate (`Cut`,
`BadHeader`, `Echo`, `BadFrame`, `GoodFrame`); what it takes, it also appends to
`consumed`. The second loop (`Collect`) passes the consumed frames and collects
the bytes between them, and `Finish` adds the rest and classifies. The codec is a
parameter of the scan, so that the scan can be reasoned about without it;
`MCFrameStream` joins the two. A monitor transmits nothing: its `TX` is empty,
which the assumptions and the theorems cover; the run scans the answers to a
request. `leading_bytes` and `trailing_bytes`, which are only displayed, are left
out.

`frame_stream` starts from 5249 streams: up to three pieces out of whole frames
(the request, a response, a frame with a header inside, a legacy checksum),
noise, cuts, stray headers and a bad footer; and a response with each of its
bytes replaced by each other value, followed by a whole one. It checks

- `BytesArePartitioned`: the consumed frames do not overlap and the unparsed
  bytes are those outside them, each in its place;
- `ResponsesWereSent`: every echo and every valid response was sent, whole and
  there, and no response is an echo. Noise can be a frame by chance (the
  checksum has 16 bits); `NoFrameByChance` says that a stream has none of that,
  and TLC evaluates that the streams of the run do not (`NoiseIsNoise`). A frame
  with a legacy checksum is not covered: nothing tells it from noise that ends
  in FF FF;
- `FramesAreRecovered`: a frame that was sent is found, whatever noise and damage
  lie around it, if no stray header swallows its first byte or that of a frame
  before it. A stray header is one among bytes that belong to no frame that was
  sent (`Strays`); it swallows what the frame it declares reaches over, if the
  stream ends within that frame or it passes for one (`Swallows`);
- `ClassificationIsExact`: a classification means of the stream what
  `docs/transport-diagnostics.md` says (`Means`): echo-only that it is copies of
  the request and no more, null-byte that it is zeros, no-response that it is
  empty, each exactly; that a stream called an echo holds one, one called a
  response has one that is no echo, one called incomplete ends in a cut
  candidate, and in one called unframed no header begins anywhere;
- `ScanEnds`: both loops end, under weak fairness of the loops (a function that is
  called runs).

`frame_loss` refutes that every frame is found (`EveryFrameIsFound`), as
`docs/protocol.md:46-48` and `docs/transport-diagnostics.md:23-24` have it: the
scan "scans every `ab cd` candidate" and "continues looking for a non-echo
response". A stray header that declares more bytes than follow takes the rest of
the stream and ends the scan (`stream.py:51-55`); in the run the header AB CD 09
00 stands before a whole response, and the classification is
incomplete-response.

## 7. Captures

`Capture` has what a serial call becomes: its report, the capture, the file, the
checks of the reader, sanitization, validation. Bytes are abstracted to the
outcome of their analysis, in two readings: with the request as what was
transmitted, and without (a monitor sent nothing, so an echo is a frame like any
other to it; a partial echo is taken as a cut frame). A field is kept when some
check compares it with another: schema, driver, operation, command, request,
classification, timing, port, and their copies in the report. Types, hex, chunk
joins, versions, baud rates and display fields are left out. A port is one of
four kinds: an adapter's, one below the home directory, a redacted one, the
normalized one.

`CaptureFiles` has the commands that produce captures (`probe`, `monitor`,
`matrix`, `evidence-probe`; `identify` is an `evidence-probe` that saves nothing)
and `capture-sanitize`, as runs one after the other over one directory. A run
chooses its options (`Jobs`), repeats serial calls, and writes each capture by a
temporary file and a replacement; it can refuse its timing, find no port, fail
in the exchange or in a write, or be killed between any two steps. The exit is
part of the state: an uncaught `ValueError` or `RuntimeError` is `traceback`,
whose process status is 1, the same as "no response". One serial call is a
step, for which `SerialTransport` has the detail. Two commands on one directory
at once are not modelled: each replaces whole files of its own names.

`capture_files` (two paths, two attempts, two runs, four streams, six things an
earlier version or another machine may have left) checks that what is kept can
be read back (`CapturesReadBack`), that a successful sanitization left a clean
file with the evidence of its input (`SanitizedFilesAreClean`), that unless the
disk fails a sanitization succeeds exactly when its input is readable and of
schema 2 or 3 (`CurrentCapturesMigrate`), that a run's
files are its first attempts without a gap (`AttemptsAreAPrefix`), and that
verdicts are about evidence on disk (`VerdictsHaveEvidence`). Two runs are a
capture and its sanitization, or a run over the remains of another; two
attempts are one that is kept and one that is not. `created` is the number of
the run, which is how a file's run is known. A known limitation: a matrix or an
evidence-probe that is repeated with fewer attempts, or fails early, leaves the
captures of the earlier run beside its own (`cli.py:500`), and nothing in the
directory tells them apart.

`CurrentCapturesMigrate` contradicts the half of `docs/capture-format.md:28`,
"Sanitization migrates v1/v2 evidence to v3", that is about v1: a schema-1 capture
becomes a schema-3 file whose report still says 1, which the reader refuses; the
file stays, the command exits with 3. It is assumed that the captures of schema 1
that a directory may hold have a report of schema 1, as
`tests/test_capture.py:149` has them.

## 8. From captures to candidates

`EvidenceBundle` has what evidence is made of captures: the stable positions of
a set of payloads and their values, the fingerprint, the comparison of radios,
the sanitized bundle, `validate_bundle`. `Contribution` has the package, its
review and the plan of an import. `EvidencePipeline` joins them by the commands
that read and replace these files side by side: `Export`; `contribution-create`
(`StartPacking`, `Check`, `Pack`, `PlacePackage`); `registry-add` (`StartAdding`,
`Validate`, `Add`); `registry-import-contribution` (`Review`, `Reopen`,
`Import`); `RemoveBundle`, `Propose`, `Replace`, `End`. What makes it hard is
that nothing is read once: a bundle is validated and then read again, a package
reviewed and then opened again. Meanwhile other commands, or a contributor
(`Receive`), may have replaced it, and a bundle path is anybody's to write:
`Overwrite` puts a damaged bundle, or none, there at any moment. Replacing a file
is one step, as in the code.

Abstractions: the response of a capture is the payload of its frame; digests are
what they are of, so a bundle is its own id and a member's name is the bundle it
stands for; a declaration has its label and whether it is whole; names, modes and
order of archive members are one flag; discriminators have length one. Assumed
(`PipelineAssumption`): an export is given captures that `read_capture` took.
Captures of an export are a list, because `build_fingerprint` takes the protocol
of the first that has one (`evidence.py:287-289`) into the digest.

`evidence_pipeline` has two commands, symmetric, under a lock on the registry; one
bundle path, which exports replace and others empty or damage; one list to
export, of a radio that answers without a frame, and of another whose second octet
varies and which speaks two protocols, labelled by its group or its alias only;
packages that are damaged since they were made, or hold a bundle of two radios;
two events. It checks

- `ImportedEvidenceIsSound`: what was imported is a valid bundle, whatever was
  replaced between the review and the import, and no bundle in the registry is
  of two radios. Of what `registry-add` took no more can be said: it validates
  the file (`evidence_registry.py:462`) and registers what it reads afterwards
  (`:465`), of which only labels and declarations are looked at; `write_registry`
  refuses only what `validate_registry` does;
- `FingerprintsAreOfTheEvidence`: a registered export has the fingerprint of its
  captures before labels and times were taken away. Against every list of as many
  of these captures in which the same was observed, in another order or with
  repetitions, the fingerprint is the same exactly when the first protocol named
  in the list is. `docs/electronic-fingerprints.md` says what does not contribute
  and does not mention the order; that it matters is stated here and no finding;
- `OwnContributionsAreSafe`: a package that `contribution-create` made is rejected
  by the review exactly when its notes begin with an address, or when a bundle was
  replaced by an invalid one between `contribution.py:116`, where it is
  validated, and `:119`, where it is read again.

One path is enough for every overwriting, and two events for an import over an
addition, a removal and a proposal. The properties need no lock, as the proofs
show; the lock keeps the instance small.

`candidate_values` refutes what a document says: the values of a candidate are
read from a field that captures do not store, and then from the stable values of
the bundle, in which zero stands for what varies; a candidate has a value that no
capture shows.

Known limitations: sanitizing replaces the metadata of a capture, so the labels
of radios do not get into bundles, and a registry knows a radio only by
`--device-label` or a declaration (`hardening.py:80`); the declarations of a
package go to its first bundle; a package that another replaced between review
and import is imported as it is, if its bundles are valid; a bundle of captures
without a valid frame has no checksum behavior, and `registry-info` fails on a
registry that has one with an `IndexError` (`evidence_registry.py:812`), which the
command does not catch.

## 9. Firmware advice

`Advisory` has the packaged catalogs, what their loaders refuse, and one
`firmware-advice` command: what the owner of a radio declares is taken to mean a
hardware record, compared with itself, and each entry of the firmware catalog is
judged. `probe --firmware-advice` calls the same function; `CaptureFiles` has its
outcome. Names and markings are labels, compared after `_normalize`. The scopes
of the capture and of the marketed model, which decide nothing, are left out.

`firmware_advice` has all catalogs of two records that may share labels and
MCUs, one or two entries of one project, catalogs that are refused, and all
declarations. Its properties are about the radio, of which the program sees
nothing: if declarations are true of it, they are not in conflict and every
verdict is true of it (`VerdictsAreTrueOfTheRadio`); if no record satisfies them,
no entry gives a verdict and the command does not succeed
(`ContradictionsAreNotResolved`). Two records are what a contradiction, a shared
marking and an exclusion need. Deadlock checking is off, since a behaviour is one
command.

What the properties leave out, because the code does otherwise: a revision named
by what several records share means the first of them by id; an MCU alone may be
called compatible although a revision with it is excluded; a revision or marking
that no record has, beside one that is known, is ignored. The packaged
catalog has unique names.

## 10. Proofs

Assumptions are the named `ASSUME`s of the modules: `EvidenceAssumption`
(devices are finitely many; what bundles and the policy are),
`GovernanceAssumption` (the tool is no person, no subject has the name of a
proposal), `StoreAssumption` (no ledger or package is `Absent` or `Torn`),
`RegistryAssumption` (bundles have metadata claims), `LabelAssumption` and
`PipelineAssumption` (section 8), `TransportAssumption` (the timeouts are
ordered, sizes positive), `StreamAssumption` (no header begins with a zero byte;
the request is empty or a frame; a frame that was sent is in the stream, with
its header and size, and decodes; frames that were sent do not overlap; sizes
are numbers), `XorAssumption` (the exclusive or of octets is an octet, and twice
the same one cancels out), `FilesAssumption` (initial files are captures,
garbage or nothing, none from the future; one of schema 1 has a report of schema
1), `AdvisoryAssumption` (catalogs are finite, ids no labels). No bound on the
sets of subjects, people, proposals, bundles, processes, authors, paths, streams
or catalogs is assumed beyond these, and the codec of the scan is any. The type
invariant of every module with proofs is one of its theorems.

**Governance.** The invariant is `IInv`. The safety properties are not inductive:
that an approved subject's proposal was approved needs that the status
`approved` always has its review and its event (`ApprovedStatusIsRecorded`),
that publications are of proposals that exist (`ApprovalsAreOfProposals`), and
the thresholds of drafts need that a draft's claims are met by the
inspections or by its own radios (`DraftThresholdsHold`), because declarations
only grow while bundles come and go. One lemma per property has one step per
action; `HistoryStep` is separate, and the action properties follow from the
invariant.

**The ledger file.** `StoreInv` adds what a command knows of its own files:
once it is writing, its ledger was validated; once written, the temporary is its
ledger. `LedgerAlwaysLoads` needs no lock. Under `ExternalLock`, `LockedInv` adds
that one command runs and its ledger extends the file (`OneCommandContinues`);
from it follow `AcknowledgedStays` and `LockedLedgerIsALog`, the refinement of
`AppendOnlyLog`. `PackagesAreRecorded` adds that the records of every ledger, in
the file or in memory, are of packages built just before their events and no
later than the one in place; from it follow `NoRecordWithoutPackage` and
`RecordsAreOfTheirPackage`.

**The registry.** Every registry that there is, in the file or in the memory of a
command, is `Sound`: typed, explained by its log, with an exact index, first
claims that stand and candidates that are snapshots. Each operation makes a
sound registry of a sound one, and so `RegistryInv` needs no lock. The work is in
what an event at the end of a log changes of its replay (`AfterAddition`,
`AfterOther`) and what it leaves of the past (`PastStays`). Under a lock,
`Continues` says that what a command has in memory extends the file, which gives
`ConflictsStay` and `RegistryImplementsView`, the refinement.

**From captures to candidates.** `PipelineProofs` begins with stability:
`StabilityShrinks`, `DeviceSpecificIsNotShared`, then
`FingerprintsOfTheSameEvidence` (two lists in which the same was observed have
one fingerprint exactly when the first protocol is the same) and
`SanitizingKeepsFingerprints` (offsets of payloads are an interval from one, by
least elements, since the library's induction cannot be used). `EvidenceInv`
says that what a step has to do is of the kind its command takes (`Consistent`),
that a package of the program's own is a `Contribution` of a manifest with no
bundle twice (`Ready`), and that every registry, in the file or in memory, has
bundles of one radio each and valid imports (`SoundRegistry`). A fingerprint
needs no strengthening: an export that is registered is the export of its
captures. `OnlySoundImports`, `EvidenceKeepsItsFingerprint` and
`OwnContributionsPass` follow without a lock and for any found bundles and
packages.

**The transport.** `CallInv` numbers bytes: what was received, what a read just
returned and what is in the buffer are consecutive. That the chunks make up the
response is about `FlattenSeq`, which is recursive; it is proved of every
function that satisfies its recursion, which is extended chunk by chunk
(`FlatExtends`). `PromptInv` says where the clock of a process that does not lag
may stand at each statement, from which follow both halves of `StopsOnTime`.

**The scan.** `AnalysisInv` is `ScanInv`, of the first loop, and
`CollectionInv`. `ScanInv` says that every frame that was sent lies behind the
cursor only if it was taken or is not `Clear`, that is, a stray header swallows
it or a frame before it (`BehindInv`); from it follows `FramesAreFound`. A turn
that passes the first byte of a frame does so by a candidate that begins before
it: not inside an earlier frame that was sent, for that one is `Clear` as well,
was taken, and left the cursor at its end; so at a stray header, which swallows
it. None of the three other properties is inductive, for each is about what the
second loop has at the end. `CollectionInv` says that `consumed` are the
candidates that were taken, in order (`LinkInv`, `SpanInv`); what each kind of
candidate is (`KindInv`, `GenuineInv`); how far the second loop is (`PassInv`);
that the bytes it has collected are those outside the consumed frames up to its
position (`PartInv`); and what the stream was if nothing is left over
(`CopiesInv`) or if it is copies of the request (`EchoesInv`).

- `EveryByteIsKept`: the place of a byte among the collected ones is the number of
  bytes outside before it, a cardinality; the lemmas on `Count` and `Parts` say how
  it grows over a gap (every byte counts) and over a frame (none does).
- `ClassificationsAreExact`: that echo-only is exact needs both directions, that
  a scan of copies takes copy after copy and that taken copies with nothing left
  over fill the stream.
- `WhatIsFoundWasSent`: from `GenuineInv`, on streams without a frame by chance.
  Without that hypothesis it is false, and the same argument says what remains:
  what is taken is the request, or has the size it declares and a status that
  the codec accepts (`CandidatesAreTrue`).
- `EveryTurnMovesOn`: the action property below `ScanEnds`: each turn moves the
  cursor, passes a consumed frame or ends the analysis.
- `EncodedFramesDecode` is about the codec, for every payload and any checksum of
  two octets: what `encode_frame` makes has the header and size that
  `StreamAssumption` asks of what is sent, and decodes to the payload that was
  encoded. It rests on where the parts of a concatenation lie and on the key
  cancelling itself (`Transformed`).

**Captures.** `FilesInv` says that every file, and the capture in memory, is
either from before or one that reads back as it is (`Kept`), together with what
each step knows; the work is in three lemmas, that what `BuildCapture` makes is
accepted by the reader for every stream, port and operation, that `Sanitize` of an
accepted capture of schema 2 or 3 validates, and that one of schema 1 does not
(`HistoricalIsRefused`). `SanitizeInv` relates the
output of a sanitization to its input between the two. `AttemptsInv` says which
files the run has left at each step (`Saved`) and that the capture in memory can
answer for the exit code (`Telling`).

**Advice.** Nothing needs strengthening but that the advice is of what the
catalogs are (`AdvisoryInv`); the lemmas say what declarations mean when they
are true of a radio, and when they are understood and true of none. The exceptions
of section 9 are hypotheses of the theorems.

**Only model-checked:** liveness (`EveryCallEnds`, `ScanEnds`); the checksum
itself, a fold of bitwise steps whose value for every input would need induction
over data (`KnownVectors` evaluates it on the vectors of the documentation); and
what the four violated runs show. Every other property of the runs that hold is
a theorem.

## 11. Not modelled

- The members of a publication package and `verify_publication`: digests and
  formats of an archive, with no state. The ledger side, and the order of
  package and record, are in `GovernanceStore`. Two things to know of it:
  `archive.read` of a missing member raises a `KeyError` that nothing catches
  (`governance/publication.py:347`), and a package whose rationales begin with an
  address is built and does not verify.
- `analyze_registry`, `registry_matrix` and `catalog_proposal`: reports over the
  registry. What stops the first is said in section 8.
- `evidence-report`: joins data that is modelled with fixed texts.
- Text: decoding of version strings, printing, JSON field types, digests.
- `strip_blind_metadata`, a filter of JSON for display; `doctor`, port listing,
  fixtures.

## 12. Plan

Done: governance and its store first, since what may be published is the point of
the system; then the registry it decides from, the transport and the scan that
everything rests on, the captures in between, the way of evidence into the
registry, and the advice; with proofs beside each.

Next, extending the model:

1. `PublicationArchive`: which edits of a package `verify_publication` notices,
   and that what is built verifies.
2. `registry_matrix` and `analyze_registry`: order and counts.
3. The ledger and the registry changed together, by commands on both files.

Next, proving:

1. That one command of `EvidencePipeline` on the registry is one command of
   `EvidenceRegistry`.
