----------------------------- MODULE RunRecording -----------------------------
(***************************************************************************)
(* telemetry/run_recorder.py and the validators of a recorded run: events  *)
(* are appended to a directory that is finalized and closed, by a process  *)
(* that may die between any two writes and inside one; the validators      *)
(* later judge what lies in the directory.                                 *)
(*                                                                         *)
(* A run started again under the same id (the scenario suite does that)    *)
(* writes into the directory of the earlier one.  Once nobody writes, one  *)
(* line of the event file may be damaged by accident.  An event stands for *)
(* its canonical bytes, which exclude the link to its predecessor.         *)
(***************************************************************************)
EXTENDS SequencesExt, FiniteSets, Integers

CONSTANTS
  Event,        \* what can be published, each event at most once in a run
  Mirrored,     \* per event, the stream it is copied to, or NoStream
  NoStream,
  StreamFiles,  \* the streams, in the order their files are opened
  Digest,       \* SHA-256 of an event's canonical bytes
  Genesis,      \* the link of the first event
  MaxRuns       \* bound: runs recorded into the directory

Stream == {Mirrored[e] : e \in Event} \ {NoStream}
Link == {Digest[e] : e \in Event} \cup {Genesis}

ASSUME RecordingAssumption ==
  /\ MaxRuns \in Nat
  /\ StreamFiles \in Seq(Stream) /\ Stream \subseteq ToSet(StreamFiles)
  /\ \A d, e \in Event : Digest[d] = Digest[e] => d = e
  /\ \A e \in Event : Digest[e] # Genesis

VARIABLES
  lines,     \* events.jsonl
  rows,      \* per stream, the lines of its own file
  metadata,  \* metadata.json
  summary,   \* incident-summary.md: the run it is of, 0 when there is none
  phase,     \* what the recorder is doing
  pending,   \* the event being appended
  tip,       \* _chain_tip
  count,     \* _event_count
  run,       \* runs started so far
  opened,    \* of the stream files, how many this run has opened
  accepted,  \* history: the events append_event has returned for, in this run
  sealed,    \* history: what accepted was when the metadata was last finalized
  written,   \* history: events.jsonl as the recorder left it
  damaged    \* whether a line was damaged since the run began

diskVars == <<lines, rows, metadata, summary>>
memoryVars == <<pending, tip, count>>
historyVars == <<accepted, sealed, written>>
recordingVars == <<diskVars, phase, memoryVars, run, opened, historyVars, damaged>>

None == "none"
Line == [event: Event, prev: Link, whole: BOOLEAN]
Row == [event: Event, whole: BOOLEAN]

\* A metadata file of a run that is not finalized has no tip and no count; a
\* torn one was truncated and is not written again yet.
Unsealed(status) == [status |-> status, tip |-> Genesis, count |-> 0]
Sealing == [status |-> "finalized", tip |-> tip, count |-> count]
FileStatus == {"absent", "torn", "open", "finalized"}

Phase == {"off", "opening", "labelling", "open", "writing", "mirroring",
          "copying", "copied", "sealing", "summarizing", "finalized", "closed"}

\* The recorder's process is alive and has files open.
Recording == phase \notin {"off", "closed"}

RecordingInit ==
  /\ lines = <<>> /\ rows = [s \in Stream |-> <<>>]
  /\ metadata = Unsealed("absent") /\ summary = 0
  /\ phase = "off" /\ pending = None /\ tip = Genesis /\ count = 0
  /\ run = 0 /\ opened = 0 /\ accepted = <<>> /\ sealed = <<>>
  /\ written = <<>> /\ damaged = FALSE

EventsOf(file) == [i \in DOMAIN file |-> file[i].event]

\* Where the events of a stream stand, and which row of it each of them becomes.
MirroredIn(s, events) == {i \in DOMAIN events : Mirrored[events[i]] = s}
RowOf(s, events, i) == Cardinality({j \in MirroredIn(s, events) : j <= i})

-----------------------------------------------------------------------------
(***************************************************************************)
(* The recorder.                                                           *)
(***************************************************************************)
\* __init__, and _open up to the event file: opening it empties it.
OpenEvents ==
  /\ ~Recording /\ run < MaxRuns
  /\ lines' = <<>>
  /\ phase' = "opening" /\ run' = run + 1 /\ opened' = 0
  /\ pending' = None /\ tip' = Genesis /\ count' = 0
  /\ accepted' = <<>> /\ written' = <<>> /\ damaged' = FALSE
  /\ UNCHANGED <<rows, metadata, summary, sealed>>

\* _open, on to the next stream: until then it holds the rows of an earlier run.
OpenStream ==
  /\ phase = "opening" /\ opened < Len(StreamFiles)
  /\ rows' = [rows EXCEPT ![StreamFiles[opened + 1]] = <<>>]
  /\ opened' = opened + 1
  /\ UNCHANGED <<lines, metadata, summary, phase, memoryVars, run, historyVars, damaged>>

\* _write_metadata: write_text empties the file before it fills it.
TruncateMetadata(from, to) ==
  /\ phase = from /\ phase' = to
  /\ metadata' = Unsealed("torn")
  /\ UNCHANGED <<lines, rows, summary, memoryVars, run, opened, historyVars, damaged>>

\* The initial metadata, of an open run.
LabelOpen ==
  /\ phase = "labelling" /\ phase' = "open"
  /\ metadata' = Unsealed("open")
  /\ UNCHANGED <<lines, rows, summary, memoryVars, run, opened, historyVars, damaged>>

\* append_event up to the flush: a line that is not all on disk yet.  A
\* finalized recorder takes events until it is closed.
Publish(e) ==
  /\ phase \in {"open", "finalized"} /\ e \notin ToSet(accepted)
  /\ lines' = Append(lines, [event |-> e, prev |-> tip, whole |-> FALSE])
  /\ pending' = e /\ phase' = "writing" /\ written' = lines'
  /\ UNCHANGED <<rows, metadata, summary, tip, count, run, opened, accepted, sealed, damaged>>

FaultyTip ==
  /\ phase = "writing" /\ phase' = "mirroring"
  /\ lines' = [lines EXCEPT ![Len(lines)].whole = TRUE]
  /\ tip' = (IF Mirrored[pending] = NoStream THEN Digest[pending] ELSE tip)
  /\ count' = count + 1 /\ written' = lines'
  /\ UNCHANGED <<rows, metadata, summary, pending, run, opened, accepted, sealed, damaged>>

BufferedFlush ==
  /\ phase = "writing" /\ phase' = "mirroring"
  /\ lines' = [lines EXCEPT ![Len(lines)].whole = Mirrored[pending] # NoStream]
  /\ tip' = Digest[pending]
  /\ count' = count + 1 /\ written' = lines'
  /\ UNCHANGED <<rows, metadata, summary, pending, run, opened, accepted, sealed, damaged>>

\* The flush, and the tip moved on for the next event.
Flush ==
  /\ phase = "writing" /\ phase' = "mirroring"
  /\ lines' = [lines EXCEPT ![Len(lines)].whole = TRUE]
  /\ tip' = Digest[pending] /\ count' = count + 1 /\ written' = lines'
  /\ UNCHANGED <<rows, metadata, summary, pending, run, opened, accepted, sealed, damaged>>

\* A mission event also becomes a row of its own file.
CopyRow ==
  /\ phase = "mirroring" /\ Mirrored[pending] # NoStream
  /\ rows' = [rows EXCEPT ![Mirrored[pending]] =
                Append(@, [event |-> pending, whole |-> FALSE])]
  /\ phase' = "copying"
  /\ UNCHANGED <<lines, metadata, summary, memoryVars, run, opened, historyVars, damaged>>

\* The flush of that row.
FlushRow ==
  /\ phase = "copying" /\ phase' = "copied"
  /\ LET s == Mirrored[pending]
     IN  rows' = [rows EXCEPT ![s][Len(rows[s])].whole = TRUE]
  /\ UNCHANGED <<lines, metadata, summary, memoryVars, run, opened, historyVars, damaged>>

Accepting ==
  /\ accepted' = Append(accepted, pending)
  /\ pending' = None /\ phase' = "open"
  /\ UNCHANGED <<diskVars, tip, count, run, opened, sealed, written, damaged>>

FaultyReturn == phase \in {"mirroring", "copied"} /\ Accepting

\* append_event returns, with the row of a copied event on disk.
Return ==
  /\ phase = "copied" \/ (phase = "mirroring" /\ Mirrored[pending] = NoStream)
  /\ Accepting

\* finalize: the metadata with the tip and the number of events.
Seal ==
  /\ phase = "sealing" /\ phase' = "summarizing"
  /\ metadata' = Sealing /\ sealed' = accepted
  /\ UNCHANGED <<lines, rows, summary, memoryVars, run, opened, accepted, written, damaged>>

\* finalize: then the summary, whose content nobody checks.
Summarize ==
  /\ phase = "summarizing" /\ phase' = "finalized"
  /\ summary' = run
  /\ UNCHANGED <<lines, rows, metadata, memoryVars, run, opened, historyVars, damaged>>

Close ==
  /\ phase = "finalized" /\ phase' = "closed"
  /\ UNCHANGED <<diskVars, memoryVars, run, opened, historyVars, damaged>>

RecorderStep ==
  \/ OpenStream
  \/ opened = Len(StreamFiles) /\ TruncateMetadata("opening", "labelling")
  \/ LabelOpen
  \/ Flush \/ CopyRow \/ FlushRow \/ Return
  \/ TruncateMetadata("open", "sealing") \/ Seal \/ Summarize \/ Close
  \* finalize called once more, after later events or none
  \/ TruncateMetadata("finalized", "sealing")

-----------------------------------------------------------------------------
(***************************************************************************)
(* What may happen to it.                                                  *)
(***************************************************************************)
\* The process dies: a line it was writing stays torn, or never got there.
Crash ==
  /\ Recording /\ phase' = "off"
  /\ \/ UNCHANGED lines
     \/ phase = "writing" /\ lines' = Front(lines)
  /\ pending' = None /\ tip' = Genesis /\ count' = 0 /\ written' = lines'
  /\ UNCHANGED <<rows, metadata, summary, run, opened, accepted, sealed, damaged>>

\* One line of the event file is lost, doubled, changed, torn or swapped.
Accident(file, i) ==
  {RemoveAt(file, i), InsertAt(file, i, file[i]), [file EXCEPT ![i].whole = FALSE]}
  \cup {[file EXCEPT ![i].event = e] : e \in Event}
  \cup {[file EXCEPT ![i].prev = k] : k \in Link}
  \cup {[file EXCEPT ![i] = file[j], ![j] = file[i]] : j \in {i + 1} \cap DOMAIN file}

Damage ==
  /\ ~Recording /\ ~damaged
  /\ \E i \in DOMAIN lines : lines' \in Accident(lines, i) \ {lines}
  /\ damaged' = TRUE
  /\ UNCHANGED <<rows, metadata, summary, phase, memoryVars, run, opened, historyVars>>

-----------------------------------------------------------------------------
(***************************************************************************)
(* The validators: validation/replay_validator.py and mission_validator.py *)
(***************************************************************************)
Torn(file) == \E i \in DOMAIN file : ~file[i].whole

\* The link a line that follows the first i has to carry.  Only a file of whole
\* lines gets as far as this: a line that does not parse is an error by itself.
LinkAfter(file, i) == IF i = 0 THEN Genesis ELSE Digest[file[i].event]
ChainBroken == \E i \in DOMAIN lines : lines[i].prev # LinkAfter(lines, i - 1)

DuplicateEvents == ~IsInjective(EventsOf(lines))

CountMismatch ==
  metadata.status = "finalized" /\ metadata.count # Len(lines)

SealMismatch ==
  /\ metadata.status = "finalized"
  /\ \/ metadata.tip # LinkAfter(lines, Len(lines))
     \/ metadata.count # Len(lines)

\* validate_run_directory: ok, that is without an error.
RunValid ==
  /\ metadata.status \notin {"absent", "torn"} /\ summary # 0
  /\ ~Torn(lines) /\ ~ChainBroken /\ ~DuplicateEvents /\ ~SealMismatch

\* validate_mission_run: that, and the streams parse.
MissionRunValid == RunValid /\ \A s \in Stream : ~Torn(rows[s])

\* "only finalised runs are replay-eligible" is a warning, not an error.
ReplayEligible == MissionRunValid /\ metadata.status = "finalized"

-----------------------------------------------------------------------------
RecordingNext ==
  \/ OpenEvents \/ (\E e \in Event : Publish(e)) \/ RecorderStep
  \/ Crash \/ Damage

RecordingSpec == RecordingInit /\ [][RecordingNext]_recordingVars

RecTypeOK ==
  /\ lines \in Seq(Line) /\ rows \in [Stream -> Seq(Row)]
  /\ metadata \in [status: FileStatus, tip: Link, count: Nat]
  /\ summary \in Nat /\ phase \in Phase
  /\ pending \in Event \cup {None} /\ tip \in Link /\ count \in Nat
  /\ run \in Nat /\ opened \in 0 .. Len(StreamFiles)
  /\ accepted \in Seq(Event) /\ sealed \in Seq(Event)
  /\ written \in Seq(Line) /\ damaged \in BOOLEAN

\* What append_event has returned for survives the process: it is on disk,
\* whole and in order, with at most one later event after it.
AcceptedIsDurable ==
  ~damaged =>
    /\ Len(lines) \in {Len(accepted), Len(accepted) + 1}
    /\ \A i \in DOMAIN accepted : lines[i].whole /\ lines[i].event = accepted[i]

\* The file of the stream is this run's; one that is not opened yet still holds
\* the rows of an earlier run.
Opened(s) == \E i \in 1 .. opened : StreamFiles[i] = s

\* The event that append_event has not returned for is whole in the event file,
\* and its row, torn or whole, is the last of the stream.
CopyUnderWay(s) ==
  /\ phase \in {"copying", "copied", "off"}
  /\ Len(written) = Len(accepted) + 1 /\ written[Len(written)].whole
  /\ rows[s][Len(rows[s])].event = written[Len(written)].event

\* A stream holds the copies of the accepted events, whole and in their order, and
\* after them at most the row of the one event under way, which the event file has
\* before: so whenever the process dies.  The exception is a process that dies in
\* _open (run_recorder.py:97-112): it leaves the rows of an earlier run beside an
\* event file without a line.  A run the validators call finalized and valid has
\* the copy of every sealed event at its place, though no validator compares them.
CopiesFollowEvents ==
  \A s \in Stream :
    LET copies == Cardinality(MirroredIn(s, accepted))
    IN /\ Opened(s) =>
            /\ Len(rows[s]) \in {copies, copies + 1}
            /\ \A k \in 1 .. copies : rows[s][k].whole
            /\ \A i \in MirroredIn(s, accepted) :
                 rows[s][RowOf(s, accepted, i)].event = accepted[i]
            /\ Len(rows[s]) > copies => CopyUnderWay(s)
       /\ ~Opened(s) => phase \in {"off", "opening"} /\ lines = <<>>
       /\ ReplayEligible =>
            \A i \in MirroredIn(s, sealed) :
              /\ RowOf(s, sealed, i) \in DOMAIN rows[s]
              /\ rows[s][RowOf(s, sealed, i)].event = sealed[i]

\* A run the validators call finalized and valid is the one that was sealed,
\* event by event, whatever crash, rerun or damaged line came in between.
EligibleRunIsWhole == ReplayEligible => EventsOf(lines) = sealed

\* The validators do not turn down a run that was closed and left alone.
ClosedRunIsEligible ==
  phase = "closed" /\ ~damaged => ReplayEligible /\ summary = run

=============================================================================
