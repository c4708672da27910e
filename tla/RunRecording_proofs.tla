------------------------- MODULE RunRecording_proofs -------------------------
(***************************************************************************)
(* What the recorder and the validators guarantee for every set of events, *)
(* every digest without collisions and any number of runs: accepted events *)
(* are durable and copied, and one damaged line of a run is always noticed.*)
(***************************************************************************)
EXTENDS RunRecording, SequenceTheorems, FiniteSetTheorems, TLAPS

Appending == phase \in {"writing", "mirroring", "copying", "copied"}

\* The event file as written holds the accepted events and the pending one.
WrittenHoldsAccepted ==
  /\ \A i \in DOMAIN accepted :
       i \in DOMAIN written /\ written[i].whole /\ written[i].event = accepted[i]
  /\ Appending =>
       /\ pending \in Event
       /\ Len(written) = Len(accepted) + 1
       /\ written[Len(written)].event = pending
       /\ phase # "writing" => written[Len(written)].whole
  /\ ~Appending /\ phase # "off" => Len(written) = Len(accepted)
  /\ phase = "off" => Len(written) \in {Len(accepted), Len(accepted) + 1}

WrittenIsChained ==
  \A i \in DOMAIN written : written[i].prev = LinkAfter(written, i - 1)

WrittenOnce ==
  \A i, j \in DOMAIN written : written[i].event = written[j].event => i = j

\* The recorder's memory is about the file it is writing.
MemoryFollows ==
  /\ phase \notin {"off", "writing"} =>
       tip = LinkAfter(written, Len(written)) /\ count = Len(written)
  /\ phase = "writing" =>
       tip = LinkAfter(written, Len(written) - 1) /\ count = Len(written) - 1

\* A finalized metadata file is about a prefix of the accepted events, except
\* that of an earlier run while the files are empty.
SealIsOld == phase \in {"opening", "off"} /\ written = <<>> /\ accepted = <<>>
SealIsPrefix ==
  /\ Len(sealed) <= Len(accepted)
  /\ \A i \in DOMAIN sealed : accepted[i] = sealed[i]
LinkOf(events) == IF events = <<>> THEN Genesis ELSE Digest[events[Len(events)]]
SealDescribes ==
  metadata.status = "finalized" =>
    /\ SealIsOld \/ SealIsPrefix
    /\ metadata.tip = LinkOf(sealed) /\ metadata.count = Len(sealed)

\* What lies on disk is what was written, but for one accident.
OneAccident ==
  /\ ~damaged => lines = written
  /\ damaged => ~Recording /\ \E i \in DOMAIN written : lines \in Accident(written, i)

\* While the stream files are being opened there is no event, and the streams that
\* are open are empty.
FilesOpened ==
  /\ phase \notin {"off", "opening"} => opened = Len(StreamFiles)
  /\ phase = "opening" \/ opened # Len(StreamFiles) =>
       phase \in {"off", "opening"} /\ written = <<>> /\ accepted = <<>>
  /\ phase = "opening" => \A s \in Stream : Opened(s) => rows[s] = <<>>

RowsParse ==
  /\ phase \notin {"off", "opening", "copying"} =>
       \A s \in Stream : \A i \in DOMAIN rows[s] : rows[s][i].whole
  /\ phase = "copying" =>
       /\ Mirrored[pending] \in Stream /\ rows[Mirrored[pending]] # <<>>
       /\ \A s \in Stream : \A i \in DOMAIN rows[s] :
            ~rows[s][i].whole => s = Mirrored[pending] /\ i = Len(rows[s])

SealedRun ==
  /\ phase # "off" => run > 0
  /\ phase \in {"summarizing", "finalized", "closed"} =>
       metadata = Sealing /\ sealed = accepted
  /\ phase \in {"finalized", "closed"} => summary = run

RecordingInv ==
  /\ RecTypeOK /\ WrittenHoldsAccepted /\ WrittenIsChained /\ WrittenOnce
  /\ MemoryFollows /\ SealDescribes /\ OneAccident /\ FilesOpened /\ RowsParse /\ SealedRun

-----------------------------------------------------------------------------
(***************************************************************************)
(* Sequences after an accident.                                            *)
(***************************************************************************)
\* Removing the ith element moves the later ones one place forward.
LEMMA RemoveAtElements ==
  ASSUME NEW S, NEW s \in Seq(S), NEW i \in DOMAIN s
  PROVE  /\ RemoveAt(s, i) \in Seq(S) /\ Len(RemoveAt(s, i)) = Len(s) - 1
         /\ \A j \in 1 .. Len(s) - 1 :
              RemoveAt(s, i)[j] = IF j < i THEN s[j] ELSE s[j + 1]
<1> DEFINE a == SubSeq(s, 1, i - 1)
           b == SubSeq(s, i + 1, Len(s))
<1>0. i \in 1 .. Len(s) /\ Len(s) \in Nat
  BY LenProperties
<1>1. a \in Seq(S) /\ Len(a) = i - 1 /\ \A j \in 1 .. i - 1 : a[j] = s[j]
  BY <1>0, SubSeqProperties
<1>2. b \in Seq(S) /\ Len(b) = Len(s) - i /\ \A j \in 1 .. Len(s) - i : b[j] = s[i + j]
  BY <1>0, SubSeqProperties
<1> HIDE DEF a, b
<1>3. /\ a \o b \in Seq(S) /\ Len(a \o b) = Len(s) - 1
      /\ \A j \in 1 .. Len(s) - 1 : (a \o b)[j] = IF j <= Len(a) THEN a[j] ELSE b[j - Len(a)]
  <2>1. Len(a \o b) = Len(a) + Len(b) /\ a \o b \in Seq(S)
    BY <1>1, <1>2, ConcatProperties
  <2>2. Len(a) + Len(b) = Len(s) - 1
    BY <1>0, <1>1, <1>2
  <2>3. \A j \in 1 .. Len(a) + Len(b) : (a \o b)[j] = IF j <= Len(a) THEN a[j] ELSE b[j - Len(a)]
    BY <1>1, <1>2, ConcatProperties
  <2> QED BY <2>1, <2>2, <2>3
<1>4. ASSUME NEW j \in 1 .. Len(s) - 1
      PROVE  (a \o b)[j] = IF j < i THEN s[j] ELSE s[j + 1]
  <2>1. CASE j < i
    BY <2>1, <1>0, <1>1, <1>3
  <2>2. CASE ~(j < i)
    <3>1. (a \o b)[j] = b[j - (i - 1)] /\ j - (i - 1) \in 1 .. Len(s) - i
      BY <2>2, <1>0, <1>1, <1>3
    <3>2. b[j - (i - 1)] = s[i + (j - (i - 1))] /\ i + (j - (i - 1)) = j + 1
      BY <3>1, <1>0, <1>2
    <3> QED BY <3>1, <3>2, <2>2, <1>0
  <2> QED BY <2>1, <2>2
<1> QED BY <1>3, <1>4 DEF RemoveAt, a, b

\* An inserted element makes a sequence one longer.
LEMMA InsertAtLength ==
  ASSUME NEW S, NEW s \in Seq(S), NEW i \in DOMAIN s
  PROVE  InsertAt(s, i, s[i]) \in Seq(S) /\ Len(InsertAt(s, i, s[i])) = Len(s) + 1
<1> DEFINE a == SubSeq(s, 1, i - 1)
           b == SubSeq(s, i, Len(s))
<1>0. i \in 1 .. Len(s) /\ Len(s) \in Nat /\ s[i] \in S
  BY LenProperties, ElementOfSeq
<1>1. a \in Seq(S) /\ Len(a) = i - 1
  BY <1>0, SubSeqProperties
<1>2. b \in Seq(S) /\ Len(b) = Len(s) - i + 1
  BY <1>0, SubSeqProperties
<1>3. <<s[i]>> \in Seq(S) /\ Len(<<s[i]>>) = 1
  BY <1>0
<1> HIDE DEF a, b
<1> DEFINE c == a \o <<s[i]>>
<1>4. c \in Seq(S) /\ Len(c) = i
  BY <1>0, <1>1, <1>3, ConcatProperties
<1>5. ASSUME NEW t \in Seq(S), Len(t) = i
      PROVE  t \o b \in Seq(S) /\ Len(t \o b) = Len(s) + 1
  <2>1. t \o b \in Seq(S) /\ Len(t \o b) = Len(t) + Len(b)
    BY <1>2, ConcatProperties
  <2> QED BY <2>1, <1>0, <1>2, <1>5
<1> HIDE DEF c
<1>6. c \o b \in Seq(S) /\ Len(c \o b) = Len(s) + 1
  BY <1>4, <1>5
<1> QED BY <1>6 DEF InsertAt, a, b, c

-----------------------------------------------------------------------------
(***************************************************************************)
(* The invariant is inductive: one lemma per action that changes a file.   *)
(***************************************************************************)
USE RecordingAssumption

LEMMA InitEstablishes == RecordingInit => RecordingInv
<1> SUFFICES ASSUME RecordingInit PROVE RecordingInv
  OBVIOUS
<1> USE DEF RecordingInit
<1>1. RecTypeOK
  <2>1. <<>> \in Seq(Line) /\ <<>> \in Seq(Event) /\ rows \in [Stream -> Seq(Row)]
    OBVIOUS
  <2>2. metadata \in [status: FileStatus, tip: Link, count: Nat]
    BY DEF Unsealed, FileStatus, Link
  <2>3. opened \in 0 .. Len(StreamFiles)
    OBVIOUS
  <2> QED BY <2>1, <2>2, <2>3 DEF RecTypeOK, Link, Phase
<1>2. WrittenHoldsAccepted /\ WrittenIsChained /\ WrittenOnce
  BY DEF WrittenHoldsAccepted, WrittenIsChained, WrittenOnce, Appending
<1>3. MemoryFollows /\ SealDescribes /\ OneAccident /\ FilesOpened /\ RowsParse /\ SealedRun
  BY DEF MemoryFollows, SealDescribes, OneAccident, FilesOpened, RowsParse, SealedRun, Unsealed
<1> QED BY <1>1, <1>2, <1>3 DEF RecordingInv

\* Starting a run empties the event file.
LEMMA OpenEventsPreserves == RecordingInv /\ OpenEvents => RecordingInv'
<1> SUFFICES ASSUME RecordingInv, OpenEvents PROVE RecordingInv'
  OBVIOUS
<1> USE DEF OpenEvents, RecordingInv
<1>1. RecTypeOK'
  <2>1. <<>> \in Seq(Line) /\ <<>> \in Seq(Event) /\ rows' \in [Stream -> Seq(Row)]
    BY DEF RecTypeOK
  <2>2. phase' \in Phase /\ pending' \in Event \cup {None} /\ tip' \in Link /\ count' \in Nat
    BY DEF Link, Phase
  <2>3. run' \in Nat /\ opened' \in 0 .. Len(StreamFiles)
    BY DEF RecTypeOK
  <2>5. damaged' \in BOOLEAN
    BY Zenon
  <2>4. /\ metadata' \in [status: FileStatus, tip: Link, count: Nat]
        /\ summary' \in Nat /\ sealed' \in Seq(Event)
    BY DEF RecTypeOK
  <2> QED BY <2>1, <2>2, <2>3, <2>4, <2>5 DEF RecTypeOK
<1>2. WrittenHoldsAccepted' /\ WrittenIsChained' /\ WrittenOnce'
  BY DEF WrittenHoldsAccepted, WrittenIsChained, WrittenOnce, Appending
<1>3. MemoryFollows'
  BY DEF MemoryFollows, LinkAfter
<1>4. SealDescribes' /\ OneAccident'
  BY DEF SealDescribes, SealIsOld, LinkOf, OneAccident, Recording
<1>5. FilesOpened' /\ RowsParse' /\ SealedRun'
  BY DEF FilesOpened, Opened, RowsParse, SealedRun, RecTypeOK
<1> QED BY <1>1, <1>2, <1>3, <1>4, <1>5

\* Opening a stream empties it, and leaves the others alone.
LEMMA StreamEmptied ==
  ASSUME RecordingInv, OpenStream
  PROVE  /\ rows' \in [Stream -> Seq(Row)] /\ opened' \in 0 .. Len(StreamFiles)
         /\ \A s \in Stream : rows'[s] = rows[s] \/ rows'[s] = <<>>
         /\ \A s \in Stream : Opened(s)' /\ ~Opened(s) => rows'[s] = <<>>
<1> DEFINE f == StreamFiles[opened + 1]
<1>1. /\ opened \in Nat /\ opened + 1 \in 1 .. Len(StreamFiles) /\ opened' = opened + 1
      /\ rows \in [Stream -> Seq(Row)] /\ rows' = [rows EXCEPT ![f] = <<>>]
  BY DEF RecordingInv, RecTypeOK, OpenStream
<1>2. f \in Stream
  BY <1>1, ElementOfSeq
<1> HIDE DEF f
<1>3. <<>> \in Seq(Row)
  OBVIOUS
<1>4. /\ rows' \in [Stream -> Seq(Row)] /\ rows'[f] = <<>>
      /\ \A s \in Stream : s # f => rows'[s] = rows[s]
  BY <1>1, <1>2, <1>3
<1>5. ASSUME NEW s \in Stream, Opened(s)', ~Opened(s) PROVE s = f
  <2>1. PICK i \in 1 .. opened + 1 : StreamFiles[i] = s
    BY <1>1, <1>5 DEF Opened
  <2>2. i \notin 1 .. opened
    BY <1>5, <2>1 DEF Opened
  <2>3. i = opened + 1
    BY <1>1, <2>1, <2>2
  <2> QED BY <2>1, <2>3 DEF f
<1> QED BY <1>1, <1>4, <1>5

LEMMA OpenStreamPreserves == RecordingInv /\ OpenStream => RecordingInv'
<1> SUFFICES ASSUME RecordingInv, OpenStream PROVE RecordingInv'
  OBVIOUS
<1>1. /\ UNCHANGED <<lines, metadata, summary, phase, pending, tip, count, run, accepted,
                      sealed, written, damaged>>
      /\ phase = "opening"
  BY DEF OpenStream, memoryVars, historyVars
<1> USE DEF RecordingInv
<1>2. RecTypeOK'
  BY <1>1, StreamEmptied DEF RecTypeOK
<1>3. WrittenHoldsAccepted' /\ WrittenIsChained' /\ WrittenOnce' /\ MemoryFollows'
  BY <1>1 DEF WrittenHoldsAccepted, WrittenIsChained, WrittenOnce, MemoryFollows, Appending,
              LinkAfter
<1>4. SealDescribes' /\ OneAccident'
  BY <1>1 DEF SealDescribes, SealIsOld, SealIsPrefix, LinkOf, OneAccident, Recording
<1>5. FilesOpened'
  BY <1>1, StreamEmptied DEF FilesOpened
<1>6. RowsParse' /\ SealedRun'
  BY <1>1 DEF RowsParse, SealedRun
<1> QED BY <1>2, <1>3, <1>4, <1>5, <1>6

\* Every stream is open once all the files are.
LEMMA AllOpened ==
  ASSUME opened = Len(StreamFiles), NEW s \in Stream PROVE Opened(s)
<1>1. DOMAIN StreamFiles = 1 .. Len(StreamFiles) /\ s \in ToSet(StreamFiles)
  OBVIOUS
<1> QED BY <1>1 DEF Opened, ToSet

\* Rewriting the metadata for the open label or the seal.
LEMMA MetadataPreserves ==
  ASSUME RecordingInv,
         \/ opened = Len(StreamFiles) /\ TruncateMetadata("opening", "labelling")
         \/ TruncateMetadata("open", "sealing")
         \/ TruncateMetadata("finalized", "sealing") \/ LabelOpen \/ Seal
         \/ Summarize \/ Close
  PROVE  RecordingInv'
<1> USE DEF RecordingInv, TruncateMetadata, LabelOpen, Seal, Summarize, Close, memoryVars,
            historyVars, diskVars
<1>1. RecTypeOK'
  BY DEF RecTypeOK, Link, Phase, FileStatus, Unsealed, Sealing
<1>2. WrittenHoldsAccepted' /\ WrittenIsChained' /\ WrittenOnce'
  BY DEF WrittenHoldsAccepted, WrittenIsChained, WrittenOnce, Appending, LinkAfter
<1>3. MemoryFollows'
  BY DEF MemoryFollows, LinkAfter
<1>4. SealDescribes'
  <2>1. CASE Seal
    <3>1. Len(written) = Len(accepted) /\ tip = LinkAfter(written, Len(written))
          /\ count = Len(written)
      BY <2>1 DEF WrittenHoldsAccepted, MemoryFollows, Appending
    <3>2. LinkAfter(written, Len(written)) = LinkOf(accepted)
      BY <3>1 DEF LinkAfter, LinkOf, WrittenHoldsAccepted, RecTypeOK
    <3> QED BY <2>1, <3>1, <3>2 DEF SealDescribes, SealIsPrefix, Sealing, LinkOf, RecTypeOK
  <2>2. CASE ~Seal
    BY <2>2 DEF SealDescribes, SealIsPrefix, SealIsOld, LinkOf, Unsealed
  <2> QED BY <2>1, <2>2
<1>5. OneAccident'
  BY DEF OneAccident, Recording, Accident
<1>6. FilesOpened' /\ RowsParse'
  <2>1. UNCHANGED <<rows, opened, written, accepted>>
    OBVIOUS
  <2>2. FilesOpened'
    BY <2>1 DEF FilesOpened, Opened
  <2>3. ASSUME phase' \notin {"off", "opening", "copying"}
        PROVE  \A s \in Stream : \A i \in DOMAIN rows[s] : rows[s][i].whole
    <3>1. CASE phase = "opening"
      <4>1. opened = Len(StreamFiles)
        BY <3>1
      <4> QED BY <3>1, <4>1, AllOpened DEF FilesOpened
    <3>2. CASE phase # "opening"
      BY <3>2, <2>3 DEF RowsParse
    <3> QED BY <3>1, <3>2
  <2>4. phase' # "copying"
    OBVIOUS
  <2> QED BY <2>1, <2>2, <2>3, <2>4 DEF RowsParse
<1>7. SealedRun'
  BY DEF SealedRun, Sealing, RecTypeOK
<1> QED BY <1>1, <1>2, <1>3, <1>4, <1>5, <1>6, <1>7

\* A new event follows the last line with the tip as its link.
LEMMA PublishPreserves ==
  ASSUME RecordingInv, NEW e \in Event, Publish(e) PROVE RecordingInv'
<1> USE DEF RecordingInv, Publish
<1> DEFINE l == [event |-> e, prev |-> tip, whole |-> FALSE]
<1>0. l.event = e /\ l.prev = tip
  OBVIOUS
<1>1. l \in Line /\ lines = written /\ written' = Append(written, l) /\ lines' = written'
  BY DEF Line, RecTypeOK, OneAccident, Recording
<1>2. /\ written' \in Seq(Line) /\ Len(written') = Len(written) + 1
      /\ DOMAIN written' = 1 .. Len(written) + 1 /\ written'[Len(written) + 1] = l
      /\ \A i \in 1 .. Len(written) : written'[i] = written[i]
      /\ DOMAIN written = 1 .. Len(written) /\ Len(written) \in Nat
  BY <1>1, AppendProperties DEF RecTypeOK
<1>3. RecTypeOK'
  BY <1>1, <1>2 DEF RecTypeOK, Phase
<1> HIDE DEF l
<1>4. /\ Len(written) = Len(accepted) /\ accepted' = accepted
      /\ \A i \in DOMAIN accepted : accepted[i] # e
      /\ DOMAIN accepted = 1 .. Len(accepted) /\ phase' = "writing" /\ pending' = e
  BY DEF WrittenHoldsAccepted, Appending, ToSet, RecTypeOK
<1>5. WrittenHoldsAccepted'
  <2>1. \A i \in DOMAIN accepted : written'[i] = written[i] /\ i \in DOMAIN written'
    BY <1>2, <1>4
  <2>2. written'[Len(written')].event = e /\ Len(written') = Len(accepted') + 1
    BY <1>0, <1>2, <1>4
  <2>3. \A i \in DOMAIN accepted' :
          i \in DOMAIN written' /\ written'[i].whole /\ written'[i].event = accepted'[i]
    BY <2>1, <1>4 DEF WrittenHoldsAccepted
  <2> QED BY <2>2, <2>3, <1>4 DEF WrittenHoldsAccepted, Appending
<1>6. WrittenIsChained'
  <2>1. tip = LinkAfter(written, Len(written))
    BY DEF MemoryFollows
  <2>2. ASSUME NEW i \in DOMAIN written' PROVE written'[i].prev = LinkAfter(written', i - 1)
    <3>1. CASE i = Len(written) + 1
      <4>1. written'[i].prev = LinkAfter(written, Len(written)) /\ i - 1 = Len(written)
        BY <3>1, <2>1, <1>0, <1>2
      <4>2. Len(written) # 0 => written'[Len(written)] = written[Len(written)]
        <5>1. Len(written) \in Nat /\ \A k \in 1 .. Len(written) : written'[k] = written[k]
          BY <1>2
        <5> HIDE DEF RecordingInv, Publish
        <5> QED BY <5>1
      <4>3. LinkAfter(written', Len(written)) = LinkAfter(written, Len(written))
        <5>1. CASE Len(written) = 0
          BY <5>1 DEF LinkAfter
        <5>2. CASE Len(written) # 0
          BY <4>2, <5>2 DEF LinkAfter
        <5> QED BY <5>1, <5>2
      <4> QED BY <4>1, <4>3
    <3>2. CASE i \in 1 .. Len(written)
      BY <3>2, <1>2 DEF LinkAfter, WrittenIsChained
    <3> QED BY <3>1, <3>2, <1>2
  <2> QED BY <2>2 DEF WrittenIsChained
<1>7. WrittenOnce'
  <2>1. \A i \in 1 .. Len(written) : written[i].event # e
    BY <1>4, <1>2 DEF WrittenHoldsAccepted, RecTypeOK
  <2> QED BY <2>1, <1>0, <1>2 DEF WrittenOnce
<1>8. MemoryFollows'
  BY <1>2 DEF MemoryFollows, LinkAfter
<1>9. SealDescribes' /\ OneAccident'
  BY <1>1 DEF SealDescribes, SealIsOld, SealIsPrefix, OneAccident, Recording, LinkOf
<1>10. FilesOpened' /\ RowsParse' /\ SealedRun'
  BY DEF FilesOpened, Opened, RowsParse, SealedRun
<1> QED BY <1>3, <1>5, <1>6, <1>7, <1>8, <1>9, <1>10

\* The flush completes the last line; its digest becomes the tip.
LEMMA FlushPreserves == RecordingInv /\ Flush => RecordingInv'
<1> SUFFICES ASSUME RecordingInv, Flush PROVE RecordingInv'
  OBVIOUS
<1> USE DEF RecordingInv, Flush
<1> DEFINE n == Len(written)
<1>1. /\ lines = written /\ written' = [written EXCEPT ![n].whole = TRUE]
      /\ lines' = written' /\ written \in Seq(Line)
  BY DEF OneAccident, RecTypeOK, Recording
<1>2. /\ n \in 1 .. n /\ n \in Nat /\ DOMAIN written = 1 .. n
      /\ n = Len(accepted) + 1 /\ Len(accepted) \in Nat
      /\ DOMAIN accepted = 1 .. Len(accepted)
      /\ written[n].event = pending /\ pending \in Event
  BY <1>1 DEF WrittenHoldsAccepted, Appending, RecTypeOK
<1>3. written[n] \in Line
  BY <1>1, <1>2, ElementOfSeq
<1>4. /\ written' \in Seq(Line) /\ Len(written') = n /\ DOMAIN written' = 1 .. n
      /\ written'[n].whole
      /\ \A i \in 1 .. n : /\ written'[i].event = written[i].event
                          /\ written'[i].prev = written[i].prev
      /\ \A i \in 1 .. n : i # n => written'[i] = written[i]
  <2>1. [written[n] EXCEPT !.whole = TRUE] \in Line
    BY <1>3 DEF Line
  <2>2. written' = [written EXCEPT ![n] = [written[n] EXCEPT !.whole = TRUE]]
    BY <1>1
  <2>3. written' \in Seq(Line) /\ Len(written') = n /\ DOMAIN written' = 1 .. n
    BY <2>1, <2>2, <1>1, <1>2, ExceptSeq
  <2> QED BY <2>2, <2>3, <1>1, <1>2, <1>3 DEF Line
<1>5. \A i \in 1 .. n : LinkAfter(written', i) = LinkAfter(written, i)
  BY <1>4, <1>2 DEF LinkAfter
<1>6. RecTypeOK'
  <2>1. tip' \in Link
    BY <1>2 DEF Link
  <2> QED BY <2>1, <1>1, <1>4 DEF RecTypeOK, Phase
<1>7. WrittenHoldsAccepted'
  BY <1>2, <1>4 DEF WrittenHoldsAccepted, Appending
<1>8. WrittenIsChained'
  <2>1. ASSUME NEW i \in DOMAIN written' PROVE written'[i].prev = LinkAfter(written', i - 1)
    <3>1. written'[i].prev = LinkAfter(written, i - 1)
      BY <1>4, <1>2 DEF WrittenIsChained
    <3>2. CASE i = 1
      BY <3>1, <3>2 DEF LinkAfter
    <3>3. CASE i # 1
      <4>1. i - 1 \in 1 .. n
        BY <3>3, <1>2, <1>4
      <4> QED BY <4>1, <3>1, <1>5
    <3> QED BY <3>2, <3>3
  <2> QED BY <2>1 DEF WrittenIsChained
<1>9. WrittenOnce'
  BY <1>4, <1>2 DEF WrittenOnce
<1>10. MemoryFollows'
  BY <1>4, <1>2 DEF MemoryFollows, LinkAfter
<1>11. SealDescribes' /\ OneAccident'
  BY <1>1 DEF SealDescribes, SealIsOld, SealIsPrefix, OneAccident, Recording, LinkOf
<1>12. FilesOpened' /\ RowsParse' /\ SealedRun'
  BY DEF FilesOpened, Opened, RowsParse, SealedRun
<1> QED BY <1>6, <1>7, <1>8, <1>9, <1>10, <1>11, <1>12

\* A mission event's row, half written.
LEMMA CopyRowPreserves == RecordingInv /\ CopyRow => RecordingInv'
<1> SUFFICES ASSUME RecordingInv, CopyRow PROVE RecordingInv'
  OBVIOUS
<1> USE DEF RecordingInv, CopyRow, memoryVars, historyVars
<1> DEFINE m == Mirrored[pending]
           r == [event |-> pending, whole |-> FALSE]
<1>1. pending \in Event /\ m \in Stream
  BY DEF WrittenHoldsAccepted, Appending, Stream
<1>2. r \in Row /\ rows[m] \in Seq(Row)
  BY <1>1 DEF Row, RecTypeOK
<1>3. /\ rows'[m] \in Seq(Row) /\ Len(rows'[m]) = Len(rows[m]) + 1
      /\ DOMAIN rows'[m] = 1 .. Len(rows[m]) + 1 /\ Len(rows[m]) \in Nat
      /\ \A i \in 1 .. Len(rows[m]) : rows'[m][i] = rows[m][i]
      /\ \A s \in Stream : s # m => rows'[s] = rows[s]
      /\ rows' \in [Stream -> Seq(Row)]
  BY <1>1, <1>2, AppendProperties DEF RecTypeOK
<1>4. RecTypeOK'
  BY <1>3 DEF RecTypeOK, Phase
<1>5. WrittenHoldsAccepted' /\ WrittenIsChained' /\ WrittenOnce' /\ MemoryFollows'
  BY DEF WrittenHoldsAccepted, WrittenIsChained, WrittenOnce, MemoryFollows, Appending,
         LinkAfter
<1>6. SealDescribes' /\ OneAccident' /\ SealedRun' /\ FilesOpened'
  BY DEF SealDescribes, SealIsOld, SealIsPrefix, OneAccident, Recording, LinkOf, SealedRun,
         FilesOpened, Opened
<1>7. RowsParse'
  <2>1. \A s \in Stream : \A i \in DOMAIN rows[s] : rows[s][i].whole
    BY DEF RowsParse
  <2>2. ASSUME NEW s \in Stream, NEW i \in DOMAIN rows'[s], ~rows'[s][i].whole
        PROVE  s = m /\ i = Len(rows'[s])
    <3>1. s = m
      BY <2>1, <2>2, <1>3
    <3>2. DOMAIN rows[m] = 1 .. Len(rows[m])
      BY <1>2
    <3> QED BY <3>1, <3>2, <2>1, <2>2, <1>3, <1>1
  <2>3. rows'[m] # <<>>
    BY <1>3
  <2>4. phase' = "copying" /\ pending' = pending
    OBVIOUS
  <2> QED BY <2>2, <2>3, <2>4, <1>1 DEF RowsParse
<1> QED BY <1>4, <1>5, <1>6, <1>7

\* The last row of the stream of the pending event is made whole.
LEMMA RowCompleted ==
  ASSUME RecordingInv, FlushRow, NEW m, m = Mirrored[pending]
  PROVE  /\ m \in Stream /\ Len(rows'[m]) = Len(rows[m]) /\ DOMAIN rows'[m] = 1 .. Len(rows[m])
         /\ rows[m] \in Seq(Row) /\ Len(rows[m]) \in Nat \ {0}
         /\ rows'[m][Len(rows[m])].whole
         /\ rows'[m][Len(rows[m])].event = rows[m][Len(rows[m])].event
         /\ \A k \in 1 .. Len(rows[m]) : k # Len(rows[m]) => rows'[m][k] = rows[m][k]
         /\ \A s \in Stream : s # m => rows'[s] = rows[s]
         /\ rows' \in [Stream -> Seq(Row)]
<1> DEFINE n == Len(rows[m])
<1>1. /\ phase = "copying" /\ m \in Stream /\ rows[m] # <<>> /\ rows[m] \in Seq(Row)
      /\ rows' = [rows EXCEPT ![m][n].whole = TRUE] /\ rows \in [Stream -> Seq(Row)]
  BY DEF RecordingInv, FlushRow, RowsParse, RecTypeOK
<1>2. n \in 1 .. n /\ DOMAIN rows[m] = 1 .. n /\ rows[m][n] \in Row /\ n \in Nat
  BY <1>1, EmptySeq, LenProperties, ElementOfSeq
<1> DEFINE last == [rows[m][n] EXCEPT !.whole = TRUE]
           q == [rows[m] EXCEPT ![n] = last]
<1>3. last \in Row /\ last.whole /\ last.event = rows[m][n].event
  BY <1>2 DEF Row
<1>4. rows' = [rows EXCEPT ![m] = q]
  BY <1>1
<1> HIDE DEF last
<1>5. /\ q \in Seq(Row) /\ DOMAIN q = 1 .. n /\ q[n] = last
      /\ \A k \in 1 .. n : k # n => q[k] = rows[m][k]
  BY <1>1, <1>2, <1>3, ExceptSeq
<1>6. Len(q) = n
  BY <1>2, <1>5, LenProperties
<1> HIDE DEF q, n
<1>7. rows' \in [Stream -> Seq(Row)] /\ rows'[m] = q /\ \A s \in Stream : s # m => rows'[s] = rows[s]
  BY <1>1, <1>4, <1>5
<1>8. n \in Nat \ {0}
  BY <1>2
<1> QED BY <1>1, <1>3, <1>5, <1>6, <1>7, <1>8 DEF n

LEMMA FlushRowPreserves == RecordingInv /\ FlushRow => RecordingInv'
<1> SUFFICES ASSUME RecordingInv, FlushRow PROVE RecordingInv'
  OBVIOUS
<1> DEFINE m == Mirrored[pending]
<1>1. /\ UNCHANGED <<lines, metadata, summary, pending, tip, count, run, opened, accepted,
                      sealed, written, damaged>>
      /\ phase = "copying" /\ phase' = "copied"
  BY DEF FlushRow, memoryVars, historyVars
<1>2. /\ rows' \in [Stream -> Seq(Row)]
      /\ \A s \in Stream : \A i \in DOMAIN rows'[s] : rows'[s][i].whole
  <2>1. \A s \in Stream : \A i \in DOMAIN rows[s] : ~rows[s][i].whole => s = m /\ i = Len(rows[m])
    BY <1>1 DEF RecordingInv, RowsParse
  <2>2. /\ m \in Stream /\ DOMAIN rows'[m] = 1 .. Len(rows[m]) /\ DOMAIN rows[m] = 1 .. Len(rows[m])
        /\ rows'[m][Len(rows[m])].whole
        /\ \A k \in 1 .. Len(rows[m]) : k # Len(rows[m]) => rows'[m][k] = rows[m][k]
        /\ \A s \in Stream : s # m => rows'[s] = rows[s]
        /\ rows' \in [Stream -> Seq(Row)]
    BY RowCompleted, LenProperties
  <2> HIDE DEF m
  <2>3. ASSUME NEW s \in Stream, NEW i \in DOMAIN rows'[s] PROVE rows'[s][i].whole
    <3>1. CASE s = m
      BY <3>1, <2>1, <2>2
    <3>2. CASE s # m
      BY <3>2, <2>1, <2>2
    <3> QED BY <3>1, <3>2
  <2> QED BY <2>2, <2>3
<1> HIDE DEF m
<1> USE DEF RecordingInv
<1>3. RecTypeOK'
  BY <1>1, <1>2 DEF RecTypeOK, Phase
<1>4. WrittenHoldsAccepted' /\ WrittenIsChained' /\ WrittenOnce' /\ MemoryFollows'
  BY <1>1 DEF WrittenHoldsAccepted, WrittenIsChained, WrittenOnce, MemoryFollows, Appending,
              LinkAfter
<1>5. SealDescribes' /\ OneAccident' /\ SealedRun' /\ FilesOpened'
  BY <1>1 DEF SealDescribes, SealIsOld, SealIsPrefix, OneAccident, Recording, LinkOf, SealedRun,
              FilesOpened, Opened
<1>6. RowsParse'
  BY <1>1, <1>2 DEF RowsParse
<1> QED BY <1>3, <1>4, <1>5, <1>6

\* append_event returns, with or without a row on disk.
LEMMA ReturnPreserves == RecordingInv /\ Return => RecordingInv'
<1> SUFFICES ASSUME RecordingInv, Return PROVE RecordingInv'
  OBVIOUS
<1> USE DEF RecordingInv
<1>1. /\ Accepting /\ phase \in {"mirroring", "copied"} /\ written' = written
      /\ accepted' = Append(accepted, pending) /\ phase' = "open" /\ lines' = lines
      /\ tip' = tip /\ count' = count /\ sealed' = sealed /\ metadata' = metadata
      /\ pending' = None /\ run' = run /\ summary' = summary /\ damaged' = damaged
      /\ rows' = rows /\ opened' = opened
  BY DEF Return, Accepting, diskVars
<1>2. /\ pending \in Event /\ Len(written) = Len(accepted) + 1
      /\ written[Len(written)].event = pending /\ written[Len(written)].whole
      /\ accepted \in Seq(Event) /\ written \in Seq(Line)
  BY <1>1 DEF WrittenHoldsAccepted, Appending, RecTypeOK
<1>3. /\ accepted' \in Seq(Event) /\ Len(accepted') = Len(accepted) + 1
      /\ DOMAIN accepted' = 1 .. Len(accepted) + 1 /\ accepted'[Len(accepted) + 1] = pending
      /\ \A i \in 1 .. Len(accepted) : accepted'[i] = accepted[i]
      /\ Len(accepted) \in Nat /\ DOMAIN accepted = 1 .. Len(accepted)
      /\ DOMAIN written = 1 .. Len(accepted) + 1
  BY <1>1, <1>2, AppendProperties
<1>4. rows \in [Stream -> Seq(Row)] /\ \A s \in Stream : \A i \in DOMAIN rows[s] : rows[s][i].whole
  BY <1>1 DEF RowsParse, RecTypeOK
<1>5. RecTypeOK'
  BY <1>1, <1>3, <1>4 DEF RecTypeOK, Phase
<1>6. WrittenHoldsAccepted'
  <2>1. ASSUME NEW i \in DOMAIN accepted'
        PROVE  i \in DOMAIN written /\ written[i].whole /\ written[i].event = accepted'[i]
    <3>1. CASE i = Len(accepted) + 1
      BY <3>1, <1>2, <1>3
    <3>2. CASE i \in 1 .. Len(accepted)
      BY <3>2, <1>3 DEF WrittenHoldsAccepted
    <3> QED BY <3>1, <3>2, <1>3
  <2> QED BY <2>1, <1>1, <1>2, <1>3 DEF WrittenHoldsAccepted, Appending
<1>7. WrittenIsChained' /\ WrittenOnce'
  BY <1>1 DEF WrittenIsChained, WrittenOnce, LinkAfter
<1>8. MemoryFollows'
  BY <1>1 DEF MemoryFollows, LinkAfter
<1>9. SealDescribes'
  <2>1. ASSUME metadata.status = "finalized" PROVE SealIsPrefix'
    <3>1. SealIsPrefix
      BY <2>1, <1>1 DEF SealDescribes, SealIsOld
    <3>2. DOMAIN sealed = 1 .. Len(sealed) /\ Len(sealed) \in Nat
      BY DEF RecTypeOK
    <3> QED BY <3>1, <3>2, <1>1, <1>3 DEF SealIsPrefix
  <2> QED BY <2>1, <1>1 DEF SealDescribes, LinkOf
<1>10. OneAccident' /\ FilesOpened' /\ RowsParse' /\ SealedRun'
  BY <1>1, <1>4 DEF OneAccident, Recording, Accident, FilesOpened, Opened, RowsParse, SealedRun
<1> QED BY <1>5, <1>6, <1>7, <1>8, <1>9, <1>10

\* The last line a dying process was writing is torn or missing.
LEMMA CrashPreserves == RecordingInv /\ Crash => RecordingInv'
<1> SUFFICES ASSUME RecordingInv, Crash PROVE RecordingInv'
  OBVIOUS
<1> USE DEF RecordingInv, Crash
<1>1. lines = written /\ lines' = written' /\ ~damaged
  BY DEF OneAccident
<1>2. CASE lines' = lines
  <2>1. RecTypeOK'
    BY <1>1, <1>2 DEF RecTypeOK, Link, Phase
  <2>2. WrittenHoldsAccepted' /\ WrittenIsChained' /\ WrittenOnce'
    BY <1>1, <1>2 DEF WrittenHoldsAccepted, WrittenIsChained, WrittenOnce, Appending,
                     LinkAfter, RecTypeOK
  <2>3. MemoryFollows' /\ RowsParse' /\ SealedRun'
    BY DEF MemoryFollows, RowsParse, SealedRun
  <2>10. FilesOpened'
    BY <1>1, <1>2 DEF FilesOpened
  <2>4. SealDescribes' /\ OneAccident'
    BY <1>1, <1>2 DEF SealDescribes, SealIsOld, SealIsPrefix, LinkOf, OneAccident
  <2> QED BY <2>1, <2>2, <2>3, <2>4, <2>10
<1>3. CASE phase = "writing" /\ lines' = Front(lines)
  <2> DEFINE n == Len(accepted)
  <2>1. /\ Len(written) = n + 1 /\ written \in Seq(Line) /\ n \in Nat
        /\ DOMAIN accepted = 1 .. n
    BY <1>3 DEF WrittenHoldsAccepted, Appending, RecTypeOK
  <2>2. /\ written' \in Seq(Line) /\ Len(written') = n /\ DOMAIN written' = 1 .. n
        /\ \A i \in 1 .. n : written'[i] = written[i]
        /\ DOMAIN written = 1 .. n + 1
    <3>1. written' = SubSeq(written, 1, n)
      <4>1. written' = SubSeq(written, 1, Len(written) - 1)
        BY <1>1, <1>3, Zenon DEF Front
      <4>2. Len(written) - 1 = n
        BY <2>1
      <4> QED BY <4>1, <4>2
    <3>2. /\ SubSeq(written, 1, n) \in Seq(Line) /\ Len(SubSeq(written, 1, n)) = n
          /\ \A i \in 1 .. n : SubSeq(written, 1, n)[i] = written[i]
      <4>1. \A i \in 1 .. n : written[i] \in Line
        BY <2>1, ElementOfSeq
      <4> HIDE DEF n, RecordingInv, Crash
      <4>2. /\ SubSeq(written, 1, n) \in Seq(Line)
            /\ Len(SubSeq(written, 1, n)) = IF 1 <= n THEN n - 1 + 1 ELSE 0
            /\ \A i \in 1 .. n - 1 + 1 : SubSeq(written, 1, n)[i] = written[1 + i - 1]
        BY <4>1, <2>1, SubSeqProperties
      <4>3. n - 1 + 1 = n /\ \A i \in 1 .. n : 1 + i - 1 = i
        BY <2>1
      <4>4. (IF 1 <= n THEN n - 1 + 1 ELSE 0) = n
        BY <2>1
      <4> QED BY <4>2, <4>3, <4>4
    <3>3. DOMAIN written = 1 .. n + 1
      BY <2>1
    <3>4. DOMAIN SubSeq(written, 1, n) = 1 .. n
      BY <3>2, LenProperties
    <3> QED BY <3>1, <3>2, <3>3, <3>4
  <2>3. RecTypeOK'
    BY <2>2, <1>1 DEF RecTypeOK, Link, Phase
  <2>4. WrittenHoldsAccepted'
    BY <2>1, <2>2 DEF WrittenHoldsAccepted, Appending
  <2>5. WrittenIsChained'
    BY <2>1, <2>2 DEF WrittenIsChained, LinkAfter
  <2>6. WrittenOnce'
    BY <2>2 DEF WrittenOnce
  <2>7. MemoryFollows' /\ RowsParse' /\ SealedRun'
    BY DEF MemoryFollows, RowsParse, SealedRun
  <2>10. FilesOpened'
    BY <1>1, <1>3 DEF FilesOpened
  <2>8. SealDescribes' /\ OneAccident'
    BY <1>1, <1>3 DEF SealDescribes, SealIsOld, SealIsPrefix, LinkOf, OneAccident
  <2> QED BY <2>3, <2>4, <2>5, <2>6, <2>7, <2>8, <2>10
<1> QED BY <1>2, <1>3

\* An accident leaves a file of lines.
LEMMA DamagePreserves == RecordingInv /\ Damage => RecordingInv'
<1> SUFFICES ASSUME RecordingInv, Damage PROVE RecordingInv'
  OBVIOUS
<1> USE DEF RecordingInv, Damage, memoryVars, historyVars
<1>1. lines = written /\ written' = written /\ damaged' /\ ~Recording'
  BY DEF OneAccident, Recording
<1>2. PICK i \in DOMAIN written : lines' \in Accident(written, i)
  BY <1>1
<1>3. lines' \in Seq(Line)
  <2>0. written \in Seq(Line) /\ written[i] \in Line /\ DOMAIN written = 1 .. Len(written)
    BY ElementOfSeq DEF RecTypeOK
  <2>1. CASE lines' = RemoveAt(written, i)
    BY <2>0, <2>1, RemoveAtElements
  <2>2. CASE lines' = InsertAt(written, i, written[i])
    BY <2>0, <2>2, InsertAtLength
  <2>3. CASE lines' = [written EXCEPT ![i].whole = FALSE]
    <3>1. [written[i] EXCEPT !.whole = FALSE] \in Line
      BY <2>0 DEF Line
    <3> QED BY <3>1, <2>0, <2>3, ExceptSeq
  <2>4. ASSUME NEW e \in Event, lines' = [written EXCEPT ![i].event = e]
        PROVE  lines' \in Seq(Line)
    <3>1. [written[i] EXCEPT !.event = e] \in Line
      BY <2>0 DEF Line
    <3> QED BY <3>1, <2>0, <2>4, ExceptSeq
  <2>5. ASSUME NEW k \in Link, lines' = [written EXCEPT ![i].prev = k]
        PROVE  lines' \in Seq(Line)
    <3>1. [written[i] EXCEPT !.prev = k] \in Line
      BY <2>0 DEF Line
    <3> QED BY <3>1, <2>0, <2>5, ExceptSeq
  <2>6. ASSUME NEW j \in {i + 1} \cap DOMAIN written,
               lines' = [written EXCEPT ![i] = written[j], ![j] = written[i]]
        PROVE  lines' \in Seq(Line)
    <3>1. written[j] \in Line
      BY <2>0, ElementOfSeq
    <3> QED BY <3>1, <2>0, <2>6, ExceptSeq
  <2> QED BY <1>2, <2>1, <2>2, <2>3, <2>4, <2>5, <2>6 DEF Accident
<1>4. RecTypeOK'
  BY <1>3 DEF RecTypeOK
<1>5. WrittenHoldsAccepted' /\ WrittenIsChained' /\ WrittenOnce' /\ MemoryFollows'
  BY DEF WrittenHoldsAccepted, WrittenIsChained, WrittenOnce, MemoryFollows, Appending,
         LinkAfter
<1>6. SealDescribes'
  BY DEF SealDescribes, SealIsOld, SealIsPrefix, LinkOf
<1>7. OneAccident'
  BY <1>1, <1>2 DEF OneAccident, Accident
<1>8. FilesOpened' /\ RowsParse' /\ SealedRun'
  BY DEF FilesOpened, Opened, RowsParse, SealedRun, Sealing
<1> QED BY <1>4, <1>5, <1>6, <1>7, <1>8

\* The recorder's invariant holds in every behaviour, with crashes and reruns.
THEOREM RecordingInvariant == RecordingSpec => []RecordingInv
<1>1. RecordingInv /\ [RecordingNext]_recordingVars => RecordingInv'
  <2> SUFFICES ASSUME RecordingInv, [RecordingNext]_recordingVars PROVE RecordingInv'
    OBVIOUS
  <2>1. CASE UNCHANGED recordingVars
    <3> USE <2>1 DEF recordingVars, diskVars, memoryVars, historyVars, RecordingInv
    <3>1. RecTypeOK'
      BY DEF RecTypeOK
    <3>2. WrittenHoldsAccepted' /\ WrittenIsChained' /\ WrittenOnce'
      BY DEF WrittenHoldsAccepted, Appending, WrittenIsChained, WrittenOnce, LinkAfter
    <3>3. MemoryFollows' /\ SealedRun'
      BY DEF MemoryFollows, LinkAfter, SealedRun, Sealing
    <3>4. SealDescribes'
      BY DEF SealDescribes, SealIsOld, SealIsPrefix, LinkOf
    <3>5. OneAccident' /\ RowsParse' /\ FilesOpened'
      BY DEF OneAccident, Recording, Accident, RowsParse, FilesOpened, Opened
    <3> QED BY <3>1, <3>2, <3>3, <3>4, <3>5
  <2>2. CASE RecorderStep
    BY <2>2, OpenStreamPreserves, MetadataPreserves, FlushPreserves, CopyRowPreserves,
       FlushRowPreserves, ReturnPreserves
    DEF RecorderStep
  <2>3. CASE OpenEvents \/ (\E e \in Event : Publish(e)) \/ Crash \/ Damage
    BY <2>3, OpenEventsPreserves, PublishPreserves, CrashPreserves, DamagePreserves
  <2> QED BY <2>1, <2>2, <2>3 DEF RecordingNext
<1> QED BY InitEstablishes, <1>1, PTL DEF RecordingSpec

-----------------------------------------------------------------------------
(***************************************************************************)
(* What follows.                                                           *)
(***************************************************************************)
\* The types of the recorder's files and memory hold for all constants.
THEOREM RecordingTypeCorrect == RecordingSpec => []RecTypeOK
<1>1. RecordingInv => RecTypeOK
  BY DEF RecordingInv
<1> QED BY <1>1, RecordingInvariant, PTL

\* Every event append_event has returned for is on disk, whole and in order,
\* before and after a crash of the recorder's process.
THEOREM AcceptedEventsSurvive == RecordingSpec => []AcceptedIsDurable
<1>1. RecordingInv => AcceptedIsDurable
  <2> SUFFICES ASSUME RecordingInv, ~damaged
               PROVE  /\ Len(lines) \in {Len(accepted), Len(accepted) + 1}
                      /\ \A i \in DOMAIN accepted :
                           lines[i].whole /\ lines[i].event = accepted[i]
    BY DEF AcceptedIsDurable
  <2>1. lines = written
    BY DEF RecordingInv, OneAccident
  <2> QED BY <2>1 DEF RecordingInv, WrittenHoldsAccepted
<1> QED BY <1>1, RecordingInvariant, PTL

\* A line carries an event.
LEMMA LineHasEvent ==
  ASSUME NEW file \in Seq(Line), NEW i \in DOMAIN file PROVE file[i].event \in Event
<1>1. i \in 1 .. Len(file)
  BY LenProperties
<1>2. file[i] \in Line
  BY <1>1, ElementOfSeq
<1> QED BY <1>2 DEF Line

\* In a chained file of distinct events, a line cannot stand in the place of
\* the one before it.
LEMMA NoLineMovesUp ==
  ASSUME RecordingInv, NEW i \in DOMAIN written, i + 1 \in DOMAIN written
  PROVE  written[i + 1].prev # LinkAfter(written, i - 1)
<1> DEFINE n == Len(written)
<1>1. DOMAIN written = 1 .. n /\ n \in Nat /\ \A j \in 1 .. n : written[j].event \in Event
  <2>1. written \in Seq(Line) /\ DOMAIN written = 1 .. n /\ n \in Nat
    BY DEF RecordingInv, RecTypeOK
  <2> QED BY <2>1, LineHasEvent
<1>2. written[i + 1].prev = Digest[written[i].event]
  BY <1>1 DEF RecordingInv, WrittenIsChained, LinkAfter
<1>3. CASE i = 1
  BY <1>1, <1>2, <1>3 DEF LinkAfter
<1>4. CASE i # 1
  <2>1. i - 1 \in 1 .. n /\ LinkAfter(written, i - 1) = Digest[written[i - 1].event]
    BY <1>1, <1>4 DEF LinkAfter
  <2>2. written[i - 1].event # written[i].event
    BY <1>1, <2>1 DEF RecordingInv, WrittenOnce
  <2> QED BY <1>1, <1>2, <2>1, <2>2
<1> QED BY <1>3, <1>4

\* No single damaged line slips through: what the validators accept as a
\* finalized run holds the events that were sealed.
THEOREM AccidentsAreNoticed == RecordingSpec => []EligibleRunIsWhole
<1>1. RecordingInv => EligibleRunIsWhole
  <2> SUFFICES ASSUME RecordingInv, ReplayEligible PROVE EventsOf(lines) = sealed
    BY DEF EligibleRunIsWhole
  <2> DEFINE n == Len(lines)
             m == Len(written)
  <2>1. /\ metadata.status = "finalized" /\ metadata.tip = LinkAfter(lines, n)
        /\ metadata.count = n /\ \A i \in DOMAIN lines : lines[i].whole
        /\ \A i \in DOMAIN lines : lines[i].prev = LinkAfter(lines, i - 1)
    BY DEF ReplayEligible, MissionRunValid, RunValid, SealMismatch, ChainBroken, Torn
  <2>2. /\ lines \in Seq(Line) /\ written \in Seq(Line) /\ sealed \in Seq(Event)
        /\ accepted \in Seq(Event)
        /\ DOMAIN lines = 1 .. n /\ DOMAIN written = 1 .. m /\ n \in Nat /\ m \in Nat
        /\ DOMAIN sealed = 1 .. Len(sealed)
    BY DEF RecordingInv, RecTypeOK
  <2>3. Len(sealed) = n /\ metadata.tip = LinkOf(sealed) /\ (SealIsOld \/ SealIsPrefix)
    BY <2>1 DEF RecordingInv, SealDescribes
  <2>4. n > 0 => lines[n].event = sealed[n]
    <3> SUFFICES ASSUME n > 0 PROVE lines[n].event = sealed[n]
      OBVIOUS
    <3>1. LinkAfter(lines, n) = Digest[lines[n].event]
      BY <2>2 DEF LinkAfter
    <3>2. LinkOf(sealed) = Digest[sealed[n]]
      BY <2>2, <2>3 DEF LinkOf
    <3>3. lines[n].event \in Event /\ sealed[n] \in Event
      <4>1. n \in DOMAIN lines /\ n \in 1 .. Len(sealed)
        BY <2>2, <2>3
      <4> QED BY <4>1, <2>2, LineHasEvent, ElementOfSeq
    <3> QED BY <3>1, <3>2, <3>3, <2>1, <2>3
  <2>5. SUFFICES ASSUME NEW i \in 1 .. n PROVE lines[i].event = sealed[i]
    <3>1. EventsOf(lines) = [i \in 1 .. n |-> lines[i].event]
      BY <2>2 DEF EventsOf
    <3>2. sealed = [i \in 1 .. n |-> sealed[i]]
      BY <2>2, <2>3
    <3> QED BY <3>1, <3>2
  <2>6. CASE ~damaged
    <3>1. lines = written
      BY <2>6 DEF RecordingInv, OneAccident
    <3>2. SealIsPrefix
      BY <3>1, <2>3, <2>2 DEF SealIsOld
    <3>3. sealed[i] = accepted[i] /\ i \in DOMAIN accepted
      <4>1. Len(sealed) <= Len(accepted) /\ Len(sealed) = n /\ DOMAIN accepted = 1 .. Len(accepted)
        BY <3>2, <2>2, <2>3 DEF SealIsPrefix
      <4>2. i \in DOMAIN sealed /\ i \in DOMAIN accepted
        BY <4>1, <2>2
      <4> QED BY <4>2, <3>2 DEF SealIsPrefix
    <3> QED BY <3>1, <3>3 DEF RecordingInv, WrittenHoldsAccepted
  <2>7. CASE damaged
    <3>1. PICK k \in DOMAIN written : lines \in Accident(written, k)
      BY <2>7 DEF RecordingInv, OneAccident
    <3>2. SealIsPrefix
      BY <3>1, <2>2, <2>3 DEF SealIsOld
    <3>3. Len(sealed) <= Len(accepted) /\ Len(accepted) <= m /\ Len(accepted) \in Nat
      <4>1. Len(accepted) \in Nat
        BY <2>2
      <4>2. m = Len(accepted) \/ m = Len(accepted) + 1
        <5> HIDE DEF m
        <5>1. WrittenHoldsAccepted
          BY DEF RecordingInv
        <5> QED BY <5>1 DEF WrittenHoldsAccepted, Appending, m
      <4>3. Len(sealed) <= Len(accepted)
        BY <3>2 DEF SealIsPrefix
      <4> QED BY <4>1, <4>2, <4>3
    <3>4. \A j \in 1 .. n : written[j].event = sealed[j]
      <4>1. ASSUME NEW j \in 1 .. n PROVE written[j].event = sealed[j]
        <5>1. accepted[j] = sealed[j] /\ j \in DOMAIN accepted
          BY <3>2, <3>3, <2>2, <2>3 DEF SealIsPrefix
        <5> QED BY <5>1 DEF RecordingInv, WrittenHoldsAccepted
      <4> QED BY <4>1
    <3>5. CASE lines = RemoveAt(written, k)
      <4>1. n = m - 1 /\ \A j \in 1 .. n : lines[j] = IF j < k THEN written[j] ELSE written[j + 1]
        BY <3>5, <2>2, RemoveAtElements
      <4>2. CASE k = m
        <5>1. lines[i] = written[i]
          BY <4>1, <4>2, <2>2
        <5> QED BY <5>1, <3>4
      <4>3. CASE k # m
        <5>1. k \in 1 .. n /\ k + 1 \in DOMAIN written /\ lines[k] = written[k + 1]
          BY <4>1, <4>3, <2>2
        <5>2. LinkAfter(lines, k - 1) = LinkAfter(written, k - 1)
          <6>1. CASE k = 1
            BY <6>1 DEF LinkAfter
          <6>2. CASE k # 1
            <7>1. lines[k - 1] = written[k - 1] /\ k - 1 # 0
              BY <4>1, <5>1, <6>2
            <7> QED BY <7>1 DEF LinkAfter
          <6> QED BY <6>1, <6>2
        <5> QED BY <5>1, <5>2, <2>1, <2>2, NoLineMovesUp
      <4> QED BY <4>2, <4>3
    <3>6. CASE lines = InsertAt(written, k, written[k])
      <4>1. n = m + 1
        BY <3>6, <2>2, InsertAtLength
      <4> QED BY <4>1, <3>3, <2>2, <2>3
    <3>7. CASE lines = [written EXCEPT ![k].whole = FALSE]
      <4>1. k \in DOMAIN lines /\ lines[k] = [written[k] EXCEPT !.whole = FALSE]
        BY <3>7
      <4>2. written[k] \in Line
        BY <2>2, ElementOfSeq
      <4>3. lines[k].whole = FALSE
        BY <4>1, <4>2 DEF Line
      <4> QED BY <4>1, <4>3, <2>1
    <3>8. ASSUME NEW e \in Event, lines = [written EXCEPT ![k].event = e]
          PROVE  lines[i].event = sealed[i]
      <4>1. n = m /\ \A j \in 1 .. n : j # k => lines[j] = written[j]
        BY <3>8, <2>2
      <4>2. lines[k].event = e
        <5>1. written[k] \in Line /\ lines[k] = [written[k] EXCEPT !.event = e]
          BY <3>8, <2>2, ElementOfSeq
        <5> QED BY <5>1 DEF Line
      <4>3. CASE i # k
        BY <4>1, <4>3, <3>4
      <4>4. CASE i = k /\ k = n
        BY <4>4, <2>4, <2>2
      <4>5. CASE i = k /\ k # n
        <5>1. k + 1 \in 1 .. n /\ (k + 1) - 1 = k /\ k # 0 /\ k + 1 # k
          BY <4>5, <4>1, <2>2
        <5>2. lines[k + 1].prev = Digest[lines[k].event]
          BY <5>1, <2>1, <2>2 DEF LinkAfter
        <5>3. lines[k + 1].prev = Digest[written[k].event]
          BY <5>1, <4>1, <2>2 DEF RecordingInv, WrittenIsChained, LinkAfter
        <5>4. written[k].event \in Event
          BY <2>2, LineHasEvent
        <5>5. lines[k].event = written[k].event
          BY <5>2, <5>3, <5>4, <4>2
        <5> QED BY <5>5, <4>5, <3>4
      <4> QED BY <4>3, <4>4, <4>5
    <3>9. ASSUME NEW q \in Link, lines = [written EXCEPT ![k].prev = q]
          PROVE  lines[i].event = sealed[i]
      <4>1. lines[i].event = written[i].event
        <5>1. written[i] \in Line /\ i \in DOMAIN written
          BY <3>9, <2>2, ElementOfSeq
        <5> QED BY <5>1, <3>9 DEF Line
      <4> QED BY <4>1, <3>4
    <3>10. ASSUME NEW j \in {k + 1} \cap DOMAIN written,
                  lines = [written EXCEPT ![k] = written[j], ![j] = written[k]]
           PROVE  lines[i].event = sealed[i]
      <4>1. j = k + 1 /\ k \in DOMAIN lines /\ k # j
        BY <3>10, <2>2
      <4>2. lines[k] = written[k + 1]
        BY <4>1, <3>10
      <4>3. LinkAfter(lines, k - 1) = LinkAfter(written, k - 1)
        <5>1. CASE k = 1
          BY <5>1 DEF LinkAfter
        <5>2. CASE k # 1
          <6>1. k - 1 \in DOMAIN written /\ k - 1 # k /\ k - 1 # j /\ k - 1 # 0
            BY <5>2, <4>1, <2>2
          <6>2. lines[k - 1] = written[k - 1]
            BY <6>1, <3>10
          <6> QED BY <6>1, <6>2 DEF LinkAfter
        <5> QED BY <5>1, <5>2
      <4> QED BY <4>1, <4>2, <4>3, <2>1, NoLineMovesUp
    <3> QED BY <3>1, <3>5, <3>6, <3>7, <3>8, <3>9, <3>10 DEF Accident
  <2> QED BY <2>6, <2>7
<1> QED BY <1>1, RecordingInvariant, PTL

\* A run that was closed and not touched since passes the validators, and its
\* summary is its own.
THEOREM ClosedRunsAreAccepted == RecordingSpec => []ClosedRunIsEligible
<1>1. RecordingInv => ClosedRunIsEligible
  <2> SUFFICES ASSUME RecordingInv, phase = "closed", ~damaged
               PROVE  ReplayEligible /\ summary = run
    BY DEF ClosedRunIsEligible
  <2>1. /\ lines = written /\ written \in Seq(Line) /\ accepted \in Seq(Event)
        /\ DOMAIN written = 1 .. Len(written) /\ DOMAIN accepted = 1 .. Len(accepted)
    BY DEF RecordingInv, OneAccident, RecTypeOK
  <2>2. ~Torn(lines) /\ ~ChainBroken
    <3>1. Len(written) = Len(accepted)
      BY DEF RecordingInv, WrittenHoldsAccepted, Appending
    <3> QED BY <3>1, <2>1 DEF RecordingInv, WrittenHoldsAccepted, WrittenIsChained, Torn,
                              ChainBroken
  <2>3. ~DuplicateEvents
    <3>1. \A i, j \in DOMAIN lines : lines[i].event = lines[j].event => i = j
      BY <2>1 DEF RecordingInv, WrittenOnce
    <3> QED BY <3>1 DEF DuplicateEvents, IsInjective, EventsOf
  <2>4. ~SealMismatch /\ metadata.status = "finalized"
    BY <2>1 DEF RecordingInv, SealedRun, Sealing, MemoryFollows, SealMismatch
  <2>5. \A s \in Stream : ~Torn(rows[s])
    BY DEF RecordingInv, RowsParse, Torn
  <2>6. summary = run /\ run # 0
    BY DEF RecordingInv, SealedRun, RecTypeOK
  <2> QED BY <2>2, <2>3, <2>4, <2>5, <2>6 DEF ReplayEligible, MissionRunValid, RunValid
<1> QED BY <1>1, RecordingInvariant, PTL

-----------------------------------------------------------------------------
(***************************************************************************)
(* The copies.  A stream of the run has one row for each accepted event of *)
(* its own, in their order, and one more only while that of the pending    *)
(* event is written and append_event has not returned, or after the        *)
(* process died there.                                                     *)
(***************************************************************************)
\* The row of the pending event has been begun.
Copying(s) == phase \in {"copying", "copied"} /\ Mirrored[pending] = s

CopiedUpTo(s) ==
  LET copies == Cardinality(MirroredIn(s, accepted))
  IN /\ Len(rows[s]) \in {copies, copies + 1}
     /\ \A k \in 1 .. copies : rows[s][k].whole
     /\ \A i \in MirroredIn(s, accepted) :
          rows[s][RowOf(s, accepted, i)].event = accepted[i]
     /\ Len(rows[s]) > copies => CopyUnderWay(s)
     /\ Copying(s) => Len(rows[s]) = copies + 1 /\ rows[s][copies + 1].event = pending
     /\ phase = "copied" /\ Copying(s) => rows[s][copies + 1].whole
     /\ ~Copying(s) /\ phase # "off" => Len(rows[s]) = copies

CopiesInv == \A s \in Stream : Opened(s) => CopiedUpTo(s)

\* The events of a stream are finitely many, and the row of one is among theirs.
LEMMA RowsAreCounted ==
  ASSUME NEW events \in Seq(Event), NEW s
  PROVE  /\ IsFiniteSet(MirroredIn(s, events)) /\ Cardinality(MirroredIn(s, events)) \in Nat
         /\ \A i \in MirroredIn(s, events) :
              RowOf(s, events, i) \in 1 .. Cardinality(MirroredIn(s, events))
<1> DEFINE M == MirroredIn(s, events)
<1>1. DOMAIN events = 1 .. Len(events) /\ Len(events) \in Nat
  OBVIOUS
<1>2. IsFiniteSet(1 .. Len(events)) /\ M \subseteq 1 .. Len(events)
  BY <1>1, FS_Interval DEF MirroredIn
<1>3. IsFiniteSet(M) /\ Cardinality(M) \in Nat
  BY <1>2, FS_Subset, FS_CardinalityType
<1>4. ASSUME NEW i \in M PROVE RowOf(s, events, i) \in 1 .. Cardinality(M)
  <2> DEFINE before == {j \in M : j <= i}
  <2>1. before \subseteq M /\ i \in before
    BY <1>2, <1>4
  <2> HIDE DEF before, M
  <2>2. IsFiniteSet(before) /\ Cardinality(before) \in Nat /\ Cardinality(before) <= Cardinality(M)
    BY <2>1, <1>3, FS_Subset, FS_CardinalityType
  <2>3. Cardinality(before) # 0
    BY <2>1, <2>2, FS_EmptySet
  <2>4. Cardinality(before) \in 1 .. Cardinality(M)
    BY <2>2, <2>3, <1>3
  <2> QED BY <2>4 DEF RowOf, before, M
<1> QED BY <1>3, <1>4

\* With one event more nothing changes when it is of another stream, and it comes
\* last when it is of this one.
OneRowMore(s, events, e, more, n) ==
  /\ \A i \in MirroredIn(s, events) :
       more[i] = events[i] /\ RowOf(s, more, i) = RowOf(s, events, i)
  /\ Mirrored[e] # s => MirroredIn(s, more) = MirroredIn(s, events)
  /\ Mirrored[e] = s =>
       /\ MirroredIn(s, more) = MirroredIn(s, events) \cup {n}
       /\ Cardinality(MirroredIn(s, more)) = Cardinality(MirroredIn(s, events)) + 1
       /\ RowOf(s, more, n) = Cardinality(MirroredIn(s, events)) + 1 /\ more[n] = e

LEMMA RowsOfOneMore ==
  ASSUME NEW events \in Seq(Event), NEW e \in Event, NEW s,
         NEW more, more = Append(events, e), NEW n, n = Len(events) + 1
  PROVE  OneRowMore(s, events, e, more, n)
<1> DEFINE M == MirroredIn(s, events)
           N == MirroredIn(s, more)
<1>1. /\ DOMAIN events = 1 .. n - 1 /\ DOMAIN more = 1 .. n /\ n \in Nat \ {0}
      /\ more[n] = e /\ \A i \in 1 .. n - 1 : more[i] = events[i]
  BY AppendProperties
<1>2. M \subseteq 1 .. n - 1 /\ N \subseteq 1 .. n /\ n \notin M
  BY <1>1 DEF MirroredIn
<1>3. \A i \in 1 .. n - 1 : i \in N <=> i \in M
  BY <1>1 DEF MirroredIn
<1>4. n \in N <=> Mirrored[e] = s
  BY <1>1 DEF MirroredIn
<1>5. \A i \in M : more[i] = events[i] /\ i \in 1 .. n - 1
  BY <1>1, <1>2
<1>6. IsFiniteSet(M) /\ Cardinality(M) \in Nat
  BY RowsAreCounted
<1>7. RowOf(s, more, n) = Cardinality({j \in N : j <= n})
  BY DEF RowOf
<1>8. \A i \in M : /\ RowOf(s, more, i) = Cardinality({j \in N : j <= i})
                   /\ RowOf(s, events, i) = Cardinality({j \in M : j <= i})
  BY DEF RowOf
<1> HIDE DEF M, N
<1>9. \A j \in N : j = n \/ j \in M
  <2> SUFFICES ASSUME NEW j \in N, j # n PROVE j \in M
    OBVIOUS
  <2>1. j \in 1 .. n - 1
    <3>1. j \in 1 .. n
      BY <1>2
    <3> QED BY <3>1, <1>1
  <2> QED BY <2>1, <1>3
<1>10. \A j \in M : j \in N
  BY <1>2, <1>3
<1>11. ASSUME NEW i \in M PROVE {j \in N : j <= i} = {j \in M : j <= i}
  <2>1. i \in 1 .. n - 1 /\ ~(n <= i)
    BY <1>1, <1>5
  <2> QED BY <2>1, <1>9, <1>10
<1>12. Mirrored[e] # s => N = M
  BY <1>4, <1>9, <1>10
<1>13. Mirrored[e] = s => N = M \cup {n}
  BY <1>4, <1>9, <1>10
<1>14. Cardinality(M \cup {n}) = Cardinality(M) + 1
  BY <1>2, <1>6, FS_AddElement
<1>15. {j \in N : j <= n} = N
  <2>1. \A j \in N : j <= n
    <3> SUFFICES ASSUME NEW j \in N PROVE j <= n
      OBVIOUS
    <3>1. j \in 1 .. n
      BY <1>2
    <3> QED BY <3>1, <1>1
  <2> QED BY <2>1
<1>16. Mirrored[e] = s => Cardinality(N) = Cardinality(M) + 1 /\ RowOf(s, more, n) = Cardinality(M) + 1
  BY <1>7, <1>13, <1>14, <1>15
<1>17. \A i \in M : more[i] = events[i] /\ RowOf(s, more, i) = RowOf(s, events, i)
  BY <1>5, <1>8, <1>11
<1> QED BY <1>1, <1>12, <1>13, <1>16, <1>17 DEF M, N, OneRowMore

\* append_event returns: what was pending is accepted and has its row.
LEMMA ReturnKeepsCopies ==
  ASSUME RecordingInv, Return, NEW s \in Stream, CopiedUpTo(s)
  PROVE  CopiedUpTo(s)'
<1> DEFINE more == Append(accepted, pending)
           n == Len(accepted) + 1
           copies == Cardinality(MirroredIn(s, accepted))
<1>1. /\ accepted' = more /\ phase' = "open" /\ pending \in Event /\ accepted \in Seq(Event)
      /\ rows[s] \in Seq(Row) /\ phase # "off" /\ rows' = rows
  BY DEF Return, Accepting, diskVars, RecordingInv, WrittenHoldsAccepted, Appending, RecTypeOK
<1>2. copies \in Nat /\ \A i \in MirroredIn(s, accepted) : RowOf(s, accepted, i) \in 1 .. copies
  BY <1>1, RowsAreCounted
<1>3. OneRowMore(s, accepted, pending, more, n)
  <2>1. more = Append(accepted, pending) /\ n = Len(accepted) + 1
    OBVIOUS
  <2> HIDE DEF more, n
  <2>2. n = Len(accepted) + 1
    BY <2>1
  <2> QED BY <2>1, <1>1, RowsOfOneMore
<1>4. /\ \A k \in 1 .. copies : rows[s][k].whole
      /\ \A i \in MirroredIn(s, accepted) : rows[s][RowOf(s, accepted, i)].event = accepted[i]
      /\ Copying(s) => Len(rows[s]) = copies + 1 /\ rows[s][copies + 1].event = pending
      /\ phase = "copied" /\ Copying(s) => rows[s][copies + 1].whole
      /\ ~Copying(s) => Len(rows[s]) = copies
  BY <1>1 DEF CopiedUpTo
<1>5. ~Copying(s)'
  BY <1>1 DEF Copying
<1> HIDE DEF more, n, copies
<1>6. CASE Mirrored[pending] # s
  <2>1. Len(rows[s]) = copies
    BY <1>4, <1>6 DEF Copying
  <2>2. Cardinality(MirroredIn(s, more)) = copies
    BY <1>3, <1>6 DEF copies, OneRowMore
  <2>3. \A i \in MirroredIn(s, more) : rows[s][RowOf(s, more, i)].event = more[i]
    BY <1>3, <1>4, <1>6 DEF OneRowMore
  <2> QED BY <2>1, <2>2, <2>3, <1>1, <1>2, <1>4, <1>5 DEF CopiedUpTo
<1>7. CASE Mirrored[pending] = s
  <2>1. phase = "copied" /\ Copying(s)
    BY <1>7 DEF Return, Stream, Copying
  <2>2. /\ Len(rows[s]) = copies + 1 /\ rows[s][copies + 1].event = pending
        /\ rows[s][copies + 1].whole
    BY <2>1, <1>4
  <2>3. Cardinality(MirroredIn(s, more)) = copies + 1
    BY <1>3, <1>7 DEF copies, OneRowMore
  <2>4. \A k \in 1 .. copies + 1 : rows[s][k].whole
    BY <2>2, <1>2, <1>4
  <2>5. \A i \in MirroredIn(s, more) : rows[s][RowOf(s, more, i)].event = more[i]
    <3>1. \A i \in MirroredIn(s, accepted) : rows[s][RowOf(s, more, i)].event = more[i]
      BY <1>3, <1>4 DEF OneRowMore
    <3>2. rows[s][RowOf(s, more, n)].event = more[n]
      BY <1>3, <1>7, <2>2 DEF OneRowMore, copies
    <3> QED BY <3>1, <3>2, <1>3, <1>7 DEF OneRowMore
  <2> QED BY <2>2, <2>3, <2>4, <2>5, <1>1, <1>2, <1>5 DEF CopiedUpTo
<1> QED BY <1>6, <1>7

\* While append_event is past the event's flush, that event's line is the last one.
LEMMA LineUnderWay ==
  ASSUME RecordingInv, phase \in {"mirroring", "copying", "copied"}
  PROVE  /\ pending \in Event /\ Len(written) = Len(accepted) + 1
         /\ written[Len(written)].whole /\ written[Len(written)].event = pending
BY DEF RecordingInv, WrittenHoldsAccepted, Appending

\* A row is begun for the pending event.
LEMMA CopyKeepsCopies ==
  ASSUME RecordingInv, CopyRow, NEW s \in Stream, CopiedUpTo(s) PROVE CopiedUpTo(s)'
<1> DEFINE m == Mirrored[pending]
           copies == Cardinality(MirroredIn(s, accepted))
           r == [event |-> pending, whole |-> FALSE]
<1>1. /\ pending \in Event /\ m \in Stream /\ accepted \in Seq(Event) /\ rows[s] \in Seq(Row)
      /\ rows \in [Stream -> Seq(Row)] /\ phase = "mirroring"
  BY DEF RecordingInv, CopyRow, WrittenHoldsAccepted, Appending, Stream, RecTypeOK
<1>2. r \in Row /\ r.event = pending /\ r.whole = FALSE
  BY <1>1 DEF Row
<1>3. copies \in Nat /\ \A i \in MirroredIn(s, accepted) : RowOf(s, accepted, i) \in 1 .. copies
  BY <1>1, RowsAreCounted
<1>4. /\ Len(rows[s]) = copies
      /\ \A k \in 1 .. copies : rows[s][k].whole
      /\ \A i \in MirroredIn(s, accepted) : rows[s][RowOf(s, accepted, i)].event = accepted[i]
  BY <1>1 DEF CopiedUpTo, Copying
<1>5. /\ accepted' = accepted /\ pending' = pending /\ phase' = "copying"
      /\ rows' = [rows EXCEPT ![m] = Append(@, r)] /\ written' = written
  BY DEF CopyRow, historyVars, memoryVars
<1>6. CASE s # m
  <2>1. rows'[s] = rows[s] /\ ~Copying(s)'
    BY <1>1, <1>5, <1>6 DEF Copying
  <2> QED BY <2>1, <1>3, <1>4, <1>5 DEF CopiedUpTo
<1>7. CASE s = m
  <2>1. rows'[s] = Append(rows[s], r)
    BY <1>1, <1>5, <1>7
  <2> HIDE DEF r, copies
  <2>2. /\ Len(rows'[s]) = copies + 1
        /\ rows'[s][copies + 1] = r /\ \A k \in 1 .. copies : rows'[s][k] = rows[s][k]
    BY <2>1, <1>1, <1>2, <1>3, <1>4, AppendProperties
  <2>3. CopyUnderWay(s)'
    BY <2>2, <1>1, <1>2, <1>5, LineUnderWay DEF CopyUnderWay
  <2>4. \A i \in MirroredIn(s, accepted) : rows'[s][RowOf(s, accepted, i)].event = accepted[i]
    BY <1>3, <1>4, <2>2
  <2>5. Copying(s)'
    BY <1>5, <1>7 DEF Copying
  <2> QED BY <2>2, <2>3, <2>4, <2>5, <1>2, <1>3, <1>4, <1>5 DEF CopiedUpTo, copies
<1> QED BY <1>6, <1>7

\* The row is flushed.
LEMMA FlushKeepsCopies ==
  ASSUME RecordingInv, FlushRow, NEW s \in Stream, CopiedUpTo(s) PROVE CopiedUpTo(s)'
<1> DEFINE m == Mirrored[pending]
           copies == Cardinality(MirroredIn(s, accepted))
<1>1. /\ accepted \in Seq(Event) /\ phase = "copying" /\ phase' = "copied" /\ accepted' = accepted
      /\ pending' = pending /\ written' = written
  BY DEF FlushRow, RecordingInv, RecTypeOK, historyVars, memoryVars
<1>2. copies \in Nat /\ \A i \in MirroredIn(s, accepted) : RowOf(s, accepted, i) \in 1 .. copies
  BY <1>1, RowsAreCounted
<1>3. Copying(s)' <=> Copying(s)
  BY <1>1 DEF Copying
<1>4. CASE s # m
  <2>1. rows'[s] = rows[s] /\ ~Copying(s)
    BY <1>4, RowCompleted DEF Copying
  <2>2. Len(rows[s]) = copies
    BY <1>1, <2>1 DEF CopiedUpTo
  <2> HIDE DEF copies
  <2> QED BY <2>1, <2>2, <1>1, <1>2, <1>3 DEF CopiedUpTo, copies
<1>5. CASE s = m
  <2>1. Copying(s) /\ Len(rows[s]) = copies + 1 /\ rows[s][copies + 1].event = pending
    BY <1>1, <1>5 DEF CopiedUpTo, Copying
  <2> HIDE DEF copies
  <2>2. /\ Len(rows'[s]) = copies + 1
        /\ rows'[s][copies + 1].whole /\ rows'[s][copies + 1].event = pending
        /\ \A k \in 1 .. copies + 1 : k # copies + 1 => rows'[s][k] = rows[s][k]
    BY <2>1, <1>5, RowCompleted
  <2>3. \A k \in 1 .. copies : rows'[s][k] = rows[s][k]
    BY <2>2, <1>2
  <2>4. CopyUnderWay(s)'
    BY <2>2, <1>1, LineUnderWay DEF CopyUnderWay
  <2>5. /\ \A k \in 1 .. copies : rows'[s][k].whole
        /\ \A i \in MirroredIn(s, accepted) : rows'[s][RowOf(s, accepted, i)].event = accepted[i]
    BY <2>3, <1>2 DEF CopiedUpTo, copies
  <2> QED BY <2>1, <2>2, <2>4, <2>5, <1>1, <1>2, <1>3 DEF CopiedUpTo, copies
<1> QED BY <1>4, <1>5

\* A dying process leaves the rows as they are.
LEMMA CrashKeepsCopies ==
  ASSUME RecordingInv, Crash, NEW s \in Stream, CopiedUpTo(s) PROVE CopiedUpTo(s)'
<1> DEFINE copies == Cardinality(MirroredIn(s, accepted))
<1>1. phase' = "off" /\ accepted' = accepted /\ rows' = rows /\ written' = lines' /\ phase # "off"
      /\ lines = written
  BY DEF Crash, Recording, RecordingInv, OneAccident
<1>2. ~Copying(s)'
  BY <1>1 DEF Copying
<1>3. ASSUME Len(rows[s]) > copies PROVE CopyUnderWay(s)'
  <2>1. CopyUnderWay(s) /\ phase # "writing"
    BY <1>1, <1>3 DEF CopiedUpTo, CopyUnderWay
  <2>2. lines' = lines
    BY <2>1 DEF Crash
  <2> QED BY <2>1, <2>2, <1>1 DEF CopyUnderWay
<1> QED BY <1>1, <1>2, <1>3 DEF CopiedUpTo

\* The copies are in place in every behaviour.
THEOREM CopiesInvariant == RecordingSpec => [](RecordingInv /\ CopiesInv)
<1>1. RecordingInit => CopiesInv
  BY DEF RecordingInit, CopiesInv, Opened
<1>2. RecordingInv /\ CopiesInv /\ RecordingInv' /\ [RecordingNext]_recordingVars => CopiesInv'
  <2> SUFFICES ASSUME RecordingInv, CopiesInv, RecordingInv', [RecordingNext]_recordingVars,
                      NEW s \in Stream, Opened(s)'
               PROVE  CopiedUpTo(s)'
    BY DEF CopiesInv
  <2>1. CASE OpenStream
    <3>1. rows'[s] = <<>> /\ accepted' = <<>> /\ phase' = "opening"
      BY <2>1 DEF RecordingInv, FilesOpened, OpenStream
    <3>2. MirroredIn(s, accepted') = {} /\ Len(rows'[s]) = 0
      BY <3>1 DEF MirroredIn
    <3>3. Cardinality(MirroredIn(s, accepted')) = 0
      BY <3>2, FS_EmptySet
    <3> QED BY <3>1, <3>2, <3>3 DEF CopiedUpTo, Copying
  <2>2. CASE OpenEvents
    <3>1. opened' = 0
      BY <2>2 DEF OpenEvents
    <3> QED BY <3>1 DEF Opened
  <2>3. CASE ~OpenStream /\ ~OpenEvents
    <3>1. opened' = opened
      BY <2>3 DEF RecordingNext, Publish, RecorderStep, TruncateMetadata, LabelOpen, Flush,
                  CopyRow, FlushRow, Return, Accepting, Seal, Summarize, Close, Crash, Damage,
                  recordingVars
    <3>2. CopiedUpTo(s)
      BY <3>1 DEF CopiesInv, Opened
    <3>3. CASE \/ /\ UNCHANGED <<rows, accepted, written, phase, pending>>
               \/ /\ UNCHANGED <<rows, accepted>>
                  /\ phase \notin {"off", "copying", "copied"} /\ phase' \notin {"copying", "copied"}
      <4>1. CASE UNCHANGED <<rows, accepted, written, phase, pending>>
        BY <4>1, <3>2 DEF CopiedUpTo, CopyUnderWay, Copying
      <4>2. CASE /\ UNCHANGED <<rows, accepted>>
                 /\ phase \notin {"off", "copying", "copied"} /\ phase' \notin {"copying", "copied"}
        <5>1. Len(rows[s]) = Cardinality(MirroredIn(s, accepted))
          BY <4>2, <3>2 DEF CopiedUpTo, Copying
        <5>2. accepted \in Seq(Event)
          BY DEF RecordingInv, RecTypeOK
        <5>3. Cardinality(MirroredIn(s, accepted)) \in Nat
          BY <5>2, RowsAreCounted
        <5> QED BY <4>2, <5>1, <5>3, <3>2 DEF CopiedUpTo, Copying
      <4> QED BY <3>3, <4>1, <4>2
    <3>4. \A from, to \in Phase \ {"off", "copying", "copied"} :
            TruncateMetadata(from, to) =>
              /\ UNCHANGED <<rows, accepted>>
              /\ phase \notin {"off", "copying", "copied"} /\ phase' \notin {"copying", "copied"}
      BY DEF TruncateMetadata, historyVars
    <3>5. \/ RecorderStep /\ ~OpenStream /\ ~Return /\ ~CopyRow /\ ~FlushRow
          \/ \E e \in Event : Publish(e)
          => /\ UNCHANGED <<rows, accepted>>
             /\ phase \notin {"off", "copying", "copied"} /\ phase' \notin {"copying", "copied"}
      BY <3>4 DEF RecorderStep, LabelOpen, Flush, Seal, Summarize, Close, Publish,
                  historyVars, diskVars, Phase
    <3>6. Damage \/ UNCHANGED recordingVars => UNCHANGED <<rows, accepted, written, phase, pending>>
      BY DEF Damage, recordingVars, diskVars, historyVars, memoryVars
    <3> QED BY <2>3, <3>2, <3>3, <3>5, <3>6, ReturnKeepsCopies, CopyKeepsCopies, FlushKeepsCopies,
               CrashKeepsCopies DEF RecordingNext
  <2> QED BY <2>1, <2>2, <2>3
<1> QED BY <1>1, <1>2, RecordingInvariant, PTL DEF RecordingSpec

\* A row stands in the same place of the stream for a prefix of the events.
Begins(some, events) ==
  Len(some) <= Len(events) /\ \A i \in DOMAIN some : events[i] = some[i]

LEMMA PrefixKeepsRows ==
  ASSUME NEW events \in Seq(Event), NEW some \in Seq(Event), Begins(some, events),
         NEW s, NEW i \in MirroredIn(s, some)
  PROVE  i \in MirroredIn(s, events) /\ RowOf(s, some, i) = RowOf(s, events, i)
<1>1. /\ DOMAIN events = 1 .. Len(events) /\ Len(events) \in Nat
      /\ DOMAIN some = 1 .. Len(some) /\ Len(some) \in Nat
  OBVIOUS
<1>2. i \in 1 .. Len(some) /\ i \in MirroredIn(s, events)
  BY <1>1 DEF MirroredIn, Begins
<1>3. {j \in MirroredIn(s, some) : j <= i} = {j \in MirroredIn(s, events) : j <= i}
  BY <1>1, <1>2 DEF MirroredIn, Begins
<1> QED BY <1>2, <1>3 DEF RowOf

\* At whatever write the process dies, a stream of the run holds the copies of the
\* accepted events in their order and at most the row of the event under way, which
\* the event file has; a stream that is not opened again lies beside an event file
\* without a line; and a run taken for finalized and valid has the copies of the
\* sealed events, although no validator compares the two.
THEOREM CopiesAreThere == RecordingSpec => []CopiesFollowEvents
<1>1. RecordingInv /\ CopiesInv => CopiesFollowEvents
  <2> SUFFICES ASSUME RecordingInv, CopiesInv, NEW s \in Stream
               PROVE  /\ ~Opened(s) => phase \in {"off", "opening"} /\ lines = <<>>
                      /\ ReplayEligible =>
                           \A i \in MirroredIn(s, sealed) :
                             /\ RowOf(s, sealed, i) \in DOMAIN rows[s]
                             /\ rows[s][RowOf(s, sealed, i)].event = sealed[i]
    BY DEF CopiesInv, CopiedUpTo, CopiesFollowEvents
  <2>1. /\ accepted \in Seq(Event) /\ sealed \in Seq(Event) /\ rows[s] \in Seq(Row)
        /\ written \in Seq(Line) /\ lines \in Seq(Line)
        /\ DOMAIN sealed = 1 .. Len(sealed) /\ Len(sealed) \in Nat
    BY DEF RecordingInv, RecTypeOK
  <2>2. ASSUME ~Opened(s)
        PROVE  phase \in {"off", "opening"} /\ lines = <<>> /\ written = <<>> /\ accepted = <<>>
    <3>1. phase \in {"off", "opening"} /\ written = <<>> /\ accepted = <<>>
      BY <2>2, AllOpened DEF RecordingInv, FilesOpened
    <3>2. lines = <<>>
      BY <3>1 DEF RecordingInv, OneAccident
    <3> QED BY <3>1, <3>2
  <2>3. ASSUME ReplayEligible, NEW i \in MirroredIn(s, sealed)
        PROVE  RowOf(s, sealed, i) \in DOMAIN rows[s] /\ rows[s][RowOf(s, sealed, i)].event = sealed[i]
    <3>1. i \in 1 .. Len(sealed)
      BY <2>1 DEF MirroredIn
    <3>2. SealIsPrefix /\ lines # <<>>
      <4>1. metadata.status = "finalized" /\ metadata.count = Len(lines)
        BY <2>3 DEF ReplayEligible, MissionRunValid, RunValid, SealMismatch
      <4>2. Len(sealed) = Len(lines) /\ (SealIsOld \/ SealIsPrefix)
        BY <4>1 DEF RecordingInv, SealDescribes
      <4>3. lines # <<>>
        BY <4>2, <3>1, <2>1
      <4>4. SealIsOld => lines = <<>>
        BY DEF RecordingInv, OneAccident, SealIsOld
      <4> QED BY <4>2, <4>3, <4>4
    <3>3. i \in MirroredIn(s, accepted) /\ RowOf(s, sealed, i) = RowOf(s, accepted, i)
      <4>1. Begins(sealed, accepted)
        BY <3>2 DEF SealIsPrefix, Begins
      <4> QED BY <4>1, <2>1, <2>3, PrefixKeepsRows
    <3>4. accepted[i] = sealed[i]
      BY <3>1, <3>2, <2>1 DEF SealIsPrefix
    <3> DEFINE copies == Cardinality(MirroredIn(s, accepted))
    <3>5. copies \in Nat /\ RowOf(s, accepted, i) \in 1 .. copies
      BY <2>1, <3>3, RowsAreCounted
    <3>6. Opened(s)
      BY <2>2, <3>2
    <3>7. /\ Len(rows[s]) \in {copies, copies + 1} /\ DOMAIN rows[s] = 1 .. Len(rows[s])
          /\ rows[s][RowOf(s, accepted, i)].event = accepted[i]
      BY <2>1, <3>3, <3>6 DEF CopiesInv, CopiedUpTo
    <3> HIDE DEF copies
    <3>8. RowOf(s, accepted, i) \in DOMAIN rows[s]
      BY <3>5, <3>7
    <3> QED BY <3>3, <3>4, <3>7, <3>8
  <2> QED BY <2>2, <2>3
<1> QED BY <1>1, CopiesInvariant, PTL

=============================================================================
