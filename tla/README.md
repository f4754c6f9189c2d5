# livecaption, verified

livecaption turns speech into live captions for an audience. This directory
holds TLA+ modules for the parts where concurrency, order, bounds and failure
decide correctness, the TLC configurations that check them on small instances,
and the proofs TLAPS checks for every value of the constants. Everything is
translated from the Go source and, for the viewer, from the script in
`index.html`; paths below are relative to `src/internal` unless they say
otherwise.

## 1. The system and its parts

    FileSource / DeviceSource --frames--> Monitor.Wrap --frames--> Engine.Run
      (ffmpeg)                              |                        | pump, ring, gate
                                            v tap                    | writer, reader
                                         speaker                     v
                                                             transcripts channel
                                                                     |
                                           Hub.Publish <--- hub goroutine
                                           |         |
                          OnFinal -> Writer|         | broadcast
                          transcript.txt   |         v
                          transcript.jsonl |    subscriber channels -> SSE -> viewer page

| component | state it keeps | operations | what makes it correct |
|---|---|---|---|
| Silence gate (`stt/gate.go`) | active, current silence, `changed` channel | ObserveLevel, Active, Changed | pauses after Hold of real silence, neither early nor late, although a looped file restarts the media clock; a resume cannot be missed |
| Deepgram engine (`stt/deepgram/deepgram.go`) | ring, connection, four goroutines, metrics | Run, pump, runConnection, finish, writeLoop, readLoop | audio is sent once and in order; lost speech is accounted for; reconnects and pauses are told apart; Run returns exactly when it should |
| Anchor index (`stt/deepgram/anchor.go`) | capture times of the bytes sent | Add, At | an answer is off by no more than a chunk and comes from the right one; what can be asked is there |
| Caption hub (`caption/hub.go`), events endpoint (`web/server.go`) | history, current utterance, subscribers | Publish, PublishStatus, Flush, Subscribe, broadcast, handleEvents | no settled word lost or repeated; a page that missed nothing is current; publishers never wait for a page |
| Transcript writer (`caption/writer.go`) | two files behind bufio buffers, closed, error metric | Write, flush, Close | the files are a beginning of the transcript whatever fails; silence about errors means they are complete |
| Session (`cli/run.go`) | ctx, the channels, the goroutines to join | run, shutdown, first and second Ctrl-C | nothing in flight is lost, no circular wait, no send on a closed channel but on three known paths |
| Audio sources (`audio/file.go`, `device.go`, `ffmpeg.go`) | ffmpeg process, frame offsets, Err | Start, playOnce, probe, captureOnce, Close | media time goes on over restarts; one ffmpeg per device; a clean end is a whole file |
| Speaker monitor (`audio/monitor.go`) | tap channel, playback goroutine, drop count | Wrap, Tap, play, Close | captions never wait for the speaker; what it misses is counted |
| Viewer typesetter (`web/static/index.html`) | ledger of painted words, rows, width | applyUtterance, pushWord, freezeAndGlide, rebuild, retypeset | the screen is the last text or marks what it disowns; painted words stay put |
| Mock engines (`stt/mock`) | phrase script, gate, pause metrics | Run, step, restart | mock-2 is silent in a pause and resumes with a fresh phrase; mock never goes quiet |
| Health and statistics (`metrics/metrics.go`) | atomic counters, stamp of the last degradation, pause clock, latency ring | Drop..., Set..., STTPauseBegin/End, ObserveLatency, Snapshot, Clean | a verdict has its reason in its own snapshot; the clock and the percentiles are true |
| Terminal (`ui/terminal.go`, `logging.go`) | status text, shown, stopped | Banner, Ready, Caption, writeLog, ticker, StopStatus, Summary | no line is printed onto the status line or drawn under the summary |
| Rest: CLI, engine registry, statistics endpoint, device listing, admin page | none that others read back | | not modelled, section 8 |

The components interact through bounded channels (`frames`, `transcripts`, a
subscriber's 16 events, the tap), closed channels as signals (`framesClosed`,
`gate.changed`, `engineDone`, `hubDone`), callbacks on the caller's goroutine
(`hub.OnFinal`), two contexts per engine (`ctx` and `connCtx`), mutexes inside
the gate, ring, hub, writer and terminal, and metrics that several goroutines
update while a snapshot loads them one by one.

What is hard: selects in which several cases are ready at once; joins with a
timeout (`finish`); a chunk that has left the ring and is not yet written;
channels closed while a sender lives; subscribers copied under a lock and used
after it; bufio's sticky errors; ffmpeg's death, restart and kill; a media
clock that restarts; a text revised after it was half read. PROJECT.json lists
these as hazards, each at its line.

## 2. Modules

| module | models | composed of |
|---|---|---|
| `PauseGate` | the gate as a value with its operations | |
| `SttGate` | a gate driven by a source with restarts of the media clock | EXTENDS PauseGate |
| `MockEngine` | mock and mock-2, phrases, the synthetic level schedule; the pump as the gate's other owner | EXTENDS SttGate |
| `AudioPipe` | what an engine promises of the audio: a bounded queue that keeps the order | |
| `DeepgramEngine` | Run, pump, ring, writer, reader, link, KeepAlive, pause metrics | EXTENDS PauseGate, implements AudioPipe |
| `AnchorIndex` | Add, At and the writer that indexes before it writes | |
| `CaptionHub` | hub, two publishers, subscribers, SSE handlers, page contract | |
| `TranscriptWriter` | the two files and their buffers | |
| `TranscriptLog` | what a session promises of its transcript: a log that only grows, complete unless it says so | |
| `Session` | run and shutdown with every goroutine between source and files | EXTENDS TranscriptWriter, implements TranscriptLog |
| `AudioSource` | FileSource, looped or not, and DeviceSource with ffmpeg | |
| `Capture` | a source, Monitor.Wrap, the tap and playback, the engine as reader | EXTENDS AudioSource |
| `Viewer` | the typesetter as functions on one page record | |
| `Metrics` | counters, stamp, pause clock, latency ring, Snapshot load by load | |
| `Terminal` | captions, logs, status ticker, run's banner to summary | EXTENDS Metrics |
| `MC...` | instances for TLC: sets of lengths, texts and so on | |
| `..._proofs`, of MockEngine (with SttGate), DeepgramEngine, AnchorIndex, CaptionHub, Session, Capture, Viewer and Terminal | theorems | EXTENDS the component and TLAPS |

Conventions. A goroutine is a program counter. A step ends where another
goroutine can observe or disturb it: at a lock, a channel operation, a network
or process call; code under one lock is one step. A select is a disjunction of
its ready cases. A non-blocking send is a step that always succeeds, one way or
the other. History variables (`sent`, `accepted`, `lines`, `produced`, ...) are
named as such where they are declared and never guard a modelled action. A
definition commented "Faulty variant" is not part of any specification: it is
the bug a property is there to exclude, kept beside the code it distorts and
used to confirm that the property notices.

How state corresponds to code: the variables carry the names of the fields
and locals they stand for where those have one (`ring`, `notify`,
`firstAttempt`, `framesClosed`, `subs`, `lastState`, `history`, `committed`,
`buf`, `ledger`, `rows`, ...), and every definition's source lines are in
PROJECT.json under `map`.

What is abstracted, and why that is harmless:

* A frame is its number or its end offset; its samples are loud or silent. No
  property depends on the sample values, and the gate only compares a level
  with a threshold.
* A transcript is a settled segment or a guess, numbered. Text matters only in
  `Viewer`, where a word is a sequence of glyphs of width one.
* Durations are nondeterminism: a timer may fire at any moment it is armed.
  That allows more orders than the clock does, so what holds, holds.
* A line of the transcript is two pieces per file, so that it can be torn.
* The counters of silent degradation are two groups, those Snapshot loads before
  its verdict and the one it loads after; any of a group can move.
* The terminal's screen is what its cursor line holds.
* `AnchorIndex` counts time and bytes both in samples. A chunk is released at
  any distance from the one before, in a burst at none. BytesFor's truncation,
  which can turn the end-time of k samples into k - 1, is kept (`Wanted`);
  Duration's, below a nanosecond, is not.
* Of a reader that outlives its connection `DeepgramEngine` keeps the number
  (`strays`); what it may still send is the subject of `Session`, which numbers
  the connections. `overdue`, `cut` and `refused` are history: drains that
  drainTimeout ended, frames lost with a failed write, dials that failed.

## 3. What the runs check

| run | instance | shows |
|---|---|---|
| `MCMock` | Hold 3, frames of 1 or 2, 14 units of audio, phrases of 3, a schedule of 9 | the gate over all restarts of the clock, whoever feeds it; mock-2's pauses; mock's speech |
| `MCDeepgramEngine` | 4 frames, ring of 2, Hold 2, 1 fault, a link that stalls and a server that leaves a dial unanswered at will | the refinement of AudioPipe, accounting of losses, pause clock, joins, what counts as reconnect; when Run may return, that it does, and what alone can keep it; that no resume is slept through |
| `MCAnchorIndex` | window 4, 4 anchors, chunks of 1 and 3 released at once or 2 apart, known or not, 8 samples written | what may be asked is indexed; how far an answer can be off |
| `MCCaptionHub` | 1 browser, channel of 2, history of 1, 3 results, 1 status | transcript, history, missed lines, order, page contents, publishers' progress |
| `MCSession` | 2 connections, channel of 1, 2 results, 1 frame, buffer of 3 pieces | the refinement of TranscriptLog, files, badge, completeness, order, panics; that the session comes to its summary, and what alone can keep it |
| `MCCapture` | file, loop and device; 5 units of media, 2 lives of ffmpeg, tap of 1 | offsets, one ffmpeg, completeness, tap accounting, clean end, termination |
| `MCTerminal` | window 1, ring of 2 latencies, clock to 3, 2 operations of the stages and 1 delay or 5 delays | a snapshot's verdict against itself, the pause clock, the latency figures, the screen |
| `MCViewer` | widths 3 and 5, 2 rows, ledger of 7, 7 revisions, 1 final, 1 snapshot or rotation | the screen against the text, the ledger and earlier screens |
| `EngineBlip`, `EngineLastWords`, `HubFlush`, `HubSnapshotFirst` | smaller instances | findings, section 6 |

Why the bounds are enough. Each is just above the point at which the
interesting case first happens. Four frames fill a ring of two, evict, pause,
resume and leave speech to lose, with one more in the writer's hand; one fault
is a lost link or a failed dial, and the link may stall besides; TLAPS proves the
safety properties for any number. Fourteen units allow four holds and any restart
between them, and one and a half cycles of mock-2's schedule with the phrase
that follows its pause. Three delays wrap a ring of two latencies; a window
of one tick passes within a clock of three, and the two snapshots overlap any
two counts. Eight samples overflow a window of four twice and reach the limit
of entries. A channel of two fills with three results; one browser is enough
since the hub treats each subscriber on its own, and it may join and leave at
any step. Two connections are needed, and enough, for a reader to outlive its
own; a buffer of three pieces tears the second line. Five units of media end in
a short last chunk, and two lives of ffmpeg are a crash and a restart. Seven
words overflow the ledger, width three forces a word of four to be split, and
three texts in a row confirm, contradict and confirm again.

Deadlock is checked in `DeepgramEngine`, `MockEngine`, `Session`, `Capture`,
`Terminal` and `Viewer`,
where a finished system stutters in an explicit `Finished` step or the next
event is always possible; the index and the hub simply reach their bounds.

## 4. Fairness

* `DeepgramEngine.Fairness`: weak fairness of every goroutine's steps (the Go
  scheduler is preemptive and fair enough for that), and strong fairness of the
  cases that end the writer, since a Go select chooses at random among ready
  cases and cannot avoid one for ever. Two network calls are excepted, and the
  link may stall for ever in either (`LinkStalls`). `conn.Write` waits on
  `connCtx`, which is not derived from `ctx` (deepgram.go:358): on a link that
  neither fails nor drains it never comes back (`Blocked`). `connect` dials with
  `ctx` and no deadline of its own (deepgram.go:434): a handshake that nobody
  answers ends with a cancellation only (`Unanswered`). CancelReturns says that
  such a write is the one thing that can hold a cancelled Run up, EndReturns that
  such a write or dial is what can after the end of the source. Nothing obliges
  the source to deliver or end, the caller to cancel, or the link to fail.
* `CaptionHub`: weak fairness of each publisher, none of browsers or handlers.
* `Session`: one weak fairness of all goroutines together: as long as one can
  step, one does. The engine is taken to come to its end after Ctrl-C, which is
  what `CancelReturns` establishes, and with the same exception: its write may
  stall for ever (`WriteStalls`). Nor is `cmd.Wait` promised to return before
  Ctrl-C: an ffmpeg that ignores its interrupt is bounded by WaitDelay only once
  ctx is done (`WaitsForFFmpeg`). ShutdownCompletes names these two waits. No
  result, tick, frame or Ctrl-C is promised.
* `Capture`: the same for source, Wrap and pump. Nothing is assumed of the
  playback: the speaker may stall for ever.

## 5. What is proved

TLAPS proves the following for all values of the constants, from the named
assumptions of the modules, which TLC evaluates on every run that extends them.
Three theorems have a hypothesis of their own, named below. Together they cover
every safety property the runs check.

`MockEngine_proofs`, the gate alone. `TypeCorrect`, `PauseNotEarly` (NeverPausesEarly) and
`PauseNotLate` (PausesByHold). Neither property is inductive: each speaks of
the audio heard, the code only of offsets. `GateInv` adds that the gate's own
silence is the silence heard, and that its baseline lies before the start of
the silence in this pass while the time since it never exceeds what was heard.
The second half is what the re-baselining at gate.go:73-84 preserves, and the
step that proves it splits on whether the baseline is kept or taken again.

`MockEngine_proofs`, the engines. The two properties of the gate again, now under the engines
that own one (`MocksPauseNotEarly`, `MocksPauseNotLate`), from the same `GateInv`;
and `MocksPauseInSilence` (PauseIsSilent). Its invariant says that the utterance
in progress began no earlier than the gate last went active, counted in audio
consumed: that is what restart on resume (mock2.go:113) provides, and it holds
over restarts of the clock because those only bring the offset down.
`MockSpeaksOn` (SpeechIsContinuous) bounds mock's silence: `SpeakInv` says how
long mock has been quiet in a gap, at its start and in a phrase. Its hypothesis
is that some frame length is the longest, as it is for every source of the code.

`DeepgramEngine_proofs`. Every safety property of the engine's run, for any
ring, hold, number of frames and number of faults.

* `GoroutinesAreJoined` (NoStrayGoroutine), `ReconnectsAreCounted`
  (ReconnectsAreFaults) and `RunReturnsWhenOver` (ReturnsOnlyWhenOver) rest on
  `ConnInv`: what the writer and reader report in each phase of a connection, and
  that a connection given up for lost has a link that is down. `FaultInv` then
  holds one fault in reserve while the link is down, the one its reconnect will
  be counted for; `FirstInv` says that before the first connection nothing was
  sent or counted. Of the readers, only one whose drain drainTimeout ended is left
  alive behind its connection (`ReaderLeft`), so strays never outnumber such drains.
* `PausesAreAccounted` (PauseAccounted) is inductive as it stands.
* `TypeCorrect` (TypeOK), split into the audio, the flags and the rest, since
  each kind of step disturbs one of them only.
* `AudioKeepsOrder` (SentOnceInOrder). The property speaks of a concatenation of
  four sequences; `Ordered` states it place by place (each ascends, each earlier
  place is older than each later one), `ConcatAscends` and `ConcatBefore` show the
  two equivalent, and a step then moves one frame between neighbours or drops one.

* `ImplementsAudioPipe` (RefinesAudioPipe): under the mapping *queue = writer's
  hand, ring, pump's hand*, every step of the engine takes a frame, delivers or
  gives up one of the two oldest, or stutters. It rests on TypeOK, for the
  lengths, and on ConnInv: a hand is empty when its goroutine is gone.

* `SpeechLossIsAccounted` (LossIsAccounted), under the hypothesis that a hold is at
  least as long as the ring when the gate is on: by default 60 s (cli.go:47)
  against the 2 s of bufferAudio, and section 6 says what a shorter one costs. It
  has three parts. EvictionsCounted: of the loud frames in no place and not cut, a
  step adds at most the one the ring gives up (`LostGrows`), and one that is loud
  is dropped from a ring the gate calls active, hence counted: `SilenceInv` ties
  the gate to the audio heard, `Newest` says that ring and hand hold the newest
  frames, so an inactive gate, after a hold of silence, has nothing loud left to
  evict. CutsCounted: a failed write takes one frame with it, and its connection
  ends in one reconnect; while that is still to be counted, it is owed
  (`Owned`). EmptyAtReturn: a writer ends without error only with ctx done or the
  ring drained (`ConnInv`), so what Run leaves in the ring it leaves from a pause
  (the case of `EngineLastWords`), after a cancellation or a rejected key.

`AnchorIndex_proofs`. `AnswersClose` (AnswersAreClose) and `RecentAnswered`
(RecentIsAnswered), for any window, limit of entries, chunk length and distance of
releases. `IInv` says that the entries tile a
stretch of the stream that ends at its end, each agreeing with the chunk its
samples came in, that chunks are released in order, and that what is missing
before them left by Add's two rules. An answer is then a walk back within the one
chunk that covers the sample (`AnswerIs`), hence shorter than that chunk; and as
chunks are released in order, a result answered by the next chunk is dated too
early by at most that chunk's length. The
eviction loop is a search for the first entry kept (`FirstKeptIs`), At's a search
for the first that ends later (`CoveringIs`).

`CaptionHub_proofs`. Every safety property of the hub, for any number of
browsers, results and status changes, any buffer and any length of history;
`HubInv` is the inductive invariant, and it includes TypeOK (`TypeCorrect`).

* `EveryWordIsWrittenOnce` (TranscriptIsTheSpeech). The property joins all lines
  ever written. `SpeechInv` states it line by line instead: each closed utterance
  follows on from the last word of the one before, the open one follows on from
  the last of those; what is written is every line closed but the one in the
  publisher's hand; the history is the newest of them.
* `LinesArriveInOrder` (LinesInOrder): `OrderInv` says that a channel has taken
  only old lines and never the one the hub's goroutine still holds for it.
* `EveryMissIsCounted` (MissesAreCounted): a step adds a line to those a browser
  missed only when it counts a drop.
* `PagesCatchUp` (PageIsCurrent). For a page that began with its snapshot and lost
  nothing, `PageInv` says that the present text, state and every line of the
  history have arrived, are on the way behind everything that would hide them, or
  are still owed by a publisher. A step then moves an event one place along
  (`PageTakes`, `PageShows`), and what could hide the present text is only ever
  an older event, before it in the channel.

`Capture_proofs`. `OneProcess` (OneCapture), `ClockAdvances` (MediaTimeAdvances)
and `NothingIsSkipped` (NothingSkipped). `ProcsInv` names the one process each
place of the source's goroutine may own; `ClockInv` says whose offset the next
frame continues; `FlowInv` gives each frame its place by number, and allows one
to be missing only after Ctrl-C and behind a goroutine that has ended.
`TapIsAccounted` (TapAccounted) from `KeptInv`: what the speaker was given, has in
hand and still waits for are numbered frames of the stream, ascending, none later
than the frame Wrap is forwarding. `CleanEndsAreWhole` (CleanEndIsWhole) from
`WholeInv`, by which a replay stops only at the end of its media unless something
failed, and `WrapInv`, by which Wrap ends behind it.

`Terminal_proofs`. `PauseClockIsTrue` (PausedTimeIsTrue) from `PauseInv`: the clock
is open exactly while the engine is in a pause or ended in one.
`LinesAreWhole` (LinesStandAlone) from `LineInv`: a line is shown only in a mode
that has one, there is no text before the ticker runs, and none after the
summary has stopped it. `HealthIsExplained` (HealthTellsTheTruth) from
`StampInv`: behind every stamp there is a counter that is not zero, or a failing
transcript, since each goroutine counts before it stamps and nothing is ever reset;
and from `ReadInv`: the stamp a snapshot copied is explained by what it has loaded,
or will be by a counter it has yet to load. `LatencyIsOfTheRecent`
(LatencyIsRecent) from `LatInv`, which gives each slot of the ring the number of
its observation: the ring is a rearrangement of the last delays (`RingReorders`),
it can be sorted (`SortExists`), and the element a sorted rearrangement has at a
rank is one with that rank among the delays (`Rank`, `PercentileIs`).

`Session_proofs`. All seven theorems hold for any number of connections, any
capacity of the transcripts channel and any size of the writer's buffers.

* `FileEndsCleanly` (EndOfFileIsClean): no send on a closed channel unless a
  drain ran out, Ctrl-C was pressed or the key was refused. `CleanInv`
  strengthens it by four facts: channels are closed only after the engine was
  joined (`OrderInv`); only the current connection's reader lives, unless a
  drain ran out (`ReaderInv`); the engine returns without error only when ctx
  is done or the audio over (`EndInv`); readers are well typed. A panic is then
  either a reader that lives after the join, hence a drain that ran out, or the
  monitor holding a frame after the join, hence audio that was not over.
* `ReconnectsKeepOrder` (SegmentsInOrder): what is accepted is older than what
  the one living reader holds, which is older than what is received next
  (`SegmentInv`, on top of `ReaderInv`).
* `BadgeIsRight` (BadgeTellsTheTruth): a bufio writer that failed stays failed
  (`FailureIsSticky`), so the badge, set once, is never out of date.
* `FilesAreBeginnings` (FilesFollowTheSession) from `FileInv`: on disk and in
  its buffer a file holds a beginning of the rendered transcript, all of it until
  it fails, and transcript.jsonl never more than transcript.txt.
* `NoErrorNoLoss` (SilenceMeansComplete of TranscriptWriter) from `SilenceInv`: as
  long as no error was reported no file has failed, and a Close without one has
  emptied the buffers. No run lists it: RefinesTranscriptLog and
  NothingInFlightIsLost check what it says of a session's exit.
* `ShutdownLosesNothing` (NothingInFlightIsLost), the whole pipeline from reader to
  disk. `FlightInv` says that transcript, open line and channel together are what
  was accepted; `StageInv` what each stage of the shutdown has emptied for good
  (channel before the hub is done, open line before the writer is closed);
  `CutInv` and `HeldInv` that, with nothing gone wrong, a connection is cut behind
  its reader, so every segment received is accepted or in that reader's hand.
* `ImplementsTranscriptLog` (RefinesTranscriptLog): under the mapping *heard =
  accepted segments, files = what is on disk, outcome = exit with or without an
  error*, every step accepts a segment, writes a line, saves, ends or stutters. A
  line is the next segments heard by `FlightInv`, what reached a disk stays by
  `DrainsGrow`, and the end is complete by the two theorems above. `LogInv` adds
  that no line is empty and that the session exits behind its closed writer.

`Viewer_proofs`. All three properties of the page, for any texts, any widths and
any bound on rows and ledger; a word may be cut into any number of chunks.

* `ScreenMatchesLedger` (ScreenIsTheLedger) from `Sound`: rows and ledger hold the
  same words counted from the end (`Meets`), so that trimming either at its
  beginning changes nothing; exactly the open row's words are open (`Marked`);
  each row fits the page or holds one word (`RowFits`). A revision keeps at least
  the frozen words of the utterance, so what it takes back lies in the open row
  (`KeepIs`), as applyUtterance takes for granted (index.html:484).
* `PaintIsDry` (PaintedStays) from the same invariant. Whatever is pushed, a row
  list `Extends` the one before: its closed rows lead the new one, less those gone
  off at the top, and the open row's words that stay lead the row now in its
  place. It is shown of one word, one chunk and one revision, and composes. A
  text that disowns words of the open row takes back exactly those behind the
  last word confirmed.
* `LastTextIsShown` (HypothesisShown), under the hypothesis that no text has more
  words than the ledger holds: LEDGER_CAP is 4000 (index.html:291), and an
  utterance ends long before. With a longer one the ledger would lose the
  utterance's own first words. `Told` says of each word of the open utterance that it
  is the text's word or is stale behind a contradiction; `Excused` says when a
  word still open can be stale, which only a resize brings about.

The last two modules, and the sorting of delays, need induction over data: what
FlattenSeq and the typesetter's folds compute, and that every finite list can be
sorted. FoldLeft is a function on all subsets of the places of a sequence; on the
sets 1..k it is a run of states (`OnSets`, `IsRun`), and the proofs follow the
run. The library's
induction theorems take an operator and cannot be used here, but its
well-foundedness of `<` on Nat can: `Smallest` gives a set of counterexamples its
least element, and the induction step then contradicts it.

Only model-checked: everything that rests on fairness or ENABLED, which are out
of the prover's reach: CancelReturns, EndReturns, ResumeNoticed,
PublishersNeverWait, ShutdownCompletes and CaptureEnds.

## 6. Findings

Each is a run that TLC must find violated by what the code does, against a line
that promises otherwise.

* `EngineBlip`: DESIGN.md:159-160 says a brief blip loses nothing. `writeLoop`
  pops a chunk before it writes it, and a failed write does not put it back
  (deepgram.go:358). LossIsAccounted shows that failed
  writes take no more than one chunk per reconnect. It does not bound what a
  broken link's buffers had taken: conn.Write took that, and nothing in the
  program knows that it never arrived.
* `EngineLastWords`: a pause that ends by the source's end "is full of silence"
  (deepgram.go:188). If speech resumed just before, both cases are ready and
  Run may leave that speech in the ring, with no metric to show for it:
  LossIsAccounted has this return, a cancelled one and a rejected key as the only
  ones that leave audio behind.
* `HubFlush`: Flush keeps "the tail of a session" (hub.go:177-178). It publishes
  an empty SpeechFinal, which discards a pending guess.
* `HubSnapshotFirst`: "the first event delivered is always a snapshot"
  (hub.go:195). Subscribe registers the channel before it sends the snapshot,
  outside the lock.

Met while modelling, and not the subject of a run:

* LossIsAccounted needs Hold to be at least the ring, and `SpeechLossIsAccounted`
  has this as its hypothesis: with a shorter hold, speech evicted while the gate
  is inactive is not counted, and `--silence-hold` may be any positive time
  (cli.go:60).
* `CaptionHub.crashed` is reachable: broadcast sends to targets it copied before
  an unsubscribe closed one (hub.go:222). PublishersNeverWait states it as its
  one exception, SendsToClosed.
* A subscriber that falls behind loses the event and stays registered, where
  hub.go:57-59 and 230-235 speak of being dropped and reconnecting.
* `mock` under `--loop`: a phrase or a gap timed by an offset of the previous
  pass is resumed late, and a gap that ends beyond the file's length never, so
  mock falls silent for good (phrases.go:78), though DESIGN.md:204 says it never
  goes quiet and README.md:51 offers `--loop` for soak tests. The gate
  re-baselines for this case (gate.go:72-79), the phrases do not.
  SpeechIsContinuous excuses the phrase during which the clock restarted;
  without the excuse TLC finds it violated.
* A Snapshot is called a consistent point-in-time copy (metrics.go:323); its
  locked fields are, its counters are loaded after them. "ok" next to a counter
  that has just moved is therefore possible, "degraded" without a reason is not.
* `percentile` is called nearest-rank (metrics.go:521) and rounds p*n down,
  counting from zero: one rank above it whenever p*n is a whole number.
* The three excuses of EndOfFileIsClean are real: without any one of them TLC
  finds a panic (run.go:214, monitor.go:162).
* `finish` waits a fixed three seconds, though its comment speaks of a server
  gone quiet (deepgram.go:308-318).
* Any end of ffmpeg's stream is a clean end of file (file.go:152); CleanEndIsWhole
  has to excuse a decoder that died.
* hardSplit enters several chunks for one word, so the next revision is compared
  out of step: after "a long b" on a page three wide, "a long b a" drops a chunk
  (index.html:438). HypothesisShown excuses an utterance with a split word, and
  without the excuse TLC finds it violated at once.
* After a rotation, a stale word that came back to the open row stays stale though
  a later text confirms it (the `resized` excuse of HypothesisShown).
* The errors of the writer's Close reach the log only (run.go:254).
* A handshake that is never answered holds Run up after the end of the source
  (deepgram.go:434), a write the link does not take holds it up even after Ctrl-C
  (deepgram.go:358), and after a refused key an ffmpeg that ignores its interrupt
  holds shutdown up until Ctrl-C (monitor.go:164). Each is the exception a liveness
  property names.
* A result that ends on a chunk boundary is dated by the next chunk's first sample:
  too early by at most that chunk's length when both were released in a burst, too
  late by what the ring dropped in between.
* A device's restart backoff is never reset after a good capture, and its Err is
  never set by one that failed after the probe.
* DESIGN.md:402-403 gives another shutdown order than run.go:251-257, and
  `source.go:62` calls Offset that of the first sample where both sources set the
  end of the frame.
* The mock engines block on the transcripts channel until ctx is done (mock2.go:98),
  where stt.go:54-55 asks an engine to drop audio rather than stall capture.

## 7. Plan

Written, most important first: gate, engine with its abstract pipe, index, hub,
writer and session, sources and capture, viewer, statistics and terminal, mock
engines; proofs of the safety of all.

What could follow: a clock for KeepAlive's ticker (deepgram.go:380) and for the
pacing of a replay (absolute deadlines, file.go:126-134).

## 8. Not modelled, and why

* The engine registry and contract (`stt/stt.go`): types and a table filled by
  init functions; the contract is what the engines' properties check.
* `cmd/livecaption`, `cli.go`, `commands.go`: sequential flag handling; the
  signal context is the Interrupt of `Session` and `Capture`.
* In `ui`: colours, glyphs and the wording of lines; in the metrics: the plain
  totals and the texts of the last errors, from which nothing is decided.
* Static pages, `/api/stats`, `/api/config`, admin page: reads of one snapshot, which
  `Metrics` models load by load.
* In `ffmpeg.go`: the draining of stderr and the count of xruns (text of another
  program), the clock format; what else a Close does to a process that does not
  heed its signal.
* `devices.go`, `level.go`: parsing other programs' output, and one logarithm.
* KeepAlive's period (deepgram.go:380) and pacing: they need a clock.
* The viewer's colours (other than stale), opacity, indicator, wake lock, and a
  change of maxRows while the page runs (index.html:519-524, 616-621).
* The message of a forced exit (second Ctrl-C), which bypasses the terminal's mutex.
