------------------------------- MODULE Session -------------------------------
(***************************************************************************)
(* One session of internal/cli/run.go: the goroutines between the source   *)
(* and the transcript, and the order in which run and shutdown take them   *)
(* down.  The transcript writer is TranscriptWriter; of the engine there   *)
(* is what the session meets of it: connections, the readers that send     *)
(* into `transcripts`, and the ways Run ends (DeepgramEngine has the rest).*)
(*                                                                         *)
(* A transcript is a settled segment, numbered as the recognizer sent it;  *)
(* `last` marks a SpeechFinal.  A send on a closed channel panics, which   *)
(* ends the process.                                                       *)
(***************************************************************************)
EXTENDS TranscriptWriter, FiniteSets

CONSTANTS ChannelCap,   \* capacity of the transcripts channel
          Conns,        \* bound: connections, numbered in order
          MaxResults,   \* bound: transcripts the recognizer sends
          MaxFrames     \* bound: frames the source delivers

ASSUME SessionAssumption ==
  /\ ChannelCap \in Nat \ {0}
  /\ Conns \in Nat \ {0} /\ MaxResults \in Nat /\ MaxFrames \in Nat

VARIABLES
  main,                 \* run and shutdown
  ctx, source, frames,  \* cancelled?; the source goroutine; frames delivered
  wrap, tapClosed,      \* Monitor.Wrap's goroutine; is Monitor.ch closed?
  engine, conn,         \* the engine's Run, and its current connection
  pausing, faults,      \* finish for a pause?; history: what went wrong
  reader, hand,         \* readLoop of each connection, the transcript it holds
  cut,                  \* connections whose connCtx is cancelled
  received, accepted,   \* history: segments read, and put into the channel
  trans, transClosed,   \* the transcripts channel
  hub, pending,         \* the hub goroutine; the segments of the open line
  panicked              \* has the process died of a panic?

srcVars == <<ctx, source, frames, wrap, tapClosed>>
engVars == <<engine, conn, pausing, faults, reader, hand, cut, received>>
hubVars == <<hub, pending>>
vars == <<main, srcVars, engVars, accepted, trans, transClosed, hubVars,
          writerVars, panicked>>

Alive == ~panicked
NoHand == <<>>

Init ==
  /\ main = "start"
  /\ ctx = FALSE /\ source = "off" /\ frames = 0
  /\ wrap = "off" /\ tapClosed = FALSE
  /\ engine = "off" /\ conn = 0 /\ pausing = FALSE /\ faults = {}
  /\ reader = [c \in 1..Conns |-> "off"] /\ hand = [c \in 1..Conns |-> NoHand]
  /\ cut = {} /\ received = 0 /\ accepted = <<>>
  /\ trans = <<>> /\ transClosed = FALSE
  /\ hub = "off" /\ pending = <<>>
  /\ WriterInit
  /\ panicked = FALSE

-----------------------------------------------------------------------------
(* The source and the monitor's tap.                                       *)

SourceUnchanged == UNCHANGED <<main, ctx, engVars, accepted, trans, transClosed,
                               hubVars, writerVars>>

\* out <- frame, to the pump or to Wrap.
SourceSends ==
  /\ Alive /\ source = "playing" /\ frames < MaxFrames
  /\ IF wrap = "off" THEN UNCHANGED wrap ELSE wrap = "recv" /\ wrap' = "tap"
  /\ frames' = frames + 1
  /\ UNCHANGED <<source, tapClosed, panicked>>
  /\ SourceUnchanged

\* The file ends, ctx is done, or Close has killed ffmpeg: close(out).
SourceEnds ==
  /\ Alive /\ source = "playing"
  /\ source' = "ended"
  /\ UNCHANGED <<frames, wrap, tapClosed, panicked>>
  /\ SourceUnchanged

\* m.Tap(f.PCM), a non-blocking send and a panic once the channel is closed;
\* then out <- f, which the engine's pump takes while it runs, or ctx.Done().
Tap ==
  /\ Alive /\ wrap = "tap"
  /\ IF tapClosed THEN panicked' = TRUE /\ UNCHANGED wrap
     ELSE wrap' \in {"recv"} \cup {d \in {"done"} : ctx} /\ UNCHANGED panicked
  /\ UNCHANGED <<source, frames, tapClosed>>
  /\ SourceUnchanged

WrapEnds ==
  /\ Alive /\ wrap = "recv" /\ source = "ended"
  /\ wrap' = "done"
  /\ UNCHANGED <<source, frames, tapClosed, panicked>>
  /\ SourceUnchanged

\* The frames the engine reads are closed and drained.
FramesOver == IF wrap = "off" THEN source = "ended" ELSE wrap = "done"

-----------------------------------------------------------------------------
(* The engine, as the session meets it.                                    *)

EngineUnchanged == UNCHANGED <<main, srcVars, accepted, trans, transClosed,
                               hubVars, writerVars, panicked>>

\* The first dial is refused for its key: Run returns an error.
EngineRefused ==
  /\ Alive /\ engine = "dial" /\ conn = 0
  /\ engine' = "failed"
  /\ UNCHANGED <<conn, pausing, faults, reader, hand, cut, received>>
  /\ EngineUnchanged

EngineConnects ==
  /\ Alive /\ engine = "dial" /\ conn < Conns
  /\ engine' = "up" /\ conn' = conn + 1
  /\ reader' = [reader EXCEPT ![conn'] = "reading"]
  /\ UNCHANGED <<pausing, faults, hand, cut, received>>
  /\ EngineUnchanged

\* The writer returned: a pause, or the end of the audio or of ctx.
EngineDrains(pause) ==
  /\ Alive /\ engine = "up"
  /\ pause \/ ctx \/ FramesOver
  /\ engine' = "drain" /\ pausing' = pause
  /\ UNCHANGED <<conn, faults, reader, hand, cut, received>>
  /\ EngineUnchanged

\* finish is back, and with it the deferred cancelConn: the reader has ended
\* or drainTimeout has passed.
DrainEnds ==
  /\ Alive /\ engine = "drain"
  /\ engine' = IF pausing /\ ~ctx THEN "dial" ELSE "done"
  /\ faults' = faults \cup IF reader[conn] = "done" THEN {} ELSE {"timeout"}
  /\ cut' = cut \cup {conn} /\ pausing' = FALSE
  /\ UNCHANGED <<conn, reader, hand, received>>
  /\ EngineUnchanged

\* conn.Write waits for a link that takes nothing; ctx does not end the wait.
WriteStalls(from, to) ==
  /\ Alive /\ engine = from /\ engine' = to
  /\ UNCHANGED <<conn, pausing, faults, reader, hand, cut, received>>
  /\ EngineUnchanged

\* The link is lost: both goroutines are joined before Run dials again.
LinkLost ==
  /\ Alive /\ engine \in {"up", "stalled"}
  /\ cut' = cut \cup {conn}
  /\ engine' = "join"
  /\ faults' = faults \cup {"link"}
  /\ UNCHANGED <<conn, pausing, reader, hand, received>>
  /\ EngineUnchanged

\* Faulty variant: Run dials again while the reader may still hold a result.
ReaderNotJoined ==
  /\ Alive /\ engine = "join"
  /\ engine' = IF ctx THEN "done" ELSE "dial"
  /\ UNCHANGED <<conn, pausing, faults, reader, hand, cut, received>>
  /\ EngineUnchanged

ReaderJoined ==
  /\ Alive /\ engine = "join" /\ reader[conn] = "done"
  /\ engine' = IF ctx THEN "done" ELSE "dial"
  /\ UNCHANGED <<conn, pausing, faults, reader, hand, cut, received>>
  /\ EngineUnchanged

\* ctx is done, or the audio is exhausted, while Run dials, backs off or
\* waits in a pause.
EngineStops ==
  /\ Alive /\ engine = "dial"
  /\ ctx \/ FramesOver
  /\ engine' = "done"
  /\ UNCHANGED <<conn, pausing, faults, reader, hand, cut, received>>
  /\ EngineUnchanged

\* conn.Read returns a message and it is decoded.
ReaderReceives(c, last) ==
  /\ Alive /\ reader[c] = "reading" /\ c \notin cut /\ received < MaxResults
  /\ received' = received + 1
  /\ reader' = [reader EXCEPT ![c] = "sending"]
  /\ hand' = [hand EXCEPT ![c] = [segment |-> received', last |-> last]]
  /\ UNCHANGED <<engine, conn, pausing, faults, cut>>
  /\ EngineUnchanged

ReaderUnchanged == UNCHANGED <<main, srcVars, engine, conn, pausing, faults,
                               cut, received, transClosed, hubVars, writerVars>>

\* case out <- t
ReaderSends(c) ==
  /\ Alive /\ reader[c] = "sending"
  /\ IF transClosed
     THEN panicked' = TRUE /\ UNCHANGED <<reader, hand, trans, accepted>>
     ELSE /\ Len(trans) < ChannelCap
          /\ trans' = Append(trans, hand[c])
          /\ accepted' = Append(accepted, hand[c].segment)
          /\ reader' = [reader EXCEPT ![c] = "reading"]
          /\ hand' = [hand EXCEPT ![c] = NoHand]
          /\ UNCHANGED panicked
  /\ ReaderUnchanged

\* The server closes after CloseStream, the link is lost, or connCtx is done:
\* what the reader holds is dropped with it.
ReaderStops(c) ==
  /\ Alive
  /\ \/ reader[c] = "reading" /\ (c \in cut \/ engine = "drain")
     \/ reader[c] = "sending" /\ c \in cut
  /\ reader' = [reader EXCEPT ![c] = "done"]
  /\ hand' = [hand EXCEPT ![c] = NoHand]
  /\ UNCHANGED <<trans, accepted, panicked>>
  /\ ReaderUnchanged

-----------------------------------------------------------------------------
(* The hub goroutine: for t := range transcripts { s.hub.Publish(t) }.     *)

HubUnchanged == UNCHANGED <<main, srcVars, engVars, accepted, transClosed, panicked>>

\* A segment is committed; the last of an utterance closes the line.
HubPublishes ==
  /\ Alive /\ hub = "recv" /\ trans # <<>>
  /\ trans' = Tail(trans)
  /\ pending' = Append(pending, Head(trans).segment)
  /\ hub' = IF Head(trans).last THEN "line" ELSE "recv"
  /\ UNCHANGED writerVars
  /\ HubUnchanged

\* Faulty variant: the open line is not begun anew.
HubKeepsLine ==
  /\ Alive /\ hub = "line"
  /\ Write(pending)
  /\ hub' = "recv"
  /\ UNCHANGED <<trans, pending>>
  /\ HubUnchanged

\* hub.OnFinal, on the publishing goroutine.
HubWritesLine ==
  /\ Alive /\ hub = "line"
  /\ Write(pending)
  /\ pending' = <<>>
  /\ hub' = "recv"
  /\ UNCHANGED trans
  /\ HubUnchanged

HubEnds ==
  /\ Alive /\ hub = "recv" /\ trans = <<>> /\ transClosed
  /\ hub' = "done"
  /\ UNCHANGED <<pending, trans, writerVars>>
  /\ HubUnchanged

\* The ticker of the writer.
WriterTicks ==
  /\ Alive /\ main # "start" /\ Tick
  /\ UNCHANGED <<main, srcVars, engVars, accepted, trans, transClosed, hubVars, panicked>>

-----------------------------------------------------------------------------
(* run, then shutdown.                                                     *)

MainSteps(from, to) == Alive /\ main = from /\ main' = to

\* Listen, monitor and source, engine and hub goroutine; or an early error.
Start ==
  \/ /\ MainSteps("start", "engine")
     /\ source' = "playing" /\ wrap' \in {"off", "recv"}
     /\ engine' = "dial" /\ hub' = "recv"
     /\ UNCHANGED <<ctx, frames, tapClosed, conn, pausing, faults, reader, hand,
                    cut, received, accepted, trans, transClosed, pending,
                    writerVars, panicked>>
  \/ /\ MainSteps("start", "closeMonitor")
     /\ UNCHANGED <<srcVars, engVars, accepted, trans, transClosed, hubVars,
                    writerVars, panicked>>

MainUnchanged == UNCHANGED <<ctx, frames, wrap, engVars, accepted, trans, panicked>>

\* Faulty variants: the channel is closed when the source ends, or not at all.
CloseOnSourceEnd ==
  /\ MainSteps("engine", "hub")
  /\ FramesOver
  /\ transClosed' = TRUE
  /\ UNCHANGED <<source, tapClosed, hubVars, writerVars>>
  /\ MainUnchanged
LeaveOpen ==
  /\ MainSteps("engine", "hub")
  /\ engine \in {"done", "failed"}
  /\ UNCHANGED <<transClosed, source, tapClosed, hubVars, writerVars>>
  /\ MainUnchanged

\* <-engineDone; close(transcripts)
CloseTranscripts ==
  /\ MainSteps("engine", "hub")
  /\ engine \in {"done", "failed"}
  /\ transClosed' = TRUE
  /\ UNCHANGED <<source, tapClosed, hubVars, writerVars>>
  /\ MainUnchanged

\* Faulty variant: the hub goroutine is not waited for.
HubNotAwaited ==
  /\ MainSteps("hub", "flush")
  /\ UNCHANGED <<source, tapClosed, transClosed, hubVars, writerVars>>
  /\ MainUnchanged

\* <-hubDone
HubAwaited ==
  /\ MainSteps("hub", "flush") /\ hub = "done"
  /\ UNCHANGED <<source, tapClosed, transClosed, hubVars, writerVars>>
  /\ MainUnchanged

\* s.hub.Flush()
Flush ==
  /\ MainSteps("flush", "closeMonitor")
  /\ IF pending = <<>> THEN UNCHANGED writerVars ELSE Write(pending)
  /\ pending' = <<>>
  /\ UNCHANGED <<source, tapClosed, transClosed, hub>>
  /\ MainUnchanged

\* s.monitor.Close(): the tap's channel first, then the playback ffmpeg.
CloseMonitor ==
  /\ MainSteps("closeMonitor", "awaitMonitor")
  /\ tapClosed' = TRUE
  /\ UNCHANGED <<source, transClosed, hubVars, writerVars>>
  /\ MainUnchanged

\* proc.Close interrupts ffmpeg and is in cmd.Wait, but ffmpeg does not heed
\* it: a playback that is stuck in the sound card, a capture in its device.
FFmpegHangs ==
  /\ \/ MainSteps("awaitMonitor", "monitorHangs") /\ (wrap # "off" \/ engine = "off")
     \/ MainSteps("closeSource", "sourceHangs") /\ source = "playing"
  /\ UNCHANGED <<source, tapClosed, transClosed, hubVars, writerVars>>
  /\ MainUnchanged

\* cmd.Wait is back.  Once ctx is done, WaitDelay bounds it; before, nothing.
MonitorAwaited ==
  /\ MainSteps("awaitMonitor", "closeSource") \/ MainSteps("monitorHangs", "closeSource")
  /\ UNCHANGED <<source, tapClosed, transClosed, hubVars, writerVars>>
  /\ MainUnchanged

\* s.src.Close() ends its ffmpeg, and SourceEnds may follow; without ctx a
\* device or --loop starts the next one.  s.server.Shutdown(shutCtx) is next.
CloseSource ==
  /\ MainSteps("closeSource", "closeWriter") \/ MainSteps("sourceHangs", "closeWriter")
  /\ UNCHANGED <<source, tapClosed, transClosed, hubVars, writerVars>>
  /\ MainUnchanged

\* s.writer.Close(), StateClosed and the summary.
CloseWriter ==
  /\ MainSteps("closeWriter", "exited")
  /\ Close
  /\ UNCHANGED <<source, tapClosed, transClosed, hubVars>>
  /\ MainUnchanged

Main == \/ Start \/ CloseTranscripts \/ HubAwaited \/ Flush
        \/ CloseMonitor \/ MonitorAwaited \/ CloseSource \/ CloseWriter

\* Where shutdown waits for an ffmpeg that nothing bounds.
WaitsForFFmpeg == main \in {"monitorHangs", "sourceHangs"} /\ ~ctx

\* The first Ctrl-C cancels ctx.  The second one ends the process where it
\* is: what the files then hold is what they hold in that state.
Interrupt ==
  /\ Alive /\ main # "exited" /\ ~ctx
  /\ ctx' = TRUE
  /\ UNCHANGED <<main, source, frames, wrap, tapClosed, engVars, accepted, trans,
                 transClosed, hubVars, writerVars, panicked>>

Over == main = "exited" \/ ~Alive
Finished == Over /\ UNCHANGED vars

Source  == SourceSends \/ SourceEnds
Wrap    == Tap \/ WrapEnds
Engine  == \/ EngineRefused \/ EngineConnects
           \/ (\E pause \in BOOLEAN : EngineDrains(pause))
           \/ WriteStalls("up", "stalled") \/ WriteStalls("stalled", "up")
           \/ DrainEnds \/ LinkLost \/ ReaderJoined \/ EngineStops
Reader(c) == \/ \E last \in BOOLEAN : ReaderReceives(c, last)
             \/ ReaderSends(c) \/ ReaderStops(c)
Hub     == HubPublishes \/ HubWritesLine \/ HubEnds

Next == \/ Main \/ FFmpegHangs \/ Source \/ Wrap \/ Engine \/ Hub \/ WriterTicks
        \/ (\E c \in 1..Conns : Reader(c)) \/ Interrupt \/ Finished

Spec == Init /\ [][Next]_vars

(* As long as some goroutine can take a step, one does, but a write that   *)
(* the link does not take and an ffmpeg that does not heed its interrupt   *)
(* may wait for ever.  The engine comes to an end once ctx is done:        *)
(* DeepgramEngine's CancelReturns, with the same exception.                *)
Goroutines ==
  \/ ~WaitsForFFmpeg /\ Main
  \/ Hub \/ Wrap
  \/ ctx /\ SourceEnds
  \/ ctx /\ engine # "stalled" /\ Engine
  \/ \E c \in 1..Conns : ReaderStops(c)

FairSpec == Spec /\ WF_vars(Goroutines)

-----------------------------------------------------------------------------
\* "shuts every stage down in order so nothing in flight is lost": after an
\* exit with no writer error reported the transcript's lines are the
\* segments the hub was sent, each line counted in the metrics, and those
\* segments are all that were received unless a link was lost or a drain ran
\* out (run, shutdown, run.go:162-227).
NothingInFlightIsLost ==
  main = "exited" /\ ~transErr /\ ~closeErr =>
    /\ FlattenSeq(lines) = accepted
    /\ linesWritten = Len(lines)
    /\ faults = {} => accepted = [i \in 1..received |-> i]

Log == INSTANCE TranscriptLog WITH
         Segment <- 1..MaxResults, Text <- Rendered,
         heard <- accepted, txt <- txt.disk, jsonl <- jsonl.disk,
         outcome <- IF main # "exited" THEN "recording"
                    ELSE IF transErr \/ closeErr THEN "suspect" ELSE "complete"

\* Reader, channel, hub and writer are one log: lines of the segments heard, in
\* order and once each; files that only grow ("a crash keeps everything already
\* written", writer.go:24); a quiet exit means a complete transcript, and after
\* the exit nothing changes any more (run, shutdown, Writer).
RefinesTranscriptLog == Log!Spec

\* Reconnecting never reorders what was recognized: the last reader has been
\* joined before the next connection's results come (runConnection's joins).
SegmentsInOrder ==
  "timeout" \notin faults =>
    \A i, j \in DOMAIN accepted : i < j => accepted[i] < accepted[j]

\* A session that ends with its file cannot die of a send on a closed
\* channel: that takes a drain that ran out, a Ctrl-C or a rejected key.
EndOfFileIsClean ==
  panicked => "timeout" \in faults \/ ctx \/ engine = "failed"

\* Once the engine has returned, or Ctrl-C was pressed, the session comes to
\* its summary: no stage waits for one that waits for it.  Two waits can hold it
\* up, and only these: the engine's for a write on a stalled link, which the
\* first Ctrl-C does not interrupt (deepgram.go:358), and shutdown's for an
\* ffmpeg that does not heed its interrupt, which nothing bounds before Ctrl-C
\* (monitor.go:161-166, ffmpeg.go:126-140).
ShutdownCompletes ==
  ctx \/ engine \in {"done", "failed"} ~> Over \/ engine = "stalled" \/ WaitsForFFmpeg
=============================================================================
