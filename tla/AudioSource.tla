----------------------------- MODULE AudioSource -----------------------------
(***************************************************************************)
(* The two audio sources of internal/audio, FileSource (file.go, with and  *)
(* without --loop) and DeviceSource (device.go), and the ffmpeg process    *)
(* each reads from.  Media is counted in half chunks, so that a read cut   *)
(* short by the end of the stream is told from a full one; pacing and      *)
(* backoff are waits without a length.                                     *)
(*                                                                         *)
(* A process life is a pass over the file or one capture of the device;    *)
(* life 0 is the device's probe.  Who receives a frame is the composing    *)
(* module's business: Sends is the source's half of the rendezvous.        *)
(***************************************************************************)
EXTENDS Integers, Sequences, FiniteSets

CONSTANTS Kinds,   \* subset of {"file", "loop", "device"}
          Media,   \* half chunks in the file, and at most in one capture
          Lives    \* bound: passes or captures

ASSUME SourceAssumption ==
  /\ Kinds \subseteq {"file", "loop", "device"}
  /\ Media \in Nat /\ Lives \in Nat \ {0}

VARIABLES
  kind, ctx,            \* which source; is ctx cancelled?
  src,                  \* where the source's goroutine is
  life, procs,          \* lives begun; the processes not yet waited for
  pos, eof,             \* half chunks read in this life; did it end?
  offset, hand,         \* media offset; the frame in hand, or nothing
  err, died,            \* Err(): was a failure recorded?; did ffmpeg die early?
  restarts,             \* ffmpeg_restarts_total
  produced              \* history: frames read from ffmpeg

sourceVars == <<kind, ctx, src, life, procs, pos, eof, offset, hand, err,
                died, restarts, produced>>

Chunk == 2
Nothing == <<>>

SourceInit ==
  /\ kind \in Kinds /\ ctx = FALSE
  /\ src = IF kind = "device" THEN "start" ELSE "launch"
  /\ life = 0 /\ procs = {} /\ pos = 0 /\ eof = FALSE
  /\ offset = 0 /\ hand = Nothing
  /\ err = FALSE /\ died = FALSE /\ restarts = 0 /\ produced = <<>>

-----------------------------------------------------------------------------
(* DeviceSource.Start's probe, on the goroutine of session.run.            *)

Probes ==
  /\ src = "start"
  /\ src' = "probe" /\ procs' = {0}
  /\ UNCHANGED <<kind, ctx, life, pos, eof, offset, hand, err, died, restarts, produced>>

\* Faulty variant: the probe's process is left running.
ProbeLeft ==
  /\ src = "probe"
  /\ src' \in {"launch", "failed"}
  /\ UNCHANGED <<kind, ctx, life, procs, pos, eof, offset, hand, err, died,
                 restarts, produced>>

\* One full read, or an end, five seconds or ctx; then the process is closed
\* and what it read is thrown away.
ProbeEnds ==
  /\ src = "probe"
  /\ src' \in {"launch", "failed"}
  /\ procs' = {}
  /\ UNCHANGED <<kind, ctx, life, pos, eof, offset, hand, err, died, restarts, produced>>

-----------------------------------------------------------------------------
(* The source's goroutine.                                                 *)

Fixed == UNCHANGED <<kind, ctx>>

\* playOnce or captureOnce is back: another pass, a restart, or close(out).
Back(result) ==
  IF kind = "device"
  THEN /\ src' = IF ctx THEN "done" ELSE "backoff"
       /\ restarts' = IF ctx THEN restarts ELSE restarts + 1
       /\ UNCHANGED err
  ELSE /\ src' = IF result = "nil" /\ kind = "loop" /\ ~ctx THEN "launch" ELSE "done"
       /\ err' = (err \/ result = "error")
       /\ UNCHANGED restarts

\* It returns through the deferred p.Close, which waits for the process.
Returns(result) == procs' = procs \ {life} /\ Back(result)

\* Faulty variant: the device's offset begins again with every process.
LaunchesAtZero ==
  /\ src = "launch" /\ life < Lives /\ ~ctx
  /\ src' = "read" /\ life' = life + 1 /\ procs' = procs \cup {life'}
  /\ pos' = 0 /\ eof' = FALSE
  /\ offset' = 0
  /\ Fixed /\ UNCHANGED <<hand, err, died, restarts, produced>>

\* startFFmpeg.  Every process begins its media at zero; the offset of a file
\* begins with it, that of a device goes on.
Launches ==
  /\ src = "launch" /\ life < Lives /\ ~ctx
  /\ src' = "read" /\ life' = life + 1 /\ procs' = procs \cup {life'}
  /\ pos' = 0 /\ eof' = FALSE
  /\ offset' = IF kind = "device" THEN offset ELSE 0
  /\ Fixed /\ UNCHANGED <<hand, err, died, restarts, produced>>

\* startFFmpeg fails, always once ctx is cancelled; or the device's loop sees
\* the cancellation.
LaunchFails ==
  /\ src = "launch" /\ (ctx \/ restarts < Lives)
  /\ Back(IF ctx THEN "cancel" ELSE "error")
  /\ Fixed /\ UNCHANGED <<life, procs, pos, eof, offset, hand, died, produced>>

Frame(size) == [n |-> Len(produced) + 1, life |-> life, size |-> size,
                offset |-> offset + size]

\* What was read goes on: to its deadline in a file, straight out of a device.
Takes(size) ==
  /\ pos' = pos + size /\ offset' = offset + size
  /\ hand' = <<Frame(size)>> /\ produced' = Append(produced, Frame(size))
  /\ src' = IF kind = "device" THEN "send" ELSE "due"
  /\ UNCHANGED <<procs, err, restarts>>

\* io.ReadFull fills the buffer.
ReadsChunk ==
  /\ src = "read" /\ pos + Chunk <= Media
  /\ Takes(Chunk)
  /\ Fixed /\ UNCHANGED <<life, eof, died>>

\* Faulty variant: what was read before the end of the stream is dropped.
TailLost(size) == Returns("nil") /\ UNCHANGED <<pos, offset, hand, produced>>

\* io.EOF, or io.ErrUnexpectedEOF with what was left.
AtEnd(size) ==
  IF size = 0 THEN Returns("nil") /\ UNCHANGED <<pos, offset, hand, produced>>
  ELSE Takes(size)

StreamEnds(size) ==
  /\ src = "read" /\ size < Chunk /\ pos + size <= Media
  /\ eof' = TRUE
  /\ died' = (died \/ kind = "device" \/ pos + size < Media)
  /\ AtEnd(size)
  /\ Fixed /\ UNCHANGED life

\* Any other error of the pipe.
ReadBreaks ==
  /\ src = "read" /\ restarts < Lives
  /\ Returns(IF ctx THEN "cancel" ELSE "error")
  /\ Fixed /\ UNCHANGED <<life, pos, eof, offset, hand, died, produced>>

\* sleep(ctx, time.Until(due)) in a file.
Released ==
  /\ src = "due"
  /\ \/ src' = "send" /\ UNCHANGED <<procs, hand, err, restarts>>
     \/ ctx /\ Returns("cancel") /\ hand' = Nothing
  /\ Fixed /\ UNCHANGED <<life, pos, eof, offset, died, produced>>

\* case out <- frame
Sends ==
  /\ src = "send"
  /\ hand' = Nothing
  /\ IF eof THEN Returns("nil")
     ELSE src' = "read" /\ UNCHANGED <<procs, err, restarts>>
  /\ Fixed /\ UNCHANGED <<life, pos, eof, offset, died, produced>>

\* case <-ctx.Done()
SendCancelled ==
  /\ src = "send" /\ ctx
  /\ hand' = Nothing
  /\ Returns("cancel")
  /\ Fixed /\ UNCHANGED <<life, pos, eof, offset, died, produced>>

\* sleep(ctx, backoff) in a device.
Restarts ==
  /\ src = "backoff"
  /\ \/ src' = "launch"
     \/ ctx /\ src' = "done"
  /\ Fixed /\ UNCHANGED <<life, procs, pos, eof, offset, hand, err, died, restarts, produced>>

\* Everything the source does without a receiver.
SourceStep ==
  \/ Probes \/ ProbeEnds \/ Launches \/ LaunchFails \/ ReadsChunk
  \/ (\E size \in {0, 1} : StreamEnds(size))
  \/ ReadBreaks \/ Released \/ SendCancelled \/ Restarts

OutClosed == src \in {"done", "failed"}

-----------------------------------------------------------------------------
\* DeviceSource: media time goes on across restarts as if ffmpeg had never
\* ended; FileSource: it is the time in the pass (offset in both sources).
MediaTimeAdvances ==
  \A i \in DOMAIN produced :
    LET goesOn == i > 1 /\ (kind = "device" \/ produced[i - 1].life = produced[i].life)
    IN  produced[i].offset =
          produced[i].size + (IF goesOn THEN produced[i - 1].offset ELSE 0)

\* An ALSA device can be opened once: no process is started before the last
\* one was waited for, the probe's included (the deferred p.Close calls).
OneCapture == Cardinality(procs) <= 1
=============================================================================
