------------------------------- MODULE Capture -------------------------------
(***************************************************************************)
(* An audio source, the speaker monitor of internal/audio/monitor.go that  *)
(* may stand behind it, and the pump of the engine that takes the frames.  *)
(*                                                                         *)
(* A frame goes from hand to hand over unbuffered channels: source, Wrap,  *)
(* pump.  Wrap offers each one to a bounded channel that the playback      *)
(* goroutine writes to a second ffmpeg; the speaker behind it may stall    *)
(* for ever or break.                                                      *)
(***************************************************************************)
EXTENDS AudioSource, SequencesExt

CONSTANTS TapCap   \* capacity of Monitor.ch

ASSUME CaptureAssumption == TapCap \in Nat \ {0}

VARIABLES
  engine,              \* is the engine's pump receiving?
  wrap, wrapHand,      \* Monitor.Wrap's goroutine and the frame it forwards
  queue,               \* Monitor.ch
  player, playing,     \* the playback goroutine and the frame it took
  tapped, dropped,     \* frames offered; monitor_frames_dropped_total
  heard, delivered     \* history: frames played, and received by the pump

monitorVars == <<wrap, wrapHand, queue, player, playing, tapped, dropped, heard>>
vars == <<sourceVars, monitorVars, engine, delivered>>

Init ==
  /\ SourceInit
  /\ engine = "up" /\ delivered = <<>>
  /\ wrap \in {"off"} \cup {w \in {"recv"} : kind # "device"}
  /\ player = IF wrap = "off" THEN "off" ELSE "recv"
  /\ wrapHand = Nothing /\ queue = <<>> /\ playing = Nothing
  /\ tapped = 0 /\ dropped = 0 /\ heard = <<>>

\* Ctrl-C.
Interrupt ==
  /\ ~ctx /\ ctx' = TRUE
  /\ UNCHANGED <<kind, src, life, procs, pos, eof, offset, hand, err, died,
                 restarts, produced, monitorVars, engine, delivered>>

\* The pump's case <-ctx.Done().
PumpStops ==
  /\ engine = "up" /\ ctx
  /\ engine' = "down"
  /\ UNCHANGED <<sourceVars, monitorVars, delivered>>

SourceAlone == SourceStep /\ UNCHANGED <<monitorVars, engine, delivered>>

\* out <- frame, received by the pump.
Delivers ==
  /\ wrap = "off" /\ engine = "up"
  /\ Sends
  /\ delivered' = delivered \o hand
  /\ UNCHANGED <<monitorVars, engine>>

\* out <- frame, received by Wrap.
EntersWrap ==
  /\ wrap = "recv"
  /\ Sends
  /\ wrap' = "tap" /\ wrapHand' = hand
  /\ UNCHANGED <<queue, player, playing, tapped, dropped, heard, engine, delivered>>

\* Wrap's range over a closed channel.
WrapEnds ==
  /\ wrap = "recv" /\ OutClosed
  /\ wrap' = "done"
  /\ UNCHANGED <<sourceVars, wrapHand, queue, player, playing, tapped, dropped,
                 heard, engine, delivered>>

\* Faulty variants: the tap waits for the speaker; a frame the speaker has no
\* room for is not counted, or not forwarded either.
TapWaits ==
  /\ wrap = "tap" /\ Len(queue) < TapCap
  /\ wrap' = "send" /\ tapped' = tapped + 1
  /\ queue' = queue \o wrapHand
  /\ UNCHANGED <<sourceVars, wrapHand, player, playing, dropped, heard, engine, delivered>>
TapUncounted ==
  /\ wrap = "tap"
  /\ wrap' = "send" /\ tapped' = tapped + 1
  /\ IF Len(queue) < TapCap THEN queue' = queue \o wrapHand ELSE UNCHANGED queue
  /\ UNCHANGED <<sourceVars, wrapHand, player, playing, dropped, heard, engine, delivered>>
TapSkips ==
  /\ wrap = "tap"
  /\ tapped' = tapped + 1
  /\ IF Len(queue) < TapCap
     THEN queue' = queue \o wrapHand /\ wrap' = "send" /\ UNCHANGED <<wrapHand, dropped>>
     ELSE dropped' = dropped + 1 /\ wrap' = "recv" /\ wrapHand' = Nothing /\ UNCHANGED queue
  /\ UNCHANGED <<sourceVars, player, playing, heard, engine, delivered>>

\* m.Tap: a non-blocking send.
Tap ==
  /\ wrap = "tap"
  /\ wrap' = "send" /\ tapped' = tapped + 1
  /\ IF Len(queue) < TapCap
     THEN queue' = queue \o wrapHand /\ UNCHANGED dropped
     ELSE dropped' = dropped + 1 /\ UNCHANGED queue
  /\ UNCHANGED <<sourceVars, wrapHand, player, playing, heard, engine, delivered>>

\* Wrap's out <- f, or ctx.Done().
Forwards ==
  /\ wrap = "send" /\ wrapHand' = Nothing
  /\ \/ /\ engine = "up" /\ wrap' = "recv"
        /\ delivered' = delivered \o wrapHand
     \/ ctx /\ wrap' = "done" /\ UNCHANGED delivered
  /\ UNCHANGED <<sourceVars, queue, player, playing, tapped, dropped, heard, engine>>

\* The playback goroutine: take a frame, write it to ffmpeg; a failed write
\* or ctx ends it.
PlayerTakes ==
  /\ player = "recv"
  /\ \/ queue # <<>> /\ player' = "write" /\ playing' = <<Head(queue)>> /\ queue' = Tail(queue)
     \/ ctx /\ player' = "gone" /\ UNCHANGED <<playing, queue>>
  /\ UNCHANGED <<sourceVars, wrap, wrapHand, tapped, dropped, heard, engine, delivered>>

Plays ==
  /\ player = "write"
  /\ \/ player' = "recv" /\ playing' = Nothing /\ heard' = heard \o playing
     \/ player' = "gone" /\ UNCHANGED <<playing, heard>>
  /\ UNCHANGED <<sourceVars, wrap, wrapHand, queue, tapped, dropped, engine, delivered>>

FramesClosed == IF wrap = "off" THEN OutClosed ELSE wrap = "done"
Finished == FramesClosed /\ UNCHANGED vars

Next ==
  \/ Interrupt \/ PumpStops \/ SourceAlone \/ Delivers \/ EntersWrap
  \/ WrapEnds \/ Tap \/ Forwards \/ PlayerTakes \/ Plays \/ Finished

Spec == Init /\ [][Next]_vars

(* The source, Wrap and the pump go on as long as one of them can; ffmpeg  *)
(* reads its file to the end, and ends when ctx is cancelled.  Nothing is  *)
(* assumed of the playback: the speaker may stall for ever.                *)
Progress ==
  \/ SourceAlone \/ Delivers \/ EntersWrap \/ WrapEnds \/ Tap \/ Forwards \/ PumpStops

FairSpec == Spec /\ WF_vars(Progress)

-----------------------------------------------------------------------------
InFlight == wrapHand \o hand

\* What ffmpeg decoded reaches the engine frame by frame and in order: until
\* Ctrl-C nothing is missing but what is in a hand (playOnce, captureOnce,
\* Wrap), whatever the speaker does.
NothingSkipped ==
  IF ctx THEN SubSeq(produced, 1, Len(delivered)) = delivered
         ELSE produced = delivered \o InFlight

\* "what you hear is bit-identical to what the recognizer receives": every
\* frame offered to the monitor is heard, waits in order, was lost with the
\* speaker, or is in the dropped count.
TapAccounted ==
  LET kept == heard \o playing \o queue
  IN  /\ Len(kept) + dropped = tapped
      /\ \A i, j \in DOMAIN kept : i < j => kept[i].n < kept[j].n
      /\ \A i \in DOMAIN kept : kept[i] = produced[kept[i].n]

\* A replay that ends by itself and reports no error has delivered the whole
\* file, its last short chunk included, unless the decoder died on the way.
CleanEndIsWhole ==
  kind = "file" /\ FramesClosed /\ ~ctx /\ ~err /\ ~died =>
    \/ Media = 0
    \/ delivered # <<>> /\ Last(delivered).offset = Media

\* A replay ends and a cancelled source closes its channel, though the
\* speaker may never take another frame.
CaptureEnds == (ctx \/ kind = "file") ~> FramesClosed
=============================================================================
