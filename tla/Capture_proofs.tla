----------------------------- MODULE Capture_proofs ----------------------------
(***************************************************************************)
(* Proofs about the audio sources and the monitor behind them: for a file  *)
(* or device of any length, any number of passes and restarts, and any tap *)
(* capacity, one ffmpeg at a time holds the device, media time goes on,    *)
(* what was decoded reaches the engine frame by frame, the speaker misses  *)
(* only what is counted, and a clean end is the end of the file.           *)
(***************************************************************************)
EXTENDS Capture, FiniteSetTheorems, SequenceTheorems, TLAPS

Frames == [n : Nat, life : Nat, size : 1..2, offset : Nat]

-----------------------------------------------------------------------------
(* The source: its process and its clock.                                  *)

Running == {"read", "due", "send"}   \* playOnce or captureOnce is in its loop

ProcsInv ==
  /\ src \in {"start", "probe", "launch", "backoff", "done", "failed"} \cup Running
  /\ procs = IF src \in Running THEN {life} ELSE IF src = "probe" THEN {0} ELSE {}

\* The offset is the last frame's, as far as the next frame continues it.
ClockInv ==
  /\ life \in Nat /\ offset \in Nat /\ produced \in Seq(Frames)
  /\ \A i \in DOMAIN produced : produced[i].life <= life
  /\ kind = "device" \/ src \in Running =>
       LET goesOn == produced # <<>> /\ (kind = "device" \/ produced[Len(produced)].life = life)
       IN  offset = IF goesOn THEN produced[Len(produced)].offset ELSE 0
  /\ MediaTimeAdvances

LEMMA ProcsInit == Init => ProcsInv
BY DEF Init, SourceInit, ProcsInv, Running

\* The ways back from playOnce and captureOnce.
LEMMA BackLeaves ==
  ASSUME NEW result, Back(result)
  PROVE  src' \in {"launch", "backoff", "done"}
BY DEF Back

LEMMA ReturnsCloses ==
  ASSUME ProcsInv, src \in Running, NEW result, Returns(result)
  PROVE  ProcsInv'
<1>1. src' \in {"launch", "backoff", "done"} /\ procs' = procs \ {life}
  BY BackLeaves DEF Returns
<1>2. procs' = {}
  BY <1>1 DEF ProcsInv
<1> QED
  BY <1>1, <1>2 DEF ProcsInv, Running

LEMMA SendsKeepsProcs == ProcsInv /\ Sends => ProcsInv'
<1> SUFFICES ASSUME ProcsInv, Sends PROVE ProcsInv'
  OBVIOUS
<1>1. CASE eof
  BY <1>1, ReturnsCloses DEF Sends, Running
<1>2. CASE ~eof
  BY <1>2 DEF Sends, ProcsInv, Running
<1> QED
  BY <1>1, <1>2

LEMMA SourceStepKeepsProcs == ProcsInv /\ SourceStep => ProcsInv'
<1> SUFFICES ASSUME ProcsInv, SourceStep PROVE ProcsInv'
  OBVIOUS
<1> USE DEF Running
<1>1. CASE Probes \/ ProbeEnds \/ Launches \/ Restarts
  BY <1>1 DEF Probes, ProbeEnds, Launches, Restarts, ProcsInv
<1>2. CASE LaunchFails
  BY <1>2, BackLeaves DEF LaunchFails, ProcsInv
<1>3. ASSUME NEW size, src = "read", Takes(size), life' = life PROVE ProcsInv'
  BY <1>3 DEF Takes, ProcsInv
<1>4. CASE ReadsChunk
  BY <1>3, <1>4 DEF ReadsChunk
<1>5. ASSUME NEW size \in {0, 1}, StreamEnds(size) PROVE ProcsInv'
  BY <1>3, <1>5, ReturnsCloses DEF StreamEnds, AtEnd
<1>6. CASE ReadBreaks \/ SendCancelled
  BY <1>6, ReturnsCloses DEF ReadBreaks, SendCancelled
<1>7. CASE Released
  <2>1. CASE src' = "send" /\ procs' = procs
    BY <1>7, <2>1 DEF Released, ProcsInv
  <2>2. CASE Returns("cancel")
    BY <1>7, <2>2, ReturnsCloses DEF Released
  <2> QED
    BY <1>7, <2>1, <2>2 DEF Released
<1> QED
  BY <1>1, <1>2, <1>4, <1>5, <1>6, <1>7 DEF SourceStep

LEMMA ProcsNext == ProcsInv /\ [Next]_vars => ProcsInv'
<1> SUFFICES ASSUME ProcsInv, [Next]_vars PROVE ProcsInv'
  OBVIOUS
<1>1. CASE SourceAlone
  BY <1>1, SourceStepKeepsProcs DEF SourceAlone
<1>2. CASE Delivers \/ EntersWrap
  BY <1>2, SendsKeepsProcs DEF Delivers, EntersWrap
<1>3. CASE Interrupt
  BY <1>3 DEF Interrupt, ProcsInv
<1>4. ASSUME UNCHANGED sourceVars PROVE ProcsInv'
  BY <1>4 DEF sourceVars, ProcsInv
<1> QED
  BY <1>1, <1>2, <1>3, <1>4
     DEF Next, PumpStops, WrapEnds, Tap, Forwards, PlayerTakes, Plays, Finished, vars

\* A device is never opened twice: every process, the probe's included, is
\* waited for before the next one starts (OneCapture).
THEOREM OneProcess == Spec => []OneCapture
<1>1. ProcsInv => OneCapture
  <2> SUFFICES ASSUME ProcsInv PROVE OneCapture
    OBVIOUS
  <2>1. procs = {} \/ \E x : procs = {x}
    BY DEF ProcsInv
  <2>2. Cardinality(procs) = 0 \/ Cardinality(procs) = 1
    BY <2>1, FS_EmptySet, FS_Singleton, Zenon
  <2> QED
    BY <2>2 DEF OneCapture
<1> QED
  BY <1>1, ProcsInit, ProcsNext, PTL DEF Spec

-----------------------------------------------------------------------------
LEMMA ClockInit == Init => ClockInv
BY DEF Init, SourceInit, ClockInv, MediaTimeAdvances, Frames, Running

\* A frame continues the clock of the one before it.
LEMMA TakesAdvances ==
  ASSUME ClockInv, src = "read", NEW size \in {1, 2}, Takes(size),
         life' = life, kind' = kind
  PROVE  ClockInv'
<1> DEFINE f == Frame(size)
           n == Len(produced)
<1>1. /\ produced \in Seq(Frames) /\ n \in Nat /\ life \in Nat /\ offset \in Nat
      /\ size \in 1..2 /\ size \in Nat
  BY DEF ClockInv
<1>2. /\ f \in Frames /\ f.life = life /\ f.size = size /\ f.offset = offset + size
  BY <1>1 DEF Frame, Frames
<1> HIDE DEF f
<1>3. produced' = Append(produced, f) /\ offset' = offset + size
  BY DEF Takes, f
<1>4. /\ produced' \in Seq(Frames) /\ Len(produced') = n + 1
      /\ produced'[n + 1] = f
      /\ \A i \in 1..n : produced'[i] = produced[i]
  BY <1>1, <1>2, <1>3
<1>5. /\ \A i \in DOMAIN produced' : produced'[i].life <= life'
      /\ offset' \in Nat
  BY <1>1, <1>2, <1>3, <1>4 DEF ClockInv
<1>6. offset' = produced'[Len(produced')].offset /\ produced'[Len(produced')].life = life'
      /\ produced' # <<>>
  BY <1>2, <1>3, <1>4
<1>7. MediaTimeAdvances'
  <2> SUFFICES ASSUME NEW i \in DOMAIN produced'
               PROVE  produced'[i].offset = produced'[i].size +
                        (IF i > 1 /\ (kind = "device" \/ produced'[i - 1].life = produced'[i].life)
                         THEN produced'[i - 1].offset ELSE 0)
    BY DEF MediaTimeAdvances
  <2>1. CASE i \in 1..n
    <3>1. produced'[i] = produced[i] /\ (i > 1 => produced'[i - 1] = produced[i - 1])
      BY <1>1, <1>4, <2>1
    <3> QED
      BY <1>1, <2>1, <3>1 DEF ClockInv, MediaTimeAdvances
  <2>2. CASE i = n + 1
    <3>1. offset = IF i > 1 /\ (kind = "device" \/ produced'[i - 1].life = life)
                   THEN produced'[i - 1].offset ELSE 0
      <4>1. CASE n = 0
        BY <1>1, <2>2, <4>1 DEF ClockInv, Running
      <4>2. CASE n > 0
        BY <1>1, <1>4, <2>2, <4>2 DEF ClockInv, Running
      <4> QED BY <1>1, <4>1, <4>2
    <3> QED
      BY <1>1, <1>2, <1>4, <2>2, <3>1
  <2> QED
    BY <1>1, <1>4, <2>1, <2>2
<1> QED
  BY <1>1, <1>4, <1>5, <1>6, <1>7 DEF ClockInv

\* A new process restarts the clock of a file and leaves a device's alone.
LEMMA LaunchesAdvances == ClockInv /\ Launches => ClockInv'
<1> SUFFICES ASSUME ClockInv, Launches PROVE ClockInv'
  OBVIOUS
<1>1. /\ life' = life + 1 /\ kind' = kind /\ produced' = produced
      /\ offset' = IF kind = "device" THEN offset ELSE 0
  BY DEF Launches, Fixed
<1>2. life \in Nat /\ offset \in Nat /\ produced \in Seq(Frames)
  BY DEF ClockInv
<1>3. \A i \in DOMAIN produced : produced[i].life < life'
  <2> SUFFICES ASSUME NEW i \in DOMAIN produced PROVE produced[i].life < life'
    OBVIOUS
  <2>1. produced[i] \in Frames /\ produced[i].life <= life
    BY <1>2 DEF ClockInv
  <2>2. produced[i].life \in Nat
    BY <2>1 DEF Frames
  <2> QED
    BY <1>1, <1>2, <2>1, <2>2
<1>4. produced # <<>> => Len(produced) \in DOMAIN produced
  BY <1>2
<1>5. /\ produced # <<>> => produced'[Len(produced')].life < life'
      /\ \A i \in DOMAIN produced' : produced'[i].life <= life'
  <2>1. ASSUME NEW i \in DOMAIN produced
        PROVE  produced[i].life < life' /\ produced[i].life <= life'
    <3>1. produced[i] \in Frames
      BY <1>2
    <3>2. produced[i].life \in Nat
      BY <3>1 DEF Frames
    <3> QED
      BY <1>1, <1>2, <1>3, <3>2
  <2> QED
    BY <1>1, <1>4, <2>1
<1>7. offset' = IF produced # <<>> /\ (kind = "device" \/ produced[Len(produced)].life = life')
                THEN produced[Len(produced)].offset ELSE 0
  <2>1. CASE kind = "device"
    BY <1>1, <2>1 DEF ClockInv
  <2>2. CASE kind # "device"
    <3>1. produced # <<>> => produced[Len(produced)].life # life'
      <4>1. ASSUME produced # <<>> PROVE produced[Len(produced)].life # life'
        <5>1. produced[Len(produced)] \in Frames
          BY <1>2, <1>4, <4>1
        <5>2. produced[Len(produced)].life \in Nat
          BY <5>1 DEF Frames
        <5> QED
          BY <1>1, <1>2, <1>3, <1>4, <4>1, <5>2
      <4> QED BY <4>1
    <3> QED
      BY <1>1, <2>2, <3>1
  <2> QED BY <2>1, <2>2
<1>6. MediaTimeAdvances'
  BY <1>1 DEF ClockInv, MediaTimeAdvances
<1> QED
  BY <1>1, <1>2, <1>5, <1>6, <1>7 DEF ClockInv

\* Nothing else touches it.
LEMMA ClockStutter ==
  ASSUME ClockInv, UNCHANGED <<life, kind, offset, produced>>,
         kind = "device" \/ src \in Running \/ src' \notin Running
  PROVE  ClockInv'
BY DEF ClockInv, MediaTimeAdvances

LEMMA SourceStepAdvances == ClockInv /\ SourceStep => ClockInv'
<1> SUFFICES ASSUME ClockInv, SourceStep PROVE ClockInv'
  OBVIOUS
<1> USE DEF Running, Fixed
<1>1. CASE Launches
  BY <1>1, LaunchesAdvances
<1>2. CASE Probes \/ ProbeEnds \/ Restarts
  BY <1>2, ClockStutter DEF Probes, ProbeEnds, Restarts
<1>3. CASE LaunchFails
  BY <1>3, ClockStutter, BackLeaves DEF LaunchFails
<1>4. CASE ReadsChunk
  BY <1>4, TakesAdvances DEF ReadsChunk, Chunk
<1>5. ASSUME NEW size \in {0, 1}, StreamEnds(size) PROVE ClockInv'
  <2>1. CASE size = 0
    BY <1>5, <2>1, ClockStutter DEF StreamEnds, AtEnd
  <2>2. CASE size = 1
    BY <1>5, <2>2, TakesAdvances DEF StreamEnds, AtEnd
  <2> QED
    BY <2>1, <2>2
<1>6. CASE ReadBreaks \/ Released \/ SendCancelled
  BY <1>6, ClockStutter DEF ReadBreaks, Released, SendCancelled
<1> QED
  BY <1>1, <1>2, <1>3, <1>4, <1>5, <1>6 DEF SourceStep

LEMMA ClockNext == ClockInv /\ [Next]_vars => ClockInv'
<1> SUFFICES ASSUME ClockInv, [Next]_vars PROVE ClockInv'
  OBVIOUS
<1>1. CASE SourceAlone
  BY <1>1, SourceStepAdvances DEF SourceAlone
<1>2. CASE Delivers \/ EntersWrap
  BY <1>2, ClockStutter DEF Delivers, EntersWrap, Sends, Fixed, Running
<1>3. CASE Interrupt
  BY <1>3, ClockStutter DEF Interrupt
<1>4. ASSUME UNCHANGED sourceVars PROVE ClockInv'
  BY <1>4, ClockStutter DEF sourceVars
<1> QED
  BY <1>1, <1>2, <1>3, <1>4
     DEF Next, PumpStops, WrapEnds, Tap, Forwards, PlayerTakes, Plays, Finished, vars

\* Media time goes on over every restart of a device, and begins again with
\* every pass over a file (MediaTimeAdvances).
THEOREM ClockAdvances == Spec => []MediaTimeAdvances
<1>1. ClockInv => MediaTimeAdvances
  BY DEF ClockInv
<1> QED
  BY <1>1, ClockInit, ClockNext, PTL DEF Spec
-----------------------------------------------------------------------------
(* The frames between ffmpeg and the engine.                               *)

PlacesOK ==
  /\ produced \in Seq(Frames) /\ delivered \in Seq(Frames)
  /\ wrapHand \in Seq(Frames) /\ hand \in Seq(Frames)
  /\ Len(hand) = IF src \in {"due", "send"} THEN 1 ELSE 0
  /\ Len(wrapHand) = IF wrap \in {"tap", "send"} THEN 1 ELSE 0
  /\ life \in Nat /\ offset \in Nat

\* Every frame is where its number says: delivered, in Wrap's hand or in the
\* source's; one is given up only after Ctrl-C, by a goroutine that ends.
FlowInv ==
  /\ PlacesOK
  /\ Len(delivered) <= Len(produced)
  /\ \A i \in 1..Len(delivered) : delivered[i] = produced[i]
  /\ wrap \in {"tap", "send"} =>
       /\ Len(delivered) < Len(produced)
       /\ wrapHand[1] = produced[Len(delivered) + 1]
  /\ src \in {"due", "send"} => Len(produced) > 0 /\ hand[1] = produced[Len(produced)]
  /\ \/ Len(delivered) + Len(wrapHand) + Len(hand) = Len(produced)
     \/ ctx /\ (wrap = "done" \/ OutClosed)

LEMMA FlowInit == Init => FlowInv
<1> SUFFICES ASSUME Init PROVE FlowInv
  OBVIOUS
<1>1. /\ produced = <<>> /\ delivered = <<>> /\ wrapHand = <<>> /\ hand = <<>>
      /\ wrap \in {"off", "recv"} /\ src \in {"start", "launch"} /\ life = 0 /\ offset = 0
  BY DEF Init, SourceInit, Nothing
<1> QED
  BY <1>1 DEF FlowInv, PlacesOK

\* A step that moves no frame keeps every frame in its place.
LEMMA FlowStutter ==
  ASSUME FlowInv, UNCHANGED <<produced, delivered, wrapHand, hand>>,
         life' \in Nat, offset' \in Nat, ctx => ctx',
         src' \in {"due", "send"} <=> src \in {"due", "send"},
         wrap' \in {"tap", "send"} <=> wrap \in {"tap", "send"},
         wrap = "done" => wrap' = "done", OutClosed => OutClosed'
  PROVE  FlowInv'
BY DEF FlowInv, PlacesOK

\* A frame read joins the others at the end.
LEMMA TakesFlows ==
  ASSUME FlowInv, src = "read", NEW size \in {1, 2}, Takes(size),
         UNCHANGED <<life, ctx, wrap, wrapHand, delivered>>
  PROVE  FlowInv'
<1> DEFINE f == Frame(size)
<1>1. /\ produced \in Seq(Frames) /\ Len(produced) \in Nat /\ life \in Nat /\ offset \in Nat
      /\ size \in 1..2 /\ size \in Nat
  BY DEF FlowInv, PlacesOK
<1>2. f \in Frames
  BY <1>1 DEF Frame, Frames
<1> HIDE DEF f
<1>3. /\ produced' = Append(produced, f) /\ hand' = <<f>> /\ offset' = offset + size
      /\ src' \in {"due", "send"}
  BY DEF Takes, f
<1>4. /\ produced' \in Seq(Frames) /\ Len(produced') = Len(produced) + 1
      /\ produced'[Len(produced) + 1] = f
      /\ \A i \in 1..Len(produced) : produced'[i] = produced[i]
      /\ hand' \in Seq(Frames) /\ Len(hand') = 1 /\ hand'[1] = f /\ offset' \in Nat
  BY <1>1, <1>2, <1>3
<1>5. /\ Len(hand) = 0 /\ Len(delivered) \in Nat /\ Len(wrapHand) \in Nat
      /\ src' \notin {"done", "failed"} /\ src \notin {"done", "failed"}
  BY <1>3 DEF FlowInv, PlacesOK
<1>6. PlacesOK'
  BY <1>3, <1>4 DEF FlowInv, PlacesOK
<1>7. \A i \in 1..Len(delivered') : delivered'[i] = produced'[i]
  BY <1>1, <1>4, <1>5 DEF FlowInv
<1>8. wrap' \in {"tap", "send"} =>
        Len(delivered') < Len(produced') /\ wrapHand'[1] = produced'[Len(delivered') + 1]
  BY <1>1, <1>4, <1>5, SMTT(30) DEF FlowInv
<1>9. \/ Len(delivered') + Len(wrapHand') + Len(hand') = Len(produced')
      \/ ctx' /\ wrap' = "done"
  BY <1>1, <1>4, <1>5 DEF FlowInv, OutClosed
<1> QED
  BY <1>1, <1>3, <1>4, <1>5, <1>6, <1>7, <1>8, <1>9 DEF FlowInv

\* A frame given up after Ctrl-C ends the source.
LEMMA CancelFlows ==
  ASSUME FlowInv, ctx, Returns("cancel"), hand' = <<>>,
         UNCHANGED <<life, offset, produced, kind, ctx, wrap, wrapHand, delivered>>
  PROVE  FlowInv'
<1>1. src' = "done"
  BY DEF Returns, Back
<1>2. hand' \in Seq(Frames) /\ Len(hand') = 0
  OBVIOUS
<1> QED
  BY <1>1, <1>2 DEF FlowInv, PlacesOK, OutClosed

LEMMA SourceStepFlows ==
  FlowInv /\ SourceStep /\ UNCHANGED <<wrap, wrapHand, delivered>> => FlowInv'
<1> SUFFICES ASSUME FlowInv, SourceStep, UNCHANGED <<wrap, wrapHand, delivered>>
             PROVE  FlowInv'
  OBVIOUS
<1> USE DEF Fixed
<1>0. life \in Nat /\ offset \in Nat
  BY DEF FlowInv, PlacesOK
<1>1. CASE Probes \/ ProbeEnds \/ Launches \/ Restarts
  <2>1. /\ UNCHANGED <<produced, hand, ctx>> /\ life' \in Nat /\ offset' \in Nat
        /\ src \notin {"due", "send", "done", "failed"} /\ src' \notin {"due", "send"}
    BY <1>0, <1>1 DEF Probes, ProbeEnds, Launches, Restarts
  <2> QED
    BY <2>1, FlowStutter DEF OutClosed
<1>2. CASE LaunchFails
  <2>1. /\ UNCHANGED <<produced, hand, ctx, life, offset>> /\ src = "launch"
        /\ src' \in {"launch", "backoff", "done"}
    BY <1>2, BackLeaves DEF LaunchFails
  <2> QED
    BY <1>0, <2>1, FlowStutter DEF OutClosed
<1>3. CASE ReadsChunk
  BY <1>3, TakesFlows DEF ReadsChunk, Chunk
<1>4. ASSUME NEW size \in {0, 1}, StreamEnds(size) PROVE FlowInv'
  <2>1. CASE size = 0
    <3>1. /\ UNCHANGED <<produced, hand, ctx, life, offset>> /\ src = "read"
          /\ src' \in {"launch", "backoff", "done"}
      BY <1>4, <2>1, BackLeaves DEF StreamEnds, AtEnd, Returns
    <3> QED
      BY <1>0, <3>1, FlowStutter DEF OutClosed
  <2>2. CASE size = 1
    BY <1>4, <2>2, TakesFlows DEF StreamEnds, AtEnd
  <2> QED
    BY <2>1, <2>2
<1>5. CASE ReadBreaks
  <2>1. /\ UNCHANGED <<produced, hand, ctx, life, offset>> /\ src = "read"
        /\ src' \in {"launch", "backoff", "done"}
    BY <1>5, BackLeaves DEF ReadBreaks, Returns
  <2> QED
    BY <1>0, <2>1, FlowStutter DEF OutClosed
<1>6. CASE Released
  <2>1. CASE src' = "send" /\ hand' = hand
    BY <1>0, <1>6, <2>1, FlowStutter DEF Released, OutClosed
  <2>2. CASE ctx /\ Returns("cancel") /\ hand' = Nothing
    BY <1>6, <2>2, CancelFlows DEF Released, Nothing
  <2> QED
    BY <1>6, <2>1, <2>2 DEF Released
<1>7. CASE SendCancelled
  BY <1>7, CancelFlows DEF SendCancelled, Nothing
<1> QED
  BY <1>1, <1>2, <1>3, <1>4, <1>5, <1>6, <1>7 DEF SourceStep

\* What Sends leaves behind.
LEMMA SendsEmpties ==
  ASSUME FlowInv, Sends
  PROVE  /\ src = "send" /\ hand' = <<>> /\ src' \in {"read", "launch", "backoff", "done"}
         /\ UNCHANGED <<life, offset, produced, ctx>>
<1>1. CASE eof
  BY <1>1, BackLeaves DEF Sends, Returns, Fixed, Nothing
<1>2. CASE ~eof
  BY <1>2 DEF Sends, Fixed, Nothing
<1> QED
  BY <1>1, <1>2

\* Where the elements of a concatenation come from.
LEMMA Joined ==
  ASSUME NEW S, NEW s \in Seq(S), NEW t \in Seq(S)
  PROVE  /\ s \o t \in Seq(S) /\ Len(s \o t) = Len(s) + Len(t)
         /\ \A i \in 1..Len(s) : (s \o t)[i] = s[i]
         /\ \A i \in 1..Len(t) : (s \o t)[Len(s) + i] = t[i]
OBVIOUS

\* A single frame handed on becomes the next one delivered.
LEMMA OneMore ==
  ASSUME NEW s \in Seq(Frames), NEW t \in Seq(Frames)
  PROVE  Len(t) = 1 =>
         /\ s \o t \in Seq(Frames) /\ Len(s \o t) = Len(s) + 1
         /\ (s \o t)[Len(s) + 1] = t[1]
         /\ \A i \in 1..Len(s) : (s \o t)[i] = s[i]
<1>1. /\ s \o t \in Seq(Frames) /\ Len(s \o t) = Len(s) + Len(t)
      /\ \A i \in 1..Len(s) : (s \o t)[i] = s[i]
      /\ \A i \in 1..Len(t) : (s \o t)[Len(s) + i] = t[i]
  BY Joined
<1>2. Len(t) = 1 => 1 \in 1..Len(t)
  OBVIOUS
<1> QED
  BY <1>1, <1>2

LEMMA DeliversFlows == FlowInv /\ Delivers => FlowInv'
<1> SUFFICES ASSUME FlowInv, Delivers PROVE FlowInv'
  OBVIOUS
<1>1. /\ src = "send" /\ hand' = <<>> /\ src' \in {"read", "launch", "backoff", "done"}
      /\ UNCHANGED <<life, offset, produced, ctx>>
  BY SendsEmpties DEF Delivers
<1>2. wrap = "off" /\ delivered' = delivered \o hand /\ wrap' = wrap /\ wrapHand' = wrapHand
  BY DEF Delivers, monitorVars
<1>3. /\ delivered \in Seq(Frames) /\ hand \in Seq(Frames) /\ Len(hand) = 1 /\ Len(wrapHand) = 0
      /\ Len(delivered) \in Nat /\ produced \in Seq(Frames) /\ Len(produced) \in Nat
      /\ hand[1] = produced[Len(produced)] /\ life \in Nat /\ offset \in Nat
      /\ wrapHand \in Seq(Frames)
  BY <1>1, <1>2 DEF FlowInv, PlacesOK
<1>4. Len(delivered) + 1 = Len(produced)
  BY <1>1, <1>2, <1>3 DEF FlowInv, OutClosed
<1>5. /\ delivered' \in Seq(Frames) /\ Len(delivered') = Len(delivered) + 1
      /\ delivered'[Len(delivered) + 1] = hand[1]
      /\ \A i \in 1..Len(delivered) : delivered'[i] = delivered[i]
  BY <1>2, <1>3, OneMore
<1>6. hand' \in Seq(Frames) /\ Len(hand') = 0
  BY <1>1
<1>7. \A i \in 1..Len(delivered') : delivered'[i] = produced'[i]
  BY <1>1, <1>3, <1>4, <1>5, SMTT(30) DEF FlowInv
<1>8. PlacesOK'
  BY <1>1, <1>2, <1>3, <1>5, <1>6 DEF PlacesOK
<1> QED
  BY <1>1, <1>2, <1>3, <1>4, <1>5, <1>6, <1>7, <1>8 DEF FlowInv

LEMMA EntersFlows == FlowInv /\ EntersWrap => FlowInv'
<1> SUFFICES ASSUME FlowInv, EntersWrap PROVE FlowInv'
  OBVIOUS
<1>1. /\ src = "send" /\ hand' = <<>> /\ src' \in {"read", "launch", "backoff", "done"}
      /\ UNCHANGED <<life, offset, produced, ctx>>
  BY SendsEmpties DEF EntersWrap
<1>2. wrap = "recv" /\ delivered' = delivered /\ wrap' = "tap" /\ wrapHand' = hand
  BY DEF EntersWrap
<1>3. /\ delivered \in Seq(Frames) /\ hand \in Seq(Frames) /\ Len(hand) = 1 /\ Len(wrapHand) = 0
      /\ Len(delivered) \in Nat /\ produced \in Seq(Frames) /\ Len(produced) \in Nat
      /\ hand[1] = produced[Len(produced)] /\ life \in Nat /\ offset \in Nat
  BY <1>1, <1>2 DEF FlowInv, PlacesOK
<1>4. Len(delivered) + 1 = Len(produced)
  BY <1>1, <1>2, <1>3 DEF FlowInv, OutClosed
<1>5. hand' \in Seq(Frames) /\ Len(hand') = 0
  BY <1>1
<1>6. PlacesOK'
  BY <1>1, <1>2, <1>3, <1>5 DEF PlacesOK
<1> QED
  BY <1>1, <1>2, <1>3, <1>4, <1>5, <1>6 DEF FlowInv

LEMMA ForwardsFlows == FlowInv /\ Forwards => FlowInv'
<1> SUFFICES ASSUME FlowInv, Forwards PROVE FlowInv'
  OBVIOUS
<1>1. /\ wrap = "send" /\ wrapHand' = <<>>
      /\ UNCHANGED <<src, life, offset, produced, hand, ctx>>
  BY DEF Forwards, sourceVars, Nothing
<1>2. /\ delivered \in Seq(Frames) /\ wrapHand \in Seq(Frames) /\ Len(wrapHand) = 1
      /\ Len(delivered) \in Nat /\ produced \in Seq(Frames) /\ Len(produced) \in Nat
      /\ Len(hand) \in Nat /\ wrapHand[1] = produced[Len(delivered) + 1]
      /\ Len(delivered) < Len(produced)
  BY <1>1 DEF FlowInv, PlacesOK
<1>3. wrapHand' \in Seq(Frames) /\ Len(wrapHand') = 0
  BY <1>1
<1>4. CASE wrap' = "recv" /\ delivered' = delivered \o wrapHand
  <2>1. /\ delivered' \in Seq(Frames) /\ Len(delivered') = Len(delivered) + 1
        /\ delivered'[Len(delivered) + 1] = wrapHand[1]
        /\ \A i \in 1..Len(delivered) : delivered'[i] = delivered[i]
    BY <1>2, <1>4, OneMore
  <2>2. \A i \in 1..Len(delivered') : delivered'[i] = produced'[i]
    BY <1>1, <1>2, <2>1 DEF FlowInv
  <2>3. PlacesOK'
    BY <1>1, <1>3, <1>4, <2>1 DEF FlowInv, PlacesOK
  <2> QED
    BY <1>1, <1>2, <1>3, <1>4, <2>1, <2>2, <2>3 DEF FlowInv, OutClosed
<1>5. CASE ctx /\ wrap' = "done" /\ UNCHANGED delivered
  BY <1>1, <1>3, <1>5 DEF FlowInv, PlacesOK
<1> QED
  BY <1>4, <1>5 DEF Forwards

LEMMA FlowNext == FlowInv /\ [Next]_vars => FlowInv'
<1> SUFFICES ASSUME FlowInv, [Next]_vars PROVE FlowInv'
  OBVIOUS
<1>0. life \in Nat /\ offset \in Nat
  BY DEF FlowInv, PlacesOK
<1>1. CASE SourceAlone
  BY <1>1, SourceStepFlows DEF SourceAlone, monitorVars
<1>2. CASE Delivers \/ EntersWrap \/ Forwards
  BY <1>2, DeliversFlows, EntersFlows, ForwardsFlows
<1>3. CASE Interrupt
  BY <1>0, <1>3, FlowStutter DEF Interrupt, monitorVars, OutClosed
<1>4. CASE PumpStops \/ WrapEnds \/ Tap \/ PlayerTakes \/ Plays \/ Finished \/ UNCHANGED vars
  BY <1>0, <1>4, FlowStutter
     DEF PumpStops, WrapEnds, Tap, PlayerTakes, Plays, Finished, vars, monitorVars, sourceVars,
         OutClosed
<1> QED
  BY <1>1, <1>2, <1>3, <1>4 DEF Next

\* Two sequences are equal when their elements are.
LEMMA SameFrames ==
  ASSUME NEW s \in Seq(Frames), NEW t \in Seq(Frames), Len(s) = Len(t),
         \A i \in 1..Len(s) : s[i] = t[i]
  PROVE  s = t
OBVIOUS

LEMMA PrefixIs ==
  ASSUME NEW s \in Seq(Frames), NEW t \in Seq(Frames), Len(t) <= Len(s),
         \A i \in 1..Len(t) : t[i] = s[i]
  PROVE  SubSeq(s, 1, Len(t)) = t
<1>1. /\ SubSeq(s, 1, Len(t)) \in Seq(Frames) /\ Len(SubSeq(s, 1, Len(t))) = Len(t)
      /\ \A i \in 1..Len(t) : SubSeq(s, 1, Len(t))[i] = s[i]
  OBVIOUS
<1> QED
  BY <1>1, SameFrames

\* Until Ctrl-C every frame ffmpeg decoded has reached the engine or is in a
\* hand, in order; after it, what was delivered is still a beginning of it
\* (NothingSkipped).
THEOREM NothingIsSkipped == Spec => []NothingSkipped
<1>1. FlowInv => NothingSkipped
  <2> SUFFICES ASSUME FlowInv PROVE NothingSkipped
    OBVIOUS
  <2>1. /\ produced \in Seq(Frames) /\ delivered \in Seq(Frames) /\ wrapHand \in Seq(Frames)
        /\ hand \in Seq(Frames) /\ Len(delivered) <= Len(produced)
        /\ \A i \in 1..Len(delivered) : delivered[i] = produced[i]
    BY DEF FlowInv, PlacesOK
  <2>2. CASE ctx
    <3>1. SubSeq(produced, 1, Len(delivered)) = delivered
      BY <2>1, PrefixIs
    <3> QED
      BY <2>2, <3>1 DEF NothingSkipped
  <2>3. CASE ~ctx
    <3> DEFINE all == delivered \o (wrapHand \o hand)
    <3>1. Len(delivered) + Len(wrapHand) + Len(hand) = Len(produced)
      BY <2>3 DEF FlowInv
    <3>2. Len(wrapHand) \in {0, 1} /\ Len(hand) \in {0, 1}
      BY DEF FlowInv, PlacesOK
    <3>3. Len(wrapHand) = 1 => wrapHand[1] = produced[Len(delivered) + 1]
      <4>1. Len(wrapHand) = IF wrap \in {"tap", "send"} THEN 1 ELSE 0
        BY DEF FlowInv, PlacesOK
      <4>2. Len(wrapHand) = 1 => wrap \in {"tap", "send"}
        BY <4>1
      <4> QED BY <4>2 DEF FlowInv
    <3>4. Len(hand) = 1 => hand[1] = produced[Len(produced)]
      <4>1. Len(hand) = IF src \in {"due", "send"} THEN 1 ELSE 0
        BY DEF FlowInv, PlacesOK
      <4> QED BY <4>1 DEF FlowInv
    <3>5. all \in Seq(Frames) /\ Len(all) = Len(produced)
      BY <2>1, <3>1
    <3>6. ASSUME NEW i \in 1..Len(all) PROVE all[i] = produced[i]
      <4> DEFINE d == Len(delivered)
                 w == Len(wrapHand)
                 rest == wrapHand \o hand
      <4>1. /\ rest \in Seq(Frames) /\ Len(rest) = w + Len(hand)
            /\ \A j \in 1..w : rest[j] = wrapHand[j]
            /\ \A j \in 1..Len(hand) : rest[w + j] = hand[j]
        BY <2>1, Joined
      <4>2. /\ Len(all) = d + Len(rest)
            /\ \A j \in 1..d : all[j] = delivered[j]
            /\ \A j \in 1..Len(rest) : all[d + j] = rest[j]
        <5> HIDE DEF rest
        <5>1. all = delivered \o rest
          BY DEF rest
        <5>2. delivered \in Seq(Frames) /\ rest \in Seq(Frames)
          BY <2>1, <4>1
        <5> HIDE DEF all
        <5>3. /\ Len(delivered \o rest) = Len(delivered) + Len(rest)
              /\ \A j \in 1..Len(delivered) : (delivered \o rest)[j] = delivered[j]
              /\ \A j \in 1..Len(rest) : (delivered \o rest)[Len(delivered) + j] = rest[j]
          BY <5>2, Joined
        <5> QED
          BY <5>1, <5>3
      <4>3. d \in Nat /\ w \in {0, 1} /\ Len(hand) \in {0, 1} /\ Len(produced) = d + w + Len(hand)
        BY <2>1, <3>1, <3>2
      <4> HIDE DEF all, rest, w, d
      <4>4. /\ i \in 1..d \/ (w = 1 /\ i = d + 1) \/ (Len(hand) = 1 /\ i = d + (w + 1))
            /\ Len(rest) \in Nat
        BY <4>1, <4>2, <4>3
      <4>5. CASE i \in 1..d
        BY <2>1, <4>2, <4>5 DEF d
      <4>6. CASE w = 1 /\ i = d + 1
        <5>1. 1 \in 1..Len(rest) /\ 1 \in 1..w
          BY <4>1, <4>3, <4>6
        <5>2. all[d + 1] = wrapHand[1]
          BY <4>1, <4>2, <5>1, Zenon
        <5> QED
          BY <3>3, <4>6, <5>2 DEF w, d
      <4>7. CASE Len(hand) = 1 /\ i = d + (w + 1)
        <5>1. w + 1 \in 1..Len(rest) /\ 1 \in 1..Len(hand) /\ i = Len(produced)
          BY <4>1, <4>3, <4>7
        <5>2. all[d + (w + 1)] = hand[1]
          BY <4>1, <4>2, <5>1, Zenon
        <5> QED
          BY <3>4, <4>7, <5>1, <5>2
      <4> QED
        BY <4>4, <4>5, <4>6, <4>7
    <3> HIDE DEF all
    <3>7. produced = all
      BY <2>1, <3>5, <3>6, SameFrames
    <3> QED
      BY <2>3, <3>7 DEF NothingSkipped, InFlight, all
  <2> QED
    BY <2>2, <2>3
<1> QED
  BY <1>1, FlowInit, FlowNext, PTL DEF Spec

-----------------------------------------------------------------------------
(* The frames behind the tap.                                              *)

Kept == (heard \o playing) \o queue

\* What the speaker was given, has in hand or still waits for are frames of
\* the stream in order, none of them later than the one being forwarded.
KeptInv ==
  /\ heard \in Seq(Frames) /\ playing \in Seq(Frames) /\ queue \in Seq(Frames)
  /\ tapped \in Nat /\ dropped \in Nat
  /\ player = "recv" => playing = <<>>
  /\ Len(Kept) + dropped = tapped
  /\ \A i \in 1..Len(produced) : produced[i].n = i
  /\ \A i \in 1..Len(Kept) : Kept[i].n \in 1..Len(produced) /\ Kept[i] = produced[Kept[i].n]
  /\ \A i, j \in 1..Len(Kept) : i < j => Kept[i].n < Kept[j].n
  /\ wrap # "done" =>
       \A i \in 1..Len(Kept) : Kept[i].n <= Len(delivered) + (IF wrap = "send" THEN 1 ELSE 0)

-----------------------------------------------------------------------------
(* A replay that ends by itself.                                           *)

\* A file is read once: the offset is where the reading stands and where the
\* last frame ended, and without a failure only its end stops the replay.
WholeInv ==
  kind = "file" =>
    /\ src \in {"launch", "read", "due", "send", "done"}
    /\ src = "launch" => produced = <<>>
    /\ pos = offset
    /\ offset = IF produced = <<>> THEN 0 ELSE produced[Len(produced)].offset
    /\ src = "read" => ~eof
    /\ eof /\ ~died => offset = Media
    /\ src = "done" /\ ~ctx /\ ~err => eof

\* Wrap ends behind its source, or with ctx.
WrapInv ==
  /\ wrap \in {"off", "recv", "tap", "send", "done"}
  /\ wrap = "done" => ctx \/ OutClosed

LEMMA KeptInit == Init => KeptInv /\ WholeInv /\ WrapInv
<1> SUFFICES ASSUME Init PROVE KeptInv /\ WholeInv /\ WrapInv
  OBVIOUS
<1>1. /\ heard = <<>> /\ playing = <<>> /\ queue = <<>> /\ tapped = 0 /\ dropped = 0
      /\ produced = <<>> /\ delivered = <<>> /\ wrap \in {"off", "recv"}
      /\ offset = 0 /\ pos = 0 /\ eof = FALSE
      /\ src = IF kind = "device" THEN "start" ELSE "launch"
  BY DEF Init, SourceInit, Nothing
<1>2. Kept = <<>>
  BY <1>1 DEF Kept
<1>3. KeptInv
  BY <1>1, <1>2 DEF KeptInv
<1> QED
  BY <1>1, <1>3 DEF WholeInv, WrapInv

\* ffmpeg's frames are numbered in the order they are read.
LEMMA ProducedGrows ==
  ASSUME FlowInv, SourceStep
  PROVE  \/ produced' = produced
         \/ \E f \in Frames : f.n = Len(produced) + 1 /\ produced' = Append(produced, f)
<1>1. ASSUME NEW size \in {1, 2}, Takes(size)
      PROVE  \E f \in Frames : f.n = Len(produced) + 1 /\ produced' = Append(produced, f)
  <2>1. Len(produced) \in Nat /\ life \in Nat /\ offset \in Nat /\ size \in 1..2 /\ size \in Nat
    BY DEF FlowInv, PlacesOK
  <2>2. Frame(size) \in Frames /\ Frame(size).n = Len(produced) + 1
    BY <2>1 DEF Frame, Frames
  <2>3. produced' = Append(produced, Frame(size))
    BY <1>1 DEF Takes
  <2> QED
    BY <2>2, <2>3
<1>2. ASSUME NEW size \in {0, 1}, StreamEnds(size)
      PROVE  produced' = produced \/ (size \in {1, 2} /\ Takes(size))
  BY <1>2 DEF StreamEnds, AtEnd
<1>3. CASE ReadsChunk
  BY <1>1, <1>3 DEF ReadsChunk, Chunk
<1>4. CASE \E size \in {0, 1} : StreamEnds(size)
  BY <1>1, <1>2, <1>4
<1>5. CASE Probes \/ ProbeEnds \/ Launches \/ LaunchFails \/ ReadBreaks \/ Released
           \/ SendCancelled \/ Restarts
  BY <1>5 DEF Probes, ProbeEnds, Launches, LaunchFails, ReadBreaks, Released,
              SendCancelled, Restarts
<1> QED
  BY <1>3, <1>4, <1>5 DEF SourceStep

\* A step that only moves frames behind the tap, or hands on those before it.
LEMMA KeptStays ==
  ASSUME KeptInv, FlowInv, Kept' = Kept,
         heard' \in Seq(Frames), playing' \in Seq(Frames), queue' \in Seq(Frames),
         player' = "recv" => playing' = <<>>,
         tapped' = tapped, dropped' = dropped,
         \/ produced' = produced
         \/ \E f \in Frames : f.n = Len(produced) + 1 /\ produced' = Append(produced, f),
         wrap' # "done" => wrap # "done",
         wrap' # "done" => Len(delivered) + (IF wrap = "send" THEN 1 ELSE 0)
                             <= Len(delivered') + (IF wrap' = "send" THEN 1 ELSE 0),
         delivered' \in Seq(Frames)
  PROVE  KeptInv'
<1>0. produced \in Seq(Frames) /\ Len(produced) \in Nat /\ delivered \in Seq(Frames)
  BY DEF FlowInv, PlacesOK
<1>1. /\ Len(produced') \in Nat /\ Len(produced) <= Len(produced')
      /\ \A i \in 1..Len(produced) : produced'[i] = produced[i]
      /\ \A i \in 1..Len(produced') : produced'[i].n = i
  <2>0. \A i \in 1..Len(produced) : produced[i].n = i
    BY DEF KeptInv
  <2>1. CASE produced' = produced
    BY <1>0, <2>0, <2>1
  <2>2. ASSUME NEW f \in Frames, f.n = Len(produced) + 1, produced' = Append(produced, f)
        PROVE  /\ Len(produced') = Len(produced) + 1
               /\ \A i \in 1..Len(produced) : produced'[i] = produced[i]
               /\ \A i \in 1..Len(produced') : produced'[i].n = i
    <3>1. /\ Len(produced') = Len(produced) + 1
          /\ \A i \in 1..Len(produced) : produced'[i] = produced[i]
          /\ produced'[Len(produced) + 1] = f
      BY <1>0, <2>2
    <3> QED
      BY <1>0, <2>0, <2>2, <3>1
  <2> QED
    BY <1>0, <2>1, <2>2
<1> DEFINE k == Kept
           d == Len(delivered) + (IF wrap = "send" THEN 1 ELSE 0)
           e == Len(delivered') + (IF wrap' = "send" THEN 1 ELSE 0)
<1>2. /\ Len(k) + dropped = tapped
      /\ \A i \in 1..Len(k) : k[i].n \in 1..Len(produced) /\ k[i] = produced[k[i].n]
      /\ \A i, j \in 1..Len(k) : i < j => k[i].n < k[j].n
      /\ wrap # "done" => \A i \in 1..Len(k) : k[i].n <= d
      /\ tapped \in Nat /\ dropped \in Nat
  BY DEF KeptInv
<1>3. d \in Nat /\ e \in Nat /\ (wrap' # "done" => d <= e)
  BY <1>0
<1>4. Kept' = k
  OBVIOUS
<1> HIDE DEF k, d, e
<1>5. \A i \in 1..Len(k) : k[i].n \in 1..Len(produced') /\ k[i] = produced'[k[i].n]
  <2> SUFFICES ASSUME NEW i \in 1..Len(k)
               PROVE  k[i].n \in 1..Len(produced') /\ k[i] = produced'[k[i].n]
    OBVIOUS
  <2> DEFINE n == k[i].n
  <2>1. n \in 1..Len(produced) /\ k[i] = produced[n]
    BY <1>2
  <2> HIDE DEF n
  <2>2. n \in 1..Len(produced') /\ produced'[n] = produced[n]
    BY <1>0, <1>1, <2>1, SMTT(30)
  <2> QED
    BY <2>1, <2>2 DEF n
<1>6. wrap' # "done" => \A i \in 1..Len(k) : k[i].n <= e
  <2>1. \A i \in 1..Len(k) : k[i].n \in Nat
    BY <1>0, <1>2
  <2> QED
    BY <1>2, <1>3, <2>1, SMTT(30)
<1> QED
  BY <1>1, <1>2, <1>4, <1>5, <1>6 DEF KeptInv, e

\* A tapped frame comes after all that was tapped before it.
LEMMA TapKeeps == KeptInv /\ FlowInv /\ Tap => KeptInv'
<1> SUFFICES ASSUME KeptInv, FlowInv, Tap PROVE KeptInv'
  OBVIOUS
<1> DEFINE k == Kept
           h == wrapHand[1]
           d == Len(delivered)
<1>1. /\ wrap = "tap" /\ wrap' = "send" /\ tapped' = tapped + 1
      /\ UNCHANGED <<produced, delivered, heard, playing, player>>
      /\ \/ queue' = queue \o wrapHand /\ dropped' = dropped
         \/ queue' = queue /\ dropped' = dropped + 1
  BY DEF Tap, sourceVars
<1>2. /\ wrapHand \in Seq(Frames) /\ Len(wrapHand) = 1 /\ d \in Nat /\ Len(produced) \in Nat
      /\ d < Len(produced) /\ h = produced[d + 1]
  BY <1>1 DEF FlowInv, PlacesOK
<1>3. /\ heard \in Seq(Frames) /\ playing \in Seq(Frames) /\ queue \in Seq(Frames)
      /\ tapped \in Nat /\ dropped \in Nat /\ (player = "recv" => playing = <<>>)
      /\ Len(k) + dropped = tapped
      /\ \A i \in 1..Len(produced) : produced[i].n = i
      /\ \A i \in 1..Len(k) : k[i].n \in 1..Len(produced) /\ k[i] = produced[k[i].n]
      /\ \A i, j \in 1..Len(k) : i < j => k[i].n < k[j].n
      /\ \A i \in 1..Len(k) : k[i].n <= d
  <2>1. wrap # "done" /\ wrap # "send"
    BY <1>1
  <2>2. \A i \in 1..Len(k) : k[i].n <= d + (IF wrap = "send" THEN 1 ELSE 0)
    BY <2>1 DEF KeptInv
  <2>3. d + (IF wrap = "send" THEN 1 ELSE 0) = d
    BY <1>2, <2>1
  <2> QED
    BY <2>2, <2>3 DEF KeptInv
<1>4. k \in Seq(Frames)
  BY <1>3, Joined DEF Kept
<1>5. h.n = d + 1 /\ d + 1 \in 1..Len(produced)
  BY <1>2, <1>3
<1>6. Len(delivered)' + 1 = d + 1 /\ (wrap' = "send" <=> TRUE)
  BY <1>1
<1>7. CASE queue' = queue /\ dropped' = dropped + 1
  <2>1. Kept' = k
    BY <1>1, <1>7 DEF Kept
  <2>2. \A i \in 1..Len(k) : k[i].n <= d + 1
    <3>1. \A i \in 1..Len(k) : k[i].n \in Nat
      BY <1>2, <1>3
    <3> QED
      BY <1>2, <1>3, <3>1, SMTT(30)
  <2>3. Len(k) + (dropped + 1) = tapped + 1 /\ tapped + 1 \in Nat /\ dropped + 1 \in Nat
    <3> DEFINE n == Len(k)
    <3>1. n \in Nat /\ dropped \in Nat /\ tapped \in Nat /\ n + dropped = tapped
      BY <1>3, <1>4
    <3> HIDE DEF n, k
    <3>2. n + (dropped + 1) = tapped + 1 /\ tapped + 1 \in Nat /\ dropped + 1 \in Nat
      BY <3>1
    <3> QED
      BY <3>2 DEF n
  <2> HIDE DEF k, d, h
  <2> QED
    BY <1>1, <1>3, <1>6, <1>7, <2>1, <2>2, <2>3 DEF KeptInv
<1>8. CASE queue' = queue \o wrapHand /\ dropped' = dropped
  <2> DEFINE m == k \o wrapHand
  <2>1. Kept' = m
    <3> DEFINE hp == heard \o playing
    <3>1. hp \in Seq(Frames)
      BY <1>3, Joined
    <3>2. Kept' = hp \o (queue \o wrapHand)
      BY <1>1, <1>8 DEF Kept
    <3>3. (hp \o queue) \o wrapHand = hp \o (queue \o wrapHand)
      <4> DEFINE q == queue
                 w == wrapHand
      <4>1. hp \in Seq(Frames) /\ q \in Seq(Frames) /\ w \in Seq(Frames)
        BY <1>2, <1>3, <3>1
      <4> HIDE DEF hp, q, w
      <4>2. (hp \o q) \o w = hp \o (q \o w)
        BY <4>1, ConcatAssociative
      <4> QED
        BY <4>2 DEF q, w
    <3> HIDE DEF hp
    <3>4. k = hp \o queue
      BY DEF Kept, hp
    <3> QED
      BY <3>2, <3>3, <3>4
  <2>2. queue' \in Seq(Frames)
    BY <1>2, <1>3, <1>8, Joined
  <2> HIDE DEF k, d
  <2>3. /\ m \in Seq(Frames) /\ Len(m) = Len(k) + 1 /\ m[Len(k) + 1] = h
        /\ \A i \in 1..Len(k) : m[i] = k[i]
    BY <1>2, <1>4, OneMore
  <2>4. Len(k) \in Nat
    BY <1>4
  <2> HIDE DEF m, h
  <2>5. \A i \in 1..Len(m) : (i \in 1..Len(k) /\ m[i] = k[i]) \/ (i = Len(k) + 1 /\ m[i] = h)
    BY <2>3, <2>4
  <2>6. \A i \in 1..Len(k) : k[i].n \in Nat /\ k[i].n <= d
    BY <1>2, <1>3
  <2>7. \A i \in 1..Len(m) : m[i].n \in 1..Len(produced) /\ m[i] = produced[m[i].n]
    <3>1. h = produced[h.n] /\ h.n \in 1..Len(produced)
      BY <1>2, <1>5
    <3> QED
      BY <1>3, <2>5, <3>1
  <2>8. ASSUME NEW i \in 1..Len(m), NEW j \in 1..Len(m), i < j PROVE m[i].n < m[j].n
    <3>1. i \in 1..Len(k) /\ m[i] = k[i]
      BY <2>3, <2>4, <2>5, <2>8
    <3>2. CASE j \in 1..Len(k) /\ m[j] = k[j]
      BY <1>3, <2>8, <3>1, <3>2
    <3>3. CASE m[j] = h
      BY <1>2, <1>5, <2>6, <3>1, <3>3
    <3> QED
      BY <2>5, <3>2, <3>3
  <2>9. \A i \in 1..Len(m) : m[i].n <= d + 1
    BY <1>2, <1>5, <2>5, <2>6
  <2>10. Len(m) + dropped = tapped + 1 /\ tapped + 1 \in Nat
    BY <1>3, <2>3, <2>4
  <2> QED
    BY <1>1, <1>3, <1>6, <1>8, <2>1, <2>2, <2>7, <2>8, <2>9, <2>10 DEF KeptInv, d
<1> QED
  BY <1>1, <1>7, <1>8

LEMMA KeptNext == KeptInv /\ FlowInv /\ [Next]_vars => KeptInv'
<1> SUFFICES ASSUME KeptInv, FlowInv, [Next]_vars PROVE KeptInv'
  OBVIOUS
<1>0. /\ heard \in Seq(Frames) /\ playing \in Seq(Frames) /\ queue \in Seq(Frames)
      /\ player = "recv" => playing = <<>>
      /\ delivered \in Seq(Frames) /\ wrapHand \in Seq(Frames) /\ hand \in Seq(Frames)
      /\ Len(delivered) \in Nat
  BY DEF KeptInv, FlowInv, PlacesOK
<1>1. CASE SourceAlone \/ Interrupt \/ PumpStops \/ UNCHANGED vars
  <2>1. UNCHANGED <<heard, playing, queue, tapped, dropped, player, wrap, delivered>>
    BY <1>1 DEF SourceAlone, Interrupt, PumpStops, vars, monitorVars
  <2>2. \/ produced' = produced
        \/ \E f \in Frames : f.n = Len(produced) + 1 /\ produced' = Append(produced, f)
    BY <1>1, ProducedGrows DEF SourceAlone, Interrupt, PumpStops, vars, sourceVars
  <2>3. Kept' = Kept
    BY <2>1 DEF Kept
  <2>4. \A t \in Nat : t <= t
    OBVIOUS
  <2>5. Len(delivered) + (IF wrap = "send" THEN 1 ELSE 0) \in Nat
    BY <1>0
  <2> QED
    BY <1>0, <2>1, <2>2, <2>3, <2>4, <2>5, KeptStays
<1>2. CASE Delivers
  <2>1. /\ UNCHANGED <<heard, playing, queue, tapped, dropped, player, wrap, produced>>
        /\ delivered' = delivered \o hand /\ wrap = "off" /\ src = "send"
    BY <1>2, SendsEmpties DEF Delivers, monitorVars
  <2>2. Len(hand) = 1
    BY <2>1 DEF FlowInv, PlacesOK
  <2>3. delivered' \in Seq(Frames) /\ Len(delivered') = Len(delivered) + 1
    BY <1>0, <2>1, <2>2, OneMore
  <2>4. Kept' = Kept
    BY <2>1 DEF Kept
  <2> QED
    BY <1>0, <2>1, <2>3, <2>4, KeptStays
<1>3. CASE EntersWrap \/ WrapEnds
  <2>1. /\ UNCHANGED <<heard, playing, queue, tapped, dropped, player, produced, delivered>>
        /\ wrap = "recv" /\ wrap' \in {"tap", "done"}
    BY <1>3, SendsEmpties DEF EntersWrap, WrapEnds, sourceVars
  <2>2. Kept' = Kept
    BY <2>1 DEF Kept
  <2> QED
    BY <1>0, <2>1, <2>2, KeptStays
<1>4. CASE Tap
  BY <1>4, TapKeeps
<1>5. CASE Forwards
  <2>1. /\ UNCHANGED <<heard, playing, queue, tapped, dropped, player, produced>>
        /\ wrap = "send"
        /\ \/ wrap' = "recv" /\ delivered' = delivered \o wrapHand
           \/ wrap' = "done" /\ delivered' = delivered
    BY <1>5 DEF Forwards, sourceVars
  <2>2. Len(wrapHand) = 1
    BY <2>1 DEF FlowInv, PlacesOK
  <2>3. wrap' = "recv" => delivered' \in Seq(Frames) /\ Len(delivered') = Len(delivered) + 1
    <3> DEFINE m == delivered \o wrapHand
    <3>1. m \in Seq(Frames) /\ Len(m) = Len(delivered) + 1
      BY <1>0, <2>2, OneMore
    <3>2. wrap' = "recv" => delivered' = m
      BY <2>1
    <3> HIDE DEF m
    <3> QED
      BY <3>1, <3>2
  <2>4. Kept' = Kept
    BY <2>1 DEF Kept
  <2>5. delivered' \in Seq(Frames)
    BY <1>0, <2>1, <2>3
  <2> QED
    BY <1>0, <2>1, <2>3, <2>4, <2>5, KeptStays
<1>6. CASE PlayerTakes
  <2>1. /\ UNCHANGED <<heard, tapped, dropped, wrap, produced, delivered>> /\ player = "recv"
        /\ \/ /\ queue # <<>> /\ player' = "write" /\ playing' = <<Head(queue)>>
              /\ queue' = Tail(queue)
           \/ player' = "gone" /\ UNCHANGED <<playing, queue>>
    BY <1>6 DEF PlayerTakes, sourceVars
  <2>2. playing' \in Seq(Frames) /\ queue' \in Seq(Frames) /\ Kept' = Kept
    <3>1. CASE UNCHANGED <<playing, queue>>
      BY <1>0, <2>1, <3>1 DEF Kept
    <3>2. CASE queue # <<>> /\ playing' = <<Head(queue)>> /\ queue' = Tail(queue)
      <4> DEFINE q == queue
                 v == <<Head(queue)>>
                 t == Tail(queue)
      <4>1. v \in Seq(Frames) /\ t \in Seq(Frames) /\ q = v \o t
        BY <1>0, <3>2, HeadTailProperties
      <4>2. heard \o playing = heard
        BY <1>0, <2>1, ConcatEmptySeq
      <4>3. (heard \o v) \o t = heard \o (v \o t)
        <5> DEFINE h == heard
        <5>1. h \in Seq(Frames)
          BY <1>0
        <5> HIDE DEF v, t, h
        <5>2. (h \o v) \o t = h \o (v \o t)
          BY <4>1, <5>1, ConcatAssociative
        <5> QED
          BY <5>2 DEF h
      <4>4. Kept' = (heard \o v) \o t /\ Kept = heard \o q
        BY <2>1, <3>2, <4>2 DEF Kept
      <4> HIDE DEF v, t, q
      <4>5. Kept' = Kept
        BY <4>1, <4>3, <4>4
      <4> QED
        BY <3>2, <4>1, <4>5 DEF v, t
    <3> QED
      BY <2>1, <3>1, <3>2
  <2>3. \A t \in Nat : t <= t
    OBVIOUS
  <2>4. Len(delivered) + (IF wrap = "send" THEN 1 ELSE 0) \in Nat
    BY <1>0
  <2> QED
    BY <1>0, <2>1, <2>2, <2>3, <2>4, KeptStays
<1>7. CASE Plays
  <2>1. /\ UNCHANGED <<queue, tapped, dropped, wrap, produced, delivered>>
        /\ \/ player' = "recv" /\ playing' = <<>> /\ heard' = heard \o playing
           \/ player' = "gone" /\ UNCHANGED <<playing, heard>>
    BY <1>7 DEF Plays, sourceVars, Nothing
  <2>2. playing' \in Seq(Frames) /\ heard' \in Seq(Frames) /\ Kept' = Kept
    <3>1. CASE UNCHANGED <<playing, heard>>
      BY <1>0, <2>1, <3>1 DEF Kept
    <3>2. CASE playing' = <<>> /\ heard' = heard \o playing
      <4> DEFINE hp == heard \o playing
      <4>1. hp \in Seq(Frames)
        BY <1>0, Joined
      <4>2. Kept' = (hp \o <<>>) \o queue /\ Kept = hp \o queue
        BY <2>1, <3>2 DEF Kept
      <4>3. heard' = hp
        BY <3>2
      <4> HIDE DEF hp
      <4>4. hp \o <<>> = hp
        BY <4>1, ConcatEmptySeq
      <4> QED
        BY <3>2, <4>1, <4>2, <4>3, <4>4
    <3> QED
      BY <2>1, <3>1, <3>2
  <2>3. \A t \in Nat : t <= t
    OBVIOUS
  <2>4. Len(delivered) + (IF wrap = "send" THEN 1 ELSE 0) \in Nat
    BY <1>0
  <2> QED
    BY <1>0, <2>1, <2>2, <2>3, <2>4, KeptStays
<1> QED
  BY <1>1, <1>2, <1>3, <1>4, <1>5, <1>6, <1>7 DEF Next, Finished

LEMMA WrapNext == WrapInv /\ [Next]_vars => WrapInv'
<1> SUFFICES ASSUME WrapInv, [Next]_vars PROVE WrapInv'
  OBVIOUS
<1> USE DEF WrapInv
<1>1. OutClosed /\ SourceStep => OutClosed'
  BY DEF OutClosed, SourceStep, Probes, ProbeEnds, Launches, LaunchFails, ReadsChunk,
         StreamEnds, ReadBreaks, Released, SendCancelled, Restarts
<1>2. SourceStep => ctx' = ctx
  BY DEF SourceStep, Fixed, Probes, ProbeEnds, Launches, LaunchFails, ReadsChunk,
         StreamEnds, ReadBreaks, Released, SendCancelled, Restarts
<1>3. CASE SourceAlone
  BY <1>1, <1>2, <1>3 DEF SourceAlone, monitorVars
<1>4. CASE Interrupt \/ PumpStops \/ UNCHANGED vars \/ Tap \/ PlayerTakes \/ Plays
  BY <1>4 DEF Interrupt, PumpStops, vars, sourceVars, monitorVars, Tap, PlayerTakes, Plays, OutClosed
<1>5. CASE Delivers
  BY <1>5 DEF Delivers, monitorVars
<1>6. CASE EntersWrap \/ WrapEnds \/ Forwards
  BY <1>6 DEF EntersWrap, WrapEnds, Forwards, sourceVars, OutClosed
<1> QED
  BY <1>3, <1>4, <1>5, <1>6 DEF Next, Finished

\* Every frame offered to the monitor is heard, waits in order, was lost with
\* the speaker, or is counted as dropped (Tap, the playback goroutine).
THEOREM TapIsAccounted == Spec => []TapAccounted
<1> DEFINE Inv == KeptInv /\ FlowInv
<1>1. Inv => TapAccounted
  <2> SUFFICES ASSUME KeptInv PROVE TapAccounted
    OBVIOUS
  <2>1. DOMAIN Kept = 1..Len(Kept)
    <3>1. Kept \in Seq(Frames)
      BY Joined DEF KeptInv, Kept
    <3> HIDE DEF Kept
    <3> QED
      BY <3>1
  <2> QED
    BY <2>1 DEF KeptInv, TapAccounted, Kept
<1>2. Init => Inv
  BY KeptInit, FlowInit
<1>3. Inv /\ [Next]_vars => Inv'
  BY KeptNext, FlowNext
<1> QED
  BY <1>1, <1>2, <1>3, PTL DEF Spec

\* What a frame taken from a file does to the clock.
LEMMA WholeTakes ==
  ASSUME WholeInv, FlowInv, kind = "file", src = "read", NEW size \in {1, 2}, Takes(size),
         UNCHANGED kind
  PROVE  /\ src' = "due" /\ pos' = offset' /\ offset' = offset + size
         /\ produced' # <<>> /\ offset' = produced'[Len(produced')].offset
<1>1. /\ produced \in Seq(Frames) /\ Len(produced) \in Nat /\ life \in Nat /\ offset \in Nat
      /\ size \in 1..2 /\ pos = offset
  BY DEF FlowInv, PlacesOK, WholeInv
<1> DEFINE f == Frame(size)
<1>2. f \in Frames /\ f.offset = offset + size
  BY <1>1 DEF Frame, Frames
<1>3. produced' = Append(produced, f) /\ offset' = offset + size /\ pos' = pos + size /\ src' = "due"
  BY DEF Takes
<1> HIDE DEF f
<1>4. produced' # <<>> /\ Len(produced') = Len(produced) + 1 /\ produced'[Len(produced) + 1] = f
  BY <1>1, <1>2, <1>3, AppendProperties
<1> QED
  BY <1>1, <1>2, <1>3, <1>4

LEMMA WholeNext == WholeInv /\ FlowInv /\ [Next]_vars => WholeInv'
<1> SUFFICES ASSUME WholeInv, FlowInv, [Next]_vars, kind' = "file" PROVE WholeInv'
  BY DEF WholeInv
<1>0. produced \in Seq(Frames) /\ offset \in Nat /\ life \in Nat
  BY DEF FlowInv, PlacesOK
<1>1. CASE UNCHANGED <<kind, ctx, src, pos, eof, offset, err, died, produced>>
  BY <1>1 DEF WholeInv
<1>2. CASE Interrupt
  BY <1>2 DEF Interrupt, WholeInv
<1>4. CASE Sends
  <2>1. kind = "file" /\ UNCHANGED <<kind, ctx, pos, eof, offset, died, produced>> /\ src = "send"
    BY <1>4 DEF Sends, Fixed
  <2>2. CASE eof
    BY <1>4, <2>1, <2>2 DEF Sends, Returns, Back, WholeInv
  <2>3. CASE ~eof
    BY <1>4, <2>1, <2>3 DEF Sends, WholeInv
  <2> QED
    BY <2>2, <2>3
<1>5. CASE Probes \/ ProbeEnds \/ Restarts
  <2>1. kind = "file" /\ src \in {"start", "probe", "backoff"}
    BY <1>5 DEF Probes, ProbeEnds, Restarts, Fixed
  <2> QED
    BY <2>1 DEF WholeInv
<1>6. CASE Launches
  <2>1. kind = "file" /\ produced = <<>>
    BY <1>6 DEF Launches, Fixed, WholeInv
  <2> QED
    BY <1>6, <2>1 DEF Launches, Fixed, WholeInv
<1>7. CASE LaunchFails
  <2>1. kind = "file" /\ UNCHANGED <<kind, ctx, pos, eof, offset, died, produced>> /\ src = "launch"
    BY <1>7 DEF LaunchFails, Fixed
  <2>2. src' = "done" /\ (ctx \/ err')
    BY <1>7, <2>1 DEF LaunchFails, Back
  <2> QED
    BY <2>1, <2>2 DEF WholeInv
<1>8. CASE ReadsChunk
  <2>1. /\ kind = "file" /\ UNCHANGED <<kind, ctx, eof, died>> /\ src = "read" /\ Takes(2)
    BY <1>8 DEF ReadsChunk, Fixed, Chunk
  <2>2. /\ src' = "due" /\ pos' = offset' /\ produced' # <<>>
        /\ offset' = produced'[Len(produced')].offset
    BY <2>1, WholeTakes
  <2> QED
    BY <2>1, <2>2 DEF WholeInv
<1>9. ASSUME NEW size \in {0, 1}, StreamEnds(size) PROVE WholeInv'
  <2>1. /\ kind = "file" /\ UNCHANGED <<kind, ctx>> /\ src = "read" /\ eof' = TRUE
        /\ ~died' => pos + size = Media
    <3>1. pos = offset /\ Media \in Nat
      BY <1>9, SourceAssumption DEF StreamEnds, Fixed, WholeInv
    <3>2. pos + size <= Media /\ (~died' => ~(pos + size < Media))
      BY <1>9 DEF StreamEnds
    <3> QED
      BY <1>0, <1>9, <3>1, <3>2 DEF StreamEnds, Fixed
  <2>2. pos = offset /\ offset = IF produced = <<>> THEN 0 ELSE produced[Len(produced)].offset
    BY <2>1 DEF WholeInv
  <2>3. CASE size = 0
    <3>1. Returns("nil") /\ UNCHANGED <<pos, offset, produced>>
      BY <1>9, <2>3 DEF StreamEnds, AtEnd
    <3>2. src' = "done" /\ (~died' => offset' = Media)
      BY <1>0, <2>1, <2>2, <2>3, <3>1 DEF Returns, Back
    <3> QED
      BY <2>1, <2>2, <3>1, <3>2 DEF WholeInv
  <2>4. CASE size = 1
    <3>1. Takes(1)
      BY <1>9, <2>4 DEF StreamEnds, AtEnd
    <3>2. /\ src' = "due" /\ pos' = offset' /\ offset' = offset + 1 /\ produced' # <<>>
          /\ offset' = produced'[Len(produced')].offset
      BY <2>1, <3>1, WholeTakes
    <3> QED
      BY <2>1, <2>2, <2>4, <3>2 DEF WholeInv
  <2> QED
    BY <2>3, <2>4
<1>10. CASE ReadBreaks
  <2>1. kind = "file" /\ UNCHANGED <<kind, ctx, pos, eof, offset, died, produced>> /\ src = "read"
    BY <1>10 DEF ReadBreaks, Fixed
  <2>2. src' = "done" /\ (ctx \/ err')
    BY <1>10, <2>1 DEF ReadBreaks, Returns, Back
  <2> QED
    BY <2>1, <2>2 DEF WholeInv
<1>11. CASE Released
  <2>1. kind = "file" /\ UNCHANGED <<kind, ctx, pos, eof, offset, died, produced>> /\ src = "due"
    BY <1>11 DEF Released, Fixed
  <2>2. src' = "send" \/ (ctx /\ src' = "done")
    BY <1>11, <2>1 DEF Released, Returns, Back
  <2> QED
    BY <2>1, <2>2 DEF WholeInv
<1>12. CASE SendCancelled
  <2>1. kind = "file" /\ UNCHANGED <<kind, ctx, pos, eof, offset, died, produced>> /\ src = "send"
    BY <1>12 DEF SendCancelled, Fixed
  <2>2. ctx /\ src' = "done"
    BY <1>12, <2>1 DEF SendCancelled, Returns, Back
  <2> QED
    BY <2>1, <2>2 DEF WholeInv
<1>13. CASE SourceStep
  BY <1>5, <1>6, <1>7, <1>8, <1>9, <1>10, <1>11, <1>12, <1>13 DEF SourceStep
<1>14. CASE PumpStops \/ WrapEnds \/ Tap \/ Forwards \/ PlayerTakes \/ Plays \/ UNCHANGED vars
  BY <1>1, <1>14 DEF PumpStops, WrapEnds, Tap, Forwards, PlayerTakes, Plays, vars, sourceVars
<1> QED
  BY <1>2, <1>4, <1>13, <1>14 DEF Next, SourceAlone, Delivers, EntersWrap, Finished

\* A replay that ends by itself without an error has delivered the whole
\* file, its last short chunk included, unless the decoder died (playOnce).
THEOREM CleanEndsAreWhole == Spec => []CleanEndIsWhole
<1> DEFINE Inv == WholeInv /\ FlowInv /\ WrapInv
<1>1. Inv => CleanEndIsWhole
  <2> SUFFICES ASSUME WholeInv, FlowInv, WrapInv,
                      kind = "file", FramesClosed, ~ctx, ~err, ~died, Media # 0
               PROVE  delivered # <<>> /\ Last(delivered).offset = Media
    BY DEF CleanEndIsWhole
  <2>1. wrap \in {"off", "done"} /\ src \in {"done", "failed"}
    BY DEF FramesClosed, OutClosed, WrapInv
  <2>2. src = "done" /\ produced # <<>> /\ produced[Len(produced)].offset = Media
    BY <2>1 DEF WholeInv
  <2>3. /\ produced \in Seq(Frames) /\ delivered \in Seq(Frames)
        /\ Len(hand) = 0 /\ Len(wrapHand) = 0
    BY <2>1, <2>2 DEF FlowInv, PlacesOK
  <2>4. Len(delivered) = Len(produced) /\ \A i \in 1..Len(delivered) : delivered[i] = produced[i]
    BY <2>3 DEF FlowInv
  <2>5. delivered = produced
    BY <2>3, <2>4, SameFrames
  <2> QED
    BY <2>2, <2>5 DEF Last
<1>2. Init => Inv
  BY KeptInit, FlowInit
<1>3. Inv /\ [Next]_vars => Inv'
  BY WholeNext, FlowNext, WrapNext
<1> QED
  BY <1>1, <1>2, <1>3, PTL DEF Spec
=============================================================================
