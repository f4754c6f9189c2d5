--------------------------- MODULE Session_proofs ----------------------------
(***************************************************************************)
(* Proofs about a session: for every number of connections, capacity of    *)
(* the channel and size of the writer's buffers, a session that ends with  *)
(* its file ends without a panic, the segments keep their order, the       *)
(* health badge is right, each file is a beginning of the transcript and,  *)
(* if no error was reported, all of it, shutdown loses nothing that was in *)
(* flight, and all of it together implements TranscriptLog.                *)
(***************************************************************************)
EXTENDS Session, TLAPS, WellFoundedInduction, SequenceTheorems

Active(c) == reader[c] \in {"reading", "sending"}

TypeInv ==
  /\ reader \in [1..Conns -> {"off", "reading", "sending", "done"}]
  /\ DOMAIN hand = 1..Conns
  /\ \A c \in 1..Conns : reader[c] = "sending" => hand[c].segment \in Nat
  /\ received \in Nat /\ accepted \in Seq(Nat)

\* Before `engine` is joined no channel is closed, and after it the engine
\* has returned or was never started.
OrderInv ==
  /\ main = "start" => engine = "off"
  /\ engine = "off" => wrap = "off" /\ source = "off"
  /\ main \notin {"start", "engine"} => engine \in {"off", "done", "failed"}
  /\ transClosed => engine \in {"done", "failed"}
  /\ tapClosed => main \notin {"start", "engine"}

\* Only the reader of the current connection is alive, unless a drain ran out.
ReaderInv ==
  "timeout" \notin faults =>
    \A c \in 1..Conns : Active(c) => c = conn /\ engine \in {"up", "stalled", "drain", "join"}

\* Without an error Run returns only when ctx is done or the audio is over.
EndInv ==
  engine = "done" \/ (engine = "drain" /\ ~pausing) => ctx \/ FramesOver

CleanInv == TypeInv /\ OrderInv /\ ReaderInv /\ EndInv /\ EndOfFileIsClean

\* What is accepted is older than what a reader holds, and that is older than
\* what is received next.
SegmentInv ==
  "timeout" \notin faults =>
    /\ \A i \in DOMAIN accepted : accepted[i] <= received
    /\ \A c \in 1..Conns : reader[c] = "sending" =>
         /\ hand[c].segment <= received
         /\ \A i \in DOMAIN accepted : accepted[i] < hand[c].segment

-----------------------------------------------------------------------------
\* A step of the reader, spelled out once for the lemmas below.
LEMMA ReaderStep ==
  ASSUME NEW c \in 1..Conns, Reader(c)
  PROVE  \/ \E last \in BOOLEAN : ReaderReceives(c, last)
         \/ ReaderSends(c)
         \/ ReaderStops(c)
BY DEF Reader

\* Everything but the engine and the readers leaves their state alone, and
\* the engine's start aside everything but the engine leaves its own.
LEMMA Frame ==
  ASSUME \/ CloseTranscripts \/ HubAwaited \/ Flush \/ CloseMonitor \/ FFmpegHangs
         \/ MonitorAwaited
         \/ CloseSource \/ CloseWriter \/ Source \/ Wrap \/ Hub
         \/ WriterTicks \/ Interrupt \/ Finished
  PROVE  UNCHANGED <<engVars, accepted>>
BY DEF CloseTranscripts, HubAwaited, Flush, CloseMonitor, FFmpegHangs, MonitorAwaited,
       CloseSource, CloseWriter, MainUnchanged, Source, SourceSends, SourceEnds,
       SourceUnchanged, Wrap, Tap, WrapEnds, Hub, HubPublishes, HubWritesLine, HubEnds,
       HubUnchanged, WriterTicks, Interrupt, Finished, vars

LEMMA TypeNext == TypeInv /\ [Next]_vars => TypeInv'
<1> SUFFICES ASSUME TypeInv, [Next]_vars PROVE TypeInv'
  OBVIOUS
<1>1. CASE UNCHANGED <<reader, hand, received, accepted>>
  BY <1>1 DEF TypeInv
<1>2. ASSUME EngineConnects PROVE TypeInv'
  BY <1>2 DEF TypeInv, EngineConnects, EngineUnchanged
<1>3. ASSUME NEW c \in 1..Conns, NEW last \in BOOLEAN, ReaderReceives(c, last)
      PROVE  TypeInv'
  BY <1>3 DEF TypeInv, ReaderReceives, EngineUnchanged
<1>4. ASSUME NEW c \in 1..Conns, ReaderSends(c) PROVE TypeInv'
  <2>1. reader[c] = "sending" /\ hand[c].segment \in Nat
    BY <1>4 DEF ReaderSends, TypeInv
  <2>2. UNCHANGED <<reader, hand, accepted>> \/
        /\ accepted' = Append(accepted, hand[c].segment)
        /\ reader' = [reader EXCEPT ![c] = "reading"]
        /\ hand' = [hand EXCEPT ![c] = NoHand]
    BY <1>4 DEF ReaderSends
  <2>3. accepted' \in Seq(Nat)
    <3> DEFINE s == hand[c].segment
    <3>1. accepted \in Seq(Nat) /\ s \in Nat
      BY <2>1 DEF TypeInv
    <3>2. accepted' = accepted \/ accepted' = Append(accepted, s)
      BY <2>2
    <3> HIDE DEF s
    <3> QED
      BY <3>1, <3>2
  <2>4. received' = received
    BY <1>4 DEF ReaderSends, ReaderUnchanged
  <2> QED
    BY <2>2, <2>3, <2>4 DEF TypeInv
<1>5. ASSUME NEW c \in 1..Conns, ReaderStops(c) PROVE TypeInv'
  BY <1>5 DEF TypeInv, ReaderStops, ReaderUnchanged
<1>6. ASSUME Engine, ~EngineConnects PROVE UNCHANGED <<reader, hand, received, accepted>>
  BY <1>6 DEF Engine, EngineRefused, EngineDrains, DrainEnds, LinkLost, WriteStalls,
              ReaderJoined, EngineStops, EngineUnchanged
<1>7. ASSUME Start PROVE UNCHANGED <<reader, hand, received, accepted>>
  BY <1>7 DEF Start, engVars
<1> QED
  BY <1>1, <1>2, <1>3, <1>4, <1>5, <1>6, <1>7, Frame, ReaderStep
     DEF Next, Main, engVars, vars

LEMMA OrderNext == OrderInv /\ [Next]_vars => OrderInv'
<1> SUFFICES ASSUME OrderInv, [Next]_vars PROVE OrderInv'
  OBVIOUS
<1> USE DEF OrderInv
<1>1. CASE UNCHANGED vars
  BY <1>1 DEF vars, srcVars, engVars
<1>2. CASE Start
  BY <1>2 DEF Start, MainSteps, srcVars, engVars
<1>3. CASE CloseTranscripts
  BY <1>3 DEF CloseTranscripts, MainSteps, MainUnchanged, engVars
<1>4. CASE \/ HubAwaited \/ Flush \/ CloseMonitor \/ FFmpegHangs \/ MonitorAwaited
           \/ CloseSource \/ CloseWriter
  BY <1>4 DEF HubAwaited, Flush, CloseMonitor, FFmpegHangs, MonitorAwaited, CloseSource,
              CloseWriter, MainSteps, MainUnchanged, engVars
<1>5. CASE Source
  BY <1>5 DEF Source, SourceSends, SourceEnds, SourceUnchanged, engVars
<1>6. CASE Wrap
  BY <1>6 DEF Wrap, Tap, WrapEnds, SourceUnchanged, engVars
<1>7. CASE Engine
  BY <1>7 DEF Engine, EngineRefused, EngineConnects, EngineDrains, DrainEnds,
              LinkLost, WriteStalls, ReaderJoined, EngineStops, EngineUnchanged, srcVars
<1>8. ASSUME NEW c \in 1..Conns, Reader(c) PROVE OrderInv'
  BY <1>8 DEF Reader, ReaderReceives, ReaderSends, ReaderStops,
              EngineUnchanged, ReaderUnchanged, srcVars
<1>9. CASE Hub \/ WriterTicks \/ Interrupt
  BY <1>9 DEF Hub, HubPublishes, HubWritesLine, HubEnds, HubUnchanged,
              WriterTicks, Interrupt, srcVars, engVars
<1> QED
  BY <1>1, <1>2, <1>3, <1>4, <1>5, <1>6, <1>7, <1>8, <1>9 DEF Next, Main, Finished

LEMMA ReaderNext == TypeInv /\ ReaderInv /\ OrderInv /\ [Next]_vars => ReaderInv'
<1> SUFFICES ASSUME TypeInv, ReaderInv, OrderInv, [Next]_vars,
                    "timeout" \notin faults'
             PROVE  \A c \in 1..Conns :
                      Active(c)' => conn' = c /\ engine' \in {"up", "stalled", "drain", "join"}
  BY DEF ReaderInv
<1> USE DEF Active, ReaderInv
<1>1. CASE UNCHANGED <<engine, conn, reader, faults>>
  BY <1>1
<1>2. CASE Start
  BY <1>2 DEF Start, MainSteps, OrderInv, engVars
<1>3. CASE EngineConnects
  BY <1>3 DEF EngineConnects, TypeInv
<1>4. CASE DrainEnds
  <2>1. "timeout" \notin faults /\ reader[conn] = "done"
    BY <1>4 DEF DrainEnds
  <2> QED
    BY <1>4, <2>1 DEF DrainEnds
<1>5. CASE ReaderJoined
  BY <1>5 DEF ReaderJoined
<1>6. CASE EngineRefused \/ EngineStops
  BY <1>6 DEF EngineRefused, EngineStops
<1>7. CASE LinkLost \/ (\E pause \in BOOLEAN : EngineDrains(pause))
           \/ WriteStalls("up", "stalled") \/ WriteStalls("stalled", "up")
  BY <1>7 DEF LinkLost, WriteStalls, EngineDrains
<1>8. ASSUME NEW c \in 1..Conns, Reader(c), NEW d \in 1..Conns, Active(d)'
      PROVE  conn' = d /\ engine' \in {"up", "stalled", "drain", "join"}
  <2>1. UNCHANGED <<engine, conn, faults>>
    BY <1>8 DEF Reader, ReaderReceives, ReaderSends, ReaderStops,
                EngineUnchanged, ReaderUnchanged
  <2>2. Active(d)
    BY <1>8 DEF Reader, ReaderReceives, ReaderSends, ReaderStops, TypeInv
  <2> QED
    BY <2>1, <2>2
<1> QED
  BY <1>1, <1>2, <1>3, <1>4, <1>5, <1>6, <1>7, <1>8, Frame
     DEF Next, Main, Engine, engVars, vars

LEMMA EndNext == EndInv /\ OrderInv /\ [Next]_vars => EndInv'
<1> SUFFICES ASSUME EndInv, OrderInv, [Next]_vars PROVE EndInv'
  OBVIOUS
<1> USE DEF EndInv, FramesOver
<1>1. CASE UNCHANGED <<ctx, source, wrap, engine, pausing>>
  BY <1>1
<1>2. CASE Start
  BY <1>2 DEF Start, MainSteps, engVars, srcVars
<1>3. CASE CloseSource
  BY <1>3 DEF CloseSource, MainUnchanged, engVars
<1>4. CASE \/ CloseTranscripts \/ HubAwaited \/ Flush \/ CloseMonitor \/ FFmpegHangs
           \/ MonitorAwaited \/ CloseWriter
  BY <1>4 DEF CloseTranscripts, HubAwaited, Flush, CloseMonitor, FFmpegHangs,
              MonitorAwaited, CloseWriter, MainUnchanged, engVars
<1>5. CASE Source
  BY <1>5 DEF Source, SourceSends, SourceEnds, SourceUnchanged, engVars
<1>6. CASE Wrap
  BY <1>6 DEF Wrap, Tap, WrapEnds, SourceUnchanged, engVars
<1>7. CASE Engine
  BY <1>7 DEF Engine, EngineRefused, EngineConnects, EngineDrains, DrainEnds,
              LinkLost, WriteStalls, ReaderJoined, EngineStops, EngineUnchanged, srcVars
<1>8. ASSUME NEW c \in 1..Conns, Reader(c) PROVE EndInv'
  BY <1>8 DEF Reader, ReaderReceives, ReaderSends, ReaderStops,
              EngineUnchanged, ReaderUnchanged, srcVars
<1>9. CASE Hub \/ WriterTicks
  BY <1>9 DEF Hub, HubPublishes, HubWritesLine, HubEnds, HubUnchanged,
              WriterTicks, srcVars, engVars
<1>10. CASE Interrupt
  BY <1>10 DEF Interrupt, engVars
<1> QED
  BY <1>1, <1>2, <1>3, <1>4, <1>5, <1>6, <1>7, <1>8, <1>9, <1>10
     DEF Next, Main, Finished, vars, srcVars, engVars

\* A panic is a reader or the monitor sending on a closed channel; a reader
\* that lives then has outlived its drain, and the monitor still has a frame
\* only if the audio was not over when the engine returned.
LEMMA PanicNext == CleanInv /\ [Next]_vars => EndOfFileIsClean'
<1> SUFFICES ASSUME CleanInv, [Next]_vars PROVE EndOfFileIsClean'
  OBVIOUS
<1> USE DEF EndOfFileIsClean
<1>1. EndOfFileIsClean
  BY DEF CleanInv
<1>2. ASSUME NEW c \in 1..Conns, ReaderSends(c), transClosed
      PROVE  "timeout" \in faults'
  <2>1. engine \in {"done", "failed"} /\ Active(c)
    BY <1>2 DEF CleanInv, OrderInv, ReaderSends, Active
  <2>2. "timeout" \in faults
    BY <2>1 DEF CleanInv, ReaderInv
  <2> QED
    BY <1>2, <2>2 DEF ReaderSends, ReaderUnchanged
<1>3. ASSUME Tap, tapClosed PROVE ctx' \/ engine' = "failed"
  <2>1. wrap = "tap" /\ UNCHANGED <<ctx, engine>>
    BY <1>3 DEF Tap, SourceUnchanged, engVars
  <2>2. engine \in {"done", "failed"}
    BY <1>3, <2>1 DEF CleanInv, OrderInv
  <2> QED
    BY <2>1, <2>2 DEF CleanInv, EndInv, FramesOver
<1>4. ASSUME panicked'
      PROVE  \/ panicked
             \/ Tap /\ tapClosed
             \/ \E c \in 1..Conns : ReaderSends(c) /\ transClosed
  BY <1>4
     DEF Next, vars, Main, Start, CloseTranscripts, HubAwaited, Flush,
         CloseMonitor, FFmpegHangs, MonitorAwaited, CloseSource, CloseWriter,
         MainUnchanged, Source, SourceSends, SourceEnds, Wrap, Tap, WrapEnds, Engine,
         EngineRefused, EngineConnects, EngineDrains, DrainEnds, LinkLost, WriteStalls,
         ReaderJoined, EngineStops, EngineUnchanged, Reader, ReaderReceives,
         ReaderSends, ReaderStops, Hub, HubPublishes, HubWritesLine, HubEnds,
         HubUnchanged, WriterTicks, Interrupt, Finished
<1>5. ASSUME panicked PROVE UNCHANGED <<ctx, engine, faults>>
  BY <1>5
     DEF Alive, Next, vars, Main, MainSteps, Start, CloseTranscripts, HubAwaited,
         Flush, CloseMonitor, FFmpegHangs, MonitorAwaited, CloseSource, CloseWriter,
         Source, SourceSends, SourceEnds, Wrap, Tap, WrapEnds, Engine, EngineRefused,
         EngineConnects, EngineDrains, DrainEnds, LinkLost, WriteStalls, ReaderJoined,
         EngineStops, Reader, ReaderReceives, ReaderSends, ReaderStops, Hub,
         HubPublishes, HubWritesLine, HubEnds, WriterTicks, Interrupt, Finished,
         srcVars, engVars
<1> QED
  BY <1>1, <1>2, <1>3, <1>4, <1>5

LEMMA InitCleanInv == Init => CleanInv
<1> SUFFICES ASSUME Init PROVE CleanInv
  OBVIOUS
<1> USE DEF Init
<1>1. TypeInv
  BY DEF TypeInv
<1>2. OrderInv /\ EndInv /\ EndOfFileIsClean
  BY DEF OrderInv, EndInv, EndOfFileIsClean
<1>3. ReaderInv
  BY DEF ReaderInv, Active
<1> QED
  BY <1>1, <1>2, <1>3 DEF CleanInv

LEMMA NextCleanInv == CleanInv /\ [Next]_vars => CleanInv'
BY TypeNext, OrderNext, ReaderNext, EndNext, PanicNext DEF CleanInv

\* A session that ends with its file does not die of a send on a closed
\* channel, whatever the interleaving of its goroutines (shutdown's order).
THEOREM FileEndsCleanly == Spec => []EndOfFileIsClean
<1>1. CleanInv => EndOfFileIsClean
  BY DEF CleanInv
<1> QED BY <1>1, InitCleanInv, NextCleanInv, PTL DEF Spec

-----------------------------------------------------------------------------
LEMMA SegmentNext ==
  CleanInv /\ SegmentInv /\ SegmentsInOrder /\ [Next]_vars
    => SegmentInv' /\ SegmentsInOrder'
<1> SUFFICES ASSUME CleanInv, SegmentInv, SegmentsInOrder, [Next]_vars
             PROVE  SegmentInv' /\ SegmentsInOrder'
  OBVIOUS
<1> USE DEF SegmentInv, SegmentsInOrder
<1>1. TypeInv /\ ReaderInv
  BY DEF CleanInv
<1>2. CASE UNCHANGED <<engVars, accepted>>
  BY <1>2 DEF engVars
<1>3. CASE Start
  BY <1>3 DEF Start, engVars
<1>4. ASSUME Engine
      PROVE  /\ "timeout" \in faults => "timeout" \in faults'
             /\ UNCHANGED <<hand, received, accepted>>
             /\ \A c \in 1..Conns : reader'[c] = "sending" => reader[c] = "sending"
  BY <1>1, <1>4
     DEF TypeInv, Engine, EngineRefused, EngineConnects, EngineDrains, DrainEnds,
         LinkLost, WriteStalls, ReaderJoined, EngineStops, EngineUnchanged
<1>5. CASE Engine
  BY <1>4, <1>5
<1>6. ASSUME NEW c \in 1..Conns, NEW last \in BOOLEAN, ReaderReceives(c, last)
      PROVE  SegmentInv' /\ SegmentsInOrder'
  <2>1. /\ received' = received + 1 /\ UNCHANGED <<accepted, faults>>
        /\ hand'[c].segment = received + 1
        /\ \A d \in 1..Conns \ {c} : hand'[d] = hand[d] /\ reader'[d] = reader[d]
    BY <1>1, <1>6 DEF ReaderReceives, EngineUnchanged, TypeInv
  <2>2. received \in Nat /\ \A i \in DOMAIN accepted : accepted[i] \in Nat
    BY <1>1 DEF TypeInv
  <2>3. \A d \in 1..Conns : reader[d] = "sending" => hand[d].segment \in Nat
    BY <1>1 DEF TypeInv
  <2> QED
    BY <2>1, <2>2, <2>3
<1>7. ASSUME NEW c \in 1..Conns, ReaderSends(c)
      PROVE  SegmentInv' /\ SegmentsInOrder'
  <2>1. UNCHANGED <<faults, received>> /\ reader[c] = "sending"
    BY <1>7 DEF ReaderSends, ReaderUnchanged
  <2>2. CASE transClosed
    BY <1>7, <2>1, <2>2 DEF ReaderSends
  <2>3. CASE ~transClosed
    <3> SUFFICES ASSUME "timeout" \notin faults
                 PROVE  SegmentInv' /\ SegmentsInOrder'
      BY <2>1
    <3> DEFINE s == hand[c].segment
    <3>1. /\ accepted' = Append(accepted, s)
          /\ \A d \in 1..Conns : reader'[d] = "sending" => d # c /\ reader[d] = "sending"
      BY <1>1, <1>7, <2>3 DEF ReaderSends, TypeInv
    <3>2. \A d \in 1..Conns : reader'[d] # "sending"
      BY <1>1, <2>1, <3>1 DEF ReaderInv, Active
    <3>3. accepted \in Seq(Nat) /\ s \in Nat /\ received \in Nat
      BY <1>1, <2>1 DEF TypeInv
    <3>4. s <= received /\ \A i \in DOMAIN accepted : accepted[i] < s
      BY <2>1
    <3> HIDE DEF s
    <3>5. /\ \A i \in DOMAIN accepted' : accepted'[i] <= received
          /\ \A i, j \in DOMAIN accepted' : i < j => accepted'[i] < accepted'[j]
      BY <3>1, <3>3, <3>4, SMTT(30)
    <3> QED
      BY <2>1, <3>2, <3>5
  <2> QED
    BY <2>2, <2>3
<1>8. ASSUME NEW c \in 1..Conns, ReaderStops(c)
      PROVE  SegmentInv' /\ SegmentsInOrder'
  <2>1. /\ UNCHANGED <<faults, received, accepted>>
        /\ \A d \in 1..Conns : reader'[d] = "sending" =>
             reader[d] = "sending" /\ hand'[d] = hand[d]
    BY <1>1, <1>8 DEF ReaderStops, ReaderUnchanged, TypeInv
  <2> QED
    BY <2>1
<1> QED
  BY <1>2, <1>3, <1>5, <1>6, <1>7, <1>8, Frame, ReaderStep
     DEF Next, Main, vars

\* Segments reach the hub in the order the recognizer sent them, across any
\* number of reconnects, unless a drain ran out (runConnection's joins).
THEOREM ReconnectsKeepOrder == Spec => []SegmentsInOrder
<1>1. Init => SegmentInv /\ SegmentsInOrder
  BY DEF Init, SegmentInv, SegmentsInOrder
<1> QED BY <1>1, SegmentNext, InitCleanInv, NextCleanInv, PTL DEF Spec

-----------------------------------------------------------------------------
\* A file that failed once fails for good (bufio's sticky error).
LEMMA FailureIsSticky ==
  ASSUME NEW f, NEW l, NEW g, f.failed, g \in Writes(f, l) \/ g \in Flushes(f)
  PROVE  g = f
BY DEF Writes, Flushes

\* The health badge is neither late nor early (Write, flush, metrics.go).
THEOREM BadgeIsRight == Spec => []BadgeTellsTheTruth
<1> DEFINE BadgeInv == transErr \in BOOLEAN /\ BadgeTellsTheTruth
<1>1. Init => BadgeInv
  <2>1. ~EmptyFile.failed
    BY DEF EmptyFile
  <2> QED
    BY <2>1 DEF Init, WriterInit, BadgeTellsTheTruth
<1>2. BadgeInv /\ [Next]_vars => BadgeInv'
  <2> SUFFICES ASSUME BadgeInv, [Next]_vars PROVE BadgeInv'
    OBVIOUS
  <2> USE DEF BadgeTellsTheTruth
  <2>1. CASE UNCHANGED writerVars
    BY <2>1 DEF writerVars
  <2>2. ASSUME NEW l, WriteOpen(l) PROVE BadgeInv'
    <3>1. /\ txt.failed => txt' = txt
          /\ jsonl.failed /\ ~txt'.failed => jsonl' = jsonl
      BY <2>2, FailureIsSticky DEF WriteOpen
    <3>2. /\ transErr' = (transErr \/ txt'.failed \/ jsonl'.failed)
          /\ ~closed /\ ~closed'
      BY <2>2 DEF WriteOpen
    <3> QED
      BY <3>1, <3>2
  <2>3. CASE Tick
    <3>1. /\ txt.failed => txt' = txt
          /\ jsonl.failed => jsonl' = jsonl
      BY <2>3, FailureIsSticky DEF Tick
    <3>2. /\ transErr' = (transErr \/ txt'.failed \/ jsonl'.failed)
          /\ ~closed /\ ~closed'
      BY <2>3 DEF Tick
    <3> QED
      BY <3>1, <3>2
  <2>4. CASE Close
    BY <2>4 DEF Close
  <2>5. Next => UNCHANGED writerVars \/ (\E l : WriteOpen(l)) \/ Tick \/ Close
    BY DEF Next, vars, Main, Start, CloseTranscripts, HubAwaited, Flush,
           CloseMonitor, FFmpegHangs, MonitorAwaited, CloseSource, CloseWriter, Source,
           SourceSends, SourceEnds, SourceUnchanged, Wrap, Tap, WrapEnds, Engine,
           EngineRefused, EngineConnects, EngineDrains, DrainEnds, LinkLost,
           WriteStalls, ReaderJoined, EngineStops, EngineUnchanged, Reader,
           ReaderReceives, ReaderSends, ReaderStops, ReaderUnchanged, Hub, HubPublishes,
           HubWritesLine, HubEnds, WriterTicks, Interrupt, Finished, Write
  <2> QED
    BY <2>1, <2>2, <2>3, <2>4, <2>5 DEF vars
<1> QED BY <1>1, <1>2, PTL DEF Spec

-----------------------------------------------------------------------------
(* FlattenSeq, by its recursive equation.  The induction is on the least    *)
(* counterexample: a set of natural numbers that is not empty has one.      *)

LEMMA Smallest ==
  ASSUME NEW S \in SUBSET Nat, S # {}
  PROVE  \E m \in S : \A j \in S : ~(j < m)
<1>1. PICK m \in S : \A j \in S : ~ (<<j, m>> \in OpToRel(<, Nat))
  BY NatLessThanWellFounded, WFMin
<1>2. \A j \in S : <<j, m>> \in OpToRel(<, Nat) <=> j < m
  BY DEF OpToRel
<1> QED BY <1>1, <1>2, Zenon

\* f is what FlattenSeq computes for the first n sequences of ss.
IsFlat(f, ss, n) ==
  f = [i \in 1..n |-> IF i = 1 THEN ss[i] ELSE f[i-1] \o ss[i]]

Agree(ss, tt, n) == \A i \in 1..n : ss[i] = tt[i]

LEMMA FlatExists ==
  ASSUME NEW ss, NEW n \in Nat
  PROVE  \E f : IsFlat(f, ss, n)
<1> DEFINE T == {k \in Nat : ~ \E f : IsFlat(f, ss, k)}
<1> SUFFICES ASSUME T # {} PROVE FALSE
  OBVIOUS
<1>1. PICK m \in T : \A j \in T : ~(j < m)
  BY Smallest
<1>2. m # 0
  <2> DEFINE f0 == [i \in 1..0 |-> ss[i]]
  <2>1. IsFlat(f0, ss, 0)
    BY DEF IsFlat
  <2> QED
    BY <2>1
<1>3. m \in Nat /\ m - 1 \in Nat /\ m - 1 \notin T
  BY <1>1, <1>2
<1>4. PICK g : IsFlat(g, ss, m - 1)
  BY <1>3
<1> DEFINE h == [i \in 1..m |-> IF i = m THEN IF m = 1 THEN ss[m] ELSE g[m - 1] \o ss[m]
                                ELSE g[i]]
<1>5. \A i \in 1..m : h[i] = IF i = 1 THEN ss[i] ELSE h[i-1] \o ss[i]
  <2> SUFFICES ASSUME NEW i \in 1..m PROVE h[i] = IF i = 1 THEN ss[i] ELSE h[i-1] \o ss[i]
    OBVIOUS
  <2>1. CASE i = m
    BY <2>1, <1>3
  <2>2. CASE i # m
    <3>1. i \in 1..m - 1 /\ (i # 1 => i - 1 \in 1..m - 1)
      BY <2>2, <1>3
    <3>2. g[i] = IF i = 1 THEN ss[i] ELSE g[i-1] \o ss[i]
      BY <1>4, <3>1 DEF IsFlat
    <3>3. h[i] = g[i] /\ (i # 1 => i - 1 \in 1..m /\ h[i - 1] = g[i - 1])
      BY <3>1, <1>3
    <3> QED
      BY <3>2, <3>3
  <2> QED
    BY <2>1, <2>2
<1>6. IsFlat(h, ss, m)
  BY <1>5 DEF IsFlat
<1> QED
  BY <1>6

LEMMA FlattenSeqIs ==
  ASSUME NEW S, NEW ss \in Seq(S), ss # <<>>
  PROVE  \E f : IsFlat(f, ss, Len(ss)) /\ FlattenSeq(ss) = f[Len(ss)]
<1>1. Len(ss) \in Nat /\ Len(ss) # 0
  OBVIOUS
<1> DEFINE F == CHOOSE f : f = [i \in 1..Len(ss) |-> IF i = 1 THEN ss[i] ELSE f[i-1] \o ss[i]]
<1>2. F = [i \in 1..Len(ss) |-> IF i = 1 THEN ss[i] ELSE F[i-1] \o ss[i]]
  <2>1. \E f : f = [i \in 1..Len(ss) |-> IF i = 1 THEN ss[i] ELSE f[i-1] \o ss[i]]
    BY <1>1, FlatExists DEF IsFlat
  <2> QED
    BY <2>1, Zenon
<1>3. FlattenSeq(ss) = F[Len(ss)]
  BY <1>1, Zenon DEF FlattenSeq
<1> QED
  BY <1>2, <1>3 DEF IsFlat

LEMMA FlatUnique ==
  ASSUME NEW f, NEW g, NEW ss, NEW tt, NEW n \in Nat, NEW m \in Nat,
         IsFlat(f, ss, n), IsFlat(g, tt, m), n <= m,
         Agree(ss, tt, n)
  PROVE  Agree(f, g, n)
<1> USE DEF Agree
<1> DEFINE T == {k \in 1..n : f[k] # g[k]}
<1> SUFFICES ASSUME T # {} PROVE FALSE
  OBVIOUS
<1>0. T \in SUBSET Nat
  OBVIOUS
<1>1. PICK k \in T : \A j \in T : ~(j < k)
  <2> HIDE DEF T
  <2> QED
    BY <1>0, Smallest
<1>2. k \in 1..n /\ k \in 1..m /\ f[k] # g[k]
  BY <1>1
<1>3. /\ f[k] = IF k = 1 THEN ss[k] ELSE f[k-1] \o ss[k]
      /\ g[k] = IF k = 1 THEN tt[k] ELSE g[k-1] \o tt[k]
  BY <1>2 DEF IsFlat
<1>4. ss[k] = tt[k] /\ (k # 1 => k - 1 \in 1..n)
  BY <1>2
<1>5. k # 1 => f[k - 1] = g[k - 1]
  BY <1>1, <1>4
<1> QED
  BY <1>2, <1>3, <1>4, <1>5

\* Appending to what is flattened appends to the result.
LEMMA FlattenAppend ==
  ASSUME NEW S, NEW ss \in Seq(Seq(S)), NEW e \in Seq(S)
  PROVE  FlattenSeq(Append(ss, e)) = FlattenSeq(ss) \o e
<1> DEFINE tt == Append(ss, e)
           n  == Len(ss)
<1>1. /\ tt \in Seq(Seq(S)) /\ tt # <<>> /\ n \in Nat
      /\ Len(tt) = n + 1 /\ tt[n + 1] = e
      /\ \A i \in 1..n : ss[i] = tt[i]
  BY AppendProperties
<1>2. PICK g : IsFlat(g, tt, n + 1) /\ FlattenSeq(tt) = g[n + 1]
  <2> HIDE DEF tt, n
  <2> QED
    BY <1>1, FlattenSeqIs
<1>3. g[n + 1] = IF n + 1 = 1 THEN e ELSE g[n] \o e
  <2>1. n + 1 \in 1..n + 1 /\ (n + 1) - 1 = n
    BY <1>1
  <2> QED
    BY <1>1, <1>2, <2>1 DEF IsFlat
<1>4. CASE ss = <<>>
  <2>1. FlattenSeq(ss) = <<>> /\ n = 0
    BY <1>4 DEF FlattenSeq
  <2> QED
    BY <1>2, <1>3, <2>1
<1>5. CASE ss # <<>>
  <2>1. PICK f : IsFlat(f, ss, n) /\ FlattenSeq(ss) = f[n]
    BY <1>5, FlattenSeqIs
  <2>2. n \in 1..n
    BY <1>1, <1>5
  <2> HIDE DEF tt, n
  <2>3. n + 1 \in Nat /\ n <= n + 1
    BY <1>1
  <2>5. Agree(f, g, n)
    <3>1. n \in Nat /\ Agree(ss, tt, n)
      BY <1>1 DEF Agree
    <3>2. IsFlat(f, ss, n) /\ IsFlat(g, tt, n + 1)
      BY <1>2, <2>1
    <3> QED
      BY <2>3, <3>1, <3>2, FlatUnique, Zenon
  <2>6. f[n] = g[n]
    BY <2>2, <2>5 DEF Agree
  <2>4. n + 1 # 1
    BY <2>2
  <2> QED
    BY <1>2, <1>3, <2>1, <2>4, <2>6 DEF tt
<1> QED
  BY <1>4, <1>5

LEMMA FlattenType ==
  ASSUME NEW S, NEW ss \in Seq(Seq(S))
  PROVE  FlattenSeq(ss) \in Seq(S)
<1>1. CASE ss = <<>>
  BY <1>1 DEF FlattenSeq
<1>2. CASE ss # <<>>
  <2>1. PICK f : IsFlat(f, ss, Len(ss)) /\ FlattenSeq(ss) = f[Len(ss)]
    BY <1>2, FlattenSeqIs
  <2> DEFINE T == {k \in 1..Len(ss) : f[k] \notin Seq(S)}
  <2>2. T = {}
    <3> SUFFICES ASSUME T # {} PROVE FALSE
      OBVIOUS
    <3>0. T \in SUBSET Nat
      OBVIOUS
    <3>1. PICK k \in T : \A j \in T : ~(j < k)
      <4> HIDE DEF T
      <4> QED
        BY <3>0, Smallest
    <3>2. k \in 1..Len(ss) /\ f[k] \notin Seq(S)
      BY <3>1
    <3>3. f[k] = IF k = 1 THEN ss[k] ELSE f[k-1] \o ss[k]
      BY <2>1, <3>2 DEF IsFlat
    <3>4. ss[k] \in Seq(S) /\ (k # 1 => k - 1 \in 1..Len(ss))
      BY <3>2
    <3>5. k # 1 => f[k - 1] \in Seq(S)
      BY <3>1, <3>4
    <3> QED
      BY <3>2, <3>3, <3>4, <3>5
  <2>3. Len(ss) \in 1..Len(ss)
    BY <1>2
  <2> QED
    BY <2>1, <2>2, <2>3
<1> QED
  BY <1>1, <1>2

-----------------------------------------------------------------------------
\* A piece of a line, and a file of the writer: what is on disk, what waits
\* in the buffer, and whether it has failed.
Piece == Seq(Nat) \X {"head", "tail"}
Files == [buf : Seq(Piece), disk : Seq(Piece), failed : BOOLEAN]
Transcripts == [segment : Nat, last : BOOLEAN]

\* What a file was given and still has a chance to keep.
Held(f) == f.disk \o f.buf

\* Each file holds a beginning of the transcript, all of it until it fails;
\* transcript.jsonl stops with transcript.txt and never runs ahead of it.
FileInv ==
  /\ txt \in Files /\ jsonl \in Files /\ lines \in Seq(Seq(Nat))
  /\ IsPrefix(Held(txt), Rendered(lines)) /\ IsPrefix(Held(jsonl), Rendered(lines))
  /\ ~txt.failed => Held(txt) = Rendered(lines)
  /\ ~txt.failed /\ ~jsonl.failed => Held(jsonl) = Rendered(lines)
  /\ Len(Held(jsonl)) <= Len(Held(txt))

\* Without a reported error no file has failed and every line is counted; a
\* Close that returned none has emptied both buffers.
SilenceInv ==
  /\ linesWritten \in Nat
  /\ ~transErr => linesWritten = Len(lines)
  /\ ~transErr /\ (closed => ~closeErr) => ~txt.failed /\ ~jsonl.failed
  /\ closed /\ ~transErr /\ ~closeErr => txt.buf = <<>> /\ jsonl.buf = <<>>

\* The types of what travels from a reader to the open line.
TravelInv ==
  /\ trans \in Seq(Transcripts) /\ pending \in Seq(Nat)
  /\ \A c \in 1..Conns : reader[c] = "sending" => hand[c] \in Transcripts

Segments(tr) == [i \in DOMAIN tr |-> tr[i].segment]

\* Once the hub has been waited for, the channel is empty for good, and once
\* the hub is flushed no line is open; the writer is closed at the very end.
StageInv ==
  /\ main \in {"start", "engine", "hub", "flush", "closeMonitor", "awaitMonitor",
               "monitorHangs", "closeSource", "sourceHangs", "closeWriter", "exited"}
  /\ main = "start" \/ engine = "off" =>
       hub = "off" /\ trans = <<>> /\ pending = <<>> /\ \A c \in 1..Conns : reader[c] = "off"
  /\ main = "hub" => transClosed
  /\ main \notin {"start", "engine", "hub"} => engine = "off" \/ hub = "done"
  /\ hub = "done" => trans = <<>> /\ transClosed
  /\ main \notin {"start", "engine", "hub", "flush"} => pending = <<>>
  /\ closed => main = "exited"

\* Nothing is lost or repeated between the channel and the transcript.
FlightInv == FlattenSeq(lines) \o (pending \o Segments(trans)) = accepted

\* A connection is cut only when it has been made.
CutInv ==
  /\ conn \in 0..Conns /\ cut \subseteq 1..conn
  /\ engine \in {"up", "stalled", "drain", "join"} => conn # 0

\* As long as nothing went wrong a connection is cut only after its reader is
\* done, so every segment received is accepted or held by the one reader.
HeldInv ==
  faults = {} =>
    /\ \A c \in cut : reader[c] = "done"
    /\ \A i \in DOMAIN accepted : accepted[i] = i
    /\ \A c \in 1..Conns : reader[c] = "sending" =>
         hand[c].segment = received /\ received = Len(accepted) + 1
    /\ (\A c \in 1..Conns : reader[c] # "sending") => received = Len(accepted)

\* What a full flush or a full buffer writes is taken from the buffer's front,
\* so a file's content is the same before and after.
LEMMA DrainedKeeps ==
  ASSUME NEW f \in Files, NEW n \in 0..Len(f.buf)
  PROVE  /\ Drained(f, n) \in Files /\ Held(Drained(f, n)) = Held(f)
         /\ Drained(f, n).failed = f.failed
         /\ n = Len(f.buf) => Drained(f, n).buf = <<>>
<1> DEFINE front == SubSeq(f.buf, 1, n)
           rest  == SubSeq(f.buf, n + 1, Len(f.buf))
<1>1. f.buf \in Seq(Piece) /\ f.disk \in Seq(Piece) /\ n \in Nat /\ n <= Len(f.buf)
  BY DEF Files
<1>2. front \in Seq(Piece) /\ rest \in Seq(Piece) /\ (n = Len(f.buf) => rest = <<>>)
  BY <1>1
<1>3. front \o rest = f.buf
  <2>1. 1 \in 1..Len(f.buf) + 1 /\ n \in 1 - 1 .. Len(f.buf) /\ Len(f.buf) \in n..Len(f.buf)
    BY <1>1
  <2>2. SubSeq(f.buf, 1, n) \o SubSeq(f.buf, n + 1, Len(f.buf)) = SubSeq(f.buf, 1, Len(f.buf))
    BY <1>1, <2>1, ConcatAdjacentSubSeq
  <2> QED
    BY <1>1, <2>2, SubSeqFull
<1>4. Drained(f, n) = [buf |-> rest, disk |-> f.disk \o front, failed |-> f.failed]
  <2>1. f = [buf |-> f.buf, disk |-> f.disk, failed |-> f.failed]
    BY DEF Files
  <2> DEFINE d == f.disk \o front
  <2>2. Drained(f, n) = [f EXCEPT !.buf = rest, !.disk = d]
    BY DEF Drained
  <2> HIDE DEF front, rest, d
  <2>3. Drained(f, n) = [buf |-> rest, disk |-> d, failed |-> f.failed]
    BY <2>1, <2>2
  <2> QED
    BY <2>3 DEF d
<1>5. (f.disk \o front) \o rest = f.disk \o (front \o rest)
  <2> HIDE DEF front, rest
  <2> DEFINE d == f.disk
  <2>1. d \in Seq(Piece) /\ front \in Seq(Piece) /\ rest \in Seq(Piece)
    BY <1>1, <1>2
  <2> HIDE DEF d
  <2>2. (d \o front) \o rest = d \o (front \o rest)
    BY <2>1, ConcatAssociative
  <2> QED
    BY <2>2 DEF d
<1>6. f.disk \o front \in Seq(Piece) /\ f.failed \in BOOLEAN
  <2> HIDE DEF front, rest
  <2> QED
    BY <1>1, <1>2, ConcatProperties DEF Files
<1> HIDE DEF front, rest
<1>7. Drained(f, n) \in Files
  BY <1>2, <1>4, <1>6 DEF Files
<1>8. Held(Drained(f, n)) = Held(f)
  <2>1. Drained(f, n).disk = f.disk \o front /\ Drained(f, n).buf = rest
    BY <1>4
  <2> QED
    BY <1>3, <1>5, <2>1, Zenon DEF Held
<1> QED
  BY <1>2, <1>4, <1>7, <1>8

LEMMA DrainsKeep ==
  ASSUME NEW f \in Files, NEW n \in 0..Len(f.buf), NEW g \in Drains(f, n)
  PROVE  /\ g \in Files /\ Held(g) = Held(f)
         /\ n = Len(f.buf) /\ ~g.failed => g.buf = <<>>
         /\ f.failed => g.failed
<1>1. CASE g = Drained(f, n)
  BY <1>1, DrainedKeeps
<1>2. ASSUME NEW k \in 0..n - 1, g = [Drained(f, k) EXCEPT !.failed = TRUE]
      PROVE  g \in Files /\ Held(g) = Held(f) /\ g.failed
  <2>1. k \in 0..Len(f.buf)
    BY DEF Files
  <2>2. Drained(f, k) \in Files /\ Held(Drained(f, k)) = Held(f)
    BY <2>1, DrainedKeeps
  <2> QED
    BY <1>2, <2>2 DEF Files, Held
<1> QED
  BY <1>1, <1>2 DEF Drains

LEMMA FlushesKeep ==
  ASSUME NEW f \in Files, NEW g \in Flushes(f)
  PROVE  /\ g \in Files /\ Held(g) = Held(f)
         /\ ~g.failed => g.buf = <<>>
         /\ f.failed => g.failed
<1>1. CASE f.failed \/ f.buf = <<>>
  BY <1>1 DEF Flushes
<1>2. CASE ~(f.failed \/ f.buf = <<>>)
  <2>1. g \in Drains(f, Len(f.buf)) /\ Len(f.buf) \in 0..Len(f.buf)
    BY <1>2 DEF Flushes, Files
  <2> QED
    BY <2>1, DrainsKeep
<1> QED
  BY <1>1, <1>2

LEMMA PiecesType ==
  ASSUME NEW l \in Seq(Nat)
  PROVE  Pieces(l) \in Seq(Piece) /\ Len(Pieces(l)) = 2
<1>1. <<l, "head">> \in Piece /\ <<l, "tail">> \in Piece
  BY DEF Piece
<1> QED
  BY <1>1 DEF Pieces

LEMMA WritesKeep ==
  ASSUME NEW f \in Files, NEW l \in Seq(Nat), NEW g \in Writes(f, l)
  PROVE  /\ g \in Files
         /\ f.failed => g = f
         /\ ~f.failed => Held(g) = Held(f) \o Pieces(l)
<1> DEFINE filled == [f EXCEPT !.buf = @ \o Pieces(l)]
<1>1. f.buf \in Seq(Piece) /\ f.disk \in Seq(Piece) /\ f.failed \in BOOLEAN
      /\ Pieces(l) \in Seq(Piece)
  BY PiecesType DEF Files
<1>2. filled = [buf |-> f.buf \o Pieces(l), disk |-> f.disk, failed |-> f.failed]
  <2>1. f = [buf |-> f.buf, disk |-> f.disk, failed |-> f.failed]
    BY DEF Files
  <2> DEFINE b == f.buf \o Pieces(l)
  <2>2. filled = [f EXCEPT !.buf = b]
    OBVIOUS
  <2> HIDE DEF filled, b
  <2>3. filled = [buf |-> b, disk |-> f.disk, failed |-> f.failed]
    BY <2>1, <2>2
  <2> QED
    BY <2>3 DEF b
<1>3. filled \in Files
  BY <1>1, <1>2, ConcatProperties DEF Files
<1>4. Held(filled) = Held(f) \o Pieces(l)
  <2>1. (f.disk \o f.buf) \o Pieces(l) = f.disk \o (f.buf \o Pieces(l))
    <3> DEFINE d == f.disk
               b == f.buf
               p == Pieces(l)
    <3>1. d \in Seq(Piece) /\ b \in Seq(Piece) /\ p \in Seq(Piece)
      BY <1>1
    <3> HIDE DEF d, b, p
    <3>2. (d \o b) \o p = d \o (b \o p)
      BY <3>1, ConcatAssociative, SMTT(30)
    <3> QED
      BY <3>2 DEF d, b, p
  <2>2. filled.disk = f.disk /\ filled.buf = f.buf \o Pieces(l)
    BY <1>2
  <2> QED
    BY <2>1, <2>2, Zenon DEF Held
<1>5. CASE f.failed
  BY <1>5 DEF Writes
<1>6. CASE ~f.failed
  <2>1. Len(filled.buf) <= BufferCap \/ BufferCap \in 0..Len(filled.buf)
    BY <1>3, WriterAssumption DEF Files
  <2>2. g = filled \/ (BufferCap \in 0..Len(filled.buf) /\ g \in Drains(filled, BufferCap))
    BY <1>6, <2>1 DEF Writes
  <2> HIDE DEF filled
  <2>3. g \in Files /\ Held(g) = Held(filled)
    BY <1>3, <2>2, DrainsKeep
  <2> QED
    BY <1>4, <1>6, <2>3
<1> QED
  BY <1>5, <1>6

LEMMA RenderedAppend ==
  ASSUME NEW ls \in Seq(Seq(Nat)), NEW l \in Seq(Nat)
  PROVE  /\ Rendered(ls) \in Seq(Piece)
         /\ Rendered(Append(ls, l)) = Rendered(ls) \o Pieces(l)
<1> DEFINE ps == [i \in DOMAIN ls |-> Pieces(ls[i])]
           qs == [i \in DOMAIN Append(ls, l) |-> Pieces(Append(ls, l)[i])]
<1>1. Pieces(l) \in Seq(Piece) /\ \A i \in 1..Len(ls) : Pieces(ls[i]) \in Seq(Piece)
  BY PiecesType
<1>2. /\ Len(Append(ls, l)) = Len(ls) + 1 /\ Append(ls, l)[Len(ls) + 1] = l
      /\ \A i \in 1..Len(ls) : Append(ls, l)[i] = ls[i]
      /\ DOMAIN Append(ls, l) = 1..Len(ls) + 1 /\ DOMAIN ls = 1..Len(ls) /\ Len(ls) \in Nat
  BY AppendProperties
<1>3. ps \in Seq(Seq(Piece)) /\ Len(ps) = Len(ls)
  <2>1. ps \in [1..Len(ls) -> Seq(Piece)]
    BY <1>1, <1>2
  <2> QED
    BY <1>2, <2>1
<1>4. qs \in Seq(Seq(Piece)) /\ Len(qs) = Len(ls) + 1
  <2>1. \A i \in 1..Len(ls) + 1 : qs[i] \in Seq(Piece)
    BY <1>1, <1>2
  <2>2. qs \in [1..Len(ls) + 1 -> Seq(Piece)]
    BY <1>2, <2>1
  <2> QED
    BY <1>2, <2>2
<1>5. qs = Append(ps, Pieces(l))
  <2>1. /\ Append(ps, Pieces(l)) \in Seq(Seq(Piece))
        /\ Len(Append(ps, Pieces(l))) = Len(ls) + 1
        /\ \A i \in 1..Len(ls) : Append(ps, Pieces(l))[i] = ps[i]
        /\ Append(ps, Pieces(l))[Len(ls) + 1] = Pieces(l)
    <3> DEFINE p == Pieces(l)
    <3>1. ps \in Seq(Seq(Piece)) /\ p \in Seq(Piece) /\ Len(ps) = Len(ls)
      BY <1>1, <1>3
    <3> HIDE DEF ps, p
    <3>2. /\ Append(ps, p) \in Seq(Seq(Piece))
          /\ Len(Append(ps, p)) = Len(ps) + 1
          /\ \A i \in 1..Len(ps) : Append(ps, p)[i] = ps[i]
          /\ Append(ps, p)[Len(ps) + 1] = p
      BY <3>1, AppendProperties
    <3> QED
      BY <3>1, <3>2 DEF p
  <2>2. \A i \in 1..Len(ls) + 1 : qs[i] = Append(ps, Pieces(l))[i]
    <3> SUFFICES ASSUME NEW i \in 1..Len(ls) + 1 PROVE qs[i] = Append(ps, Pieces(l))[i]
      OBVIOUS
    <3>1. CASE i = Len(ls) + 1
      BY <1>2, <2>1, <3>1
    <3>2. CASE i \in 1..Len(ls)
      BY <1>2, <2>1, <3>2
    <3> QED
      BY <1>2, <3>1, <3>2
  <2> HIDE DEF ps, qs
  <2> QED
    BY <1>4, <2>1, <2>2, SeqEqual
<1>6. Rendered(ls) = FlattenSeq(ps) /\ Rendered(Append(ls, l)) = FlattenSeq(qs)
  BY DEF Rendered
<1> HIDE DEF ps, qs
<1> QED
  BY <1>1, <1>3, <1>5, <1>6, FlattenAppend, FlattenType

-----------------------------------------------------------------------------
LEMMA PrefixMeans ==
  ASSUME NEW S, NEW s \in Seq(S), NEW t \in Seq(S)
  PROVE  IsPrefix(s, t) <=> Len(s) <= Len(t) /\ \A i \in 1..Len(s) : s[i] = t[i]
<1>1. CASE Len(s) <= Len(t)
  <2> DEFINE u == SubSeq(t, 1, Len(s))
             v == SubSeq(s, 1, Len(s))
  <2>1. v = s
    BY SubSeqFull
  <2>2. u \in Seq(S) /\ Len(u) = Len(s) /\ \A i \in 1..Len(s) : u[i] = t[i]
    BY <1>1
  <2>3. u = s <=> \A i \in 1..Len(s) : s[i] = t[i]
    <3> HIDE DEF u
    <3> QED
      BY <2>2, SeqEqual
  <2>4. IsPrefix(s, t) <=> v = u
    BY <1>1 DEF IsPrefix
  <2> QED
    BY <1>1, <2>1, <2>3, <2>4
<1>2. CASE ~(Len(s) <= Len(t))
  BY <1>2 DEF IsPrefix
<1> QED
  BY <1>1, <1>2

\* A prefix stays one when its sequence grows, and so does a part of it.
LEMMA PrefixGrows ==
  ASSUME NEW S, NEW s \in Seq(S), NEW t \in Seq(S), NEW u \in Seq(S)
  PROVE  /\ IsPrefix(t, t)
         /\ IsPrefix(s, t) => IsPrefix(s, t \o u)
         /\ IsPrefix(s \o u, t) => IsPrefix(s, t)
<1>1. t \o u \in Seq(S) /\ s \o u \in Seq(S)
      /\ Len(t \o u) = Len(t) + Len(u) /\ Len(s \o u) = Len(s) + Len(u)
  BY ConcatProperties
<1>2. IsPrefix(t, t)
  BY PrefixMeans
<1>3. ASSUME IsPrefix(s, t) PROVE IsPrefix(s, t \o u)
  <2>1. Len(s) <= Len(t) /\ \A i \in 1..Len(s) : s[i] = t[i]
    BY <1>3, PrefixMeans
  <2>2. \A i \in 1..Len(s) : (t \o u)[i] = t[i]
    BY <2>1, ConcatProperties
  <2>3. Len(s) <= Len(t \o u) /\ \A i \in 1..Len(s) : s[i] = (t \o u)[i]
    BY <1>1, <2>1, <2>2
  <2> QED
    BY <1>1, <2>3, PrefixMeans
<1>4. ASSUME IsPrefix(s \o u, t) PROVE IsPrefix(s, t)
  <2> DEFINE w == s \o u
  <2>1. Len(w) <= Len(t) /\ \A i \in 1..Len(w) : w[i] = t[i]
    <3>1. w \in Seq(S) /\ IsPrefix(w, t)
      BY <1>1, <1>4
    <3> HIDE DEF w
    <3> QED
      BY <3>1, PrefixMeans
  <2>2. \A i \in 1..Len(s) : (s \o u)[i] = s[i]
    BY ConcatProperties
  <2>3. Len(s) <= Len(t) /\ \A i \in 1..Len(s) : s[i] = t[i]
    BY <1>1, <2>1, <2>2
  <2> QED
    BY <2>3, PrefixMeans
<1> QED
  BY <1>2, <1>3, <1>4

-----------------------------------------------------------------------------
LEMMA HeldType ==
  ASSUME NEW f \in Files
  PROVE  Held(f) \in Seq(Piece)
BY ConcatProperties DEF Held, Files

LEMMA FileWrite ==
  ASSUME FileInv, NEW l \in Seq(Nat), WriteOpen(l)
  PROVE  FileInv'
<1> DEFINE r == Rendered(lines)
           p == Pieces(l)
           ht == Held(txt)
           hj == Held(jsonl)
<1>1. /\ lines' \in Seq(Seq(Nat)) /\ Rendered(lines') = r \o p
      /\ r \in Seq(Piece) /\ p \in Seq(Piece)
  <2>1. lines \in Seq(Seq(Nat)) /\ lines' = Append(lines, l)
    BY DEF FileInv, WriteOpen
  <2> QED
    BY <2>1, RenderedAppend, PiecesType, AppendProperties
<1>2. ht \in Seq(Piece) /\ hj \in Seq(Piece)
  BY HeldType DEF FileInv
<1>3. /\ txt' \in Files
      /\ txt.failed => txt' = txt
      /\ ~txt.failed => Held(txt') = ht \o p
  BY WritesKeep DEF FileInv, WriteOpen
<1>4. /\ jsonl' \in Files
      /\ jsonl.failed \/ txt'.failed => jsonl' = jsonl
      /\ ~jsonl.failed /\ ~txt'.failed => Held(jsonl') = hj \o p
  <2>1. CASE txt'.failed
    BY <2>1 DEF FileInv, WriteOpen
  <2>2. CASE ~txt'.failed
    <3>1. jsonl \in Files /\ jsonl' \in Writes(jsonl, l)
      BY <2>2 DEF FileInv, WriteOpen
    <3> QED
      BY <2>2, <3>1, WritesKeep
  <2> QED
    BY <2>1, <2>2
<1>5. /\ IsPrefix(ht, r) /\ IsPrefix(hj, r) /\ Len(hj) <= Len(ht)
      /\ ~txt.failed => ht = r
      /\ ~txt.failed /\ ~jsonl.failed => hj = r
  BY DEF FileInv
<1> HIDE DEF r, p, ht, hj
<1>6. /\ IsPrefix(ht, r \o p) /\ IsPrefix(hj, r \o p) /\ IsPrefix(r \o p, r \o p)
      /\ r \o p \in Seq(Piece) /\ Len(r \o p) = Len(r) + Len(p)
  <2>1. r \o p \in Seq(Piece) /\ Len(r \o p) = Len(r) + Len(p)
    BY <1>1, ConcatProperties
  <2>2. IsPrefix(ht, r \o p) /\ IsPrefix(hj, r \o p)
    BY <1>1, <1>2, <1>5, PrefixGrows
  <2>3. IsPrefix(r \o p, r \o p)
    <3> DEFINE w == r \o p
    <3> HIDE DEF w
    <3>1. w \in Seq(Piece) => IsPrefix(w, w)
      BY PrefixGrows
    <3> QED
      BY <2>1, <3>1 DEF w
  <2> QED
    BY <2>1, <2>2, <2>3
<1>7. Held(txt') = ht \/ Held(txt') = r \o p
  <2>1. CASE txt.failed
    BY <1>3, <2>1 DEF ht
  <2>2. CASE ~txt.failed
    BY <1>3, <1>5, <2>2
  <2> QED
    BY <2>1, <2>2
<1>8. Held(jsonl') = hj \/ (Held(jsonl') = r \o p /\ Held(txt') = r \o p)
  <2>1. CASE jsonl.failed \/ txt'.failed
    BY <1>4, <2>1 DEF hj
  <2>2. CASE ~jsonl.failed /\ ~txt'.failed
    <3>1. ~txt.failed
      BY <1>3, <2>2
    <3> QED
      BY <1>3, <1>4, <1>5, <2>2, <3>1
  <2> QED
    BY <2>1, <2>2
<1>9. Len(Held(jsonl')) <= Len(Held(txt'))
  <2>1. Len(ht) <= Len(r \o p) /\ Len(hj) \in Nat /\ Len(ht) \in Nat /\ Len(r \o p) \in Nat
    BY <1>2, <1>6 DEF IsPrefix
  <2> QED
    BY <1>5, <1>7, <1>8, <2>1
<1>10. ~txt'.failed => Held(txt') = r \o p
  BY <1>3, <1>5
<1>11. ~txt'.failed /\ ~jsonl'.failed => Held(jsonl') = r \o p
  BY <1>3, <1>4, <1>5
<1>12. IsPrefix(Held(txt'), r \o p) /\ IsPrefix(Held(jsonl'), r \o p)
  BY <1>6, <1>7, <1>8
<1>13. /\ Held(txt)' = Held(txt') /\ Held(jsonl)' = Held(jsonl')
       /\ Rendered(lines)' = r \o p
  BY <1>1
<1> QED
  BY <1>1, <1>3, <1>4, <1>9, <1>10, <1>11, <1>12, <1>13 DEF FileInv

LEMMA FileFlush ==
  ASSUME FileInv, txt' \in Flushes(txt), jsonl' \in Flushes(jsonl), lines' = lines
  PROVE  FileInv'
<1>1. /\ txt' \in Files /\ Held(txt') = Held(txt)
      /\ ~txt'.failed => ~txt.failed
  BY FlushesKeep DEF FileInv
<1>2. /\ jsonl' \in Files /\ Held(jsonl') = Held(jsonl)
      /\ ~jsonl'.failed => ~jsonl.failed
  BY FlushesKeep DEF FileInv
<1>3. Held(txt)' = Held(txt') /\ Held(jsonl)' = Held(jsonl') /\ Rendered(lines)' = Rendered(lines)
  OBVIOUS
<1> QED
  BY <1>1, <1>2, <1>3 DEF FileInv

LEMMA FileFollows == FileInv => FilesFollowTheSession
<1> SUFFICES ASSUME FileInv PROVE FilesFollowTheSession
  OBVIOUS
<1>1. ASSUME NEW f \in Files, IsPrefix(Held(f), Rendered(lines))
      PROVE  IsPrefix(f.disk, Rendered(lines))
  <2> DEFINE d == f.disk
             b == f.buf
             r == Rendered(lines)
  <2>1. d \in Seq(Piece) /\ b \in Seq(Piece) /\ IsPrefix(d \o b, r)
    BY <1>1 DEF Files, Held
  <2>2. r \in Seq(Piece)
    <3>1. lines \in Seq(Seq(Nat)) /\ <<>> \in Seq(Nat)
      BY DEF FileInv
    <3> QED
      BY <3>1, RenderedAppend
  <2> HIDE DEF d, b, r
  <2>3. IsPrefix(d, r)
    BY <2>1, <2>2, PrefixGrows
  <2> QED
    BY <2>3 DEF d, r
<1> QED
  BY <1>1 DEF FileInv, FilesFollowTheSession, Held

-----------------------------------------------------------------------------
LEMMA SilenceWrite ==
  ASSUME FileInv, SilenceInv, transErr \in BOOLEAN, NEW l \in Seq(Nat), WriteOpen(l)
  PROVE  SilenceInv'
<1>1. ~closed /\ ~closed' /\ closeErr' = closeErr
  BY DEF WriteOpen
<1>2. ~transErr' => ~transErr /\ ~txt'.failed /\ ~jsonl'.failed
  BY DEF WriteOpen
<1>3. ~transErr' => linesWritten' = linesWritten + 1
  BY <1>2 DEF WriteOpen
<1>4. linesWritten' = linesWritten \/ linesWritten' = linesWritten + 1
  BY DEF WriteOpen
<1>5. Len(lines') = Len(lines) + 1 /\ Len(lines) \in Nat
  BY AppendProperties DEF WriteOpen, FileInv
<1>6. linesWritten \in Nat /\ (~transErr => linesWritten = Len(lines))
  BY DEF SilenceInv
<1>7. linesWritten' \in Nat /\ (~transErr' => linesWritten' = Len(lines'))
  BY <1>2, <1>3, <1>4, <1>5, <1>6
<1> QED
  BY <1>1, <1>2, <1>7 DEF SilenceInv

LEMMA SilenceTick ==
  ASSUME FileInv, SilenceInv, transErr \in BOOLEAN, Tick
  PROVE  SilenceInv'
<1>1. ~transErr' => ~transErr /\ ~txt'.failed /\ ~jsonl'.failed
  BY DEF Tick
<1> QED
  BY <1>1 DEF SilenceInv, Tick

LEMMA SilenceClose ==
  ASSUME FileInv, SilenceInv, closeErr \in BOOLEAN, transErr \in BOOLEAN, Close
  PROVE  SilenceInv' /\ closeErr' \in BOOLEAN
<1>1. closed' /\ UNCHANGED <<lines, linesWritten, transErr>>
  BY DEF Close
<1>2. CASE closed
  <2>1. UNCHANGED <<txt, jsonl, closeErr>>
    BY <1>2 DEF Close
  <2> QED
    BY <1>1, <1>2, <2>1 DEF SilenceInv
<1>3. CASE ~closed
  <2>1. /\ txt' \in Flushes(txt) /\ jsonl' \in Flushes(jsonl) /\ closeErr' \in BOOLEAN
        /\ ~closeErr' => ~txt'.failed /\ ~jsonl'.failed
    BY <1>3 DEF Close
  <2>2. ~closeErr' => txt'.buf = <<>> /\ jsonl'.buf = <<>>
    BY <2>1, FlushesKeep DEF FileInv
  <2> QED
    BY <1>1, <2>1, <2>2 DEF SilenceInv
<1> QED
  BY <1>2, <1>3

LEMMA SilenceTells == FileInv /\ SilenceInv => SilenceMeansComplete
<1> SUFFICES ASSUME FileInv, SilenceInv, closed, ~transErr, ~closeErr
             PROVE  /\ txt.disk = Rendered(lines) /\ jsonl.disk = Rendered(lines)
                    /\ linesWritten = Len(lines)
  BY DEF SilenceMeansComplete
<1>1. /\ ~txt.failed /\ ~jsonl.failed /\ txt.buf = <<>> /\ jsonl.buf = <<>>
      /\ linesWritten = Len(lines)
  BY DEF SilenceInv
<1>2. Held(txt) = Rendered(lines) /\ Held(jsonl) = Rendered(lines)
  BY <1>1 DEF FileInv
<1>3. ASSUME NEW f \in Files, f.buf = <<>> PROVE Held(f) = f.disk
  <2>1. f.disk \in Seq(Piece)
    BY DEF Files
  <2> QED
    BY <1>3, <2>1, ConcatEmptySeq DEF Held
<1> QED
  BY <1>1, <1>2, <1>3 DEF FileInv

-----------------------------------------------------------------------------
\* The steps that move nothing between a reader and the transcript.
LEMMA Idle ==
  ASSUME \/ Start \/ CloseTranscripts \/ HubAwaited \/ CloseMonitor \/ FFmpegHangs
         \/ MonitorAwaited \/ CloseSource
         \/ CloseWriter \/ Source \/ Wrap \/ (Engine /\ ~EngineConnects) \/ HubEnds
         \/ WriterTicks \/ Interrupt \/ Finished
  PROVE  UNCHANGED <<trans, pending, reader, hand, received, accepted>>
<1>1. CASE Start
  BY <1>1 DEF Start, engVars, hubVars
<1>2. CASE \/ CloseTranscripts \/ HubAwaited \/ CloseMonitor \/ FFmpegHangs
           \/ MonitorAwaited \/ CloseSource \/ CloseWriter
  BY <1>2 DEF CloseTranscripts, HubAwaited, CloseMonitor, FFmpegHangs, MonitorAwaited,
              CloseSource, CloseWriter, MainUnchanged, engVars, hubVars
<1>3. CASE Source \/ Wrap
  BY <1>3 DEF Source, SourceSends, SourceEnds, SourceUnchanged, Wrap, Tap,
              WrapEnds, engVars, hubVars
<1>4. CASE Engine /\ ~EngineConnects
  BY <1>4 DEF Engine, EngineRefused, EngineDrains, DrainEnds, LinkLost, WriteStalls,
              ReaderJoined, EngineStops, EngineUnchanged, hubVars
<1>5. CASE HubEnds
  BY <1>5 DEF HubEnds, HubUnchanged, engVars
<1>6. CASE WriterTicks \/ Interrupt \/ Finished
  BY <1>6 DEF WriterTicks, Interrupt, Finished, vars, engVars, hubVars
<1> QED
  BY <1>1, <1>2, <1>3, <1>4, <1>5, <1>6

\* Every step is one of those or one of the seven that do.
LEMMA Steps ==
  ASSUME [Next]_vars
  PROVE  \/ UNCHANGED <<trans, pending, reader, hand, received, accepted>>
         \/ EngineConnects \/ HubPublishes \/ HubWritesLine \/ Flush
         \/ \E c \in 1..Conns : \/ \E last \in BOOLEAN : ReaderReceives(c, last)
                                \/ ReaderSends(c)
                                \/ ReaderStops(c)
<1>1. CASE UNCHANGED vars
  BY <1>1 DEF vars, engVars, hubVars
<1>2. CASE Next
  BY <1>2, Idle DEF Next, Main, Hub, Reader
<1> QED
  BY <1>1, <1>2

LEMMA TravelNext == TypeInv /\ TravelInv /\ [Next]_vars => TravelInv'
<1> SUFFICES ASSUME TypeInv, TravelInv, [Next]_vars PROVE TravelInv'
  OBVIOUS
<1>1. CASE UNCHANGED <<trans, pending, reader, hand, received, accepted>>
  BY <1>1 DEF TravelInv
<1>2. CASE EngineConnects
  <2>1. UNCHANGED <<trans, pending, hand>>
    BY <1>2 DEF EngineConnects, EngineUnchanged, hubVars
  <2>2. \A c \in 1..Conns : reader'[c] = "sending" => reader[c] = "sending"
    BY <1>2 DEF EngineConnects, TypeInv
  <2> QED
    BY <2>1, <2>2 DEF TravelInv
<1>3. ASSUME NEW c \in 1..Conns, NEW last \in BOOLEAN, ReaderReceives(c, last)
      PROVE  TravelInv'
  <2>1. UNCHANGED <<trans, pending>>
    BY <1>3 DEF ReaderReceives, EngineUnchanged, hubVars
  <2>2. hand'[c] \in Transcripts
    <3>1. hand' = [hand EXCEPT ![c] = [segment |-> received', last |-> last]]
          /\ received' \in Nat
      BY <1>3 DEF ReaderReceives, TypeInv
    <3> QED
      BY <3>1 DEF TypeInv, Transcripts
  <2>3. \A d \in 1..Conns \ {c} : hand'[d] = hand[d] /\ reader'[d] = reader[d]
    BY <1>3 DEF ReaderReceives, TypeInv
  <2> QED
    BY <2>1, <2>2, <2>3 DEF TravelInv
<1>4. ASSUME NEW c \in 1..Conns, ReaderSends(c) PROVE TravelInv'
  <2>1. UNCHANGED pending
    BY <1>4 DEF ReaderSends, ReaderUnchanged, hubVars
  <2>2. trans' = trans \/ trans' = Append(trans, hand[c])
    BY <1>4 DEF ReaderSends
  <2>3. hand[c] \in Transcripts
    BY <1>4 DEF ReaderSends, TravelInv
  <2>4. trans' \in Seq(Transcripts)
    <3> DEFINE h == hand[c]
    <3>1. trans \in Seq(Transcripts) /\ h \in Transcripts
      BY <2>3 DEF TravelInv
    <3>2. trans' = trans \/ trans' = Append(trans, h)
      BY <2>2
    <3> HIDE DEF h
    <3> QED
      BY <3>1, <3>2, AppendProperties
  <2>5. \A d \in 1..Conns : reader'[d] = "sending" => reader[d] = "sending" /\ hand'[d] = hand[d]
    BY <1>4 DEF ReaderSends, TypeInv
  <2> QED
    BY <2>1, <2>4, <2>5 DEF TravelInv
<1>5. ASSUME NEW c \in 1..Conns, ReaderStops(c) PROVE TravelInv'
  <2>1. UNCHANGED <<trans, pending>>
    BY <1>5 DEF ReaderStops, ReaderUnchanged, hubVars
  <2>2. \A d \in 1..Conns : reader'[d] = "sending" => reader[d] = "sending" /\ hand'[d] = hand[d]
    BY <1>5 DEF ReaderStops, TypeInv
  <2> QED
    BY <2>1, <2>2 DEF TravelInv
<1>6. CASE HubPublishes
  <2>1. UNCHANGED <<reader, hand>>
    BY <1>6 DEF HubPublishes, HubUnchanged, engVars
  <2>2. trans # <<>> /\ trans' = Tail(trans) /\ pending' = Append(pending, Head(trans).segment)
    BY <1>6 DEF HubPublishes
  <2>3. Head(trans) \in Transcripts /\ Tail(trans) \in Seq(Transcripts)
    BY <2>2, HeadTailProperties DEF TravelInv
  <2> DEFINE s == Head(trans).segment
  <2>4. s \in Nat
    BY <2>3 DEF Transcripts
  <2> HIDE DEF s
  <2>5. pending' = Append(pending, s)
    BY <2>2 DEF s
  <2>6. pending' \in Seq(Nat)
    BY <2>4, <2>5, AppendProperties DEF TravelInv
  <2> QED
    BY <2>1, <2>2, <2>3, <2>6 DEF TravelInv
<1>7. CASE HubWritesLine \/ Flush
  <2>1. UNCHANGED <<reader, hand, trans>> /\ pending' = <<>>
    BY <1>7 DEF HubWritesLine, HubUnchanged, Flush, MainUnchanged, engVars
  <2> QED
    BY <2>1 DEF TravelInv
<1> QED
  BY <1>1, <1>2, <1>3, <1>4, <1>5, <1>6, <1>7, Steps

-----------------------------------------------------------------------------
LEMMA StageNext == TypeInv /\ OrderInv /\ StageInv /\ [Next]_vars => StageInv'
<1> SUFFICES ASSUME TypeInv, OrderInv, StageInv, [Next]_vars PROVE StageInv'
  OBVIOUS
<1> USE DEF StageInv
<1>1. CASE UNCHANGED <<main, engine, hub, trans, pending, reader, transClosed, closed>>
  BY <1>1
<1>2. CASE Start
  <2>1. UNCHANGED <<trans, pending, reader, transClosed, closed>> /\ main = "start"
    BY <1>2 DEF Start, MainSteps, engVars, hubVars, writerVars
  <2>2. \/ main' = "engine" /\ engine' = "dial"
        \/ main' = "closeMonitor" /\ UNCHANGED <<engine, hub>>
    BY <1>2 DEF Start, MainSteps, engVars, hubVars
  <2>3. engine = "off" /\ ~transClosed
    BY <2>1 DEF OrderInv
  <2>4. main' = "engine" /\ engine' = "dial" => hub' = "recv"
    BY <1>2 DEF Start, MainSteps, engVars, hubVars
  <2> QED
    BY <2>1, <2>2, <2>3, <2>4
<1>3. CASE CloseTranscripts
  <2>1. /\ main = "engine" /\ main' = "hub" /\ transClosed' /\ engine # "off"
        /\ UNCHANGED <<engine, hub, trans, pending, reader, closed>>
    BY <1>3 DEF CloseTranscripts, MainSteps, MainUnchanged, engVars, hubVars, writerVars
  <2> QED
    BY <2>1
<1>4. CASE HubAwaited
  <2>1. /\ main = "hub" /\ main' = "flush" /\ hub = "done"
        /\ UNCHANGED <<engine, hub, trans, pending, reader, transClosed, closed>>
    BY <1>4 DEF HubAwaited, MainSteps, MainUnchanged, engVars, hubVars, writerVars
  <2> QED
    BY <2>1
<1>5. CASE Flush
  <2>1. /\ main = "flush" /\ main' = "closeMonitor" /\ pending' = <<>>
        /\ UNCHANGED <<engine, hub, trans, reader, transClosed, closed>>
    BY <1>5 DEF Flush, MainSteps, MainUnchanged, Write, WriteOpen, engVars, writerVars
  <2> QED
    BY <2>1
<1>6. CASE CloseMonitor \/ FFmpegHangs \/ MonitorAwaited \/ CloseSource \/ CloseWriter
  <2>1. /\ \/ /\ main \in {"closeMonitor", "awaitMonitor", "monitorHangs", "closeSource",
                         "sourceHangs"}
              /\ main' \in {"awaitMonitor", "monitorHangs", "closeSource", "sourceHangs",
                          "closeWriter"}
              /\ closed' = closed
           \/ main = "closeWriter" /\ main' = "exited"
        /\ UNCHANGED <<engine, hub, trans, pending, reader, transClosed>>
    BY <1>6 DEF CloseMonitor, FFmpegHangs, MonitorAwaited, CloseSource, CloseWriter,
                MainSteps, MainUnchanged, engVars, hubVars, writerVars
  <2> QED
    BY <2>1
<1>7. CASE Source \/ Wrap
  <2>1. UNCHANGED <<main, engine, hub, trans, pending, reader, transClosed, closed>>
    BY <1>7 DEF Source, SourceSends, SourceEnds, SourceUnchanged, Wrap, Tap,
                WrapEnds, engVars, hubVars, writerVars
  <2> QED
    BY <2>1
<1>8. CASE Engine
  <2>1. UNCHANGED <<main, hub, trans, pending, transClosed, closed>>
    BY <1>8 DEF Engine, EngineRefused, EngineConnects, EngineDrains, DrainEnds,
                LinkLost, WriteStalls, ReaderJoined, EngineStops, EngineUnchanged,
                hubVars, writerVars
  <2>2. engine # "off" /\ engine' # "off"
    BY <1>8 DEF Engine, EngineRefused, EngineConnects, EngineDrains, DrainEnds,
                LinkLost, WriteStalls, ReaderJoined, EngineStops
  <2>3. main # "start"
    BY <2>2 DEF OrderInv
  <2> QED
    BY <2>1, <2>2, <2>3
<1>9. ASSUME NEW c \in 1..Conns, Reader(c) PROVE StageInv'
  <2>1. UNCHANGED <<main, engine, hub, pending, transClosed, closed>>
    BY <1>9 DEF Reader, ReaderReceives, ReaderSends, ReaderStops, EngineUnchanged,
                ReaderUnchanged, hubVars, writerVars
  <2>2. reader[c] # "off"
    BY <1>9 DEF Reader, ReaderReceives, ReaderSends, ReaderStops
  <2>3. main # "start" /\ engine # "off"
    BY <2>2
  <2>4. transClosed => trans' = trans
    BY <1>9 DEF Reader, ReaderReceives, ReaderSends, ReaderStops, EngineUnchanged
  <2> QED
    BY <2>1, <2>3, <2>4
<1>10. CASE Hub
  <2>1. UNCHANGED <<main, engine, reader, transClosed, closed>>
    BY <1>10 DEF Hub, HubPublishes, HubWritesLine, HubEnds, HubUnchanged, Write,
                 WriteOpen, engVars, writerVars
  <2>2. hub \notin {"off", "done"}
    BY <1>10 DEF Hub, HubPublishes, HubWritesLine, HubEnds
  <2>3. main \in {"engine", "hub"} /\ engine # "off"
    BY <2>2
  <2>4. hub' = "done" => trans' = <<>> /\ transClosed
    BY <1>10 DEF Hub, HubPublishes, HubWritesLine, HubEnds
  <2> QED
    BY <2>1, <2>3, <2>4
<1>11. CASE WriterTicks \/ Interrupt
  <2>1. UNCHANGED <<main, engine, hub, trans, pending, reader, transClosed, closed>>
    BY <1>11 DEF WriterTicks, Tick, Interrupt, engVars, hubVars, writerVars
  <2> QED
    BY <2>1
<1>12. CASE UNCHANGED vars
  BY <1>1, <1>12 DEF vars, engVars, hubVars, writerVars
<1> QED
  BY <1>2, <1>3, <1>4, <1>5, <1>6, <1>7, <1>8, <1>9, <1>10, <1>11, <1>12
     DEF Next, Main, Finished

-----------------------------------------------------------------------------
LEMMA CutNext == OrderInv /\ CutInv /\ [Next]_vars => CutInv'
<1> SUFFICES ASSUME OrderInv, CutInv, [Next]_vars PROVE CutInv'
  OBVIOUS
<1> USE DEF CutInv
<1>0. Conns \in Nat
  BY SessionAssumption
<1>1. CASE UNCHANGED <<conn, cut, engine>>
  BY <1>1
<1>2. CASE Start
  BY <1>2 DEF Start, MainSteps, engVars
<1>3. CASE EngineConnects
  <2>1. conn < Conns /\ conn' = conn + 1 /\ cut' = cut /\ engine' = "up"
    BY <1>3 DEF EngineConnects
  <2>2. conn' \in 0..Conns /\ conn' # 0 /\ 1..conn \subseteq 1..conn'
    BY <1>0, <2>1
  <2> QED
    BY <2>1, <2>2
<1>4. CASE DrainEnds \/ LinkLost
  <2>1. /\ conn' = conn /\ cut' = cut \cup {conn} /\ conn # 0
        /\ engine' \in {"dial", "done", "join"}
    BY <1>4 DEF DrainEnds, LinkLost
  <2>2. conn \in 1..conn
    BY <1>0, <2>1
  <2> QED
    BY <2>1, <2>2
<1>5. CASE EngineRefused \/ ReaderJoined \/ EngineStops
           \/ (\E pause \in BOOLEAN : EngineDrains(pause))
           \/ WriteStalls("up", "stalled") \/ WriteStalls("stalled", "up")
  BY <1>5 DEF EngineRefused, ReaderJoined, EngineStops, EngineDrains, WriteStalls
<1>6. ASSUME NEW c \in 1..Conns, Reader(c) PROVE UNCHANGED <<conn, cut, engine>>
  BY <1>6 DEF Reader, ReaderReceives, ReaderSends, ReaderStops, ReaderUnchanged
<1> QED
  BY <1>1, <1>2, <1>3, <1>4, <1>5, <1>6, Frame DEF Next, Main, Engine, engVars, vars

LEMMA HeldNext == CleanInv /\ CutInv /\ HeldInv /\ [Next]_vars => HeldInv'
<1> SUFFICES ASSUME CleanInv, CutInv, HeldInv, [Next]_vars, faults' = {}
             PROVE  /\ \A c \in cut' : reader'[c] = "done"
                    /\ \A i \in DOMAIN accepted' : accepted'[i] = i
                    /\ \A c \in 1..Conns : reader'[c] = "sending" =>
                         hand'[c].segment = received' /\ received' = Len(accepted') + 1
                    /\ (\A c \in 1..Conns : reader'[c] # "sending") => received' = Len(accepted')
  BY DEF HeldInv
<1> USE DEF HeldInv
<1>0. TypeInv /\ ReaderInv /\ cut \subseteq 1..conn /\ conn \in 0..Conns /\ Conns \in Nat
  BY SessionAssumption DEF CleanInv, CutInv
<1>10. \A d \in cut : d \in 1..Conns
  <2>1. \A d \in 1..conn : d \in 1..Conns
    BY <1>0
  <2> QED
    BY <1>0, <2>1
<1>1. CASE UNCHANGED <<faults, cut, reader, hand, received, accepted>>
  BY <1>1
<1>2. CASE Start
  BY <1>2 DEF Start, engVars
<1>3. CASE EngineConnects
  <2>1. /\ UNCHANGED <<faults, cut, hand, received, accepted>> /\ conn' = conn + 1
        /\ reader' = [reader EXCEPT ![conn'] = "reading"] /\ conn < Conns
    BY <1>3 DEF EngineConnects, EngineUnchanged
  <2>2. conn' \notin cut /\ conn' \in 1..Conns
    BY <1>0, <2>1
  <2>3. /\ reader'[conn'] = "reading"
        /\ \A d \in 1..Conns : d # conn' => reader'[d] = reader[d]
    BY <1>0, <2>1, <2>2 DEF TypeInv
  <2>5. conn \in 0..Conns /\ reader[conn'] # "sending"
    <3>1. conn' # conn
      BY <1>0, <2>1
    <3> QED
      BY <1>0, <2>1, <2>2, <3>1 DEF ReaderInv, Active
  <2> QED
    BY <2>1, <2>2, <2>3, <1>10, <2>5
<1>4. CASE DrainEnds
  <2>1. /\ faults = {} /\ reader[conn] = "done" /\ cut' = cut \cup {conn}
        /\ UNCHANGED <<reader, hand, received, accepted>>
    BY <1>4 DEF DrainEnds, EngineUnchanged
  <2> QED
    BY <2>1
<1>5. CASE LinkLost
  BY <1>5 DEF LinkLost
<1>6. CASE EngineRefused \/ ReaderJoined \/ EngineStops
           \/ (\E pause \in BOOLEAN : EngineDrains(pause))
           \/ WriteStalls("up", "stalled") \/ WriteStalls("stalled", "up")
  BY <1>6 DEF EngineRefused, ReaderJoined, EngineStops, EngineDrains, WriteStalls,
              EngineUnchanged
<1>7. ASSUME NEW c \in 1..Conns, NEW last \in BOOLEAN, ReaderReceives(c, last)
      PROVE  HeldInv'
  <2>1. /\ reader[c] = "reading" /\ c \notin cut /\ received' = received + 1
        /\ UNCHANGED <<faults, cut, accepted>>
        /\ reader'[c] = "sending" /\ hand'[c].segment = received + 1
        /\ \A d \in 1..Conns : d # c => reader'[d] = reader[d]
    BY <1>0, <1>7 DEF ReaderReceives, EngineUnchanged, TypeInv
  <2>2. \A d \in 1..Conns : d # c => reader[d] # "sending"
    BY <1>0, <2>1 DEF ReaderInv, Active
  <2>3. received = Len(accepted)
    BY <2>1, <2>2
  <2>4. \A d \in cut : d # c /\ d \in 1..Conns
    BY <1>10, <2>1
  <2> QED
    BY <2>1, <2>2, <2>3, <2>4
<1>8. ASSUME NEW c \in 1..Conns, ReaderSends(c) PROVE HeldInv'
  <2>1. UNCHANGED <<faults, cut, received>> /\ reader[c] = "sending"
    BY <1>8 DEF ReaderSends, ReaderUnchanged
  <2>2. CASE transClosed
    BY <1>8, <2>1, <2>2 DEF ReaderSends
  <2>3. CASE ~transClosed
    <3> DEFINE s == hand[c].segment
    <3>1. /\ accepted' = Append(accepted, s) /\ reader'[c] = "reading"
          /\ \A d \in 1..Conns : d # c => reader'[d] = reader[d]
      BY <1>0, <1>8, <2>3 DEF ReaderSends, TypeInv
    <3>2. \A d \in 1..Conns : reader'[d] # "sending"
      BY <1>0, <2>1, <3>1 DEF ReaderInv, Active
    <3>3. accepted \in Seq(Nat) /\ s \in Nat /\ received \in Nat
      BY <1>0, <2>1 DEF TypeInv
    <3>4. s = received /\ received = Len(accepted) + 1
      BY <2>1
    <3>5. \A d \in cut : d # c /\ d \in 1..Conns
      BY <1>10, <2>1
    <3>6. \A i \in DOMAIN accepted : accepted[i] = i
      BY <2>1
    <3> HIDE DEF s
    <3>7. Len(accepted') = received /\ \A i \in DOMAIN accepted' : accepted'[i] = i
      BY <3>1, <3>3, <3>4, <3>6
    <3> QED
      BY <2>1, <3>1, <3>2, <3>5, <3>7
  <2> QED
    BY <2>2, <2>3
<1>9. ASSUME NEW c \in 1..Conns, ReaderStops(c) PROVE HeldInv'
  <2>1. /\ UNCHANGED <<faults, cut, received, accepted>>
        /\ reader'[c] = "done" /\ (reader[c] = "sending" => c \in cut)
        /\ \A d \in 1..Conns : d # c => reader'[d] = reader[d] /\ hand'[d] = hand[d]
    BY <1>0, <1>9 DEF ReaderStops, ReaderUnchanged, TypeInv
  <2>2. reader[c] # "sending"
    BY <2>1
  <2> QED
    BY <1>10, <2>1, <2>2
<1> QED
  BY <1>1, <1>2, <1>3, <1>4, <1>5, <1>6, <1>7, <1>8, <1>9, Frame, ReaderStep
     DEF Next, Main, Engine, engVars, vars

-----------------------------------------------------------------------------
LEMMA SegmentsType ==
  ASSUME NEW s \in Seq(Transcripts)
  PROVE  /\ Segments(s) \in Seq(Nat) /\ Len(Segments(s)) = Len(s)
         /\ \A i \in 1..Len(s) : Segments(s)[i] = s[i].segment
<1>1. \A t \in Transcripts : t.segment \in Nat
  BY DEF Transcripts
<1>2. \A i \in 1..Len(s) : s[i] \in Transcripts
  OBVIOUS
<1>3. \A i \in 1..Len(s) : s[i].segment \in Nat
  BY <1>1, <1>2
<1> QED
  BY <1>3 DEF Segments

LEMMA SegmentsAppend ==
  ASSUME NEW tr \in Seq(Transcripts), NEW t \in Transcripts
  PROVE  /\ Segments(tr) \in Seq(Nat) /\ Len(Segments(tr)) = Len(tr)
         /\ Segments(Append(tr, t)) = Append(Segments(tr), t.segment)
<1>2. /\ Append(tr, t) \in Seq(Transcripts) /\ Len(Append(tr, t)) = Len(tr) + 1
      /\ \A i \in 1..Len(tr) : Append(tr, t)[i] = tr[i]
      /\ Append(tr, t)[Len(tr) + 1] = t
  BY AppendProperties
<1>3. t.segment \in Nat
  BY DEF Transcripts
<1> DEFINE a == Segments(Append(tr, t))
           b == Append(Segments(tr), t.segment)
<1>4. /\ a \in Seq(Nat) /\ Len(a) = Len(tr) + 1
      /\ \A i \in 1..Len(tr) : a[i] = tr[i].segment
      /\ a[Len(tr) + 1] = t.segment
  <2> HIDE DEF a
  <2>1. a \in Seq(Nat) /\ Len(a) = Len(tr) + 1
        /\ \A i \in 1..Len(tr) + 1 : a[i] = Append(tr, t)[i].segment
    BY <1>2, SegmentsType DEF a
  <2> QED
    BY <1>2, <2>1
<1>5. /\ b \in Seq(Nat) /\ Len(b) = Len(tr) + 1
      /\ \A i \in 1..Len(tr) : b[i] = tr[i].segment
      /\ b[Len(tr) + 1] = t.segment
  <2> DEFINE s == Segments(tr)
             e == t.segment
  <2>1. s \in Seq(Nat) /\ Len(s) = Len(tr) /\ e \in Nat /\ \A i \in 1..Len(tr) : s[i] = tr[i].segment
    BY <1>3, SegmentsType
  <2> HIDE DEF s, e
  <2>2. /\ Append(s, e) \in Seq(Nat) /\ Len(Append(s, e)) = Len(s) + 1
        /\ \A i \in 1..Len(s) : Append(s, e)[i] = s[i]
        /\ Append(s, e)[Len(s) + 1] = e
    BY <2>1, AppendProperties
  <2> QED
    BY <2>1, <2>2 DEF s, e
<1>6. a = b
  <2> HIDE DEF a, b
  <2>1. \A i \in 1..Len(tr) + 1 : a[i] = b[i]
    BY <1>4, <1>5, SMTT(30)
  <2> QED
    BY <1>4, <1>5, <2>1, SeqEqual
<1> QED
  BY <1>6, SegmentsType

LEMMA SegmentsTail ==
  ASSUME NEW tr \in Seq(Transcripts), tr # <<>>, NEW p \in Seq(Nat)
  PROVE  Append(p, Head(tr).segment) \o Segments(Tail(tr)) = p \o Segments(tr)
<1> DEFINE h == Head(tr).segment
           s == Segments(tr)
           u == Segments(Tail(tr))
<1>1. /\ Tail(tr) \in Seq(Transcripts) /\ Len(Tail(tr)) = Len(tr) - 1
      /\ Len(tr) \in Nat \ {0} /\ \A i \in 1..Len(tr) - 1 : Tail(tr)[i] = tr[i + 1]
  BY HeadTailProperties
<1>2. Head(tr) = tr[1]
  OBVIOUS
<1>3. /\ s \in Seq(Nat) /\ Len(s) = Len(tr)
      /\ \A i \in 1..Len(tr) : s[i] = tr[i].segment
  BY SegmentsType
<1>4. /\ u \in Seq(Nat) /\ Len(u) = Len(tr) - 1
      /\ \A i \in 1..Len(tr) - 1 : u[i] = tr[i + 1].segment
  BY <1>1, SegmentsType
<1>5. h = s[1] /\ h \in Nat /\ \A i \in 1..Len(tr) - 1 : u[i] = s[i + 1]
  <2> HIDE DEF s, u
  <2>1. 1 \in 1..Len(tr) /\ \A i \in 1..Len(tr) - 1 : i + 1 \in 1..Len(tr)
    BY <1>1
  <2>2. h = s[1]
    BY <1>2, <1>3, <2>1
  <2>3. s[1] \in Nat
    BY <1>3, <2>1
  <2> QED
    BY <1>3, <1>4, <2>1, <2>2, <2>3
<1> HIDE DEF h, s, u
<1>6. s = <<h>> \o u
  <2> DEFINE hu == <<h>> \o u
  <2>1. hu \in Seq(Nat) /\ Len(hu) = Len(s) /\ \A i \in 1..Len(s) : s[i] = hu[i]
    <3> DEFINE v == <<h>>
               m == Len(tr)
    <3>1. v \in Seq(Nat) /\ Len(v) = 1 /\ v[1] = h
      BY <1>5
    <3>2. Len(s) = m /\ Len(u) = m - 1 /\ m \in Nat /\ m # 0
      BY <1>1, <1>3, <1>4
    <3> HIDE DEF v, m
    <3>3. /\ v \o u \in Seq(Nat) /\ Len(v \o u) = Len(v) + Len(u)
          /\ \A i \in 1..Len(v) + Len(u) : (v \o u)[i] = IF i <= Len(v) THEN v[i] ELSE u[i - Len(v)]
      BY <1>4, <3>1, ConcatProperties
    <3>4. Len(v) + Len(u) = m
      BY <3>1, <3>2
    <3>5. ASSUME NEW i \in 1..m PROVE s[i] = (v \o u)[i]
      <4>1. CASE i = 1
        BY <1>5, <3>1, <3>3, <3>4, <4>1
      <4>2. CASE i # 1
        <5>1. i - 1 \in 1..m - 1 /\ ~(i <= 1) /\ (i - 1) + 1 = i
          BY <3>2, <4>2
        <5>2. u[i - 1] = s[i]
          BY <1>5, <5>1 DEF m
        <5> QED
          BY <3>1, <3>3, <3>4, <5>1, <5>2
      <4> QED
        BY <4>1, <4>2
    <3> QED
      BY <3>2, <3>3, <3>4, <3>5 DEF v
  <2> HIDE DEF hu
  <2>2. s = hu
    BY <1>3, <2>1, SeqEqual
  <2> QED
    BY <2>2 DEF hu
<1>7. Append(p, h) = p \o <<h>>
  BY <1>5, AppendIsConcat
<1>8. (p \o <<h>>) \o u = p \o (<<h>> \o u)
  <2> DEFINE v == <<h>>
  <2>1. v \in Seq(Nat)
    BY <1>5
  <2> HIDE DEF v
  <2>2. (p \o v) \o u = p \o (v \o u)
    BY <1>4, <2>1, ConcatAssociative, SMTT(30)
  <2> QED
    BY <2>2 DEF v
<1>9. Append(p, h) \o u = p \o s
  BY <1>6, <1>7, <1>8
<1> QED
  BY <1>9 DEF h, s, u

\* What a step does with the writer: it writes the open line, or not at all.
LEMMA WriterSteps ==
  ASSUME TravelInv, StageInv, [Next]_vars
  PROVE  \/ UNCHANGED writerVars
         \/ pending \in Seq(Nat) /\ WriteOpen(pending) /\ pending' = <<>>
            /\ UNCHANGED <<trans, accepted>> /\ (hub = "line" \/ pending # <<>>)
         \/ Tick /\ UNCHANGED <<trans, pending, accepted>>
         \/ Close /\ UNCHANGED <<trans, pending, accepted>>
<1>0. pending \in Seq(Nat)
  BY DEF TravelInv
<1>1. CASE UNCHANGED vars \/ Start
  BY <1>1 DEF vars, Start
<1>2. CASE \/ CloseTranscripts \/ HubAwaited \/ CloseMonitor \/ FFmpegHangs
           \/ MonitorAwaited \/ CloseSource
  BY <1>2 DEF CloseTranscripts, HubAwaited, CloseMonitor, FFmpegHangs, MonitorAwaited,
              CloseSource
<1>3. CASE CloseWriter
  BY <1>3 DEF CloseWriter, MainUnchanged, hubVars
<1>4. CASE Flush
  BY <1>0, <1>4 DEF Flush, MainUnchanged, Write
<1>5. CASE HubWritesLine
  BY <1>0, <1>5 DEF HubWritesLine, HubUnchanged, Write
<1>6. CASE HubPublishes \/ HubEnds
  BY <1>6 DEF HubPublishes, HubEnds
<1>7. CASE Source \/ Wrap
  BY <1>7 DEF Source, SourceSends, SourceEnds, SourceUnchanged, Wrap, Tap, WrapEnds
<1>8. CASE Engine
  BY <1>8 DEF Engine, EngineRefused, EngineConnects, EngineDrains, DrainEnds, LinkLost,
              WriteStalls, ReaderJoined, EngineStops, EngineUnchanged
<1>9. ASSUME NEW c \in 1..Conns, Reader(c) PROVE UNCHANGED writerVars
  BY <1>9 DEF Reader, ReaderReceives, ReaderSends, ReaderStops, EngineUnchanged,
              ReaderUnchanged
<1>10. CASE WriterTicks
  BY <1>10 DEF WriterTicks, hubVars
<1>11. CASE Interrupt
  BY <1>11 DEF Interrupt
<1> QED
  BY <1>1, <1>2, <1>3, <1>4, <1>5, <1>6, <1>7, <1>8, <1>9, <1>10, <1>11
     DEF Next, Main, Hub, Finished

LEMMA AppendRight ==
  ASSUME NEW S, NEW s \in Seq(S), NEW t \in Seq(S), NEW e \in S
  PROVE  s \o Append(t, e) = Append(s \o t, e)
<1> DEFINE v == <<e>>
           w == s \o t
<1>1. v \in Seq(S) /\ w \in Seq(S)
  BY ConcatProperties
<1>2. Append(t, e) = t \o v /\ Append(w, e) = w \o v
  <2> HIDE DEF w
  <2> QED
    BY <1>1, AppendIsConcat
<1>3. w \o v = s \o (t \o v)
  <2> HIDE DEF v
  <2> QED
    BY <1>1, ConcatAssociative
<1> QED
  BY <1>2, <1>3

LEMMA FlightNext ==
  TypeInv /\ TravelInv /\ StageInv /\ FileInv /\ FlightInv /\ [Next]_vars => FlightInv'
<1> SUFFICES ASSUME TypeInv, TravelInv, StageInv, FileInv, FlightInv, [Next]_vars
             PROVE  FlightInv'
  OBVIOUS
<1> DEFINE F == FlattenSeq(lines)
           T == Segments(trans)
<1>0. /\ F \in Seq(Nat) /\ T \in Seq(Nat) /\ pending \in Seq(Nat)
      /\ trans \in Seq(Transcripts) /\ lines \in Seq(Seq(Nat))
      /\ F \o (pending \o T) = accepted
  BY FlattenType, SegmentsType DEF TravelInv, FileInv, FlightInv
<1>1. ASSUME UNCHANGED <<lines, trans, pending, accepted>> PROVE FlightInv'
  BY <1>1 DEF FlightInv
<1>2. ASSUME WriteOpen(pending), pending' = <<>>, UNCHANGED <<trans, accepted>>
      PROVE  FlightInv'
  <2>1. lines' = Append(lines, pending)
    BY <1>2 DEF WriteOpen
  <2>2. FlattenSeq(lines') = F \o pending
    BY <1>0, <2>1, FlattenAppend
  <2>3. <<>> \o T = T
    BY <1>0, ConcatEmptySeq
  <2>4. (F \o pending) \o T = F \o (pending \o T)
    <3> DEFINE p == pending
    <3>1. F \in Seq(Nat) /\ p \in Seq(Nat) /\ T \in Seq(Nat)
      BY <1>0
    <3> HIDE DEF F, T, p
    <3>2. (F \o p) \o T = F \o (p \o T)
      BY <3>1, ConcatAssociative, SMTT(30)
    <3> QED
      BY <3>2 DEF p
  <2>5. FlattenSeq(lines') \o (pending' \o T) = accepted'
    BY <1>0, <1>2, <2>2, <2>3, <2>4
  <2>6. Segments(trans)' = T
    BY <1>2
  <2> QED
    BY <2>5, <2>6 DEF FlightInv
<1>3. CASE HubPublishes
  <2>1. /\ trans # <<>> /\ trans' = Tail(trans) /\ UNCHANGED <<lines, accepted>>
        /\ pending' = Append(pending, Head(trans).segment)
    BY <1>3 DEF HubPublishes, HubUnchanged, writerVars
  <2>2. Append(pending, Head(trans).segment) \o Segments(Tail(trans)) = pending \o T
    BY <1>0, <2>1, SegmentsTail
  <2>3. Segments(trans)' = Segments(Tail(trans))
    BY <2>1
  <2>4. pending' \o Segments(trans)' = pending \o T
    BY <2>1, <2>2, <2>3
  <2> QED
    BY <1>0, <2>1, <2>4 DEF FlightInv
<1>4. ASSUME NEW c \in 1..Conns, ReaderSends(c), ~transClosed PROVE FlightInv'
  <2> DEFINE h == hand[c]
             s == h.segment
  <2>1. /\ trans' = Append(trans, h) /\ accepted' = Append(accepted, s)
        /\ UNCHANGED <<lines, pending>> /\ reader[c] = "sending"
    BY <1>4 DEF ReaderSends, ReaderUnchanged, hubVars, writerVars
  <2>2. h \in Transcripts
    BY <2>1 DEF TravelInv
  <2>3. s \in Nat
    BY <2>2 DEF Transcripts
  <2>4. Segments(Append(trans, h)) = Append(T, s)
    <3> HIDE DEF h
    <3> QED
      BY <1>0, <2>2, SegmentsAppend
  <2>5. pending \o T \in Seq(Nat)
    BY <1>0, ConcatProperties
  <2> HIDE DEF F, T, s
  <2>6. pending \o Append(T, s) = Append(pending \o T, s)
    BY <1>0, <2>3, AppendRight, SMTT(30)
  <2>7. F \o Append(pending \o T, s) = Append(F \o (pending \o T), s)
    <3> DEFINE w == pending \o T
    <3> HIDE DEF w
    <3>1. w \in Seq(Nat)
      BY <2>5 DEF w
    <3>2. F \o Append(w, s) = Append(F \o w, s)
      BY <1>0, <2>3, <3>1, AppendRight, SMTT(30)
    <3> QED
      BY <3>2 DEF w
  <2>8. F \o (pending \o Append(T, s)) = accepted'
    BY <1>0, <2>1, <2>6, <2>7
  <2>9. Segments(trans)' = Append(T, s) /\ FlattenSeq(lines)' = F
    BY <2>1, <2>4 DEF F
  <2> QED
    BY <2>1, <2>8, <2>9 DEF FlightInv
<1>5. ASSUME NEW c \in 1..Conns, ReaderSends(c) \/ ReaderStops(c)
                               \/ \E last \in BOOLEAN : ReaderReceives(c, last)
      PROVE  \/ UNCHANGED <<lines, trans, pending, accepted>>
             \/ ReaderSends(c) /\ ~transClosed
  BY <1>5 DEF ReaderSends, ReaderStops, ReaderReceives, ReaderUnchanged, EngineUnchanged,
              hubVars, writerVars
<1>6. CASE EngineConnects
  BY <1>1, <1>6 DEF EngineConnects, EngineUnchanged, hubVars, writerVars
<1>7. CASE HubWritesLine \/ Flush
  <2>1. pending' = <<>> /\ UNCHANGED <<trans, accepted>>
    BY <1>7 DEF HubWritesLine, HubUnchanged, Flush, MainUnchanged
  <2>2. WriteOpen(pending) \/ (pending = <<>> /\ UNCHANGED lines)
    BY <1>7 DEF HubWritesLine, Flush, MainSteps, Write, StageInv, writerVars
  <2> QED
    BY <1>1, <1>2, <2>1, <2>2
<1>8. CASE UNCHANGED <<trans, pending, reader, hand, received, accepted>>
  <2>1. \/ UNCHANGED lines
        \/ pending' = <<>> /\ WriteOpen(pending)
    BY WriterSteps DEF writerVars, Tick, Close
  <2> QED
    BY <1>1, <1>2, <1>8, <2>1
<1> QED
  BY <1>3, <1>4, <1>5, <1>6, <1>7, <1>8, <1>1, Steps

-----------------------------------------------------------------------------
\* The writer's two error flags are never anything but flags.
FlagInv == transErr \in BOOLEAN /\ closeErr \in BOOLEAN

WriteInv == CleanInv /\ TravelInv /\ StageInv /\ FileInv /\ SilenceInv /\ FlagInv

LEMMA InitWriteInv == Init => WriteInv
<1> SUFFICES ASSUME Init PROVE WriteInv
  OBVIOUS
<1> USE DEF Init, WriterInit
<1>1. TravelInv /\ StageInv /\ FlagInv
  <2>1. TravelInv
    BY DEF TravelInv
  <2>2. StageInv
    BY DEF StageInv
  <2> QED
    BY <2>1, <2>2 DEF FlagInv
<1>2. EmptyFile \in Files /\ Held(EmptyFile) = <<>> /\ ~EmptyFile.failed
  <2>1. EmptyFile.disk \o EmptyFile.buf = <<>>
    BY DEF EmptyFile
  <2> QED
    BY <2>1 DEF EmptyFile, Files, Held
<1>3. Rendered(lines) = <<>> /\ lines \in Seq(Seq(Nat)) /\ lines = <<>>
  BY DEF Rendered, FlattenSeq
<1>4. FileInv
  <2>1. IsPrefix(<<>>, <<>>)
    BY DEF IsPrefix
  <2> QED
    BY <1>2, <1>3, <2>1 DEF FileInv
<1>5. SilenceInv
  BY <1>2 DEF SilenceInv
<1> QED
  BY <1>1, <1>4, <1>5, InitCleanInv DEF WriteInv

LEMMA NextWriteInv == WriteInv /\ [Next]_vars => WriteInv'
<1> SUFFICES ASSUME WriteInv, [Next]_vars PROVE WriteInv'
  OBVIOUS
<1>0. CleanInv /\ TravelInv /\ StageInv /\ FileInv /\ SilenceInv /\ FlagInv /\ TypeInv /\ OrderInv
  BY DEF WriteInv, CleanInv
<1>1. CleanInv' /\ TravelInv' /\ StageInv'
  BY <1>0, NextCleanInv, TravelNext, StageNext
<1>2. FileInv' /\ SilenceInv' /\ FlagInv'
  <2>1. CASE UNCHANGED writerVars
    BY <1>0, <2>1 DEF writerVars, FileInv, SilenceInv, FlagInv, Held, Rendered
  <2>2. CASE WriteOpen(pending)
    <3>1. pending \in Seq(Nat) /\ transErr \in BOOLEAN
      BY <1>0 DEF TravelInv, FlagInv
    <3>2. FileInv' /\ SilenceInv'
      BY <1>0, <2>2, <3>1, FileWrite, SilenceWrite
    <3>3. FlagInv'
      BY <1>0, <2>2 DEF WriteOpen, FlagInv
    <3> QED
      BY <3>2, <3>3
  <2>3. CASE Tick
    <3>1. FileInv'
      BY <1>0, <2>3, FileFlush DEF Tick
    <3>2. SilenceInv' /\ FlagInv'
      BY <1>0, <2>3, SilenceTick DEF Tick, FlagInv
    <3> QED
      BY <3>1, <3>2
  <2>4. CASE Close
    <3>1. FileInv'
      <4>1. CASE closed
        BY <1>0, <2>4, <4>1 DEF Close, FileInv, Held, Rendered
      <4>2. CASE ~closed
        BY <1>0, <2>4, <4>2, FileFlush DEF Close
      <4> QED
        BY <4>1, <4>2
    <3>2. SilenceInv' /\ FlagInv'
      BY <1>0, <2>4, SilenceClose DEF Close, FlagInv
    <3> QED
      BY <3>1, <3>2
  <2> QED
    BY <1>0, <2>1, <2>2, <2>3, <2>4, WriterSteps
<1> QED
  BY <1>1, <1>2 DEF WriteInv

\* Whatever fails and whenever the process dies, each file is a beginning of
\* the transcript, and transcript.jsonl never runs ahead (Write, flush, Close).
THEOREM FilesAreBeginnings == Spec => []FilesFollowTheSession
<1>1. WriteInv => FilesFollowTheSession
  BY FileFollows DEF WriteInv
<1> QED BY <1>1, InitWriteInv, NextWriteInv, PTL DEF Spec

\* A session that reported no error has a complete transcript, and its
\* metrics counted every line (Write, Close).
THEOREM NoErrorNoLoss == Spec => []SilenceMeansComplete
<1>1. WriteInv => SilenceMeansComplete
  BY SilenceTells DEF WriteInv
<1> QED BY <1>1, InitWriteInv, NextWriteInv, PTL DEF Spec

-----------------------------------------------------------------------------
LossInv == WriteInv /\ FlightInv /\ CutInv /\ HeldInv

LEMMA LossIsNothing == LossInv => NothingInFlightIsLost
<1> SUFFICES ASSUME LossInv, main = "exited" PROVE
       /\ FlattenSeq(lines) = accepted
       /\ ~transErr => linesWritten = Len(lines)
       /\ faults = {} => accepted = [i \in 1..received |-> i]
  BY DEF NothingInFlightIsLost
<1>0. CleanInv /\ TypeInv /\ ReaderInv /\ OrderInv /\ StageInv /\ FlightInv /\ HeldInv /\ FileInv
  BY DEF LossInv, WriteInv, CleanInv
<1>1. pending = <<>> /\ trans = <<>>
  BY <1>0 DEF StageInv
<1>2. FlattenSeq(lines) = accepted
  <2>1. FlattenSeq(lines) \in Seq(Nat)
    BY <1>0, FlattenType DEF FileInv
  <2> DEFINE F == FlattenSeq(lines)
  <2>2. pending \o Segments(trans) = <<>>
    BY <1>1 DEF Segments
  <2> HIDE DEF F
  <2>3. F \o <<>> = F
    BY <2>1, ConcatEmptySeq DEF F
  <2> QED
    BY <1>0, <2>2, <2>3 DEF F, FlightInv
<1>3. ASSUME faults = {} PROVE accepted = [i \in 1..received |-> i]
  <2>1. \A c \in 1..Conns : reader[c] # "sending"
    BY <1>0, <1>3 DEF OrderInv, ReaderInv, Active
  <2>2. received = Len(accepted) /\ \A i \in DOMAIN accepted : accepted[i] = i
    BY <1>0, <1>3, <2>1 DEF HeldInv
  <2>3. accepted \in Seq(Nat)
    BY <1>0 DEF TypeInv
  <2> QED
    BY <2>2, <2>3
<1>4. ~transErr => linesWritten = Len(lines)
  BY DEF LossInv, WriteInv, SilenceInv
<1> QED
  BY <1>2, <1>3, <1>4

LEMMA LossInit == Init => LossInv
<1>1. Init => FlightInv
  BY DEF Init, WriterInit, FlightInv, Segments, FlattenSeq
<1>2. Init => CutInv /\ HeldInv
  BY SessionAssumption DEF Init, CutInv, HeldInv
<1> QED
  BY <1>1, <1>2, InitWriteInv DEF LossInv

LEMMA LossNext == LossInv /\ [Next]_vars => LossInv'
<1> SUFFICES ASSUME LossInv, [Next]_vars PROVE LossInv'
  OBVIOUS
<1>1. /\ WriteInv /\ FlightInv /\ CutInv /\ HeldInv /\ CleanInv /\ TypeInv /\ OrderInv
      /\ TravelInv /\ StageInv /\ FileInv
  BY DEF LossInv, WriteInv, CleanInv
<1>2. WriteInv' /\ FlightInv'
  BY <1>1, NextWriteInv, FlightNext
<1>3. CutInv' /\ HeldInv'
  BY <1>1, CutNext, HeldNext
<1> QED
  BY <1>2, <1>3 DEF LossInv

\* Shutdown loses nothing that was in flight: the transcript is what the hub
\* was sent, and that is everything received unless a link was lost or a
\* drain ran out (run, shutdown).
THEOREM ShutdownLosesNothing == Spec => []NothingInFlightIsLost
BY LossInit, LossNext, LossIsNothing, PTL DEF Spec

-----------------------------------------------------------------------------
(* The session implements the log.                                         *)

\* What is on disk stays there, whatever a file is asked to do.
LEMMA DrainsGrow ==
  ASSUME NEW f \in Files, NEW n \in 0..Len(f.buf), NEW g \in Drains(f, n)
  PROVE  IsPrefix(f.disk, g.disk)
<1>0. f.disk \in Seq(Piece) /\ f.buf \in Seq(Piece) /\ n \in Nat
  BY DEF Files
<1>1. ASSUME NEW k \in 0..Len(f.buf) PROVE IsPrefix(f.disk, Drained(f, k).disk)
  <2> DEFINE front == SubSeq(f.buf, 1, k)
             d == f.disk
  <2>1. front \in Seq(Piece) /\ d \in Seq(Piece)
    BY <1>0
  <2>2. Drained(f, k).disk = d \o front
    BY DEF Drained, Files
  <2> HIDE DEF front, d
  <2>3. IsPrefix(d, d \o front)
    BY <2>1, PrefixGrows
  <2> QED
    BY <2>2, <2>3 DEF d
<1>2. CASE g = Drained(f, n)
  BY <1>1, <1>2
<1>3. ASSUME NEW k \in 0..n - 1, g = [Drained(f, k) EXCEPT !.failed = TRUE]
      PROVE  IsPrefix(f.disk, g.disk)
  <2>1. k \in 0..Len(f.buf)
    BY <1>0
  <2>2. g.disk = Drained(f, k).disk
    <3>1. Drained(f, k) \in Files
      BY <2>1, DrainedKeeps
    <3> QED
      BY <1>3, <3>1 DEF Files
  <2> QED
    BY <1>1, <2>1, <2>2
<1> QED
  BY <1>2, <1>3 DEF Drains

LEMMA FileStays ==
  ASSUME NEW f \in Files
  PROVE  IsPrefix(f.disk, f.disk)
<1>1. f.disk \in Seq(Piece)
  BY DEF Files
<1> QED
  BY <1>1, PrefixGrows

LEMMA FlushesGrow ==
  ASSUME NEW f \in Files, NEW g \in Flushes(f)
  PROVE  IsPrefix(f.disk, g.disk)
<1>1. Len(f.buf) \in 0..Len(f.buf)
  BY DEF Files
<1> QED
  BY <1>1, DrainsGrow, FileStays DEF Flushes

LEMMA WritesGrow ==
  ASSUME NEW f \in Files, NEW l \in Seq(Nat), NEW g \in Writes(f, l)
  PROVE  IsPrefix(f.disk, g.disk)
<1> DEFINE b == f.buf \o Pieces(l)
           filled == [f EXCEPT !.buf = @ \o Pieces(l)]
<1>1. f.buf \in Seq(Piece) /\ f.disk \in Seq(Piece) /\ Pieces(l) \in Seq(Piece)
  BY PiecesType DEF Files
<1>2. b \in Seq(Piece)
  BY <1>1, ConcatProperties
<1>3. filled = [f EXCEPT !.buf = b]
  OBVIOUS
<1> HIDE DEF b, filled
<1>4. filled \in Files /\ filled.disk = f.disk /\ filled.buf = b
  BY <1>2, <1>3 DEF Files
<1>5. Len(filled.buf) \in Nat
  BY <1>2, <1>4
<1>6. f.failed \/ Len(filled.buf) <= BufferCap \/ BufferCap \in 0..Len(filled.buf)
  BY <1>5, WriterAssumption
<1>7. g = f \/ g = filled \/ (BufferCap \in 0..Len(filled.buf) /\ g \in Drains(filled, BufferCap))
  BY <1>6 DEF Writes, filled
<1> QED
  BY <1>4, <1>7, DrainsGrow, FileStays

LEMMA DisksGrow ==
  ASSUME TravelInv, StageInv, FileInv, [Next]_vars
  PROVE  IsPrefix(txt.disk, txt'.disk) /\ IsPrefix(jsonl.disk, jsonl'.disk)
<1>0. txt \in Files /\ jsonl \in Files
  BY DEF FileInv
<1>1. CASE UNCHANGED <<txt, jsonl>>
  BY <1>0, <1>1, FileStays
<1>2. CASE txt' \in Flushes(txt) /\ jsonl' \in Flushes(jsonl)
  BY <1>0, <1>2, FlushesGrow
<1>3. CASE pending \in Seq(Nat) /\ WriteOpen(pending)
  <2>1. txt' \in Writes(txt, pending) /\ (jsonl' = jsonl \/ jsonl' \in Writes(jsonl, pending))
    BY <1>3 DEF WriteOpen
  <2> QED
    BY <1>0, <1>3, <2>1, WritesGrow, FileStays
<1> QED
  BY <1>1, <1>2, <1>3, WriterSteps DEF writerVars, Tick, Close

-----------------------------------------------------------------------------
\* On top of what keeps segments from being lost: a line is never empty, the
\* session exits behind its writer, and segments are numbered within bounds.
LogInv ==
  /\ LossInv
  /\ hub = "line" => pending # <<>>
  /\ main = "exited" => closed
  /\ \A c \in 1..Conns : reader[c] = "sending" => hand[c].segment \in 1..MaxResults

LEMMA LogInvInit == Init => LogInv
BY LossInit DEF Init, LogInv

\* The hub's goroutine.
LEMMA LineNext ==
  ASSUME TravelInv, StageInv, [Next]_vars, hub = "line" => pending # <<>>
  PROVE  hub' = "line" => pending' # <<>>
<1>1. CASE UNCHANGED hubVars
  BY <1>1 DEF hubVars
<1>2. CASE HubPublishes
  <2>1. pending' = Append(pending, Head(trans).segment) /\ pending \in Seq(Nat)
    BY <1>2 DEF HubPublishes, TravelInv
  <2>2. trans # <<>> /\ trans \in Seq(Transcripts)
    BY <1>2 DEF HubPublishes, TravelInv
  <2>3. Head(trans) \in Transcripts
    BY <2>2
  <2>4. Head(trans).segment \in Nat
    BY <2>3 DEF Transcripts
  <2> QED
    BY <2>1, <2>4, AppendProperties
<1>3. CASE HubWritesLine \/ HubEnds
  BY <1>3 DEF HubWritesLine, HubEnds
<1>4. CASE Start
  BY <1>4 DEF Start, hubVars
<1>5. CASE Flush
  BY <1>5 DEF Flush, MainSteps, StageInv
<1>6. CASE \/ CloseTranscripts \/ HubAwaited \/ CloseMonitor \/ FFmpegHangs
           \/ MonitorAwaited \/ CloseSource \/ CloseWriter
  BY <1>6 DEF CloseTranscripts, HubAwaited, CloseMonitor, FFmpegHangs, MonitorAwaited,
              CloseSource, CloseWriter, hubVars
<1>7. CASE Source \/ Wrap \/ Engine
  BY <1>7 DEF Source, SourceSends, SourceEnds, SourceUnchanged, Wrap, Tap, WrapEnds,
              hubVars, Engine, EngineRefused, EngineConnects, EngineDrains, DrainEnds,
              LinkLost, WriteStalls, ReaderJoined, EngineStops, EngineUnchanged
<1>8. ASSUME NEW c \in 1..Conns, Reader(c) PROVE UNCHANGED hubVars
  BY <1>8 DEF Reader, ReaderReceives, ReaderSends, ReaderStops, EngineUnchanged,
              ReaderUnchanged
<1>9. CASE WriterTicks \/ Interrupt \/ UNCHANGED vars
  BY <1>9 DEF WriterTicks, Interrupt, vars, hubVars
<1> QED
  BY <1>1, <1>2, <1>3, <1>4, <1>5, <1>6, <1>7, <1>8, <1>9 DEF Next, Main, Hub, Finished

\* Only closing the writer brings the session to its exit, and nothing back.
LEMMA ExitSteps ==
  ASSUME [Next]_vars
  PROVE  main' = "exited" => main = "exited" \/ CloseWriter
<1>1. CASE Main \/ FFmpegHangs
  BY <1>1 DEF Main, Start, CloseTranscripts, HubAwaited, Flush, CloseMonitor,
              FFmpegHangs, MonitorAwaited, CloseSource, MainSteps
<1>2. CASE Source \/ Wrap \/ Engine \/ Hub \/ WriterTicks \/ Interrupt \/ UNCHANGED vars
  BY <1>2 DEF Source, SourceSends, SourceEnds, SourceUnchanged, Wrap, Tap, WrapEnds,
              Engine, EngineRefused, EngineConnects, EngineDrains, DrainEnds, LinkLost,
              WriteStalls, ReaderJoined, EngineStops, EngineUnchanged, Hub,
              HubPublishes, HubWritesLine, HubEnds, HubUnchanged, WriterTicks,
              Interrupt, vars
<1>3. ASSUME NEW c \in 1..Conns, Reader(c) PROVE main' = main
  BY <1>3 DEF Reader, ReaderReceives, ReaderSends, ReaderStops, EngineUnchanged,
              ReaderUnchanged
<1> QED
  BY <1>1, <1>2, <1>3 DEF Next, Finished

LEMMA ExitStays ==
  ASSUME [Next]_vars, main = "exited"
  PROVE  main' = "exited"
<1>1. CASE Main \/ FFmpegHangs
  BY <1>1 DEF Main, Start, CloseTranscripts, HubAwaited, Flush, CloseMonitor,
              FFmpegHangs, MonitorAwaited, CloseSource, CloseWriter, MainSteps
<1>2. CASE Source \/ Wrap \/ Engine \/ Hub \/ WriterTicks \/ Interrupt \/ UNCHANGED vars
  BY <1>2 DEF Source, SourceSends, SourceEnds, SourceUnchanged, Wrap, Tap, WrapEnds,
              Engine, EngineRefused, EngineConnects, EngineDrains, DrainEnds, LinkLost,
              WriteStalls, ReaderJoined, EngineStops, EngineUnchanged, Hub,
              HubPublishes, HubWritesLine, HubEnds, HubUnchanged, WriterTicks,
              Interrupt, vars
<1>3. ASSUME NEW c \in 1..Conns, Reader(c) PROVE main' = main
  BY <1>3 DEF Reader, ReaderReceives, ReaderSends, ReaderStops, EngineUnchanged,
              ReaderUnchanged
<1> QED
  BY <1>1, <1>2, <1>3 DEF Next, Finished

LEMMA ClosedStays ==
  ASSUME TravelInv, StageInv, [Next]_vars, closed
  PROVE  closed'
BY WriterSteps DEF writerVars, WriteOpen, Tick, Close

\* What a reader holds is numbered within the bound.
LEMMA NumberNext ==
  ASSUME TypeInv, [Next]_vars,
         \A c \in 1..Conns : reader[c] = "sending" => hand[c].segment \in 1..MaxResults
  PROVE  \A c \in 1..Conns : reader'[c] = "sending" => hand'[c].segment \in 1..MaxResults
<1>0. /\ DOMAIN hand = 1..Conns /\ received \in Nat /\ MaxResults \in Nat
      /\ DOMAIN reader = 1..Conns
  BY SessionAssumption DEF TypeInv
<1>1. CASE UNCHANGED <<trans, pending, reader, hand, received, accepted>>
  BY <1>1
<1>2. CASE EngineConnects
  BY <1>0, <1>2 DEF EngineConnects
<1>3. CASE HubPublishes \/ HubWritesLine \/ Flush
  BY <1>3 DEF HubPublishes, HubWritesLine, Flush, HubUnchanged, MainUnchanged, engVars
<1>4. ASSUME NEW c \in 1..Conns, NEW last \in BOOLEAN, ReaderReceives(c, last)
      PROVE  \A d \in 1..Conns : reader'[d] = "sending" => hand'[d].segment \in 1..MaxResults
  <2>1. /\ received < MaxResults /\ received' = received + 1
        /\ hand' = [hand EXCEPT ![c] = [segment |-> received', last |-> last]]
        /\ reader' = [reader EXCEPT ![c] = "sending"]
    BY <1>4 DEF ReaderReceives
  <2>2. received' \in 1..MaxResults
    BY <1>0, <2>1
  <2>3. hand'[c].segment = received'
    BY <1>0, <2>1
  <2>4. \A d \in 1..Conns : d # c => hand'[d] = hand[d] /\ reader'[d] = reader[d]
    BY <1>0, <2>1
  <2> QED
    BY <2>2, <2>3, <2>4
<1>5. ASSUME NEW c \in 1..Conns, ReaderSends(c) \/ ReaderStops(c)
      PROVE  \A d \in 1..Conns : reader'[d] = "sending" => hand'[d].segment \in 1..MaxResults
  <2>1. \/ UNCHANGED <<reader, hand>>
        \/ \E to \in {"reading", "done"} : /\ reader' = [reader EXCEPT ![c] = to]
                                           /\ hand' = [hand EXCEPT ![c] = NoHand]
    BY <1>5 DEF ReaderSends, ReaderStops
  <2>2. \A d \in 1..Conns : reader'[d] = "sending" =>
          reader[d] = "sending" /\ hand'[d] = hand[d]
    BY <1>0, <2>1
  <2> QED
    BY <2>2
<1> QED
  BY <1>1, <1>2, <1>3, <1>4, <1>5, Steps

LEMMA LogInvNext == LogInv /\ [Next]_vars => LogInv'
<1> SUFFICES ASSUME LogInv, [Next]_vars PROVE LogInv'
  OBVIOUS
<1>1. LossInv /\ TravelInv /\ StageInv /\ TypeInv
  BY DEF LogInv, LossInv, WriteInv, CleanInv
<1>2. LossInv'
  BY <1>1, LossNext
<1>3. hub' = "line" => pending' # <<>>
  BY <1>1, LineNext DEF LogInv
<1>4. main' = "exited" => closed'
  <2>1. CASE main = "exited"
    BY <1>1, <2>1, ClosedStays DEF LogInv
  <2>2. CASE CloseWriter
    BY <2>2 DEF CloseWriter, Close
  <2> QED
    BY <2>1, <2>2, ExitSteps
<1>5. \A c \in 1..Conns : reader'[c] = "sending" => hand'[c].segment \in 1..MaxResults
  BY <1>1, NumberNext DEF LogInv
<1> QED
  BY <1>2, <1>3, <1>4, <1>5 DEF LogInv

-----------------------------------------------------------------------------
\* A segment enters the channel at a time, and only while the session runs.
LEMMA AcceptSteps ==
  ASSUME LogInv, [Next]_vars
  PROVE  \/ UNCHANGED accepted
         \/ /\ \E s \in 1..MaxResults : accepted' = Append(accepted, s)
            /\ UNCHANGED <<main, writerVars>> /\ main # "exited"
<1>1. CASE UNCHANGED <<trans, pending, reader, hand, received, accepted>>
  BY <1>1
<1>2. CASE EngineConnects \/ HubPublishes \/ HubWritesLine \/ Flush
  BY <1>2 DEF EngineConnects, EngineUnchanged, HubPublishes, HubWritesLine, HubUnchanged,
              Flush, MainUnchanged
<1>3. ASSUME NEW c \in 1..Conns, ReaderStops(c) \/ \E last \in BOOLEAN : ReaderReceives(c, last)
      PROVE  UNCHANGED accepted
  BY <1>3 DEF ReaderStops, ReaderReceives, EngineUnchanged
<1>4. ASSUME NEW c \in 1..Conns, ReaderSends(c), ~transClosed
      PROVE  /\ \E s \in 1..MaxResults : accepted' = Append(accepted, s)
             /\ UNCHANGED <<main, writerVars>> /\ main # "exited"
  <2>1. reader[c] = "sending" /\ accepted' = Append(accepted, hand[c].segment)
        /\ UNCHANGED <<main, writerVars>>
    BY <1>4 DEF ReaderSends, ReaderUnchanged
  <2>2. hand[c].segment \in 1..MaxResults
    BY <2>1 DEF LogInv
  <2>3. main # "exited"
    BY <1>4, <2>1 DEF LogInv, LossInv, WriteInv, StageInv
  <2> QED
    BY <2>1, <2>2, <2>3
<1>5. ASSUME NEW c \in 1..Conns, ReaderSends(c), transClosed PROVE UNCHANGED accepted
  BY <1>5 DEF ReaderSends
<1> QED
  BY <1>1, <1>2, <1>3, <1>4, <1>5, Steps

LEMMA JoinPlaces ==
  ASSUME NEW S, NEW s \in Seq(S), NEW t \in Seq(S)
  PROVE  /\ s \o t \in Seq(S) /\ Len(s \o t) = Len(s) + Len(t)
         /\ \A i \in 1..Len(t) : (s \o t)[Len(s) + i] = t[i]
OBVIOUS

\* A line that is written is made of the next segments.
LEMMA LineIsNext ==
  ASSUME LogInv, WriteOpen(pending), pending # <<>>
  PROVE  LET n == Len(FlattenSeq(lines))
         IN  \E k \in 1..(Len(accepted) - n) :
               lines' = Append(lines, SubSeq(accepted, n + 1, n + k))
<1> DEFINE F == FlattenSeq(lines)
           p == pending
           T == Segments(trans)
           n == Len(F)
           k == Len(p)
<1>1. /\ F \in Seq(Nat) /\ T \in Seq(Nat) /\ p \in Seq(Nat) /\ p # <<>>
      /\ F \o (p \o T) = accepted /\ lines' = Append(lines, p)
  BY FlattenType, SegmentsType
     DEF LogInv, LossInv, WriteInv, TravelInv, FileInv, FlightInv, WriteOpen
<1> HIDE DEF F, p, T
<1>2. /\ p \o T \in Seq(Nat) /\ Len(p \o T) = Len(p) + Len(T)
      /\ \A i \in 1..Len(p) : (p \o T)[i] = p[i]
  BY <1>1, ConcatProperties
<1>3. /\ accepted \in Seq(Nat) /\ Len(accepted) = Len(F) + (Len(p) + Len(T))
      /\ \A i \in 1..Len(p) : accepted[Len(F) + i] = p[i]
  <2> DEFINE w == p \o T
  <2>1. w \in Seq(Nat) /\ Len(w) = Len(p) + Len(T) /\ (\A i \in 1..Len(p) : w[i] = p[i])
        /\ F \o w = accepted
    BY <1>1, <1>2
  <2>2. Len(p) \in Nat /\ Len(T) \in Nat
    BY <1>1
  <2> HIDE DEF w
  <2>3. /\ F \o w \in Seq(Nat) /\ Len(F \o w) = Len(F) + Len(w)
        /\ \A i \in 1..Len(w) : (F \o w)[Len(F) + i] = w[i]
    <3>1. F \in Seq(Nat) /\ w \in Seq(Nat)
      BY <1>1, <2>1
    <3> QED
      BY <3>1, JoinPlaces, Zenon
  <2>4. \A i \in 1..Len(p) : i \in 1..Len(w)
    BY <2>1, <2>2
  <2> QED
    BY <2>1, <2>3, <2>4
<1>4. n \in Nat /\ k \in Nat \ {0} /\ Len(T) \in Nat
  BY <1>1
<1> HIDE DEF n, k
<1>5. k \in 1..(Len(accepted) - n)
  BY <1>3, <1>4 DEF n, k
<1>6. SubSeq(accepted, n + 1, n + k) = p
  <2> DEFINE u == SubSeq(accepted, n + 1, n + k)
  <2>1. n + 1 \in 1..Len(accepted) + 1 /\ n + k \in n..Len(accepted)
    BY <1>3, <1>4 DEF n, k
  <2>2. u \in Seq(Nat) /\ Len(u) = k /\ \A i \in 1..k : u[i] = accepted[n + i]
    BY <1>3, <1>4, <2>1
  <2> HIDE DEF u
  <2>3. \A i \in 1..k : u[i] = p[i]
    BY <1>3, <2>2 DEF n, k
  <2>4. u = p
    BY <1>1, <2>2, <2>3, SeqEqual DEF k
  <2> QED
    BY <2>4 DEF u
<1>7. lines' = Append(lines, SubSeq(accepted, n + 1, n + k))
  BY <1>1, <1>6
<1> QED
  BY <1>5, <1>7 DEF n, F

\* The library's operators are the same in the log's module.
LEMMA LogPrefix ==
  ASSUME NEW a, NEW b
  PROVE  Log!IsPrefix(a, b) <=> IsPrefix(a, b)
BY Zenon DEF Log!IsPrefix, IsPrefix

LEMMA LogFlatten ==
  ASSUME NEW s
  PROVE  Log!FlattenSeq(s) = FlattenSeq(s)
BY Zenon DEF Log!FlattenSeq, FlattenSeq

\* Every step of the session is a step of the log, or leaves it alone.
LEMMA LogSteps == LogInv /\ LogInv' /\ [Next]_vars => [Log!Next]_(Log!log)
<1> SUFFICES ASSUME LogInv, LogInv', [Next]_vars PROVE [Log!Next]_(Log!log)
  OBVIOUS
<1>1. TravelInv /\ StageInv /\ FileInv /\ FlagInv
  BY DEF LogInv, LossInv, WriteInv
<1>2. Log!FilesGrow
  <2>1. IsPrefix(txt.disk, txt'.disk) /\ IsPrefix(jsonl.disk, jsonl'.disk)
    BY <1>1, DisksGrow
  <2>2. FileInv => FilesFollowTheSession
    BY FileFollows
  <2>3. FilesFollowTheSession'
    <3>1. FileInv'
      BY DEF LogInv, LossInv, WriteInv
    <3>2. FileInv' => FilesFollowTheSession'
      BY <2>2, FileFollows, PTL
    <3> QED
      BY <3>1, <3>2
  <2>4. IsPrefix(txt'.disk, Rendered(lines')) /\ IsPrefix(jsonl'.disk, Rendered(lines'))
    BY <2>3 DEF FilesFollowTheSession
  <2> QED
    BY <2>1, <2>4, LogPrefix, Zenon DEF Log!FilesGrow, Log!Extends
<1>3. CASE main = "exited"
  <2>1. closed /\ main' = "exited"
    BY <1>3, ExitStays DEF LogInv
  <2>2. UNCHANGED accepted
    BY <1>3, AcceptSteps
  <2>3. UNCHANGED <<lines, txt, jsonl, transErr, closeErr>>
    BY <1>1, <2>1, WriterSteps DEF writerVars, WriteOpen, Tick, Close
  <2> QED
    BY <1>3, <2>1, <2>2, <2>3 DEF Log!log
<1>4. CASE main # "exited" /\ main' = "exited"
  <2>1. CloseWriter
    BY <1>4, ExitSteps
  <2>2. Close /\ UNCHANGED <<accepted, lines>>
    BY <2>1 DEF CloseWriter, Close, MainUnchanged
  <2>3. ~transErr' /\ ~closeErr' =>
          FlattenSeq(lines) = accepted /\ txt'.disk = Rendered(lines) /\ jsonl'.disk = Rendered(lines)
    <3>1. NothingInFlightIsLost'
      <4>1. LossInv'
        BY DEF LogInv
      <4>2. LossInv' => NothingInFlightIsLost'
        BY LossIsNothing, PTL
      <4> QED
        BY <4>1, <4>2
    <3>2. SilenceMeansComplete'
      <4>1. FileInv' /\ SilenceInv'
        BY DEF LogInv, LossInv, WriteInv
      <4>2. FileInv' /\ SilenceInv' => SilenceMeansComplete'
        BY SilenceTells, PTL
      <4> QED
        BY <4>1, <4>2
    <3>3. closed'
      BY <2>2 DEF Close
    <3> QED
      BY <1>4, <2>2, <3>1, <3>2, <3>3 DEF NothingInFlightIsLost, SilenceMeansComplete
  <2> QED
    BY <1>2, <1>4, <2>2, <2>3, LogFlatten DEF Log!Next, Log!End
<1>5. CASE main # "exited" /\ main' # "exited"
  <2>1. CASE UNCHANGED writerVars
    <3>1. UNCHANGED <<lines, txt, jsonl>>
      BY <2>1 DEF writerVars
    <3>2. CASE UNCHANGED accepted
      BY <1>5, <3>1, <3>2 DEF Log!log
    <3>3. CASE \E s \in 1..MaxResults : accepted' = Append(accepted, s)
      BY <1>5, <3>1, <3>3 DEF Log!Next, Log!Hear
    <3> QED
      BY <3>2, <3>3, AcceptSteps
  <2>2. CASE /\ WriteOpen(pending) /\ (hub = "line" \/ pending # <<>>)
             /\ UNCHANGED <<trans, accepted>>
    <3>1. pending # <<>>
      BY <2>2 DEF LogInv
    <3> QED
      BY <1>2, <1>5, <2>2, <3>1, LineIsNext, LogFlatten DEF Log!Next, Log!Line
  <2>3. CASE (Tick \/ Close) /\ UNCHANGED accepted
    <3>1. UNCHANGED lines
      BY <2>3 DEF Tick, Close
    <3> QED
      BY <1>2, <1>5, <2>3, <3>1 DEF Log!Next, Log!Save
  <2> QED
    BY <1>1, <2>1, <2>2, <2>3, WriterSteps
<1> QED
  BY <1>3, <1>4, <1>5

LEMMA LogStarts == Init => Log!Init
BY DEF Init, WriterInit, EmptyFile, Log!Init

\* Reader, channel, hub and writer implement the transcript's log: a line is made
\* of the next segments heard, the files only grow, and a session that ends with
\* no error ends with a complete transcript (run, shutdown, Writer).
THEOREM ImplementsTranscriptLog == Spec => RefinesTranscriptLog
BY LogInvInit, LogInvNext, LogStarts, LogSteps, PTL DEF Spec, RefinesTranscriptLog,
                                                        Log!Spec
=============================================================================
