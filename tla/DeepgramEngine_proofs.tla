------------------------ MODULE DeepgramEngine_proofs ------------------------
(***************************************************************************)
(* Proofs about the Deepgram engine: for every ring, hold, number of       *)
(* frames and number of faults, its connections, pauses and reconnects are *)
(* kept apart, the audio is sent once and in order, and speech that is     *)
(* lost on the way out is accounted for.                                   *)
(***************************************************************************)
EXTENDS DeepgramEngine, FiniteSetTheorems, TLAPS

\* These groups of variables are named only to keep the frames short.
USE DEF lossVars, strayVars, netVars

\* The steps by what they touch: the pump, Run, and a connection's goroutines.
LEMMA PumpFrame ==
  ASSUME Pump
  PROVE  UNCHANGED <<ctx, run, awaited, firstAttempt, connVars,
                   strayVars, lossVars, metVars, netVars>>
BY DEF Pump, PumpReceive, PumpPush, PumpEnds

LEMMA RunFrame ==
  ASSUME Dial \/ RunStep
  PROVE  UNCHANGED <<ctx, audioVars, ring, notify, lossVars, drops>>
BY DEF Dial, DialOk, DialFails, RunStep, RunTop, SleepEnds, WriterReports,
       ReaderReports, ReaderJoined, WriterJoined, DrainEnds, AfterFinish,
       PauseArm, PauseTest, PauseWakes, PauseReturns, RunUnchanged,
       ConnUnchanged, PauseUnchanged

LEMMA WriterFrame ==
  ASSUME Writer
  PROVE  UNCHANGED <<ctx, audioVars, run, awaited, firstAttempt, reader, link,
                     strayVars, metVars, drops, netVars>>
BY DEF Writer, WriterTest, WriterPop, Write, WriteOk, WriteFails, WriterEnds,
       WriterLoses, WriterNotified, WriterLoops, WriterSelects, WriterUnchanged

LEMMA LinkFrame ==
  ASSUME ReaderFails \/ ServerCloses \/ StrayEnds \/ LinkFails \/ LinkStalls
  PROVE  UNCHANGED <<ctx, audioVars, ring, notify, run, awaited, firstAttempt,
                     writer, chunk, lossVars, metVars, drops, refused>>
BY DEF ReaderFails, ServerCloses, ReaderStops, StrayEnds, LinkFails, LinkStalls,
       NetUnchanged

LEMMA CancelFrame ==
  ASSUME Cancel \/ Finished \/ UNCHANGED vars
  PROVE  /\ UNCHANGED <<audioVars, ring, notify, run, awaited, firstAttempt,
                        connVars, strayVars, lossVars, metVars, drops, netVars>>
         /\ ctx => ctx'
BY DEF Cancel, Finished, vars
-----------------------------------------------------------------------------
(* The connection.                                                         *)

\* A connection's state by where Run is: what ended it, and why.
ConnInv ==
  /\ NoStrayGoroutine /\ strays \in Nat /\ overdue \in Nat
  /\ ~InConnection /\ link # "none" => run = "dial" /\ link = "stalled"
  /\ run = "drain" => writer \in {"paused", "ended"}
  /\ run = "joinReader" => writer = "failed"
  /\ writer = "ended" => ctx \/ (framesClosed /\ ring = <<>>)
  /\ run = "connected" /\ (reader = "done" \/ writer = "failed") => link = "down"
  /\ ConnCancelled => link = "down"

LEMMA ConnNext == ConnInv /\ [Next]_vars => ConnInv'
<1> SUFFICES ASSUME ConnInv, [Next]_vars PROVE ConnInv'
  OBVIOUS
<1> USE DEF ConnInv, NoStrayGoroutine, InConnection, ConnCancelled, framesClosed
<1>1. CASE Pump
  <2>1. framesClosed => framesClosed' /\ ring' = ring
    BY <1>1 DEF Pump, PumpReceive, PumpPush, PumpEnds
  <2> QED
    BY <1>1, <2>1, PumpFrame DEF connVars
<1>2. CASE Dial
  BY <1>2, RunFrame DEF Dial, DialOk, DialFails, RunUnchanged, connVars, audioVars
<1>3. CASE RunTop \/ SleepEnds \/ WriterReports \/ ReaderReports
  BY <1>3, RunFrame
     DEF RunStep, RunTop, SleepEnds, WriterReports, ReaderReports, RunUnchanged,
         connVars, audioVars
<1>4. CASE ReaderJoined \/ WriterJoined
  BY <1>4, RunFrame
     DEF RunStep, ReaderJoined, WriterJoined, Reconnect, ConnectionGone, audioVars
<1>5. CASE DrainEnds
  BY <1>5, RunFrame
     DEF RunStep, DrainEnds, ReaderLeft, AfterFinish, ConnectionGone, audioVars
<1>6. CASE PauseArm \/ PauseTest \/ PauseWakes \/ PauseReturns
  BY <1>6, RunFrame
     DEF RunStep, PauseArm, PauseTest, PauseWakes, PauseReturns, PauseUnchanged,
         connVars, audioVars
<1>7. CASE Writer
  BY <1>7, WriterFrame
     DEF Writer, WriterTest, WriterPop, Write, WriteOk, WriteFails, WriterEnds,
         WriterLoses, WriterNotified, WriterLoops, WriterSelects, audioVars
<1>8. CASE ReaderFails \/ ServerCloses \/ StrayEnds \/ LinkFails \/ LinkStalls
  BY <1>8, LinkFrame DEF ReaderFails, ServerCloses, ReaderStops, StrayEnds, LinkFails, LinkStalls, audioVars
<1>9. CASE Cancel \/ Finished \/ UNCHANGED vars
  BY <1>9, CancelFrame DEF connVars, audioVars
<1> QED
  BY <1>1, <1>2, <1>3, <1>4, <1>5, <1>6, <1>7, <1>8, <1>9 DEF Next, RunStep

LEMMA ConnInit == Init => ConnInv
BY DEF Init, ConnInv, NoStrayGoroutine, InConnection, ConnCancelled, framesClosed

\* Whatever a connection's goroutines and the network do, Run joins its writer
\* before it does anything else, and its reader too unless drainTimeout ended
\* the wait for it (runConnection, finish).
THEOREM GoroutinesAreJoined == Spec => []NoStrayGoroutine
<1>1. ConnInv => NoStrayGoroutine
  BY DEF ConnInv
<1> QED BY <1>1, ConnInit, ConnNext, PTL DEF Spec
-----------------------------------------------------------------------------
(* Pauses and reconnects.                                                  *)

LEMMA PauseNext == PauseAccounted /\ [Next]_vars => PauseAccounted'
<1> SUFFICES ASSUME PauseAccounted, [Next]_vars PROVE PauseAccounted'
  OBVIOUS
<1> USE DEF PauseAccounted, InPause
<1>1. CASE UNCHANGED <<run, sttState, pauseOpen>>
  BY <1>1
<1>2. CASE Dial
  BY <1>2 DEF Dial, DialOk, DialFails, metVars
<1>3. CASE RunTop \/ SleepEnds \/ WriterReports \/ ReaderReports
  BY <1>3 DEF RunTop, SleepEnds, WriterReports, ReaderReports, metVars
<1>4. CASE ReaderJoined \/ WriterJoined \/ DrainEnds
  BY <1>4 DEF ReaderJoined, WriterJoined, Reconnect, DrainEnds, AfterFinish, metVars
<1>5. CASE PauseArm \/ PauseTest \/ PauseWakes \/ PauseReturns
  BY <1>5 DEF PauseArm, PauseTest, PauseWakes, PauseReturns, PauseUnchanged
<1> QED
  BY <1>1, <1>2, <1>3, <1>4, <1>5, PumpFrame, WriterFrame, LinkFrame, CancelFrame
     DEF Next, RunStep, metVars

\* The pause clock runs exactly while Run waits for the gate, on every way
\* into and out of a pause (STTPauseBegin, STTPauseEnd).
THEOREM PausesAreAccounted == Spec => []PauseAccounted
<1>1. Init => PauseAccounted
  BY DEF Init, PauseAccounted, InPause
<1> QED BY <1>1, PauseNext, PTL DEF Spec

\* The fault that broke the current link has not been counted as a reconnect.
FaultInv ==
  /\ reconnects \in Nat /\ faults \in Nat
  /\ reconnects <= faults
  /\ link = "down" => reconnects + 1 <= faults

LEMMA FaultNext == ConnInv /\ FaultInv /\ [Next]_vars => FaultInv'
<1> SUFFICES ASSUME ConnInv, FaultInv, [Next]_vars PROVE FaultInv'
  OBVIOUS
<1> USE DEF FaultInv
<1>1. CASE UNCHANGED <<link, reconnects, faults>>
  BY <1>1
<1>2. CASE DialOk
  BY <1>2 DEF DialOk
<1>3. ASSUME NEW auth \in BOOLEAN, DialFails(auth) PROVE FaultInv'
  BY <1>3 DEF DialFails, metVars
<1>4. CASE ReaderJoined \/ WriterJoined
  <2>1. link = "down"
    BY <1>4 DEF ReaderJoined, WriterJoined, ConnInv, ConnCancelled
  <2> QED
    BY <1>4, <2>1 DEF ReaderJoined, WriterJoined, Reconnect, ConnectionGone,
                      ConnUnchanged, metVars
<1>5. CASE DrainEnds
  BY <1>5 DEF DrainEnds, AfterFinish, ConnectionGone, ConnUnchanged, metVars
<1>6. CASE LinkFails \/ LinkStalls
  BY <1>6 DEF LinkFails, LinkStalls, NetUnchanged, metVars
<1>7. ASSUME \/ RunTop \/ SleepEnds \/ WriterReports \/ ReaderReports
             \/ PauseArm \/ PauseTest \/ PauseWakes \/ PauseReturns
      PROVE  UNCHANGED <<link, reconnects, faults>>
  BY <1>7 DEF RunTop, SleepEnds, WriterReports, ReaderReports, PauseArm,
              PauseTest, PauseWakes, PauseReturns, PauseUnchanged,
              ConnUnchanged, metVars, connVars
<1>8. ASSUME ReaderFails \/ ServerCloses \/ StrayEnds
      PROVE  UNCHANGED <<link, reconnects, faults>>
  BY <1>8 DEF ReaderFails, ServerCloses, ReaderStops, StrayEnds, NetUnchanged, metVars
<1> QED
  BY <1>1, <1>2, <1>3, <1>4, <1>5, <1>6, <1>7, <1>8, PumpFrame, WriterFrame, CancelFrame
     DEF Next, Dial, RunStep, metVars, connVars

\* Only the network makes a reconnect: a pause or the end of the audio is
\* never counted as one (runConnection, finish, STTReconnect).
THEOREM ReconnectsAreCounted == Spec => []ReconnectsAreFaults
<1>1. Init => FaultInv
  BY DEF Init, FaultInv
<1>2. FaultInv => ReconnectsAreFaults
  BY DEF FaultInv, ReconnectsAreFaults
<1> QED BY <1>1, <1>2, ConnInit, ConnNext, FaultNext, PTL DEF Spec

\* Before the first connection nothing was sent or counted.
FirstInv ==
  /\ firstAttempt => sent = <<>> /\ reconnects = 0 /\ ~InConnection
  /\ run = "authError" => firstAttempt

LEMMA FirstNext ==
  ConnInv /\ FirstInv /\ ReturnsOnlyWhenOver /\ [Next]_vars
    => FirstInv' /\ ReturnsOnlyWhenOver'
<1> SUFFICES ASSUME ConnInv, FirstInv, ReturnsOnlyWhenOver, [Next]_vars
             PROVE  FirstInv' /\ ReturnsOnlyWhenOver'
  OBVIOUS
<1> USE DEF FirstInv, ReturnsOnlyWhenOver, InConnection, framesClosed
<1>1. CASE Pump
  <2>1. framesClosed => framesClosed'
    BY <1>1 DEF Pump, PumpReceive, PumpPush, PumpEnds
  <2> QED
    BY <1>1, <2>1, PumpFrame DEF metVars
<1>2. CASE Dial
  BY <1>2, RunFrame DEF Dial, DialOk, DialFails, FailsFast, metVars, audioVars
<1>3. CASE RunTop \/ SleepEnds \/ WriterReports \/ ReaderReports
  BY <1>3, RunFrame
     DEF RunStep, RunTop, SleepEnds, WriterReports, ReaderReports,
         ConnUnchanged, metVars, audioVars
<1>4. CASE ReaderJoined \/ WriterJoined
  BY <1>4, RunFrame
     DEF RunStep, ReaderJoined, WriterJoined, Reconnect, ConnUnchanged, metVars, audioVars
<1>5. CASE DrainEnds
  BY <1>5, RunFrame
     DEF RunStep, DrainEnds, AfterFinish, OutcomeDone, ConnInv, ConnUnchanged,
         metVars, audioVars
<1>6. CASE PauseArm \/ PauseTest \/ PauseWakes \/ PauseReturns
  BY <1>6, RunFrame
     DEF RunStep, PauseArm, PauseTest, PauseWakes, PauseReturns, PauseUnchanged,
         audioVars
<1>7. CASE Writer
  <2>1. InConnection
    BY <1>7 DEF Writer, WriterTest, WriterPop, Write, WriteOk, WriteFails,
                WriterEnds, WriterLoses, WriterNotified, WriterLoops,
                WriterSelects, ConnInv, NoStrayGoroutine
  <2> QED
    BY <1>7, <2>1, WriterFrame DEF metVars, audioVars
<1>8. CASE ReaderFails \/ ServerCloses \/ StrayEnds \/ LinkFails \/ LinkStalls
  BY <1>8, LinkFrame DEF metVars, audioVars
<1>9. CASE Cancel \/ Finished \/ UNCHANGED vars
  BY <1>9, CancelFrame DEF metVars, audioVars
<1> QED
  BY <1>1, <1>2, <1>3, <1>4, <1>5, <1>6, <1>7, <1>8, <1>9 DEF Next, RunStep

\* Run returns only when ctx is done or the source has ended; a rejected key
\* ends it only before anything else was tried (the stt.Engine contract).
THEOREM RunReturnsWhenOver == Spec => []ReturnsOnlyWhenOver
<1>1. Init => FirstInv /\ ReturnsOnlyWhenOver
  BY DEF Init, FirstInv, ReturnsOnlyWhenOver, InConnection
<1> QED BY <1>1, ConnInit, ConnNext, FirstNext, PTL DEF Spec
-----------------------------------------------------------------------------
(* Types.                                                                  *)

\* The part of TypeOK that is about the audio, and the rest of it.
AudioOK ==
  /\ pump \in {"recv", "push", "done"}
  /\ hand \in AtMostOne(Frames) /\ (hand = <<>> <=> pump # "push")
  /\ heard \in Seq(BOOLEAN)
  /\ ring \in Seq(Frames) /\ Len(ring) <= RingCap
  /\ writer \in {"off", "test", "pop", "write", "select",
                 "paused", "ended", "failed"}
  /\ chunk \in AtMostOne(Frames) /\ (chunk # <<>> => writer = "write")
  /\ sent \in Seq(Frames) /\ cut \subseteq Frames

FlagsOK ==
  ctx \in BOOLEAN /\ notify \in BOOLEAN /\ firstAttempt \in BOOLEAN /\ pauseOpen \in BOOLEAN

ControlOK ==
  /\ gate \in Gates
  /\ run \in {"top", "dial", "sleep", "connected", "drain", "joinReader",
              "joinWriter", "pauseArm", "pauseTest", "pauseWait",
              "returned", "authError"}
  /\ awaited \in Nat
  /\ reader \in {"off", "reading", "done"}
  /\ link \in {"none", "up", "stalled", "down"}
  /\ sttState \in {"idle", "connecting", "connected", "reconnecting", "paused"}
  /\ strays \in Nat /\ overdue \in Nat
  /\ reconnects \in Nat /\ drops \in Nat /\ faults \in Nat /\ refused \in Nat

LEMMA TypeParts == TypeOK <=> AudioOK /\ FlagsOK /\ ControlOK
BY DEF TypeOK, AudioOK, FlagsOK, ControlOK

\* One observation keeps the gate's type.
LEMMA GateType ==
  ASSUME gate \in Gates, NEW loud \in BOOLEAN, NEW t \in Nat
  PROVE  ObserveLevel(gate, loud, t) \in Gates
BY PauseAssumption
   DEF Gates, ObserveLevel, Loud, SilentFrom, Generation, Baseline

LEMMA FlagsNext == TypeOK /\ [Next]_vars => FlagsOK'
<1> SUFFICES ASSUME FlagsOK, [Next]_vars PROVE FlagsOK'
  BY TypeParts
<1> USE DEF FlagsOK
<1>1. ASSUME Pump PROVE FlagsOK'
  <2>1. notify' = notify \/ notify' = TRUE
    BY <1>1 DEF Pump, PumpReceive, PumpPush, PumpEnds
  <2> QED
    BY <1>1, <2>1, PumpFrame DEF metVars
<1>2. CASE Dial \/ RunStep
  <2>1. UNCHANGED <<ctx, notify>>
    BY <1>2, RunFrame
  <2>2. firstAttempt' = firstAttempt \/ firstAttempt' = FALSE
    BY <1>2
       DEF Dial, DialOk, DialFails, RunStep, RunTop, SleepEnds, WriterReports,
           ReaderReports, ReaderJoined, WriterJoined, DrainEnds, AfterFinish,
           PauseArm, PauseTest, PauseWakes, PauseReturns, ConnUnchanged,
           PauseUnchanged
  <2>3. pauseOpen' = pauseOpen \/ pauseOpen' = TRUE \/ pauseOpen' = FALSE
    BY <1>2
       DEF Dial, DialOk, DialFails, RunStep, RunTop, SleepEnds, WriterReports,
           ReaderReports, ReaderJoined, WriterJoined, Reconnect, DrainEnds,
           AfterFinish, PauseArm, PauseTest, PauseWakes, PauseReturns, metVars
  <2> QED
    BY <2>1, <2>2, <2>3
<1>3. ASSUME Writer PROVE FlagsOK'
  <2>1. notify' = notify \/ notify' = FALSE
    BY <1>3 DEF Writer, WriterTest, WriterPop, Write, WriteOk, WriteFails,
                WriterEnds, WriterLoses, WriterNotified, WriterLoops
  <2> QED
    BY <1>3, <2>1, WriterFrame DEF metVars
<1>4. CASE ReaderFails \/ ServerCloses \/ StrayEnds \/ LinkFails \/ LinkStalls
  BY <1>4, LinkFrame DEF metVars
<1>5. CASE Cancel \/ Finished \/ UNCHANGED vars
  <2>1. ctx' = ctx \/ ctx' = TRUE
    BY <1>5 DEF Cancel, Finished, vars
  <2> QED
    BY <1>5, <2>1, CancelFrame DEF metVars
<1> QED
  BY <1>1, <1>2, <1>3, <1>4, <1>5 DEF Next

LEMMA ControlNext == TypeOK /\ [Next]_vars => ControlOK'
<1> SUFFICES ASSUME AudioOK, ControlOK, [Next]_vars PROVE ControlOK'
  BY TypeParts
<1> USE DEF ControlOK
<1>1. ASSUME NEW loud \in BOOLEAN, PumpReceive(loud) PROVE ControlOK'
  <2>1. Len(heard) + 1 \in Nat
    BY DEF AudioOK
  <2>2. gate' \in Gates
    BY <1>1, <2>1, GateType DEF PumpReceive
  <2> QED
    BY <1>1, <2>2 DEF PumpReceive, connVars, metVars
<1>2. CASE PumpPush \/ PumpEnds
  BY <1>2 DEF PumpPush, PumpEnds, connVars, metVars
<1>3. CASE Dial
  BY <1>3 DEF Dial, DialOk, DialFails, RunUnchanged, audioVars, connVars, metVars
<1>4. CASE RunTop \/ SleepEnds \/ WriterReports \/ ReaderReports
  BY <1>4 DEF RunTop, SleepEnds, WriterReports, ReaderReports, RunUnchanged,
              ConnUnchanged, audioVars, connVars, metVars
<1>5. CASE ReaderJoined \/ WriterJoined \/ DrainEnds
  BY <1>5 DEF ReaderJoined, WriterJoined, Reconnect, DrainEnds, ReaderLeft,
              AfterFinish, ConnectionGone, ConnUnchanged, audioVars, metVars
<1>6. CASE PauseArm \/ PauseTest \/ PauseWakes \/ PauseReturns
  BY <1>6 DEF PauseArm, PauseTest, PauseWakes, PauseReturns, PauseUnchanged,
              Gates, audioVars, connVars
<1>7. CASE Writer
  BY <1>7, WriterFrame
     DEF Writer, WriterTest, WriterPop, Write, WriteOk, WriteFails, WriterEnds,
         WriterLoses, WriterNotified, WriterLoops, WriterSelects, audioVars, metVars
<1>8. CASE ReaderFails \/ ServerCloses \/ StrayEnds \/ LinkFails \/ LinkStalls
  BY <1>8 DEF ReaderFails, ServerCloses, ReaderStops, StrayEnds, LinkFails, LinkStalls, NetUnchanged, audioVars, metVars
<1>9. CASE Cancel \/ Finished \/ UNCHANGED vars
  BY <1>9 DEF Cancel, Finished, vars, audioVars, connVars, metVars
<1> QED
  BY <1>1, <1>2, <1>3, <1>4, <1>5, <1>6, <1>7, <1>8, <1>9 DEF Next, Pump, RunStep

\* A sequence of frames stays one when another frame is heard.
LEMMA SeqWidens ==
  ASSUME NEW n \in Nat, NEW s \in Seq(1..n)
  PROVE  s \in Seq(1..n + 1)
OBVIOUS

LEMMA AtMostOneIsSequence ==
  ASSUME NEW S, NEW s \in AtMostOne(S)
  PROVE  s \in Seq(S)
<1>1. CASE s = <<>>
  BY <1>1
<1>2. CASE \E x \in S : s = <<x>>
  <2>1. PICK x \in S : s = <<x>>
    BY <1>2
  <2>2. <<x>> \in Seq(S)
    OBVIOUS
  <2> QED
    BY <2>1, <2>2
<1> QED
  BY <1>1, <1>2 DEF AtMostOne

LEMMA AudioNext == TypeOK /\ ConnInv /\ [Next]_vars => AudioOK'
<1> SUFFICES ASSUME AudioOK, ConnInv, [Next]_vars PROVE AudioOK'
  BY TypeParts
<1> USE DEF AudioOK
<1>1. ASSUME NEW loud \in BOOLEAN, PumpReceive(loud) PROVE AudioOK'
  <2> DEFINE n == Len(heard)
  <2>1. n \in Nat /\ Len(heard') = n + 1 /\ heard' \in Seq(BOOLEAN)
    BY <1>1 DEF PumpReceive
  <2>2. ring \in Seq(1..n + 1) /\ sent \in Seq(1..n + 1)
    BY <2>1, SeqWidens DEF Frames
  <2>3. chunk \in AtMostOne(1..n + 1) /\ cut \subseteq 1..n + 1
    BY <2>1 DEF Frames, AtMostOne
  <2>4. hand' = <<n + 1>> /\ pump' = "push"
        /\ UNCHANGED <<ring, sent, cut, chunk, writer>>
    BY <1>1 DEF PumpReceive, connVars
  <2>5. hand' \in AtMostOne(1..n + 1) /\ hand' # <<>>
    BY <2>1, <2>4 DEF AtMostOne
  <2> QED
    BY <2>1, <2>2, <2>3, <2>4, <2>5 DEF Frames
<1>2. CASE PumpPush
  <2>1. PICK f \in Frames : hand = <<f>>
    BY <1>2 DEF PumpPush, AtMostOne
  <2>2. /\ ring' = (IF Len(ring) >= RingCap THEN Tail(ring) ELSE ring) \o <<f>>
        /\ hand' = <<>> /\ pump' = "recv"
        /\ UNCHANGED <<heard, writer, chunk, sent, cut>>
    BY <1>2, <2>1 DEF PumpPush, Full, connVars
  <2>3. ring' \in Seq(Frames) /\ Len(ring') <= RingCap
    BY <2>1, <2>2, EngineAssumption
  <2> QED
    BY <2>2, <2>3 DEF Frames, AtMostOne
<1>3. CASE PumpEnds
  BY <1>3 DEF PumpEnds, connVars, Frames
<1>4. CASE DialOk
  <2>1. chunk = <<>>
    BY <1>4 DEF DialOk, ConnInv, NoStrayGoroutine, InConnection
  <2> QED
    BY <1>4, <2>1 DEF DialOk, RunUnchanged, audioVars, Frames
<1>5. CASE ReaderJoined \/ WriterJoined \/ DrainEnds
  BY <1>5 DEF ReaderJoined, WriterJoined, Reconnect, DrainEnds, AfterFinish,
              ConnectionGone, ConnUnchanged, audioVars, Frames, AtMostOne
<1>6. CASE WriterPop
  <2>1. CASE ring = <<>>
    BY <1>6, <2>1 DEF WriterPop, WriterUnchanged, audioVars, Frames
  <2>2. CASE ring # <<>>
    <3>1. /\ Head(ring) \in Frames /\ Tail(ring) \in Seq(Frames)
          /\ Len(Tail(ring)) <= RingCap
      BY <2>2, EngineAssumption
    <3>2. /\ writer' = "write" /\ chunk' = <<Head(ring)>> /\ ring' = Tail(ring)
          /\ UNCHANGED <<pump, hand, heard, sent, cut>>
      BY <1>6, <2>2 DEF WriterPop, WriterUnchanged, audioVars
    <3> QED
      BY <3>1, <3>2 DEF Frames, AtMostOne
  <2> QED
    BY <2>1, <2>2
<1>7. CASE WriteOk
  <2>1. chunk \in Seq(Frames)
    BY AtMostOneIsSequence
  <2>2. sent \o chunk \in Seq(Frames)
    BY <2>1
  <2>3. /\ sent' = sent \o chunk /\ chunk' = <<>> /\ writer' = "test"
        /\ UNCHANGED <<pump, hand, heard, ring, cut>>
    BY <1>7 DEF WriteOk, WriterUnchanged, audioVars
  <2> QED
    BY <2>2, <2>3 DEF Frames, AtMostOne
<1>8. CASE WriteFails
  <2>1. {chunk[i] : i \in DOMAIN chunk} \subseteq Frames
    BY DEF AtMostOne
  <2> QED
    BY <1>8, <2>1 DEF WriteFails, WriterUnchanged, audioVars, Frames, AtMostOne
<1>9. CASE WriterTest \/ WriterEnds \/ WriterLoses \/ WriterNotified \/ WriterLoops
  BY <1>9 DEF WriterTest, WriterEnds, WriterLoses, WriterNotified, WriterLoops,
              WriterSelects, WriterUnchanged, audioVars, Frames
<1>10. CASE UNCHANGED <<audioVars, ring, writer, chunk, sent, cut>>
  BY <1>10 DEF audioVars, Frames
<1>11. ASSUME \/ \E auth \in BOOLEAN : DialFails(auth)
              \/ RunTop \/ SleepEnds \/ WriterReports \/ ReaderReports
              \/ PauseArm \/ PauseTest \/ PauseWakes \/ PauseReturns
       PROVE  UNCHANGED <<audioVars, ring, writer, chunk, sent, cut>>
  BY <1>11
     DEF DialFails, RunTop, SleepEnds, WriterReports, ReaderReports, PauseArm,
         PauseTest, PauseWakes, PauseReturns, RunUnchanged, ConnUnchanged,
         PauseUnchanged, connVars
<1> QED
  BY <1>1, <1>2, <1>3, <1>4, <1>5, <1>6, <1>7, <1>8, <1>9, <1>10, <1>11,
     LinkFrame, CancelFrame
     DEF Next, Pump, Dial, RunStep, Writer, Write, connVars

LEMMA TypeInit == Init => TypeOK
<1> SUFFICES ASSUME Init PROVE TypeOK
  OBVIOUS
<1>1. NewGate \in Gates
  BY DEF NewGate, Gates
<1>2. ControlOK /\ FlagsOK
  BY <1>1 DEF Init, ControlOK, FlagsOK
<1>3. AudioOK
  BY EngineAssumption DEF Init, AudioOK, AtMostOne
<1> QED
  BY <1>2, <1>3, TypeParts

LEMMA TypeNext == TypeOK /\ ConnInv /\ [Next]_vars => TypeOK'
<1> SUFFICES ASSUME TypeOK, ConnInv, [Next]_vars PROVE AudioOK' /\ FlagsOK' /\ ControlOK'
  BY DEF TypeOK, AudioOK, FlagsOK, ControlOK
<1> QED
  BY ControlNext, FlagsNext, AudioNext

\* The engine's state is well typed; above all the ring never exceeds its
\* capacity and never holds a frame that was not heard (ring.push).
THEOREM TypeCorrect == Spec => []TypeOK
BY TypeInit, TypeNext, ConnInit, ConnNext, PTL DEF Spec
\* Only the pump, and a writer that pops or writes, move audio.
LEMMA AudioStays ==
  ASSUME TypeOK, ConnInv,
         \/ PumpEnds \/ Dial \/ RunStep
         \/ WriterTest \/ WriterEnds \/ WriterLoses \/ WriterNotified \/ WriterLoops
         \/ ReaderFails \/ ServerCloses \/ StrayEnds \/ LinkFails \/ LinkStalls
         \/ Cancel \/ Finished \/ UNCHANGED vars
  PROVE  UNCHANGED <<heard, sent, cut, chunk, ring, hand>>
<1>1. CASE ReaderJoined \/ WriterJoined \/ DrainEnds
  <2>1. chunk = <<>>
    BY <1>1 DEF ReaderJoined, WriterJoined, DrainEnds, ConnInv, TypeOK
  <2> QED
    BY <1>1, <2>1 DEF ReaderJoined, WriterJoined, Reconnect, DrainEnds,
                      AfterFinish, ConnectionGone, ConnUnchanged, audioVars
<1>2. CASE \/ PumpEnds \/ Dial
           \/ RunTop \/ SleepEnds \/ WriterReports \/ ReaderReports
           \/ PauseArm \/ PauseTest \/ PauseWakes \/ PauseReturns
           \/ WriterTest \/ WriterEnds \/ WriterLoses \/ WriterNotified \/ WriterLoops
  BY <1>2
     DEF PumpEnds, Dial, DialOk, DialFails, RunTop, SleepEnds, WriterReports,
         ReaderReports, PauseArm, PauseTest, PauseWakes, PauseReturns,
         WriterTest, WriterEnds, WriterLoses, WriterNotified, WriterLoops,
         WriterSelects, WriterUnchanged, RunUnchanged, ConnUnchanged,
         PauseUnchanged, audioVars, connVars
<1>3. CASE \/ ReaderFails \/ ServerCloses \/ StrayEnds \/ LinkFails \/ LinkStalls
           \/ Cancel \/ Finished \/ UNCHANGED vars
  BY <1>3, LinkFrame, CancelFrame DEF audioVars, connVars
<1> QED
  BY <1>1, <1>2, <1>3 DEF RunStep
-----------------------------------------------------------------------------
(* The order of the audio.                                                 *)

\* Every frame of s is older than every frame of t.
Before(s, t) == \A i \in DOMAIN s, j \in DOMAIN t : s[i] < t[j]

LEMMA ConcatElements ==
  ASSUME NEW s \in Seq(Nat), NEW t \in Seq(Nat)
  PROVE  /\ s \o t \in Seq(Nat)
         /\ Len(s \o t) = Len(s) + Len(t)
         /\ \A i \in 1..Len(s) : (s \o t)[i] = s[i]
         /\ \A i \in 1..Len(t) : (s \o t)[Len(s) + i] = t[i]
OBVIOUS

\* A concatenation ascends when its parts do and the first is older.
LEMMA ConcatAscends ==
  ASSUME NEW s \in Seq(Nat), NEW t \in Seq(Nat)
  PROVE  Ascending(s \o t) <=> Ascending(s) /\ Ascending(t) /\ Before(s, t)
<1> DEFINE u == s \o t
<1>1. /\ u \in Seq(Nat) /\ Len(u) = Len(s) + Len(t)
      /\ \A i \in 1..Len(s) : u[i] = s[i]
      /\ \A i \in 1..Len(t) : u[Len(s) + i] = t[i]
  BY ConcatElements
<1>2. DOMAIN s = 1..Len(s) /\ DOMAIN t = 1..Len(t) /\ DOMAIN u = 1..Len(u)
      /\ Len(s) \in Nat /\ Len(t) \in Nat
  BY <1>1
<1> HIDE DEF u
<1>3. ASSUME Ascending(u) PROVE Ascending(s) /\ Ascending(t) /\ Before(s, t)
  <2>1. Ascending(s)
    BY <1>1, <1>2, <1>3 DEF Ascending
  <2>2. ASSUME NEW i \in 1..Len(t), NEW j \in 1..Len(t), i < j PROVE t[i] < t[j]
    <3>1. Len(s) + i \in DOMAIN u /\ Len(s) + j \in DOMAIN u /\ Len(s) + i < Len(s) + j
      BY <1>1, <1>2, <2>2, SMTT(30)
    <3>2. u[Len(s) + i] = t[i] /\ u[Len(s) + j] = t[j]
      BY <1>1
    <3> QED
      BY <1>3, <3>1, <3>2 DEF Ascending
  <2>3. ASSUME NEW i \in 1..Len(s), NEW j \in 1..Len(t) PROVE s[i] < t[j]
    <3>0. Len(s) \in Nat /\ Len(t) \in Nat /\ Len(u) = Len(s) + Len(t)
      BY <1>1, <1>2
    <3>1. i \in 1..Len(u) /\ Len(s) + j \in 1..Len(u) /\ i < Len(s) + j
      BY <3>0
    <3>2. u[i] = s[i] /\ u[Len(s) + j] = t[j]
      BY <1>1
    <3> QED
      BY <1>2, <1>3, <3>1, <3>2 DEF Ascending
  <2> QED
    BY <1>2, <2>1, <2>2, <2>3 DEF Ascending, Before
<1>4. ASSUME Ascending(s), Ascending(t), Before(s, t),
             NEW i \in DOMAIN u, NEW j \in DOMAIN u, i < j
      PROVE  u[i] < u[j]
  <2>1. CASE j <= Len(s)
    <3>1. i \in DOMAIN s /\ j \in DOMAIN s /\ u[i] = s[i] /\ u[j] = s[j]
      BY <1>1, <1>2, <1>4, <2>1
    <3> QED
      BY <1>4, <3>1 DEF Ascending
  <2>2. CASE i <= Len(s) /\ j > Len(s)
    <3>1. i \in DOMAIN s /\ j - Len(s) \in DOMAIN t
      BY <1>1, <1>2, <1>4, <2>2
    <3>2. u[i] = s[i] /\ u[Len(s) + (j - Len(s))] = t[j - Len(s)]
      BY <1>1, <1>2, <3>1
    <3>3. Len(s) + (j - Len(s)) = j
      BY <1>2
    <3> QED
      BY <1>4, <3>1, <3>2, <3>3 DEF Before
  <2>3. CASE i > Len(s)
    <3>0. i \in 1..Len(s) + Len(t) /\ j \in 1..Len(s) + Len(t) /\ i < j
      BY <1>1, <1>2, <1>4
    <3>1. i - Len(s) \in 1..Len(t) /\ j - Len(s) \in 1..Len(t) /\ i - Len(s) < j - Len(s)
      BY <1>2, <2>3, <3>0
    <3>2. /\ u[Len(s) + (i - Len(s))] = t[i - Len(s)]
          /\ u[Len(s) + (j - Len(s))] = t[j - Len(s)]
      BY <1>1, <1>2, <3>1
    <3>3. Len(s) + (i - Len(s)) = i /\ Len(s) + (j - Len(s)) = j
      BY <1>2
    <3> QED
      BY <1>4, <3>1, <3>2, <3>3 DEF Ascending
  <2> QED
    BY <1>2, <2>1, <2>2, <2>3
<1> QED
  BY <1>3, <1>4 DEF Ascending, u

LEMMA ConcatBefore ==
  ASSUME NEW s \in Seq(Nat), NEW t \in Seq(Nat), NEW u \in Seq(Nat)
  PROVE  /\ Before(s \o t, u) <=> Before(s, u) /\ Before(t, u)
         /\ Before(u, s \o t) <=> Before(u, s) /\ Before(u, t)
<1> DEFINE v == s \o t
<1>1. /\ v \in Seq(Nat) /\ Len(v) = Len(s) + Len(t)
      /\ \A i \in 1..Len(s) : v[i] = s[i]
      /\ \A i \in 1..Len(t) : v[Len(s) + i] = t[i]
  BY ConcatElements
<1>2. /\ DOMAIN s = 1..Len(s) /\ DOMAIN t = 1..Len(t) /\ DOMAIN v = 1..Len(v)
      /\ Len(s) \in Nat /\ Len(t) \in Nat
  BY <1>1
<1> HIDE DEF v
<1>3. \A i \in DOMAIN s : i \in DOMAIN v /\ v[i] = s[i]
  BY <1>1, <1>2
<1>4. \A i \in DOMAIN t : Len(s) + i \in DOMAIN v /\ v[Len(s) + i] = t[i]
  BY <1>1, <1>2, SMTT(30)
<1>5. ASSUME NEW k \in DOMAIN v
      PROVE  (\E i \in DOMAIN s : v[k] = s[i]) \/ (\E i \in DOMAIN t : v[k] = t[i])
  <2>1. CASE k <= Len(s)
    BY <1>1, <1>2, <2>1
  <2>2. CASE k > Len(s)
    <3>1. k - Len(s) \in DOMAIN t /\ Len(s) + (k - Len(s)) = k
      BY <1>1, <1>2, <2>2
    <3> QED
      BY <1>4, <3>1
  <2> QED
    BY <1>2, <2>1, <2>2
<1>6. Before(v, u) <=> Before(s, u) /\ Before(t, u)
  BY <1>3, <1>4, <1>5 DEF Before
<1>7. Before(u, v) <=> Before(u, s) /\ Before(u, t)
  BY <1>3, <1>4, <1>5 DEF Before
<1> QED
  BY <1>6, <1>7 DEF v

LEMMA EmptyOrSingle ==
  ASSUME NEW x, NEW s
  PROVE  /\ Ascending(<<>>) /\ Ascending(<<x>>)
         /\ Before(<<>>, s) /\ Before(s, <<>>)
BY DEF Ascending, Before

\* Taking the head off a sequence disturbs no order.
LEMMA TailOrdered ==
  ASSUME NEW s \in Seq(Nat), NEW t, s # <<>>
  PROVE  /\ Ascending(s) => Ascending(Tail(s)) /\ Before(<<Head(s)>>, Tail(s))
         /\ Before(t, s) => Before(t, Tail(s)) /\ Before(t, <<Head(s)>>)
         /\ Before(s, t) => Before(Tail(s), t) /\ Before(<<Head(s)>>, t)
<1>1. /\ Len(s) \in Nat /\ Len(s) > 0 /\ DOMAIN s = 1..Len(s)
      /\ DOMAIN Tail(s) = 1..Len(s) - 1
      /\ \A i \in DOMAIN Tail(s) : Tail(s)[i] = s[i + 1]
      /\ Head(s) = s[1] /\ DOMAIN <<Head(s)>> = {1} /\ <<Head(s)>>[1] = s[1]
  OBVIOUS
<1>2. \A i \in DOMAIN Tail(s) : i + 1 \in DOMAIN s /\ 1 < i + 1
  BY <1>1
<1>3. 1 \in DOMAIN s
  BY <1>1
<1>4. ASSUME Ascending(s) PROVE Ascending(Tail(s))
  <2> SUFFICES ASSUME NEW i \in DOMAIN Tail(s), NEW j \in DOMAIN Tail(s), i < j
               PROVE  Tail(s)[i] < Tail(s)[j]
    BY DEF Ascending
  <2>1. i + 1 < j + 1
    BY <1>1
  <2> QED
    BY <1>1, <1>2, <1>4, <2>1 DEF Ascending
<1>5. ASSUME Ascending(s) PROVE Before(<<Head(s)>>, Tail(s))
  BY <1>1, <1>2, <1>3, <1>5 DEF Ascending, Before
<1>6. ASSUME Before(t, s) PROVE Before(t, Tail(s)) /\ Before(t, <<Head(s)>>)
  BY <1>1, <1>2, <1>3, <1>6 DEF Before
<1>7. ASSUME Before(s, t) PROVE Before(Tail(s), t) /\ Before(<<Head(s)>>, t)
  BY <1>1, <1>2, <1>3, <1>7 DEF Before
<1> QED
  BY <1>4, <1>5, <1>6, <1>7

\* SentOnceInOrder, place by place.
Ordered ==
  /\ Ascending(sent) /\ Ascending(chunk) /\ Ascending(ring) /\ Ascending(hand)
  /\ Before(sent, chunk) /\ Before(sent, ring) /\ Before(sent, hand)
  /\ Before(chunk, ring) /\ Before(chunk, hand) /\ Before(ring, hand)

LEMMA FramesAreNumbers ==
  ASSUME NEW s \in Seq(Frames)
  PROVE  s \in Seq(Nat)
BY DEF Frames

LEMMA PlacesAreSequences ==
  ASSUME TypeOK
  PROVE  sent \in Seq(Nat) /\ chunk \in Seq(Nat) /\ ring \in Seq(Nat) /\ hand \in Seq(Nat)
<1>1. chunk \in Seq(Frames) /\ hand \in Seq(Frames)
  BY AtMostOneIsSequence DEF TypeOK
<1>2. sent \in Seq(Frames) /\ ring \in Seq(Frames)
  BY DEF TypeOK
<1> QED
  BY <1>1, <1>2, FramesAreNumbers

\* The order of all audio in flight, from the places it is in.
LEMMA OrderedPlaces == TypeOK => (SentOnceInOrder <=> Ordered)
<1> SUFFICES ASSUME TypeOK PROVE SentOnceInOrder <=> Ordered
  OBVIOUS
<1>1. sent \in Seq(Nat) /\ chunk \in Seq(Nat) /\ ring \in Seq(Nat) /\ hand \in Seq(Nat)
  BY PlacesAreSequences
<1>2. sent \o chunk \in Seq(Nat) /\ (sent \o chunk) \o ring \in Seq(Nat)
  BY <1>1
<1>3. Ascending(((sent \o chunk) \o ring) \o hand) <=>
        /\ Ascending((sent \o chunk) \o ring) /\ Ascending(hand)
        /\ Before((sent \o chunk) \o ring, hand)
  BY <1>1, <1>2, ConcatAscends
<1>4. Ascending((sent \o chunk) \o ring) <=>
        Ascending(sent \o chunk) /\ Ascending(ring) /\ Before(sent \o chunk, ring)
  BY <1>1, <1>2, ConcatAscends
<1>5. Ascending(sent \o chunk) <=> Ascending(sent) /\ Ascending(chunk) /\ Before(sent, chunk)
  BY <1>1, ConcatAscends
<1>6. /\ Before((sent \o chunk) \o ring, hand) <=> Before(sent \o chunk, hand) /\ Before(ring, hand)
      /\ Before(sent \o chunk, hand) <=> Before(sent, hand) /\ Before(chunk, hand)
      /\ Before(sent \o chunk, ring) <=> Before(sent, ring) /\ Before(chunk, ring)
  BY <1>1, <1>2, ConcatBefore
<1> QED
  BY <1>3, <1>4, <1>5, <1>6 DEF SentOnceInOrder, InFlight, Ordered

LEMMA OrderNext == TypeOK /\ ConnInv /\ Ordered /\ [Next]_vars => Ordered'
<1> SUFFICES ASSUME TypeOK, ConnInv, Ordered, [Next]_vars PROVE Ordered'
  OBVIOUS
<1>1. sent \in Seq(Nat) /\ chunk \in Seq(Nat) /\ ring \in Seq(Nat) /\ hand \in Seq(Nat)
  BY PlacesAreSequences
<1>2. CASE UNCHANGED <<sent, chunk, ring, hand>>
  BY <1>2 DEF Ordered, Ascending, Before
<1>3. ASSUME NEW loud \in BOOLEAN, PumpReceive(loud) PROVE Ordered'
  <2>1. UNCHANGED <<sent, chunk, ring>> /\ hand' = <<Len(heard) + 1>>
    BY <1>3 DEF PumpReceive, connVars
  <2>2. Len(heard) \in Nat
    BY DEF TypeOK
  <2>3. ASSUME NEW s \in Seq(Frames) PROVE Before(s, <<Len(heard) + 1>>)
    <3>1. \A i \in DOMAIN s : s[i] \in Nat /\ s[i] < Len(heard) + 1
      BY <2>2 DEF Frames
    <3> QED
      BY <3>1 DEF Before
  <2>4. sent \in Seq(Frames) /\ ring \in Seq(Frames) /\ chunk \in Seq(Frames)
    BY AtMostOneIsSequence DEF TypeOK
  <2> QED
    BY <2>1, <2>3, <2>4, EmptyOrSingle DEF Ordered
<1>4. CASE PumpPush
  <2> DEFINE kept == IF Full THEN Tail(ring) ELSE ring
  <2>1. ring' = kept \o hand /\ hand' = <<>> /\ UNCHANGED <<sent, chunk>>
    BY <1>4 DEF PumpPush, connVars
  <2>2. Full => ring # <<>>
    BY <1>1, EngineAssumption DEF Full
  <2>3. /\ kept \in Seq(Nat) /\ Ascending(kept) /\ Before(sent, kept)
        /\ Before(chunk, kept) /\ Before(kept, hand)
    <3>1. CASE Full
      <4>1. Tail(ring) \in Seq(Nat)
        BY <1>1, <2>2, <3>1
      <4> QED
        BY <1>1, <2>2, <3>1, <4>1, TailOrdered DEF Ordered
    <3>2. CASE ~Full
      BY <1>1, <3>2 DEF Ordered
    <3> QED
      BY <3>1, <3>2
  <2> HIDE DEF kept
  <2>4. Ascending(kept \o hand) /\ Before(sent, kept \o hand) /\ Before(chunk, kept \o hand)
    BY <1>1, <2>3, ConcatAscends, ConcatBefore DEF Ordered
  <2> QED
    BY <2>1, <2>4, EmptyOrSingle DEF Ordered
<1>5. CASE WriterPop
  <2>1. CASE ring = <<>>
    BY <1>2, <1>5, <2>1 DEF WriterPop, WriterUnchanged, audioVars
  <2>2. CASE ring # <<>>
    <3>1. /\ chunk' = <<Head(ring)>> /\ ring' = Tail(ring) /\ UNCHANGED <<sent, hand>>
      BY <1>5, <2>2 DEF WriterPop, WriterUnchanged, audioVars
    <3> QED
      BY <1>1, <2>2, <3>1, TailOrdered, EmptyOrSingle DEF Ordered
  <2> QED
    BY <2>1, <2>2
<1>6. CASE WriteOk
  <2>1. sent' = sent \o chunk /\ chunk' = <<>> /\ UNCHANGED <<ring, hand>>
    BY <1>6 DEF WriteOk, WriterUnchanged, audioVars
  <2>2. Ascending(sent \o chunk) /\ Before(sent \o chunk, ring) /\ Before(sent \o chunk, hand)
    BY <1>1, ConcatAscends, ConcatBefore DEF Ordered
  <2> QED
    BY <2>1, <2>2, EmptyOrSingle DEF Ordered
<1>7. CASE WriteFails
  <2>1. chunk' = <<>> /\ UNCHANGED <<sent, ring, hand>>
    BY <1>7 DEF WriteFails, WriterUnchanged, audioVars
  <2> QED
    BY <2>1, EmptyOrSingle DEF Ordered
<1> QED
  BY <1>2, <1>3, <1>4, <1>5, <1>6, <1>7, AudioStays DEF Next, Pump, Writer, Write

\* The recognizer hears the audio in the order it was captured, no frame
\* twice, across any number of pauses, reconnects and evictions.
THEOREM AudioKeepsOrder == Spec => []SentOnceInOrder
<1>1. Init => Ordered
  BY EmptyOrSingle DEF Init, Ordered
<1> QED BY <1>1, TypeInit, TypeNext, ConnInit, ConnNext, OrderNext, OrderedPlaces, PTL DEF Spec
-----------------------------------------------------------------------------
(* The pipe: the engine implements AudioPipe.                              *)

LEMMA JoinEmpty ==
  ASSUME NEW s \in Seq(Nat)
  PROVE  s \o <<>> = s /\ <<>> \o s = s
OBVIOUS

LEMMA JoinAssociative ==
  ASSUME NEW s \in Seq(Nat), NEW t \in Seq(Nat), NEW u \in Seq(Nat)
  PROVE  (s \o t) \o u = s \o (t \o u)
BY SMTT(30)

LEMMA JoinOne ==
  ASSUME NEW s \in Seq(Nat), NEW n \in Nat
  PROVE  s \o <<n>> = Append(s, n)
OBVIOUS

\* What is left of a frame and the frames behind it.
LEMMA SplitOne ==
  ASSUME NEW n \in Nat, NEW s \in Seq(Nat), NEW q, q = <<n>> \o s
  PROVE  /\ q # <<>> /\ Len(q) > 0 /\ Len(s) \in Nat /\ Len(q) = Len(s) + 1
         /\ Head(q) = n /\ Tail(q) = s
<1>1. q \in Seq(Nat) /\ Len(s) \in Nat /\ Len(q) = Len(s) + 1 /\ q[1] = n
  OBVIOUS
<1>2. \A i \in 1..Len(s) : q[i + 1] = s[i]
  OBVIOUS
<1>3. q # <<>> /\ Len(q) > 0 /\ Head(q) = n
  BY <1>1
<1>4. Tail(q) \in Seq(Nat) /\ Len(Tail(q)) = Len(s)
  BY <1>1, <1>3
<1>5. \A i \in 1..Len(s) : Tail(q)[i] = s[i]
  BY <1>1, <1>2, <1>3
<1>6. Tail(q) = s
  BY <1>4, <1>5
<1> QED
  BY <1>1, <1>3, <1>6

LEMMA HeadAndTail ==
  ASSUME NEW s \in Seq(Nat), s # <<>>
  PROVE  Head(s) \in Nat /\ Tail(s) \in Seq(Nat) /\ s = <<Head(s)>> \o Tail(s)
OBVIOUS

\* The frame in the writer's or the pump's hand, if there is one.
LEMMA InHand ==
  ASSUME TypeOK
  PROVE  /\ chunk = <<>> \/ \E n \in Nat : chunk = <<n>>
         /\ hand = <<>> \/ \E n \in Nat : hand = <<n>>
BY DEF TypeOK, AtMostOne, Frames

LEMMA PipeInit == Init => Pipe!Init
BY JoinEmpty DEF Init, Pipe!Init

LEMMA PipeNext == TypeOK /\ ConnInv /\ [Next]_vars => [Pipe!Next]_(Pipe!pipe)
<1> SUFFICES ASSUME TypeOK, ConnInv, [Next]_vars PROVE [Pipe!Next]_(Pipe!pipe)
  OBVIOUS
<1> DEFINE queue == (chunk \o ring) \o hand
<1>1. sent \in Seq(Nat) /\ chunk \in Seq(Nat) /\ ring \in Seq(Nat) /\ hand \in Seq(Nat)
  BY PlacesAreSequences
<1>2. CASE UNCHANGED <<heard, sent, chunk, ring, hand>>
  BY <1>2 DEF Pipe!pipe
<1>3. ASSUME NEW loud \in BOOLEAN, PumpReceive(loud) PROVE Pipe!Take
  <2>1. /\ hand = <<>> /\ hand' = <<Len(heard) + 1>> /\ heard' = Append(heard, loud)
        /\ UNCHANGED <<sent, chunk, ring>>
    BY <1>3 DEF PumpReceive, connVars, TypeOK
  <2>2. Len(heard) \in Nat /\ Len(heard') = Len(heard) + 1
    BY <2>1 DEF TypeOK
  <2>3. chunk \o ring \in Seq(Nat) /\ queue = chunk \o ring
    BY <1>1, <2>1, JoinEmpty
  <2>4. Len(queue) < RingCap + 2
    <3>1. Len(chunk) <= 1
      <4>1. ASSUME NEW n \in Nat, chunk = <<n>> PROVE Len(chunk) <= 1
        BY <4>1
      <4>2. CASE chunk = <<>>
        BY <4>2
      <4> QED
        BY <4>1, <4>2, InHand, Zenon
    <3>2. Len(chunk \o ring) = Len(chunk) + Len(ring)
      BY <1>1
    <3> QED
      BY <1>1, <2>3, <3>1, <3>2, EngineAssumption DEF TypeOK
  <2>5. queue' = Append(queue, Len(heard) + 1)
    BY <2>1, <2>2, <2>3, JoinOne
  <2> QED
    BY <2>1, <2>2, <2>4, <2>5 DEF Pipe!Take
<1>4. CASE PumpPush
  <2>1. /\ ring' = (IF Full THEN Tail(ring) ELSE ring) \o hand /\ hand' = <<>>
        /\ UNCHANGED <<heard, sent, chunk>>
    BY <1>4 DEF PumpPush, connVars
  <2>2. CASE ~Full
    <3>1. ring \o hand \in Seq(Nat) /\ chunk \o (ring \o hand) \in Seq(Nat)
      BY <1>1
    <3>2. queue' = queue
      BY <1>1, <2>1, <2>2, <3>1, JoinEmpty, JoinAssociative, SMTT(30)
    <3> QED
      BY <2>1, <3>2 DEF Pipe!pipe
  <2>3. CASE Full
    <3> DEFINE rest == Tail(ring) \o hand
    <3>1. ring # <<>>
      BY <1>1, <2>3, EngineAssumption DEF Full
    <3>2. Head(ring) \in Nat /\ Tail(ring) \in Seq(Nat) /\ ring = <<Head(ring)>> \o Tail(ring)
      BY <1>1, <3>1, HeadAndTail
    <3>3. rest \in Seq(Nat) /\ ring \o hand = <<Head(ring)>> \o rest
      <4>1. <<Head(ring)>> \in Seq(Nat) /\ rest \in Seq(Nat)
        BY <1>1, <3>2
      <4> QED
        BY <1>1, <3>2, <4>1, JoinAssociative
    <3>4. queue = chunk \o (ring \o hand)
      BY <1>1, JoinAssociative, SMTT(30)
    <3>5. queue' = chunk \o rest
      <4>1. chunk \o rest \in Seq(Nat)
        BY <1>1, <3>3
      <4> QED
        BY <2>1, <2>3, <4>1, JoinEmpty
    <3> HIDE DEF rest
    <3>6. CASE chunk = <<>>
      <4>1. <<Head(ring)>> \o rest \in Seq(Nat)
        BY <3>2, <3>3
      <4>2. queue = <<Head(ring)>> \o rest /\ queue' = rest
        BY <3>3, <3>4, <3>5, <3>6, <4>1, JoinEmpty
      <4>3. Len(queue) > 0 /\ Tail(queue) = rest
        BY <3>2, <3>3, <4>2, SplitOne, Zenon
      <4> QED
        BY <2>1, <4>2, <4>3 DEF Pipe!Next, Pipe!GiveUp
    <3>7. ASSUME NEW n \in Nat, chunk = <<n>> PROVE Pipe!GiveUp
      <4>1. <<Head(ring)>> \o rest \in Seq(Nat)
        BY <3>2, <3>3
      <4>2. queue = <<n>> \o (<<Head(ring)>> \o rest) /\ queue' = <<n>> \o rest
        BY <3>3, <3>4, <3>5, <3>7
      <4>3. /\ Len(queue) = Len(<<Head(ring)>> \o rest) + 1
            /\ Head(queue) = n /\ Tail(queue) = <<Head(ring)>> \o rest
        BY <4>1, <4>2, SplitOne, Zenon
      <4>4. /\ Len(<<Head(ring)>> \o rest) = Len(rest) + 1 /\ Len(rest) \in Nat
            /\ Tail(<<Head(ring)>> \o rest) = rest
        BY <3>2, <3>3, SplitOne, Zenon
      <4>5. queue' = <<Head(queue)>> \o Tail(Tail(queue))
        BY <4>2, <4>3, <4>4, Zenon
      <4>6. Len(queue) > 1
        <5> HIDE DEF queue
        <5> QED
          BY <4>3, <4>4
      <4> QED
        BY <2>1, <4>5, <4>6 DEF Pipe!GiveUp
    <3> QED
      BY <3>6, <3>7, InHand DEF Pipe!Next
  <2> QED
    BY <2>2, <2>3
<1>5. CASE WriterPop
  <2>1. CASE ring = <<>>
    BY <1>2, <1>5, <2>1 DEF WriterPop, WriterUnchanged, audioVars
  <2>2. CASE ring # <<>>
    <3>1. /\ chunk' = <<Head(ring)>> /\ ring' = Tail(ring)
          /\ UNCHANGED <<heard, sent, hand>>
      BY <1>5, <2>2 DEF WriterPop, WriterUnchanged, audioVars
    <3>2. chunk = <<>>
      BY <1>5 DEF WriterPop, TypeOK
    <3>3. chunk \o ring = ring /\ ring = <<Head(ring)>> \o Tail(ring)
      BY <1>1, <2>2, <3>2, JoinEmpty, HeadAndTail
    <3>4. queue' = queue
      BY <3>1, <3>3
    <3> QED
      BY <3>1, <3>4 DEF Pipe!pipe
  <2> QED
    BY <2>1, <2>2
<1>6. ASSUME chunk' = <<>>, UNCHANGED <<heard, ring, hand>>, NEW n \in Nat, chunk = <<n>>
      PROVE  /\ Len(queue) > 0 /\ queue # <<>>
             /\ Head(queue) = n /\ Tail(queue) = queue'
  <2>1. ring \o hand \in Seq(Nat) /\ queue = <<n>> \o (ring \o hand)
    BY <1>1, <1>6, JoinAssociative
  <2>2. queue' = ring \o hand
    BY <1>1, <1>6, JoinEmpty
  <2> QED
    BY <2>1, <2>2, SplitOne, Zenon
<1>7. CASE WriteOk
  <2>1. sent' = sent \o chunk /\ chunk' = <<>> /\ UNCHANGED <<heard, ring, hand>>
    BY <1>7 DEF WriteOk, WriterUnchanged, audioVars
  <2>2. CASE chunk = <<>>
    BY <1>1, <1>2, <2>1, <2>2, JoinEmpty
  <2>3. ASSUME NEW n \in Nat, chunk = <<n>> PROVE Pipe!Deliver
    <3>1. sent' = Append(sent, n)
      BY <1>1, <2>1, <2>3, JoinOne
    <3> QED
      BY <1>6, <2>1, <2>3, <3>1 DEF Pipe!Deliver
  <2> QED
    BY <2>2, <2>3, InHand DEF Pipe!Next
<1>8. CASE WriteFails
  <2>1. chunk' = <<>> /\ UNCHANGED <<heard, ring, hand, sent>>
    BY <1>8 DEF WriteFails, WriterUnchanged, audioVars
  <2>2. CASE chunk = <<>>
    BY <1>2, <2>1, <2>2
  <2>3. ASSUME NEW n \in Nat, chunk = <<n>> PROVE Pipe!GiveUp
    BY <1>6, <2>1, <2>3 DEF Pipe!GiveUp
  <2> QED
    BY <2>2, <2>3, InHand DEF Pipe!Next
<1> QED
  BY <1>2, <1>3, <1>4, <1>5, <1>7, <1>8, AudioStays DEF Next, Pump, Writer, Write, Pipe!Next

\* Whatever its connections do, the engine's pump, ring and writer are one
\* bounded pipe that keeps the order, delivers no frame twice and gives up
\* only the oldest audio (ring.push, ring.pop, writeLoop).
THEOREM ImplementsAudioPipe == Spec => RefinesAudioPipe
BY PipeInit, PipeNext, TypeInit, TypeNext, ConnInit, ConnNext, PTL
   DEF Spec, RefinesAudioPipe, Pipe!Spec
-----------------------------------------------------------------------------
(* What is lost.                                                           *)

\* The silence the gate remembers is silence, and the gate is inactive only
\* after a whole hold of it.
SilenceInv ==
  /\ gate.inSilence => /\ PauseEnabled /\ gate.silStart \in Frames
                       /\ \A n \in gate.silStart..Len(heard) : ~heard[n]
  /\ ~gate.active => /\ gate.inSilence
                     /\ Len(heard) - gate.silStart >= Hold

\* The ring and the pump's hand hold the newest frames, without a gap.
Newest ==
  /\ \A i \in DOMAIN ring : ring[i] = Len(heard) - Len(hand) - Len(ring) + i
  /\ hand # <<>> => hand = <<Len(heard)>>

\* A silent frame leaves the gate active only within the hold.
LEMMA SilentActive ==
  ASSUME NEW g \in Gates, NEW at \in Nat, NEW start \in Nat
  PROVE  SilentFrom(g, at, start).active <=> (g.active /\ at - start < Hold)
BY PauseAssumption DEF SilentFrom

LEMMA SilenceNext == TypeOK /\ SilenceInv /\ [Next]_vars => SilenceInv'
<1> SUFFICES ASSUME TypeOK, SilenceInv, [Next]_vars PROVE SilenceInv'
  OBVIOUS
<1>1. CASE UNCHANGED <<gate, heard>>
  BY <1>1 DEF SilenceInv, Frames
<1>2. ASSUME NEW loud \in BOOLEAN, PumpReceive(loud) PROVE SilenceInv'
  <2> DEFINE n == Len(heard)
  <2>1. /\ heard' = Append(heard, loud) /\ gate' = ObserveLevel(gate, loud, n + 1)
    BY <1>2 DEF PumpReceive
  <2>2. /\ n \in Nat /\ Len(heard') = n + 1 /\ heard'[n + 1] = loud
        /\ \A i \in 1..n : heard'[i] = heard[i]
    BY <2>1 DEF TypeOK
  <2>3. gate \in Gates
    BY DEF TypeOK
  <2> HIDE DEF n
  <2>4. CASE ~PauseEnabled
    <3>1. gate' = gate
      BY <2>1, <2>4 DEF ObserveLevel
    <3>2. gate.active /\ ~gate.inSilence
      BY <2>4 DEF SilenceInv
    <3> QED
      BY <3>1, <3>2 DEF SilenceInv
  <2>5. CASE PauseEnabled /\ loud
    <3>1. gate'.active = TRUE /\ gate'.inSilence = FALSE
      BY <2>1, <2>5 DEF ObserveLevel, Loud
    <3> QED
      BY <3>1 DEF SilenceInv
  <2>6. CASE PauseEnabled /\ ~loud
    <3> DEFINE start == Baseline(gate, n + 1)
    <3>0. gate' = SilentFrom(gate, n + 1, start)
      BY <2>1, <2>6 DEF ObserveLevel
    <3>1. start \in 1..n + 1 /\ \A i \in start..n + 1 : ~heard'[i]
      <4>1. CASE ~gate.inSilence
        BY <2>2, <2>6, <4>1 DEF Baseline
      <4>2. CASE gate.inSilence
        <5>1. gate.silStart \in 1..n /\ \A i \in gate.silStart..n : ~heard[i]
          BY <4>2 DEF SilenceInv, Frames, n
        <5>2. start = gate.silStart
          BY <2>2, <4>2, <5>1 DEF Baseline
        <5> QED
          BY <2>2, <2>6, <5>1, <5>2
      <4> QED
        BY <4>1, <4>2
    <3>2. /\ gate'.inSilence
          /\ gate'.silStart = start
          /\ gate'.active <=> (gate.active /\ n + 1 - start < Hold)
      <4> HIDE DEF start
      <4>1. gate'.inSilence
        BY <3>0 DEF SilentFrom
      <4>2. gate'.silStart = start
        BY <3>0 DEF SilentFrom
      <4>3. gate'.active <=> (gate.active /\ n + 1 - start < Hold)
        BY <2>2, <2>3, <3>0, <3>1, SilentActive
      <4> QED
        BY <4>1, <4>2, <4>3
    <3>3. ~gate'.active => n + 1 - start >= Hold
      <4>1. CASE gate.active
        BY <2>2, <3>1, <3>2, <4>1, PauseAssumption
      <4>2. CASE ~gate.active
        <5>1. gate.inSilence /\ gate.silStart \in 1..n /\ n - gate.silStart >= Hold
          BY <4>2 DEF SilenceInv, Frames, n
        <5>2. start = gate.silStart
          BY <2>2, <5>1 DEF Baseline
        <5> QED
          BY <2>2, <5>1, <5>2, PauseAssumption
      <4> QED
        BY <4>1, <4>2
    <3> HIDE DEF start
    <3> QED
      BY <2>2, <2>6, <3>1, <3>2, <3>3 DEF SilenceInv, Frames
  <2> QED
    BY <2>4, <2>5, <2>6
<1>3. ASSUME PumpPush \/ PumpEnds PROVE UNCHANGED <<gate, heard>>
  BY <1>3 DEF PumpPush, PumpEnds
<1> QED
  BY <1>1, <1>2, <1>3, RunFrame, WriterFrame, LinkFrame, CancelFrame
     DEF Next, Pump, audioVars

LEMMA NewestNext == TypeOK /\ ConnInv /\ Newest /\ [Next]_vars => Newest'
<1> SUFFICES ASSUME TypeOK, ConnInv, Newest, [Next]_vars PROVE Newest'
  OBVIOUS
<1>0. ring \in Seq(Nat) /\ Len(heard) \in Nat
  BY PlacesAreSequences DEF TypeOK
<1>1. CASE UNCHANGED <<heard, ring, hand>>
  BY <1>1 DEF Newest
<1>2. ASSUME NEW loud \in BOOLEAN, PumpReceive(loud) PROVE Newest'
  <2>1. /\ hand = <<>> /\ hand' = <<Len(heard) + 1>> /\ ring' = ring
        /\ Len(heard') = Len(heard) + 1
    BY <1>2 DEF PumpReceive, TypeOK
  <2>2. Len(hand) = 0 /\ Len(hand') = 1
    BY <2>1
  <2> QED
    BY <1>0, <2>1, <2>2 DEF Newest
<1>3. CASE PumpPush
  <2> DEFINE kept == IF Full THEN Tail(ring) ELSE ring
  <2>1. ring' = kept \o hand /\ hand' = <<>> /\ heard' = heard
    BY <1>3 DEF PumpPush
  <2>2. hand = <<Len(heard)>>
    BY <1>3 DEF PumpPush, TypeOK, Newest
  <2>3. Full => ring # <<>>
    BY <1>0, EngineAssumption DEF Full
  <2>4. /\ kept \in Seq(Nat)
        /\ \A i \in DOMAIN kept : kept[i] = Len(heard) - 1 - Len(kept) + i
    <3>1. Len(hand) = 1
      BY <2>2
    <3>2. CASE Full
      <4>1. /\ Tail(ring) \in Seq(Nat) /\ Len(Tail(ring)) = Len(ring) - 1
            /\ \A i \in 1..Len(Tail(ring)) : Tail(ring)[i] = ring[i + 1] /\ i + 1 \in DOMAIN ring
        BY <1>0, <2>3, <3>2
      <4> QED
        BY <1>0, <3>1, <3>2, <4>1 DEF Newest
    <3>3. CASE ~Full
      BY <1>0, <3>1, <3>3 DEF Newest
    <3> QED
      BY <3>2, <3>3
  <2> HIDE DEF kept
  <2>5. ring' = Append(kept, Len(heard)) /\ Len(hand') = 0
    BY <1>0, <2>1, <2>2, <2>4, JoinOne
  <2> QED
    BY <1>0, <2>1, <2>4, <2>5 DEF Newest
<1>4. CASE WriterPop
  <2>1. CASE ring = <<>>
    BY <1>1, <1>4, <2>1 DEF WriterPop, WriterUnchanged, audioVars
  <2>2. CASE ring # <<>>
    <3>1. ring' = Tail(ring) /\ UNCHANGED <<hand, heard>>
      BY <1>4, <2>2 DEF WriterPop, WriterUnchanged, audioVars
    <3>2. /\ Len(ring') = Len(ring) - 1 /\ ring' \in Seq(Nat)
          /\ \A i \in 1..Len(ring') : ring'[i] = ring[i + 1] /\ i + 1 \in DOMAIN ring
      BY <1>0, <2>2, <3>1
    <3>3. Len(hand) \in Nat
      BY AtMostOneIsSequence DEF TypeOK
    <3> QED
      BY <1>0, <3>1, <3>2, <3>3 DEF Newest
  <2> QED
    BY <2>1, <2>2
<1>5. CASE Write
  BY <1>1, <1>5 DEF Write, WriteOk, WriteFails, WriterUnchanged, audioVars
<1> QED
  BY <1>1, <1>2, <1>3, <1>4, <1>5, AudioStays DEF Next, Pump, Writer

\* A frame the full ring evicts while the gate is inactive is silent: the
\* hold outlasts the ring.
LEMMA EvictedIsSilent ==
  ASSUME PauseEnabled => RingCap <= Hold,
         TypeOK, SilenceInv, Newest, PumpPush, Full, ~gate.active
  PROVE  ~heard[Head(ring)]
<1> DEFINE n == Len(heard)
<1>1. ring \in Seq(Nat) /\ n \in Nat /\ Len(ring) = RingCap /\ ring # <<>>
  BY PlacesAreSequences, EngineAssumption DEF TypeOK, Full
<1>2. hand = <<n>>
  BY DEF PumpPush, TypeOK, Newest
<1>3. Head(ring) = n - RingCap
  <2>1. Len(hand) = 1
    BY <1>2
  <2>2. 1 \in DOMAIN ring /\ Head(ring) = ring[1]
    BY <1>1
  <2> QED
    BY <1>1, <2>1, <2>2 DEF Newest
<1>4. /\ gate.silStart \in 1..n /\ n - gate.silStart >= Hold
      /\ \A i \in gate.silStart..n : ~heard[i]
  BY DEF SilenceInv, Frames
<1>5. Head(ring) \in gate.silStart..n
  <2>1. RingCap <= Hold
    BY DEF SilenceInv
  <2> HIDE DEF n
  <2> QED
    BY <1>1, <1>3, <1>4, <2>1, PauseAssumption, EngineAssumption
<1> QED
  BY <1>4, <1>5

\* The frames of a sequence.
Elements(s) == {s[i] : i \in DOMAIN s}

LEMMA ElementsJoin ==
  ASSUME NEW s \in Seq(Nat), NEW t \in Seq(Nat)
  PROVE  Elements(s \o t) = Elements(s) \cup Elements(t)
<1> DEFINE u == s \o t
<1>1. /\ DOMAIN s = 1..Len(s) /\ DOMAIN t = 1..Len(t)
      /\ DOMAIN u = 1..Len(s) + Len(t) /\ Len(s) \in Nat /\ Len(t) \in Nat
      /\ \A i \in 1..Len(s) : u[i] = s[i]
      /\ \A i \in 1..Len(t) : u[Len(s) + i] = t[i]
  BY ConcatElements
<1> HIDE DEF u
<1>2. ASSUME NEW i \in DOMAIN u PROVE u[i] \in Elements(s) \cup Elements(t)
  <2>1. CASE i <= Len(s)
    BY <1>1, <2>1 DEF Elements
  <2>2. CASE i > Len(s)
    <3>1. i - Len(s) \in 1..Len(t) /\ Len(s) + (i - Len(s)) = i
      BY <1>1, <2>2
    <3> QED
      BY <1>1, <3>1 DEF Elements
  <2> QED
    BY <1>1, <2>1, <2>2
<1>3. ASSUME NEW i \in DOMAIN s PROVE s[i] \in Elements(u)
  <2>1. i \in DOMAIN u
    BY <1>1
  <2> QED
    BY <1>1, <2>1 DEF Elements
<1>4. ASSUME NEW i \in DOMAIN t PROVE t[i] \in Elements(u)
  <2>1. Len(s) + i \in DOMAIN u
    BY <1>1
  <2> QED
    BY <1>1, <2>1 DEF Elements
<1> QED
  BY <1>2, <1>3, <1>4 DEF Elements, u

LEMMA ElementsSmall ==
  /\ Elements(<<>>) = {}
  /\ \A n : Elements(<<n>>) = {n}
BY DEF Elements

LEMMA ElementsTail ==
  ASSUME NEW s \in Seq(Nat), s # <<>>
  PROVE  Elements(s) = {Head(s)} \cup Elements(Tail(s))
<1>1. <<Head(s)>> \in Seq(Nat) /\ Tail(s) \in Seq(Nat) /\ s = <<Head(s)>> \o Tail(s)
  BY HeadAndTail
<1> QED
  BY <1>1, ElementsJoin, ElementsSmall, Zenon

\* The frames whose whereabouts are known: held, sent, or lost with a write.
Kept == Elements(sent) \cup Elements(chunk) \cup Elements(ring) \cup Elements(hand)
          \cup cut

LEMMA GonePlaces == TypeOK => Gone \ cut = Frames \ Kept
<1> SUFFICES ASSUME TypeOK PROVE Gone \ cut = Frames \ Kept
  OBVIOUS
<1>1. sent \in Seq(Nat) /\ chunk \in Seq(Nat) /\ ring \in Seq(Nat) /\ hand \in Seq(Nat)
  BY PlacesAreSequences
<1>2. sent \o chunk \in Seq(Nat) /\ (sent \o chunk) \o ring \in Seq(Nat)
  BY <1>1
<1>3. Elements(((sent \o chunk) \o ring) \o hand) \cup cut = Kept
  <2>1. Elements(sent \o chunk) = Elements(sent) \cup Elements(chunk)
    BY <1>1, ElementsJoin
  <2>2. Elements((sent \o chunk) \o ring) = Elements(sent \o chunk) \cup Elements(ring)
    BY <1>1, <1>2, ElementsJoin
  <2>3. Elements(((sent \o chunk) \o ring) \o hand)
          = Elements((sent \o chunk) \o ring) \cup Elements(hand)
    BY <1>1, <1>2, ElementsJoin
  <2> QED
    BY <2>1, <2>2, <2>3 DEF Kept
<1> QED
  BY <1>3 DEF Gone, InFlight, Elements

\* The loud ones of the others: what the ring gave up.
Lost == {n \in Frames \ Kept : heard[n]}

LEMMA DropsGrow == TypeOK /\ [Next]_vars => drops' \in Nat /\ drops <= drops'
<1> SUFFICES ASSUME TypeOK, [Next]_vars PROVE drops' \in Nat /\ drops <= drops'
  OBVIOUS
<1>0. drops \in Nat
  BY DEF TypeOK
<1>1. CASE Pump
  BY <1>0, <1>1 DEF Pump, PumpReceive, PumpPush, PumpEnds
<1>2. CASE ~Pump
  BY <1>0, <1>2, RunFrame, WriterFrame, LinkFrame, CancelFrame DEF Next
<1> QED
  BY <1>1, <1>2

\* A set that grows by an element at most, under a bound that grows with it.
LEMMA BoundKept ==
  ASSUME NEW S, IsFiniteSet(S), NEW T, NEW a \in Nat, NEW b \in Nat,
         Cardinality(S) <= a,
         \/ T \subseteq S /\ a <= b
         \/ \E x : T \subseteq S \cup {x} /\ a + 1 <= b
  PROVE  Cardinality(T) <= b
<1>0. Cardinality(S) \in Nat
  BY FS_CardinalityType
<1>1. CASE T \subseteq S /\ a <= b
  <2>1. Cardinality(T) \in Nat /\ Cardinality(T) <= Cardinality(S)
    BY <1>1, FS_Subset, FS_CardinalityType
  <2> QED
    BY <1>0, <1>1, <2>1
<1>2. ASSUME NEW x, T \subseteq S \cup {x}, a + 1 <= b PROVE Cardinality(T) <= b
  <2>1. /\ IsFiniteSet(S \cup {x}) /\ Cardinality(S \cup {x}) \in Nat
        /\ Cardinality(S \cup {x}) <= Cardinality(S) + 1
    <3>1. /\ IsFiniteSet(S \cup {x})
          /\ Cardinality(S \cup {x}) =
               IF x \in S THEN Cardinality(S) ELSE Cardinality(S) + 1
      BY FS_AddElement
    <3>2. Cardinality(S \cup {x}) \in Nat
      BY <3>1, FS_CardinalityType
    <3> QED
      BY <1>0, <3>1, <3>2
  <2>2. Cardinality(T) \in Nat /\ Cardinality(T) <= Cardinality(S \cup {x})
    BY <1>2, <2>1, FS_Subset, FS_CardinalityType
  <2> QED
    BY <1>0, <1>2, <2>1, <2>2
<1> QED
  BY <1>1, <1>2

\* Frames that were heard and held stay so: what else is lost is in X.
LEMMA LostGrows ==
  ASSUME TypeOK, NEW X, Kept \subseteq Kept' \cup X,
         \/ heard' = heard
         \/ \E loud : heard' = Append(heard, loud) /\ Len(heard) + 1 \in Kept'
  PROVE  Lost' \subseteq Lost \cup {n \in X : heard[n]}
<1> SUFFICES ASSUME NEW n \in Lost' PROVE n \in Lost \/ (n \in X /\ heard[n])
  OBVIOUS
<1>1. n \in Frames /\ heard'[n] = heard[n]
  <2>1. CASE heard' = heard
    BY <2>1 DEF Lost, Frames
  <2>2. ASSUME NEW loud, heard' = Append(heard, loud), Len(heard) + 1 \in Kept'
        PROVE  n \in Frames /\ heard'[n] = heard[n]
    <3>1. n \in 1..Len(heard) + 1 /\ n # Len(heard) + 1
      BY <2>2 DEF Lost, Frames, TypeOK
    <3>2. n \in 1..Len(heard)
      BY <3>1 DEF TypeOK
    <3> QED
      BY <2>2, <3>2 DEF Frames, TypeOK
  <2> QED
    BY <2>1, <2>2
<1>2. n \notin Kept' /\ heard[n]
  BY <1>1 DEF Lost
<1> QED
  BY <1>1, <1>2 DEF Lost

LEMMA LostNext ==
  ASSUME PauseEnabled => RingCap <= Hold,
         TypeOK, TypeOK', ConnInv, SilenceInv, Newest, [Next]_vars
  PROVE  \/ Lost' \subseteq Lost
         \/ \E x : Lost' \subseteq Lost \cup {x} /\ drops + 1 <= drops'
<1>1. /\ sent \in Seq(Nat) /\ chunk \in Seq(Nat) /\ ring \in Seq(Nat)
      /\ hand \in Seq(Nat)
  BY PlacesAreSequences
<1>2. ASSUME heard' = heard, Kept \subseteq Kept' PROVE Lost' \subseteq Lost
  BY <1>2, LostGrows
<1>3. ASSUME UNCHANGED <<heard, sent, cut, chunk, ring, hand>> PROVE Lost' \subseteq Lost
  <2>1. Kept' = Kept
    BY <1>3 DEF Kept, Elements
  <2> QED
    BY <1>2, <1>3, <2>1
<1>4. ASSUME NEW loud \in BOOLEAN, PumpReceive(loud) PROVE Lost' \subseteq Lost
  <2>1. /\ hand = <<>> /\ hand' = <<Len(heard) + 1>> /\ heard' = Append(heard, loud)
        /\ UNCHANGED <<sent, cut, chunk, ring>>
    BY <1>4 DEF PumpReceive, connVars, TypeOK
  <2>2. Kept' = Kept \cup {Len(heard) + 1}
    BY <2>1, ElementsSmall DEF Kept, Elements
  <2> QED
    BY <2>1, <2>2, LostGrows
<1>5. CASE PumpPush
  <2> DEFINE kept == IF Full THEN Tail(ring) ELSE ring
  <2>1. /\ ring' = kept \o hand /\ hand' = <<>> /\ UNCHANGED <<heard, sent, cut, chunk>>
        /\ drops' = IF Full /\ gate.active THEN drops + 1 ELSE drops
    BY <1>5 DEF PumpPush, CountsDrop, connVars, metVars
  <2>2. CASE ~Full
    <3>1. Elements(ring') = Elements(ring) \cup Elements(hand)
      BY <1>1, <2>1, <2>2, ElementsJoin
    <3>2. Kept \subseteq Kept'
      <4>1. Elements(hand)' = {}
        BY <2>1, ElementsSmall DEF Elements
      <4>2. /\ Elements(ring)' = Elements(ring) \cup Elements(hand) /\ cut' = cut
            /\ Elements(sent)' = Elements(sent) /\ Elements(chunk)' = Elements(chunk)
        BY <2>1, <3>1 DEF Elements
      <4> QED
        BY <4>1, <4>2 DEF Kept
    <3> QED
      BY <1>2, <2>1, <3>2
  <2>3. CASE Full
    <3>1. ring # <<>>
      BY <1>1, <2>3, EngineAssumption DEF Full
    <3>2. Tail(ring) \in Seq(Nat) /\ Elements(ring) = {Head(ring)} \cup Elements(Tail(ring))
      BY <1>1, <3>1, ElementsTail
    <3>3. Elements(ring') = Elements(Tail(ring)) \cup Elements(hand)
      BY <1>1, <2>1, <2>3, <3>2, ElementsJoin
    <3>4. Kept \subseteq Kept' \cup {Head(ring)}
      <4>1. /\ Elements(ring)' = Elements(Tail(ring)) \cup Elements(hand) /\ cut' = cut
            /\ Elements(sent)' = Elements(sent) /\ Elements(chunk)' = Elements(chunk)
        BY <2>1, <3>3 DEF Elements
      <4> QED
        BY <3>2, <4>1 DEF Kept
    <3>5. Lost' \subseteq Lost \cup {n \in {Head(ring)} : heard[n]}
      BY <2>1, <3>4, LostGrows
    <3>6. CASE ~gate.active
      BY <1>5, <2>3, <3>5, <3>6, EvictedIsSilent
    <3>7. CASE gate.active
      <4>1. drops' = drops + 1 /\ drops \in Nat
        BY <2>1, <2>3, <3>7 DEF TypeOK
      <4>2. drops + 1 <= drops'
        BY <4>1
      <4> QED
        BY <3>5, <4>2
    <3> QED
      BY <3>6, <3>7
  <2> QED
    BY <2>2, <2>3
<1>6. CASE WriterPop
  <2>1. CASE ring = <<>>
    BY <1>3, <1>6, <2>1 DEF WriterPop, WriterUnchanged, audioVars
  <2>2. CASE ring # <<>>
    <3>1. /\ chunk' = <<Head(ring)>> /\ ring' = Tail(ring)
          /\ UNCHANGED <<heard, sent, cut, hand>>
      BY <1>6, <2>2 DEF WriterPop, WriterUnchanged, audioVars
    <3>2. chunk = <<>>
      BY <1>6 DEF WriterPop, TypeOK
    <3>3. Elements(chunk) = {} /\ Elements(chunk') = {Head(ring)}
      BY <3>1, <3>2, ElementsSmall
    <3>4. Elements(ring) = {Head(ring)} \cup Elements(ring')
      BY <1>1, <2>2, <3>1, ElementsTail
    <3>5. Kept \subseteq Kept'
      BY <3>1, <3>3, <3>4 DEF Kept, Elements
    <3> QED
      BY <1>2, <3>1, <3>5
  <2> QED
    BY <2>1, <2>2
<1>7. CASE WriteOk
  <2>1. sent' = sent \o chunk /\ chunk' = <<>> /\ UNCHANGED <<heard, ring, hand, cut>>
    BY <1>7 DEF WriteOk, WriterUnchanged, audioVars
  <2>2. Elements(sent') = Elements(sent) \cup Elements(chunk)
    BY <1>1, <2>1, ElementsJoin
  <2>3. Kept \subseteq Kept'
    BY <2>1, <2>2 DEF Kept, Elements
  <2> QED
    BY <1>2, <2>1, <2>3
<1>8. CASE WriteFails
  <2>1. /\ chunk' = <<>> /\ cut' = cut \cup Elements(chunk)
        /\ UNCHANGED <<heard, sent, ring, hand>>
    BY <1>8 DEF WriteFails, WriterUnchanged, Elements, audioVars
  <2>2. Kept \subseteq Kept'
    BY <2>1 DEF Kept, Elements
  <2> QED
    BY <1>2, <2>1, <2>2
<1> QED
  BY <1>3, <1>4, <1>5, <1>6, <1>7, <1>8, AudioStays DEF Next, Pump, Writer, Write

LEMMA EvictionsNext ==
  ASSUME PauseEnabled => RingCap <= Hold,
         TypeOK, TypeOK', ConnInv, SilenceInv, Newest, EvictionsCounted, [Next]_vars
  PROVE  EvictionsCounted'
<1>1. Gone \ cut = Frames \ Kept /\ (Gone \ cut = Frames \ Kept)'
  <2>1. (TypeOK => Gone \ cut = Frames \ Kept) /\ (TypeOK => Gone \ cut = Frames \ Kept)'
    BY GonePlaces, PTL
  <2> QED
    BY <2>1
<1>2. drops \in Nat /\ drops' \in Nat /\ drops <= drops'
  BY DropsGrow DEF TypeOK
<1>3. IsFiniteSet(Lost) /\ Cardinality(Lost) <= drops
  <2>1. IsFiniteSet(Frames) /\ Lost \in SUBSET Frames
    BY FS_Interval DEF TypeOK, Frames, Lost
  <2> QED
    BY <1>1, <2>1, FS_Subset DEF EvictionsCounted, Lost
<1>4. Cardinality(Lost') <= drops'
  BY <1>2, <1>3, LostNext, BoundKept
<1> QED
  BY <1>1, <1>4 DEF EvictionsCounted, Lost

\* What the reconnect count owns up to.
Owned == reconnects + IF Unreported THEN 1 ELSE 0

\* A write that fails makes its connection unreported; every way out of the
\* connection then reports it, or finds ctx done.
LEMMA OwnedNext ==
  ASSUME TypeOK, TypeOK', ConnInv, [Next]_vars
  PROVE  \/ cut' = cut /\ refused' = refused /\ Owned <= Owned'
         \/ cut' = cut /\ refused' = refused + 1 /\ Owned + 1 <= Owned'
         \/ /\ \E x : cut' \subseteq cut \cup {x}
            /\ refused' = refused /\ Owned + 1 <= Owned'
<1>1. reconnects \in Nat /\ reconnects' \in Nat
  BY DEF TypeOK
<1>2. ASSUME UNCHANGED <<cut, refused, reconnects>>, Unreported => Unreported'
      PROVE  cut' = cut /\ refused' = refused /\ Owned <= Owned'
  BY <1>1, <1>2 DEF Owned
<1>3. CASE Pump
  BY <1>2, <1>3, PumpFrame DEF connVars, metVars, Unreported
<1>4. CASE Dial
  <2>1. ~Unreported /\ cut' = cut
    BY <1>4, RunFrame
       DEF Dial, DialOk, DialFails, Unreported, ConnInv, NoStrayGoroutine, InConnection
  <2>2. \/ UNCHANGED <<reconnects, refused>>
        \/ reconnects' = reconnects + 1 /\ refused' = refused + 1
    BY <1>4 DEF Dial, DialOk, DialFails, metVars
  <2>3. CASE reconnects' = reconnects + 1 /\ refused' = refused + 1
    BY <1>1, <2>1, <2>3 DEF Owned
  <2> QED
    BY <1>2, <2>1, <2>2, <2>3
<1>5. CASE ReaderJoined \/ WriterJoined
  <2>1. UNCHANGED <<cut, refused>>
    BY <1>5 DEF ReaderJoined, WriterJoined, ConnUnchanged
  <2>2. CASE ctx
    BY <1>2, <1>5, <2>1, <2>2
       DEF ReaderJoined, WriterJoined, Reconnect, ConnUnchanged, Unreported, metVars
  <2>3. CASE ~ctx
    <3>1. reconnects' = reconnects + 1
      BY <1>5, <2>3 DEF ReaderJoined, WriterJoined, Reconnect
    <3> QED
      BY <1>1, <2>1, <3>1 DEF Owned
  <2> QED
    BY <2>2, <2>3
<1>6. CASE DrainEnds
  <2>1. ~Unreported
    BY <1>6 DEF DrainEnds, Unreported, ConnInv
  <2> QED
    BY <1>2, <1>6, <2>1 DEF DrainEnds, AfterFinish, ConnUnchanged, metVars
<1>7. CASE RunTop \/ SleepEnds \/ WriterReports \/ ReaderReports
  BY <1>2, <1>7, RunFrame
     DEF RunStep, RunTop, SleepEnds, WriterReports, ReaderReports, ConnUnchanged,
         Unreported, metVars, connVars
<1>8. CASE PauseArm \/ PauseTest \/ PauseWakes \/ PauseReturns
  BY <1>2, <1>8
     DEF PauseArm, PauseTest, PauseWakes, PauseReturns, PauseUnchanged, Unreported, connVars
<1>9. CASE WriteFails
  <2>1. /\ cut' = cut \cup Elements(chunk) /\ UNCHANGED <<refused, reconnects>>
        /\ writer' = "failed"
    BY <1>9 DEF WriteFails, WriterUnchanged, Elements, metVars
  <2>2. \E x : cut' \subseteq cut \cup {x}
    BY <2>1, InHand, ElementsSmall
  <2>3. ~Unreported /\ Unreported'
    BY <1>9, <2>1 DEF WriteFails, Unreported, ConnInv, NoStrayGoroutine, InConnection
  <2> QED
    BY <1>1, <2>1, <2>2, <2>3 DEF Owned
<1>10. CASE \/ WriterTest \/ WriterPop \/ WriteOk \/ WriterEnds \/ WriterLoses
            \/ WriterNotified \/ WriterLoops
  <2>1. ~Unreported
    BY <1>10 DEF WriterTest, WriterPop, WriteOk, WriterEnds, WriterLoses,
                 WriterNotified, WriterLoops, WriterSelects, Unreported, ConnInv,
                 NoStrayGoroutine, InConnection
  <2>2. UNCHANGED <<cut, refused, reconnects>>
    BY <1>10 DEF WriterTest, WriterPop, WriteOk, WriterEnds, WriterLoses,
                 WriterNotified, WriterLoops, WriterSelects, WriterUnchanged, metVars
  <2> QED
    BY <1>2, <2>1, <2>2
<1>11. CASE ReaderFails \/ ServerCloses \/ StrayEnds \/ LinkFails \/ LinkStalls
  BY <1>2, <1>11, LinkFrame DEF metVars, Unreported
<1>12. CASE Cancel \/ Finished \/ UNCHANGED vars
  BY <1>2, <1>12, CancelFrame DEF metVars, connVars, Unreported
<1> QED
  BY <1>3, <1>4, <1>5, <1>6, <1>7, <1>8, <1>9, <1>10, <1>11, <1>12
     DEF Next, RunStep, Writer, Write

LEMMA CutsNext ==
  ASSUME TypeOK, TypeOK', ConnInv, CutsCounted, [Next]_vars
  PROVE  CutsCounted'
<1>1. IsFiniteSet(cut) /\ Cardinality(cut) \in Nat
  <2>1. IsFiniteSet(Frames)
    BY FS_Interval DEF TypeOK, Frames
  <2> QED
    BY <2>1, FS_Subset, FS_CardinalityType DEF TypeOK
<1>2. refused \in Nat /\ Owned \in Nat /\ Owned' \in Nat
  <2>1. refused \in Nat /\ reconnects \in Nat /\ reconnects' \in Nat
    BY DEF TypeOK
  <2>2. Owned = reconnects + 0 \/ Owned = reconnects + 1
    BY DEF Owned
  <2>3. Owned' = reconnects' + 0 \/ Owned' = reconnects' + 1
    BY DEF Owned
  <2> QED
    BY <2>1, <2>2, <2>3
<1>3. Cardinality(cut) + refused <= Owned
  BY DEF CutsCounted, Owned
<1>4. ASSUME NEW x, cut' \subseteq cut \cup {x}
      PROVE  Cardinality(cut') \in Nat /\ Cardinality(cut') <= Cardinality(cut) + 1
  <2>1. /\ IsFiniteSet(cut \cup {x})
        /\ Cardinality(cut \cup {x})
             = IF x \in cut THEN Cardinality(cut) ELSE Cardinality(cut) + 1
    BY <1>1, FS_AddElement
  <2>2. IsFiniteSet(cut') /\ Cardinality(cut') <= Cardinality(cut \cup {x})
    BY <1>4, <2>1, FS_Subset
  <2>3. Cardinality(cut') \in Nat
    BY <2>2, FS_CardinalityType
  <2> QED
    BY <1>1, <2>1, <2>2, <2>3
<1>5. Cardinality(cut') + refused' <= Owned'
  <2>1. CASE cut' = cut /\ refused' = refused /\ Owned <= Owned'
    BY <1>1, <1>2, <1>3, <2>1
  <2>2. CASE cut' = cut /\ refused' = refused + 1 /\ Owned + 1 <= Owned'
    BY <1>1, <1>2, <1>3, <2>2
  <2>3. ASSUME NEW x, cut' \subseteq cut \cup {x}, refused' = refused, Owned + 1 <= Owned'
        PROVE  Cardinality(cut') + refused' <= Owned'
    BY <1>1, <1>2, <1>3, <1>4, <2>3
  <2> QED
    BY <2>1, <2>2, <2>3, OwnedNext
<1> QED
  BY <1>5 DEF CutsCounted, Owned

\* Run returns with the audio exhausted, but for the ways LeftUncounted names,
\* and what is exhausted stays so.
LEMMA EmptiedNext ==
  ASSUME TypeOK, TypeOK', ConnInv, PauseAccounted, ReturnsOnlyWhenOver,
         EmptyAtReturn, [Next]_vars
  PROVE  EmptyAtReturn'
<1> USE DEF EmptyAtReturn, LeftUncounted, Returned
<1>1. ASSUME pump = "done", ring = <<>>, writer # "write" PROVE ring = <<>> /\ hand = <<>> /\ chunk = <<>>
  BY <1>1 DEF TypeOK
<1>2. CASE Pump
  <2>1. Returned /\ ~LeftUncounted => pump = "done"
    BY DEF ReturnsOnlyWhenOver, framesClosed
  <2>2. pump # "done"
    BY <1>2 DEF Pump, PumpReceive, PumpPush, PumpEnds
  <2> QED
    BY <1>2, <2>1, <2>2, PumpFrame DEF metVars
<1>3. CASE RunTop
  <2>1. writer = "off" /\ UNCHANGED <<ctx, ring, hand, chunk>>
    BY <1>3 DEF RunTop, RunUnchanged, ConnInv, NoStrayGoroutine, InConnection,
                audioVars, connVars
  <2> QED
    BY <1>1, <1>3, <2>1 DEF RunTop, framesClosed
<1>4. CASE Dial
  BY <1>4, RunFrame DEF Dial, DialOk, DialFails
<1>5. CASE SleepEnds \/ WriterReports \/ ReaderReports \/ ReaderJoined \/ WriterJoined
  BY <1>5, RunFrame
     DEF RunStep, SleepEnds, WriterReports, ReaderReports, ReaderJoined, WriterJoined,
         Reconnect
<1>6. CASE DrainEnds
  <2>1. /\ UNCHANGED <<ctx, ring, hand>> /\ chunk' = <<>>
        /\ run' = "returned" => writer = "ended" \/ ctx
        /\ run' \in {"returned", "pauseArm"}
    BY <1>6 DEF DrainEnds, AfterFinish, OutcomeDone, ConnectionGone, ConnUnchanged, audioVars
  <2> QED
    BY <1>1, <2>1 DEF ConnInv, framesClosed
<1>7. CASE PauseArm \/ PauseTest \/ PauseWakes \/ PauseReturns
  BY <1>7
     DEF PauseArm, PauseTest, PauseWakes, PauseReturns, PauseUnchanged, PauseAccounted,
         InPause
<1>8. CASE Writer
  <2>1. InConnection
    BY <1>8 DEF Writer, WriterTest, WriterPop, Write, WriteOk, WriteFails,
                WriterEnds, WriterLoses, WriterNotified, WriterLoops,
                WriterSelects, ConnInv, NoStrayGoroutine
  <2> QED
    BY <1>8, <2>1, WriterFrame DEF InConnection
<1>9. CASE ReaderFails \/ ServerCloses \/ StrayEnds \/ LinkFails \/ LinkStalls
  BY <1>9, LinkFrame DEF metVars, audioVars
<1>10. CASE Cancel \/ Finished \/ UNCHANGED vars
  BY <1>10, CancelFrame DEF metVars, connVars, audioVars
<1> QED
  BY <1>2, <1>3, <1>4, <1>5, <1>6, <1>7, <1>8, <1>9, <1>10 DEF Next, RunStep

\* Where speech can be lost before conn.Write takes it, provided the hold
\* outlasts the ring: every loud frame the ring gave up is a counted drop, the
\* failed writes took at most one frame for each reconnect that is not a
\* failed dial, and Run leaves nothing behind but after a cancellation, a
\* rejected key or a pause (ring.push, writeLoop, Run's returns).
THEOREM SpeechLossIsAccounted ==
  ASSUME PauseEnabled => RingCap <= Hold
  PROVE  Spec => []LossIsAccounted
<1>1. Init => SilenceInv /\ Newest /\ EvictionsCounted /\ CutsCounted /\ EmptyAtReturn
  <2> SUFFICES ASSUME Init
               PROVE  SilenceInv /\ Newest /\ EvictionsCounted /\ CutsCounted /\ EmptyAtReturn
    OBVIOUS
  <2>1. SilenceInv /\ Newest /\ EmptyAtReturn
    BY DEF Init, NewGate, SilenceInv, Newest, EmptyAtReturn, Returned
  <2>2. {n \in Gone \ cut : heard[n]} = {}
    BY DEF Init, Gone, Frames
  <2>3. Cardinality({n \in Gone \ cut : heard[n]}) = 0 /\ Cardinality(cut) = 0
    BY <2>2, FS_EmptySet DEF Init
  <2> QED
    BY <2>1, <2>3 DEF Init, EvictionsCounted, CutsCounted, Unreported
<1>2. TypeOK /\ TypeOK' /\ ConnInv /\ SilenceInv /\ Newest /\ EvictionsCounted
        /\ [Next]_vars => EvictionsCounted'
  BY EvictionsNext
<1>3. TypeOK /\ TypeOK' /\ ConnInv /\ CutsCounted /\ [Next]_vars => CutsCounted'
  BY CutsNext
<1>4. TypeOK /\ TypeOK' /\ ConnInv /\ PauseAccounted /\ ReturnsOnlyWhenOver
        /\ EmptyAtReturn /\ [Next]_vars => EmptyAtReturn'
  BY EmptiedNext
<1>5. EvictionsCounted /\ CutsCounted /\ EmptyAtReturn => LossIsAccounted
  BY DEF LossIsAccounted
<1> QED
  BY <1>1, <1>2, <1>3, <1>4, <1>5, TypeInit, TypeNext, ConnInit, ConnNext, SilenceNext,
     NewestNext, PausesAreAccounted, RunReturnsWhenOver, PTL DEF Spec
=============================================================================
