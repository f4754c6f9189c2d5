--------------------------- MODULE MockEngine_proofs ---------------------------
(***************************************************************************)
(* Proofs about the offline engines: for every frame length, phrase timing *)
(* and hold, the gate pauses neither early nor late whoever feeds it, a    *)
(* phrase covers only audio the engine was active for, and mock, which has *)
(* no gate, speaks on.                                                     *)
(***************************************************************************)
EXTENDS MockEngine, TLAPS

-----------------------------------------------------------------------------
(* The gate alone: for every hold, every set of frame lengths and every    *)
(* media clock, a pause is neither early nor late.                         *)

IInv == TypeOK /\ GateInv

\* What one observation computes, spelled out for the arithmetic below.
LEMMA ObserveType ==
  ASSUME NEW g \in Gates, NEW loud \in BOOLEAN, NEW t \in Nat
  PROVE  ObserveLevel(g, loud, t) \in Gates
BY PauseAssumption
   DEF Gates, ObserveLevel, Loud, SilentFrom, Generation, Baseline

LEMMA InitIInv == Init => IInv
BY PauseAssumption DEF Init, IInv, TypeOK, GateInv, NewGate, Gates, NoSilence

LEMMA NextIInv == IInv /\ [Next]_vars => IInv'
<1> SUFFICES ASSUME IInv, [Next]_vars PROVE IInv'
  OBVIOUS
<1>1. CASE UNCHANGED vars
  BY <1>1 DEF IInv, TypeOK, GateInv, vars
<1>2. ASSUME NEW loud \in BOOLEAN, NEW d \in Chunks, NEW again \in BOOLEAN,
             Observe(loud, d, again)
      PROVE  IInv'
  <2> USE PauseAssumption
  <2>1. d \in Nat /\ d > 0
    BY SourceAssumption
  <2>2. at' \in Nat /\ heard' \in Nat /\ heard' = heard + d
    BY <1>2, <2>1 DEF Observe, IInv, TypeOK
  <2>3. gate' \in Gates
    BY <1>2, <2>2, ObserveType DEF Observe, IInv, TypeOK
  <2>4. quiet' \in [on : BOOLEAN, since : Nat, passSince : Nat]
    BY <1>2, <2>2 DEF Observe, IInv, TypeOK, NoSilence
  <2>5. TypeOK'
    BY <2>2, <2>3, <2>4 DEF TypeOK
  <2>6. CASE ~PauseEnabled
    <3>1. gate' = gate
      BY <1>2, <2>6 DEF Observe, ObserveLevel
    <3>2. quiet'.on => heard' >= quiet'.since
      BY <1>2, <2>1, <2>2 DEF Observe, IInv, TypeOK, GateInv, NoSilence
    <3> QED
      BY <2>5, <2>6, <3>1, <3>2 DEF IInv, GateInv
  <2>7. CASE PauseEnabled /\ loud
    <3>1. gate' = Loud(gate) /\ quiet' = NoSilence
      BY <1>2, <2>7 DEF Observe, ObserveLevel
    <3>2. gate'.active /\ ~gate'.inSilence /\ ~quiet'.on
      BY <3>1 DEF Loud, NoSilence
    <3> QED
      BY <2>5, <3>2 DEF IInv, GateInv
  <2>8. CASE PauseEnabled /\ ~loud
    <3> DEFINE start == Baseline(gate, at')
    <3>1. /\ gate' = SilentFrom(gate, at', start)
          /\ quiet'.on
          /\ quiet'.since = IF quiet.on THEN quiet.since ELSE heard'
          /\ quiet'.passSince = IF quiet.on /\ ~again THEN quiet.passSince
                                ELSE at'
      BY <1>2, <2>8 DEF Observe, ObserveLevel
    <3>2. /\ gate'.inSilence
          /\ gate'.silStart = start
          /\ gate'.active <=> (gate.active /\ at' - start < Hold)
      BY <3>1 DEF SilentFrom
    <3>3. start \in Nat /\ start <= at'
      BY <2>2 DEF Baseline, IInv, TypeOK, Gates
    <3>4. start <= quiet'.passSince
      BY <1>2, <2>1, <2>8, <3>1, <3>3
         DEF Baseline, Observe, IInv, TypeOK, Gates, GateInv
    <3>5. heard' >= quiet'.since
      BY <2>1, <2>2, <3>1 DEF IInv, TypeOK, GateInv
    <3>6. at' - start <= heard' - quiet'.since
      BY <1>2, <2>1, <2>2, <2>8, <3>1, <3>3
         DEF Baseline, Observe, IInv, TypeOK, Gates, GateInv
    <3>7. ~gate'.active => heard' - quiet'.since >= Hold
      <4>1. CASE gate.active
        BY <2>2, <2>4, <3>2, <3>3, <3>6, <4>1
      <4>2. CASE ~gate.active
        BY <2>1, <2>2, <3>1, <4>2 DEF IInv, TypeOK, GateInv
      <4> QED BY <4>1, <4>2
    <3> QED
      BY <2>5, <2>8, <3>1, <3>2, <3>3, <3>4, <3>5, <3>6, <3>7 DEF IInv, GateInv
  <2> QED BY <2>6, <2>7, <2>8
<1> QED BY <1>1, <1>2 DEF Next

\* The gate's state is well typed whatever the source does.
THEOREM TypeCorrect == Spec => []TypeOK
<1>1. IInv => TypeOK
  BY DEF IInv
<1> QED BY <1>1, InitIInv, NextIInv, PTL DEF Spec

\* A pause is never early: the silence it answers was heard for Hold, across
\* any number of passes of a looped file (Gate.ObserveLevel).
THEOREM PauseNotEarly == Spec => []NeverPausesEarly
<1>1. IInv => NeverPausesEarly
  BY PauseAssumption DEF IInv, TypeOK, GateInv, NeverPausesEarly
<1> QED BY <1>1, InitIInv, NextIInv, PTL DEF Spec

\* A pause is never late: Hold of silence within a pass is enough, although
\* the media clock may have restarted in the middle of the silence.
THEOREM PauseNotLate == Spec => []PausesByHold
<1>1. IInv => PausesByHold
  BY PauseAssumption DEF IInv, TypeOK, GateInv, PausesByHold, Gates
<1> QED BY <1>1, InitIInv, NextIInv, PTL DEF Spec

-----------------------------------------------------------------------------
(* The gate, under whichever engine owns it.                               *)

\* mock owns none: the gate of the specification stays as it was made.
GateInvMock == IInv /\ (kind = "mock" => gate.active /\ ~gate.inSilence /\ ~quiet.on)

LEMMA GateMockInit == MockInit => GateInvMock
<1> SUFFICES ASSUME MockInit PROVE GateInvMock
  OBVIOUS
<1>1. IInv
  BY InitIInv DEF MockInit
<1> QED
  BY <1>1 DEF MockInit, Init, GateInvMock, NewGate, NoSilence

LEMMA GateMockNext == GateInvMock /\ [MockNext]_mockVars => GateInvMock'
<1> SUFFICES ASSUME GateInvMock, [MockNext]_mockVars PROVE GateInvMock'
  OBVIOUS
<1>1. ASSUME NEW d \in Chunks, NEW again \in BOOLEAN, NEW loud \in BOOLEAN,
             kind # "mock", kind' = kind, Observe(loud, d, again)
      PROVE  GateInvMock'
  <2>1. IInv'
    BY <1>1, NextIInv DEF Next, GateInvMock
  <2> QED
    BY <1>1, <2>1 DEF GateInvMock
<1>2. ASSUME NEW d \in Chunks, NEW again \in BOOLEAN,
             MockFrame(d, again), kind' = kind
      PROVE  GateInvMock'
  <2>1. d \in Nat
    BY SourceAssumption
  <2>2. gate' = gate /\ quiet' = quiet /\ at' \in Nat /\ heard' \in Nat
    BY <1>2, <2>1 DEF MockFrame, GateInvMock, IInv, TypeOK
  <2> QED
    BY <1>2, <2>2 DEF MockFrame, GateInvMock, IInv, TypeOK, GateInv
<1>3. ASSUME NEW d \in Chunks, NEW again \in BOOLEAN, Frame(d, again)
      PROVE  GateInvMock'
  <2>1. CASE Mock2Frame(d, again)
    <3> DEFINE loud == ScheduledLoud(IF again THEN d ELSE at + d)
    <3>1. loud \in BOOLEAN
      BY DEF ScheduledLoud
    <3>2. kind # "mock" /\ kind' = kind /\ Observe(loud, d, again)
      BY <1>3, <2>1 DEF Frame, Mock2Frame
    <3> HIDE DEF loud
    <3> QED
      BY <1>1, <3>1, <3>2
  <2>2. CASE \E loud \in BOOLEAN : PumpFrame(loud, d, again)
    BY <1>1, <1>3, <2>2 DEF Frame, PumpFrame
  <2> QED
    BY <1>2, <1>3, <2>1, <2>2 DEF Frame
<1>4. CASE UNCHANGED <<vars, kind>>
  BY <1>4 DEF vars, GateInvMock, IInv, TypeOK, GateInv
<1> QED
  BY <1>3, <1>4 DEF MockNext, Emit, Return, Cancel, Finished, mockVars

\* A pause is never early, whichever engine owns the gate: mock-2 with its
\* schedule, or the pump with the audio itself (NeverPausesEarly).
THEOREM MocksPauseNotEarly == MockSpec => []NeverPausesEarly
<1>1. GateInvMock => NeverPausesEarly
  BY PauseAssumption DEF GateInvMock, IInv, TypeOK, GateInv, NeverPausesEarly
<1> QED
  BY <1>1, GateMockInit, GateMockNext, PTL DEF MockSpec

\* Nor is it ever late: re-baselining serves both of them (PausesByHold).
THEOREM MocksPauseNotLate == MockSpec => []PausesByHold
<1>1. GateInvMock => PausesByHold
  BY PauseAssumption DEF GateInvMock, IInv, TypeOK, GateInv, PausesByHold, Gates
<1> QED
  BY <1>1, GateMockInit, GateMockNext, PTL DEF MockSpec

-----------------------------------------------------------------------------
(* Phrases.                                                                *)

PhraseStates == [idx : Nat, start : Nat, nextInterim : Nat, words : Int,
                 inGap : BOOLEAN, gapUntil : Nat]

\* An utterance that begins is typed and begins now.
LEMMA BeginIs ==
  ASSUME NEW p \in PhraseStates, NEW t \in Nat
  PROVE  Begin(p, t) \in PhraseStates /\ Begin(p, t).start = t
<1> DEFINE due == t + Interim
<1>1. due \in Nat
  BY MockAssumption
<1> HIDE DEF due
<1>2. Begin(p, t) = [p EXCEPT !.start = t, !.nextInterim = due, !.words = 0, !.inGap = FALSE]
  BY DEF Begin, due
<1>3. Begin(p, t) = [idx |-> p.idx, start |-> t, nextInterim |-> due, words |-> 0,
                     inGap |-> FALSE, gapUntil |-> p.gapUntil]
  BY <1>2, Zenon DEF PhraseStates
<1>4. p.idx \in Nat /\ p.gapUntil \in Nat
  BY DEF PhraseStates
<1> QED
  BY <1>1, <1>3, <1>4 DEF PhraseStates

\* A transcript covers the audio from the beginning of its phrase, and a
\* phrase begins at the present frame or goes on.
LEMMA StepIs ==
  ASSUME NEW p \in PhraseStates, NEW t \in Nat
  PROVE  /\ step(p, t).ps \in PhraseStates
         /\ step(p, t).ps.start \in {p.start, t}
         /\ step(p, t).out # <<>> =>
              step(p, t).out[1].dur = t - step(p, t).ps.start
<1> DEFINE R(r, q) == /\ r.ps \in PhraseStates /\ r.ps.start = q.start
                      /\ r.out # <<>> => r.out[1].dur = t - r.ps.start
<1>1. Begin(p, t) \in PhraseStates /\ Begin(p, t).start = t
  BY BeginIs
<1>2. ASSUME NEW q \in PhraseStates PROVE R(Finish(q, t), q)
  <2> DEFINE over == t + Gap
             n == q.idx + 1
             after == [q EXCEPT !.idx = n, !.inGap = TRUE, !.gapUntil = over]
  <2>1. over \in Nat /\ n \in Nat
    BY MockAssumption DEF PhraseStates
  <2>2. after \in PhraseStates /\ after.start = q.start
    <3> HIDE DEF over, n
    <3> QED
      BY <2>1 DEF PhraseStates
  <2>3. Finish(q, t).ps = after /\ Finish(q, t).out[1].dur = t - q.start
    BY DEF Finish, PhraseStates
  <2> QED
    BY <2>2, <2>3
<1>3. ASSUME NEW q \in PhraseStates PROVE R(Reveal(q, t), q)
  <2> DEFINE want == (Words * (t - q.start)) \div Utterance
             due  == [q EXCEPT !.nextInterim = t + Interim]
             shown == [due EXCEPT !.words = want]
  <2>1. t - q.start \in Int /\ Words \in Nat /\ Utterance \in Nat \ {0} /\ Interim \in Nat
    BY MockAssumption DEF PhraseStates
  <2>2. want \in Int
    BY <2>1
  <2>3. due \in PhraseStates /\ due.start = q.start
    BY <2>1 DEF PhraseStates
  <2>4. shown \in PhraseStates /\ shown.start = q.start
    <3> HIDE DEF want, due
    <3> QED
      BY <2>2, <2>3 DEF PhraseStates
  <2>5. \/ Reveal(q, t) = [ps |-> q, out |-> <<>>]
        \/ Reveal(q, t) = [ps |-> due, out |-> <<>>]
        \/ Reveal(q, t) = [ps |-> shown, out |-> <<[final |-> FALSE, phrase |-> q.idx,
                              words |-> want, dur |-> t - q.start]>>]
    BY DEF Reveal
  <2> HIDE DEF want, due, shown
  <2> QED
    BY <2>3, <2>4, <2>5
<1> DEFINE first == p.start = 0 /\ p.nextInterim = 0
           q == IF p.inGap \/ first THEN Begin(p, t) ELSE p
<1>4. q \in PhraseStates /\ q.start \in {p.start, t}
  BY <1>1
<1>5. \/ step(p, t) = [ps |-> p, out |-> <<>>]
      \/ step(p, t) = Finish(q, t)
      \/ step(p, t) = Reveal(q, t)
  BY DEF step
<1>6. R(Finish(q, t), q) /\ R(Reveal(q, t), q)
  BY <1>2, <1>3, <1>4
<1> HIDE DEF q
<1> QED
  BY <1>4, <1>5, <1>6

\* What an engine may still say covers no more than it was active for; the
\* metrics follow mock-2's gate.
PhraseInv ==
  /\ activeFor \in Nat
  /\ ps \in PhraseStates
  /\ kind # "pump" /\ gate.active => at - ps.start <= activeFor
  /\ kind = "pump" \/ pc = "recv" => out = <<>>
  /\ sttState \in {"connected", "paused"}
  /\ PauseIsSilent

LEMMA PhraseInit == MockInit => PhraseInv
BY DEF MockInit, Init, PhraseInv, PhraseStates, newPhraseState, PauseIsSilent, NewGate

LEMMA PhraseNext == GateInvMock /\ PhraseInv /\ [MockNext]_mockVars => PhraseInv'
<1> SUFFICES ASSUME GateInvMock, PhraseInv, [MockNext]_mockVars PROVE PhraseInv'
  OBVIOUS
<1> USE DEF PhraseInv
<1>0. at \in Nat /\ heard \in Nat /\ gate.active \in BOOLEAN
  BY DEF GateInvMock, IInv, TypeOK, Gates
<1>1. ASSUME NEW d \in Chunks, NEW again \in BOOLEAN, Frame(d, again)
      PROVE  PhraseInv'
  <2> USE SourceAssumption
  <2>1. d \in Nat /\ d > 0
    OBVIOUS
  <2>2. pc = "recv" /\ kind' = kind
    BY <1>1 DEF Frame
  <2>3. activeFor' = IF gate.active /\ gate'.active THEN activeFor + d ELSE 0
    BY <1>1 DEF Frame, Remember
  <2>4. activeFor' \in Nat
    BY <2>1, <2>3
  <2>5. CASE MockFrame(d, again)
    <3>1. gate' = gate /\ gate.active /\ at' = IF again THEN d ELSE at + d
      BY <2>5 DEF MockFrame, GateInvMock
    <3>2. at' \in Nat /\ activeFor' = activeFor + d
      BY <1>0, <2>1, <2>3, <3>1
    <3>3. /\ ps' = step(ps, at').ps /\ out' = step(ps, at').out
          /\ pc' = "recv" => out' = <<>>
      BY <2>5 DEF MockFrame, Speak
    <3>4. /\ ps' \in PhraseStates /\ ps'.start \in {ps.start, at'}
          /\ out' # <<>> => out'[1].dur = at' - ps'.start
      BY <3>2, <3>3, StepIs
    <3>5. ps.start \in Nat /\ at - ps.start <= activeFor
      BY <2>5, <3>1 DEF MockFrame, PhraseStates
    <3>6. at' - ps'.start <= activeFor'
      BY <1>0, <2>1, <3>1, <3>2, <3>4, <3>5
    <3>7. kind = "mock" /\ sttState' = sttState /\ pauseOpen' = pauseOpen
      BY <2>5 DEF MockFrame
    <3>8. PauseIsSilent'
      BY <2>2, <3>1, <3>4, <3>6, <3>7 DEF PauseIsSilent
    <3> QED
      BY <2>2, <2>4, <3>1, <3>3, <3>4, <3>6, <3>7, <3>8
  <2>6. CASE Mock2Frame(d, again)
    <3>1. kind = "mock-2" /\ at' = IF again THEN d ELSE at + d
      BY <2>6 DEF Mock2Frame, Observe
    <3>2. at' \in Nat
      BY <1>0, <2>1, <3>1
    <3>3. sttState' \in {"connected", "paused"} /\ (sttState' = "paused" <=> ~gate'.active)
          /\ (pauseOpen' <=> sttState' = "paused")
      BY <2>6, <3>1 DEF Mock2Frame, PauseIsSilent
    <3>4. CASE gate'.active
      <4> DEFINE p == IF gate.active THEN ps ELSE restart(ps, at')
      <4>1. restart(ps, at') \in PhraseStates /\ restart(ps, at').start = at'
        BY <3>2, BeginIs DEF restart
      <4>2. p \in PhraseStates /\ p.start \in Nat
        BY <4>1 DEF PhraseStates
      <4>3. at' - p.start <= activeFor'
        <5>1. CASE gate.active
          BY <1>0, <2>1, <2>3, <3>1, <3>4, <4>2, <5>1
        <5>2. CASE ~gate.active
          BY <2>3, <3>2, <4>1, <5>2
        <5> QED BY <5>1, <5>2
      <4>4. /\ ps' = step(p, at').ps /\ out' = step(p, at').out
            /\ pc' = "recv" => out' = <<>>
        BY <2>6, <3>4 DEF Mock2Frame, Speak
      <4> HIDE DEF p
      <4>5. /\ ps' \in PhraseStates /\ ps'.start \in {p.start, at'}
            /\ out' # <<>> => out'[1].dur = at' - ps'.start
        BY <3>2, <4>2, <4>4, StepIs
      <4>6. at' - ps'.start <= activeFor'
        BY <2>4, <3>2, <4>2, <4>3, <4>5
      <4>7. PauseIsSilent'
        BY <2>2, <3>1, <3>3, <3>4, <4>5, <4>6 DEF PauseIsSilent
      <4> QED
        BY <2>2, <2>4, <3>1, <3>3, <4>4, <4>5, <4>6, <4>7
    <3>5. CASE ~gate'.active
      <4>1. ps' = ps /\ out' = out /\ pc' = pc
        BY <2>6, <3>5 DEF Mock2Frame, SaysNothing
      <4>2. out = <<>>
        BY <2>2
      <4>3. PauseIsSilent'
        BY <2>2, <3>1, <3>3, <3>5, <4>1, <4>2 DEF PauseIsSilent
      <4> QED
        BY <2>2, <2>4, <3>1, <3>3, <3>5, <4>1, <4>2, <4>3
    <3> QED BY <3>4, <3>5
  <2>7. ASSUME NEW loud \in BOOLEAN, PumpFrame(loud, d, again) PROVE PhraseInv'
    <3>1. kind = "pump" /\ UNCHANGED <<ps, out, sttState, pauseOpen>>
      BY <2>7 DEF PumpFrame, SaysNothing
    <3>2. PauseIsSilent'
      BY <2>2, <3>1 DEF PauseIsSilent
    <3> QED
      BY <2>2, <2>4, <3>1, <3>2
  <2> QED
    BY <1>1, <2>5, <2>6, <2>7 DEF Frame
<1>2. CASE Emit \/ Return
  BY <1>2 DEF Emit, Return, vars, PauseIsSilent
<1>3. CASE Cancel \/ Finished \/ UNCHANGED mockVars
  BY <1>3 DEF Cancel, Finished, mockVars, vars, PauseIsSilent
<1> QED
  BY <1>1, <1>2, <1>3 DEF MockNext

\* mock-2 says nothing in a pause, shows it as long as it lasts, and no phrase
\* covers audio from before the pause (PauseIsSilent).
THEOREM MocksPauseInSilence == MockSpec => []PauseIsSilent
<1>1. PhraseInv => PauseIsSilent
  BY DEF PhraseInv
<1> QED
  BY <1>1, GateMockInit, GateMockNext, PhraseInit, PhraseNext, PTL DEF MockSpec
-----------------------------------------------------------------------------
(* mock speaks on.                                                        *)

\* The phrase that the state machine works on at t: one that begins, or p.
Current(p, t) == IF p.inGap \/ (p.start = 0 /\ p.nextInterim = 0) THEN Begin(p, t) ELSE p

LEMMA BeginSpeaks ==
  ASSUME NEW p \in PhraseStates, NEW t \in Nat
  PROVE  ~Begin(p, t).inGap
BY Zenon DEF Begin, PhraseStates

LEMMA FinishRests ==
  ASSUME NEW p \in PhraseStates, NEW t \in Nat
  PROVE  /\ Finish(p, t).ps.inGap /\ Finish(p, t).ps.gapUntil = t + Gap
         /\ Finish(p, t).out # <<>> /\ Finish(p, t).out[1].final
<1> DEFINE over == t + Gap
           n == p.idx + 1
<1>1. Finish(p, t).ps = [p EXCEPT !.idx = n, !.inGap = TRUE, !.gapUntil = over]
  BY DEF Finish, PhraseStates
<1> HIDE DEF over, n
<1>2. Finish(p, t).ps = [idx |-> n, start |-> p.start, nextInterim |-> p.nextInterim,
                         words |-> p.words, inGap |-> TRUE, gapUntil |-> over]
  BY <1>1, Zenon DEF PhraseStates
<1>3. Finish(p, t).ps.inGap /\ Finish(p, t).ps.gapUntil = over
  BY <1>2
<1>4. Finish(p, t).out # <<>> /\ Finish(p, t).out[1].final
  BY DEF Finish
<1> QED
  BY <1>3, <1>4 DEF over

LEMMA RevealGoesOn ==
  ASSUME NEW p \in PhraseStates, NEW t \in Nat
  PROVE  /\ Reveal(p, t).ps.start = p.start
         /\ Reveal(p, t).ps.inGap <=> p.inGap
         /\ Reveal(p, t).out # <<>> => ~Reveal(p, t).out[1].final
<1> DEFINE want == (Words * (t - p.start)) \div Utterance
           next == t + Interim
           due  == [p EXCEPT !.nextInterim = next]
           shown == [due EXCEPT !.words = want]
<1>1. \/ Reveal(p, t) = [ps |-> p, out |-> <<>>]
      \/ Reveal(p, t) = [ps |-> due, out |-> <<>>]
      \/ Reveal(p, t) = [ps |-> shown, out |-> <<[final |-> FALSE, phrase |-> p.idx,
                            words |-> want, dur |-> t - p.start]>>]
  BY DEF Reveal
<1> HIDE DEF want, next
<1>2. due.start = p.start /\ shown.start = p.start
  BY DEF PhraseStates
<1>3. (due.inGap <=> p.inGap) /\ (shown.inGap <=> p.inGap)
  BY Zenon DEF PhraseStates
<1> HIDE DEF due, shown
<1> QED
  BY <1>1, <1>2, <1>3

\* One step: the gap lasts, the phrase is complete, or it goes on.
LEMMA StepMoves ==
  ASSUME NEW p \in PhraseStates, NEW t \in Nat
  PROVE  \/ /\ p.inGap /\ t < p.gapUntil
            /\ step(p, t).ps = p /\ step(p, t).out = <<>>
         \/ /\ step(p, t).ps.inGap /\ step(p, t).ps.gapUntil = t + Gap
            /\ step(p, t).out # <<>> /\ step(p, t).out[1].final
         \/ /\ ~(p.inGap /\ t < p.gapUntil)
            /\ t - Current(p, t).start < Utterance
            /\ step(p, t).ps.start = Current(p, t).start /\ ~step(p, t).ps.inGap
            /\ step(p, t).out # <<>> => ~step(p, t).out[1].final
<1> DEFINE q == Current(p, t)
<1>1. q \in PhraseStates /\ ~q.inGap
  BY BeginIs, BeginSpeaks DEF Current
<1>2. CASE p.inGap /\ t < p.gapUntil
  BY <1>2 DEF step
<1>3. CASE ~(p.inGap /\ t < p.gapUntil) /\ t - q.start >= Utterance
  <2>1. step(p, t) = Finish(q, t)
    BY <1>3 DEF step, Current
  <2> HIDE DEF q
  <2> QED
    BY <1>1, <2>1, FinishRests
<1>4. CASE ~(p.inGap /\ t < p.gapUntil) /\ ~(t - q.start >= Utterance)
  <2>1. step(p, t) = Reveal(q, t)
    BY <1>4 DEF step, Current
  <2>2. t - q.start < Utterance
    <3> HIDE DEF q
    <3> QED
      BY <1>1, <1>4, MockAssumption DEF PhraseStates
  <2>3. step(p, t).ps.start = q.start /\ ~step(p, t).ps.inGap
        /\ (step(p, t).out # <<>> => ~step(p, t).out[1].final)
    <3> HIDE DEF q
    <3> QED
      BY <1>1, <2>1, RevealGoesOn
  <2> QED
    BY <1>4, <2>2, <2>3
<1> QED
  BY <1>2, <1>3, <1>4

\* How long mock has been quiet, by where it is: the gap, the start, a phrase.
SpeakInv(longest) ==
  /\ spokeAt \in Nat
  /\ kind = "mock" /\ ~restarted =>
       \/ ps.inGap /\ at < ps.gapUntil /\ heard - spokeAt = at + Gap - ps.gapUntil
       \/ /\ ~ps.inGap /\ ps.start = 0 /\ ps.nextInterim = 0 /\ heard = spokeAt
       \/ /\ ~ps.inGap /\ ps.start > 0 /\ at - ps.start < Utterance
          /\ heard - spokeAt <= at - ps.start + Gap + longest

LEMMA SpeakInit == ASSUME NEW longest PROVE MockInit => SpeakInv(longest)
BY DEF MockInit, Init, SpeakInv, newPhraseState

LEMMA SpeakNext ==
  ASSUME NEW longest \in Chunks, \A d \in Chunks : d <= longest,
         GateInvMock, PhraseInv, SpeakInv(longest), [MockNext]_mockVars
  PROVE  SpeakInv(longest)'
<1>0. /\ at \in Nat /\ heard \in Nat /\ spokeAt \in Nat /\ longest \in Nat
      /\ ps \in PhraseStates /\ Gap \in Nat \ {0} /\ Utterance \in Nat \ {0}
  BY SourceAssumption, MockAssumption DEF GateInvMock, IInv, TypeOK, PhraseInv, SpeakInv
<1>1. ASSUME NEW d \in Chunks, NEW again \in BOOLEAN, Frame(d, again)
      PROVE  SpeakInv(longest)'
  <2> DEFINE spoke == out' # <<>> /\ out'[1].final
  <2>1. /\ d \in Nat \ {0} /\ d <= longest
        /\ spokeAt' = (IF spoke THEN heard' ELSE spokeAt)
        /\ restarted' <=> (~spoke /\ (restarted \/ again))
        /\ heard' = heard + d /\ kind' = kind
    BY <1>1, SourceAssumption DEF Frame, Remember, MockFrame, Mock2Frame, PumpFrame, Observe
  <2>2. spokeAt' \in Nat /\ heard' \in Nat
    BY <1>0, <2>1
  <2>3. CASE MockFrame(d, again)
    <3>1. /\ at' = (IF again THEN d ELSE at + d)
          /\ ps' = step(ps, at').ps /\ out' = step(ps, at').out
      BY <2>3 DEF MockFrame, Speak
    <3>2. at' \in Nat /\ at' > 0
      BY <1>0, <2>1, <3>1
    <3>3. CASE spoke /\ ps'.inGap /\ ps'.gapUntil = at' + Gap
      <4>1. heard' - spokeAt' = 0
        BY <2>1, <2>2, <3>3
      <4>2. at' < ps'.gapUntil /\ at' + Gap - ps'.gapUntil = 0
        <5>1. \A t, g \in Nat : g > 0 => t < t + g /\ t + g - (t + g) = 0
          OBVIOUS
        <5>2. Gap \in Nat /\ Gap > 0
          BY <1>0
        <5> QED
          BY <3>2, <3>3, <5>1, <5>2, Zenon
      <4> QED
        BY <2>2, <3>3, <4>1, <4>2 DEF SpeakInv
    <3>4. ASSUME ~spoke, ~restarted' PROVE ~restarted /\ at' = at + d /\ spokeAt' = spokeAt
      BY <2>1, <3>1, <3>4
    <3>5. CASE ps.inGap /\ at' < ps.gapUntil /\ ps' = ps /\ ~spoke
      <4>1. ~restarted' => heard' - spokeAt' = at' + Gap - ps.gapUntil
        <5> SUFFICES ASSUME ~restarted' PROVE heard' - spokeAt' = at' + Gap - ps.gapUntil
          OBVIOUS
        <5>1. ps.gapUntil \in Nat /\ heard - spokeAt = at + Gap - ps.gapUntil
          BY <1>0, <2>3, <3>4, <3>5 DEF SpeakInv, PhraseStates, MockFrame
        <5> QED
          BY <1>0, <2>1, <3>4, <3>5, <5>1
      <4> QED
        BY <2>2, <3>5, <4>1 DEF SpeakInv
    <3>6. CASE /\ ~(ps.inGap /\ at' < ps.gapUntil) /\ ~spoke /\ ~ps'.inGap
               /\ at' - Current(ps, at').start < Utterance
               /\ ps'.start = Current(ps, at').start
      <4>1. CASE ps.inGap \/ (ps.start = 0 /\ ps.nextInterim = 0)
        <5>1. ps'.start = at'
          BY <1>0, <3>2, <3>6, <4>1, BeginIs DEF Current
        <5>2. ASSUME ~restarted' PROVE heard' - spokeAt' <= Gap + longest
          <6>1. heard - spokeAt <= Gap
            <7>1. ps.gapUntil \in Nat
              BY <1>0 DEF PhraseStates
            <7> QED
              BY <1>0, <2>3, <3>4, <3>6, <4>1, <5>2, <7>1 DEF SpeakInv, MockFrame
          <6> QED
            BY <1>0, <2>1, <3>4, <3>6, <5>2, <6>1
        <5>3. at' - ps'.start = 0
          <6>1. \A t \in Nat : t - t = 0
            OBVIOUS
          <6> QED
            BY <3>2, <5>1, <6>1, Zenon
        <5>4. ~restarted' => heard' - spokeAt' <= at' - ps'.start + Gap + longest
          BY <1>0, <5>2, <5>3
        <5>5. ps'.start > 0 /\ at' - ps'.start < Utterance
          <6>1. ps'.start > 0
            BY <3>2, <5>1, Zenon
          <6>2. 0 < Utterance
            BY <1>0
          <6> QED
            BY <5>3, <6>1, <6>2, Zenon
        <5> QED
          BY <2>2, <3>6, <5>4, <5>5 DEF SpeakInv
      <4>2. CASE ~(ps.inGap \/ (ps.start = 0 /\ ps.nextInterim = 0))
        <5>1. ps'.start = ps.start /\ ps.start \in Nat
          BY <1>0, <3>6, <4>2 DEF Current, PhraseStates
        <5>2. ASSUME ~restarted'
              PROVE  ps.start > 0 /\ heard' - spokeAt' <= at' - ps.start + Gap + longest
          <6>1. ps.start > 0 /\ heard - spokeAt <= at - ps.start + Gap + longest
            BY <2>3, <3>4, <3>6, <4>2, <5>2 DEF SpeakInv, MockFrame
          <6> QED
            BY <1>0, <2>1, <3>4, <3>6, <5>1, <5>2, <6>1, SMTT(30)
        <5>3. at' - ps'.start < Utterance
          BY <3>6
        <5> QED
          BY <2>2, <3>6, <5>1, <5>2, <5>3 DEF SpeakInv
      <4> QED
        BY <4>1, <4>2
    <3> QED
      BY <1>0, <3>1, <3>2, <3>3, <3>5, <3>6, StepMoves
  <2>4. CASE kind # "mock"
    BY <2>1, <2>2, <2>4 DEF SpeakInv
  <2> QED
    BY <1>1, <2>3, <2>4 DEF Frame, Mock2Frame, PumpFrame
<1>2. CASE UNCHANGED <<vars, kind, ps, spokeAt, restarted>>
  BY <1>2 DEF SpeakInv, vars
<1> QED
  BY <1>1, <1>2 DEF MockNext, Emit, Return, Cancel, Finished, mockVars

\* mock speaks on: whatever the frames, between two finished phrases it takes
\* no more audio than a gap, an utterance and a frame for each, as long as the
\* media clock goes on (phraseState.step).  Frames have a longest length.
THEOREM MockSpeaksOn ==
  ASSUME \E longest \in Chunks : \A d \in Chunks : d <= longest
  PROVE  MockSpec => []SpeechIsContinuous
<1> DEFINE M == CHOOSE c \in Chunks : \A d \in Chunks : d <= c
<1>1. M \in Chunks /\ \A d \in Chunks : d <= M
  OBVIOUS
<1>2. GateInvMock /\ PhraseInv /\ SpeakInv(M) => SpeechIsContinuous
  <2> SUFFICES ASSUME GateInvMock, PhraseInv, SpeakInv(M), kind = "mock", ~restarted
               PROVE  heard - spokeAt <= Gap + Utterance + 2 * M
    BY DEF SpeechIsContinuous
  <2> HIDE DEF M
  <2>1. /\ at \in Nat /\ heard \in Nat /\ spokeAt \in Nat /\ M \in Nat
        /\ ps.start \in Nat /\ ps.gapUntil \in Nat /\ Gap \in Nat /\ Utterance \in Nat
    BY <1>1, SourceAssumption, MockAssumption
       DEF GateInvMock, IInv, TypeOK, PhraseInv, SpeakInv, PhraseStates
  <2> QED
    BY <2>1 DEF SpeakInv
<1> HIDE DEF M
<1>3. MockInit => SpeakInv(M)
  BY SpeakInit
<1>4. GateInvMock /\ PhraseInv /\ SpeakInv(M) /\ [MockNext]_mockVars => SpeakInv(M)'
  BY <1>1, SpeakNext
<1> QED
  BY <1>2, <1>3, <1>4, GateMockInit, GateMockNext, PhraseInit, PhraseNext, PTL DEF MockSpec
=============================================================================
