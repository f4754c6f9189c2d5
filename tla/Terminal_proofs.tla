---------------------------- MODULE Terminal_proofs ----------------------------
(***************************************************************************)
(* Proofs about the statistics and the terminal: for any clock, window and *)
(* number of operations, the pause clock shows the time that was paused,   *)
(* nothing is printed onto the status line, a snapshot's verdict has its   *)
(* reason in the snapshot, and its percentiles are those of the last       *)
(* delays.                                                                 *)
(***************************************************************************)
EXTENDS Terminal, TLAPS, WellFoundedInduction, FiniteSetTheorems

USE DEF NoTime

-----------------------------------------------------------------------------
(* The pause clock.                                                        *)

\* The clock is open exactly while the engine is in a pause, or ended in one.
PauseInv ==
  /\ now \in Nat /\ now > 0
  /\ sttPauseStart \in Nat /\ sttPauseStart <= now
  /\ sttPausedTotal \in Nat /\ paused \in Nat
  /\ sttPauseStart # 0 <=> engine \in {"paused", "endedPaused"}
  /\ PausedTimeIsTrue

LEMMA PauseInit == Init => PauseInv
BY DEF Init, MetricsInit, PauseInv, PausedTimeIsTrue, OpenPause

\* What a pause shows depends on these four, and on nothing the terminal does.
pauseClock == <<now, engine, sttPauseStart, sttPausedTotal, paused>>

LEMMA PauseStutter == PauseInv /\ UNCHANGED pauseClock => PauseInv'
BY DEF PauseInv, PausedTimeIsTrue, OpenPause, pauseClock

LEMMA EngineKeepsClock == PauseInv /\ Engine => PauseInv'
<1> SUFFICES ASSUME PauseInv, Engine PROVE PauseInv'
  OBVIOUS
<1>1. UNCHANGED <<now, paused>>
  BY DEF Engine
<1>2. CASE UNCHANGED <<sttPauseStart, sttPausedTotal>>
           /\ (engine' \in {"paused", "endedPaused"} <=> engine \in {"paused", "endedPaused"})
  BY <1>1, <1>2 DEF PauseInv, PausedTimeIsTrue, OpenPause
<1>3. CASE EngineMoves("pausing", "paused", sttState) /\ STTPauseBegin
  BY <1>1, <1>3 DEF PauseInv, PausedTimeIsTrue, OpenPause, EngineMoves, STTPauseBegin
<1>4. CASE EngineMoves("paused", "dialling", sttState) /\ STTPauseEnd
  BY <1>1, <1>4 DEF PauseInv, PausedTimeIsTrue, OpenPause, EngineMoves, STTPauseEnd
<1> QED
  BY <1>2, <1>3, <1>4 DEF Engine, EngineStep, EngineMoves

LEMMA PauseNext == PauseInv /\ [Next]_vars => PauseInv'
<1> SUFFICES ASSUME PauseInv, [Next]_vars PROVE PauseInv'
  OBVIOUS
<1>1. CASE Engine
  BY <1>1, EngineKeepsClock
<1>2. CASE Tick
  BY <1>2 DEF Tick, PauseInv, PausedTimeIsTrue, OpenPause, pauseVars
<1>3. ASSUME ~Engine, ~Tick PROVE UNCHANGED pauseClock
  <2> USE DEF pauseClock, metVars, pauseVars
  <2>1. CASE Stages
    BY <1>3, <2>1 DEF Stages, Degrade, ObserveLatency
  <2>2. CASE Caption \/ Log
    BY <2>2 DEF Caption, Log
  <2>3. CASE Status
    BY <2>3 DEF Status, TickerSnapshots, TickerDraws, TickerEnds, SnapshotStep
  <2>4. CASE Main
    BY <2>4 DEF Main, Banner, Ready, RunEnds, Closes, MainSnapshots, SnapshotStep,
                SummaryStops, SummaryPrints
  <2>5. CASE Exited \/ UNCHANGED vars
    BY <2>5 DEF Exited, vars
  <2> QED
    BY <2>1, <2>2, <2>3, <2>4, <2>5 DEF Next
<1> QED
  BY <1>1, <1>2, <1>3, PauseStutter

\* The pause clock shows the time spent in pauses, whatever their number and
\* wherever the engine ends (PausedTimeIsTrue).
THEOREM PauseClockIsTrue == Spec => []PausedTimeIsTrue
<1>1. PauseInv => PausedTimeIsTrue
  BY DEF PauseInv
<1> QED
  BY <1>1, PauseInit, PauseNext, PTL DEF Spec

-----------------------------------------------------------------------------
(* The status line.                                                        *)

\* A line is shown only where one can be; before the ticker runs there is no
\* text to show, and once the summary has stopped it none is shown.
LineInv ==
  /\ mode.json => ~mode.tty
  /\ statusShown => mode.tty /\ ~mode.quiet /\ ~stopped /\ statusText
  /\ statusText => ticker # "off"
  /\ main \in {"banner", "ready"} => ticker = "off"
  /\ main \in {"stopped", "exited"} => stopped
  /\ screen = "status" <=> statusShown
  /\ ~spoiled
  /\ statusShown \in BOOLEAN /\ stopped \in BOOLEAN /\ statusText \in BOOLEAN

\* JSON logging never meets a status line: Setup grants the line to pretty only.
LEMMA SetupIs ==
  ASSUME NEW isTTY \in BOOLEAN, NEW format, NEW quiet
  PROVE  Setup(isTTY, format, quiet).json => ~Setup(isTTY, format, quiet).tty
<1>1. CASE isTTY
  BY <1>1 DEF Setup
<1>2. CASE ~isTTY
  BY <1>2 DEF Setup
<1> QED
  BY <1>1, <1>2

LEMMA LineInit == Init => LineInv
<1> SUFFICES ASSUME Init PROVE LineInv
  OBVIOUS
<1>1. mode.json => ~mode.tty
  BY SetupIs, Zenon DEF Init
<1> QED
  BY <1>1 DEF Init, LineInv

\* hide, print, show keeps the line's owner in charge.
LEMMA PrintedAround == LineInv /\ PrintAround => ~spoiled' /\ (screen' = "status" <=> statusShown')
BY DEF LineInv, PrintAround, Spoils, Hidden, Shows

LEMMA LineNext == LineInv /\ [Next]_vars => LineInv'
<1> SUFFICES ASSUME LineInv, [Next]_vars PROVE LineInv'
  OBVIOUS
<1> USE DEF LineInv, termVars
<1>1. CASE Stages
  BY <1>1 DEF Stages
<1>2. CASE Caption
  BY <1>2, PrintedAround DEF Caption, PrintAround, Shows
<1>3. CASE Log
  <2>1. CASE mode.json
    BY <1>3, <2>1 DEF Log, PrintPlainly, Spoils
  <2>2. CASE ~mode.json
    BY <1>3, <2>2, PrintedAround DEF Log, PrintAround, Shows
  <2> QED
    BY <2>1, <2>2
<1>4. CASE Status
  <2>1. CASE TickerSnapshots \/ TickerEnds
    BY <2>1 DEF TickerSnapshots, TickerEnds
  <2>2. CASE TickerDraws
    BY <2>2 DEF TickerDraws, setStatus, Shows, Spoils, Hidden
  <2> QED
    BY <1>4, <2>1, <2>2 DEF Status
<1>5. CASE Main
  <2>1. CASE Banner
    BY <2>1 DEF Banner, MainMoves, PrintPlainly, Spoils
  <2>2. CASE Ready
    BY <2>2 DEF Ready, MainMoves, PrintPlainly, Spoils
  <2>3. CASE RunEnds \/ Closes \/ MainSnapshots
    BY <2>3 DEF RunEnds, Closes, MainSnapshots, MainMoves
  <2>4. CASE SummaryStops
    BY <2>4 DEF SummaryStops, MainMoves, StopStatus, Hidden
  <2>5. CASE SummaryPrints
    BY <2>5 DEF SummaryPrints, MainMoves, PrintPlainly, Spoils
  <2> QED
    BY <1>5, <2>1, <2>2, <2>3, <2>4, <2>5 DEF Main
<1>6. CASE Exited \/ UNCHANGED vars
  BY <1>6 DEF Exited, vars
<1> QED
  BY <1>1, <1>2, <1>3, <1>4, <1>5, <1>6 DEF Next

\* Whatever the order of ticks, captions, logs and shutdown, no line is printed
\* onto the status line, and none is drawn under the summary (LinesStandAlone).
THEOREM LinesAreWhole == Spec => []LinesStandAlone
<1>1. LineInv => LinesStandAlone
  BY DEF LineInv, LinesStandAlone
<1> QED
  BY <1>1, LineInit, LineNext, PTL DEF Spec

-----------------------------------------------------------------------------
(* The health a snapshot shows.                                            *)

\* A stamp has a counter or a failing transcript behind it: every goroutine
\* counts before it stamps, and no counter is ever reset.
StampInv ==
  /\ now \in Nat /\ lastDegradedAt \in Nat
  /\ count \in [Groups -> Nat] /\ unmarked \in [Groups -> Nat]
  /\ \A g \in Groups : unmarked[g] > 0 => count[g] > 0
  /\ lastDegradedAt # 0 => transcriptErr \/ \E g \in Groups : count[g] > 0

\* SetSTTState's argument.
States == {"idle", "connected", "paused", "closed"}

\* What a snapshot is once it has copied the locked fields.
Copies == [pc : {"pipeline", "state", "health", "web", "done"}, transErr : BOOLEAN,
           degradedAt : Nat, zero : BOOLEAN, state : States,
           health : {"ok", "degraded", "paused", "closed"}, at : Nat]

\* Groups a snapshot has yet to load.
Unloaded(s) ==
  IF s.pc = "pipeline" THEN Groups ELSE IF s.pc = "done" THEN {} ELSE {"web"}

\* The stamp a snapshot copied is explained by what it loaded, or will be by a
\* counter it has yet to load, of those that stand at c.
Explained(s, c) ==
  s.degradedAt # 0 =>
    \/ s.transErr
    \/ ~s.zero
    \/ \E g \in Unloaded(s) : c[g] > 0

Recent(s) == s.degradedAt # 0 /\ s.at - s.degradedAt <= Window

\* A verdict, once given, is that of the moment it was given.
Judged(s) ==
  /\ s.health = "degraded" => s.transErr \/ Recent(s)
  /\ s.health = "ok" => ~s.transErr /\ ~Recent(s)

Reading(s, c) ==
  /\ s \in Copies
  /\ Explained(s, c)
  /\ s.pc \in {"web", "done"} => Judged(s)

ReadInv ==
  /\ DOMAIN snap = Readers
  /\ \A r \in Readers : snap[r] = Unread \/ Reading(snap[r], count)

HealthInv == StampInv /\ transcriptErr \in BOOLEAN /\ sttState \in States /\ ReadInv

LEMMA HealthInit == Init => HealthInv
<1> SUFFICES ASSUME Init PROVE HealthInv
  OBVIOUS
<1>1. StampInv
  BY DEF Init, MetricsInit, StampInv
<1>2. ReadInv
  BY DEF Init, MetricsInit, ReadInv
<1>3. transcriptErr \in BOOLEAN
  BY DEF Init, MetricsInit
<1>4. sttState \in States
  BY DEF Init, MetricsInit, States
<1> QED
  BY <1>1, <1>2, <1>3, <1>4 DEF HealthInv

\* Counters only grow.
Grow(c, d) == \A g \in Groups : c[g] > 0 => d[g] > 0
CountsGrow == Grow(count, count')

LEMMA CountKeeps ==
  ASSUME StampInv, transcriptErr \in BOOLEAN, NEW h \in Groups, Count(h)
  PROVE  (StampInv /\ transcriptErr \in BOOLEAN)' \/ now' # now
<1> SUFFICES ASSUME now' = now PROVE (StampInv /\ transcriptErr \in BOOLEAN)'
  OBVIOUS
<1>1. /\ count' \in [Groups -> Nat] /\ unmarked' \in [Groups -> Nat]
      /\ \A g \in Groups : count'[g] = IF g = h THEN count[g] + 1 ELSE count[g]
      /\ \A g \in Groups : unmarked'[g] = IF g = h THEN unmarked[g] + 1 ELSE unmarked[g]
  BY DEF Count, StampInv
<1>2. \A g \in Groups : count[g] \in Nat
  BY DEF StampInv
<1> QED
  BY <1>1, <1>2 DEF Count, StampInv

LEMMA StampNext ==
  ASSUME StampInv, transcriptErr \in BOOLEAN, Degrade
  PROVE  (StampInv /\ transcriptErr \in BOOLEAN)' /\ CountsGrow
<1>0. now' = now /\ snap' = snap
  BY DEF Degrade
<1>1. CASE SetTranscriptError
  BY <1>0, <1>1 DEF SetTranscriptError, StampInv, CountsGrow, Grow
<1>2. ASSUME NEW h \in Groups, Count(h) PROVE (StampInv /\ transcriptErr \in BOOLEAN)' /\ CountsGrow
  <2>1. \A g \in Groups : count[g] \in Nat /\ count'[g] = IF g = h THEN count[g] + 1 ELSE count[g]
    BY <1>2 DEF Count, StampInv
  <2> QED
    BY <1>0, <1>2, <2>1, CountKeeps DEF CountsGrow, Grow
<1>3. ASSUME NEW h \in Groups, Mark(h) PROVE (StampInv /\ transcriptErr \in BOOLEAN)' /\ CountsGrow
  <2>1. /\ unmarked' \in [Groups -> Nat] /\ count' = count
        /\ \A g \in Groups : unmarked'[g] = IF g = h THEN unmarked[g] - 1 ELSE unmarked[g]
    BY <1>3 DEF Mark, StampInv
  <2>2. \A g \in Groups : unmarked[g] \in Nat
    BY DEF StampInv
  <2> QED
    BY <1>0, <1>3, <2>1, <2>2 DEF Mark, StampInv, CountsGrow, Grow
<1> QED
  BY <1>1, <1>2, <1>3 DEF Degrade

\* What a snapshot holds survives whatever the stages do meanwhile.
LEMMA ReadingKeeps ==
  ASSUME NEW s, NEW c, NEW d, Reading(s, c), Grow(c, d)
  PROVE  Reading(s, d)
<1>1. Unloaded(s) \subseteq Groups
  BY DEF Unloaded, Groups
<1> QED
  BY <1>1 DEF Reading, Explained, Grow

\* A reader alone takes steps of its snapshot.
Takes(r, s) == snap' = [snap EXCEPT ![r] = s]

LEMMA ReadTakes ==
  ASSUME ReadInv, NEW r, NEW s, Takes(r, s), CountsGrow,
         r \in Readers => s = Unread \/ Reading(s, count')
  PROVE  ReadInv'
<1>1. DOMAIN snap' = Readers
  BY DEF ReadInv, Takes
<1>2. ASSUME NEW q \in Readers PROVE snap'[q] = Unread \/ Reading(snap'[q], count')
  <2>1. CASE q = r
    BY <2>1 DEF Takes, ReadInv
  <2>2. CASE q # r
    <3>1. snap'[q] = snap[q]
      BY <2>2 DEF Takes, ReadInv
    <3>2. snap[q] = Unread \/ Reading(snap[q], count)
      BY DEF ReadInv
    <3> QED
      BY <3>1, <3>2, ReadingKeeps DEF CountsGrow
  <2> QED
    BY <2>1, <2>2
<1> QED
  BY <1>1, <1>2 DEF ReadInv

LEMMA ReadStutters == ReadInv /\ snap' = snap /\ CountsGrow => ReadInv'
<1> SUFFICES ASSUME ReadInv, snap' = snap, CountsGrow PROVE ReadInv'
  OBVIOUS
<1>1. ASSUME NEW q \in Readers PROVE snap'[q] = Unread \/ Reading(snap'[q], count')
  BY ReadingKeeps DEF ReadInv, CountsGrow
<1> QED
  BY <1>1 DEF ReadInv

\* Each step of a snapshot, of what it holds: a counter loaded as zero explains
\* nothing, but then another does.
LEMMA Loads ==
  ASSUME NEW s, NEW c, Reading(s, c), NEW g \in Groups, NEW next,
         s.pc = g, next = IF g = "pipeline" THEN "state" ELSE "done"
  PROVE  Reading([s EXCEPT !.pc = next, !.zero = @ /\ c[g] = 0], c)
<1> DEFINE t == [s EXCEPT !.pc = next, !.zero = @ /\ c[g] = 0]
<1>0. s \in Copies
  BY DEF Reading
<1>1. t \in Copies
  BY <1>0 DEF Copies, Groups
<1>2. t.pc = next /\ t.degradedAt = s.degradedAt /\ t.health = s.health /\ t.at = s.at
  BY <1>0 DEF Copies
<1>3. t.transErr = s.transErr
  BY <1>0, Zenon DEF Copies
<1>4. t.zero <=> s.zero /\ c[g] = 0
  BY <1>0, Zenon DEF Copies
<1> HIDE DEF t
<1>5. Explained(t, c)
  BY <1>2, <1>3, <1>4 DEF Reading, Explained, Unloaded, Groups
<1>6. t.pc \in {"web", "done"} => Judged(t)
  BY <1>2, <1>3 DEF Reading, Judged, Recent, Groups
<1> QED
  BY <1>1, <1>5, <1>6 DEF Reading, t

LEMMA Copying ==
  ASSUME HealthInv, NEW s,
         s = [pc |-> "pipeline", transErr |-> transcriptErr, degradedAt |-> lastDegradedAt,
              zero |-> TRUE, state |-> "idle", health |-> "ok", at |-> NoTime]
  PROVE  Reading(s, count)
<1>1. s \in Copies
  BY DEF HealthInv, StampInv, Copies, States
<1>2. s.pc = "pipeline" /\ s.degradedAt = lastDegradedAt
  OBVIOUS
<1>3. s.transErr = transcriptErr
  BY Zenon
<1>4. Explained(s, count)
  BY <1>2, <1>3 DEF Explained, Unloaded, HealthInv, StampInv
<1> QED
  BY <1>1, <1>2, <1>4 DEF Reading

\* The verdict: closed and paused say nothing of degradation.
LEMMA Judging ==
  ASSUME NEW s, NEW c, Reading(s, c), s.pc = "health", now \in Nat
  PROVE  Reading([s EXCEPT !.pc = "web", !.health = Verdict(s), !.at = now], c)
<1> DEFINE t == [s EXCEPT !.pc = "web", !.health = Verdict(s), !.at = now]
<1>0. s \in Copies
  BY DEF Reading
<1>1. Verdict(s) \in {"ok", "degraded", "paused", "closed"}
  BY <1>0 DEF Verdict
<1>2. t \in Copies
  BY <1>0, <1>1 DEF Copies
<1>3. t.pc = "web" /\ t.degradedAt = s.degradedAt /\ t.health = Verdict(s) /\ t.at = now
  BY <1>0 DEF Copies
<1>4. t.transErr = s.transErr
  BY <1>0, Zenon DEF Copies
<1>5. t.zero = s.zero
  BY <1>0, Zenon DEF Copies
<1> HIDE DEF t
<1>6. Explained(t, c)
  BY <1>3, <1>4, <1>5 DEF Reading, Explained, Unloaded
<1>7. Degraded(s) <=> t.transErr \/ Recent(t)
  BY <1>3, <1>4 DEF Degraded, Recent
<1>8. Judged(t)
  BY <1>3, <1>7 DEF Judged, Verdict
<1> QED
  BY <1>2, <1>6, <1>8 DEF Reading, t

LEMMA StateLoads ==
  ASSUME HealthInv, NEW s, NEW c, Reading(s, c), s.pc = "state"
  PROVE  Reading([s EXCEPT !.pc = "health", !.state = sttState], c)
<1> DEFINE t == [s EXCEPT !.pc = "health", !.state = sttState]
<1>0. s \in Copies
  BY DEF Reading
<1>1. t \in Copies
  BY <1>0 DEF Copies, HealthInv
<1>2. t.pc = "health" /\ t.degradedAt = s.degradedAt
  BY <1>0 DEF Copies
<1>3. t.transErr = s.transErr
  BY <1>0, Zenon DEF Copies
<1>4. t.zero = s.zero
  BY <1>0, Zenon DEF Copies
<1> HIDE DEF t
<1>5. Explained(t, c)
  BY <1>2, <1>3, <1>4 DEF Reading, Explained, Unloaded
<1> QED
  BY <1>1, <1>2, <1>5 DEF Reading, t

LEMMA SnapshotKeeps ==
  ASSUME HealthInv, NEW r, SnapshotStep(r)
  PROVE  ReadInv'
<1> DEFINE s == snap[r]
<1>0. count' = count /\ now' = now
  BY DEF SnapshotStep, degVars
<1>1. CountsGrow
  BY <1>0 DEF CountsGrow, Grow
<1>2. ASSUME NEW t, Takes(r, t), r \in Readers => Reading(t, count) PROVE ReadInv'
  BY <1>0, <1>1, <1>2, ReadTakes DEF HealthInv
<1>3. ASSUME r \in Readers, s.pc # "none" PROVE Reading(s, count)
  BY <1>3 DEF HealthInv, ReadInv, Unread
<1>4. CASE CopyLocked(r)
  BY <1>2, <1>4, Copying DEF CopyLocked, Takes
<1>5. ASSUME NEW g, NEW next, LoadCounters(r, g, next),
             \/ g = "pipeline" /\ next = "state"
             \/ g = "web" /\ next = "done"
      PROVE  ReadInv'
  <2> DEFINE t == [s EXCEPT !.pc = next, !.zero = @ /\ count[g] = 0]
  <2>1. g \in Groups /\ next = IF g = "pipeline" THEN "state" ELSE "done"
    BY <1>5 DEF Groups
  <2>2. r \in Readers => Reading(t, count)
    BY <1>3, <1>5, <2>1, Loads DEF LoadCounters, Groups
  <2>3. Takes(r, t)
    BY <1>5 DEF LoadCounters, Takes
  <2> QED
    BY <1>2, <2>2, <2>3
<1>6. CASE LoadState(r)
  <2>1. r \in Readers => Reading([s EXCEPT !.pc = "health", !.state = sttState], count)
    BY <1>3, <1>6, StateLoads DEF LoadState
  <2>2. Takes(r, [s EXCEPT !.pc = "health", !.state = sttState])
    BY <1>6 DEF LoadState, Takes
  <2> QED
    BY <1>2, <2>1, <2>2
<1>7. CASE ResolveHealth(r)
  <2> DEFINE t == [s EXCEPT !.pc = "web", !.health = Verdict(s), !.at = now]
  <2>1. r \in Readers => Reading(t, count)
    BY <1>3, <1>7, Judging DEF ResolveHealth, HealthInv, StampInv
  <2>2. Takes(r, t)
    BY <1>7 DEF ResolveHealth, Takes
  <2> QED
    BY <1>2, <2>1, <2>2
<1> QED
  BY <1>4, <1>5, <1>6, <1>7 DEF SnapshotStep

\* Everything health is decided from, but for the snapshots and the clock.
LEMMA HealthKeeps ==
  ASSUME HealthInv, now' \in Nat, UNCHANGED degVars, sttState' \in States, ReadInv'
  PROVE  HealthInv'
<1>1. (StampInv /\ transcriptErr \in BOOLEAN)'
  BY DEF HealthInv, StampInv, degVars
<1> QED
  BY <1>1 DEF HealthInv

LEMMA HealthStutters ==
  ASSUME HealthInv, now' \in Nat, UNCHANGED <<degVars, snap>>, sttState' \in States
  PROVE  HealthInv'
<1>1. CountsGrow
  BY DEF CountsGrow, Grow, degVars
<1> QED
  BY <1>1, ReadStutters, HealthKeeps DEF HealthInv

LEMMA HealthNext == HealthInv /\ [Next]_vars => HealthInv'
<1> SUFFICES ASSUME HealthInv, [Next]_vars PROVE HealthInv'
  OBVIOUS
<1>0. now \in Nat /\ sttState \in States
  BY DEF HealthInv, StampInv
<1>1. CASE Degrade
  <2>1. (StampInv /\ transcriptErr \in BOOLEAN)' /\ CountsGrow
    BY <1>1, StampNext DEF HealthInv
  <2>2. snap' = snap /\ sttState' = sttState
    BY <1>1 DEF Degrade, pauseVars
  <2> QED
    BY <1>0, <2>1, <2>2, ReadStutters DEF HealthInv
<1>2. CASE Tick
  BY <1>0, <1>2, HealthStutters DEF Tick, pauseVars
<1>3. CASE Engine
  <2>1. sttState' \in States
    BY <1>0, <1>3 DEF Engine, EngineStep, EngineMoves, SetSTTState, States
  <2> QED
    BY <1>0, <1>3, <2>1, HealthStutters DEF Engine
<1>4. CASE TickerDraws
  <2>1. Takes("status", Unread)
    BY <1>4 DEF TickerDraws, Takes
  <2>2. CountsGrow
    BY <1>4 DEF TickerDraws, CountsGrow, Grow, degVars
  <2>3. ReadInv'
    BY <2>1, <2>2, ReadTakes DEF HealthInv
  <2> QED
    BY <1>0, <1>4, <2>3, HealthKeeps DEF TickerDraws, pauseVars
<1>5. ASSUME NEW r, SnapshotStep(r) PROVE HealthInv'
  <2>1. ReadInv'
    BY <1>5, SnapshotKeeps
  <2>2. now' = now /\ UNCHANGED degVars /\ sttState' = sttState
    BY <1>5 DEF SnapshotStep, pauseVars
  <2> QED
    BY <1>0, <2>1, <2>2, HealthKeeps
<1>6. CASE Closes
  BY <1>0, <1>6, HealthStutters DEF Closes, SetSTTState, States
<1>7. CASE UNCHANGED metVars
  BY <1>0, <1>7, HealthStutters DEF metVars, pauseVars
<1>8. ASSUME NEW d, ObserveLatency(d) PROVE HealthInv'
  BY <1>0, <1>8, HealthStutters DEF ObserveLatency, pauseVars
<1>9. CASE Stages
  BY <1>1, <1>2, <1>3, <1>8, <1>9 DEF Stages
<1>10. CASE Status
  BY <1>4, <1>5, <1>7, <1>10 DEF Status, TickerSnapshots, TickerEnds
<1>11. CASE Main
  BY <1>5, <1>6, <1>7, <1>11 DEF Main, Banner, Ready, RunEnds, MainSnapshots,
                                 SummaryStops, SummaryPrints
<1>12. CASE Caption \/ Log
  BY <1>7, <1>12 DEF Caption, Log
<1>13. CASE Exited \/ UNCHANGED vars
  BY <1>7, <1>13 DEF Exited, vars
<1> QED
  BY <1>9, <1>10, <1>11, <1>12, <1>13 DEF Next

\* Whoever counts, stamps and reads in whatever order, a finished snapshot's
\* verdict has its reason in the same snapshot (HealthTellsTheTruth).
THEOREM HealthIsExplained == Spec => []HealthTellsTheTruth
<1>1. HealthInv => HealthTellsTheTruth
  <2> SUFFICES ASSUME HealthInv, NEW r \in Readers, snap[r].pc = "done"
      PROVE  LET s == snap[r]
                 recent == s.degradedAt # NoTime /\ s.at - s.degradedAt <= Window
             IN  /\ s.health = "degraded" => ~Clean(s) /\ (s.transErr \/ recent)
                 /\ s.health = "ok" => ~s.transErr /\ ~recent
    BY Zenon DEF HealthTellsTheTruth
  <2>1. Reading(snap[r], count)
    BY DEF HealthInv, ReadInv, Unread
  <2> DEFINE s == snap[r]
  <2>2. Reading(s, count) /\ s.pc = "done"
    BY <2>1
  <2> HIDE DEF s
  <2>3. Judged(s) /\ Explained(s, count) /\ Unloaded(s) = {}
    BY <2>2 DEF Reading, Unloaded
  <2>4. s.degradedAt # 0 => s.transErr \/ ~s.zero
    BY <2>3 DEF Explained
  <2> QED
    BY <2>3, <2>4 DEF Judged, Recent, Clean, s
<1> QED
  BY <1>1, HealthInit, HealthNext, PTL DEF Spec

-----------------------------------------------------------------------------
(* Sorting, and what a percentile is.  Induction is on the least           *)
(* counterexample: a set of natural numbers that is not empty has one.     *)

LEMMA Smallest ==
  ASSUME NEW S \in SUBSET Nat, S # {}
  PROVE  \E m \in S : \A j \in S : ~(j < m)
<1>1. PICK m \in S : \A j \in S : ~ (<<j, m>> \in OpToRel(<, Nat))
  BY NatLessThanWellFounded, WFMin
<1>2. \A j \in S : <<j, m>> \in OpToRel(<, Nat) <=> j < m
  BY DEF OpToRel
<1> QED BY <1>1, <1>2, Zenon

IsLargest(s, n, m) == m \in 1..n /\ \A i \in 1..n : s[i] <= s[m]

LEMMA LargestExists ==
  ASSUME NEW n \in Nat \ {0}, NEW s \in [1..n -> Int]
  PROVE  \E m : IsLargest(s, n, m)
<1> DEFINE T == {k \in Nat : k # 0 /\ \E r \in [1..k -> Int] : \A m : ~IsLargest(r, k, m)}
<1> SUFFICES ASSUME T # {} PROVE FALSE
  OBVIOUS
<1>1. PICK k \in T : \A j \in T : ~(j < k)
  BY Smallest
<1>2. PICK r \in [1..k -> Int] : \A m : ~IsLargest(r, k, m)
  BY <1>1
<1>3. k \in Nat \ {0}
  BY <1>1
<1>4. k # 1
  <2>1. k = 1 => IsLargest(r, k, 1)
    BY DEF IsLargest
  <2> QED
    BY <1>2, <2>1
<1>5. k - 1 \in Nat /\ k - 1 # 0 /\ k - 1 < k
  BY <1>3, <1>4
<1>6. k - 1 \notin T
  BY <1>1, <1>5
<1> DEFINE q == [i \in 1..(k - 1) |-> r[i]]
<1>7. q \in [1..(k - 1) -> Int]
  BY <1>3
<1>8. PICK m : IsLargest(q, k - 1, m)
  BY <1>5, <1>6, <1>7
<1>9. m \in 1..k /\ k \in 1..k /\ r[m] \in Int /\ r[k] \in Int
      /\ \A i \in 1..(k - 1) : r[i] \in Int /\ r[i] <= r[m]
  BY <1>3, <1>8 DEF IsLargest
<1>10. \A i \in 1..k : i = k \/ i \in 1..(k - 1)
  BY <1>3
<1>11. IsLargest(r, k, m) \/ IsLargest(r, k, k)
  <2>1. CASE r[k] <= r[m]
    BY <1>9, <1>10, <2>1 DEF IsLargest
  <2>2. CASE r[m] <= r[k]
    <3>1. \A a, b, c \in Int : a <= b /\ b <= c => a <= c
      OBVIOUS
    <3>2. \A i \in 1..(k - 1) : r[i] <= r[k]
      BY <1>9, <2>2, <3>1
    <3>3. r[k] <= r[k]
      BY <1>9
    <3> QED
      BY <1>9, <1>10, <3>2, <3>3 DEF IsLargest
  <2> QED
    BY <1>9, <2>1, <2>2
<1> QED
  BY <1>2, <1>11

\* p puts the n delays of s into ascending order.
Sorts(p, s, n) ==
  /\ p \in [1..n -> 1..n]
  /\ \A i, j \in 1..n : p[i] = p[j] => i = j
  /\ \A i, j \in 1..n : i < j => s[p[i]] <= s[p[j]]

\* Put the largest last, and the last in its place.
LEMMA SortExists ==
  ASSUME NEW n \in Nat, NEW s \in [1..n -> Int]
  PROVE  \E p : Sorts(p, s, n)
<1> DEFINE T == {k \in Nat : \E r \in [1..k -> Int] : \A p : ~Sorts(p, r, k)}
<1> SUFFICES ASSUME T # {} PROVE FALSE
  OBVIOUS
<1>1. PICK k \in T : \A j \in T : ~(j < k)
  BY Smallest
<1>2. PICK r \in [1..k -> Int] : \A p : ~Sorts(p, r, k)
  BY <1>1
<1>3. k \in Nat
  BY <1>1
<1>4. k # 0
  <2>1. k = 0 => Sorts([i \in 1..0 |-> i], r, k)
    BY DEF Sorts
  <2> QED
    BY <1>2, <2>1
<1>5. k - 1 \in Nat /\ k - 1 < k
  BY <1>3, <1>4
<1>6. k - 1 \notin T
  BY <1>1, <1>5
<1>7. PICK m : IsLargest(r, k, m)
  BY <1>3, <1>4, LargestExists
<1> DEFINE q == [i \in 1..(k - 1) |-> IF i = m THEN r[k] ELSE r[i]]
<1>8. q \in [1..(k - 1) -> Int]
  BY <1>3, <1>4
<1>9. PICK p : Sorts(p, q, k - 1)
  BY <1>5, <1>6, <1>8
<1> DEFINE h == [i \in 1..k |-> IF i = k THEN m ELSE IF p[i] = m THEN k ELSE p[i]]
<1>10. \A i \in 1..k : i = k \/ i \in 1..(k - 1)
  BY <1>3
<1>11. /\ m \in 1..k /\ k \in 1..k
       /\ \A i \in 1..(k - 1) : i \in 1..k /\ i # k /\ p[i] \in 1..(k - 1)
  <2>1. p \in [1..(k - 1) -> 1..(k - 1)]
    BY <1>9 DEF Sorts
  <2>2. \A i \in 1..(k - 1) : p[i] \in 1..(k - 1)
    BY <2>1
  <2>3. \A i \in 1..(k - 1) : i \in 1..k /\ i # k
    BY <1>3
  <2> QED
    BY <1>3, <1>4, <1>7, <2>2, <2>3 DEF IsLargest
<1>12. h \in [1..k -> 1..k]
  BY <1>10, <1>11
<1>13. \A i \in 1..(k - 1) : h[i] = IF p[i] = m THEN k ELSE p[i]
  BY <1>11
<1>14. h[k] = m
  BY <1>11
<1>15. \A i \in 1..(k - 1) : h[i] # m /\ r[h[i]] = q[p[i]]
  BY <1>11, <1>13
<1> HIDE DEF h, q
<1>16. ASSUME NEW i \in 1..k, NEW j \in 1..k, h[i] = h[j] PROVE i = j
  <2>1. CASE i = k \/ j = k
    BY <1>10, <1>14, <1>15, <1>16, <2>1
  <2>2. CASE i \in 1..(k - 1) /\ j \in 1..(k - 1)
    <3>1. p[i] = p[j]
      BY <1>11, <1>13, <1>16, <2>2
    <3> QED
      BY <1>9, <2>2, <3>1 DEF Sorts
  <2> QED
    BY <1>10, <2>1, <2>2
<1>17. ASSUME NEW i \in 1..k, NEW j \in 1..k, i < j PROVE r[h[i]] <= r[h[j]]
  <2>1. i \in 1..(k - 1)
    BY <1>3, <1>17
  <2>2. CASE j = k
    BY <1>7, <1>12, <1>14, <2>2 DEF IsLargest
  <2>3. CASE j \in 1..(k - 1)
    BY <1>9, <1>15, <1>17, <2>1, <2>3 DEF Sorts
  <2> QED
    BY <1>10, <2>2, <2>3
<1>18. Sorts(h, r, k)
  BY <1>12, <1>16, <1>17 DEF Sorts
<1> QED
  BY <1>2, <1>18

\* An injection of a finite interval into itself hits all of it.
LEMMA Onto ==
  ASSUME NEW n \in Nat, NEW p \in [1..n -> 1..n], \A i, j \in 1..n : p[i] = p[j] => i = j
  PROVE  p \in Bijection(1..n, 1..n) /\ \A v \in 1..n : \E i \in 1..n : p[i] = v
<1>1. p \in Injection(1..n, 1..n)
  BY DEF Injection, IsInjective
<1>2. IsFiniteSet(1..n)
  BY FS_Interval
<1>3. p \in Surjection(1..n, 1..n)
  BY <1>1, <1>2, FS_Injection
<1> QED
  BY <1>1, <1>3 DEF Bijection, Surjection

SortsTo(o, s, t, n) == Sorts(o, s, n) /\ t = [i \in 1..n |-> s[o[i]]]

\* What Sorted computes.
LEMMA SortedIs ==
  ASSUME NEW s \in Seq(Int)
  PROVE  \E p : SortsTo(p, s, Sorted(s), Len(s))
<1> DEFINE n == Len(s)
           D == DOMAIN s
           Good(p) == p \in Bijection(D, D) /\ \A i, j \in D : i < j => s[p[i]] <= s[p[j]]
           order == CHOOSE p \in Bijection(D, D) : \A i, j \in D : i < j => s[p[i]] <= s[p[j]]
<1>1. n \in Nat /\ D = 1..n /\ s \in [1..n -> Int]
  OBVIOUS
<1>2. PICK p : Sorts(p, s, n)
  <2> HIDE DEF n
  <2> QED
    BY <1>1, SortExists
<1>3. p \in Bijection(D, D)
  <2> HIDE DEF n, D
  <2> QED
    BY <1>1, <1>2, Onto DEF Sorts
<1>4. \A i, j \in D : i < j => s[p[i]] <= s[p[j]]
  BY <1>1, <1>2 DEF Sorts
<1>5. order \in Bijection(D, D) /\ \A i, j \in D : i < j => s[order[i]] <= s[order[j]]
  <2> HIDE DEF D
  <2> QED
    BY <1>3, <1>4
<1>6. Sorted(s) = [i \in D |-> s[order[i]]]
  BY DEF Sorted
<1> HIDE DEF order
<1>7. Sorts(order, s, n)
  BY <1>1, <1>5 DEF Sorts, Bijection, Injection, IsInjective, Surjection
<1> QED
  BY <1>1, <1>6, <1>7 DEF SortsTo

\* t holds the n delays of r in the order q.
Reorders(q, t, r, n) ==
  /\ q \in [1..n -> 1..n]
  /\ \A i, j \in 1..n : q[i] = q[j] => i = j
  /\ \A i \in 1..n : t[i] = r[q[i]]

Ascends(t, n) == \A i, j \in 1..n : i < j => t[i] <= t[j]

Below(r, n, x) == {i \in 1..n : r[i] < x}
UpTo(r, n, x)  == {i \in 1..n : r[i] <= x}

\* x is the k-th of the n delays r: fewer than k are shorter, k no longer.
IsRank(r, n, x, k) ==
  /\ Cardinality(Below(r, n, x)) \in Nat /\ Cardinality(Below(r, n, x)) <= k - 1
  /\ Cardinality(UpTo(r, n, x)) \in Nat /\ Cardinality(UpTo(r, n, x)) >= k

\* So is the k-th of n ascending delays t, the same as r in another order.
LEMMA Rank ==
  ASSUME NEW n \in Nat, NEW r \in [1..n -> Int], NEW t \in [1..n -> Int],
         NEW q, Reorders(q, t, r, n), Ascends(t, n), NEW k \in 1..n
  PROVE  IsRank(r, n, t[k], k)
<1> DEFINE A == {i \in 1..n : r[i] < t[k]}
           B == {i \in 1..n : r[i] <= t[k]}
           S == {j \in 1..n : t[j] < t[k]}
<1>0. /\ q \in [1..n -> 1..n]
      /\ \A i, j \in 1..n : q[i] = q[j] => i = j
      /\ \A i \in 1..n : t[i] = r[q[i]]
      /\ \A i, j \in 1..n : i < j => t[i] <= t[j]
  BY DEF Reorders, Ascends
<1>1. IsFiniteSet(1..n) /\ IsFiniteSet(1..(k - 1)) /\ IsFiniteSet(1..k)
      /\ Cardinality(1..(k - 1)) = k - 1 /\ Cardinality(1..k) = k
  <2>1. k \in Int /\ k - 1 \in Int /\ n \in Int /\ 1 \in Int
    OBVIOUS
  <2>2. Cardinality(1..(k - 1)) = IF 1 > k - 1 THEN 0 ELSE (k - 1) - 1 + 1
    BY <2>1, FS_Interval
  <2>3. Cardinality(1..k) = IF 1 > k THEN 0 ELSE k - 1 + 1
    BY <2>1, FS_Interval
  <2> QED
    BY <2>1, <2>2, <2>3, FS_Interval
<1>2. IsFiniteSet(A) /\ IsFiniteSet(B) /\ IsFiniteSet(S)
  BY <1>1, FS_Subset
<1>3. S \subseteq 1..(k - 1)
  <2> SUFFICES ASSUME NEW j \in 1..n, t[j] < t[k] PROVE j \in 1..(k - 1)
    OBVIOUS
  <2>1. ~(k < j)
    <3>1. k < j => t[k] <= t[j]
      BY <1>0
    <3>2. t[k] \in Int /\ t[j] \in Int
      OBVIOUS
    <3> QED
      BY <3>1, <3>2
  <2>2. j # k
    <3>1. t[k] \in Int
      OBVIOUS
    <3> QED
      BY <3>1
  <2> QED
    BY <2>1, <2>2
<1>4. Cardinality(A) <= k - 1
  <2> DEFINE f == [j \in S |-> q[j]]
  <2>1. f \in [S -> A]
    BY <1>0
  <2>2. \A i \in A : \E j \in S : f[j] = i
    <3> SUFFICES ASSUME NEW i \in A PROVE \E j \in S : f[j] = i
      OBVIOUS
    <3>0. \A v \in 1..n : \E j \in 1..n : q[j] = v
      BY <1>0, Onto, Zenon
    <3>1. PICK j \in 1..n : q[j] = i
      BY <3>0
    <3>2. j \in S
      BY <1>0, <3>1
    <3> QED
      BY <3>1, <3>2
  <2>3. f \in Surjection(S, A)
    BY <2>1, <2>2 DEF Surjection
  <2>4. Cardinality(A) <= Cardinality(S)
    BY <1>2, <2>3, FS_Surjection
  <2>5. Cardinality(S) <= k - 1
    BY <1>1, <1>3, FS_Subset
  <2>6. Cardinality(A) \in Nat /\ Cardinality(S) \in Nat
    BY <1>2, FS_CardinalityType
  <2> HIDE DEF A, S
  <2> QED
    BY <2>4, <2>5, <2>6
<1>5. Cardinality(B) >= k
  <2> DEFINE f == [j \in 1..k |-> q[j]]
  <2>1. \A j \in 1..k : j \in 1..n /\ t[j] <= t[k]
    <3> SUFFICES ASSUME NEW j \in 1..k PROVE j \in 1..n /\ t[j] <= t[k]
      OBVIOUS
    <3>1. j \in 1..n /\ (j < k => t[j] <= t[k])
      BY <1>0
    <3>2. t[k] \in Int /\ (j = k \/ j < k)
      OBVIOUS
    <3>3. t[k] <= t[k]
      BY <3>2
    <3> QED
      BY <3>1, <3>2, <3>3
  <2>2. f \in [1..k -> B]
    BY <1>0, <2>1
  <2>3. f \in Injection(1..k, B)
    BY <1>0, <2>1, <2>2 DEF Injection, IsInjective
  <2>4. Cardinality(1..k) <= Cardinality(B)
    BY <1>2, <2>3, FS_Injection
  <2> HIDE DEF B
  <2> QED
    BY <1>1, <1>2, <2>4, FS_CardinalityType
<1> QED
  BY <1>2, <1>4, <1>5, FS_CardinalityType DEF IsRank, Below, UpTo

LEMMA RankSorted ==
  ASSUME NEW n \in Nat, NEW r \in [1..n -> Int], NEW s \in [1..n -> Int],
         NEW g, Reorders(g, s, r, n),
         NEW o, NEW t, SortsTo(o, s, t, n),
         NEW k \in 1..n
  PROVE  t \in [1..n -> Int] /\ IsRank(r, n, t[k], k)
<1> DEFINE q == [j \in 1..n |-> g[o[j]]]
<1>1. o \in [1..n -> 1..n] /\ \A j, l \in 1..n : o[j] = o[l] => j = l
  BY DEF SortsTo, Sorts
<1>2. /\ g \in [1..n -> 1..n] /\ \A j, l \in 1..n : g[j] = g[l] => j = l
      /\ \A i \in 1..n : s[i] = r[g[i]]
  BY DEF Reorders
<1>3. \A j \in 1..n : o[j] \in 1..n /\ g[o[j]] \in 1..n /\ q[j] = g[o[j]]
  BY <1>1, <1>2
<1>4. q \in [1..n -> 1..n]
  BY <1>3
<1>5. \A j \in 1..n : t[j] = s[o[j]] /\ s[o[j]] \in Int
  BY <1>3 DEF SortsTo
<1>6. t \in [1..n -> Int]
  BY <1>5 DEF SortsTo
<1> HIDE DEF q
<1>7. \A j, l \in 1..n : q[j] = q[l] => j = l
  BY <1>1, <1>2, <1>3
<1>8. ASSUME NEW j \in 1..n PROVE t[j] = r[q[j]]
  <2>1. s[o[j]] = r[g[o[j]]]
    BY <1>2, <1>3
  <2> QED
    BY <1>3, <1>5, <2>1
<1>9. Reorders(q, t, r, n)
  BY <1>4, <1>7, <1>8 DEF Reorders
<1>10. Ascends(t, n)
  BY <1>5 DEF SortsTo, Sorts, Ascends
<1> QED
  BY <1>6, <1>9, <1>10, Rank

\* The index percentile takes, rounded down from zero.
LEMMA PercentIs ==
  ASSUME NEW n \in Nat \ {0}, NEW p \in {50, 95}
  PROVE  /\ (p * n) \div 100 \in Nat /\ (p * n) \div 100 < n
         /\ ((p * n) \div 100) * 100 <= p * n /\ ((p * n) \div 100 + 1) * 100 > p * n
<1>1. CASE p = 50
  BY <1>1
<1>2. CASE p = 95
  BY <1>2
<1> QED
  BY <1>1, <1>2

LEMMA KthIs ==
  ASSUME NEW s \in Seq(Int), NEW r \in Seq(Int), Len(s) = Len(r),
         NEW g, Reorders(g, s, r, Len(s)), NEW k \in 1..Len(s)
  PROVE  Sorted(s) \in [1..Len(s) -> Int] /\ IsRank(r, Len(s), Sorted(s)[k], k)
<1>1. PICK o : SortsTo(o, s, Sorted(s), Len(s))
  BY SortedIs
<1>2. Len(s) \in Nat /\ r \in [1..Len(s) -> Int] /\ s \in [1..Len(s) -> Int]
  OBVIOUS
<1> QED
  BY <1>1, <1>2, RankSorted

\* The percentile of a sequence is that of any other with the same delays.
LEMMA PercentileIs ==
  ASSUME NEW s \in Seq(Int), NEW r \in Seq(Int), Len(s) = Len(r), Len(s) # 0,
         NEW g, Reorders(g, s, r, Len(s)), NEW p \in {50, 95}
  PROVE  IsPercentile(percentile(Sorted(s), p), r, p)
<1> DEFINE n == Len(s)
           t == Sorted(s)
           i == (p * n) \div 100
           k == i + 1
           A == Below(r, n, t[k])
           B == UpTo(r, n, t[k])
<1>0. n \in Nat \ {0} /\ s \in [1..n -> Int] /\ r \in [1..n -> Int] /\ DOMAIN r = 1..n
  OBVIOUS
<1>2. i \in Nat /\ i < n /\ i * 100 <= p * n /\ (i + 1) * 100 > p * n
  <2> HIDE DEF n
  <2> QED
    BY <1>0, PercentIs
<1>3. k \in 1..n
  <2> HIDE DEF i, n
  <2> QED
    BY <1>0, <1>2
<1>5. t \in [1..n -> Int] /\ IsRank(r, n, t[k], k)
  <2> HIDE DEF k
  <2> QED
    BY <1>3, KthIs
<1> HIDE DEF t, n, k, i
<1>6. t \in Seq(Int) /\ Len(t) = n
  BY <1>0, <1>5
<1>9. percentile(t, p) = t[k]
  BY <1>2, <1>6, SMTT(30) DEF percentile, k, i, n
<1>10. HowMany(r, LAMBDA y : y < t[k]) = Cardinality(A)
  BY <1>0 DEF HowMany, Below, UpTo
<1>11. HowMany(r, LAMBDA y : y <= t[k]) = Cardinality(B)
  BY <1>0 DEF HowMany, Below, UpTo
<1>12. Len(r) = n /\ p \in Nat
  BY DEF n
<1> HIDE DEF A, B
<1>13. Cardinality(A) * 100 <= p * n /\ Cardinality(B) * 100 > p * n
  <2> DEFINE a == Cardinality(A)
             b == Cardinality(B)
             m == p * n
  <2>1. m \in Nat
    BY <1>0, <1>12
  <2>2. a \in Nat /\ b \in Nat /\ a <= i /\ b >= i + 1
    BY <1>2, <1>5 DEF k, IsRank, A, B
  <2>3. i * 100 <= m /\ (i + 1) * 100 > m
    BY <1>2
  <2> HIDE DEF a, b, m
  <2>4. a * 100 <= m /\ b * 100 > m
    BY <1>2, <2>1, <2>2, <2>3
  <2> QED
    BY <2>4 DEF a, b, m
<1> QED
  BY <1>9, <1>10, <1>11, <1>12, <1>13 DEF IsPercentile, t
-----------------------------------------------------------------------------
(* The latency ring.                                                       *)

Least(a, b) == IF a < b THEN a ELSE b

\* Slot i of the ring, of n delays observed, holds the delay of that number:
\* those before the write position are the newest, the others came before them.
Slot(i, n, ring, idx) == IF i <= idx THEN n - idx + i ELSE n - ring - idx + i

LatInv ==
  /\ observed \in Seq(Int) /\ latency \in Seq(Int)
  /\ latencyIdx \in 0..(LatencyRing - 1)
  /\ Len(latency) = Least(Len(observed), LatencyRing)
  /\ Len(observed) < LatencyRing => latencyIdx = 0
  /\ \A i \in 1..Len(latency) :
       latency[i] = observed[Slot(i, Len(observed), Len(latency), latencyIdx)]

\* The last delay and the largest one.
TopInv ==
  /\ observed \in Seq(Int) /\ latencyMax \in Nat
  /\ observed = <<>> => latencyMax = 0
  /\ observed # <<>> =>
       /\ latencyLast = observed[Len(observed)]
       /\ \A i \in DOMAIN observed : observed[i] <= latencyMax
       /\ \E i \in DOMAIN observed : observed[i] = latencyMax

LEMMA LatInit == Init => LatInv /\ TopInv
BY MetricsAssumption DEF Init, MetricsInit, LatInv, TopInv, Least

LEMMA NextSlotIs ==
  ASSUME NEW i \in 0..(LatencyRing - 1), latencyIdx = i
  PROVE  NextSlot = IF i + 1 = LatencyRing THEN 0 ELSE i + 1
BY MetricsAssumption DEF NextSlot

LEMMA LatObserves ==
  ASSUME LatInv, TopInv, NEW d \in Latencies, ObserveLatency(d)
  PROVE  LatInv' /\ TopInv'
<1>0. d \in Int /\ LatencyRing \in Nat \ {0}
  BY MetricsAssumption
<1>1. CASE d < 0
  <2>1. UNCHANGED latVars
    BY <1>1 DEF ObserveLatency
  <2> QED
    BY <2>1 DEF latVars, LatInv, TopInv
<1>2. CASE ~(d < 0)
  <2> DEFINE n == Len(observed)
             m == Len(latency)
  <2>1. /\ observed \in Seq(Int) /\ latency \in Seq(Int) /\ n \in Nat /\ m \in Nat
        /\ latencyIdx \in 0..(LatencyRing - 1)
        /\ m = (IF n < LatencyRing THEN n ELSE LatencyRing)
        /\ n < LatencyRing => latencyIdx = 0
        /\ \A i \in 1..m : latency[i] = observed[Slot(i, n, m, latencyIdx)]
    BY <1>0, SMTT(30) DEF LatInv, Least
  <2>2. /\ latencyLast' = d
        /\ latencyMax' = IF d > latencyMax THEN d ELSE latencyMax
        /\ observed' = Append(observed, d)
    BY <1>2 DEF ObserveLatency
  <2>3. /\ observed' \in Seq(Int) /\ Len(observed') = n + 1
        /\ \A i \in 1..n : observed'[i] = observed[i]
        /\ observed'[n + 1] = d
    BY <1>0, <2>1, <2>2
  <2>4. TopInv'
    <3>1. latencyMax \in Nat /\ latencyMax' \in Nat /\ d <= latencyMax' /\ latencyMax <= latencyMax'
      BY <1>0, <1>2, <2>2 DEF TopInv
    <3>2. DOMAIN observed' = 1..(n + 1) /\ DOMAIN observed = 1..n /\ observed' # <<>>
          /\ \A i \in 1..(n + 1) : i = n + 1 \/ i \in 1..n
      BY <2>1, <2>3
    <3>3. \A i \in 1..(n + 1) : observed'[i] <= latencyMax'
      <4>1. \A i \in 1..n : observed[i] \in Int /\ observed[i] <= latencyMax
        BY <2>1, <3>2, SMTT(30) DEF TopInv
      <4> QED
        BY <2>3, <3>1, <3>2, <4>1
    <3>4. \E i \in 1..(n + 1) : observed'[i] = latencyMax'
      <4>1. CASE latencyMax' = d
        BY <2>1, <2>3, <4>1, SMTT(30)
      <4>2. CASE latencyMax' = latencyMax /\ latencyMax # d
        <5>1. observed # <<>>
          BY <1>0, <1>2, <3>1, <4>2 DEF TopInv
        <5>2. PICK i \in 1..n : observed[i] = latencyMax
          BY <3>2, <5>1 DEF TopInv
        <5>3. i \in 1..(n + 1)
          BY <2>1
        <5> QED
          BY <2>3, <4>2, <5>2, <5>3
      <4> QED
        BY <2>2, <4>1, <4>2
    <3>5. latencyLast' = observed'[Len(observed')]
      BY <2>2, <2>3
    <3> HIDE DEF n
    <3> QED
      BY <2>3, <3>1, <3>2, <3>3, <3>4, <3>5 DEF TopInv
  <2>5. LatInv'
    <3>1. CASE m < LatencyRing
      <4>1. latency' = Append(latency, d) /\ latencyIdx' = latencyIdx
        BY <1>2, <3>1 DEF ObserveLatency
      <4>2. m = n /\ latencyIdx = 0
        BY <1>0, <2>1, <3>1
      <4>3. /\ latency' \in Seq(Int) /\ Len(latency') = n + 1 /\ latency'[n + 1] = d
            /\ \A i \in 1..n : latency'[i] = latency[i]
        BY <1>0, <2>1, <4>1, <4>2
      <4>4. \A i \in 1..n : latency[i] = observed[i]
        BY <2>1, <4>2 DEF Slot
      <4>5. ASSUME NEW i \in 1..(n + 1)
            PROVE  latency'[i] = observed'[Slot(i, n + 1, n + 1, 0)]
        <5>1. Slot(i, n + 1, n + 1, 0) = i
          BY <2>1 DEF Slot
        <5>2. i = n + 1 \/ i \in 1..n
          BY <2>1
        <5> QED
          BY <2>3, <4>3, <4>4, <5>1, <5>2
      <4>6. n + 1 = (IF n + 1 < LatencyRing THEN n + 1 ELSE LatencyRing)
        BY <1>0, <2>1, <3>1, <4>2
      <4> HIDE DEF n, m
      <4> QED
        BY <1>0, <2>1, <2>3, <4>1, <4>2, <4>3, <4>5, <4>6 DEF LatInv, Least
    <3>2. CASE ~(m < LatencyRing)
      <4> DEFINE x == latencyIdx
                 y == latencyIdx'
      <4>1. latency' = [latency EXCEPT ![x + 1] = d] /\ y = NextSlot
        BY <1>2, <3>2 DEF ObserveLatency
      <4>2. m = LatencyRing /\ LatencyRing <= n
        BY <1>0, <2>1, <3>2
      <4>3. x \in 0..(m - 1) /\ x \in Nat /\ x + 1 \in 1..m
        BY <2>1, <4>2
      <4>4. y = IF x + 1 = m THEN 0 ELSE x + 1
        BY <2>1, <4>1, <4>2, NextSlotIs
      <4>5. /\ latency' \in Seq(Int) /\ Len(latency') = m /\ latency'[x + 1] = d
            /\ \A i \in 1..m : i # x + 1 => latency'[i] = latency[i]
        BY <1>0, <2>1, <4>1, <4>3
      <4> HIDE DEF n, m, x, y
      <4>6. ASSUME NEW i \in 1..m
            PROVE  latency'[i] = observed'[Slot(i, n + 1, m, y)]
        <5>1. CASE i = x + 1
          <6>1. Slot(i, n + 1, m, y) = n + 1
            BY <2>1, <4>3, <4>4, <5>1 DEF Slot
          <6> QED
            BY <2>3, <4>5, <5>1, <6>1
        <5>2. CASE i # x + 1
          <6>1. /\ Slot(i, n + 1, m, y) = Slot(i, n, m, x)
                /\ Slot(i, n, m, x) \in 1..n
            BY <1>0, <2>1, <4>2, <4>3, <4>4, <5>2 DEF Slot
          <6>2. latency[i] = observed[Slot(i, n, m, x)]
            BY <2>1 DEF x
          <6> QED
            BY <2>3, <4>5, <5>2, <6>1, <6>2
        <5> QED
          BY <5>1, <5>2
      <4>7. y \in 0..(LatencyRing - 1)
        BY <1>0, <4>2, <4>3, <4>4
      <4>8. m = (IF n + 1 < LatencyRing THEN n + 1 ELSE LatencyRing) /\ ~(n + 1 < LatencyRing)
        BY <1>0, <2>1, <4>2
      <4> QED
        BY <2>3, <4>5, <4>6, <4>7, <4>8 DEF LatInv, Least, y
    <3> QED
      BY <3>1, <3>2
  <2> QED
    BY <2>4, <2>5
<1> QED
  BY <1>1, <1>2

LEMMA LatNext == LatInv /\ TopInv /\ [Next]_vars => LatInv' /\ TopInv'
<1> SUFFICES ASSUME LatInv, TopInv, [Next]_vars PROVE LatInv' /\ TopInv'
  OBVIOUS
<1>1. CASE \E d \in Latencies : ObserveLatency(d)
  BY <1>1, LatObserves
<1>2. CASE UNCHANGED latVars
  BY <1>2 DEF latVars, LatInv, TopInv
<1>3. ASSUME ~ \E d \in Latencies : ObserveLatency(d) PROVE UNCHANGED latVars
  <2> USE DEF metVars
  <2>1. CASE Stages
    BY <1>3, <2>1 DEF Stages, Degrade, Tick, Engine
  <2>2. CASE Caption \/ Log
    BY <2>2 DEF Caption, Log
  <2>3. CASE Status
    BY <2>3 DEF Status, TickerSnapshots, TickerDraws, TickerEnds, SnapshotStep
  <2>4. CASE Main
    BY <2>4 DEF Main, Banner, Ready, RunEnds, Closes, MainSnapshots, SnapshotStep,
                SummaryStops, SummaryPrints
  <2>5. CASE Exited \/ UNCHANGED vars
    BY <2>5 DEF Exited, vars
  <2> QED
    BY <2>1, <2>2, <2>3, <2>4, <2>5 DEF Next
<1> QED
  BY <1>1, <1>2, <1>3

\* The ring is the newest delays, in some order.
LEMMA RingReorders ==
  ASSUME NEW n \in Nat, NEW m \in Nat, m <= n, NEW x \in Nat, x < m \/ x = 0,
         NEW o \in [1..n -> Int], NEW s, NEW r,
         \A i \in 1..m : s[i] = o[Slot(i, n, m, x)],
         \A i \in 1..m : r[i] = o[n - m + i]
  PROVE  Reorders([i \in 1..m |-> Slot(i, n, m, x) - (n - m)], s, r, m)
<1> DEFINE g == [i \in 1..m |-> Slot(i, n, m, x) - (n - m)]
<1>1. \A i \in 1..m : Slot(i, n, m, x) \in Int /\ Slot(i, n, m, x) - (n - m) \in 1..m
  BY DEF Slot
<1>2. g \in [1..m -> 1..m]
  BY <1>1
<1>3. \A i \in 1..m : g[i] = Slot(i, n, m, x) - (n - m)
  OBVIOUS
<1> HIDE DEF g
<1>4. ASSUME NEW i \in 1..m, NEW j \in 1..m, g[i] = g[j] PROVE i = j
  <2>1. Slot(i, n, m, x) \in Int /\ Slot(j, n, m, x) \in Int
    BY <1>1
  <2>2. \A a, b, c \in Int : a - c = b - c => a = b
    OBVIOUS
  <2>3. n - m \in Int
    OBVIOUS
  <2>4. Slot(i, n, m, x) = Slot(j, n, m, x)
    BY <1>3, <1>4, <2>1, <2>2, <2>3
  <2> QED
    BY <2>4 DEF Slot
<1>5. ASSUME NEW i \in 1..m PROVE s[i] = r[g[i]]
  <2>1. g[i] \in 1..m /\ n - m + g[i] = Slot(i, n, m, x)
    <3>1. \A a, c \in Int : c + (a - c) = a
      OBVIOUS
    <3>2. n - m \in Int /\ Slot(i, n, m, x) \in Int
      BY <1>1
    <3>3. g[i] = Slot(i, n, m, x) - (n - m) /\ g[i] \in 1..m
      BY <1>1, <1>3, Zenon
    <3> QED
      BY <3>1, <3>2, <3>3, Zenon
  <2> QED
    BY <2>1
<1>6. Reorders(g, s, r, m)
  BY <1>2, <1>4, <1>5 DEF Reorders
<1> QED
  BY <1>6 DEF g

LEMMA LatencyShown == LatInv /\ TopInv => LatencyIsRecent
<1> SUFFICES ASSUME LatInv, TopInv, observed # <<>> PROVE
      LET from   == IF Len(observed) > LatencyRing THEN Len(observed) - LatencyRing + 1 ELSE 1
          recent == SubSeq(observed, from, Len(observed))
          sorted == Sorted(latency)
      IN  /\ Len(sorted) = Len(recent)
          /\ \A p \in {50, 95} : IsPercentile(percentile(sorted, p), recent, p)
          /\ latencyLast = observed[Len(observed)]
          /\ \A i \in DOMAIN observed : observed[i] <= latencyMax
          /\ \E i \in DOMAIN observed : observed[i] = latencyMax
  BY DEF LatencyIsRecent
<1> DEFINE n == Len(observed)
           m == Len(latency)
           from == IF n > LatencyRing THEN n - LatencyRing + 1 ELSE 1
           recent == SubSeq(observed, from, n)
           g == [i \in 1..m |-> Slot(i, n, m, latencyIdx) - (n - m)]
<1>1. observed \in Seq(Int) /\ latency \in Seq(Int) /\ LatencyRing \in Nat \ {0}
  BY MetricsAssumption DEF LatInv
<1>2. n \in Nat /\ n # 0 /\ m \in Nat
  BY <1>1
<1>3. /\ m = (IF n < LatencyRing THEN n ELSE LatencyRing)
      /\ latencyIdx \in 0..(LatencyRing - 1) /\ (n < LatencyRing => latencyIdx = 0)
  BY DEF LatInv, Least
<1>4. m # 0 /\ m <= n /\ from = n - m + 1 /\ from \in 1..n
      /\ latencyIdx \in Nat /\ (latencyIdx < m \/ latencyIdx = 0)
  <2> HIDE DEF n, m
  <2> QED
    BY <1>1, <1>2, <1>3
<1>5. recent \in Seq(Int) /\ Len(recent) = m /\ \A i \in 1..m : recent[i] = observed[n - m + i]
  <2> HIDE DEF m, from
  <2>1. recent \in Seq(Int) /\ Len(recent) = n - from + 1
        /\ \A i \in 1..(n - from + 1) : recent[i] = observed[from + i - 1]
    BY <1>1, <1>2, <1>4
  <2> HIDE DEF recent, n
  <2>2. n - from + 1 = m /\ \A i \in 1..m : from + i - 1 = n - m + i
    BY <1>2, <1>4
  <2> QED
    BY <2>1, <2>2
<1>6. \A i \in 1..m : latency[i] = observed[Slot(i, n, m, latencyIdx)]
  BY DEF LatInv
<1>7. observed \in [1..n -> Int]
  BY <1>1
<1> HIDE DEF n, m, from, recent
<1>8. Reorders(g, latency, recent, m)
  BY <1>2, <1>4, <1>5, <1>6, <1>7, RingReorders, ZenonT(30)
<1> HIDE DEF g
<1>9. \A p \in {50, 95} : IsPercentile(percentile(Sorted(latency), p), recent, p)
  BY <1>1, <1>4, <1>5, <1>8, PercentileIs DEF m
<1>10. Len(Sorted(latency)) = Len(recent)
  <2>1. PICK o : SortsTo(o, latency, Sorted(latency), m)
    BY <1>1, SortedIs DEF m
  <2>2. Len(Sorted(latency)) = m
    BY <1>2, <2>1 DEF SortsTo
  <2> QED
    BY <1>5, <2>2
<1> QED
  BY <1>9, <1>10 DEF TopInv, recent, from, n

\* The latency shown is that of the last LatencyRing delays, with the last and
\* the largest of the session, whatever is observed (LatencyIsRecent).
THEOREM LatencyIsOfTheRecent == Spec => []LatencyIsRecent
BY LatInit, LatNext, LatencyShown, PTL DEF Spec
=============================================================================
