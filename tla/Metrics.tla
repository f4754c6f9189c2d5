------------------------------- MODULE Metrics -------------------------------
(***************************************************************************)
(* The statistics of a session, internal/metrics/metrics.go: the counters  *)
(* every stage moves, the fields under the mutex, and Snapshot, which      *)
(* copies the locked fields in one step and loads the atomic counters one  *)
(* after the other in later ones, while the stages go on.                  *)
(*                                                                         *)
(* The counters of silent degradation are grouped by when Snapshot loads   *)
(* them: before the health verdict (source, monitor, recognizer) or after  *)
(* it (web).  The engine is here the order in which it reports a pause     *)
(* (DeepgramEngine and MockEngine have the rest); who takes snapshots is   *)
(* Terminal's business.                                                    *)
(***************************************************************************)
EXTENDS Integers, Sequences, FiniteSets, Functions

CONSTANTS Window,       \* degradedWindow, in ticks of the wall clock
          LatencyRing,  \* latencyRing
          Latencies,    \* the delays ObserveLatency is called with
          Readers,      \* who takes snapshots
          MaxTime,      \* bound: the wall clock
          MaxOps        \* bound: operations of the stages; a delay counts
                        \* one, any other two

ASSUME MetricsAssumption ==
  /\ Window \in Nat /\ LatencyRing \in Nat \ {0} /\ Latencies \subseteq Int
  /\ MaxTime \in Nat /\ MaxOps \in Nat

Groups == {"pipeline", "web"}
NoTime == 0   \* time.Time{}; the clock starts at 1

VARIABLES
  now,                            \* the wall clock
  count,                          \* the atomic counters, by group
  unmarked,                       \* goroutines between Add and the lock
  lastDegradedAt, transcriptErr,
  sttState, sttPauseStart, sttPausedTotal,
  latency, latencyIdx, latencyMax, latencyLast,
  engine,                         \* how far the engine is with a pause
  snap,                           \* each reader's Snapshot call
  ops,                            \* counter of the bound MaxOps
  observed, paused                \* history: the delays observed, and the
                                  \* ticks spent in pauses

degVars   == <<count, unmarked, lastDegradedAt, transcriptErr>>
pauseVars == <<sttState, sttPauseStart, sttPausedTotal, engine>>
latVars   == <<latency, latencyIdx, latencyMax, latencyLast, observed>>
metVars   == <<now, degVars, pauseVars, latVars, snap, ops, paused>>

Unread == [pc |-> "none"]

MetricsInit ==
  /\ now = 1
  /\ count = [g \in Groups |-> 0] /\ unmarked = [g \in Groups |-> 0]
  /\ lastDegradedAt = NoTime /\ transcriptErr = FALSE
  /\ sttState = "idle" /\ sttPauseStart = NoTime /\ sttPausedTotal = 0
  /\ latency = <<>> /\ latencyIdx = 0 /\ latencyMax = 0 /\ latencyLast = 0
  /\ engine = "dialling"
  /\ snap = [r \in Readers |-> Unread]
  /\ ops = 0 /\ observed = <<>> /\ paused = 0

Op(n) == ops + n <= MaxOps /\ ops' = ops + n

-----------------------------------------------------------------------------
(* Degradation: DropFrame, FFmpegRestart, Xrun, MonitorDrop, STTReconnect, *)
(* STTBufferDrop and SSESlowDrop count first and stamp the time after.     *)

\* Faulty variant: the stamp before the counter.
StampThenCount(g) ==
  /\ Op(2)
  /\ unmarked' = [unmarked EXCEPT ![g] = @ + 1]
  /\ lastDegradedAt' = now
  /\ UNCHANGED <<count, transcriptErr>>

\* m.counter.Add(1)
Count(g) ==
  /\ Op(2)
  /\ count' = [count EXCEPT ![g] = @ + 1]
  /\ unmarked' = [unmarked EXCEPT ![g] = @ + 1]
  /\ UNCHANGED <<lastDegradedAt, transcriptErr>>

\* m.mu.Lock(); m.markDegradedLocked(); m.mu.Unlock()
Mark(g) ==
  /\ unmarked[g] > 0
  /\ unmarked' = [unmarked EXCEPT ![g] = @ - 1]
  /\ lastDegradedAt' = now
  /\ UNCHANGED <<ops, count, transcriptErr>>

\* SetTranscriptError: both under one lock.
SetTranscriptError ==
  /\ Op(2)
  /\ transcriptErr' = TRUE
  /\ lastDegradedAt' = now
  /\ UNCHANGED <<count, unmarked>>

Degrade ==
  /\ SetTranscriptError \/ \E g \in Groups : Count(g) \/ Mark(g)
  /\ UNCHANGED <<now, pauseVars, latVars, snap, paused>>

-----------------------------------------------------------------------------
(* The pause clock, driven by an engine.                                   *)

SetSTTState(s) == sttState' = s

STTPauseBegin ==
  /\ sttPauseStart' = IF sttPauseStart = NoTime THEN now ELSE sttPauseStart
  /\ UNCHANGED sttPausedTotal

OpenPause == IF sttPauseStart = NoTime THEN 0 ELSE now - sttPauseStart

\* Faulty variant: the start of the pause is kept.
PauseEndKeepsStart ==
  /\ sttPausedTotal' = sttPausedTotal + OpenPause
  /\ UNCHANGED sttPauseStart

STTPauseEnd ==
  /\ sttPausedTotal' = sttPausedTotal + OpenPause
  /\ sttPauseStart' = NoTime

\* A call of the engine: its place, the state it reports, the pause clock.
EngineMoves(from, to, state) ==
  engine = from /\ engine' = to /\ SetSTTState(state)

\* The engine reports a pause before it starts the clock, and stops the clock
\* before it reports that it connects again.  It may end anywhere and leaves
\* its state behind; mock-2 leaves the clock of a pause running too.
EngineStep ==
  \/ /\ \/ EngineMoves("dialling", "live", "connected") /\ UNCHANGED ops
        \/ EngineMoves("live", "pausing", "paused") /\ Op(2)
        \/ /\ \E from \in {"dialling", "live"} : EngineMoves(from, "ended", sttState)
              \/ EngineMoves("paused", "endedPaused", sttState)
           /\ UNCHANGED ops
     /\ UNCHANGED <<sttPauseStart, sttPausedTotal>>
  \/ EngineMoves("pausing", "paused", sttState) /\ STTPauseBegin /\ UNCHANGED ops
  \/ EngineMoves("paused", "dialling", sttState) /\ STTPauseEnd /\ UNCHANGED ops

Engine == EngineStep /\ UNCHANGED <<now, degVars, latVars, snap, paused>>

-----------------------------------------------------------------------------
(* Latency, from the hub goroutine, and the wall clock.                    *)

\* Faulty variant: the ring's write position stays where it is.
RingSlotStuck == latencyIdx
NextSlot == (latencyIdx + 1) % LatencyRing

ObserveLatency(d) ==
  /\ Op(1)
  /\ IF d < 0 THEN UNCHANGED latVars
     ELSE /\ latencyLast' = d
          /\ latencyMax' = IF d > latencyMax THEN d ELSE latencyMax
          /\ observed' = Append(observed, d)
          /\ IF Len(latency) < LatencyRing
             THEN latency' = Append(latency, d) /\ UNCHANGED latencyIdx
             ELSE /\ latency' = [latency EXCEPT ![latencyIdx + 1] = d]
                  /\ latencyIdx' = NextSlot
  /\ UNCHANGED <<now, degVars, pauseVars, snap, paused>>

\* Between the engine's STTPauseBegin and STTPauseEnd time counts as paused.
Tick ==
  /\ now < MaxTime
  /\ now' = now + 1
  /\ paused' = IF engine \in {"paused", "endedPaused"} THEN paused + 1 ELSE paused
  /\ UNCHANGED <<degVars, pauseVars, latVars, snap, ops>>

-----------------------------------------------------------------------------
(* Snapshot, by reader r: of what it copies, the record keeps what health  *)
(* is decided from, and whether every degradation counter it loaded is 0.  *)

\* Under the read lock.
CopyLocked(r) ==
  /\ snap[r].pc = "none"
  /\ snap' = [snap EXCEPT ![r] =
       [pc |-> "pipeline", transErr |-> transcriptErr, degradedAt |-> lastDegradedAt,
        zero |-> TRUE, state |-> "idle", health |-> "ok", at |-> NoTime]]

LoadCounters(r, group, next) ==
  /\ snap[r].pc = group
  /\ snap' = [snap EXCEPT ![r].pc = next, ![r].zero = @ /\ count[group] = 0]

LoadState(r) ==
  /\ snap[r].pc = "state"
  /\ snap' = [snap EXCEPT ![r].pc = "health", ![r].state = sttState]

\* A point event fades, a failing transcript does not.
Degraded(s) ==
  \/ s.degradedAt # NoTime /\ now - s.degradedAt <= Window
  \/ s.transErr

\* The switch: closed and paused explain themselves, then degradation.
Verdict(s) ==
  IF s.state \in {"closed", "paused"} THEN s.state
  ELSE IF Degraded(s) THEN "degraded" ELSE "ok"

ResolveHealth(r) ==
  /\ snap[r].pc = "health"
  /\ snap' = [snap EXCEPT ![r].pc = "web", ![r].health = Verdict(snap[r]), ![r].at = now]

SnapshotStep(r) ==
  /\ \/ CopyLocked(r) \/ LoadCounters(r, "pipeline", "state") \/ LoadState(r)
     \/ ResolveHealth(r) \/ LoadCounters(r, "web", "done")
  /\ UNCHANGED <<now, degVars, pauseVars, latVars, ops, paused>>

\* sort.Slice, of a copy: the same delays, ascending.
Sorted(s) ==
  LET order == CHOOSE p \in Bijection(DOMAIN s, DOMAIN s) :
                 \A i, j \in DOMAIN s : i < j => s[p[i]] <= s[p[j]]
  IN  [i \in DOMAIN s |-> s[order[i]]]

\* percentile, over a non-empty slice; the index is rounded down, from zero.
percentile(sorted, p) ==
  LET i == (p * Len(sorted)) \div 100
  IN  sorted[IF i >= Len(sorted) THEN Len(sorted) ELSE i + 1]

\* Clean, of the session a snapshot shows.
Clean(s) == s.zero /\ ~s.transErr

-----------------------------------------------------------------------------
\* A snapshot's verdict has its reason in the same snapshot, although the
\* counters are loaded after the stamp while goroutines count: "degraded" is
\* never shown next to a clean bill, nor for a blip older than the window;
\* "ok" is never shown next to a transcript error or within the window of a
\* blip that was over when the snapshot began (DropFrame and its kin,
\* SetTranscriptError, Snapshot's order of loads).
HealthTellsTheTruth ==
  \A r \in Readers : snap[r].pc = "done" =>
    LET s == snap[r]
        recent == s.degradedAt # NoTime /\ s.at - s.degradedAt <= Window
    IN  /\ s.health = "degraded" => ~Clean(s) /\ (s.transErr \/ recent)
        /\ s.health = "ok" => ~s.transErr /\ ~recent

\* The clock of pauses shows the time the engine spent in them, also when it
\* ended in one (STTPauseBegin, STTPauseEnd, Snapshot's open pause).
PausedTimeIsTrue == sttPausedTotal + OpenPause = paused

HowMany(s, P(_)) == Cardinality({i \in DOMAIN s : P(s[i])})

\* x is the p-th percentile of s: a share of p lies below it at most, and more
\* than p at or below it.
IsPercentile(x, s, p) ==
  /\ HowMany(s, LAMBDA y : y < x) * 100 <= p * Len(s)
  /\ HowMany(s, LAMBDA y : y <= x) * 100 > p * Len(s)

\* The latency shown is that of the last LatencyRing delays, by percentile,
\* with the last and the largest of the whole session: the ring forgets the
\* oldest delay, whatever is observed (ObserveLatency, percentile).
LatencyIsRecent ==
  LET from   == IF Len(observed) > LatencyRing THEN Len(observed) - LatencyRing + 1 ELSE 1
      recent == SubSeq(observed, from, Len(observed))
      sorted == Sorted(latency)
  IN  observed # <<>> =>
        /\ Len(sorted) = Len(recent)
        /\ \A p \in {50, 95} : IsPercentile(percentile(sorted, p), recent, p)
        /\ latencyLast = observed[Len(observed)]
        /\ \A i \in DOMAIN observed : observed[i] <= latencyMax
        /\ \E i \in DOMAIN observed : observed[i] = latencyMax
=============================================================================
