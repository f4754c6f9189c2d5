------------------------------ MODULE MockEngine ------------------------------
(***************************************************************************)
(* The offline engines of internal/stt/mock: both speak canned phrases,    *)
(* timed by the offsets of the frames they consume (phrases.go); mock      *)
(* speaks all the time, mock-2 drives a silence gate with a synthetic      *)
(* level and pauses with it.  The gate, the source and its restarting      *)
(* media clock are those of SttGate; "pump" is the remaining owner of a    *)
(* gate, the Deepgram engine's pump, which feeds it the audio's own        *)
(* loudness (DeepgramEngine has the rest of that engine).                  *)
(*                                                                         *)
(* One frame is one step: only the engine's goroutine works on it, up to a *)
(* transcript it has to hand over.  A phrase is its number.                *)
(***************************************************************************)
EXTENDS SttGate

CONSTANTS Utterance, Interim, Gap,   \* utteranceAudio, interimAudio, gapAudio
          Words,                     \* words of a phrase
          LoudPhase, Visible,        \* the level schedule: scheduleLoud, and the
                                     \* silence beyond the hold
          DefaultHold                \* DefaultPauseConfig().Hold

ASSUME MockAssumption ==
  {Utterance, Interim, Gap, Words, LoudPhase, Visible, DefaultHold} \subseteq Nat \ {0}

VARIABLES
  kind,                 \* which engine this is
  pc, ctx,              \* Run, and the cancellation of its context
  ps,                   \* phraseState
  out,                  \* the transcript being handed over, if any
  sttState, pauseOpen,  \* metrics
  activeFor,            \* history: audio consumed since the gate last went active
  spokeAt, restarted    \* history: `heard` at the last final, and has the media
                        \* clock been restarted since?

mockVars == <<vars, kind, pc, ctx, ps, out, sttState, pauseOpen, activeFor,
              spokeAt, restarted>>

newPhraseState == [idx |-> 0, start |-> 0, nextInterim |-> 0, words |-> 0,
                   inGap |-> FALSE, gapUntil |-> 0]

MockInit ==
  /\ Init
  /\ kind \in {"mock", "mock-2", "pump"}
  /\ pc = "recv" /\ ctx = FALSE /\ ps = newPhraseState /\ out = <<>>
  /\ sttState = "connected" /\ pauseOpen = FALSE
  /\ activeFor = 0 /\ spokeAt = 0 /\ restarted = FALSE

-----------------------------------------------------------------------------
(* Phrases.                                                                *)

\* Faulty variant: the gap is not over when the utterance begins.
BeginInGap(p, now) ==
  [p EXCEPT !.start = now, !.nextInterim = now + Interim, !.words = 0]

\* An utterance begins at media time now.
Begin(p, now) ==
  [p EXCEPT !.start = now, !.nextInterim = now + Interim, !.words = 0, !.inGap = FALSE]

\* Faulty variant: the utterance goes on after a pause.
ResumeMidSentence(p, now) == p

\* After a pause the interrupted utterance starts over, with its phrase.
restart(p, now) == Begin(p, now)

\* The phrase is complete: emit it and leave a gap.
Finish(p, now) ==
  [ps  |-> [p EXCEPT !.idx = @ + 1, !.inGap = TRUE, !.gapUntil = now + Gap],
   out |-> <<[final |-> TRUE, phrase |-> p.idx, words |-> Words, dur |-> now - p.start]>>]

\* When an interim is due, reveal as many words as the time elapsed makes up,
\* unless they have been shown.
Reveal(p, now) ==
  LET elapsed == now - p.start
      want    == (Words * elapsed) \div Utterance
      due     == [p EXCEPT !.nextInterim = now + Interim]
  IN  IF now < p.nextInterim THEN [ps |-> p, out |-> <<>>]
      ELSE IF want <= p.words THEN [ps |-> due, out |-> <<>>]
      ELSE [ps  |-> [due EXCEPT !.words = want],
            out |-> <<[final |-> FALSE, phrase |-> p.idx, words |-> want, dur |-> elapsed]>>]

\* The state machine at media time now: its new state and what it emits.
step(p, now) ==
  IF p.inGap /\ now < p.gapUntil THEN [ps |-> p, out |-> <<>>]
  ELSE LET first == p.start = 0 /\ p.nextInterim = 0
           q     == IF p.inGap \/ first THEN Begin(p, now) ELSE p
       IN  IF now - q.start >= Utterance THEN Finish(q, now) ELSE Reveal(q, now)

-----------------------------------------------------------------------------
(* The loop over the frames.                                               *)

\* scheduleDurations, newScheduleLevel: is the synthetic level at now loud?
Cycle == LoudPhase + (IF Hold = 0 THEN DefaultHold ELSE Hold) + Visible
ScheduledLoud(now) == now % Cycle < LoudPhase

Speak(p, now) ==
  /\ ps' = step(p, now).ps
  /\ out' = step(p, now).out
  /\ pc' = IF out' = <<>> THEN "recv" ELSE "emit"

SaysNothing == UNCHANGED <<pc, ps, out>>

\* The history of one frame of d.
Remember(d, again) ==
  LET spoke == out' # <<>> /\ out'[1].final
  IN  /\ activeFor' = IF gate.active /\ gate'.active THEN activeFor + d ELSE 0
      /\ spokeAt' = IF spoke THEN heard' ELSE spokeAt
      /\ restarted' = (~spoke /\ (restarted \/ again))

\* mock: every frame goes to the phrases, there is no gate.
MockFrame(d, again) ==
  /\ kind = "mock" /\ heard + d <= MediaLimit
  /\ at' = IF again THEN d ELSE at + d
  /\ heard' = heard + d
  /\ Speak(ps, at')
  /\ UNCHANGED <<gate, quiet, sttState, pauseOpen>>

\* mock-2: the gate decides; a transition moves the metrics, and an inactive
\* gate keeps the frame from the phrases.
Mock2Frame(d, again) ==
  /\ kind = "mock-2"
  /\ Observe(ScheduledLoud(IF again THEN d ELSE at + d), d, again)
  /\ IF gate'.active = gate.active THEN UNCHANGED <<sttState, pauseOpen>>
     ELSE /\ sttState' = IF gate'.active THEN "connected" ELSE "paused"
          /\ pauseOpen' = ~gate'.active
  /\ IF gate'.active
     THEN Speak(IF gate.active THEN ps ELSE restart(ps, at'), at')
     ELSE SaysNothing

\* The Deepgram engine's pump: gate.Observe(f).
PumpFrame(loud, d, again) ==
  /\ kind = "pump"
  /\ Observe(loud, d, again)
  /\ SaysNothing /\ UNCHANGED <<sttState, pauseOpen>>

Frame(d, again) ==
  /\ pc = "recv"
  /\ \/ MockFrame(d, again) \/ Mock2Frame(d, again)
     \/ \E loud \in BOOLEAN : PumpFrame(loud, d, again)
  /\ Remember(d, again)
  /\ UNCHANGED <<kind, ctx>>

\* emit: case out <- t
Emit ==
  /\ pc = "emit" /\ pc' = "recv" /\ out' = <<>>
  /\ UNCHANGED <<vars, kind, ctx, ps, sttState, pauseOpen, activeFor, spokeAt, restarted>>

\* Run returns: frames is closed, or ctx is done while it hands over.
Return ==
  /\ pc = "recv" \/ (pc = "emit" /\ ctx)
  /\ pc' = "returned" /\ out' = <<>>
  /\ UNCHANGED <<vars, kind, ctx, ps, sttState, pauseOpen, activeFor, spokeAt, restarted>>

Cancel ==
  /\ ~ctx /\ ctx' = TRUE
  /\ UNCHANGED <<vars, kind, pc, ps, out, sttState, pauseOpen, activeFor, spokeAt, restarted>>

Finished == pc = "returned" /\ UNCHANGED mockVars

MockNext == \/ \E d \in Chunks, again \in BOOLEAN : Frame(d, again)
            \/ Emit \/ Return \/ Cancel \/ Finished

MockSpec == MockInit /\ [][MockNext]_mockVars
-----------------------------------------------------------------------------
\* mock-2 says nothing while it is paused and shows the pause as long as it
\* lasts; when it speaks again, what it says covers only audio it was active
\* for: no phrase that the pause has "finished" (restart, Engine2.Run).
PauseIsSilent ==
  /\ out # <<>> => gate.active /\ out[1].dur <= activeFor
  /\ sttState = "paused" <=> ~gate.active /\ kind = "mock-2"
  /\ pauseOpen <=> sttState = "paused"

\* mock never goes quiet: from one finished phrase to the next it needs no
\* more audio than a gap, an utterance and a frame for each, unless the media
\* clock restarts in between.  After a restart the phrase, or the gap, is
\* timed by an offset of the previous pass, which this one may reach late or
\* never (phrases.go:78, 91, under replay --loop).
SpeechIsContinuous ==
  LET longest == CHOOSE c \in Chunks : \A d \in Chunks : d <= c
  IN  kind = "mock" /\ ~restarted => heard - spokeAt <= Gap + Utterance + 2 * longest
=============================================================================
