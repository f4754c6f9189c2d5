------------------------------ MODULE PauseGate ------------------------------
(***************************************************************************)
(* The silence gate of internal/stt/gate.go as a value and its operations. *)
(* A gate is a record; its mutex makes every operation one step, so a      *)
(* component that owns a gate keeps the record in a variable and applies   *)
(* these operators to it.                                                  *)
(*                                                                         *)
(* The channel g.changed is a generation number: a transition closes the   *)
(* current channel and installs a fresh one, so the channel a goroutine    *)
(* fetched earlier is closed exactly when its generation is behind.        *)
(***************************************************************************)
EXTENDS Integers

CONSTANTS PauseEnabled,   \* PauseConfig.Enabled
          Hold            \* PauseConfig.Hold, in units of media time

ASSUME PauseAssumption == PauseEnabled \in BOOLEAN /\ Hold \in Nat

\* What the gate remembers of the audio it observed (Gate, gate.go:29-37).
Gates == [active : BOOLEAN, inSilence : BOOLEAN, silStart : Nat, gen : Nat]

\* Starts active: the caller connects at once and pauses only after a hold.
NewGate == [active |-> TRUE, inSilence |-> FALSE, silStart |-> 0, gen |-> 0]

\* The channel's generation when the gate goes to `active`: a transition
\* closes the channel and installs a fresh one.
Generation(g, active) == IF g.active = active THEN g.gen ELSE g.gen + 1

\* A frame above the threshold ends the silence and resumes at once.
Loud(g) ==
  [active |-> TRUE, inSilence |-> FALSE, silStart |-> g.silStart,
   gen |-> Generation(g, TRUE)]

\* The gate after a silent frame, the hold being measured from `start`.
SilentFrom(g, at, start) ==
  LET stays == g.active /\ at - start < Hold
  IN  [active |-> stays, inSilence |-> TRUE, silStart |-> start,
       gen |-> Generation(g, stays)]

\* Faulty variant: a baseline that survives the restart of the media clock.
BaselineOfFirstPass(g, at) == IF g.inSilence THEN g.silStart ELSE at

\* The offset the hold is measured from: kept while a silence run goes on,
\* taken again when the media clock went backwards (replay --loop).
Baseline(g, at) ==
  IF ~g.inSilence \/ at < g.silStart THEN at ELSE g.silStart

\* Faulty variant: a loud frame that leaves the silence run open.
ObserveKeepingRun(g, loud, at) ==
  IF loud THEN [Loud(g) EXCEPT !.inSilence = g.inSilence]
  ELSE SilentFrom(g, at, Baseline(g, at))

ObserveLevel(g, loud, at) ==
  IF ~PauseEnabled THEN g
  ELSE IF loud THEN Loud(g)
  ELSE SilentFrom(g, at, Baseline(g, at))

\* Has the channel fetched at generation `gen` been closed?
Closed(g, gen) == gen < g.gen
=============================================================================
