------------------------------ MODULE SttGate --------------------------------
(***************************************************************************)
(* The silence gate (internal/stt/gate.go) driven by an audio source.      *)
(*                                                                         *)
(* The gate measures silence in media time taken from frame offsets.  A    *)
(* live source's offsets only grow; replay --loop starts every pass at     *)
(* zero again (internal/audio/file.go).  The specification keeps, beside   *)
(* the gate, the audio that was really heard, and compares what the gate   *)
(* decides with it.                                                        *)
(***************************************************************************)
EXTENDS PauseGate

CONSTANTS Chunks,      \* the durations a frame can have
          MediaLimit   \* bound: media played over all passes

ASSUME SourceAssumption == Chunks \subseteq Nat \ {0} /\ MediaLimit \in Nat

VARIABLES gate,   \* the Gate
          at,     \* Offset of the last frame: media time in this pass
          heard,  \* media time over all passes
          quiet   \* the current silence as it was heard, see NoSilence

vars == <<gate, at, heard, quiet>>

\* since: `heard` at the first silent frame of the current silence
\* passSince: `at` at its first silent frame in the current pass
NoSilence == [on |-> FALSE, since |-> 0, passSince |-> 0]

Init ==
  /\ gate = NewGate
  /\ at = 0
  /\ heard = 0
  /\ quiet = NoSilence

\* One frame of duration d reaches Observe; `again` when a new pass of the
\* file has just begun.
Observe(loud, d, again) ==
  /\ heard + d <= MediaLimit
  /\ at' = IF again THEN d ELSE at + d
  /\ heard' = heard + d
  /\ gate' = ObserveLevel(gate, loud, at')
  /\ quiet' = IF loud THEN NoSilence
              ELSE [on |-> TRUE,
                    since |-> IF quiet.on THEN quiet.since ELSE heard',
                    passSince |-> IF quiet.on /\ ~again THEN quiet.passSince
                                  ELSE at']

Next == \E loud \in BOOLEAN, d \in Chunks, again \in BOOLEAN :
          Observe(loud, d, again)

Spec == Init /\ [][Next]_vars
-----------------------------------------------------------------------------
TypeOK ==
  /\ gate \in Gates
  /\ at \in Nat
  /\ heard \in Nat
  /\ quiet \in [on : BOOLEAN, since : Nat, passSince : Nat]

\* The connection is paused only in a silence that was really heard for at
\* least Hold, however often the media clock restarted meanwhile; one frame
\* of speech is enough to be active (ObserveLevel, gate.go:63-88).
NeverPausesEarly == ~gate.active => quiet.on /\ heard - quiet.since >= Hold

\* A silence of Hold within one pass of the source always pauses: restarting
\* the media clock cannot postpone it to the length of the file
\* (ObserveLevel's re-baselining, gate.go:73-84).
PausesByHold ==
  PauseEnabled /\ quiet.on /\ at - quiet.passSince >= Hold => ~gate.active

\* Why the two hold: the gate's own run is the silence being heard, and its
\* baseline lies between the silence's start and this pass's.
GateInv ==
  /\ gate.inSilence <=> (PauseEnabled /\ quiet.on)
  /\ ~gate.active => gate.inSilence
  /\ quiet.on => heard >= quiet.since
  /\ gate.inSilence => /\ gate.silStart <= quiet.passSince
                       /\ at >= gate.silStart
                       /\ at - gate.silStart <= heard - quiet.since
                       /\ gate.active => at - gate.silStart < Hold
  /\ ~gate.active => heard - quiet.since >= Hold
=============================================================================
