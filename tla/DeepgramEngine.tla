--------------------------- MODULE DeepgramEngine ----------------------------
(***************************************************************************)
(* The Deepgram engine of internal/stt/deepgram/deepgram.go: its Run loop, *)
(* the pump that moves frames from the source into the ring, and the       *)
(* writer and reader goroutine of each connection.                         *)
(*                                                                         *)
(* A goroutine is a program counter; a step ends where another goroutine   *)
(* can observe or disturb it: at a lock, a channel operation, a network    *)
(* call.  A frame is its number in capture order, which is also its media  *)
(* time; heard[n] says whether frame n is above the silence threshold.     *)
(* The contents of a connection's replies are the business of Session and  *)
(* AnchorIndex: here the reader only lives and ends.                       *)
(*                                                                         *)
(* The caller (cancelling ctx), the source (frames and their end) and the  *)
(* network (dials, losses, the server's close) are the environment.        *)
(***************************************************************************)
EXTENDS PauseGate, Sequences, FiniteSets

CONSTANTS RingCap,    \* ring.capBytes, in frames
          MaxFrames,  \* bound: frames the source delivers
          MaxFaults   \* bound: failed dials and lost links

ASSUME EngineAssumption ==
  RingCap \in Nat \ {0} /\ MaxFrames \in Nat /\ MaxFaults \in Nat

VARIABLES
  ctx,           \* has the caller cancelled ctx?
  pump, hand,    \* the pump and the frame it has observed but not pushed
  heard,         \* loudness of every frame received so far
  gate,          \* the silence gate
  ring, notify,  \* ring.chunks; is a token in ring.notify?
  run,           \* the Run loop, with runConnection and finish
  awaited,       \* generation of the gate channel the pause waits on
  firstAttempt,
  writer,        \* writeLoop
  chunk,         \* the chunk writeLoop popped and has not written; none
                 \* while it writes a KeepAlive
  reader,        \* readLoop
  link,          \* the connection as the network sees it; a stalled link
                 \* takes no more than the socket buffers hold or, during a
                 \* dial, leaves the handshake unanswered
  strays,        \* readers that outlived their connection, connCtx cancelled
  sent,          \* history: chunks conn.Write took, over all connections
  cut,           \* history: frames lost with a conn.Write that failed
  sttState, pauseOpen, reconnects, drops,   \* metrics
  faults,        \* history: what the network did wrong,
  refused,       \* the dials among it that Run tried again after,
  overdue        \* and the drains that drainTimeout ended

audioVars == <<pump, hand, heard, gate>>
connVars  == <<writer, chunk, reader, link>>
lossVars  == <<sent, cut>>
metVars   == <<sttState, pauseOpen, reconnects>>
netVars   == <<faults, refused>>
strayVars == <<strays, overdue>>
vars == <<ctx, audioVars, ring, notify, run, awaited, firstAttempt, connVars,
          strayVars, lossVars, metVars, drops, netVars>>

framesClosed == pump = "done"
Returned     == run \in {"returned", "authError"}
InConnection == run \in {"connected", "drain", "joinReader", "joinWriter"}
InPause      == run \in {"pauseArm", "pauseTest", "pauseWait"}

\* connCtx is cancelled before the surviving goroutine is joined.
ConnCancelled == run \in {"joinReader", "joinWriter"}

Init ==
  /\ ctx = FALSE
  /\ pump = "recv" /\ hand = <<>> /\ heard = <<>>
  /\ gate = NewGate
  /\ ring = <<>> /\ notify = FALSE
  /\ run = "top" /\ awaited = 0 /\ firstAttempt = TRUE
  /\ writer = "off" /\ chunk = <<>>
  /\ reader = "off" /\ link = "none"
  /\ strays = 0 /\ overdue = 0
  /\ sent = <<>> /\ cut = {}
  /\ sttState = "idle" /\ pauseOpen = FALSE /\ reconnects = 0 /\ drops = 0
  /\ faults = 0 /\ refused = 0

-----------------------------------------------------------------------------
(* The pump: frames into the ring, whatever the connection is doing.       *)

\* case f := <-frames; gate.Observe(f)
PumpReceive(loud) ==
  /\ pump = "recv" /\ Len(heard) < MaxFrames
  /\ heard' = Append(heard, loud)
  /\ hand' = <<Len(heard) + 1>>
  /\ gate' = ObserveLevel(gate, loud, Len(heard) + 1)
  /\ pump' = "push"
  /\ UNCHANGED <<ctx, ring, notify, run, awaited, firstAttempt, connVars,
                 strayVars, lossVars, metVars, drops, netVars>>

\* Faulty variant: evictions are counted while the gate is inactive.
CountsPreRoll == ~gate.active

Full == Len(ring) >= RingCap
CountsDrop == gate.active

\* buf.push(f): drop the oldest chunk once full, counted while the gate is
\* active, and leave a wake-up for the writer.
PumpPush ==
  /\ pump = "push"
  /\ ring' = (IF Full THEN Tail(ring) ELSE ring) \o hand
  /\ drops' = IF Full /\ CountsDrop THEN drops + 1 ELSE drops
  /\ notify' = TRUE
  /\ hand' = <<>>
  /\ pump' = "recv"
  /\ UNCHANGED <<ctx, heard, gate, run, awaited, firstAttempt, connVars,
                 strayVars, lossVars, metVars, netVars>>

\* The source closed frames, or ctx is done: close(framesClosed).
PumpEnds ==
  /\ pump = "recv"
  /\ pump' = "done"
  /\ UNCHANGED <<ctx, hand, heard, gate, ring, notify, run, awaited, firstAttempt,
                 connVars, strayVars, lossVars, metVars, drops, netVars>>

-----------------------------------------------------------------------------
(* The Run loop outside a connection.                                      *)

RunUnchanged == UNCHANGED <<ctx, audioVars, ring, notify, strayVars, lossVars, drops>>

\* The top of the loop: return when the audio is exhausted or ctx is done,
\* else begin to dial.
RunTop ==
  /\ run = "top"
  /\ IF ctx \/ (framesClosed /\ ring = <<>>)
     THEN run' = "returned" /\ UNCHANGED sttState
     ELSE run' = "dial" /\ sttState' = "connecting"
  /\ UNCHANGED <<awaited, firstAttempt, connVars, pauseOpen, reconnects, netVars>>
  /\ RunUnchanged

DialOk ==
  /\ run = "dial" /\ link = "none"
  /\ run' = "connected"
  /\ firstAttempt' = FALSE
  /\ sttState' = "connected"
  /\ writer' = "test" /\ reader' = "reading" /\ link' = "up"
  /\ UNCHANGED <<awaited, chunk, pauseOpen, reconnects, netVars>>
  /\ RunUnchanged

FailsFast(auth) == firstAttempt /\ auth

\* A failed dial: give up when ctx is done or when the very first answer is
\* an auth failure, otherwise count a reconnect and back off.
DialFails(auth) ==
  /\ run = "dial"
  /\ ctx \/ faults < MaxFaults
  /\ faults' = IF ctx THEN faults ELSE faults + 1
  /\ link' = "none"
  /\ IF ctx THEN run' = "returned" /\ UNCHANGED <<firstAttempt, metVars, refused>>
     ELSE IF FailsFast(auth)
     THEN run' = "authError" /\ UNCHANGED <<firstAttempt, metVars, refused>>
     ELSE /\ run' = "sleep"
          /\ firstAttempt' = FALSE
          /\ sttState' = "reconnecting"
          /\ reconnects' = reconnects + 1 /\ refused' = refused + 1
          /\ UNCHANGED pauseOpen
  /\ UNCHANGED <<awaited, writer, chunk, reader>>
  /\ RunUnchanged

\* sleepBackoff: the timer, or ctx.
SleepEnds ==
  /\ run = "sleep"
  /\ run' \in IF ctx THEN {"top", "returned"} ELSE {"top"}
  /\ UNCHANGED <<awaited, firstAttempt, connVars, metVars, netVars>>
  /\ RunUnchanged

-----------------------------------------------------------------------------
(* runConnection, seen from the Run loop: whichever goroutine reports      *)
(* first decides the outcome; the other one is joined, or given time to    *)
(* drain.                                                                  *)

ConnUnchanged == UNCHANGED <<ctx, audioVars, ring, notify, lossVars, drops,
                             awaited, firstAttempt, netVars>>

\* case werr := <-writeErr: a pause or the end of the audio is a polite
\* hang-up (CloseStream), an error cancels connCtx.
WriterReports ==
  /\ run = "connected"
  /\ writer \in {"paused", "ended", "failed"}
  /\ run' = IF writer = "failed" THEN "joinReader" ELSE "drain"
  /\ UNCHANGED <<connVars, strayVars, metVars>>
  /\ ConnUnchanged

\* case rerr := <-readErr: cancelConn, then wait for the writer.
ReaderReports ==
  /\ run = "connected"
  /\ reader = "done"
  /\ run' = "joinWriter"
  /\ UNCHANGED <<connVars, strayVars, metVars>>
  /\ ConnUnchanged

ConnectionGone ==
  /\ writer' = "off" /\ chunk' = <<>>
  /\ reader' = "off" /\ link' = "none"

\* outcomeReconnect, in Run.
Reconnect ==
  /\ ConnectionGone
  /\ IF ctx THEN run' = "returned" /\ UNCHANGED metVars
     ELSE /\ run' = "sleep"
          /\ sttState' = "reconnecting"
          /\ reconnects' = reconnects + 1
          /\ UNCHANGED pauseOpen

\* Faulty variant: the reader is not joined after a failed write.
ReaderAbandoned ==
  /\ run = "joinReader"
  /\ Reconnect
  /\ strays' = IF reader = "reading" THEN strays + 1 ELSE strays
  /\ UNCHANGED overdue
  /\ ConnUnchanged

ReaderJoined ==
  /\ run = "joinReader" /\ reader = "done"
  /\ Reconnect
  /\ UNCHANGED strayVars
  /\ ConnUnchanged

\* Faulty variant: Run goes on while the writer may still be in Write.
WriterAbandoned ==
  /\ run = "joinWriter"
  /\ run' = "sleep"
  /\ reader' = "off" /\ link' = "none"
  /\ UNCHANGED <<writer, chunk, strayVars, metVars>>
  /\ ConnUnchanged

WriterJoined ==
  /\ run = "joinWriter" /\ writer \in {"paused", "ended", "failed"}
  /\ Reconnect
  /\ UNCHANGED strayVars
  /\ ConnUnchanged

\* Faulty variant: a pause is taken for the end of the audio.
PauseIsDone == writer \in {"ended", "paused"}
OutcomeDone == writer = "ended"

\* What Run does once finish is back: outcomeDone returns, outcomePause
\* starts the pause.
AfterFinish ==
  /\ ConnectionGone
  /\ IF OutcomeDone \/ ctx THEN run' = "returned" /\ UNCHANGED metVars
     ELSE /\ run' = "pauseArm"
          /\ sttState' = "paused"
          /\ pauseOpen' = TRUE
          /\ UNCHANGED reconnects
  /\ ConnUnchanged

\* The reader has ended, or drainTimeout has passed: nobody joins it then,
\* and it lives on behind the deferred cancelConn.
ReaderLeft ==
  LET late == IF reader = "reading" THEN 1 ELSE 0
  IN  strays' = strays + late /\ overdue' = overdue + late

\* Faulty variants: no drain timeout; a pause counted as a lost link.
DrainUntimed == run = "drain" /\ reader = "done" /\ ReaderLeft /\ AfterFinish
DrainAsReconnect ==
  /\ run = "drain" /\ ReaderLeft
  /\ IF OutcomeDone THEN AfterFinish ELSE Reconnect /\ ConnUnchanged

\* The end of finish.
DrainEnds == run = "drain" /\ ReaderLeft /\ AfterFinish

-----------------------------------------------------------------------------
(* The pause: wait for the gate to go active again.                        *)

PauseUnchanged ==
  UNCHANGED <<ctx, audioVars, ring, notify, firstAttempt, connVars, strayVars,
              lossVars, sttState, reconnects, drops, netVars>>

\* Faulty variant: the channel is fetched after Active() was tested.
PauseArmLate ==
  /\ \/ run = "pauseArm" /\ run' = "pauseTest" /\ UNCHANGED awaited
     \/ run = "pauseWait" /\ awaited = 0 /\ awaited' = gate.gen /\ UNCHANGED run
  /\ UNCHANGED pauseOpen
  /\ PauseUnchanged

\* changed := gate.Changed()
PauseArm ==
  /\ run = "pauseArm"
  /\ awaited' = gate.gen
  /\ run' = "pauseTest"
  /\ UNCHANGED pauseOpen
  /\ PauseUnchanged

\* if gate.Active() { break }, with the STTPauseEnd that follows the loop
PauseTest ==
  /\ run = "pauseTest"
  /\ IF gate.active
     THEN run' = "top" /\ pauseOpen' = FALSE /\ awaited' = 0
     ELSE run' = "pauseWait" /\ UNCHANGED <<pauseOpen, awaited>>
  /\ PauseUnchanged

\* case <-changed
PauseWakes ==
  /\ run = "pauseWait" /\ Closed(gate, awaited)
  /\ run' = "pauseArm" /\ awaited' = 0
  /\ UNCHANGED pauseOpen
  /\ PauseUnchanged

\* Faulty variant: the pause is left open when Run returns from it.
PauseReturnsOpen ==
  /\ run = "pauseWait" /\ (framesClosed \/ ctx)
  /\ run' = "returned" /\ awaited' = 0
  /\ UNCHANGED pauseOpen
  /\ PauseUnchanged

\* case <-framesClosed, case <-ctx.Done()
PauseReturns ==
  /\ run = "pauseWait" /\ (framesClosed \/ ctx)
  /\ run' = "returned" /\ awaited' = 0
  /\ pauseOpen' = FALSE
  /\ PauseUnchanged

-----------------------------------------------------------------------------
(* The writer goroutine.                                                   *)

WriterUnchanged == UNCHANGED <<ctx, audioVars, run, awaited, firstAttempt, reader,
                               link, strayVars, metVars, drops, netVars>>

\* The top of the loop: fetch gate.Changed(), then return errPause unless
\* gate.Active().  The ticker wakes the select below at any time, so the
\* channel fetched here is not kept.
WriterTest ==
  /\ writer = "test"
  /\ writer' = IF gate.active THEN "pop" ELSE "paused"
  /\ UNCHANGED <<ring, notify, chunk, lossVars>>
  /\ WriterUnchanged

\* Faulty variant: the chunk stays in the ring until it is written.
WriterPeek ==
  /\ writer = "pop"
  /\ IF ring = <<>> THEN writer' = "select" /\ UNCHANGED chunk
     ELSE writer' = "write" /\ chunk' = <<Head(ring)>>
  /\ UNCHANGED <<ring, notify, lossVars>>
  /\ WriterUnchanged

\* buf.pop()
WriterPop ==
  /\ writer = "pop"
  /\ IF ring = <<>> THEN writer' = "select" /\ UNCHANGED <<ring, chunk>>
     ELSE /\ writer' = "write"
          /\ chunk' = <<Head(ring)>>
          /\ ring' = Tail(ring)
  /\ UNCHANGED <<notify, lossVars>>
  /\ WriterUnchanged

\* conn.Write took the chunk, or the KeepAlive: the socket's buffer may do so
\* on a link that is stalled or already down.
WriteOk ==
  /\ writer = "write"
  /\ sent' = sent \o chunk
  /\ chunk' = <<>>
  /\ writer' = "test"
  /\ UNCHANGED <<ring, notify, cut>>
  /\ WriterUnchanged

\* conn.Write failed: the chunk is lost with the connection.
WriteFails ==
  /\ writer = "write"
  /\ link = "down" \/ ConnCancelled
  /\ cut' = cut \cup {chunk[i] : i \in DOMAIN chunk}
  /\ chunk' = <<>>
  /\ writer' = "failed"
  /\ UNCHANGED <<ring, notify, sent>>
  /\ WriterUnchanged

WriterSelects ==
  writer = "select" /\ WriterUnchanged /\ UNCHANGED <<ring, chunk, lossVars>>

\* Faulty variant: the end of the audio does not end the writer.
WriterEndsOnCancel ==
  /\ WriterSelects
  /\ ctx
  /\ writer' = "ended"
  /\ UNCHANGED notify

\* case <-framesClosed, when the ring is drained; case <-ctx.Done()
WriterEnds ==
  /\ WriterSelects
  /\ (framesClosed /\ ring = <<>>) \/ ctx
  /\ writer' = "ended"
  /\ UNCHANGED notify

\* case <-connCtx.Done()
WriterLoses ==
  /\ WriterSelects
  /\ ConnCancelled
  /\ writer' = "failed"
  /\ UNCHANGED notify

\* case <-buf.notify
WriterNotified ==
  /\ WriterSelects
  /\ notify /\ notify' = FALSE
  /\ writer' = "test"

\* case <-framesClosed with audio left, case <-gateChanged, the ticker; and
\* the ticker when a KeepAlive is due, which is written like a chunk.
WriterLoops ==
  /\ WriterSelects
  /\ writer' \in {"test", "write"}
  /\ UNCHANGED notify

-----------------------------------------------------------------------------
(* The reader, the network and the caller.                                 *)

NetUnchanged == UNCHANGED <<ctx, audioVars, ring, notify, run, awaited, firstAttempt,
                            writer, chunk, lossVars, metVars, drops, refused>>

ReaderStops ==
  /\ reader = "reading" /\ reader' = "done"
  /\ UNCHANGED <<link, strayVars, faults>>
  /\ NetUnchanged

\* conn.Read fails: the link is down or connCtx is cancelled.
ReaderFails == (link = "down" \/ ConnCancelled) /\ ReaderStops

\* The server closes its end after CloseStream.
ServerCloses == run = "drain" /\ ReaderStops

\* A reader left behind by its drain comes out of conn.Read, or of out <- t,
\* at last: its connCtx is cancelled.
StrayEnds ==
  /\ strays > 0 /\ strays' = strays - 1
  /\ UNCHANGED <<reader, link, overdue, faults>>
  /\ NetUnchanged

\* The link breaks or the server closes it, unasked.
LinkFails ==
  /\ link \in {"up", "stalled"} /\ run # "dial" /\ faults < MaxFaults
  /\ link' = "down"
  /\ faults' = faults + 1
  /\ UNCHANGED <<reader, strayVars>>
  /\ NetUnchanged

\* The link stops draining what is written to it, or drains it again; the
\* server leaves a handshake unanswered, or answers it after all.
LinkStalls ==
  /\ LET flows == IF run = "dial" THEN "none" ELSE "up"
     IN  \/ link = flows /\ (InConnection \/ run = "dial") /\ link' = "stalled"
         \/ link = "stalled" /\ link' = flows
  /\ UNCHANGED <<reader, strayVars, faults>>
  /\ NetUnchanged

Cancel ==
  /\ ~ctx /\ ctx' = TRUE
  /\ UNCHANGED <<audioVars, ring, notify, run, awaited, firstAttempt, connVars,
                 strayVars, lossVars, metVars, drops, netVars>>

\* Nothing is left to do: Run has returned and the pump has ended.
Finished == Returned /\ framesClosed /\ UNCHANGED vars

-----------------------------------------------------------------------------
Pump    == (\E loud \in BOOLEAN : PumpReceive(loud)) \/ PumpPush \/ PumpEnds
Dial    == DialOk \/ \E auth \in BOOLEAN : DialFails(auth)
RunStep == \/ RunTop \/ SleepEnds
           \/ WriterReports \/ ReaderReports
           \/ ReaderJoined \/ WriterJoined \/ DrainEnds
           \/ PauseArm \/ PauseTest \/ PauseWakes \/ PauseReturns
Write   == WriteOk \/ WriteFails
Writer  == \/ WriterTest \/ WriterPop \/ Write
           \/ WriterEnds \/ WriterLoses \/ WriterNotified \/ WriterLoops

Next == \/ Pump \/ Dial \/ RunStep \/ Writer \/ ReaderFails \/ ServerCloses
        \/ StrayEnds \/ LinkFails \/ LinkStalls \/ Cancel \/ Finished

Spec == Init /\ [][Next]_vars

\* conn.Write has no deadline, and connCtx is not derived from ctx; the dial
\* has none but ctx.
Blocked == writer = "write" /\ link = "stalled"
Unanswered == run = "dial" /\ link = "stalled"

(* Every goroutine that can run does; a network call ends one way or the   *)
(* other, except a write to a stalled link and, until ctx is done, a dial  *)
(* nobody answers; a Go select that keeps finding a case ready takes it    *)
(* some time (hence SF on the cases that end the writer).  Nothing obliges *)
(* the source to deliver or to end, the caller to cancel, the link to fail *)
(* or to drain.                                                            *)
Fairness ==
  /\ WF_vars(PumpPush) /\ WF_vars(ctx /\ PumpEnds)
  /\ WF_vars(RunStep) /\ WF_vars((ctx \/ ~Unanswered) /\ Dial)
  /\ WF_vars(~Blocked /\ Writer) /\ SF_vars(WriterEnds) /\ SF_vars(WriterLoses)
  /\ WF_vars(ReaderFails)

FairSpec == Spec /\ Fairness

-----------------------------------------------------------------------------
Frames == 1..Len(heard)
AtMostOne(S) == {<<>>} \cup {<<x>> : x \in S}

TypeOK ==
  /\ ctx \in BOOLEAN
  /\ pump \in {"recv", "push", "done"}
  /\ hand \in AtMostOne(Frames) /\ (hand = <<>> <=> pump # "push")
  /\ heard \in Seq(BOOLEAN)
  /\ gate \in Gates
  /\ ring \in Seq(Frames) /\ Len(ring) <= RingCap
  /\ notify \in BOOLEAN
  /\ run \in {"top", "dial", "sleep", "connected", "drain", "joinReader",
              "joinWriter", "pauseArm", "pauseTest", "pauseWait",
              "returned", "authError"}
  /\ awaited \in Nat
  /\ firstAttempt \in BOOLEAN
  /\ writer \in {"off", "test", "pop", "write", "select",
                 "paused", "ended", "failed"}
  /\ chunk \in AtMostOne(Frames) /\ (chunk # <<>> => writer = "write")
  /\ reader \in {"off", "reading", "done"}
  /\ link \in {"none", "up", "stalled", "down"}
  /\ strays \in Nat /\ overdue \in Nat
  /\ sent \in Seq(Frames) /\ cut \subseteq Frames
  /\ sttState \in {"idle", "connecting", "connected", "reconnecting", "paused"}
  /\ pauseOpen \in BOOLEAN
  /\ reconnects \in Nat /\ drops \in Nat /\ faults \in Nat /\ refused \in Nat

\* Every chunk somewhere between the source and the network, oldest first.
InFlight == sent \o chunk \o ring \o hand

Ascending(s) == \A i, j \in DOMAIN s : i < j => s[i] < s[j]

\* Across reconnects, pauses and evictions no chunk is sent twice and none
\* overtakes an older one: the recognizer hears the audio in the order it
\* was captured (ring.push, ring.pop, writeLoop).
SentOnceInOrder == Ascending(InFlight)

Pipe == INSTANCE AudioPipe WITH
          Capacity <- RingCap + 2, offered <- Len(heard),
          queue <- chunk \o ring \o hand, delivered <- sent

\* Pump, ring and writer are a bounded pipe that keeps the order, delivers
\* nothing twice and gives up only the oldest audio, through every pause,
\* reconnect, stall and cancellation (drop-oldest, ring.push; the chunk a
\* broken connection takes with it, writeLoop).
RefinesAudioPipe == Pipe!Spec

\* Frames the engine no longer holds and never sent.
Gone == Frames \ {InFlight[i] : i \in DOMAIN InFlight}

\* A connection that failed with a chunk in hand is not counted yet, or never
\* will be because ctx was done.
Unreported == writer = "failed" \/ (run = "returned" /\ ctx)

\* May Run have returned with audio in the ring or the pump's hand?  Nothing
\* counts what is left there.
LeftUncounted == ctx \/ run = "authError" \/ sttState = "paused"

EvictionsCounted == Cardinality({n \in Gone \ cut : heard[n]}) <= drops
CutsCounted   == Cardinality(cut) + refused <= reconnects + IF Unreported THEN 1 ELSE 0
EmptyAtReturn == Returned /\ ~LeftUncounted => ring = <<>> /\ hand = <<>> /\ chunk = <<>>

\* Where speech can be lost on the way to conn.Write, and what shows of it.  A
\* frame above the threshold that left the ring unwritten is a buffer drop,
\* or went with a failed write; of those there is at most one per broken
\* connection, each a reconnect that is not a failed dial.  What the ring holds
\* when Run returns is lost without a trace, which for the end of the audio
\* happens out of a pause only (EngineLastWords).  It needs the hold to outlast
\* the ring, as the defaults of 60 s and 2 s do.  What the buffers of a broken
\* link had taken is beyond it: conn.Write took that, so it counts as sent.
\* (ring.push; writeLoop's failed Write; Run's returns.)
LossIsAccounted == EvictionsCounted /\ CutsCounted /\ EmptyAtReturn

\* The pause clock of the metrics runs exactly while Run waits for the gate:
\* every way out of the wait stops it (STTPauseBegin, STTPauseEnd).
PauseAccounted ==
  /\ pauseOpen <=> InPause
  /\ pauseOpen => sttState = "paused"

\* A connection's writer is gone before Run does anything else: two writers
\* never pop the same ring.  So is its reader, unless drainTimeout passed: each
\* reader alive outside its connection is one such drain's (runConnection's
\* joins, finish).
NoStrayGoroutine ==
  /\ writer # "off" \/ reader # "off" => InConnection
  /\ strays <= overdue

\* Only the network makes a reconnect: neither a pause nor the end of the
\* audio is counted as one, however they interleave with the reader's end.
ReconnectsAreFaults == reconnects <= faults

\* Run returns only because ctx is done or the source has ended, not on a
\* dropped connection and not on a pause (the stt.Engine contract); a rejected
\* key ends it only before anything else was tried, not in mid-event.
ReturnsOnlyWhenOver ==
  /\ run = "returned" => ctx \/ framesClosed
  /\ run = "authError" => sent = <<>> /\ reconnects = 0

-----------------------------------------------------------------------------
\* After cancellation Run returns, wherever it was: dialling, backing off,
\* writing, draining or paused (runs of finitely many faults).  The one thing
\* that can hold it up is a write to a stalled link, which ctx cannot end.
CancelReturns == ctx ~> Returned \/ Blocked

\* When the source ends Run returns too, unless the link keeps it: in a write,
\* or in a dial to a server that accepts and never answers.
EndReturns == framesClosed ~> Returned \/ Blocked \/ Unanswered

\* Speech that ends a pause is noticed: Run never waits on a channel of the
\* gate while the gate is active (Changed() fetched before Active()).
ResumeNoticed == InPause /\ gate.active ~> ~InPause \/ ~gate.active

-----------------------------------------------------------------------------
\* "holding ~2 s of audio in a bounded drop-oldest ring so a brief blip
\* loses nothing" (DESIGN.md:159-160): as long as the ring never overflows,
\* speech is sent, in flight, or still to be sent.
BlipLosesNothing == drops = 0 /\ ~ctx => \A n \in Gone : ~heard[n]

\* "Ring is full of silence; nothing worth redialing for." (deepgram.go:188):
\* Run does not return for the end of the audio with speech left in the ring.
NothingLeftAtEnd ==
  run = "returned" /\ ~ctx => \A i \in DOMAIN ring : ~heard[ring[i]]
=============================================================================
