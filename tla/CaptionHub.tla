------------------------------ MODULE CaptionHub -----------------------------
(***************************************************************************)
(* The caption hub of internal/caption/hub.go with the goroutines around   *)
(* it: the hub goroutine of internal/cli/run.go publishing transcripts and *)
(* flushing at the end, the engine publishing its connection state through *)
(* the metrics hook, and one handleEvents goroutine per browser            *)
(* connection (internal/web/server.go) feeding a viewer page.              *)
(*                                                                         *)
(* A step ends where the hub's mutex is released or a channel is used.     *)
(* Text is a sequence of words.  The recognizer settles words 1, 2, 3 ...; *)
(* what it only guesses is the word Guess.  A line is identified by its    *)
(* number (ID "u<n>"), its text is closed[n].  A connection never returns: *)
(* a browser that reconnects is another member of Clients.                 *)
(***************************************************************************)
EXTENDS Integers, Sequences, FiniteSets

CONSTANTS Clients,           \* connections to /events
          SubscriberBuffer,  \* subscriberBuffer
          HistoryLimit,      \* historyLimit
          States,            \* the connection states PublishStatus carries
          MaxResults,        \* bound: transcripts published
          MaxStatus          \* bound: state changes published

ASSUME HubAssumption ==
  /\ SubscriberBuffer \in Nat \ {0} /\ HistoryLimit \in Nat \ {0}
  /\ MaxResults \in Nat /\ MaxStatus \in Nat

Guess == 0
NoState == "none"

\* Two goroutines broadcast: the session's hub goroutine and the engine's.
Publishers == {"hub", "status"}

VARIABLES
  committed, interim,  \* the utterance in progress
  uttSeq, history,     \* number of the last line; numbers kept for snapshots
  lastState,           \* lastState/lastDetail
  subs,                \* h.subs
  pub,                 \* the two publishing goroutines: [pc, ev, todo]
  chan, isClosed,      \* each subscriber's channel
  handler, snap,       \* each handleEvents goroutine, and the snapshot it built
  viewer,              \* what each page shows
  closed,              \* history: text of every line, in order
  announced,           \* history: utterance in progress, as last broadcast
  written,             \* lines OnFinal has been called with: the transcript
  words,               \* words the recognizer has settled
  results, changes,    \* counters of the bounds MaxResults and MaxStatus
  flushed,             \* has the session called Flush?
  slowDrops,           \* metrics: slow_disconnects_total
  joinedAt,            \* history: uttSeq when the client subscribed
  finals,              \* history: final events each client's channel took
  crashed              \* send on a closed channel: the process is gone

uttVars  == <<committed, interim, uttSeq, history, closed, announced, words>>
connVars == <<subs, chan, isClosed, handler, snap, viewer, joinedAt, finals>>
envVars  == <<results, changes, flushed>>
vars == <<uttVars, lastState, pub, connVars, written, envVars,
          slowDrops, crashed>>

\* Events carry what the viewer reads of them.
Final(n)    == [kind |-> "final", line |-> n]
Interim(t)  == [kind |-> "interim", text |-> t]
Status(s)   == [kind |-> "status", state |-> s]
Snapshot(ls, t, s) == [kind |-> "snapshot", lines |-> ls, text |-> t, state |-> s]

Idle == [pc |-> "idle", ev |-> <<>>, todo |-> {}]
Broadcasting(ev) == [pc |-> "targets", ev |-> ev, todo |-> {}]

Becomes(p, state) == pub' = [pub EXCEPT ![p] = state]

BlankPage == [lines |-> <<>>, text |-> <<>>, state |-> NoState, first |-> "none"]

Init ==
  /\ committed = <<>> /\ interim = <<>>
  /\ uttSeq = 0 /\ history = <<>> /\ closed = <<>> /\ announced = <<>> /\ words = 0
  /\ lastState = NoState
  /\ pub = [p \in Publishers |-> Idle]
  /\ subs = {}
  /\ chan = [c \in Clients |-> <<>>]
  /\ isClosed = [c \in Clients |-> FALSE]
  /\ handler = [c \in Clients |-> "out"]
  /\ snap = [c \in Clients |-> <<>>]
  /\ viewer = [c \in Clients |-> BlankPage]
  /\ joinedAt = [c \in Clients |-> 0]
  /\ finals = [c \in Clients |-> <<>>]
  /\ written = <<>>
  /\ results = 0 /\ changes = 0 /\ flushed = FALSE
  /\ slowDrops = 0 /\ crashed = FALSE

-----------------------------------------------------------------------------
(* Utterance assembly: the locked part of Publish.                         *)

\* joinText is concatenation: the empty text contributes no separator.
Pending == committed \o interim

\* Faulty variant: the oldest lines are kept.
KeepOldest(h) == SubSeq(h, 1, HistoryLimit)

\* The last HistoryLimit lines.
Trim(h) ==
  IF Len(h) > HistoryLimit
  THEN SubSeq(h, Len(h) - HistoryLimit + 1, Len(h)) ELSE h

\* The text a SpeechFinal closes: the interim tail is not part of it.
LineText(text) == committed \o text

\* case t.SpeechFinal: close the line, unless there is nothing to close.
CloseLine(text) ==
  LET full == LineText(text)
  IN  /\ committed' = <<>> /\ interim' = <<>>
      /\ IF full = <<>>
         THEN UNCHANGED <<uttSeq, history, closed, announced, pub>>
         ELSE /\ uttSeq' = uttSeq + 1
              /\ history' = Trim(Append(history, uttSeq'))
              /\ closed' = Append(closed, full)
              /\ announced' = <<>>
              /\ Becomes("hub", [pc |-> "onFinal", ev |-> Final(uttSeq'), todo |-> {}])

\* Faulty variant: a settled segment replaces what is committed.
CommitReplaces(text) ==
  /\ committed' = text /\ interim' = <<>>
  /\ announced' = committed'
  /\ Becomes("hub", Broadcasting(Interim(announced')))
  /\ UNCHANGED <<uttSeq, history, closed>>

\* case t.IsFinal: commit a segment, the line stays open.
Commit(text) ==
  /\ committed' = committed \o text /\ interim' = <<>>
  /\ announced' = committed'
  /\ Becomes("hub", Broadcasting(Interim(announced')))
  /\ UNCHANGED <<uttSeq, history, closed>>

\* An interim replaces the uncommitted tail only.
Revise(text) ==
  /\ interim' = text
  /\ announced' = committed \o text
  /\ Becomes("hub", Broadcasting(Interim(announced')))
  /\ UNCHANGED <<committed, uttSeq, history, closed>>

\* One transcript of the recognizer: a guess, a settled segment, the last
\* settled segment of an utterance, or a bare UtteranceEnd.
Publish ==
  /\ ~crashed /\ ~flushed /\ pub["hub"].pc = "idle" /\ results < MaxResults
  /\ results' = results + 1
  /\ \/ Revise(<<Guess>>) /\ UNCHANGED words
     \/ Commit(<<words + 1>>) /\ words' = words + 1
     \/ CloseLine(<<words + 1>>) /\ words' = words + 1
     \/ CloseLine(<<>>) /\ UNCHANGED words
  /\ UNCHANGED <<lastState, connVars, written, changes, flushed,
                 slowDrops, crashed>>

\* Flush, once the hub goroutine has consumed every transcript: publish an
\* empty SpeechFinal when an utterance is in progress.
Flush ==
  /\ ~crashed /\ ~flushed /\ pub["hub"].pc = "idle"
  /\ flushed' = TRUE
  /\ IF Pending = <<>> THEN UNCHANGED <<committed, interim, uttSeq, history, closed, announced, pub>>
     ELSE CloseLine(<<>>)
  /\ UNCHANGED <<words, lastState, connVars, written, results, changes,
                 slowDrops, crashed>>

\* OnFinal(line): the terminal and the transcript writer, off the lock.
OnFinal ==
  /\ ~crashed /\ pub["hub"].pc = "onFinal"
  /\ written' = Append(written, pub["hub"].ev.line)
  /\ Becomes("hub", Broadcasting(pub["hub"].ev))
  /\ UNCHANGED <<uttVars, lastState, connVars, envVars, slowDrops, crashed>>

\* PublishStatus, from the engine's goroutine.
PublishStatus(s) ==
  /\ ~crashed /\ pub["status"].pc = "idle" /\ changes < MaxStatus
  /\ changes' = changes + 1
  /\ lastState' = s
  /\ Becomes("status", Broadcasting(Status(s)))
  /\ UNCHANGED <<uttVars, connVars, written, results, flushed, slowDrops, crashed>>

-----------------------------------------------------------------------------
(* broadcast, by either publisher p.                                       *)

\* Copy the subscribers under the read lock.
Targets(p) ==
  /\ ~crashed /\ pub[p].pc = "targets"
  /\ Becomes(p, IF subs = {} THEN Idle
                ELSE [pub[p] EXCEPT !.pc = "send", !.todo = subs])
  /\ UNCHANGED <<uttVars, lastState, connVars, written, envVars, slowDrops, crashed>>

\* Faulty variant: a target that took the event is not done with.
StillTarget(p, c) == pub[p]

\* The publisher once c has been served.
Sent(p, c) ==
  LET left == pub[p].todo \ {c}
  IN  IF left = {} THEN Idle ELSE [pub[p] EXCEPT !.todo = left]

Room(c) == Len(chan[c]) < SubscriberBuffer

\* Faulty variants: a full channel blocks the publisher; a drop is not
\* counted.
BlockOnFull(c) == Room(c) /\ UNCHANGED <<chan, finals, slowDrops>>
DropSilently(c) == ~Room(c) /\ UNCHANGED <<chan, finals, slowDrops>>

\* default: STTSlowDrop
DropEvent(c) ==
  ~Room(c) /\ slowDrops' = slowDrops + 1 /\ UNCHANGED <<chan, finals>>

\* case ch <- ev
Deliver(c, ev) ==
  /\ Room(c)
  /\ chan' = [chan EXCEPT ![c] = Append(@, ev)]
  /\ finals' = IF ev.kind # "final" THEN finals
               ELSE [finals EXCEPT ![c] = Append(@, ev.line)]
  /\ UNCHANGED slowDrops

\* One iteration of the send loop; a channel closed meanwhile panics.
Send(p, c) ==
  /\ ~crashed /\ pub[p].pc = "send" /\ c \in pub[p].todo
  /\ IF isClosed[c]
     THEN crashed' = TRUE /\ UNCHANGED <<pub, chan, finals, slowDrops>>
     ELSE /\ Deliver(c, pub[p].ev) \/ DropEvent(c)
          /\ Becomes(p, Sent(p, c))
          /\ UNCHANGED crashed
  /\ UNCHANGED <<uttVars, lastState, subs, isClosed, handler, snap, viewer,
                 joinedAt, written, envVars>>

-----------------------------------------------------------------------------
(* Connections: handleEvents and the page behind it.                       *)

HandlerUnchanged == UNCHANGED <<uttVars, lastState, pub, written,
                                envVars, slowDrops, crashed>>

\* Faulty variant: the snapshot and the registration under separate locks.
SubscribeInTwo(c) ==
  /\ ~crashed /\ handler[c] = "out"
  /\ IF snap[c] = <<>>
     THEN /\ snap' = [snap EXCEPT ![c] = Snapshot(history, Pending, lastState)]
          /\ UNCHANGED <<handler, subs>>
     ELSE /\ handler' = [handler EXCEPT ![c] = "joining"]
          /\ subs' = subs \cup {c}
          /\ UNCHANGED snap
  /\ UNCHANGED <<chan, isClosed, viewer, finals, joinedAt>>
  /\ HandlerUnchanged

\* Subscribe, under the lock: take the snapshot and register.
Subscribe(c) ==
  /\ ~crashed /\ handler[c] = "out"
  /\ handler' = [handler EXCEPT ![c] = "joining"]
  /\ snap' = [snap EXCEPT ![c] = Snapshot(history, Pending, lastState)]
  /\ subs' = subs \cup {c}
  /\ joinedAt' = [joinedAt EXCEPT ![c] = uttSeq]
  /\ UNCHANGED <<chan, isClosed, viewer, finals>>
  /\ HandlerUnchanged

\* ch <- snap, after the unlock: it waits for room like any send.
SendSnapshot(c) ==
  /\ ~crashed /\ handler[c] = "joining" /\ Room(c)
  /\ handler' = [handler EXCEPT ![c] = "streaming"]
  /\ chan' = [chan EXCEPT ![c] = Append(@, snap[c])]
  /\ snap' = [snap EXCEPT ![c] = <<>>]
  /\ UNCHANGED <<subs, isClosed, viewer, joinedAt, finals>>
  /\ HandlerUnchanged

\* The page's onmessage.
Show(page, ev) ==
  LET seen == [page EXCEPT !.first = IF @ = "none" THEN ev.kind ELSE @]
  IN  CASE ev.kind = "snapshot" ->
             [seen EXCEPT !.lines = ev.lines, !.text = ev.text,
                          !.state = IF ev.state = NoState THEN @ ELSE ev.state]
        [] ev.kind = "final" ->
             [seen EXCEPT !.lines = Append(@, ev.line), !.text = <<>>]
        [] ev.kind = "interim" -> [seen EXCEPT !.text = ev.text]
        [] ev.kind = "status" -> [seen EXCEPT !.state = ev.state]

\* handleEvents writes the next event and the page applies it.
Stream(c) ==
  /\ ~crashed /\ handler[c] = "streaming" /\ chan[c] # <<>>
  /\ viewer' = [viewer EXCEPT ![c] = Show(@, Head(chan[c]))]
  /\ chan' = [chan EXCEPT ![c] = Tail(@)]
  /\ UNCHANGED <<subs, isClosed, handler, snap, joinedAt, finals>>
  /\ HandlerUnchanged

\* The request ends: unsubscribe removes the channel under the lock ...
Unsubscribe(c) ==
  /\ ~crashed /\ handler[c] = "streaming"
  /\ handler' = [handler EXCEPT ![c] = "leaving"]
  /\ subs' = subs \ {c}
  /\ viewer' = [viewer EXCEPT ![c] = BlankPage]
  /\ UNCHANGED <<chan, isClosed, snap, joinedAt, finals>>
  /\ HandlerUnchanged

\* ... and closes it after the unlock.  Nobody reads what it still holds.
CloseChannel(c) ==
  /\ ~crashed /\ handler[c] = "leaving"
  /\ handler' = [handler EXCEPT ![c] = "gone"]
  /\ isClosed' = [isClosed EXCEPT ![c] = TRUE]
  /\ chan' = [chan EXCEPT ![c] = <<>>]
  /\ finals' = [finals EXCEPT ![c] = <<>>]
  /\ joinedAt' = [joinedAt EXCEPT ![c] = 0]
  /\ UNCHANGED <<subs, snap, viewer>>
  /\ HandlerUnchanged

-----------------------------------------------------------------------------
Broadcast(p) == Targets(p) \/ \E c \in Clients : Send(p, c)
HubStep      == OnFinal \/ Broadcast("hub")
StatusStep   == Broadcast("status")
Connection(c) == \/ Subscribe(c) \/ SendSnapshot(c) \/ Stream(c)
                 \/ Unsubscribe(c) \/ CloseChannel(c)

Next == \/ Publish \/ Flush \/ HubStep
        \/ (\E s \in States : PublishStatus(s)) \/ StatusStep
        \/ \E c \in Clients : Connection(c)

Spec == Init /\ [][Next]_vars

(* The publishing goroutines run on; no browser is obliged to read, and    *)
(* none to leave.                                                          *)
FairSpec == Spec /\ WF_vars(HubStep) /\ WF_vars(StatusStep)

-----------------------------------------------------------------------------
\* The words of `text` are the ones that follow word w, in order.
Follows(text, w) == \A i \in DOMAIN text : text[i] = w + i

\* The last word of line n.
LastWord(n) == IF n = 0 THEN 0 ELSE closed[n][Len(closed[n])]

\* The line that is closed and not yet handed to OnFinal.
Unwritten == IF pub["hub"].pc = "onFinal" THEN <<pub["hub"].ev.line>> ELSE <<>>

\* Every settled word is in the transcript exactly once and in order, in a
\* line or in the one in progress, and no guess ever is (Publish); every line
\* is written exactly once and in order (OnFinal); and what a late joiner is
\* given of it ends with the newest line and has no gap: the last HistoryLimit
\* lines (Publish's trim).
TranscriptIsTheSpeech ==
  /\ written \o Unwritten = [n \in 1..uttSeq |-> n]
  /\ \A n \in 1..uttSeq : closed[n] # <<>> /\ Follows(closed[n], LastWord(n - 1))
  /\ Follows(committed, LastWord(uttSeq))
  /\ words = LastWord(uttSeq) + Len(committed)
  /\ LET older == IF uttSeq > HistoryLimit THEN uttSeq - HistoryLimit ELSE 0
     IN  history = [i \in 1..uttSeq - older |-> older + i]

\* The line publisher p still has to offer to c, if any.
InHand(p, c) ==
  IF p.pc # "idle" /\ p.ev.kind = "final" /\ (p.pc = "send" => c \in p.todo)
  THEN {p.ev.line} ELSE {}

\* Lines closed since c subscribed that no send has put in its channel.
Missed(c) ==
  (joinedAt[c] + 1 .. uttSeq) \ ({finals[c][i] : i \in DOMAIN finals[c]}
                                 \cup InHand(pub["hub"], c))

\* A registered browser that misses a line is counted: nothing else than a
\* full channel, seen by /api/stats, keeps a line from it (broadcast).
MissesAreCounted ==
  \A c \in subs : Cardinality(Missed(c)) <= slowDrops

\* A browser takes the lines in the order they were closed, each at most
\* once from the hub, whatever the two publishers interleave.
LinesInOrder ==
  \A c \in Clients : \A i, j \in DOMAIN finals[c] :
    i < j => finals[c][i] < finals[c][j]

Quiet == \A p \in Publishers : pub[p] = Idle

\* A page that began with its snapshot and lost nothing to a full channel
\* shows, once everything sent has arrived, all recent lines, the utterance
\* in progress and the connection state: no window between Subscribe and
\* broadcast loses an update (the client/server contract of index.html).
\* The exception is the code's: an utterance of guesses alone is discarded
\* without an event (hub.go:109-112), and pages go on showing it.
PageIsCurrent ==
  \A c \in Clients :
    /\ handler[c] = "streaming" /\ Quiet /\ chan[c] = <<>> /\ slowDrops = 0
    /\ viewer[c].first = "snapshot"
    => /\ {history[i] : i \in DOMAIN history}
            \subseteq {viewer[c].lines[i] : i \in DOMAIN viewer[c].lines}
       /\ viewer[c].text \in {Pending, announced}
       /\ viewer[c].state = lastState

\* A browser has left, its channel is closed, and a publisher that copied the
\* subscribers before still means to send to it.
SendsToClosed == \E p \in Publishers : \E c \in pub[p].todo : isClosed[c]

\* A publisher always gets through its broadcast, whether or not any browser
\* reads: captions never wait for a page (broadcast's default case).  Only a
\* browser that leaves during the broadcast can stop it, and it then stops the
\* process: the send on its closed channel panics (hub.go:222, 247-256).
PublishersNeverWait ==
  \A p \in Publishers : pub[p] # Idle ~> pub[p] = Idle \/ SendsToClosed

-----------------------------------------------------------------------------
\* "Called at shutdown so the tail of a session is not lost when the speaker
\* was still talking" (hub.go:177-178): what is in progress when Flush runs
\* becomes a line.
FlushKeepsTheTail ==
  [][~flushed /\ flushed' /\ Pending # <<>>
       => uttSeq' > uttSeq /\ closed'[uttSeq'] = Pending]_vars

\* "The first event delivered is always a snapshot" (hub.go:195).
SnapshotComesFirst ==
  \A c \in Clients : viewer[c].first \in {"none", "snapshot"}
=============================================================================
